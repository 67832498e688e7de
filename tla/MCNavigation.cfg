SPECIFICATION Spec
CONSTANTS
  home = home
  list = list
  detail = detail
  nowhere = nowhere
  Paths = {home, list, detail, nowhere}
  Matched = {home, list, detail}
  First = home
  None = None
  MaxDepth = 2
  MaxScreens = 5
INVARIANTS TypeOK StackIsWhole ScreenPathAndNewsAgree
PROPERTIES ScreensArePreserved
