SPECIFICATION Spec
CONSTANTS
  gear = gear
  home = home
  star = star
  left = left
  right = right
  Handles = {gear, home, star}
  Cells = {left, right}
  None = None
  MaxEdits = 1
  MaxDispatches = 5
  MaxAge = 2
SYMMETRY Interchangeable
INVARIANTS TypeOK OneOwnerEach DrawnIsTheIcon TextureIsCurrent
