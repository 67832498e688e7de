SPECIFICATION Spec
CONSTANTS
  row = row
  button = button
  icon = icon
  field = field
  other = other
  scrim = scrim
  ok = ok
  None = None
  Elements = {row, button, icon, field, other, scrim, ok}
  Scrims = {scrim}
  Unrecorded = {icon, scrim}
  Focusable = {button, field, other, ok}
  Captures = {field}
  Tracked = {row}
  Radios = {button, other}
  Tabs = {ok}
  Frames <- Pages
  Built <- BuiltOf
  Painted <- PaintedOf
  Area <- AreaOf
  Disabled <- DisabledIn
  Listens <- Hears
  Activates = {button, other, ok}
INVARIANTS TypeOK EveryoneIsTold
PROPERTIES InputGoesWhereItMay
