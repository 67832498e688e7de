\* Flags, requests and layer writes over skipped, abandoned and failed frames.
SPECIFICATION Spec
CONSTANTS
  a = a
  b = b
  Look = {a, b}
  MaxPrims = 2
  MaxPublished = 3
  Requests = {TRUE, FALSE}
  Writes <- AnyWrites
CONSTRAINT OneThingAtATime
INVARIANTS TypeOK ScreenShowsItsFrame CarriesWhatIsOwed
PROPERTIES ImplementsDisplay
