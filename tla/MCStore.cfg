SPECIFICATION FairSpec
CONSTANTS
  one = one
  other = other
  first = first
  second = second
  k = k
  l = l
  v = v
  nan = nan
  Stores = {one, other}
  Calls = {first, second}
  Keys = {k, l}
  Values = {v, nan}
  Lossy = {nan}
  Unit = Unit
  Absent = Absent
  NoFile = NoFile
  Torn = Torn
  Unread = Unread
  Nobody = Nobody
CHECK_DEADLOCK FALSE
INVARIANTS TypeOK FileIsWhatWasSaid
PROPERTIES EveryCallIsAnswered ImplementsDurableMap
