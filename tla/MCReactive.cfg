SPECIFICATION Spec
CONSTANTS
  count = count
  flag = flag
  no = no
  yes = yes
  Signals = {count, flag}
  Values = {no, yes}
  Truthy = {yes}
  Unit = Unit
  Gone = Gone
  MaxOpens = 3
SYMMETRY Interchangeable
INVARIANTS TypeOK NoWriteIsMissed LinksAreMutual
PROPERTIES OnceATick
