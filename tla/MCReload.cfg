SPECIFICATION FairSpec
CONSTANTS
  int = int
  text = text
  before = before
  after = after
  helper = helper
  Types = {int, text}
  Bodies = {before, after}
  Views = {helper}
  None = None
  Empty = Empty
  Broken = Broken
  Programs <- Edits
  MaxSaves = 3
INVARIANTS TypeOK ValuesFitTheTree
PROPERTIES OnlyRetypedStateIsLost SavedProgramRuns
