\* Every pool and trait: what one repainted rectangle leaves on the screen.
SPECIFICATION EncoderSpec
CONSTANTS
  Width = 5
  UsedPools <- EveryPool
  Contents <- EveryContents
  Opaque <- OpaqueLooks
INVARIANTS EncoderTypeOK OnlyKnownGapsAreStale
PROPERTIES UnchangedFrameIsNotDrawn
