\* Filled paths and fading containers that change: are they repainted?
SPECIFICATION EncoderSpec
CONSTANTS
  Width = 5
  UsedPools <- PlainPools
  Contents <- PlainContents
  Opaque <- OpaqueLooks
INVARIANT EveryChangeIsRepainted
