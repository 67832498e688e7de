------------------------------ MODULE MCBridge ------------------------------
EXTENDS Bridge

(* A branch with a change effect and an `every`, a screen with an `on mount`, *)
(* an `after` and an `on unmount`.                                            *)
KindOf == << "change", "mount", "every", "after", "unmount" >>
HomeOf == << "branch", "screen", "branch", "screen", "screen" >>
=============================================================================
