--------------------------- MODULE MCHeartbeating ---------------------------
(* Small instances of Heartbeating: where each instance runs.              *)
EXTENDS Heartbeating, TLC

CONSTANTS g1, g2, d1, d2, listener, reader, dumper

Zero == g1 :> 0
Apart == (g1 :> 0) @@ (g2 :> 1)
OnOne == g1 :> d1
OnSame == (g1 :> d1) @@ (g2 :> d1)
OnBoth == (g1 :> d1) @@ (g2 :> d2)
=============================================================================
