----------------------------- MODULE MCGuardSet -----------------------------
(* The guard set over a few keys, two pairs of which collide; the initial  *)
(* table just holds the first guards mirrored, so growing, rebuilding,     *)
(* probing around the end and both ways of emptying all happen.            *)
EXTENDS GuardSet, TLC

CONSTANTS k1, k2, k3, k4, k5

MCKeys == {k1, k2, k3, k4, k5}
MCHash == k1 :> 3 @@ k2 :> 3 @@ k3 :> 7 @@ k4 :> 0 @@ k5 :> 4
=============================================================================
