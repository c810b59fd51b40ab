------------------------------ MODULE MCGuards ------------------------------
(* Guards for TLC: two threads, one fingerprint with a pattern and one     *)
(* without, and limits small enough to be reached within a few calls.      *)
EXTENDS Guards, TLC

CONSTANTS t1, t2, poll, read, key

WithPattern == poll :> key @@ read :> None
TwoAndOne == t1 :> 2 @@ t2 :> 1
=============================================================================
