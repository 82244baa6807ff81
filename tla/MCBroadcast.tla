----------------------------- MODULE MCBroadcast -----------------------------
(* Broadcast for TLC: a limit that the hysteresis reaches, and one below it.  *)
EXTENDS Broadcast
MCSmscbCfgs == {[max |-> 2, tgt |-> 1, hyst |-> 1], [max |-> 1, tgt |-> 1, hyst |-> 2]}
=============================================================================
