------------------------------- MODULE MCCall -------------------------------
(* Two parts of a call for TLC, one at a time, since they share no state:     *)
(* downlink DTX while the phone stands still and its power is fixed, and the  *)
(* control loops while the speech path rests.                                 *)
EXTENDS DtxDlAmr, LinkCtrl

VARIABLE part      \* the part of the call that proceeds: "dtx", "link"

MCConfigs ==
  {[alpha |-> 0, itv |-> 0, noise |-> 0, c0 |-> FALSE, ts7 |-> FALSE],
   [alpha |-> 50, itv |-> 0, noise |-> 0, c0 |-> TRUE, ts7 |-> FALSE],
   [alpha |-> 50, itv |-> 0, noise |-> -89, c0 |-> FALSE, ts7 |-> FALSE],
   [alpha |-> 50, itv |-> 1, noise |-> -95, c0 |-> TRUE, ts7 |-> TRUE]}

LinkStill ==
  /\ cfg = CHOOSE c \in Configs : ~c.c0
  /\ ms = [max |-> 5, current |-> 5, dpc |-> FALSE, skip |-> 0, avg |-> NoAvg]
  /\ bs = [max |-> 30, current |-> 0, dpc |-> FALSE, skip |-> 0, avg |-> NoAvg]
  /\ ta = [current |-> 0, skip |-> 0]
  /\ c0red = 0
  /\ radio = [loss |-> 100, delay |-> 0]
  /\ phone = NewPhone(5, 0, 0)
  /\ n = 0
  /\ lax = FALSE
  /\ cap = 0

MCInit ==
  /\ Init
  /\ \/ part = "dtx" /\ LinkStill
     \/ part = "link" /\ ~half /\ LinkInit

MCNext ==
  \/ part = "dtx" /\ Next /\ UNCHANGED <<part, lvars>>
  \/ part = "link" /\ LinkNext /\ UNCHANGED <<part, vars>>

mcvars == <<part, vars, lvars>>

Block == part = "link" /\ lchan_meas_handle_sacch("report") /\ UNCHANGED <<part, vars>>

MCSpec == MCInit /\ [][MCNext]_mcvars /\ WF_mcvars(Block)
=============================================================================
