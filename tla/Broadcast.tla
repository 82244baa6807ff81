------------------------------ MODULE Broadcast ------------------------------
(***************************************************************************)
(* What a BTS broadcasts on behalf of the BSC, besides system information: *)
(* cell broadcast messages and notifications of group calls.  The two      *)
(* cell broadcast channels and the notifications share nothing but the     *)
(* reset that the FSM of the BTS object does when it is taken down         *)
(* (common/nm_bts_fsm.c), so that behaviours in which the BSC uses one of  *)
(* them show all that can happen to it.                                    *)
(***************************************************************************)
EXTENDS Cbch, Notification

VARIABLE inUse   \* what the BSC uses: a cell broadcast channel, or the "nch"

vars == <<cbchVars, nchVars, inUse>>

Init == CbchInit /\ NchInit /\ inUse \in Cbchs \cup {"nch"}

\* st_op_disabled_notinstalled_on_enter() of the BTS object.
NotInstalled == bts_cbch_reset /\ bts_asci_notification_reset

Next ==
    /\ \/ inUse \in Cbchs /\ CbchNext(inUse) /\ UNCHANGED nchVars
       \/ inUse = "nch" /\ NchNext /\ UNCHANGED cbchVars
       \/ NotInstalled
    /\ UNCHANGED inUse

\* Layer 1 asks for a block in every multiframe.
CbchBlock == inUse \in Cbchs /\ bts_cbch_get /\ UNCHANGED <<nchVars, inUse>>
Spec == Init /\ [][Next]_vars /\ WF_vars(CbchBlock)

\* Messages are allocated, sent and freed consistently on both channels.
BroadcastInv == CbchTypeOK /\ NchTypeOK /\ CbchMemory /\ OneMessagePerPeriod
=============================================================================
