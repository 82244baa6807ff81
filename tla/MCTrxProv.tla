------------------------------ MODULE MCTrxProv ------------------------------
(***************************************************************************)
(* TrxProv for TLC: four setups, each with behaviour that the others have *)
(* not, since their product is out of reach.                               *)
(***************************************************************************)
EXTENDS TrxProv

\* A first start: the BTS knows a higher TRXD version than the transceiver, the nominal
\* power is read, and POWERON may be rejected.
FirstStart ==
    [arfcns |-> {"a"}, slotTypes |-> {"tch"}, verMax |-> 2, trxVer |-> 1,
     byVty |-> FALSE, maxSlots |-> 1, maxRejects |-> 1, maxChanges |-> 0]

\* Timeslots are configured, and configured again, at any time.
Slotted ==
    [arfcns |-> {"a"}, slotTypes |-> {"sdcch", "tch"}, verMax |-> 0, trxVer |-> 1,
     byVty |-> FALSE, maxSlots |-> 3, maxRejects |-> 0, maxChanges |-> 0]

\* A lost A-bis link or a second ARFCN, in any phase of provisioning.
Reopened ==
    [arfcns |-> {"a", "b"}, slotTypes |-> {}, verMax |-> 0, trxVer |-> 1,
     byVty |-> TRUE, maxSlots |-> 0, maxRejects |-> 0, maxChanges |-> 1]

\* The same with a timeslot configuration on the way.
ReopenedSlotted ==
    [arfcns |-> {"a"}, slotTypes |-> {"tch"}, verMax |-> 0, trxVer |-> 1,
     byVty |-> TRUE, maxSlots |-> 1, maxRejects |-> 0, maxChanges |-> 1]

MCSetups == {FirstStart, Slotted, Reopened, ReopenedSlotted}
=============================================================================
