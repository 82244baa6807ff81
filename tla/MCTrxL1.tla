------------------------------ MODULE MCTrxL1 ------------------------------
(* Layer 1 of osmo-bts-trx for TLC.  Its parts share no state and are taken  *)
(* one at a time: the power of a TRX, the frame clock, the uplink of a       *)
(* channel and the downlink of a timeslot.                                   *)
EXTENDS TxPower, SchedClock, SchedUl, SchedDl

VARIABLE part      \* the part that proceeds: "power", "clock", "ul", "dl"

MCJumps == {-2, 7}
MCResyncs == {-3, -8}

\* A part that does not proceed stays in one of its initial states.
MCInit ==
    /\ part \in {"power", "clock", "ul", "dl"}
    /\ Init
    /\ part # "power" => /\ ramp = AtRest(0) /\ maxout = 11000 /\ red = 0 /\ forced = NotForced
                         /\ admin = "LOCKED"
    /\ ClockInit
    /\ UlInit /\ (part # "ul" => ~chan.ho)
    /\ DlInit /\ (part # "dl" => tn = 0)

MCNext ==
    \/ part = "power" /\ Next /\ UNCHANGED <<part, clkvars, ulvars, dlvars>>
    \/ part = "clock" /\ ClockNext /\ UNCHANGED <<part, vars, ulvars, dlvars>>
    \/ part = "ul" /\ UlNext /\ UNCHANGED <<part, vars, clkvars, dlvars>>
    \/ part = "dl" /\ DlNext /\ UNCHANGED <<part, vars, clkvars, ulvars>>

mcvars == <<part, vars, clkvars, ulvars, dlvars>>

InPower(A) == part = "power" /\ A /\ UNCHANGED <<part, clkvars, ulvars, dlvars>>
InClock(A) == part = "clock" /\ A /\ UNCHANGED <<part, vars, ulvars, dlvars>>

\* The fairness of TxPower!FairSpec; frames pass, and the process gets to handle what
\* is ready.
MCSpec ==
    /\ MCInit /\ [][MCNext]_mcvars
    /\ WF_mcvars(InPower(RampTimer)) /\ WF_mcvars(InPower(l1if_setpower_att_cb))
    /\ WF_mcvars(InClock(\E sends \in BOOLEAN : Frame(sends)))
    /\ WF_mcvars(InClock(ClockHandlers))
=============================================================================
