-------------------------------- MODULE NmTree --------------------------------
(***************************************************************************)
(* The managed objects of A-bis network management and their FSMs: site    *)
(* manager and BTS (nm_bts_sm_fsm.c, nm_bts_fsm.c), and for each TRX the   *)
(* radio carrier, the baseband transceiver and the timeslots               *)
(* (nm_radio_carrier_fsm.c, nm_bb_transc_fsm.c, nm_channel_fsm.c), driven  *)
(* by the BSC (OML SetAttr and Opstart), the RSL links, the phy link, and  *)
(* a shutdown.                                                             *)
(*                                                                         *)
(* A managed object is a record of its FSM state, mo.setattr_success,      *)
(* mo.opstart_success and whether its administrative state announces a     *)
(* shutdown.  Operational and availability state follow the FSM state.  A  *)
(* handler of a TRX's objects maps the record of all of them to the next;  *)
(* dispatching to the timeslots is part of it.  The TRXs share a phy link. *)
(* "model" is what the BTS model fixes, the same for all TRXs.  "ahead",   *)
(* which the code does not have, holds the timeslots put into service      *)
(* while their parents were not: the code acknowledges an Opstart that     *)
(* comes too early, or is answered too late.                               *)
(***************************************************************************)
EXTENDS Naturals

CONSTANTS
    Trx,     \* the TRXs
    Tn,      \* timeslot numbers
    Models   \* the BTS models: [dep |-> ..., late |-> ...]

\* dep: BTS_INTERNAL_FLAG_NM_RCHANNEL_DEPENDS_RCARRIER; late: layer 1 answers the Opstart
\* of carriers and timeslots later, and the process ends with a shutdown.
ASSUME NmAssumption == Models \subseteq [dep : BOOLEAN, late : BOOLEAN]

VARIABLES
    sm, bts,   \* the managed objects above the TRXs
    trx,       \* trx[t]: the managed objects of TRX t
    pend,      \* Opstarts that layer 1 has not answered: <<t, "rc">> or <<t, n>>
    link,      \* the state of the phy link
    rsl,       \* rsl[t]: the RSL link of t, "none", "connecting" or "up"
    oml,       \* is there an OML link?
    shutdown   \* the shutdown FSM: "none", "ramping" or "closing"

vars == <<sm, bts, trx, pend, link, rsl, oml, shutdown>>

Mo(States) == [st : States, attr : BOOLEAN, op : BOOLEAN, shut : BOOLEAN]
ParentStates == {"NOTINSTALLED", "OFFLINE", "ENABLED"}
ChanStates == ParentStates \cup {"DEPENDENCY"}
TrxMo == [rc : Mo(ParentStates), bb : Mo(ParentStates), ch : [Tn -> Mo(ChanStates)],
          model : Models, ahead : SUBSET Tn]

\* The type of the state.
TypeOK ==
    /\ sm \in Mo(ParentStates) /\ bts \in Mo(ParentStates)
    /\ trx \in [Trx -> TrxMo]
    /\ pend \subseteq (Trx \X {"rc"}) \cup (Trx \X Tn)
    /\ link \in {"SHUTDOWN", "CONNECTING", "CONNECTED"}
    /\ rsl \in [Trx -> {"none", "connecting", "up"}]
    /\ oml \in BOOLEAN
    /\ shutdown \in {"none", "ramping", "closing"}
-----------------------------------------------------------------------------
(* Entering a state.                                                       *)

NotInstalled == [st |-> "NOTINSTALLED", attr |-> FALSE, op |-> FALSE, shut |-> FALSE]
Offline(m) == [st |-> "OFFLINE", attr |-> FALSE, op |-> FALSE, shut |-> m.shut]
Enabled(m) == [st |-> "ENABLED", attr |-> m.attr, op |-> m.op, shut |-> m.shut]

\* A timeslot keeps its attributes.
ChDependency(c) == [st |-> "DEPENDENCY", attr |-> c.attr, op |-> FALSE, shut |-> c.shut]
ChOffline(c) == [st |-> "OFFLINE", attr |-> c.attr, op |-> FALSE, shut |-> c.shut]

ts_can_be_enabled(m, b, r) == b.st = "ENABLED" /\ (m.dep => r.st = "ENABLED")
-----------------------------------------------------------------------------
(* The timeslots of a TRX of model m with baseband transceiver b and       *)
(* carrier r: the events SW_ACT, BBTRANSC_ENABLED or RCARRIER_ENABLED, and *)
(* BBTRANSC_DISABLED or RCARRIER_DISABLED.                                 *)

ChSwAct(ch, m, b, r) ==
    [n \in Tn |-> IF ch[n].st # "NOTINSTALLED" THEN ch[n]
                  ELSE IF ts_can_be_enabled(m, b, r) THEN ChOffline(ch[n])
                  ELSE ChDependency(ch[n])]

MutNobodyWakes(ch, m, b, r) == ch
ChParentEnabled(ch, m, b, r) ==
    [n \in Tn |-> IF ch[n].st = "DEPENDENCY" /\ ts_can_be_enabled(m, b, r)
                  THEN ChOffline(ch[n]) ELSE ch[n]]

ChParentDisabled(ch, m, b, r) ==
    [n \in Tn |-> IF ch[n].st \in {"OFFLINE", "ENABLED"} /\ ~ts_can_be_enabled(m, b, r)
                  THEN ChDependency(ch[n]) ELSE ch[n]]
-----------------------------------------------------------------------------
(* The carrier and the baseband transceiver.                               *)

\* The check at the end of st_op_disabled_offline(): enable when the links are there
\* and the BSC has done its part, and tell the timeslots.
RcCheck(T, up) ==
    IF T.rc.st = "OFFLINE" /\ up /\ T.rc.attr /\ T.rc.op
    THEN [T EXCEPT !.rc = Enabled(@), !.ch = ChParentEnabled(@, T.model, T.bb, Enabled(T.rc))]
    ELSE T
BbCheck(T, up) ==
    IF T.bb.st = "OFFLINE" /\ up /\ T.bb.op
    THEN [T EXCEPT !.bb = Enabled(@), !.ch = ChParentEnabled(@, T.model, Enabled(T.bb), T.rc)]
    ELSE T

\* st_op_enabled() on PHYLINK_DOWN or DISABLE, with the timeslots.
RcDisable(T) ==
    IF T.rc.st = "ENABLED"
    THEN [T EXCEPT !.rc = Offline(@), !.ch = ChParentDisabled(@, T.model, T.bb, Offline(T.rc))]
    ELSE T
BbDisable(T) ==
    IF T.bb.st = "ENABLED"
    THEN [T EXCEPT !.bb = Offline(@), !.ch = ChParentDisabled(@, T.model, Offline(T.bb), T.rc)]
    ELSE T
Disable(T) == BbDisable(RcDisable(T))

\* SW_ACT to the carrier and then to the baseband transceiver.
SwAct(T) ==
    LET r == IF T.rc.st = "NOTINSTALLED" THEN Offline(T.rc) ELSE T.rc
        b == IF T.bb.st = "NOTINSTALLED" THEN Offline(T.bb) ELSE T.bb
    IN
    [T EXCEPT !.rc = r, !.bb = b,
              !.ch = IF T.bb.st = "NOTINSTALLED" THEN ChSwAct(@, T.model, b, r) ELSE @]

\* SHUTDOWN_START and SHUTDOWN_FINISH, propagated to the timeslots.
Announce(m) == [m EXCEPT !.shut = TRUE]
StartShutdown(T) ==
    [T EXCEPT !.rc = Announce(@), !.bb = Announce(@), !.ch = [n \in Tn |-> Announce(@[n])]]
Removed(m) == [rc |-> NotInstalled, bb |-> NotInstalled, ch |-> [n \in Tn |-> NotInstalled],
               model |-> m, ahead |-> {}]
MutFinishKeepsSlots(T) == [Removed(T.model) EXCEPT !.ch = T.ch]
FinishShutdown(T) == Removed(T.model)
-----------------------------------------------------------------------------
(* The process has started: phy_links_open() has sent SW_ACT.              *)

Init ==
    /\ sm = NotInstalled /\ bts = NotInstalled
    /\ \E m \in Models : trx = [t \in Trx |-> SwAct(Removed(m))]
    /\ pend = {}
    /\ link = "CONNECTING"
    /\ rsl = [t \in Trx |-> "none"]
    /\ oml = FALSE
    /\ shutdown = "none"

\* bts_link_estab(): OML_UP from the site manager downwards; the BTS reopens a phy link
\* that was shut down, whereupon the TRXs get PHYLINK_DOWN and SW_ACT.
OmlUp ==
    /\ ~oml /\ shutdown = "none"
    /\ oml' = TRUE
    /\ sm' = IF sm.st = "NOTINSTALLED" THEN Offline(sm) ELSE sm
    /\ bts' = IF sm.st = "NOTINSTALLED" /\ bts.st = "NOTINSTALLED" THEN Offline(bts) ELSE bts
    /\ IF sm.st = "NOTINSTALLED" /\ bts.st = "NOTINSTALLED" /\ link = "SHUTDOWN"
       THEN link' = "CONNECTING" /\ trx' = [t \in Trx |-> SwAct(Disable(trx[t]))]
       ELSE UNCHANGED <<link, trx>>
    /\ UNCHANGED <<pend, rsl, shutdown>>

\* phy_link_state_set(): PHYLINK_UP to all TRXs, or PHYLINK_DOWN.
PhyUp ==
    /\ link = "CONNECTING"
    /\ link' = "CONNECTED"
    /\ trx' = [t \in Trx |-> BbCheck(RcCheck(trx[t], rsl[t] = "up"), rsl[t] = "up")]
    /\ UNCHANGED <<sm, bts, pend, rsl, oml, shutdown>>
PhyDown ==
    /\ link # "SHUTDOWN"
    /\ link' = "SHUTDOWN"
    /\ trx' = [t \in Trx |-> Disable(trx[t])]
    /\ UNCHANGED <<sm, bts, pend, rsl, oml, shutdown>>

\* trx_link_estab(): the RSL link that the Opstart of the baseband transceiver asked for.
RslUp(t) ==
    /\ oml
    /\ rsl[t] = "connecting"
    /\ rsl' = [rsl EXCEPT ![t] = "up"]
    /\ trx' = [trx EXCEPT ![t] = BbCheck(RcCheck(@, link = "CONNECTED"), link = "CONNECTED")]
    /\ UNCHANGED <<sm, bts, pend, link, oml, shutdown>>

\* SetAttr to the site manager, to the BTS, and to a TRX's objects; layer 1 may refuse.
SetAttrTop ==
    /\ oml
    /\ \/ sm.st = "OFFLINE" /\ sm' = [sm EXCEPT !.attr = TRUE] /\ UNCHANGED bts
       \/ /\ bts.st = "OFFLINE"
          /\ \E ok \in BOOLEAN : bts' = [bts EXCEPT !.attr = ok]
          /\ UNCHANGED sm
    /\ UNCHANGED <<trx, pend, link, rsl, oml, shutdown>>

Ready(t) == rsl[t] = "up" /\ link = "CONNECTED"

SetAttr(t, ok) ==
    /\ oml
    /\ LET T == trx[t] IN
       \/ /\ T.rc.st = "OFFLINE"
          /\ trx' = [trx EXCEPT ![t] = RcCheck([T EXCEPT !.rc.attr = ok], Ready(t))]
       \/ /\ T.bb.st = "OFFLINE"
          /\ trx' = [trx EXCEPT ![t] = [T EXCEPT !.bb.attr = ok]]
       \/ \E n \in Tn :
            /\ T.ch[n].st \in {"DEPENDENCY", "OFFLINE"}
            /\ trx' = [trx EXCEPT ![t] = [T EXCEPT !.ch[n].attr = ok]]
    /\ UNCHANGED <<sm, bts, pend, link, rsl, oml, shutdown>>

\* Opstart of the site manager and of the BTS, which is acknowledged at once.
OpstartTop ==
    /\ oml
    /\ \/ sm.st = "OFFLINE" /\ sm' = Enabled([sm EXCEPT !.op = TRUE]) /\ UNCHANGED bts
       \/ /\ bts.st = "OFFLINE" /\ bts.attr
          /\ bts' = Enabled([bts EXCEPT !.op = TRUE])
          /\ UNCHANGED sm
    /\ UNCHANGED <<trx, pend, link, rsl, oml, shutdown>>

\* OPSTART_ACK to the carrier or a timeslot, in the states that take it.
RcAck(T, up) ==
    IF T.rc.st = "OFFLINE" THEN RcCheck([T EXCEPT !.rc.op = TRUE], up) ELSE T
ChAck(T, n) ==
    IF T.ch[n].st \in {"DEPENDENCY", "OFFLINE"}
    THEN [T EXCEPT !.ch[n] = Enabled([@ EXCEPT !.op = TRUE]),
                   !.ahead = IF ts_can_be_enabled(T.model, T.bb, T.rc) THEN @ ELSE @ \cup {n}]
    ELSE T

\* OPSTART_NACK.
RcNack(T) == IF T.rc.st = "OFFLINE" THEN [T EXCEPT !.rc.op = FALSE] ELSE T
ChNack(T, n) ==
    IF T.ch[n].st \in {"DEPENDENCY", "OFFLINE"} THEN [T EXCEPT !.ch[n].op = FALSE] ELSE T

\* Opstart of a carrier, which layer 1 may refuse.
OpstartRc(t) ==
    /\ oml
    /\ trx[t].rc.st = "OFFLINE" /\ trx[t].rc.attr
    /\ IF trx[t].model.late
       THEN pend' = pend \cup {<<t, "rc">>} /\ UNCHANGED trx
       ELSE /\ \/ trx' = [trx EXCEPT ![t] = RcAck(@, Ready(t))]
               \/ trx' = [trx EXCEPT ![t] = RcNack(@)]
            /\ UNCHANGED pend
    /\ UNCHANGED <<sm, bts, link, rsl, oml, shutdown>>

\* Opstart of a baseband transceiver: the RSL connection is started, then it is
\* acknowledged.
OpstartBb(t) ==
    /\ oml
    /\ trx[t].bb.st = "OFFLINE"
    /\ rsl' = [rsl EXCEPT ![t] = IF @ = "none" THEN "connecting" ELSE @]
    /\ trx' = [trx EXCEPT ![t] = BbCheck([@ EXCEPT !.bb.op = TRUE], Ready(t))]
    /\ UNCHANGED <<sm, bts, pend, link, oml, shutdown>>

\* Opstart of a timeslot.
OpstartCh(t, n) ==
    /\ oml
    /\ trx[t].ch[n].st \in {"DEPENDENCY", "OFFLINE"}
    /\ trx[t].ch[n].attr
    /\ IF trx[t].model.late
       THEN pend' = pend \cup {<<t, n>>} /\ UNCHANGED trx
       ELSE trx' = [trx EXCEPT ![t] = ChAck(@, n)] /\ UNCHANGED pend
    /\ UNCHANGED <<sm, bts, link, rsl, oml, shutdown>>

\* Layer 1 answers an Opstart.
OpstartAnswer(p) ==
    /\ p \in pend
    /\ pend' = pend \ {p}
    /\ \/ /\ p[2] = "rc"
          /\ trx' = [trx EXCEPT ![p[1]] = RcAck(@, Ready(p[1]))]
       \/ /\ p[2] = "rc"
          /\ trx' = [trx EXCEPT ![p[1]] = RcNack(@)]
       \/ /\ p[2] \in Tn
          /\ trx' = [trx EXCEPT ![p[1]] = ChAck(@, p[2])]
       \/ /\ p[2] \in Tn
          /\ trx' = [trx EXCEPT ![p[1]] = ChNack(@, p[2])]
    /\ UNCHANGED <<sm, bts, link, rsl, oml, shutdown>>

\* A shutdown starts, because the A-bis link is lost (abis_link_connected()) or for
\* another reason: SHUTDOWN_START from the site manager downwards.
StartsShutdown ==
    /\ shutdown = "none"
    /\ shutdown' = "ramping"
    /\ sm' = Announce(sm) /\ bts' = Announce(bts)
    /\ trx' = [t \in Trx |-> StartShutdown(trx[t])]

AbisLost ==
    /\ oml
    /\ oml' = FALSE
    /\ rsl' = [t \in Trx |-> "none"]
    /\ StartsShutdown \/ (shutdown # "none" /\ UNCHANGED <<sm, bts, trx, shutdown>>)
    /\ UNCHANGED <<pend, link>>

ShutdownStart ==
    /\ StartsShutdown
    /\ UNCHANGED <<pend, link, rsl, oml>>

\* The shutdown closes the TRXs: DISABLE to all of them.
TrxClose ==
    /\ shutdown = "ramping"
    /\ shutdown' = "closing"
    /\ trx' = [t \in Trx |-> Disable(trx[t])]
    /\ UNCHANGED <<sm, bts, pend, link, rsl, oml>>

\* ... and ends: SHUTDOWN_FINISH from the site manager downwards.  The models whose
\* layer 1 answers later end the process instead.
ShutdownFinish ==
    /\ \A t \in Trx : ~trx[t].model.late
    /\ shutdown = "closing"
    /\ shutdown' = "none"
    /\ sm' = NotInstalled /\ bts' = NotInstalled
    /\ trx' = [t \in Trx |-> FinishShutdown(trx[t])]
    /\ UNCHANGED <<pend, link, rsl, oml>>

Next ==
    \/ OmlUp \/ PhyUp \/ PhyDown
    \/ SetAttrTop \/ OpstartTop
    \/ AbisLost \/ ShutdownStart \/ TrxClose \/ ShutdownFinish
    \/ \E p \in pend : OpstartAnswer(p)
    \/ \E t \in Trx :
         \/ RslUp(t)
         \/ \E ok \in BOOLEAN : SetAttr(t, ok)
         \/ OpstartRc(t) \/ OpstartBb(t)
         \/ \E n \in Tn : OpstartCh(t, n)

Spec == Init /\ [][Next]_vars
-----------------------------------------------------------------------------
\* A timeslot is offered to the BSC or in service only while what it depends on is in
\* service; it goes back to Dependency in the same step in which that is lost.  Excepted
\* are the timeslots that an Opstart put into service ahead of their parents.
ChannelHasParents ==
    \A t \in Trx : \A n \in Tn :
        trx[t].ch[n].st \in {"OFFLINE", "ENABLED"} /\ n \notin trx[t].ahead =>
            ts_can_be_enabled(trx[t].model, trx[t].bb, trx[t].rc)

\* No missed wake-up: no timeslot stays in Dependency when all it waited for is enabled,
\* in whichever order carrier and baseband transceiver came up.
NoMissedWakeup ==
    \A t \in Trx : \A n \in Tn :
        trx[t].ch[n].st = "DEPENDENCY" => ~ts_can_be_enabled(trx[t].model, trx[t].bb, trx[t].rc)

\* The dependencies of timeslots hold in both directions: a timeslot is offered or in
\* service exactly while what it depends on is, but for an Opstart ahead of time.
DependenciesHold == ChannelHasParents /\ NoMissedWakeup

\* A carrier in service has its links and was configured and started by this BSC, unless
\* a shutdown is taking it out of service.
CarrierReady ==
    \A t \in Trx : trx[t].rc.st = "ENABLED" =>
        /\ link = "CONNECTED"
        /\ trx[t].rc.attr /\ trx[t].rc.op
        /\ rsl[t] = "up" \/ shutdown # "none"

\* The objects of a TRX are installed together and go together, so that the next SW_ACT
\* finds none of them with the state of an earlier connection.
InstalledTogether ==
    \A t \in Trx : \A n \in Tn :
        /\ trx[t].rc.st = "NOTINSTALLED" <=> trx[t].bb.st = "NOTINSTALLED"
        /\ trx[t].bb.st = "NOTINSTALLED" <=> trx[t].ch[n].st = "NOTINSTALLED"

\* The objects of a TRX agree with the links and with each other.
ObjectsInv == TypeOK /\ CarrierReady /\ InstalledTogether
=============================================================================
