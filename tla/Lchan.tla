-------------------------------- MODULE Lchan --------------------------------
(***************************************************************************)
(* A dedicated channel: activation, reactivation and release (common/rsl.c *)
(* and lchan.c), the detection of a handover (handover.c) and of talkers   *)
(* and listeners of a group call (asci.c), the radio link timeout          *)
(* (l1sap.c), and an immediate assignment that waits for the channel.      *)
(* Layer 1 is that of osmo-bts-trx or osmo-bts-virtual (common/            *)
(* scheduler.c), which activate and release at once.  osmo-bts-virtual     *)
(* knows nothing of uplink access: every request to open or close it fails *)
(* there, so that a group call gets CONN FAIL after CONN FAIL.             *)
(***************************************************************************)
EXTENDS Naturals, FiniteSets

CONSTANTS
    Models,        \* the BTS models to look at, of "trx" and "virtual"
    Ny1, Ny2,      \* how often PHYS INFO and VGCS UPLINK GRANT are sent
    Rlt,           \* radio_link_timeout, of all BTSs
    MaxActs        \* bound: channel activations

ASSUME LchanAssumption ==
    /\ Models \subseteq {"trx", "virtual"}
    /\ Ny1 \in Nat \ {0} /\ Ny2 \in Nat \ {0} /\ Rlt \in Nat \ {0} /\ MaxActs \in Nat

VARIABLES
    model,     \* the BTS model
    lc,        \* the lchan, see below
    rach,      \* ho_rach_detect: the uplink is searched for access bursts, and not decoded
    bsc,       \* what the BSC uses it for, the number of its request, and CONN FAIL received?
    agch,      \* the immediate assignment queued last: for which request?
    odd        \* what has happened that the properties make exceptions for

lchanVars == <<model, lc, rach, bsc, agch, odd>>

Kinds == {"normal", "handover", "vgcs"}

\* A CHAN ACTIV: its kind, and whether it is refused before the handover reference is
\* looked at (the channel mode) or behind it (for instance the multirate configuration).
Verdicts == {"ok", "mode", "late"}
Nothing == [kind |-> "none", verdict |-> "ok"]

\* The type of the state.
LchanState ==
    [active : BOOLEAN,
     rt : {"normal", "vgcs"},                    \* rsl_chan_rt
     pending : {Nothing} \cup [kind : Kinds, verdict : Verdicts],
     ho : {"NONE", "ENABLED", "WAIT_FRAME"},     \* ho.active
     phys : 0 .. Ny1, t3105 : BOOLEAN,           \* ho.phys_info_count, ho.t3105
     talker : {"NONE", "WAIT_FRAME", "ACTIVE"},  \* asci.talker_active
     grants : 0 .. Ny2, t3115 : BOOLEAN,         \* asci.vgcs_ul_grant_count, t3115
     listener : BOOLEAN, free : BOOLEAN,         \* listener_detected, uplink_free
     s : 0 .. Rlt,
     ia : 0 .. MaxActs, delay : BOOLEAN]         \* early_rr_ia and its timer
LchanTypeOK ==
    /\ model \in Models
    /\ lc \in LchanState
    /\ rach \in BOOLEAN
    /\ bsc \in [use : Kinds \cup {"none"}, req : 0 .. MaxActs, failed : BOOLEAN]
    /\ agch \in 0 .. MaxActs
    /\ odd \subseteq {"refused", "early", "lost", "closed"}

LchanInit ==
    /\ model \in Models
    /\ lc = [active |-> FALSE, rt |-> "normal", pending |-> Nothing, ho |-> "NONE", phys |-> 0,
             t3105 |-> FALSE, talker |-> "NONE", grants |-> 0, t3115 |-> FALSE,
             listener |-> FALSE, free |-> FALSE, s |-> Rlt, ia |-> 0, delay |-> FALSE]
    /\ rach = FALSE
    /\ bsc = [use |-> "none", req |-> 0, failed |-> FALSE]
    /\ agch = 0
    /\ odd = {}

Fails == bsc' = [bsc EXCEPT !.failed = TRUE]     \* rsl_tx_conn_fail()

\* l1sap_uplink_access() succeeds: bts_model_l1sap_down() of osmo-bts-virtual has no case
\* for ACT_UL_ACC and DEACT_UL_ACC, and answers with an error.
UplinkAccess == model = "trx"
-----------------------------------------------------------------------------
(***************************************************************************)
(* Activation.                                                             *)
(***************************************************************************)
\* PRIM_INFO_ACTIVATE, with lchan_set_state(): what was detected so far is forgotten,
\* uplink access just opened by vgcs_lchan_activate() too, and the channel is searched for
\* access bursts as ho.active says; osmo-bts-virtual includes channels of group calls.
DetectsAtOnce(l) == l.ho = "ENABLED" \/ (model = "virtual" /\ l.rt = "vgcs")
l1sap_chan_act(l) == [l EXCEPT !.active = TRUE, !.s = Rlt, !.delay = l.ia # 0]

\* The part of rsl_rx_chan_activ() behind the switch of a dynamic timeslot.
RtOf(kind) == IF kind = "vgcs" THEN "vgcs" ELSE "normal"
Refuse(l) ==
    /\ lc' = l
    /\ bsc' = [bsc EXCEPT !.use = "none"]
    /\ odd' = odd \cup {"refused"}
    /\ UNCHANGED rach
ActivateChannel(l, m) ==
    LET set == [l EXCEPT !.rt = RtOf(m.kind),
                         !.ho = IF m.kind = "handover" THEN "ENABLED" ELSE @]
    IN  \/ m.verdict = "mode" /\ Refuse([set EXCEPT !.ho = l.ho])
        \/ m.verdict = "late" /\ Refuse(set)
        \/ /\ m.verdict = "ok"
           /\ lc' = l1sap_chan_act(set)
           /\ rach' = DetectsAtOnce(set)
           /\ odd' = odd \cup (IF set.rt = "vgcs" /\ ~rach' THEN {"closed"} ELSE {})
           /\ IF set.rt = "vgcs" /\ ~UplinkAccess THEN Fails ELSE UNCHANGED bsc

\* CHAN ACTIV, refused while the channel is active.  On a dynamic timeslot it may have to
\* wait; that another one waits already is looked at in module DynTs.
rsl_rx_chan_activ(m) ==
    /\ bsc.use = "none" /\ bsc.req < MaxActs
    /\ \/ /\ lc.active
          /\ bsc' = [bsc EXCEPT !.req = @ + 1]
          /\ odd' = odd \cup {"refused"}
          /\ UNCHANGED lc
       \/ /\ ~lc.active /\ lc.pending = Nothing
          /\ bsc' = [use |-> m.kind, req |-> bsc.req + 1, failed |-> FALSE]
          /\ lc' = [lc EXCEPT !.pending = m]
          /\ UNCHANGED odd
    /\ UNCHANGED <<model, rach, agch>>

\* At once or later the timeslot is ready.
TsConnected ==
    /\ lc.pending # Nothing
    /\ ActivateChannel([lc EXCEPT !.pending = Nothing], lc.pending)
    /\ UNCHANGED <<model, agch>>

\* CHAN ACTIV with reactivation: a mobile station is assigned to the group channel, and
\* the uplink belongs to it, even when it cannot be closed to others.
vgcs_lchan_react ==
    /\ bsc.use = "vgcs" /\ lc.active
    /\ lc' = [lc EXCEPT !.talker = "WAIT_FRAME", !.s = Rlt]
    /\ IF UplinkAccess THEN rach' = FALSE /\ UNCHANGED bsc ELSE Fails /\ UNCHANGED rach
    /\ odd' = odd \ {"closed"}
    /\ UNCHANGED <<model, agch>>

\* IMMEDIATE ASSIGN COMMAND for the channel: kept until the channel is active.
rsl_rx_imm_ass ==
    /\ bsc.use = "normal" /\ agch # bsc.req /\ lc.ia # bsc.req
    /\ IF lc.active THEN agch' = bsc.req /\ UNCHANGED lc
       ELSE lc' = [lc EXCEPT !.ia = bsc.req] /\ UNCHANGED agch
    /\ UNCHANGED <<model, rach, bsc, odd>>

early_rr_ia_delay_cb ==
    /\ lc.delay
    /\ lc' = [lc EXCEPT !.delay = FALSE, !.ia = 0]
    /\ agch' = IF lc.ia # 0 /\ lc.active THEN lc.ia ELSE agch
    /\ UNCHANGED <<model, rach, bsc, odd>>
-----------------------------------------------------------------------------
(***************************************************************************)
(* Release.                                                                *)
(***************************************************************************)
handover_reset(l) == [l EXCEPT !.t3105 = FALSE, !.ho = "NONE"]

\* vgcs_talker_reset(), of the lchan.
talker_reset(l) ==
    IF l.talker = "NONE" THEN l ELSE [l EXCEPT !.t3115 = FALSE, !.talker = "NONE"]

\* lchan_set_state(LCHAN_S_NONE).
SetNone(l) ==
    IF ~l.active THEN l
    ELSE [l EXCEPT !.active = FALSE, !.pending = Nothing, !.ia = 0, !.delay = FALSE]

MutForgetsUplinkFree(l) ==
    IF ~l.active THEN l
    ELSE SetNone([talker_reset(handover_reset(l)) EXCEPT !.listener = FALSE])
gsm_lchan_release(l) ==
    IF ~l.active THEN l
    ELSE SetNone([talker_reset(handover_reset(l)) EXCEPT !.listener = FALSE, !.free = FALSE])

\* RF CHAN REL, acknowledged whether there is something to release or not.
rsl_rx_rf_chan_rel ==
    /\ bsc.use # "none" \/ lc.active
    /\ lc' = gsm_lchan_release(lc)
    /\ rach' = (rach /\ ~lc.active)
    /\ bsc' = [bsc EXCEPT !.use = "none"]
    /\ odd' = (odd \ {"closed"}) \cup (IF lc.pending # Nothing THEN {"early"} ELSE {})
    /\ UNCHANGED <<model, agch>>

\* The A-bis link is lost.  trx_sched_clean_ts() makes the channel inactive, and the
\* gsm_lchan_release() that follows finds nothing to release.
AbisLost ==
    /\ bsc.use # "none" \/ lc.active
    /\ lc' = gsm_lchan_release(SetNone(lc))
    /\ rach' = FALSE
    /\ bsc' = [bsc EXCEPT !.use = "none"]
    /\ odd' = (odd \ {"closed"}) \cup {"lost"}
    /\ UNCHANGED <<model, agch>>
-----------------------------------------------------------------------------
(***************************************************************************)
(* Access bursts and frames.                                               *)
(***************************************************************************)
\* An access burst on a channel that is no group channel: l1sap_dcch_rach() and
\* handover_rach(), for the expected reference.
MutKeepsSearching ==
    /\ rach /\ lc.rt = "normal"
    /\ lc' = [lc EXCEPT !.ho = "WAIT_FRAME", !.phys = 1, !.t3105 = TRUE]
    /\ UNCHANGED <<model, rach, bsc, agch, odd>>
handover_rach ==
    /\ rach /\ lc.rt = "normal"
    /\ lc' = [lc EXCEPT !.ho = "WAIT_FRAME", !.phys = 1, !.t3105 = TRUE]
    /\ rach' = FALSE
    /\ UNCHANGED <<model, bsc, agch, odd>>

MutNy1Forever ==
    /\ lc.t3105
    /\ lc' = [lc EXCEPT !.t3105 = lc.active]
    /\ UNCHANGED <<model, rach, bsc, agch, odd>>
ho_t3105_cb ==
    /\ lc.t3105
    /\ \/ /\ lc.active /\ lc.phys < Ny1
          /\ lc' = [lc EXCEPT !.phys = @ + 1]
          /\ UNCHANGED bsc
       \/ /\ lc.active /\ lc.phys >= Ny1
          /\ lc' = [lc EXCEPT !.t3105 = FALSE]
          /\ Fails
       \/ /\ ~lc.active
          /\ lc' = [lc EXCEPT !.t3105 = FALSE]
          /\ UNCHANGED bsc
    /\ UNCHANGED <<model, rach, agch, odd>>

\* An access burst on a group channel: of a listener, or of one who wants to talk and
\* cannot unless the uplink gets closed to others.
vgcs_rach(listens) ==
    /\ rach /\ lc.rt = "vgcs"
    /\ \/ /\ listens
          /\ ~lc.listener
          /\ lc' = [lc EXCEPT !.listener = TRUE]
          /\ UNCHANGED <<rach, bsc>>
       \/ /\ ~listens
          /\ lc.talker = "NONE"
          /\ IF UplinkAccess
             THEN /\ lc' = [lc EXCEPT !.talker = "WAIT_FRAME", !.grants = 1, !.t3115 = TRUE]
                  /\ rach' = FALSE
                  /\ UNCHANGED bsc
             ELSE Fails /\ UNCHANGED <<lc, rach>>
    /\ UNCHANGED <<model, agch, odd>>

\* When the talker does not come, there is none any more, but the uplink stays closed.
vgcs_t3115_cb ==
    /\ lc.t3115
    /\ \/ /\ lc.active /\ lc.grants < Ny2
          /\ lc' = [lc EXCEPT !.grants = @ + 1]
          /\ UNCHANGED <<bsc, odd>>
       \/ /\ lc.active /\ lc.grants >= Ny2
          /\ lc' = [lc EXCEPT !.t3115 = FALSE, !.grants = 0, !.talker = "NONE"]
          /\ Fails
          /\ odd' = odd \cup {"closed"}
       \/ /\ ~lc.active
          /\ lc' = [lc EXCEPT !.t3115 = FALSE]
          /\ UNCHANGED <<bsc, odd>>
    /\ UNCHANGED <<model, rach, agch>>

\* radio_link_timeout().
radio_link_timeout(l, bad) ==
    IF (l.rt = "vgcs" /\ l.talker # "ACTIVE") \/ l.s = 0 THEN l
    ELSE IF bad THEN [l EXCEPT !.s = @ - 1]
    ELSE [l EXCEPT !.s = IF @ + 2 > Rlt THEN Rlt ELSE @ + 2]

\* The first valid frame ends the wait: handover_frame() and vgcs_talker_frame().
FirstFrame(l) ==
    LET h == IF l.ho = "WAIT_FRAME" THEN handover_reset(l) ELSE l
    IN  IF l.rt = "vgcs" /\ l.talker = "WAIT_FRAME"
        THEN [h EXCEPT !.t3115 = FALSE, !.talker = "ACTIVE", !.s = Rlt] ELSE h

\* A block of the main channel, which osmo-bts-trx does not decode during a search for
\* access bursts, or of the SACCH: l1sap_ph_data_ind().
Decoded == ~rach \/ model = "virtual"
l1sap_ph_data_ind(sacch, bad) ==
    /\ lc.active /\ (sacch \/ (Decoded /\ ~bad))
    /\ LET l == IF sacch THEN radio_link_timeout(lc, bad) ELSE lc
       IN  /\ lc' = IF bad THEN l ELSE FirstFrame(l)
           /\ IF l.s = 0 /\ lc.s # 0 THEN Fails ELSE UNCHANGED bsc
    /\ lc' # lc
    /\ UNCHANGED <<model, rach, agch, odd>>

\* The talker or the network releases the link of layer 2: vgcs_talker_reset() opens the
\* uplink again, if there was a talker, or reports that it cannot.
vgcs_talker_reset ==
    /\ lc.active /\ lc.talker # "NONE"
    /\ lc' = talker_reset(lc)
    /\ IF UplinkAccess THEN rach' = TRUE /\ UNCHANGED bsc ELSE Fails /\ UNCHANGED rach
    /\ UNCHANGED <<model, agch, odd>>

\* UPLINK FREE is kept and sent until another message of layer 2 is to be sent.
UplinkMessage(isFree) ==
    /\ lc.active /\ lc.rt = "vgcs"
    /\ lc.free # isFree
    /\ lc' = [lc EXCEPT !.free = isFree]
    /\ UNCHANGED <<model, rach, bsc, agch, odd>>

LchanNext ==
    \/ \E k \in Kinds, v \in Verdicts : rsl_rx_chan_activ([kind |-> k, verdict |-> v])
    \/ TsConnected
    \/ vgcs_lchan_react
    \/ rsl_rx_imm_ass
    \/ early_rr_ia_delay_cb
    \/ rsl_rx_rf_chan_rel
    \/ AbisLost
    \/ handover_rach
    \/ ho_t3105_cb
    \/ \E listens \in BOOLEAN : vgcs_rach(listens)
    \/ vgcs_t3115_cb
    \/ \E sacch, bad \in BOOLEAN : l1sap_ph_data_ind(sacch, bad)
    \/ vgcs_talker_reset
    \/ \E free \in BOOLEAN : UplinkMessage(free)

LchanSpec == LchanInit /\ [][LchanNext]_lchanVars

\* Timers expire.
LchanFairSpec ==
    LchanSpec /\ WF_lchanVars(ho_t3105_cb) /\ WF_lchanVars(vgcs_t3115_cb)
              /\ WF_lchanVars(early_rr_ia_delay_cb)
-----------------------------------------------------------------------------
(***************************************************************************)
(* Properties.  Exceptions: "refused", an activation was refused; "early", *)
(* a channel was released while its activation waited; "lost", the A-bis   *)
(* link was lost.  Each leaves something behind for the next use.          *)
(***************************************************************************)
Undisturbed == odd \cap {"refused", "early", "lost"} = {}

\* T3105 and T3115 run only for the procedure of this use of the channel: they expire
\* neither on a released channel nor on one that was activated again.
TimersMatch ==
    /\ lc.t3105 => (lc.active /\ lc.ho = "WAIT_FRAME") \/ "lost" \in odd
    /\ lc.t3115 => (lc.active /\ lc.talker = "WAIT_FRAME") \/ "lost" \in odd

\* A channel that becomes active has nothing of an earlier use: it waits for a handover
\* only when it was activated for one, has no talker and no listener, and no UPLINK FREE
\* to send.
NothingLeftOver ==
    [][~lc.active /\ lc'.active /\ Undisturbed =>
          /\ (lc'.ho = "ENABLED") <=> (bsc.use = "handover")
          /\ lc'.ho # "WAIT_FRAME"
          /\ lc'.talker = "NONE" /\ ~lc'.listener /\ ~lc'.free]_lchanVars

\* The uplink is searched for access bursts only while a handover or a talker is awaited,
\* so that nobody talks to a deaf channel.  Where uplink access fails the search is never
\* ended for a talker, but the BSC has been told.
NotDeaf ==
    rach => /\ lc.active
            /\ \/ bsc.use = "handover" /\ lc.ho = "ENABLED"
               \/ lc.rt = "vgcs" /\ lc.talker = "NONE"
               \/ lc.rt = "vgcs" /\ ~UplinkAccess /\ bsc.failed
               \/ ~Undisturbed

\* A group channel without a talker can be accessed.  ("closed": it has just been
\* activated by osmo-bts-trx, or the last talker never came.)  Where uplink access fails
\* the BSC has been told so in the present use, talker or not.
UplinkOpen ==
    lc.active /\ lc.rt = "vgcs" =>
        IF UplinkAccess THEN lc.talker # "NONE" \/ rach \/ "closed" \in odd ELSE bsc.failed

\* Timers and uplink belong to the present use of the channel.
LchanInv == LchanTypeOK /\ TimersMatch /\ NotDeaf /\ UplinkOpen

\* An immediate assignment that was kept back goes out for the activation it came with.
IaIsFresh == [][agch' # agch /\ Undisturbed => agch' = bsc.req]_lchanVars

\* No use of the channel gets anything of another.
UsesApart == NothingLeftOver /\ IaIsFresh

\* After the access burst of a handover the mobile station is heard, the BSC is told that
\* it is not, or the channel is released.
HandoverDecided ==
    (lc.ho = "WAIT_FRAME")
        ~> (lc.ho # "WAIT_FRAME" \/ bsc.failed \/ ~lc.active \/ "lost" \in odd)
=============================================================================
