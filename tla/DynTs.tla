-------------------------------- MODULE DynTs --------------------------------
(***************************************************************************)
(* A dynamic timeslot of osmo-bts-trx: the BSC has it switched between     *)
(* voice channels and packet data (common/rsl.c, common/lchan.c), either   *)
(* by activating and releasing channels (OSMO_DYN) or with PDCH ACT and    *)
(* PDCH DEACT (TCH_F_PDCH, the way of ip.access).  A switch waits for the  *)
(* transceiver, which confirms SETSLOT, and for the PCU, which activates   *)
(* and releases the packet channel itself (common/pcu_sock.c).             *)
(*                                                                         *)
(* The handlers map a record w of the state to the next one.  BSC and PCU  *)
(* are external.  The BSC uses a logical channel for one purpose at a time *)
(* and has one request outstanding per channel; RSL messages arrive at     *)
(* once.  The PCU follows the INFO.ind it gets, in order.                  *)
(***************************************************************************)
EXTENDS Naturals, Sequences, SequencesExt, FiniteSets

CONSTANTS
    Kinds,         \* kinds of dynamic timeslot the BSC may configure
    MaxLosses,     \* bound: how often the PCU dies
    MaxResets,     \* bound: how often the A-bis link is lost
    MaxMsgs        \* bound: messages on their way to or from the PCU when one more is sent

None == "NONE"
Lchans == {0, 1}
Pchans == {"TCH_F", "TCH_H", "PDCH"}

ASSUME DynAssumption ==
    /\ Kinds \subseteq {"OSMO_DYN", "TCH_F_PDCH"}
    /\ MaxLosses \in Nat /\ MaxResets \in Nat /\ MaxMsgs \in Nat

VARIABLES
    ts,        \* pchan, dyn.pchan_is, dyn.pchan_want, the flags, and: is it enabled?
    lchan,     \* state, type, rel_act_kind, pending_chan_activ
    slots,     \* SETSLOT commands without an answer
    dev,       \* the type of slot that the transceiver has
    infos,     \* INFO.ind on their way to the PCU: does it have the timeslot?
    reqs,      \* ACT.req on their way from the PCU: activate or deactivate?
    pcu,       \* is the PCU connected, has it the timeslot, and how often did it die?
    bsc,       \* for each channel: what the BSC uses it for, and the answer it waits for
    resets,    \* lost A-bis links so far
    crashed,   \* has an assertion failed?
    odd        \* what has happened that the properties make exceptions for

dynVars == <<ts, lchan, slots, dev, infos, reqs, pcu, bsc, resets, crashed, odd>>

\* A CHAN ACTIV: for what, and whether its contents are accepted: the channel mode may be
\* refused, or what is looked at after it (encryption, multirate configuration).
Verdicts == {"ok", "mode", "rest"}
Activation == [pchan : Pchans, verdict : Verdicts]
NoActivation == [pchan |-> None, verdict |-> "ok"]
Lchan == [state : {"NONE", "ACTIVE"}, type : {"NONE", "TCH_F", "TCH_H", "PDTCH"},
          kind : {"RSL", "PCU", "OML"}, pending : Activation \cup {NoActivation}]

\* The type of the state.
DynTypeOK ==
    /\ ts \in [pchan : Kinds \cup {None}, is : Pchans \cup {None}, want : Pchans \cup {None},
               active : BOOLEAN, actPend : BOOLEAN, deactPend : BOOLEAN, enabled : BOOLEAN]
    /\ lchan \in [Lchans -> Lchan]
    /\ slots \in Seq(Pchans)
    /\ dev \in Pchans \cup {None}
    /\ infos \in Seq(BOOLEAN) /\ reqs \in Seq(BOOLEAN)
    /\ pcu \in [up : BOOLEAN, on : BOOLEAN, died : 0 .. MaxLosses]
    /\ bsc \in [Lchans -> [use : Pchans \cup {None}, wait : {"none", "act", "rel"}]]
    /\ resets \in 0 .. MaxResets
    /\ crashed \in BOOLEAN
    /\ odd \subseteq {"early", "eager", "orphan", "died", "refused", "untold"}

DynInit ==
    /\ ts = [pchan |-> None, is |-> None, want |-> None, active |-> FALSE, actPend |-> FALSE,
             deactPend |-> FALSE, enabled |-> FALSE]
    /\ lchan = [i \in Lchans |-> [state |-> "NONE", type |-> "NONE", kind |-> "RSL",
                                  pending |-> NoActivation]]
    /\ slots = <<>> /\ dev = None
    /\ infos = <<>> /\ reqs = <<>>
    /\ pcu = [up |-> FALSE, on |-> FALSE, died |-> 0]
    /\ bsc = [i \in Lchans |-> [use |-> None, wait |-> "none"]]
    /\ resets = 0
    /\ crashed = FALSE
    /\ odd = {}

Now == [ts |-> ts, lchan |-> lchan, slots |-> slots, infos |-> infos, bsc |-> bsc,
        crashed |-> crashed, odd |-> odd]
Become(w) ==
    /\ ts' = w.ts /\ lchan' = w.lchan /\ slots' = w.slots /\ infos' = w.infos
    /\ bsc' = w.bsc /\ crashed' = w.crashed /\ odd' = w.odd
-----------------------------------------------------------------------------
(***************************************************************************)
(* Answers to the BSC and the PCU.                                         *)
(***************************************************************************)
\* The BSC takes an answer it waits for.  A channel number made from a timeslot that is
\* not connected is a reserved one and finds no channel.
Told(w, i, wait, done) ==
    IF w.bsc[i].wait # wait \/ (w.ts.pchan = "OSMO_DYN" /\ w.ts.is = None) THEN w
    ELSE [w EXCEPT !.bsc[i] = [use |-> IF done THEN @.use ELSE None, wait |-> "none"]]

rsl_tx_chan_act_ack(w, i) == Told(w, i, "act", TRUE)
rsl_tx_chan_act_nack(w, i) == Told(w, i, "act", FALSE)

\* Neither ack nor nack unless the channel was last used on behalf of the BSC.
rsl_tx_chan_act_acknack(w, i, ok) ==
    IF w.lchan[i].kind # "RSL" THEN w
    ELSE IF ok THEN rsl_tx_chan_act_ack(w, i) ELSE rsl_tx_chan_act_nack(w, i)

tx_rf_rel_ack(w, i) ==
    IF w.bsc[i].wait # "rel" THEN w
    ELSE [w EXCEPT !.bsc[i] = [use |-> None, wait |-> "none"]]

\* The release of a packet channel is acknowledged when the BSC wanted it; the timeslot
\* is then connected as nothing.
rsl_tx_rf_rel_ack(w, i) ==
    LET k == w.lchan[i].kind
    IN  IF k = "RSL" THEN Told(w, i, "rel", FALSE)
        ELSE IF k = "PCU" /\ w.ts.pchan = "OSMO_DYN" /\ w.ts.want # "PDCH"
        THEN [Told(w, i, "rel", FALSE) EXCEPT !.ts.is = None]
        ELSE w

\* Does the PCU have the timeslot, as far as the BTS is concerned?
ts_should_be_pdch(t) ==
    CASE t.pchan = "TCH_F_PDCH" -> IF t.active THEN ~t.deactPend ELSE t.actPend
      [] t.pchan = "OSMO_DYN" -> t.is = "PDCH" /\ t.want = "PDCH"
      [] OTHER -> FALSE

pcu_tx_info_ind(w) ==
    [w EXCEPT !.infos = Append(@, w.ts.enabled /\ ts_should_be_pdch(w.ts))]
-----------------------------------------------------------------------------
(***************************************************************************)
(* Connecting the timeslot in layer 1.                                     *)
(***************************************************************************)
conf_lchans_as_pchan(w, p) ==
    [w EXCEPT !.lchan = [i \in Lchans |->
        [@[i] EXCEPT !.type = IF p = "TCH_H" THEN "TCH_H"
                              ELSE IF i = 1 THEN "NONE"
                              ELSE IF p = "PDCH" THEN "PDTCH" ELSE "TCH_F"]]]

\* bts_model_ts_connect(): a SETSLOT that repeats the one before it is not sent again.
bts_model_ts_connect(w, p) ==
    IF w.slots # <<>> /\ Last(w.slots) = p THEN w ELSE [w EXCEPT !.slots = Append(@, p)]

\* The result of PDCH ACT or PDCH DEACT.
ipacc_dyn_pdch_complete(w) ==
    LET t == [w.ts EXCEPT !.active = w.ts.actPend, !.actPend = FALSE, !.deactPend = FALSE]
    IN  Told([w EXCEPT !.ts = t], 0, IF w.ts.actPend THEN "act" ELSE "rel", w.ts.actPend)

ipacc_dyn_pdch_ts_disconnected(w) ==
    IF ~w.ts.deactPend /\ ~w.ts.actPend THEN w
    ELSE LET p == IF w.ts.deactPend THEN "TCH_F" ELSE "PDCH"
         IN  bts_model_ts_connect(conf_lchans_as_pchan(w, p), p)

MutConnectsAtOnce(w) ==
    LET n == [w EXCEPT !.ts.is = w.ts.want]
    IN  bts_model_ts_connect(conf_lchans_as_pchan(n, w.ts.want), w.ts.want)
osmo_dyn_ts_disconnected(w) ==
    LET n == [w EXCEPT !.ts.is = None]
    IN  bts_model_ts_connect(conf_lchans_as_pchan(n, w.ts.want), w.ts.want)

\* bts_model_ts_disconnect(): there is nothing to do, and the callback is called at once.
cb_ts_disconnected(w) ==
    CASE w.ts.pchan = "TCH_F_PDCH" -> ipacc_dyn_pdch_ts_disconnected(w)
      [] w.ts.pchan = "OSMO_DYN" -> osmo_dyn_ts_disconnected(w)
      [] OTHER -> w

\* Activation and release of a channel, confirmed at once: l1sap_chan_act() with
\* l1sap_info_act_cnf(), l1sap_chan_rel() with l1sap_info_rel_cnf().
l1sap_chan_act(w, i) ==
    IF w.lchan[i].state = "ACTIVE" THEN rsl_tx_chan_act_acknack(w, i, FALSE)
    ELSE LET done == rsl_tx_chan_act_acknack([w EXCEPT !.lchan[i].state = "ACTIVE"], i, TRUE)
         IN  IF w.ts.pchan = "TCH_F_PDCH" /\ w.ts.actPend
             THEN ipacc_dyn_pdch_complete(done) ELSE done

l1sap_chan_rel(w, i) ==
    IF w.lchan[i].state = "NONE" THEN w
    ELSE LET done == rsl_tx_rf_rel_ack(
                       [w EXCEPT !.lchan[i] = [@ EXCEPT !.state = "NONE",
                                                        !.pending = NoActivation]], i)
         IN  IF w.ts.pchan = "TCH_F_PDCH" /\ w.ts.deactPend
             THEN cb_ts_disconnected(done) ELSE done
-----------------------------------------------------------------------------
(***************************************************************************)
(* RSL.                                                                    *)
(***************************************************************************)
\* The part of rsl_rx_chan_activ() behind the switch of the timeslot.  An activation of
\* a packet channel is acknowledged before the PCU has heard of it.
ActivateChannel(w, i, m) ==
    IF m.verdict = "mode" THEN rsl_tx_chan_act_nack(w, i)
    ELSE IF m.verdict = "rest"
    THEN [rsl_tx_chan_act_acknack(w, i, FALSE) EXCEPT
            !.odd = @ \cup (IF w.lchan[i].kind = "RSL" THEN {} ELSE {"refused"})]
    ELSE IF w.ts.pchan = "OSMO_DYN" /\ w.ts.want = "PDCH"
    THEN LET done == rsl_tx_chan_act_ack(w, i)
         IN  IF pcu.up THEN pcu_tx_info_ind(done) ELSE done
    ELSE l1sap_chan_act([w EXCEPT !.lchan[i].kind = "RSL"], i)

\* CHAN ACTIV: refused while the channel is in use or the timeslot is not enabled; put
\* off while the timeslot is connected as something else.
rsl_rx_chan_activ(w, i, m) ==
    IF w.lchan[i].state # "NONE" \/ ~w.ts.enabled THEN rsl_tx_chan_act_nack(w, i)
    ELSE IF w.ts.pchan # "OSMO_DYN" THEN ActivateChannel(w, i, m)
    ELSE LET n == [w EXCEPT !.ts.want = m.pchan,
                            !.odd = @ \cup (IF w.ts.is = "PDCH" /\ pcu.up /\ m.pchan # "PDCH"
                                            THEN {"untold"} ELSE {})]
         IN  IF w.ts.is = m.pchan THEN ActivateChannel(n, i, m)
             ELSE IF w.lchan[i].pending # NoActivation THEN [n EXCEPT !.crashed = TRUE]
             ELSE [cb_ts_disconnected(n) EXCEPT !.lchan[i].pending = m]

\* A packet channel is released by the PCU, when there is one.
dyn_ts_pdch_release(w, i) ==
    IF w.ts.is # w.ts.want THEN w
    ELSE IF pcu.up THEN pcu_tx_info_ind([w EXCEPT !.ts.want = None])
    ELSE rsl_tx_rf_rel_ack([w EXCEPT !.ts.want = None, !.ts.is = None,
                                     !.lchan[i].kind = "PCU"], i)

gsm_lchan_release(w, i, kind) ==
    IF w.lchan[i].state = "NONE" THEN w
    ELSE LET n == [w EXCEPT !.lchan[i].kind = kind]
         IN  IF w.ts.pchan = "OSMO_DYN" /\ w.ts.is = "PDCH"
             THEN dyn_ts_pdch_release(n, i)
             ELSE l1sap_chan_rel(n, i)

\* RF CHAN REL: one for a channel that is not active is acknowledged, whatever waits.
rsl_rx_rf_chan_rel(w, i) ==
    IF w.lchan[i].state = "NONE" THEN tx_rf_rel_ack(w, i) ELSE gsm_lchan_release(w, i, "RSL")

\* PDCH ACT and PDCH DEACT.
rsl_rx_dyn_pdch(w, act) ==
    LET nack == Told(w, 0, IF act THEN "act" ELSE "rel", ~act)
        n == IF act THEN [w EXCEPT !.ts.actPend = TRUE] ELSE [w EXCEPT !.ts.deactPend = TRUE]
    IN  IF w.ts.actPend \/ w.ts.deactPend THEN nack
        ELSE IF w.lchan[0].state # "NONE" /\ act THEN nack
        ELSE IF w.ts.active = act THEN ipacc_dyn_pdch_complete(n)
        ELSE IF act \/ ~pcu.up THEN cb_ts_disconnected(n)
        ELSE pcu_tx_info_ind(n)

\* SETSLOT is confirmed: ip.access.  A packet channel goes on with the PCU.
ipacc_dyn_pdch_ts_connected(w) ==
    IF w.ts.deactPend THEN ipacc_dyn_pdch_complete(w)
    ELSE IF ~w.ts.actPend THEN w
    ELSE IF pcu.up THEN pcu_tx_info_ind(w)
    ELSE ipacc_dyn_pdch_complete(w)

\* SETSLOT is confirmed: the activations that were put off are taken up.
Resume(w, i) ==
    IF w.lchan[i].pending = NoActivation THEN w
    ELSE rsl_rx_chan_activ([w EXCEPT !.lchan[i].pending = NoActivation], i, w.lchan[i].pending)
MutResumesFirst(w) == Resume([w EXCEPT !.ts.is = w.ts.want], 0)
osmo_dyn_ts_connected(w) == Resume(Resume([w EXCEPT !.ts.is = w.ts.want], 0), 1)

cb_ts_connected(w) ==
    CASE w.ts.pchan = "TCH_F_PDCH" -> ipacc_dyn_pdch_ts_connected(w)
      [] w.ts.pchan = "OSMO_DYN" -> osmo_dyn_ts_connected(w)
      [] OTHER -> w
-----------------------------------------------------------------------------
(***************************************************************************)
(* Actions.  Nothing happens after a failed assertion, and no property     *)
(* claims anything after one of the following, where the runs end:         *)
(* "early", the BSC released a channel before it had an answer to its      *)
(* activation, or a packet channel before the PCU activated it, and the    *)
(* PCU did so; "eager", the PCU, which is told of an ip.access PDCH as     *)
(* soon as its activation is pending, acted while SETSLOT was under way;   *)
(* "orphan", the A-bis link was lost in the middle of a switch, while the  *)
(* flag of an ip.access PDCH was set, or while what the PCU does about the *)
(* timeslot was under way.                                                 *)
(***************************************************************************)
Undisturbed == odd \cap {"early", "eager", "orphan"} = {}

\* The BSC asks for a channel that it does not use, for a purpose that the other channel
\* does not rule out.
Free(i, p) ==
    /\ bsc[i] = [use |-> None, wait |-> "none"]
    /\ \A j \in Lchans : bsc[j].use \in {None, p}
    /\ p # "TCH_H" => i = 0
Asks(i, p) == [Now EXCEPT !.bsc[i] = [use |-> p, wait |-> "act"]]

ChanActiv(i, p, v) ==
    /\ ts.enabled
    /\ Free(i, p)
    /\ ts.pchan = "OSMO_DYN" \/ (ts.pchan = "TCH_F_PDCH" /\ p = "TCH_F")
    /\ p = "PDCH" => v = "ok"
    /\ Become(rsl_rx_chan_activ(Asks(i, p), i, [pchan |-> p, verdict |-> v]))
    /\ UNCHANGED <<dev, reqs, pcu, resets>>

PdchAct ==
    /\ ts.enabled /\ ts.pchan = "TCH_F_PDCH"
    /\ Free(0, "PDCH")
    /\ Become(rsl_rx_dyn_pdch(Asks(0, "PDCH"), TRUE))
    /\ UNCHANGED <<dev, reqs, pcu, resets>>

\* The BSC has no use for a channel any more.  It may lose interest before it has an
\* answer.
Leaves(i) ==
    [Now EXCEPT !.bsc[i].wait = "rel",
                !.odd = @ \cup (IF bsc[i].wait = "act" THEN {"early"} ELSE {})]

RfChanRel(i) ==
    /\ ts.enabled
    /\ bsc[i].use # None /\ bsc[i].wait # "rel"
    /\ ts.pchan = "TCH_F_PDCH" => bsc[i].use = "TCH_F"
    /\ Become(rsl_rx_rf_chan_rel(Leaves(i), i))
    /\ UNCHANGED <<dev, reqs, pcu, resets>>

PdchDeact ==
    /\ ts.enabled /\ ts.pchan = "TCH_F_PDCH"
    /\ bsc[0] = [use |-> "PDCH", wait |-> "none"]
    /\ Become(rsl_rx_dyn_pdch([Now EXCEPT !.bsc[0].wait = "rel"], FALSE))
    /\ UNCHANGED <<dev, reqs, pcu, resets>>

\* The transceiver answers SETSLOT: l1if_setslot_cb().
l1if_setslot_cb ==
    /\ slots # <<>>
    /\ dev' = Head(slots)
    /\ Become(cb_ts_connected([Now EXCEPT !.slots = Tail(@)]))
    /\ UNCHANGED <<reqs, pcu, resets>>

\* ACT.req of the PCU.
pcu_rx_act_req ==
    /\ reqs # <<>>
    /\ reqs' = Tail(reqs)
    /\ LET w == [Now EXCEPT !.lchan[0].kind = "PCU",
                            !.odd = @ \cup (IF slots # <<>> /\ ts.pchan = "TCH_F_PDCH"
                                            THEN {"eager"} ELSE {})
                                      \cup (IF bsc[0].use = None THEN {"early"} ELSE {})]
       IN  Become(IF lchan[0].type # "PDTCH" \/ (ts.pchan = "OSMO_DYN" /\ ts.is # "PDCH") THEN w
                  ELSE IF Head(reqs) THEN l1sap_chan_act(w, 0)
                  ELSE l1sap_chan_rel(w, 0))
    /\ UNCHANGED <<dev, pcu, resets>>

\* The PCU follows an INFO.ind.
PcuFollows ==
    /\ infos # <<>> /\ Len(reqs) <= MaxMsgs
    /\ infos' = Tail(infos)
    /\ pcu' = [pcu EXCEPT !.on = Head(infos)]
    /\ reqs' = IF pcu.on = Head(infos) THEN reqs ELSE Append(reqs, Head(infos))
    /\ UNCHANGED <<ts, lchan, slots, dev, bsc, resets, crashed, odd>>

\* Something else that the PCU is to know has changed: pcu_if_signal_cb().
pcu_if_signal_cb ==
    /\ pcu.up /\ Len(infos) <= MaxMsgs
    /\ Become(pcu_tx_info_ind(Now))
    /\ UNCHANGED <<dev, reqs, pcu, resets>>

pcu_sock_accept ==
    /\ ~pcu.up
    /\ pcu' = [pcu EXCEPT !.up = TRUE]
    /\ Become(pcu_tx_info_ind(Now))
    /\ UNCHANGED <<dev, reqs, resets>>

\* The PCU is gone: its channels are released, the ones it was asked to release are not.
ReleasePdch(w) ==
    IF w.ts.enabled /\ ts_should_be_pdch(w.ts)
    THEN l1sap_chan_rel([w EXCEPT !.lchan[0].kind = "PCU"], 0) ELSE w
pcu_sock_close ==
    /\ pcu.up /\ pcu.died < MaxLosses
    /\ pcu' = [up |-> FALSE, on |-> FALSE, died |-> pcu.died + 1]
    /\ reqs' = <<>>
    /\ Become([ReleasePdch([Now EXCEPT !.odd = @ \cup
                    (IF bsc[0] = [use |-> "PDCH", wait |-> "rel"] THEN {"died"} ELSE {})])
               EXCEPT !.infos = <<>>])
    /\ UNCHANGED <<dev, resets>>

\* The A-bis link is lost and the BTS shut down: the phy link closes, which makes every
\* channel inactive (trx_sched_clean_ts()), and gsm_ts_release() forgets what the timeslot
\* was; flags and activations that were put off stay.
CleanLchan(l) ==
    IF l.state = "NONE" THEN l ELSE [l EXCEPT !.state = "NONE", !.pending = NoActivation]
gsm_ts_release ==
    /\ ts.enabled /\ resets < MaxResets
    /\ resets' = resets + 1
    /\ LET w == [Now EXCEPT !.lchan = [i \in Lchans |-> CleanLchan(@[i])],
                            !.ts = [@ EXCEPT !.pchan = None, !.is = None, !.want = None,
                                             !.enabled = FALSE],
                            !.slots = <<>>,
                            !.bsc = [i \in Lchans |-> [use |-> None, wait |-> "none"]],
                            !.odd = @ \cup (IF \/ \E i \in Lchans : lchan[i].pending # NoActivation
                                               \/ ts.actPend \/ ts.deactPend \/ ts.active
                                               \/ reqs # <<>> \/ Contains(infos, TRUE)
                                            THEN {"orphan"} ELSE {})]
       IN  Become(IF pcu.up THEN pcu_tx_info_ind(w) ELSE w)
    /\ UNCHANGED <<dev, reqs, pcu>>

\* The BSC configures and starts the timeslot: handle_chan_comb() and trx_set_ts().
trx_set_ts ==
    /\ ~ts.enabled
    /\ \E k \in Kinds :
        LET p == IF k = "OSMO_DYN" THEN None ELSE IF ts.active THEN "PDCH" ELSE "TCH_F"
            n == [Now EXCEPT !.ts.pchan = k, !.ts.enabled = TRUE,
                             !.crashed = k = "TCH_F_PDCH" /\ (ts.actPend \/ ts.deactPend)]
            w == IF p = None THEN n ELSE conf_lchans_as_pchan(n, p)
        IN  /\ Become(IF pcu.up THEN pcu_tx_info_ind(w) ELSE w)
            /\ dev' = p
    /\ UNCHANGED <<reqs, pcu, resets>>

BscStep ==
    Len(infos) <= MaxMsgs /\ (
    \/ \E i \in Lchans, p \in Pchans, v \in Verdicts : ChanActiv(i, p, v)
    \/ PdchAct
    \/ \E i \in Lchans : RfChanRel(i)
    \/ PdchDeact
    \/ gsm_ts_release
    \/ trx_set_ts)

DynNext ==
    /\ ~crashed /\ Undisturbed
    /\ \/ BscStep
       \/ l1if_setslot_cb
       \/ pcu_rx_act_req
       \/ PcuFollows
       \/ pcu_if_signal_cb
       \/ pcu_sock_accept
       \/ pcu_sock_close

DynSpec == DynInit /\ [][DynNext]_dynVars

\* The transceiver answers, the PCU is started again, reads, and is read.  (The first two
\* conjuncts are weak fairness of actions that are enabled by their first conjuncts.)
Goes == ~crashed /\ Undisturbed
DynFairSpec ==
    /\ DynSpec
    /\ []<>~(Goes /\ slots # <<>>) \/ []<><<l1if_setslot_cb>>_dynVars
    /\ []<>~(Goes /\ reqs # <<>>) \/ []<><<pcu_rx_act_req>>_dynVars
    /\ WF_dynVars(Goes /\ PcuFollows)
    /\ WF_dynVars(Goes /\ pcu_sock_accept)
-----------------------------------------------------------------------------
(***************************************************************************)
(* Properties.                                                             *)
(***************************************************************************)
PchanOf(type) == IF type = "PDTCH" THEN "PDCH" ELSE type

\* A channel is active only for what the BSC uses it for, and on a timeslot that the
\* transceiver has configured for it, whatever switch the timeslot is in.
ActiveAsAsked ==
    Undisturbed =>
        \A i \in Lchans : lchan[i].state = "ACTIVE" =>
            LET p == PchanOf(lchan[i].type) IN dev = p /\ bsc[i].use = p

\* The assertions of rsl_rx_chan_activ() (no activation is waiting already) and
\* trx_set_ts() (no PDCH switch is pending) hold.
AssertionsHold == crashed => ~Undisturbed

\* Whenever nothing is under way, the PCU has the timeslot exactly while the packet
\* channel is active.  ("untold": a channel that the PCU had not yet activated was taken
\* for voice, which the PCU is not told.)
Idle ==
    /\ pcu.up /\ infos = <<>> /\ reqs = <<>> /\ slots = <<>> /\ ts.enabled
    /\ \A i \in Lchans : bsc[i].wait = "none"
PcuInStep ==
    Idle /\ Undisturbed /\ "untold" \notin odd =>
        (pcu.on <=> (lchan[0].state = "ACTIVE" /\ lchan[0].type = "PDTCH"))

\* Whatever crosses: channels, timeslot, BSC and PCU agree.
DynInv == DynTypeOK /\ ActiveAsAsked /\ AssertionsHold /\ PcuInStep

\* Every request of the BSC is answered in the end.  ("died": the PCU died with the
\* release of its channel pending.  "refused": the contents of a CHAN ACTIV were refused
\* on a channel that the PCU had used last, which is not reported.)
RequestsAnswered ==
    \A i \in Lchans :
        bsc[i].wait # "none" ~> \/ bsc[i].wait = "none"
                                \/ ~Undisturbed
                                \/ odd \cap {"died", "refused"} # {}

\* "if a dynamic timeslot fails to go to PDCH mode for any reason, the BSC should still
\* be able to switch it back to TCH modes": a timeslot that the BSC wants back from the
\* packet channel comes back.
SwitchesBack ==
    (bsc[0] = [use |-> "PDCH", wait |-> "rel"]) ~> (bsc[0].wait = "none" \/ ~Undisturbed)
=============================================================================
