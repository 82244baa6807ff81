----------------------------- MODULE DynTs_proofs -----------------------------
(***************************************************************************)
(* Channels, timeslot, BSC and PCU agree on a dynamic timeslot: a proof    *)
(* for both kinds of it and any number of lost PCUs, lost A-bis links and  *)
(* messages on their way.                                                  *)
(*                                                                         *)
(* The handlers map a record.  The first parts say what each does to the   *)
(* parts of the record, and that it keeps their types.  Then comes the     *)
(* inductive invariant, which lists the phases of a switch, and, action by *)
(* action, that each leads from a phase to a phase.                        *)
(***************************************************************************)
EXTENDS DynTs, SequenceTheorems, TLAPS

\* The types of the parts of the record.
OddEvents == {"early", "eager", "orphan", "died", "refused", "untold"}
Timeslots == [pchan : Kinds \cup {None}, is : Pchans \cup {None}, want : Pchans \cup {None},
              active : BOOLEAN, actPend : BOOLEAN, deactPend : BOOLEAN, enabled : BOOLEAN]
Requests == [use : Pchans \cup {None}, wait : {"none", "act", "rel"}]

\* The record that handlers map, made of its parts, and a function with one channel changed.
W(t, l, s, f, b, c, o) ==
    [ts |-> t, lchan |-> l, slots |-> s, infos |-> f, bsc |-> b, crashed |-> c, odd |-> o]
With(l, i, c) == [l EXCEPT ![i] = c]
\* A request that is answered.
Answer(u) == [use |-> u, wait |-> "none"]
\* The type of the record.
Worlds == [ts : Timeslots, lchan : [Lchans -> Lchan], slots : Seq(Pchans), infos : Seq(BOOLEAN),
           bsc : [Lchans -> Requests], crashed : BOOLEAN, odd : SUBSET OddEvents]
\* Is the PCU to have the timeslot?
Wanted(t) == t.enabled /\ ts_should_be_pdch(t)

-----------------------------------------------------------------------------
(* What handlers do to the parts of the record.                            *)

\* Changing one channel changes that one, and keeps the type.
LEMMA WithOf ==
    ASSUME NEW i \in Lchans
    PROVE  /\ \A l \in [Lchans -> Lchan], c \in Lchan :
                /\ With(l, i, c) \in [Lchans -> Lchan] /\ With(l, i, c)[i] = c
                /\ \A j \in Lchans \ {i} : With(l, i, c)[j] = l[j]
           /\ \A b \in [Lchans -> Requests], r \in Requests :
                /\ With(b, i, r) \in [Lchans -> Requests] /\ With(b, i, r)[i] = r
                /\ \A j \in Lchans \ {i} : With(b, i, r)[j] = b[j]
  BY DEF With

\* An answer to CHAN ACTIV that the BSC waits for reaches it.
LEMMA AckIs ==
    ASSUME NEW t, NEW l, NEW s, NEW f, NEW b, NEW c, NEW o, NEW i,
           b[i].wait = "act", t.pchan # "OSMO_DYN" \/ t.is # None
    PROVE  /\ rsl_tx_chan_act_ack(W(t, l, s, f, b, c, o), i) =
                W(t, l, s, f, With(b, i, Answer(b[i].use)), c, o)
           /\ rsl_tx_chan_act_nack(W(t, l, s, f, b, c, o), i) =
                W(t, l, s, f, With(b, i, Answer(None)), c, o)
  BY DEF rsl_tx_chan_act_ack, rsl_tx_chan_act_nack, Told, W, With, Answer

\* So does the answer to a release.
LEMMA RelAckIs ==
    ASSUME NEW t, NEW l, NEW s, NEW f, NEW b, NEW c, NEW o, NEW i, b[i].wait = "rel"
    PROVE  tx_rf_rel_ack(W(t, l, s, f, b, c, o), i) =
             W(t, l, s, f, With(b, i, Answer(None)), c, o)
  BY DEF tx_rf_rel_ack, W, With, Answer

\* INFO.ind, sent.
Inform(f, t) == Append(f, Wanted(t))

\* The PCU is told what the timeslot is.
LEMMA InfoIs ==
    ASSUME NEW t, NEW l, NEW s, NEW f, NEW b, NEW c, NEW o
    PROVE  pcu_tx_info_ind(W(t, l, s, f, b, c, o)) = W(t, l, s, Inform(f, t), b, c, o)
  BY DEF pcu_tx_info_ind, W, Wanted, Inform

\* The type of channel i on a timeslot that is p.
TypeFor(p, i) ==
    IF p = "TCH_H" THEN "TCH_H" ELSE IF i = 1 THEN "NONE"
    ELSE IF p = "PDCH" THEN "PDTCH" ELSE "TCH_F"
Conf(l, p) == [i \in Lchans |-> [l[i] EXCEPT !.type = TypeFor(p, i)]]

\* The channels get the types that go with the timeslot, ...
LEMMA ConfIs ==
    ASSUME NEW t, NEW l, NEW s, NEW f, NEW b, NEW c, NEW o, NEW p
    PROVE  conf_lchans_as_pchan(W(t, l, s, f, b, c, o), p) = W(t, Conf(l, p), s, f, b, c, o)
  BY DEF conf_lchans_as_pchan, W, Conf, TypeFor

\* ... and nothing else of them changes.
LEMMA ConfOf ==
    ASSUME NEW l \in [Lchans -> Lchan], NEW p, NEW k, k = Conf(l, p)
    PROVE  /\ k \in [Lchans -> Lchan]
           /\ \A i \in Lchans : k[i].type = TypeFor(p, i) /\ k[i].state = l[i].state
                                /\ k[i].kind = l[i].kind /\ k[i].pending = l[i].pending
  <1>1. ASSUME NEW i \in Lchans
        PROVE  /\ k[i] \in Lchan /\ k[i].type = TypeFor(p, i) /\ k[i].state = l[i].state
               /\ k[i].kind = l[i].kind /\ k[i].pending = l[i].pending
    <2>1. k[i] = [l[i] EXCEPT !.type = TypeFor(p, i)] /\ l[i] \in Lchan
      BY DEF Conf
    <2>2. TypeFor(p, i) \in {"NONE", "TCH_F", "TCH_H", "PDTCH"}
      BY DEF TypeFor
    <2> QED
      BY <2>1, <2>2 DEF Lchan
  <1>2. k = [i \in Lchans |-> k[i]]
    BY DEF Conf
  <1> QED
    BY <1>1, <1>2

\* SETSLOT, unless it repeats the one before it.
Connect(s, p) == IF s # <<>> /\ Last(s) = p THEN s ELSE Append(s, p)

\* SETSLOT is sent.
LEMMA ConnectIs ==
    ASSUME NEW t, NEW l, NEW s, NEW f, NEW b, NEW c, NEW o, NEW p
    PROVE  bts_model_ts_connect(W(t, l, s, f, b, c, o), p) = W(t, l, Connect(s, p), f, b, c, o)
  BY DEF bts_model_ts_connect, W, Connect

\* An OSMO_DYN timeslot is disconnected, and connected as what the BSC wants.
LEMMA OsmoDisconnectedIs ==
    ASSUME NEW t, NEW l, NEW s, NEW f, NEW b, NEW c, NEW o, t.pchan = "OSMO_DYN"
    PROVE  cb_ts_disconnected(W(t, l, s, f, b, c, o)) =
             W([t EXCEPT !.is = None], Conf(l, t.want), Connect(s, t.want), f, b, c, o)
  <1>1. PICK w : w = W(t, l, s, f, b, c, o)
    OBVIOUS
  <1>2. w.ts = t
    BY <1>1 DEF W
  <1>3. [w EXCEPT !.ts.is = None] = W([t EXCEPT !.is = None], l, s, f, b, c, o)
    BY <1>1 DEF W
  <1>4. cb_ts_disconnected(w) =
          bts_model_ts_connect(conf_lchans_as_pchan([w EXCEPT !.ts.is = None], t.want), t.want)
    BY <1>2 DEF cb_ts_disconnected, osmo_dyn_ts_disconnected
  <1> QED
    BY <1>1, <1>3, <1>4, ConfIs, ConnectIs

\* An ip.access timeslot is connected as what the pending flag says.
LEMMA IpDisconnectedIs ==
    ASSUME NEW t, NEW l, NEW s, NEW f, NEW b, NEW c, NEW o, NEW p,
           t.pchan = "TCH_F_PDCH", t.deactPend \/ t.actPend,
           p = IF t.deactPend THEN "TCH_F" ELSE "PDCH"
    PROVE  cb_ts_disconnected(W(t, l, s, f, b, c, o)) =
             W(t, Conf(l, p), Connect(s, p), f, b, c, o)
  <1>1. PICK w : w = W(t, l, s, f, b, c, o)
    OBVIOUS
  <1>2. w.ts = t
    BY <1>1 DEF W
  <1>3. cb_ts_disconnected(w) = bts_model_ts_connect(conf_lchans_as_pchan(w, p), p)
    BY <1>2 DEF cb_ts_disconnected, ipacc_dyn_pdch_ts_disconnected
  <1> QED
    BY <1>1, <1>3, ConfIs, ConnectIs

\* PDCH ACT or PDCH DEACT is complete.
Completed(t) == [t EXCEPT !.active = t.actPend, !.actPend = FALSE, !.deactPend = FALSE]

\* PDCH ACT or PDCH DEACT is complete, and answered.
LEMMA CompleteIs ==
    ASSUME NEW t \in Timeslots, NEW l, NEW s, NEW f, NEW b, NEW c, NEW o,
           t.pchan = "TCH_F_PDCH", b[0].wait = IF t.actPend THEN "act" ELSE "rel"
    PROVE  ipacc_dyn_pdch_complete(W(t, l, s, f, b, c, o)) =
             W(Completed(t), l, s, f,
               With(b, 0, Answer(IF t.actPend THEN b[0].use ELSE None)), c, o)
  <1>1. PICK w : w = W(t, l, s, f, b, c, o)
    OBVIOUS
  <1>2. w.ts = t /\ t.actPend \in BOOLEAN
    BY <1>1 DEF W, Timeslots
  <1>3. PICK u : u = Completed(t)
    OBVIOUS
  <1>4. [w EXCEPT !.ts = u] = W(u, l, s, f, b, c, o)
    BY <1>1 DEF W
  <1>5. u.pchan # "OSMO_DYN"
    BY <1>3 DEF Completed
  <1>6. ipacc_dyn_pdch_complete(w) =
          Told(W(u, l, s, f, b, c, o), 0, IF t.actPend THEN "act" ELSE "rel", t.actPend)
    BY <1>2, <1>3, <1>4 DEF ipacc_dyn_pdch_complete, Completed
  <1>9. t.actPend => b[0].wait = "act"
    OBVIOUS
  <1>10. ~t.actPend => b[0].wait = "rel"
    OBVIOUS
  <1>7. CASE t.actPend
    <2>1. Told(W(u, l, s, f, b, c, o), 0, "act", TRUE) =
            W(u, l, s, f, With(b, 0, Answer(b[0].use)), c, o)
      BY <1>5, <1>7, <1>9 DEF Told, W, With, Answer
    <2> QED
      BY <1>1, <1>2, <1>3, <1>6, <1>7, <2>1
  <1>8. CASE ~t.actPend
    <2>1. Told(W(u, l, s, f, b, c, o), 0, "rel", FALSE) =
            W(u, l, s, f, With(b, 0, Answer(None)), c, o)
      BY <1>5, <1>8, <1>10 DEF Told, W, With, Answer
    <2>2. t.actPend = FALSE
      BY <1>2, <1>8
    <2> QED
      BY <1>1, <1>3, <1>6, <2>1, <2>2
  <1> QED
    BY <1>7, <1>8

\* Answers to an activation.
ActAck(w, i) == rsl_tx_chan_act_acknack(w, i, TRUE)
ActNack(w, i) == rsl_tx_chan_act_acknack(w, i, FALSE)

\* An activation is answered when the channel was last used on behalf of the BSC, ...
LEMMA ActAckIs ==
    ASSUME NEW t, NEW l, NEW s, NEW f, NEW b, NEW c, NEW o, NEW i,
           b[i].wait = "act", t.pchan # "OSMO_DYN" \/ t.is # None, l[i].kind = "RSL"
    PROVE  /\ ActAck(W(t, l, s, f, b, c, o), i) =
                W(t, l, s, f, With(b, i, Answer(b[i].use)), c, o)
           /\ ActNack(W(t, l, s, f, b, c, o), i) =
                W(t, l, s, f, With(b, i, Answer(None)), c, o)
  <1>1. W(t, l, s, f, b, c, o).lchan[i].kind = "RSL"
    BY DEF W
  <1> QED
    BY <1>1, AckIs DEF ActAck, ActNack, rsl_tx_chan_act_acknack

\* ... and otherwise not.
LEMMA NoAckIs ==
    ASSUME NEW t, NEW l, NEW s, NEW f, NEW b, NEW c, NEW o, NEW i, l[i].kind # "RSL"
    PROVE  /\ ActAck(W(t, l, s, f, b, c, o), i) = W(t, l, s, f, b, c, o)
           /\ ActNack(W(t, l, s, f, b, c, o), i) = W(t, l, s, f, b, c, o)
  BY DEF W, ActAck, ActNack, rsl_tx_chan_act_acknack

\* A channel made active or inactive.
Active(c) == [c EXCEPT !.state = "ACTIVE"]
Inactive(c) == [c EXCEPT !.state = "NONE", !.pending = NoActivation]

\* A channel made active or inactive differs in nothing else.
LEMMA CellsOf ==
    ASSUME NEW c \in Lchan
    PROVE  /\ Active(c) \in Lchan /\ Active(c).state = "ACTIVE"
           /\ Active(c).type = c.type /\ Active(c).kind = c.kind /\ Active(c).pending = c.pending
           /\ Inactive(c) \in Lchan /\ Inactive(c).state = "NONE"
           /\ Inactive(c).type = c.type /\ Inactive(c).kind = c.kind
           /\ Inactive(c).pending = NoActivation
  BY DEF Lchan, Active, Inactive

\* The activation of a channel in layer 1: it is active, and what waits for it is done, ...
LEMMA ChanActDone ==
    ASSUME NEW t, NEW l \in [Lchans -> Lchan], NEW s, NEW f, NEW b, NEW c, NEW o, NEW i \in Lchans,
           l[i].state # "ACTIVE", NEW k, k = With(l, i, Active(l[i])),
           NEW done, done = ActAck(W(t, k, s, f, b, c, o), i)
    PROVE  /\ k[i].kind = l[i].kind
           /\ l1sap_chan_act(W(t, l, s, f, b, c, o), i) =
                IF t.pchan = "TCH_F_PDCH" /\ t.actPend THEN ipacc_dyn_pdch_complete(done) ELSE done
  <1>1. PICK w : w = W(t, l, s, f, b, c, o)
    OBVIOUS
  <1>2. PICK w1 : w1 = W(t, k, s, f, b, c, o)
    OBVIOUS
  <1>3. [w EXCEPT !.lchan[i].state = "ACTIVE"] = w1
    BY <1>1, <1>2 DEF W, With, Active
  <1>4. w.lchan[i].state # "ACTIVE" /\ w.ts = t
    BY <1>1 DEF W
  <1>5. l[i] \in Lchan /\ Active(l[i]) \in Lchan /\ Active(l[i]).kind = l[i].kind
    BY CellsOf
  <1>6. k[i].kind = l[i].kind
    BY <1>5, WithOf
  <1> QED
    BY <1>1, <1>2, <1>3, <1>4, <1>6 DEF l1sap_chan_act, ActAck

\* ... on behalf of the BSC, ...
LEMMA ChanActIs ==
    ASSUME NEW t, NEW l \in [Lchans -> Lchan], NEW s, NEW f, NEW b, NEW c, NEW o, NEW i \in Lchans,
           l[i].state # "ACTIVE", NEW k, k = With(l, i, Active(l[i])),
           ~(t.pchan = "TCH_F_PDCH" /\ t.actPend),
           l[i].kind = "RSL", b[i].wait = "act", t.pchan # "OSMO_DYN" \/ t.is # None
    PROVE  l1sap_chan_act(W(t, l, s, f, b, c, o), i) =
             W(t, k, s, f, With(b, i, Answer(b[i].use)), c, o)
  <1>1. PICK done : done = ActAck(W(t, k, s, f, b, c, o), i)
    OBVIOUS
  <1>2. k[i].kind = "RSL" /\ l1sap_chan_act(W(t, l, s, f, b, c, o), i) = done
    BY <1>1, ChanActDone
  <1> QED
    BY <1>1, <1>2, ActAckIs

\* ... for the PCU, ...
LEMMA ChanActOfPcu ==
    ASSUME NEW t, NEW l \in [Lchans -> Lchan], NEW s, NEW f, NEW b, NEW c, NEW o, NEW i \in Lchans,
           l[i].state # "ACTIVE", NEW k, k = With(l, i, Active(l[i])), l[i].kind = "PCU"
    PROVE  l1sap_chan_act(W(t, l, s, f, b, c, o), i) =
             IF t.pchan = "TCH_F_PDCH" /\ t.actPend
             THEN ipacc_dyn_pdch_complete(W(t, k, s, f, b, c, o)) ELSE W(t, k, s, f, b, c, o)
  <1>1. PICK done : done = ActAck(W(t, k, s, f, b, c, o), i)
    OBVIOUS
  <1>2. k[i].kind = "PCU"
    BY <1>1, ChanActDone
  <1>3. done = W(t, k, s, f, b, c, o)
    BY <1>1, <1>2, NoAckIs
  <1>4. l1sap_chan_act(W(t, l, s, f, b, c, o), i) =
          IF t.pchan = "TCH_F_PDCH" /\ t.actPend THEN ipacc_dyn_pdch_complete(done) ELSE done
    BY <1>1, ChanActDone
  <1> QED
    BY <1>3, <1>4

\* ... and not at all when the channel is active.
LEMMA ChanActAgain ==
    ASSUME NEW t, NEW l, NEW s, NEW f, NEW b, NEW c, NEW o, NEW i,
           l[i].state = "ACTIVE", l[i].kind # "RSL"
    PROVE  l1sap_chan_act(W(t, l, s, f, b, c, o), i) = W(t, l, s, f, b, c, o)
  <1>1. W(t, l, s, f, b, c, o).lchan = l
    BY DEF W
  <1> QED
    BY <1>1 DEF l1sap_chan_act, rsl_tx_chan_act_acknack

\* The release of a channel in layer 1: it is inactive, and what waits for it is done, ...
LEMMA ChanRelDone ==
    ASSUME NEW t, NEW l \in [Lchans -> Lchan], NEW s, NEW f, NEW b, NEW c, NEW o, NEW i \in Lchans,
           l[i].state # "NONE", NEW k, k = With(l, i, Inactive(l[i])),
           NEW done, done = rsl_tx_rf_rel_ack(W(t, k, s, f, b, c, o), i)
    PROVE  /\ k[i].kind = l[i].kind
           /\ l1sap_chan_rel(W(t, l, s, f, b, c, o), i) =
                IF t.pchan = "TCH_F_PDCH" /\ t.deactPend THEN cb_ts_disconnected(done) ELSE done
  <1>1. PICK w : w = W(t, l, s, f, b, c, o)
    OBVIOUS
  <1>2. PICK w1 : w1 = W(t, k, s, f, b, c, o)
    OBVIOUS
  <1>3. [w EXCEPT !.lchan[i] = [@ EXCEPT !.state = "NONE", !.pending = NoActivation]] = w1
    BY <1>1, <1>2 DEF W, With, Inactive
  <1>4. w.lchan[i].state # "NONE" /\ w.ts = t
    BY <1>1 DEF W
  <1>5. l[i] \in Lchan /\ Inactive(l[i]) \in Lchan /\ Inactive(l[i]).kind = l[i].kind
    BY CellsOf
  <1>6. k[i].kind = l[i].kind
    BY <1>5, WithOf
  <1> QED
    BY <1>1, <1>2, <1>3, <1>4, <1>6 DEF l1sap_chan_rel

\* ... on behalf of the BSC, ...
LEMMA ChanRelIs ==
    ASSUME NEW t, NEW l \in [Lchans -> Lchan], NEW s, NEW f, NEW b, NEW c, NEW o, NEW i \in Lchans,
           l[i].state # "NONE", NEW k, k = With(l, i, Inactive(l[i])),
           ~(t.pchan = "TCH_F_PDCH" /\ t.deactPend),
           l[i].kind = "RSL", b[i].wait = "rel", t.pchan # "OSMO_DYN" \/ t.is # None
    PROVE  l1sap_chan_rel(W(t, l, s, f, b, c, o), i) =
             W(t, k, s, f, With(b, i, Answer(None)), c, o)
  <1>1. PICK w1 : w1 = W(t, k, s, f, b, c, o)
    OBVIOUS
  <1>2. PICK done : done = rsl_tx_rf_rel_ack(w1, i)
    OBVIOUS
  <1>3. k[i].kind = "RSL" /\ l1sap_chan_rel(W(t, l, s, f, b, c, o), i) = done
    BY <1>1, <1>2, ChanRelDone
  <1>4. done = Told(w1, i, "rel", FALSE)
    BY <1>1, <1>2, <1>3 DEF rsl_tx_rf_rel_ack, W
  <1>5. Told(w1, i, "rel", FALSE) = W(t, k, s, f, With(b, i, Answer(None)), c, o)
    BY <1>1 DEF Told, W, With, Answer
  <1> QED
    BY <1>3, <1>4, <1>5

\* ... for the PCU, when the BSC does not want the packet channel any more.
LEMMA ChanRelWanted ==
    ASSUME NEW t, NEW l \in [Lchans -> Lchan], NEW s, NEW f, NEW b, NEW c, NEW o, NEW i \in Lchans,
           l[i].state # "NONE", NEW k, k = With(l, i, Inactive(l[i])),
           l[i].kind = "PCU", b[i].wait = "rel",
           t.pchan = "OSMO_DYN", t.want # "PDCH", t.is # None
    PROVE  l1sap_chan_rel(W(t, l, s, f, b, c, o), i) =
             W([t EXCEPT !.is = None], k, s, f, With(b, i, Answer(None)), c, o)
  <1>1. PICK w1 : w1 = W(t, k, s, f, b, c, o)
    OBVIOUS
  <1>2. PICK done : done = rsl_tx_rf_rel_ack(w1, i)
    OBVIOUS
  <1>3. k[i].kind = "PCU" /\ l1sap_chan_rel(W(t, l, s, f, b, c, o), i) = done
    BY <1>1, <1>2, ChanRelDone
  <1>4. PICK v : v = Told(w1, i, "rel", FALSE)
    OBVIOUS
  <1>5. v = W(t, k, s, f, With(b, i, Answer(None)), c, o)
    BY <1>1, <1>4 DEF Told, W, With, Answer
  <1>6. w1.lchan[i].kind = "PCU" /\ w1.ts = t
    BY <1>1, <1>3 DEF W
  <1>7. done = [v EXCEPT !.ts.is = None]
    BY <1>2, <1>4, <1>6 DEF rsl_tx_rf_rel_ack
  <1>8. [v EXCEPT !.ts.is = None] =
          W([t EXCEPT !.is = None], k, s, f, With(b, i, Answer(None)), c, o)
    BY <1>5 DEF W
  <1> QED
    BY <1>3, <1>7, <1>8

\* ... and otherwise.
LEMMA ChanRelOfPcu ==
    ASSUME NEW t, NEW l \in [Lchans -> Lchan], NEW s, NEW f, NEW b, NEW c, NEW o, NEW i \in Lchans,
           l[i].state # "NONE", NEW k, k = With(l, i, Inactive(l[i])),
           l[i].kind = "PCU", t.pchan # "OSMO_DYN" \/ t.want = "PDCH"
    PROVE  l1sap_chan_rel(W(t, l, s, f, b, c, o), i) =
             IF t.pchan = "TCH_F_PDCH" /\ t.deactPend
             THEN cb_ts_disconnected(W(t, k, s, f, b, c, o)) ELSE W(t, k, s, f, b, c, o)
  <1>1. PICK w1 : w1 = W(t, k, s, f, b, c, o)
    OBVIOUS
  <1>2. PICK done : done = rsl_tx_rf_rel_ack(w1, i)
    OBVIOUS
  <1>3. k[i].kind = "PCU"
    BY <1>1, <1>2, ChanRelDone
  <1>4. w1.lchan[i].kind = "PCU" /\ w1.ts = t
    BY <1>1, <1>3 DEF W
  <1>5. done = w1
    BY <1>2, <1>4 DEF rsl_tx_rf_rel_ack
  <1>6. l1sap_chan_rel(W(t, l, s, f, b, c, o), i) =
          IF t.pchan = "TCH_F_PDCH" /\ t.deactPend THEN cb_ts_disconnected(done) ELSE done
    BY <1>1, <1>2, ChanRelDone
  <1> QED
    BY <1>1, <1>5, <1>6

\* An inactive channel is not released.
LEMMA ChanRelNothing ==
    ASSUME NEW t, NEW l, NEW s, NEW f, NEW b, NEW c, NEW o, NEW i, l[i].state = "NONE"
    PROVE  l1sap_chan_rel(W(t, l, s, f, b, c, o), i) = W(t, l, s, f, b, c, o)
  BY DEF W, l1sap_chan_rel

-----------------------------------------------------------------------------
(* Handlers map the state of the right type to one of the right type.      *)

\* The components of the record, and the record with one of them changed.
LEMMA WorldIs ==
    ASSUME NEW w \in Worlds
    PROVE  /\ w.ts \in Timeslots /\ w.lchan \in [Lchans -> Lchan] /\ w.slots \in Seq(Pchans)
           /\ w.infos \in Seq(BOOLEAN) /\ w.bsc \in [Lchans -> Requests]
           /\ w.crashed \in BOOLEAN /\ w.odd \in SUBSET OddEvents
           /\ \A t \in Timeslots : [w EXCEPT !.ts = t] \in Worlds
           /\ \A l \in [Lchans -> Lchan] : [w EXCEPT !.lchan = l] \in Worlds
           /\ \A s \in Seq(Pchans) : [w EXCEPT !.slots = s] \in Worlds
           /\ \A f \in Seq(BOOLEAN) : [w EXCEPT !.infos = f] \in Worlds
           /\ \A b \in [Lchans -> Requests] : [w EXCEPT !.bsc = b] \in Worlds
           /\ \A c \in BOOLEAN : [w EXCEPT !.crashed = c] \in Worlds
           /\ \A o \in SUBSET OddEvents : [w EXCEPT !.odd = o] \in Worlds
  BY DEF Worlds

\* An answer keeps the type.
LEMMA ToldType ==
    ASSUME NEW w \in Worlds, NEW i \in Lchans, NEW wait, NEW done \in BOOLEAN
    PROVE  Told(w, i, wait, done) \in Worlds
  <1>1. w.bsc[i] \in Requests
    BY WorldIs
  <1>2. PICK r : r = [use |-> IF done THEN w.bsc[i].use ELSE None, wait |-> "none"]
    OBVIOUS
  <1>3. r \in Requests
    BY <1>1, <1>2 DEF Requests
  <1>4. [w EXCEPT !.bsc[i] = r] = [w EXCEPT !.bsc = [w.bsc EXCEPT ![i] = r]]
    OBVIOUS
  <1>5. [w.bsc EXCEPT ![i] = r] \in [Lchans -> Requests]
    BY <1>3, WorldIs
  <1>6. [w EXCEPT !.bsc[i] = r] \in Worlds
    BY <1>4, <1>5, WorldIs
  <1>7. [w EXCEPT !.bsc[i] = [use |-> IF done THEN @.use ELSE None, wait |-> "none"]] =
        [w EXCEPT !.bsc[i] = r]
    BY <1>2
  <1> QED
    BY <1>6, <1>7 DEF Told

\* So does every kind of answer, to the BSC or the PCU, ...
LEMMA AckTypes ==
    ASSUME NEW w \in Worlds, NEW i \in Lchans, NEW ok \in BOOLEAN
    PROVE  /\ rsl_tx_chan_act_ack(w, i) \in Worlds
           /\ rsl_tx_chan_act_nack(w, i) \in Worlds
           /\ rsl_tx_chan_act_acknack(w, i, ok) \in Worlds
           /\ tx_rf_rel_ack(w, i) \in Worlds
           /\ pcu_tx_info_ind(w) \in Worlds
  <1>1. PICK yes, no : yes = TRUE /\ no = FALSE
    OBVIOUS
  <1>2. rsl_tx_chan_act_ack(w, i) = Told(w, i, "act", yes)
    BY <1>1 DEF rsl_tx_chan_act_ack
  <1>3. rsl_tx_chan_act_nack(w, i) = Told(w, i, "act", no)
    BY <1>1 DEF rsl_tx_chan_act_nack
  <1>4. rsl_tx_chan_act_ack(w, i) \in Worlds /\ rsl_tx_chan_act_nack(w, i) \in Worlds
    BY <1>1, <1>2, <1>3, ToldType
  <1>5. rsl_tx_chan_act_acknack(w, i, ok) \in Worlds
    BY <1>4 DEF rsl_tx_chan_act_acknack
  <1>6. tx_rf_rel_ack(w, i) \in Worlds
    <2>1. [w EXCEPT !.bsc[i] = [use |-> None, wait |-> "none"]] =
          [w EXCEPT !.bsc = [w.bsc EXCEPT ![i] = [use |-> None, wait |-> "none"]]]
      OBVIOUS
    <2>2. [w.bsc EXCEPT ![i] = [use |-> None, wait |-> "none"]] \in [Lchans -> Requests]
      BY WorldIs DEF Requests
    <2> QED
      BY <2>1, <2>2, WorldIs DEF tx_rf_rel_ack
  <1>7. pcu_tx_info_ind(w) \in Worlds
    <2>1. w.ts \in Timeslots /\ w.infos \in Seq(BOOLEAN)
      BY WorldIs
    <2>2. (w.ts.enabled /\ ts_should_be_pdch(w.ts)) \in BOOLEAN
      BY <2>1 DEF Timeslots, ts_should_be_pdch
    <2>3. Append(w.infos, w.ts.enabled /\ ts_should_be_pdch(w.ts)) \in Seq(BOOLEAN)
      BY <2>1, <2>2
    <2> QED
      BY <2>3, WorldIs DEF pcu_tx_info_ind
  <1> QED
    BY <1>4, <1>5, <1>6, <1>7

\* One component of the record of a channel or of the timeslot.
LEMMA PartsOf ==
    /\ \A c \in Lchan, s \in {"NONE", "ACTIVE"} : [c EXCEPT !.state = s] \in Lchan
    /\ \A c \in Lchan, k \in {"RSL", "PCU", "OML"} : [c EXCEPT !.kind = k] \in Lchan
    /\ \A c \in Lchan, m \in Activation \cup {NoActivation} : [c EXCEPT !.pending = m] \in Lchan
    /\ \A t \in Timeslots, p \in Pchans \cup {None} :
          [t EXCEPT !.is = p] \in Timeslots /\ [t EXCEPT !.want = p] \in Timeslots
    /\ \A t \in Timeslots, v \in BOOLEAN :
          /\ [t EXCEPT !.active = v] \in Timeslots /\ [t EXCEPT !.actPend = v] \in Timeslots
          /\ [t EXCEPT !.deactPend = v] \in Timeslots
  <1>1. \A c \in Lchan, s \in {"NONE", "ACTIVE"} : [c EXCEPT !.state = s] \in Lchan
    BY DEF Lchan
  <1>2. \A c \in Lchan, k \in {"RSL", "PCU", "OML"} : [c EXCEPT !.kind = k] \in Lchan
    BY DEF Lchan
  <1>3. \A c \in Lchan, m \in Activation \cup {NoActivation} : [c EXCEPT !.pending = m] \in Lchan
    BY DEF Lchan
  <1>4. \A t \in Timeslots, p \in Pchans \cup {None} :
          [t EXCEPT !.is = p] \in Timeslots /\ [t EXCEPT !.want = p] \in Timeslots
    BY DEF Timeslots
  <1>5. \A t \in Timeslots, v \in BOOLEAN :
          /\ [t EXCEPT !.active = v] \in Timeslots /\ [t EXCEPT !.actPend = v] \in Timeslots
          /\ [t EXCEPT !.deactPend = v] \in Timeslots
    BY DEF Timeslots
  <1> QED
    BY <1>1, <1>2, <1>3, <1>4, <1>5

\* A channel of the record changed as a whole, or in one component.
LEMMA CellTypes ==
    ASSUME NEW w \in Worlds, NEW i \in Lchans
    PROVE  /\ w.lchan[i] \in Lchan
           /\ \A c \in Lchan : [w EXCEPT !.lchan[i] = c] \in Worlds
           /\ [w EXCEPT !.lchan[i].state = "ACTIVE"] \in Worlds
           /\ [w EXCEPT !.lchan[i] = [@ EXCEPT !.state = "NONE", !.pending = NoActivation]]
                \in Worlds
           /\ \A k \in {"RSL", "PCU", "OML"} : [w EXCEPT !.lchan[i].kind = k] \in Worlds
           /\ \A m \in Activation \cup {NoActivation} : [w EXCEPT !.lchan[i].pending = m] \in Worlds
  <1>1. w.lchan[i] \in Lchan
    BY WorldIs
  <1>2. ASSUME NEW c \in Lchan
        PROVE  [w EXCEPT !.lchan[i] = c] \in Worlds
    <2>1. [w EXCEPT !.lchan[i] = c] = [w EXCEPT !.lchan = [w.lchan EXCEPT ![i] = c]]
      OBVIOUS
    <2>2. [w.lchan EXCEPT ![i] = c] \in [Lchans -> Lchan]
      BY WorldIs
    <2> QED
      BY <2>1, <2>2, WorldIs
  <1>3. [w EXCEPT !.lchan[i].state = "ACTIVE"] \in Worlds
    <2>1. PICK c : c = [w.lchan[i] EXCEPT !.state = "ACTIVE"]
      OBVIOUS
    <2>2. [w EXCEPT !.lchan[i].state = "ACTIVE"] = [w EXCEPT !.lchan[i] = c]
      BY <2>1
    <2> QED
      BY <1>1, <1>2, <2>1, <2>2, PartsOf
  <1>4. [w EXCEPT !.lchan[i] = [@ EXCEPT !.state = "NONE", !.pending = NoActivation]] \in Worlds
    <2>1. PICK c : c = Inactive(w.lchan[i])
      OBVIOUS
    <2>2. [w EXCEPT !.lchan[i] = [@ EXCEPT !.state = "NONE", !.pending = NoActivation]] =
          [w EXCEPT !.lchan[i] = c]
      BY <2>1 DEF Inactive
    <2> QED
      BY <1>1, <1>2, <2>1, <2>2, CellsOf
  <1>5. ASSUME NEW k \in {"RSL", "PCU", "OML"}
        PROVE  [w EXCEPT !.lchan[i].kind = k] \in Worlds
    <2>1. PICK c : c = [w.lchan[i] EXCEPT !.kind = k]
      OBVIOUS
    <2>2. [w EXCEPT !.lchan[i].kind = k] = [w EXCEPT !.lchan[i] = c]
      BY <2>1
    <2> QED
      BY <1>1, <1>2, <2>1, <2>2, PartsOf
  <1>6. ASSUME NEW m \in Activation \cup {NoActivation}
        PROVE  [w EXCEPT !.lchan[i].pending = m] \in Worlds
    <2>1. PICK c : c = [w.lchan[i] EXCEPT !.pending = m]
      OBVIOUS
    <2>2. [w EXCEPT !.lchan[i].pending = m] = [w EXCEPT !.lchan[i] = c]
      BY <2>1
    <2> QED
      BY <1>1, <1>2, <2>1, <2>2, PartsOf
  <1> QED
    BY <1>1, <1>2, <1>3, <1>4, <1>5, <1>6

\* One component of the timeslot of the record.
LEMMA SlotTypes ==
    ASSUME NEW w \in Worlds
    PROVE  /\ \A p \in Pchans \cup {None} :
                [w EXCEPT !.ts.is = p] \in Worlds /\ [w EXCEPT !.ts.want = p] \in Worlds
           /\ \A v \in BOOLEAN :
                [w EXCEPT !.ts.actPend = v] \in Worlds /\ [w EXCEPT !.ts.deactPend = v] \in Worlds
  <1>1. w.ts \in Timeslots
    BY WorldIs
  <1>2. ASSUME NEW p \in Pchans \cup {None}
        PROVE  [w EXCEPT !.ts.is = p] \in Worlds /\ [w EXCEPT !.ts.want = p] \in Worlds
    <2>1. PICK t : t = [w.ts EXCEPT !.is = p]
      OBVIOUS
    <2>2. PICK u : u = [w.ts EXCEPT !.want = p]
      OBVIOUS
    <2>3. [w EXCEPT !.ts.is = p] = [w EXCEPT !.ts = t]
      BY <2>1
    <2>4. [w EXCEPT !.ts.want = p] = [w EXCEPT !.ts = u]
      BY <2>2
    <2> QED
      BY <1>1, <2>1, <2>2, <2>3, <2>4, PartsOf, WorldIs
  <1>3. ASSUME NEW v \in BOOLEAN
        PROVE  [w EXCEPT !.ts.actPend = v] \in Worlds /\ [w EXCEPT !.ts.deactPend = v] \in Worlds
    <2>1. PICK t : t = [w.ts EXCEPT !.actPend = v]
      OBVIOUS
    <2>2. PICK u : u = [w.ts EXCEPT !.deactPend = v]
      OBVIOUS
    <2>3. [w EXCEPT !.ts.actPend = v] = [w EXCEPT !.ts = t]
      BY <2>1
    <2>4. [w EXCEPT !.ts.deactPend = v] = [w EXCEPT !.ts = u]
      BY <2>2
    <2> QED
      BY <1>1, <2>1, <2>2, <2>3, <2>4, PartsOf, WorldIs
  <1> QED
    BY <1>2, <1>3

\* ... SETSLOT, ...
LEMMA ConnectTypes ==
    ASSUME NEW w \in Worlds, NEW p \in Pchans
    PROVE  /\ conf_lchans_as_pchan(w, p) \in Worlds
           /\ bts_model_ts_connect(w, p) \in Worlds
           /\ bts_model_ts_connect(conf_lchans_as_pchan(w, p), p) \in Worlds
  <1>1. ASSUME NEW v \in Worlds
        PROVE  bts_model_ts_connect(v, p) \in Worlds
    <2>1. Append(v.slots, p) \in Seq(Pchans)
      BY WorldIs
    <2> QED
      BY <2>1, WorldIs DEF bts_model_ts_connect
  <1>2. conf_lchans_as_pchan(w, p) \in Worlds
    <2>1. PICK k : k = Conf(w.lchan, p)
      OBVIOUS
    <2>2. conf_lchans_as_pchan(w, p) = [w EXCEPT !.lchan = k]
      BY <2>1 DEF conf_lchans_as_pchan, Conf, TypeFor
    <2> QED
      BY <2>1, <2>2, ConfOf, WorldIs
  <1> QED
    BY <1>1, <1>2

\* ... and the end of a PDCH ACT or PDCH DEACT.
LEMMA CompleteType ==
    ASSUME NEW w \in Worlds
    PROVE  ipacc_dyn_pdch_complete(w) \in Worlds
  <1>1. PICK t : t = [w.ts EXCEPT !.active = w.ts.actPend, !.actPend = FALSE, !.deactPend = FALSE]
    OBVIOUS
  <1>2. PICK wait : wait = IF w.ts.actPend THEN "act" ELSE "rel"
    OBVIOUS
  <1>3. w.ts \in Timeslots
    BY WorldIs
  <1>4. t \in Timeslots /\ w.ts.actPend \in BOOLEAN
    BY <1>1, <1>3 DEF Timeslots
  <1>5. 0 \in Lchans
    BY DEF Lchans
  <1>6. [w EXCEPT !.ts = t] \in Worlds
    BY <1>4, WorldIs
  <1>7. Told([w EXCEPT !.ts = t], 0, wait, w.ts.actPend) \in Worlds
    BY <1>4, <1>5, <1>6, ToldType
  <1> QED
    BY <1>1, <1>2, <1>7 DEF ipacc_dyn_pdch_complete

\* An OSMO_DYN timeslot is connected as what the BSC wants, when it wants something.
LEMMA DisconnectedType ==
    ASSUME NEW w \in Worlds, w.ts.pchan = "OSMO_DYN" => w.ts.want \in Pchans
    PROVE  cb_ts_disconnected(w) \in Worlds
  <1>1. CASE w.ts.pchan = "TCH_F_PDCH"
    <2>1. PICK p : p = IF w.ts.deactPend THEN "TCH_F" ELSE "PDCH"
      OBVIOUS
    <2>2. p \in Pchans
      BY <2>1 DEF Pchans
    <2> QED
      BY <1>1, <2>1, <2>2, ConnectTypes DEF cb_ts_disconnected, ipacc_dyn_pdch_ts_disconnected
  <1>2. CASE w.ts.pchan = "OSMO_DYN"
    <2>1. PICK n, p : n = [w EXCEPT !.ts.is = None] /\ p = w.ts.want
      OBVIOUS
    <2>2. n \in Worlds /\ p \in Pchans
      BY <1>2, <2>1, SlotTypes
    <2>3. bts_model_ts_connect(conf_lchans_as_pchan(n, p), p) \in Worlds
      BY <2>2, ConnectTypes
    <2> QED
      BY <1>2, <2>1, <2>3 DEF cb_ts_disconnected, osmo_dyn_ts_disconnected
  <1>3. CASE w.ts.pchan \notin {"TCH_F_PDCH", "OSMO_DYN"}
    BY <1>3 DEF cb_ts_disconnected
  <1> QED
    BY <1>1, <1>2, <1>3

\* Activation and release in layer 1 keep the type.
LEMMA ChanTypes ==
    ASSUME NEW w \in Worlds, NEW i \in Lchans
    PROVE  l1sap_chan_act(w, i) \in Worlds /\ l1sap_chan_rel(w, i) \in Worlds
  <1>1. l1sap_chan_act(w, i) \in Worlds
    <2>1. PICK v, yes, no : v = [w EXCEPT !.lchan[i].state = "ACTIVE"] /\ yes = TRUE /\ no = FALSE
      OBVIOUS
    <2>2. v \in Worlds
      BY <2>1, CellTypes
    <2>3. rsl_tx_chan_act_acknack(v, i, yes) \in Worlds
      BY <2>1, <2>2, AckTypes
    <2>4. rsl_tx_chan_act_acknack(w, i, no) \in Worlds
      BY <2>1, AckTypes
    <2>5. ipacc_dyn_pdch_complete(rsl_tx_chan_act_acknack(v, i, yes)) \in Worlds
      BY <2>3, CompleteType
    <2> QED
      BY <2>1, <2>3, <2>4, <2>5 DEF l1sap_chan_act
  <1>2. l1sap_chan_rel(w, i) \in Worlds
    <2>1. PICK v : v = [w EXCEPT !.lchan[i] = [@ EXCEPT !.state = "NONE", !.pending = NoActivation]]
      OBVIOUS
    <2>2. v \in Worlds /\ v.ts = w.ts
      <3>1. v.ts = w.ts
        BY <2>1 DEF Worlds
      <3> QED
        BY <2>1, <3>1, CellTypes
    <2>3. PICK u, no : u = Told(v, i, "rel", no) /\ no = FALSE
      OBVIOUS
    <2>4. u \in Worlds /\ u.ts = v.ts
      <3>1. u \in Worlds
        BY <2>2, <2>3, ToldType
      <3> QED
        BY <2>3, <3>1 DEF Told
    <2>5. [u EXCEPT !.ts.is = None] \in Worlds
      BY <2>4, SlotTypes
    <2>6. PICK done : done = rsl_tx_rf_rel_ack(v, i)
      OBVIOUS
    <2>7. done \in Worlds /\ (done.ts = w.ts \/ w.ts.pchan = "OSMO_DYN")
      BY <2>2, <2>3, <2>4, <2>5, <2>6 DEF rsl_tx_rf_rel_ack
    <2>8. CASE w.ts.pchan = "TCH_F_PDCH"
      <3>1. done.ts = w.ts
        BY <2>7, <2>8
      <3>2. cb_ts_disconnected(done) \in Worlds
        BY <2>7, <2>8, <3>1, DisconnectedType
      <3> QED
        BY <2>1, <2>6, <2>7, <3>2 DEF l1sap_chan_rel
    <2>9. CASE w.ts.pchan # "TCH_F_PDCH"
      BY <2>1, <2>6, <2>7, <2>9 DEF l1sap_chan_rel
    <2> QED
      BY <2>8, <2>9
  <1> QED
    BY <1>1, <1>2

\* RSL: CHAN ACTIV, ...
LEMMA ActivateTypes ==
    ASSUME NEW w \in Worlds, NEW i \in Lchans, NEW m \in Activation
    PROVE  /\ ActivateChannel(w, i, m) \in Worlds
           /\ rsl_rx_chan_activ(w, i, m) \in Worlds
  <1>1. ASSUME NEW v \in Worlds
        PROVE  ActivateChannel(v, i, m) \in Worlds
    <2>1. PICK u, no : u = rsl_tx_chan_act_acknack(v, i, no) /\ no = FALSE
      OBVIOUS
    <2>2. u \in Worlds
      BY <2>1, AckTypes
    <2>3. PICK o : o = u.odd \cup (IF v.lchan[i].kind = "RSL" THEN {} ELSE {"refused"})
      OBVIOUS
    <2>4. o \in SUBSET OddEvents
      BY <2>2, <2>3, WorldIs DEF OddEvents
    <2>5. [u EXCEPT !.odd = o] \in Worlds
      BY <2>2, <2>4, WorldIs
    <2>6. PICK done : done = rsl_tx_chan_act_ack(v, i)
      OBVIOUS
    <2>7. done \in Worlds
      <3>1. TRUE \in BOOLEAN
        OBVIOUS
      <3> QED
        BY <2>6, <3>1, AckTypes
    <2>8. pcu_tx_info_ind(done) \in Worlds
      BY <2>7, AckTypes
    <2>9. PICK x : x = [v EXCEPT !.lchan[i].kind = "RSL"]
      OBVIOUS
    <2>10. x \in Worlds
      BY <2>9, CellTypes
    <2>11. l1sap_chan_act(x, i) \in Worlds
      BY <2>10, ChanTypes
    <2>12. rsl_tx_chan_act_nack(v, i) \in Worlds
      BY AckTypes
    <2> QED
      BY <2>1, <2>3, <2>5, <2>6, <2>7, <2>8, <2>9, <2>11, <2>12 DEF ActivateChannel
  <1>2. rsl_rx_chan_activ(w, i, m) \in Worlds
    <2>1. PICK o : o = w.odd \cup (IF w.ts.is = "PDCH" /\ pcu.up /\ m.pchan # "PDCH"
                                   THEN {"untold"} ELSE {})
      OBVIOUS
    <2>2. PICK u : u = [w EXCEPT !.ts.want = m.pchan]
      OBVIOUS
    <2>3. PICK n : n = [u EXCEPT !.odd = o]
      OBVIOUS
    <2>4. m.pchan \in Pchans
      BY DEF Activation
    <2>5. u \in Worlds /\ u.ts.want = m.pchan /\ u.odd = w.odd
      <3>1. w.ts \in Timeslots /\ u \in Worlds
        BY <2>2, <2>4, WorldIs, SlotTypes
      <3>2. w.ts = [w.ts EXCEPT !.is = w.ts.is]
        BY <3>1 DEF Timeslots
      <3>3. u.ts = [w.ts EXCEPT !.want = m.pchan] /\ u.odd = w.odd
        BY <2>2 DEF Worlds
      <3> QED
        BY <3>1, <3>3 DEF Timeslots
    <2>6. o \in SUBSET OddEvents
      BY <2>1, WorldIs DEF OddEvents
    <2>7. n \in Worlds /\ n.ts.want = m.pchan
      <3>1. n.ts = u.ts
        BY <2>3, <2>5 DEF Worlds
      <3> QED
        BY <2>3, <2>5, <2>6, <3>1, WorldIs
    <2>8. n = [w EXCEPT !.ts.want = m.pchan,
                        !.odd = @ \cup (IF w.ts.is = "PDCH" /\ pcu.up /\ m.pchan # "PDCH"
                                        THEN {"untold"} ELSE {})]
      BY <2>1, <2>2, <2>3
    <2>9. PICK v : v = cb_ts_disconnected(n)
      OBVIOUS
    <2>10. v \in Worlds
      BY <2>4, <2>7, <2>9, DisconnectedType
    <2>11. [v EXCEPT !.lchan[i].pending = m] \in Worlds
      BY <2>10, CellTypes
    <2>12. [n EXCEPT !.crashed = TRUE] \in Worlds
      BY <2>7, WorldIs
    <2>13. ActivateChannel(n, i, m) \in Worlds /\ ActivateChannel(w, i, m) \in Worlds
      BY <2>7, <1>1
    <2>14. rsl_tx_chan_act_nack(w, i) \in Worlds
      BY AckTypes
    <2> QED
      BY <2>8, <2>9, <2>11, <2>12, <2>13, <2>14 DEF rsl_rx_chan_activ
  <1> QED
    BY <1>1, <1>2

\* ... RF CHAN REL, ...
LEMMA ReleaseTypes ==
    ASSUME NEW w \in Worlds, NEW i \in Lchans
    PROVE  rsl_rx_rf_chan_rel(w, i) \in Worlds
  <1>1. ASSUME NEW v \in Worlds
        PROVE  dyn_ts_pdch_release(v, i) \in Worlds
    <2>1. PICK x : x = [v EXCEPT !.ts.want = None]
      OBVIOUS
    <2>2. PICK y : y = [x EXCEPT !.ts.is = None]
      OBVIOUS
    <2>3. PICK z : z = [y EXCEPT !.lchan[i].kind = "PCU"]
      OBVIOUS
    <2>4. x \in Worlds
      BY <2>1, SlotTypes
    <2>5. y \in Worlds
      BY <2>2, <2>4, SlotTypes
    <2>6. z \in Worlds
      BY <2>3, <2>5, CellTypes
    <2>7. pcu_tx_info_ind(x) \in Worlds /\ rsl_tx_rf_rel_ack(z, i) \in Worlds
      <3>1. PICK u, no : u = Told(z, i, "rel", no) /\ no = FALSE
        OBVIOUS
      <3>2. u \in Worlds
        BY <2>6, <3>1, ToldType
      <3>3. [u EXCEPT !.ts.is = None] \in Worlds
        BY <3>2, SlotTypes
      <3>4. rsl_tx_rf_rel_ack(z, i) \in Worlds
        BY <2>6, <3>1, <3>2, <3>3 DEF rsl_tx_rf_rel_ack
      <3>5. TRUE \in BOOLEAN
        OBVIOUS
      <3> QED
        BY <2>4, <3>4, <3>5, AckTypes
    <2>8. z = [v EXCEPT !.ts.want = None, !.ts.is = None, !.lchan[i].kind = "PCU"]
      BY <2>1, <2>2, <2>3
    <2> QED
      BY <2>1, <2>7, <2>8 DEF dyn_ts_pdch_release
  <1>2. ASSUME NEW k \in {"RSL", "PCU", "OML"}
        PROVE  gsm_lchan_release(w, i, k) \in Worlds
    <2>1. PICK n : n = [w EXCEPT !.lchan[i].kind = k]
      OBVIOUS
    <2>2. n \in Worlds
      BY <2>1, CellTypes
    <2>3. dyn_ts_pdch_release(n, i) \in Worlds /\ l1sap_chan_rel(n, i) \in Worlds
      BY <1>1, <2>2, ChanTypes
    <2> QED
      BY <2>1, <2>3 DEF gsm_lchan_release
  <1>3. tx_rf_rel_ack(w, i) \in Worlds
    <2>1. TRUE \in BOOLEAN
      OBVIOUS
    <2> QED
      BY <2>1, AckTypes
  <1> QED
    BY <1>2, <1>3 DEF rsl_rx_rf_chan_rel

\* ... PDCH ACT and PDCH DEACT keep the type.
LEMMA DynPdchTypes ==
    ASSUME NEW w \in Worlds, NEW act \in BOOLEAN, w.ts.pchan = "TCH_F_PDCH"
    PROVE  rsl_rx_dyn_pdch(w, act) \in Worlds
  <1>1. PICK wait, done : wait = (IF act THEN "act" ELSE "rel") /\ done = ~act
    OBVIOUS
  <1>2. Told(w, 0, wait, done) \in Worlds
    BY <1>1, ToldType DEF Lchans
  <1>3. PICK n : n = IF act THEN [w EXCEPT !.ts.actPend = TRUE]
                     ELSE [w EXCEPT !.ts.deactPend = TRUE]
    OBVIOUS
  <1>4. n \in Worlds /\ n.ts.pchan = "TCH_F_PDCH"
    <2>1. n \in Worlds
      BY <1>3, SlotTypes
    <2>2. n.ts.pchan = w.ts.pchan
      <3>1. w.ts \in Timeslots
        BY WorldIs
      <3>2. PICK t : t = IF act THEN [w.ts EXCEPT !.actPend = TRUE]
                                ELSE [w.ts EXCEPT !.deactPend = TRUE]
        OBVIOUS
      <3>3. n.ts = t
        BY <1>3, <3>2 DEF Worlds
      <3> QED
        BY <3>1, <3>2, <3>3 DEF Timeslots
    <2> QED
      BY <2>1, <2>2
  <1>5. ipacc_dyn_pdch_complete(n) \in Worlds
    BY <1>4, CompleteType
  <1>6. cb_ts_disconnected(n) \in Worlds
    BY <1>4, DisconnectedType
  <1>7. pcu_tx_info_ind(n) \in Worlds
    <2>1. TRUE \in BOOLEAN /\ 0 \in Lchans
      BY DEF Lchans
    <2> QED
      BY <1>4, <2>1, AckTypes
  <1> QED
    BY <1>1, <1>2, <1>3, <1>5, <1>6, <1>7 DEF rsl_rx_dyn_pdch

\* So does what a confirmed SETSLOT brings about.
LEMMA ConnectedTypes ==
    ASSUME NEW w \in Worlds
    PROVE  cb_ts_connected(w) \in Worlds
  <1>1. ASSUME NEW v \in Worlds, NEW i \in Lchans
        PROVE  Resume(v, i) \in Worlds
    <2>1. PICK u : u = [v EXCEPT !.lchan[i].pending = NoActivation]
      OBVIOUS
    <2>2. u \in Worlds /\ v.lchan[i] \in Lchan
      BY <2>1, CellTypes
    <2>3. PICK m : m = v.lchan[i].pending
      OBVIOUS
    <2>4. CASE m = NoActivation
      BY <2>3, <2>4 DEF Resume
    <2>5. CASE m # NoActivation
      <3>1. m \in Activation
        BY <2>2, <2>3, <2>5 DEF Lchan
      <3>2. rsl_rx_chan_activ(u, i, m) \in Worlds
        BY <2>2, <3>1, ActivateTypes
      <3> QED
        BY <2>1, <2>3, <3>2 DEF Resume
    <2> QED
      BY <2>4, <2>5
  <1>2. osmo_dyn_ts_connected(w) \in Worlds
    <2>1. PICK n : n = [w EXCEPT !.ts.is = w.ts.want]
      OBVIOUS
    <2>2. n \in Worlds
      <3>1. w.ts.want \in Pchans \cup {None}
        BY WorldIs DEF Timeslots
      <3> QED
        BY <2>1, <3>1, SlotTypes
    <2>3. PICK u : u = Resume(n, 0)
      OBVIOUS
    <2>4. u \in Worlds
      BY <1>1, <2>2, <2>3 DEF Lchans
    <2>5. Resume(u, 1) \in Worlds
      BY <1>1, <2>4 DEF Lchans
    <2> QED
      BY <2>1, <2>3, <2>5 DEF osmo_dyn_ts_connected
  <1>3. ipacc_dyn_pdch_ts_connected(w) \in Worlds
    <2>1. TRUE \in BOOLEAN /\ 0 \in Lchans
      BY DEF Lchans
    <2>2. pcu_tx_info_ind(w) \in Worlds
      BY <2>1, AckTypes
    <2> QED
      BY <2>2, CompleteType DEF ipacc_dyn_pdch_ts_connected
  <1> QED
    BY <1>2, <1>3 DEF cb_ts_connected

-----------------------------------------------------------------------------
(* What the actions hand to the handlers, and the type of the state.       *)

\* A record made of parts of the right types.
LEMMA WType ==
    ASSUME NEW t \in Timeslots, NEW l \in [Lchans -> Lchan], NEW s \in Seq(Pchans),
           NEW f \in Seq(BOOLEAN), NEW b \in [Lchans -> Requests], NEW c \in BOOLEAN,
           NEW o \in SUBSET OddEvents
    PROVE  W(t, l, s, f, b, c, o) \in Worlds
  BY DEF W, Worlds

\* The state as such a record.
LEMMA StateTypes ==
    ASSUME DynTypeOK
    PROVE  /\ ts \in Timeslots /\ lchan \in [Lchans -> Lchan] /\ slots \in Seq(Pchans)
           /\ infos \in Seq(BOOLEAN) /\ bsc \in [Lchans -> Requests] /\ crashed \in BOOLEAN
           /\ odd \in SUBSET OddEvents
           /\ Now \in Worlds
           /\ Now = W(ts, lchan, slots, infos, bsc, crashed, odd)
  <1>1. /\ ts \in Timeslots /\ lchan \in [Lchans -> Lchan] /\ slots \in Seq(Pchans)
        /\ infos \in Seq(BOOLEAN) /\ bsc \in [Lchans -> Requests] /\ crashed \in BOOLEAN
        /\ odd \in SUBSET OddEvents
    BY DEF DynTypeOK, Timeslots, Requests, OddEvents
  <1>2. Now = W(ts, lchan, slots, infos, bsc, crashed, odd)
    BY DEF Now, W
  <1> QED
    BY <1>1, <1>2, WType

\* A record of the right type makes a next state of the right type.
LEMMA BecomeTypes ==
    ASSUME NEW w \in Worlds, Become(w),
           dev' \in Pchans \cup {None}, reqs' \in Seq(BOOLEAN), resets' \in 0 .. MaxResets,
           pcu' \in [up : BOOLEAN, on : BOOLEAN, died : 0 .. MaxLosses]
    PROVE  DynTypeOK'
  <1>1. /\ ts' \in Timeslots /\ lchan' \in [Lchans -> Lchan] /\ slots' \in Seq(Pchans)
        /\ infos' \in Seq(BOOLEAN) /\ bsc' \in [Lchans -> Requests] /\ crashed' \in BOOLEAN
        /\ odd' \in SUBSET OddEvents
    BY WorldIs DEF Become
  <1> QED
    BY <1>1 DEF DynTypeOK, Timeslots, Requests, OddEvents

Asked(b, i, p) == With(b, i, [use |-> p, wait |-> "act"])
Left(b, i) == With(b, i, [use |-> b[i].use, wait |-> "rel"])
EarlyOdd(o, b, i) == o \cup (IF b[i].wait = "act" THEN {"early"} ELSE {})

\* The BSC asks for a channel.
LEMMA AsksIs ==
    ASSUME DynTypeOK, NEW i \in Lchans, NEW p \in Pchans
    PROVE  /\ Asks(i, p) = W(ts, lchan, slots, infos, Asked(bsc, i, p), crashed, odd)
           /\ Asked(bsc, i, p) \in [Lchans -> Requests]
           /\ Asks(i, p) \in Worlds
  <1>1. Asks(i, p) = W(ts, lchan, slots, infos, Asked(bsc, i, p), crashed, odd)
    BY DEF Asks, Asked, Now, W, With
  <1>2. [use |-> p, wait |-> "act"] \in Requests
    BY DEF Requests
  <1>3. Asked(bsc, i, p) \in [Lchans -> Requests]
    BY <1>2, StateTypes DEF Asked, With
  <1> QED
    BY <1>1, <1>3, StateTypes, WType

\* The BSC gives a channel up.
LEMMA LeavesIs ==
    ASSUME DynTypeOK, NEW i \in Lchans
    PROVE  /\ Leaves(i) = W(ts, lchan, slots, infos, Left(bsc, i), crashed, EarlyOdd(odd, bsc, i))
           /\ [Now EXCEPT !.bsc[i].wait = "rel"] =
                W(ts, lchan, slots, infos, Left(bsc, i), crashed, odd)
           /\ Left(bsc, i) \in [Lchans -> Requests]
           /\ Leaves(i) \in Worlds
           /\ [Now EXCEPT !.bsc[i].wait = "rel"] \in Worlds
  <1>1. bsc[i] \in Requests
    BY StateTypes
  <1>2. PICK r : r = [bsc[i] EXCEPT !.wait = "rel"]
    OBVIOUS
  <1>3. r = [use |-> bsc[i].use, wait |-> "rel"] /\ r \in Requests
    BY <1>1, <1>2 DEF Requests
  <1>4. PICK x : x = [Now EXCEPT !.bsc[i].wait = "rel"]
    OBVIOUS
  <1>5. x = [Now EXCEPT !.bsc[i] = r]
    BY <1>2, <1>4 DEF Now
  <1>6. x = W(ts, lchan, slots, infos, Left(bsc, i), crashed, odd)
    BY <1>3, <1>5 DEF Left, Now, W, With
  <1>7. Left(bsc, i) \in [Lchans -> Requests]
    BY <1>3, StateTypes DEF Left, With
  <1>8. PICK o : o = EarlyOdd(odd, bsc, i)
    OBVIOUS
  <1>9. Leaves(i) = [x EXCEPT !.odd = o]
    BY <1>4, <1>6, <1>8 DEF Leaves, EarlyOdd, W, Now
  <1>10. Leaves(i) = W(ts, lchan, slots, infos, Left(bsc, i), crashed, o)
    BY <1>6, <1>9 DEF W
  <1>11. o \in SUBSET OddEvents
    BY <1>8, StateTypes DEF EarlyOdd, OddEvents
  <1>12. Leaves(i) \in Worlds /\ x \in Worlds
    BY <1>6, <1>7, <1>10, <1>11, StateTypes, WType
  <1> QED
    BY <1>4, <1>6, <1>7, <1>8, <1>10, <1>12

\* The first SETSLOT is answered.
LEMMA TailIs ==
    ASSUME DynTypeOK, slots # <<>>
    PROVE  /\ [Now EXCEPT !.slots = Tail(@)] = W(ts, lchan, Tail(slots), infos, bsc, crashed, odd)
           /\ Tail(slots) \in Seq(Pchans) /\ Head(slots) \in Pchans
           /\ [Now EXCEPT !.slots = Tail(@)] \in Worlds
  <1>1. [Now EXCEPT !.slots = Tail(@)] = W(ts, lchan, Tail(slots), infos, bsc, crashed, odd)
    BY DEF Now, W
  <1>2. Tail(slots) \in Seq(Pchans) /\ Head(slots) \in Pchans
    BY StateTypes
  <1>3. PICK s : s = Tail(slots)
    OBVIOUS
  <1>4. W(ts, lchan, s, infos, bsc, crashed, odd) \in Worlds
    BY <1>2, <1>3, StateTypes, WType
  <1> QED
    BY <1>1, <1>2, <1>3, <1>4

\* Channel i, last used on behalf of k.
Kind(l, i, k) == With(l, i, [l[i] EXCEPT !.kind = k])

\* On whose behalf a channel was last used, and nothing else of it, changes.
LEMMA KindOf ==
    ASSUME NEW l \in [Lchans -> Lchan], NEW i \in Lchans, NEW k \in {"RSL", "PCU", "OML"},
           NEW m, m = Kind(l, i, k)
    PROVE  /\ m \in [Lchans -> Lchan] /\ m[i].kind = k
           /\ \A j \in Lchans : /\ m[j].state = l[j].state /\ m[j].type = l[j].type
                                /\ m[j].pending = l[j].pending
           /\ \A j \in Lchans : j # i => m[j] = l[j]
  <1>1. PICK c : c = [l[i] EXCEPT !.kind = k]
    OBVIOUS
  <1>2. /\ c \in Lchan /\ c.kind = k /\ c.state = l[i].state /\ c.type = l[i].type
        /\ c.pending = l[i].pending
    BY <1>1 DEF Lchan
  <1>3. m = [l EXCEPT ![i] = c]
    BY <1>1 DEF Kind, With
  <1>4. \A j \in Lchans : m[j] = IF j = i THEN c ELSE l[j]
    BY <1>3
  <1>5. m \in [Lchans -> Lchan]
    BY <1>2, <1>3
  <1> QED
    BY <1>2, <1>4, <1>5

\* The same in the record.
LEMMA KindIs ==
    ASSUME NEW t, NEW l, NEW s, NEW f, NEW b, NEW c, NEW o, NEW i, NEW k
    PROVE  [W(t, l, s, f, b, c, o) EXCEPT !.lchan[i].kind = k] = W(t, Kind(l, i, k), s, f, b, c, o)
  BY DEF W, Kind, With

\* ACT.req, before it is followed.
ReqOdd == odd \cup (IF slots # <<>> /\ ts.pchan = "TCH_F_PDCH" THEN {"eager"} ELSE {})
              \cup (IF bsc[0].use = None THEN {"early"} ELSE {})
ReqWorld == W(ts, Kind(lchan, 0, "PCU"), slots, infos, bsc, crashed, ReqOdd)

\* ACT.req of the PCU, by parts.
LEMMA ActReqIs ==
    ASSUME DynTypeOK, pcu_rx_act_req
    PROVE  /\ Become(IF lchan[0].type # "PDTCH" \/ (ts.pchan = "OSMO_DYN" /\ ts.is # "PDCH")
                     THEN ReqWorld
                     ELSE IF Head(reqs) THEN l1sap_chan_act(ReqWorld, 0)
                     ELSE l1sap_chan_rel(ReqWorld, 0))
           /\ ReqWorld \in Worlds
  <1>1. PICK x : x = [Now EXCEPT !.lchan[0].kind = "PCU"]
    OBVIOUS
  <1>2. x = W(ts, Kind(lchan, 0, "PCU"), slots, infos, bsc, crashed, odd)
    BY <1>1, KindIs, StateTypes
  <1>3. PICK o : o = ReqOdd
    OBVIOUS
  <1>4. [x EXCEPT !.odd = o] = ReqWorld
    BY <1>2, <1>3 DEF W, ReqWorld
  <1>5. [Now EXCEPT !.lchan[0].kind = "PCU",
                    !.odd = @ \cup (IF slots # <<>> /\ ts.pchan = "TCH_F_PDCH"
                                    THEN {"eager"} ELSE {})
                              \cup (IF bsc[0].use = None THEN {"early"} ELSE {})] =
        [x EXCEPT !.odd = o]
    BY <1>1, <1>3 DEF Now, ReqOdd
  <1>6. ReqWorld \in Worlds
    <2>1. PICK l : l = Kind(lchan, 0, "PCU")
      OBVIOUS
    <2>2. l \in [Lchans -> Lchan]
      BY <2>1, KindOf, StateTypes DEF Lchans
    <2>3. o \in SUBSET OddEvents
      BY <1>3, StateTypes DEF ReqOdd, OddEvents
    <2> QED
      BY <1>3, <2>1, <2>2, <2>3, StateTypes, WType DEF ReqWorld
  <1> QED
    BY <1>4, <1>5, <1>6 DEF pcu_rx_act_req

\* The PCU is lost.
DiedOdd == odd \cup (IF bsc[0] = [use |-> "PDCH", wait |-> "rel"] THEN {"died"} ELSE {})
DiedWorld == W(ts, lchan, slots, infos, bsc, crashed, DiedOdd)
DiedPcuWorld == W(ts, Kind(lchan, 0, "PCU"), slots, infos, bsc, crashed, DiedOdd)
Released == IF Wanted(ts) THEN l1sap_chan_rel(DiedPcuWorld, 0) ELSE DiedWorld

\* The loss of the PCU, by parts.
LEMMA CloseIs ==
    ASSUME DynTypeOK, pcu_sock_close
    PROVE  /\ Become([Released EXCEPT !.infos = <<>>])
           /\ DiedWorld \in Worlds /\ DiedPcuWorld \in Worlds /\ DiedOdd \in SUBSET OddEvents
  <1>1. PICK o : o = DiedOdd
    OBVIOUS
  <1>2. [Now EXCEPT !.odd = @ \cup (IF bsc[0] = [use |-> "PDCH", wait |-> "rel"]
                                    THEN {"died"} ELSE {})] = DiedWorld
    <2>1. [Now EXCEPT !.odd = @ \cup (IF bsc[0] = [use |-> "PDCH", wait |-> "rel"]
                                      THEN {"died"} ELSE {})] = [Now EXCEPT !.odd = o]
      BY <1>1 DEF Now, DiedOdd
    <2>2. [Now EXCEPT !.odd = o] = W(ts, lchan, slots, infos, bsc, crashed, o)
      BY DEF Now, W
    <2> QED
      BY <1>1, <2>1, <2>2 DEF DiedWorld
  <1>3. [DiedWorld EXCEPT !.lchan[0].kind = "PCU"] = DiedPcuWorld
    BY KindIs DEF DiedWorld, DiedPcuWorld
  <1>4. DiedWorld.ts = ts
    BY DEF DiedWorld, W
  <1>5. ReleasePdch(DiedWorld) = Released
    BY <1>3, <1>4 DEF ReleasePdch, Released, Wanted
  <1>6. o \in SUBSET OddEvents
    BY <1>1, StateTypes DEF DiedOdd, OddEvents
  <1>7. PICK l : l = Kind(lchan, 0, "PCU")
    OBVIOUS
  <1>8. l \in [Lchans -> Lchan]
    BY <1>7, KindOf, StateTypes DEF Lchans
  <1>9. DiedWorld \in Worlds /\ DiedPcuWorld \in Worlds
    BY <1>1, <1>6, <1>7, <1>8, StateTypes, WType DEF DiedWorld, DiedPcuWorld
  <1> QED
    BY <1>1, <1>2, <1>5, <1>6, <1>9 DEF pcu_sock_close

\* The A-bis link is lost.
SwitchedOff == [ts EXCEPT !.pchan = None, !.is = None, !.want = None, !.enabled = FALSE]
Cleaned == [i \in Lchans |-> CleanLchan(lchan[i])]
NoUse == [i \in Lchans |-> Answer(None)]
OrphanOdd == odd \cup (IF \/ \E i \in Lchans : lchan[i].pending # NoActivation
                          \/ ts.actPend \/ ts.deactPend \/ ts.active
                          \/ reqs # <<>> \/ Contains(infos, TRUE)
                       THEN {"orphan"} ELSE {})
OffWorld == W(SwitchedOff, Cleaned, <<>>, infos, NoUse, crashed, OrphanOdd)

\* The loss of the A-bis link, by parts.
LEMMA OffIs ==
    ASSUME DynTypeOK, gsm_ts_release
    PROVE  /\ Become(IF pcu.up THEN pcu_tx_info_ind(OffWorld) ELSE OffWorld)
           /\ OffWorld \in Worlds /\ Cleaned \in [Lchans -> Lchan]
  <1>1. PICK t, l, b, o : t = SwitchedOff /\ l = Cleaned /\ b = NoUse /\ o = OrphanOdd
    OBVIOUS
  <1>2. [Now EXCEPT !.lchan = [i \in Lchans |-> CleanLchan(@[i])],
                    !.ts = [@ EXCEPT !.pchan = None, !.is = None, !.want = None,
                                     !.enabled = FALSE],
                    !.slots = <<>>,
                    !.bsc = [i \in Lchans |-> [use |-> None, wait |-> "none"]],
                    !.odd = @ \cup (IF \/ \E i \in Lchans : lchan[i].pending # NoActivation
                                       \/ ts.actPend \/ ts.deactPend \/ ts.active
                                       \/ reqs # <<>> \/ Contains(infos, TRUE)
                                    THEN {"orphan"} ELSE {})]
        = [Now EXCEPT !.lchan = l, !.ts = t, !.slots = <<>>, !.bsc = b, !.odd = o]
    BY <1>1 DEF SwitchedOff, Cleaned, NoUse, OrphanOdd, Now, Answer
  <1>3. [Now EXCEPT !.lchan = l, !.ts = t, !.slots = <<>>, !.bsc = b, !.odd = o] = OffWorld
    <2>1. [Now EXCEPT !.lchan = l, !.ts = t, !.slots = <<>>, !.bsc = b, !.odd = o] =
          W(t, l, <<>>, infos, b, crashed, o)
      <3>1. PICK n : n = Now
        OBVIOUS
      <3>2. PICK x : x = [n EXCEPT !.lchan = l, !.ts = t]
        OBVIOUS
      <3>3. x = W(t, l, slots, infos, bsc, crashed, odd)
        BY <3>1, <3>2 DEF Now, W
      <3>4. PICK y : y = [x EXCEPT !.slots = <<>>, !.bsc = b]
        OBVIOUS
      <3>5. y = W(t, l, <<>>, infos, b, crashed, odd)
        BY <3>3, <3>4 DEF W
      <3>6. [y EXCEPT !.odd = o] = W(t, l, <<>>, infos, b, crashed, o)
        BY <3>5 DEF W
      <3>7. [n EXCEPT !.lchan = l, !.ts = t, !.slots = <<>>, !.bsc = b, !.odd = o] =
            [y EXCEPT !.odd = o]
        BY <3>2, <3>4
      <3> QED
        BY <3>1, <3>6, <3>7
    <2> QED
      BY <1>1, <2>1 DEF OffWorld
  <1>4. t \in Timeslots
    BY <1>1, StateTypes DEF SwitchedOff, Timeslots
  <1>5. b \in [Lchans -> Requests]
    BY <1>1 DEF NoUse, Answer, Requests
  <1>6. o \in SUBSET OddEvents
    BY <1>1, StateTypes DEF OrphanOdd, OddEvents
  <1>7. l \in [Lchans -> Lchan]
    <2>1. ASSUME NEW i \in Lchans
          PROVE  CleanLchan(lchan[i]) \in Lchan
      <3>1. lchan[i] \in Lchan
        BY StateTypes
      <3> QED
        BY <3>1 DEF CleanLchan, Lchan
    <2> QED
      BY <1>1, <2>1 DEF Cleaned
  <1>8. OffWorld \in Worlds
    <2>1. PICK s : s = <<>>
      OBVIOUS
    <2>2. s \in Seq(Pchans)
      BY <2>1
    <2> QED
      BY <1>1, <1>4, <1>5, <1>6, <1>7, <2>1, <2>2, StateTypes, WType DEF OffWorld
  <1> QED
    BY <1>1, <1>2, <1>3, <1>7, <1>8 DEF gsm_ts_release

\* The timeslot is configured as k.
SwitchedOn(k) == [ts EXCEPT !.pchan = k, !.enabled = TRUE]
SetFails(k) == k = "TCH_F_PDCH" /\ (ts.actPend \/ ts.deactPend)
SetAs(k) == IF k = "OSMO_DYN" THEN None ELSE IF ts.active THEN "PDCH" ELSE "TCH_F"
SetLchans(k) == IF SetAs(k) = None THEN lchan ELSE Conf(lchan, SetAs(k))
SetWorld(k) == W(SwitchedOn(k), SetLchans(k), slots, infos, bsc, SetFails(k), odd)

\* The configuration of the timeslot, by parts.
LEMMA SetIs ==
    ASSUME DynTypeOK, trx_set_ts
    PROVE  \E k \in Kinds :
              /\ Become(IF pcu.up THEN pcu_tx_info_ind(SetWorld(k)) ELSE SetWorld(k))
              /\ SetWorld(k) \in Worlds /\ dev' = SetAs(k)
              /\ SetLchans(k) \in [Lchans -> Lchan]
  <1>1. PICK k \in Kinds :
          LET p == IF k = "OSMO_DYN" THEN None ELSE IF ts.active THEN "PDCH" ELSE "TCH_F"
              n == [Now EXCEPT !.ts.pchan = k, !.ts.enabled = TRUE,
                               !.crashed = k = "TCH_F_PDCH" /\ (ts.actPend \/ ts.deactPend)]
              w == IF p = None THEN n ELSE conf_lchans_as_pchan(n, p)
          IN  Become(IF pcu.up THEN pcu_tx_info_ind(w) ELSE w) /\ dev' = p
    BY DEF trx_set_ts
  <1>2. PICK c, p, u, v : /\ c = SetFails(k) /\ p = SetAs(k)
                          /\ u = [ts EXCEPT !.pchan = k] /\ v = [u EXCEPT !.enabled = TRUE]
    OBVIOUS
  <1>3. PICK x : x = [Now EXCEPT !.ts = u]
    OBVIOUS
  <1>4. PICK y : y = [x EXCEPT !.ts = v]
    OBVIOUS
  <1>5. PICK n : n = [y EXCEPT !.crashed = c]
    OBVIOUS
  <1>6. x.ts = u
    BY <1>3 DEF Now
  <1>7. [Now EXCEPT !.ts.pchan = k] = x
    BY <1>2, <1>3 DEF Now
  <1>8. [x EXCEPT !.ts.enabled = TRUE] = y
    BY <1>2, <1>4, <1>6
  <1>9. n = [Now EXCEPT !.ts.pchan = k, !.ts.enabled = TRUE,
                        !.crashed = k = "TCH_F_PDCH" /\ (ts.actPend \/ ts.deactPend)]
    BY <1>2, <1>5, <1>7, <1>8 DEF SetFails
  <1>10. v = SwitchedOn(k)
    BY <1>2 DEF SwitchedOn
  <1>11. n = W(SwitchedOn(k), lchan, slots, infos, bsc, c, odd)
    BY <1>3, <1>4, <1>5, <1>10 DEF Now, W
  <1>12. (IF p = None THEN n ELSE conf_lchans_as_pchan(n, p)) = SetWorld(k)
    <2>1. CASE p = None
      BY <1>2, <1>11, <2>1 DEF SetWorld, SetLchans
    <2>2. CASE p # None
      BY <1>2, <1>11, <2>2, ConfIs DEF SetWorld, SetLchans
    <2> QED
      BY <2>1, <2>2
  <1>13. SwitchedOn(k) \in Timeslots
    BY StateTypes DEF SwitchedOn, Timeslots
  <1>14. SetLchans(k) \in [Lchans -> Lchan]
    BY StateTypes, ConfOf DEF SetLchans
  <1>15. SetFails(k) \in BOOLEAN
    BY DEF SetFails
  <1>16. SetWorld(k) \in Worlds
    <2>1. PICK t, l, z : t = SwitchedOn(k) /\ l = SetLchans(k) /\ z = SetFails(k)
      OBVIOUS
    <2> QED
      BY <1>13, <1>14, <1>15, <2>1, StateTypes, WType DEF SetWorld
  <1> QED
    BY <1>1, <1>2, <1>9, <1>12, <1>14, <1>16 DEF SetAs

\* Every step keeps the type.
LEMMA TypesKept ==
    ASSUME DynTypeOK, DynNext
    PROVE  DynTypeOK'
  <1>1. /\ dev \in Pchans \cup {None} /\ reqs \in Seq(BOOLEAN) /\ infos \in Seq(BOOLEAN)
        /\ resets \in 0 .. MaxResets
        /\ pcu \in [up : BOOLEAN, on : BOOLEAN, died : 0 .. MaxLosses]
    BY DEF DynTypeOK
  <1>2. ASSUME NEW w \in Worlds, Become(w), UNCHANGED <<dev, reqs, pcu, resets>>
        PROVE  DynTypeOK'
    BY <1>1, <1>2, BecomeTypes
  <1>3. ASSUME NEW w \in Worlds
        PROVE  pcu_tx_info_ind(w) \in Worlds
    <2>1. TRUE \in BOOLEAN /\ 0 \in Lchans
      BY DEF Lchans
    <2> QED
      BY <2>1, AckTypes
  <1>4. 0 \in Lchans
    BY DEF Lchans
  <1>5. ASSUME NEW i \in Lchans, NEW p \in Pchans, NEW v \in Verdicts, ChanActiv(i, p, v)
        PROVE  DynTypeOK'
    <2>1. PICK m : m = [pchan |-> p, verdict |-> v]
      OBVIOUS
    <2>2. m \in Activation
      BY <2>1 DEF Activation
    <2>3. PICK w : w = rsl_rx_chan_activ(Asks(i, p), i, m)
      OBVIOUS
    <2>4. w \in Worlds
      BY <2>2, <2>3, ActivateTypes, AsksIs
    <2> QED
      BY <1>2, <1>5, <2>1, <2>3, <2>4 DEF ChanActiv
  <1>6. CASE PdchAct
    <2>1. PICK act, x : act = TRUE /\ x = Asks(0, "PDCH")
      OBVIOUS
    <2>2. "PDCH" \in Pchans
      BY DEF Pchans
    <2>3. x = W(ts, lchan, slots, infos, Asked(bsc, 0, "PDCH"), crashed, odd) /\ x \in Worlds
      BY <1>4, <2>1, <2>2, AsksIs
    <2>4. x.ts.pchan = "TCH_F_PDCH"
      BY <1>6, <2>3 DEF W, PdchAct
    <2>5. PICK w : w = rsl_rx_dyn_pdch(x, act)
      OBVIOUS
    <2>6. w \in Worlds
      BY <2>1, <2>3, <2>4, <2>5, DynPdchTypes
    <2> QED
      BY <1>2, <1>6, <2>1, <2>5, <2>6 DEF PdchAct
  <1>7. ASSUME NEW i \in Lchans, RfChanRel(i)
        PROVE  DynTypeOK'
    <2>1. PICK w : w = rsl_rx_rf_chan_rel(Leaves(i), i)
      OBVIOUS
    <2>2. w \in Worlds
      BY <2>1, ReleaseTypes, LeavesIs
    <2> QED
      BY <1>2, <1>7, <2>1, <2>2 DEF RfChanRel
  <1>8. CASE PdchDeact
    <2>1. PICK act, x : act = FALSE /\ x = [Now EXCEPT !.bsc[0].wait = "rel"]
      OBVIOUS
    <2>2. x = W(ts, lchan, slots, infos, Left(bsc, 0), crashed, odd) /\ x \in Worlds
      BY <1>4, <2>1, LeavesIs
    <2>3. x.ts.pchan = "TCH_F_PDCH"
      BY <1>8, <2>2 DEF W, PdchDeact
    <2>4. PICK w : w = rsl_rx_dyn_pdch(x, act)
      OBVIOUS
    <2>5. w \in Worlds
      BY <2>1, <2>2, <2>3, <2>4, DynPdchTypes
    <2> QED
      BY <1>2, <1>8, <2>1, <2>4, <2>5 DEF PdchDeact
  <1>9. CASE gsm_ts_release
    <2>1. PICK w : w = IF pcu.up THEN pcu_tx_info_ind(OffWorld) ELSE OffWorld
      OBVIOUS
    <2>2. w \in Worlds /\ Become(w)
      BY <1>3, <1>9, <2>1, OffIs
    <2>3. resets' \in 0 .. MaxResets /\ UNCHANGED <<dev, reqs, pcu>>
      BY <1>1, <1>9, DynAssumption DEF gsm_ts_release
    <2> QED
      BY <1>1, <2>2, <2>3, BecomeTypes
  <1>10. CASE trx_set_ts
    <2>1. PICK k \in Kinds :
              /\ Become(IF pcu.up THEN pcu_tx_info_ind(SetWorld(k)) ELSE SetWorld(k))
              /\ SetWorld(k) \in Worlds /\ dev' = SetAs(k)
      BY <1>10, SetIs
    <2>2. PICK w : w = IF pcu.up THEN pcu_tx_info_ind(SetWorld(k)) ELSE SetWorld(k)
      OBVIOUS
    <2>3. w \in Worlds /\ Become(w)
      BY <1>3, <2>1, <2>2
    <2>4. dev' \in Pchans \cup {None} /\ UNCHANGED <<reqs, pcu, resets>>
      BY <1>10, <2>1 DEF trx_set_ts, SetAs, Pchans
    <2> QED
      BY <1>1, <2>3, <2>4, BecomeTypes
  <1>11. CASE l1if_setslot_cb
    <2>1. PICK x : x = [Now EXCEPT !.slots = Tail(@)]
      OBVIOUS
    <2>2. x \in Worlds /\ Head(slots) \in Pchans
      BY <1>11, <2>1, TailIs DEF l1if_setslot_cb
    <2>3. PICK w : w = cb_ts_connected(x)
      OBVIOUS
    <2>4. w \in Worlds
      BY <2>2, <2>3, ConnectedTypes
    <2>5. dev' = Head(slots) /\ Become(w) /\ UNCHANGED <<reqs, pcu, resets>>
      BY <1>11, <2>1, <2>3 DEF l1if_setslot_cb
    <2> QED
      BY <1>1, <2>2, <2>4, <2>5, BecomeTypes
  <1>12. CASE pcu_rx_act_req
    <2>1. PICK w : w = IF lchan[0].type # "PDTCH" \/ (ts.pchan = "OSMO_DYN" /\ ts.is # "PDCH")
                       THEN ReqWorld
                       ELSE IF Head(reqs) THEN l1sap_chan_act(ReqWorld, 0)
                       ELSE l1sap_chan_rel(ReqWorld, 0)
      OBVIOUS
    <2>2. ReqWorld \in Worlds /\ Become(w)
      BY <1>12, <2>1, ActReqIs
    <2>3. w \in Worlds
      BY <1>4, <2>1, <2>2, ChanTypes
    <2>4. reqs # <<>> /\ reqs' = Tail(reqs) /\ UNCHANGED <<dev, pcu, resets>>
      BY <1>12 DEF pcu_rx_act_req
    <2>5. reqs' \in Seq(BOOLEAN)
      BY <1>1, <2>4
    <2> QED
      BY <1>1, <2>2, <2>3, <2>4, <2>5, BecomeTypes
  <1>13. CASE PcuFollows
    <2>1. Head(infos) \in BOOLEAN /\ Tail(infos) \in Seq(BOOLEAN)
      BY <1>1, <1>13 DEF PcuFollows
    <2>2. reqs' \in Seq(BOOLEAN)
      <3>1. Append(reqs, Head(infos)) \in Seq(BOOLEAN)
        BY <1>1, <2>1
      <3> QED
        BY <1>1, <1>13, <3>1 DEF PcuFollows
    <2>3. pcu' \in [up : BOOLEAN, on : BOOLEAN, died : 0 .. MaxLosses]
      BY <1>1, <1>13, <2>1 DEF PcuFollows
    <2>4. infos' \in Seq(BOOLEAN)
      BY <1>13, <2>1 DEF PcuFollows
    <2> QED
      BY <1>13, <2>2, <2>3, <2>4 DEF PcuFollows, DynTypeOK
  <1>14. CASE pcu_if_signal_cb
    <2>1. PICK w : w = pcu_tx_info_ind(Now)
      OBVIOUS
    <2>2. w \in Worlds
      BY <1>3, <2>1, StateTypes
    <2> QED
      BY <1>2, <1>14, <2>1, <2>2 DEF pcu_if_signal_cb
  <1>15. CASE pcu_sock_accept
    <2>1. PICK w : w = pcu_tx_info_ind(Now)
      OBVIOUS
    <2>2. w \in Worlds
      BY <1>3, <2>1, StateTypes
    <2>3. pcu' \in [up : BOOLEAN, on : BOOLEAN, died : 0 .. MaxLosses]
      BY <1>1, <1>15 DEF pcu_sock_accept
    <2> QED
      BY <1>1, <1>15, <2>1, <2>2, <2>3, BecomeTypes DEF pcu_sock_accept
  <1>16. CASE pcu_sock_close
    <2>1. PICK w, f : w = [Released EXCEPT !.infos = f] /\ f = <<>>
      OBVIOUS
    <2>2. Become(w) /\ DiedWorld \in Worlds /\ DiedPcuWorld \in Worlds
      BY <1>16, <2>1, CloseIs
    <2>3. Released \in Worlds
      BY <1>4, <2>2, ChanTypes DEF Released
    <2>4. w \in Worlds
      <3>1. f \in Seq(BOOLEAN)
        BY <2>1
      <3> QED
        BY <2>1, <2>3, <3>1, WorldIs
    <2>5. pcu' \in [up : BOOLEAN, on : BOOLEAN, died : 0 .. MaxLosses] /\ reqs' \in Seq(BOOLEAN)
      BY <1>1, <1>16, DynAssumption DEF pcu_sock_close
    <2> QED
      BY <1>1, <1>16, <2>2, <2>4, <2>5, BecomeTypes DEF pcu_sock_close
  <1> QED
    BY <1>5, <1>6, <1>7, <1>8, <1>9, <1>10, <1>11, <1>12, <1>13, <1>14, <1>15, <1>16
    DEF DynNext, BscStep

-----------------------------------------------------------------------------
(***************************************************************************)
(* The inductive invariant: the timeslot is in one of the phases of a      *)
(* switch, and each phase says which channels may be active, which SETSLOT *)
(* is under way and what the BSC waits for.  What the PCU was told last    *)
(* is what the timeslot is, and what it asked for last is what it was told.*)
(***************************************************************************)

\* What the BSC may use a channel for and wait for.
Nothing == Answer(None)
Waiting(p) == [use |-> p, wait |-> "act"]
Using(p) == Answer(p)
Leaving(p) == [use |-> p, wait |-> "rel"]

\* Channels of a timeslot that is p; channels not in use.
Typed(l, p) == \A i \in Lchans : l[i].type = TypeFor(p, i)
Quiet(l) == \A i \in Lchans : l[i].state = "NONE"
NonePending(l) == \A i \in Lchans : l[i].pending = NoActivation
Unused(b) == \A i \in Lchans : b[i] = Nothing
NoFlags(t) == ~t.active /\ ~t.actPend /\ ~t.deactPend

\* A channel c that the BSC may use for p, with its request r: active and answered, or not
\* active, and perhaps asked for.
Uses(c, r, p) ==
    /\ c.pending = NoActivation
    /\ IF c.state = "ACTIVE" THEN r = Using(p) ELSE r \in {Nothing, Waiting(p)}
\* Only TCH_H has a second channel.
Only0(p, l, b) ==
    p # "TCH_H" => l[1].state = "NONE" /\ l[1].pending = NoActivation /\ b[1] = Nothing

\* The timeslot is not configured.
Off(t, l, s, b) ==
    /\ ~t.enabled /\ t.pchan = None /\ t.is = None /\ t.want = None /\ NoFlags(t)
    /\ Quiet(l) /\ NonePending(l) /\ Unused(b) /\ s = <<>>

\* OSMO_DYN: nothing yet or again; on the way to what the BSC wants; a voice channel; a packet
\* channel; a packet channel that the PCU has been asked to release.
OsmoUnconnected(t, l, s, b) ==
    /\ t.is = None /\ t.want = None /\ s = <<>>
    /\ Quiet(l) /\ NonePending(l) /\ Unused(b)
OsmoSwitching(t, l, s, b) ==
    /\ t.is = None /\ t.want \in Pchans /\ s = <<t.want>>
    /\ Quiet(l) /\ Typed(l, t.want) /\ Only0(t.want, l, b) /\ ~NonePending(l)
    /\ \A i \in Lchans :
          IF l[i].pending = NoActivation THEN b[i] = Nothing
          ELSE /\ l[i].pending.pchan = t.want /\ b[i] = Waiting(t.want)
               /\ t.want = "PDCH" => l[i].pending.verdict = "ok"
OsmoConnected(t, l, s, d, b) ==
    /\ t.is \in {"TCH_F", "TCH_H"} /\ t.want = t.is /\ s = <<>> /\ d = t.is
    /\ Typed(l, t.is) /\ Only0(t.is, l, b)
    /\ \A i \in Lchans : Uses(l[i], b[i], t.is)
OsmoPdch(t, l, s, d, b, up) ==
    /\ t.is = "PDCH" /\ t.want = "PDCH" /\ s = <<>> /\ d = "PDCH"
    /\ Typed(l, "PDCH") /\ NonePending(l) /\ Only0("PDCH", l, b)
    /\ b[0] \in {Nothing, Using("PDCH")}
    /\ l[0].state = "ACTIVE" => up /\ b[0] # Nothing
OsmoReleasing(t, l, s, d, b) ==
    /\ t.is = "PDCH" /\ t.want = None /\ s = <<>> /\ d = "PDCH"
    /\ Typed(l, "PDCH") /\ NonePending(l) /\ Only0("PDCH", l, b)
    /\ l[0].state = "ACTIVE" /\ b[0] = Leaving("PDCH")
OsmoPhase(t, l, s, d, b, up) ==
    /\ t.pchan = "OSMO_DYN" /\ t.enabled /\ NoFlags(t)
    /\ \/ OsmoUnconnected(t, l, s, b) \/ OsmoSwitching(t, l, s, b)
       \/ OsmoConnected(t, l, s, d, b) \/ OsmoPdch(t, l, s, d, b, up)
       \/ OsmoReleasing(t, l, s, d, b)

\* TCH_F_PDCH: a voice channel; PDCH ACT, before and after SETSLOT; a packet channel; PDCH
\* DEACT, before and after the PCU has released its channel.
IpVoice(t, l, s, d, b) ==
    /\ NoFlags(t) /\ s = <<>> /\ d = "TCH_F" /\ Typed(l, "TCH_F") /\ Uses(l[0], b[0], "TCH_F")
IpActivating(t, l, s, d, b) ==
    /\ t.actPend /\ ~t.active /\ ~t.deactPend
    /\ Quiet(l) /\ Typed(l, "PDCH") /\ b[0] = Waiting("PDCH")
    /\ (s = <<"PDCH">> /\ d = "TCH_F") \/ (s = <<>> /\ d = "PDCH")
IpPdch(t, l, s, d, b, up) ==
    /\ t.active /\ ~t.actPend /\ ~t.deactPend
    /\ s = <<>> /\ d = "PDCH" /\ Typed(l, "PDCH") /\ b[0] = Using("PDCH")
    /\ l[0].state = "ACTIVE" => up
IpDeactivating(t, l, s, d, b) ==
    /\ t.active /\ ~t.actPend /\ t.deactPend
    /\ d = "PDCH" /\ b[0] = Leaving("PDCH")
    /\ \/ s = <<>> /\ Typed(l, "PDCH")
       \/ s = <<"TCH_F">> /\ Typed(l, "TCH_F") /\ Quiet(l)
IpPhase(t, l, s, d, b, up) ==
    /\ t.pchan = "TCH_F_PDCH" /\ t.enabled /\ t.is = None /\ t.want = None
    /\ NonePending(l) /\ Only0("TCH_F", l, b)
    /\ \/ IpVoice(t, l, s, d, b) \/ IpActivating(t, l, s, d, b)
       \/ IpPdch(t, l, s, d, b, up) \/ IpDeactivating(t, l, s, d, b)

Phase(t, l, s, d, b, up) ==
    Off(t, l, s, b) \/ OsmoPhase(t, l, s, d, b, up) \/ IpPhase(t, l, s, d, b, up)

\* What the PCU is told last, and whether the packet channel is active.
FinalOf(f, on) == IF f = <<>> THEN on ELSE Last(f)
PdchUp(l) == l[0].state = "ACTIVE" /\ l[0].type = "PDTCH"
Has(f) == \E k \in DOMAIN f : f[k]
HasNot(f) == \E k \in DOMAIN f : ~f[k]
SwitchPending(t, s) == t.pchan = "TCH_F_PDCH" /\ t.actPend /\ s # <<>>

\* Nothing is on its way to or from a PCU that is gone; a timeslot that is not enabled is
\* not one for the PCU; it is told last what the timeslot is; it asks last for what it was told.
GoneOf(f, r, p) == ~p.up => f = <<>> /\ r = <<>> /\ ~p.on
QuietOf(t, f, r) == ~t.enabled => ~Has(f) /\ ~Has(r)
ToldOf(t, s, f, o, p) ==
    p.up /\ "untold" \notin o /\ ~SwitchPending(t, s) => (FinalOf(f, p.on) <=> Wanted(t))
DoneOf(l, f, b, o, r, p) ==
    "untold" \notin o =>
        IF r # <<>> THEN Last(r) <=> p.on
        ELSE \/ PdchUp(l) <=> p.on
             \/ p.on /\ HasNot(f)
             \/ PdchUp(l) /\ b[0].wait = "rel"
PcuPart(t, l, s, f, b, o, r, p) ==
    GoneOf(f, r, p) /\ QuietOf(t, f, r) /\ ToldOf(t, s, f, o, p) /\ DoneOf(l, f, b, o, r, p)

\* Nothing that the properties make exceptions for, and the state as one of the phases.
Calm(o) == o \cap {"early", "eager", "orphan"} = {}
At(t, l, s, f, b, c, o, d, r, p) ==
    Calm(o) => ~c /\ Phase(t, l, s, d, b, p.up) /\ PcuPart(t, l, s, f, b, o, r, p)
AtWorld(w, d, r, p) ==
    At(w.ts, w.lchan, w.slots, w.infos, w.bsc, w.crashed, w.odd, d, r, p)

DynIInv == DynTypeOK /\ At(ts, lchan, slots, infos, bsc, crashed, odd, dev, reqs, pcu)

\* The parts of a record are what it was made of.
LEMMA AtIs ==
    ASSUME NEW t, NEW l, NEW s, NEW f, NEW b, NEW c, NEW o, NEW d, NEW r, NEW p
    PROVE  /\ AtWorld(W(t, l, s, f, b, c, o), d, r, p) <=> At(t, l, s, f, b, c, o, d, r, p)
           /\ Become(W(t, l, s, f, b, c, o)) =>
                /\ ts' = t /\ lchan' = l /\ slots' = s /\ infos' = f /\ bsc' = b
                /\ crashed' = c /\ odd' = o
  BY DEF AtWorld, W, Become

\* When the record is in a phase, the next state is.
LEMMA BecomeAt ==
    ASSUME NEW w, Become(w), AtWorld(w, dev', reqs', pcu')
    PROVE  At(ts, lchan, slots, infos, bsc, crashed, odd, dev, reqs, pcu)'
  <1>1. At(ts', lchan', slots', infos', bsc', crashed', odd', dev', reqs', pcu')
    BY DEF AtWorld, Become
  <1> QED
    BY <1>1

\* What the PCU is told last is the last message.
LEMMA SeqAppend ==
    ASSUME NEW f \in Seq(BOOLEAN), NEW x \in BOOLEAN, NEW on \in BOOLEAN,
           NEW g, g = Append(f, x)
    PROVE  /\ g # <<>> /\ FinalOf(g, on) = x
           /\ HasNot(f) => HasNot(g)
           /\ Has(g) => Has(f) \/ x
  <1>1. /\ g \in Seq(BOOLEAN) /\ Len(g) = Len(f) + 1 /\ g[Len(f) + 1] = x
        /\ \A k \in 1 .. Len(f) : g[k] = f[k]
    OBVIOUS
  <1>2. g # <<>> /\ FinalOf(g, on) = x
    BY <1>1 DEF FinalOf, Last
  <1>3. HasNot(f) => HasNot(g)
    BY <1>1 DEF HasNot
  <1>4. Has(g) => Has(f) \/ x
    BY <1>1 DEF Has
  <1> QED
    BY <1>2, <1>3, <1>4

\* A last message that takes the timeslot away is one that does.
LEMMA LastNot ==
    ASSUME NEW f \in Seq(BOOLEAN), f # <<>>, ~Last(f)
    PROVE  HasNot(f)
  <1>1. Len(f) \in DOMAIN f
    OBVIOUS
  <1> QED
    BY <1>1 DEF HasNot, Last

\* The first message that the PCU follows takes the place of what it had.
LEMMA SeqTail ==
    ASSUME NEW f \in Seq(BOOLEAN), f # <<>>, NEW on, NEW h, h = Tail(f)
    PROVE  /\ h \in Seq(BOOLEAN) /\ Head(f) \in BOOLEAN
           /\ FinalOf(f, on) = FinalOf(h, Head(f))
           /\ Has(h) => Has(f)
           /\ Head(f) => Has(f)
           /\ HasNot(f) => ~Head(f) \/ HasNot(h)
  <1>1. /\ h \in Seq(BOOLEAN) /\ Len(h) = Len(f) - 1 /\ Len(f) \in Nat \ {0}
        /\ \A k \in 1 .. Len(h) : h[k] = f[k + 1]
    OBVIOUS
  <1>2. Has(h) => Has(f)
    BY <1>1 DEF Has
  <1>3. HasNot(f) => ~f[1] \/ HasNot(h)
    <2>1. ASSUME NEW k \in 1 .. Len(f), ~f[k], f[1]
          PROVE  HasNot(h)
      <3>1. k # 1
        BY <2>1
      <3>2. k - 1 \in 1 .. Len(h) /\ (k - 1) + 1 = k
        BY <1>1, <3>1
      <3>3. k - 1 \in DOMAIN h /\ ~h[k - 1]
        BY <1>1, <2>1, <3>2
      <3> QED
        BY <3>3 DEF HasNot
    <2> QED
      BY <2>1 DEF HasNot
  <1>4. FinalOf(f, on) = FinalOf(h, Head(f))
    <2>1. CASE Len(f) = 1
      <3>1. h = <<>> /\ Last(f) = Head(f)
        BY <1>1, <2>1 DEF Last
      <3> QED
        BY <3>1 DEF FinalOf
    <2>2. CASE Len(f) # 1
      <3>1. Len(h) \in 1 .. Len(h) /\ Len(h) + 1 = Len(f)
        BY <1>1, <2>2
      <3>2. h[Len(h)] = f[Len(f)]
        BY <1>1, <3>1
      <3>3. h # <<>>
        BY <1>1, <2>2
      <3> QED
        BY <3>2, <3>3 DEF FinalOf, Last
    <2> QED
      BY <2>1, <2>2
  <1>5. Head(f) = f[1] /\ f[1] \in BOOLEAN
    BY <1>1
  <1>6. Head(f) => Has(f)
    <2>1. 1 \in DOMAIN f
      BY <1>1
    <2> QED
      BY <1>5, <2>1 DEF Has
  <1> QED
    BY <1>1, <1>2, <1>3, <1>4, <1>5, <1>6

\* Whether the PCU is to have the timeslot is true or false.
LEMMA WantedType ==
    ASSUME NEW t \in Timeslots
    PROVE  Wanted(t) \in BOOLEAN
  BY DEF Timeslots, Wanted, ts_should_be_pdch

\* A step that does not concern the PCU, ...
LEMMA PcuSame ==
    ASSUME NEW t, NEW t2, NEW l, NEW l2, NEW s, NEW s2, NEW f, NEW b, NEW b2,
           NEW o, NEW o2, NEW r, NEW p,
           PcuPart(t, l, s, f, b, o, r, p),
           t2.enabled,
           "untold" \in o => "untold" \in o2,
           (PdchUp(l2) <=> PdchUp(l)) \/ "untold" \in o2,
           PdchUp(l) /\ b[0].wait = "rel" => b2[0].wait = "rel",
           \/ ~p.up \/ "untold" \in o2 \/ SwitchPending(t2, s2)
           \/ ~SwitchPending(t, s) /\ (Wanted(t2) <=> Wanted(t))
    PROVE  PcuPart(t2, l2, s2, f, b2, o2, r, p)
  BY DEF PcuPart, GoneOf, QuietOf, ToldOf, DoneOf

\* ... and one that tells it.
LEMMA PcuToldNow ==
    ASSUME NEW t, NEW t2 \in Timeslots, NEW l, NEW l2, NEW s, NEW s2, NEW f \in Seq(BOOLEAN),
           NEW b, NEW b2, NEW o, NEW o2, NEW r, NEW p,
           p.on \in BOOLEAN, p.up,
           PcuPart(t, l, s, f, b, o, r, p),
           t2.enabled,
           "untold" \in o => "untold" \in o2,
           (PdchUp(l2) <=> PdchUp(l)) \/ "untold" \in o2,
           PdchUp(l) /\ b[0].wait = "rel" => b2[0].wait = "rel",
           NEW f2, f2 = Inform(f, t2)
    PROVE  PcuPart(t2, l2, s2, f2, b2, o2, r, p)
  <1>1. PICK x \in BOOLEAN : x = Wanted(t2)
    BY WantedType
  <1>2. FinalOf(f2, p.on) = x /\ (HasNot(f) => HasNot(f2))
    <2>1. f2 = Append(f, x)
      BY <1>1 DEF Inform
    <2> QED
      BY <1>1, <2>1, SeqAppend
  <1>3. GoneOf(f2, r, p) /\ QuietOf(t2, f2, r)
    BY DEF GoneOf, QuietOf
  <1>4. ToldOf(t2, s2, f2, o2, p)
    BY <1>1, <1>2 DEF ToldOf
  <1>5. DoneOf(l2, f2, b2, o2, r, p)
    BY <1>2 DEF PcuPart, DoneOf
  <1> QED
    BY <1>3, <1>4, <1>5 DEF PcuPart

-----------------------------------------------------------------------------
(* CHAN ACTIV, when the timeslot is what it is for.                        *)

\* An activation of channel i for p has been dealt with.
Dealt(i, p, l, b, o, l2, b2, o2) ==
    /\ l2 \in [Lchans -> Lchan] /\ b2 \in [Lchans -> Requests]
    /\ \A j \in Lchans : j # i => l2[j] = l[j] /\ b2[j] = b[j]
    /\ l2[i].type = l[i].type /\ Uses(l2[i], b2[i], p)
    /\ o2 \in {o, o \cup {"refused"}}

\* The activation of a voice channel is answered: accepted or refused.
LEMMA ActivateVoice ==
    ASSUME NEW t \in Timeslots, NEW l \in [Lchans -> Lchan], NEW s, NEW f,
           NEW b \in [Lchans -> Requests], NEW c, NEW o, NEW i \in Lchans, NEW m \in Activation,
           \/ t.pchan = "OSMO_DYN" /\ t.is # None /\ t.want # "PDCH"
           \/ t.pchan = "TCH_F_PDCH" /\ ~t.actPend,
           NEW p \in Pchans, b[i] = Waiting(p), l[i].state = "NONE", l[i].pending = NoActivation
    PROVE  \E l2, b2, o2 : /\ ActivateChannel(W(t, l, s, f, b, c, o), i, m) =
                                W(t, l2, s, f, b2, c, o2)
                           /\ Dealt(i, p, l, b, o, l2, b2, o2)
  <1>1. PICK w : w = W(t, l, s, f, b, c, o)
    OBVIOUS
  <1>2. b[i].wait = "act" /\ b[i].use = p /\ (t.pchan # "OSMO_DYN" \/ t.is # None)
    BY DEF Waiting
  <1>3. PICK b0, b1 : b0 = With(b, i, Nothing) /\ b1 = With(b, i, Using(p))
    OBVIOUS
  <1>4. /\ b0 \in [Lchans -> Requests] /\ b0[i] = Nothing
        /\ b1 \in [Lchans -> Requests] /\ b1[i] = Using(p)
        /\ \A j \in Lchans : j # i => b0[j] = b[j] /\ b1[j] = b[j]
    <2>1. PICK x, y : x = Nothing /\ y = Using(p)
      OBVIOUS
    <2>2. x \in Requests /\ y \in Requests
      BY <2>1 DEF Nothing, Using, Answer, Requests
    <2> QED
      BY <1>3, <2>1, <2>2 DEF With
  <1>5. Dealt(i, p, l, b, o, l, b0, o)
    BY <1>4 DEF Dealt, Uses
  <1>6. PICK u : u = W(t, l, s, f, b0, c, o)
    OBVIOUS
  <1>7. rsl_tx_chan_act_nack(w, i) = u
    BY <1>1, <1>2, <1>3, <1>6, AckIs DEF Nothing
  <1>8. CASE m.verdict = "mode"
    BY <1>1, <1>5, <1>6, <1>7, <1>8 DEF ActivateChannel
  <1>9. CASE m.verdict = "rest" /\ l[i].kind = "RSL"
    <2>1. ActNack(w, i) = u
      BY <1>1, <1>2, <1>3, <1>6, <1>9, ActAckIs DEF Nothing
    <2>2. w.lchan[i].kind = "RSL" /\ u.odd = o
      BY <1>1, <1>6, <1>9 DEF W
    <2>3. ActivateChannel(w, i, m) = [u EXCEPT !.odd = @ \cup {}]
      BY <1>9, <2>1, <2>2 DEF ActivateChannel, ActNack
    <2>4. o \cup {} = o
      OBVIOUS
    <2>5. [u EXCEPT !.odd = @ \cup {}] = u
      BY <1>6, <2>4 DEF W
    <2> QED
      BY <1>1, <1>5, <1>6, <2>3, <2>5
  <1>10. CASE m.verdict = "rest" /\ l[i].kind # "RSL"
    <2>1. ActNack(w, i) = w
      BY <1>1, <1>10, NoAckIs
    <2>2. w.lchan[i].kind # "RSL"
      BY <1>1, <1>10 DEF W
    <2>3. ActivateChannel(w, i, m) = [w EXCEPT !.odd = @ \cup {"refused"}]
      BY <1>10, <2>1, <2>2 DEF ActivateChannel, ActNack
    <2>4. [w EXCEPT !.odd = @ \cup {"refused"}] = W(t, l, s, f, b, c, o \cup {"refused"})
      BY <1>1 DEF W
    <2>5. Dealt(i, p, l, b, o, l, b, o \cup {"refused"})
      BY DEF Dealt, Uses
    <2> QED
      BY <1>1, <2>3, <2>4, <2>5
  <1>11. CASE m.verdict = "ok"
    <2>1. PICK k : k = Kind(l, i, "RSL")
      OBVIOUS
    <2>2. /\ k \in [Lchans -> Lchan] /\ k[i].kind = "RSL" /\ k[i].state = "NONE"
          /\ k[i].type = l[i].type /\ k[i].pending = l[i].pending
          /\ \A j \in Lchans : j # i => k[j] = l[j]
      BY <2>1, KindOf
    <2>3. [w EXCEPT !.lchan[i].kind = "RSL"] = W(t, k, s, f, b, c, o)
      BY <1>1, <2>1, KindIs
    <2>4. PICK l2 : l2 = With(k, i, Active(k[i]))
      OBVIOUS
    <2>5. l1sap_chan_act(W(t, k, s, f, b, c, o), i) = W(t, l2, s, f, b1, c, o)
      BY <1>2, <1>3, <2>2, <2>4, ChanActIs DEF Using
    <2>6. w.ts = t
      BY <1>1 DEF W
    <2>7. ActivateChannel(w, i, m) = W(t, l2, s, f, b1, c, o)
      BY <1>11, <2>3, <2>5, <2>6 DEF ActivateChannel
    <2>8. PICK a : a = Active(k[i])
      OBVIOUS
    <2>9. /\ a \in Lchan /\ a.state = "ACTIVE" /\ a.type = l[i].type /\ a.pending = NoActivation
      BY <2>2, <2>8, CellsOf
    <2>10. l2 \in [Lchans -> Lchan] /\ l2[i] = a /\ \A j \in Lchans : j # i => l2[j] = l[j]
      <3>1. l2 = With(k, i, a)
        BY <2>4, <2>8
      <3>2. l2 \in [Lchans -> Lchan] /\ l2[i] = a /\ \A j \in Lchans : j # i => l2[j] = k[j]
        BY <2>2, <2>9, <3>1 DEF With
      <3> QED
        BY <2>2, <3>2
    <2>11. Dealt(i, p, l, b, o, l2, b1, o)
      BY <1>4, <2>9, <2>10 DEF Dealt, Uses
    <2> QED
      BY <1>1, <2>7, <2>11
  <1> QED
    BY <1>8, <1>9, <1>10, <1>11 DEF Activation, Verdicts

\* The activation of a packet channel is answered at once, and the PCU told.
TellPcu(f, t) == IF pcu.up THEN Inform(f, t) ELSE f

\* ... of a packet channel.
LEMMA ActivatePdch ==
    ASSUME NEW t, NEW l, NEW s, NEW f, NEW b, NEW c, NEW o, NEW i \in Lchans, NEW m,
           m.verdict = "ok", t.pchan = "OSMO_DYN", t.is # None, t.want = "PDCH",
           b[i] = Waiting("PDCH")
    PROVE  ActivateChannel(W(t, l, s, f, b, c, o), i, m) =
             W(t, l, s, TellPcu(f, t), With(b, i, Using("PDCH")), c, o)
  <1>1. PICK w : w = W(t, l, s, f, b, c, o)
    OBVIOUS
  <1>2. b[i].wait = "act" /\ b[i].use = "PDCH"
    BY DEF Waiting
  <1>3. PICK b1 : b1 = With(b, i, Using("PDCH"))
    OBVIOUS
  <1>4. rsl_tx_chan_act_ack(w, i) = W(t, l, s, f, b1, c, o)
    BY <1>1, <1>2, <1>3, AckIs DEF Using
  <1>5. w.ts = t
    BY <1>1 DEF W
  <1>6. ActivateChannel(w, i, m) =
          LET done == rsl_tx_chan_act_ack(w, i)
          IN  IF pcu.up THEN pcu_tx_info_ind(done) ELSE done
    BY <1>5 DEF ActivateChannel
  <1>7. pcu_tx_info_ind(W(t, l, s, f, b1, c, o)) = W(t, l, s, Inform(f, t), b1, c, o)
    BY InfoIs
  <1> QED
    BY <1>1, <1>3, <1>4, <1>6, <1>7 DEF TellPcu

\* A packet channel is taken for voice; an activation is put off; the timeslot is switched.
Withdraws(o, t, p) == o \cup (IF t.is = "PDCH" /\ pcu.up /\ p # "PDCH" THEN {"untold"} ELSE {})
Delayed(l, i, m) == With(l, i, [l[i] EXCEPT !.pending = m])

\* CHAN ACTIV is refused for an active channel, and goes on when the timeslot is what it asks for.
LEMMA ActivIs ==
    ASSUME NEW t \in Timeslots, NEW l, NEW s, NEW f, NEW b, NEW c, NEW o,
           NEW i, NEW m, t.enabled
    PROVE  /\ l[i].state # "NONE" =>
                rsl_rx_chan_activ(W(t, l, s, f, b, c, o), i, m) =
                  rsl_tx_chan_act_nack(W(t, l, s, f, b, c, o), i)
           /\ l[i].state = "NONE" /\ (t.pchan = "OSMO_DYN" => t.is = m.pchan /\ t.want = m.pchan) =>
                rsl_rx_chan_activ(W(t, l, s, f, b, c, o), i, m) =
                  ActivateChannel(W(t, l, s, f, b, c, o), i, m)
  <1>1. PICK w : w = W(t, l, s, f, b, c, o)
    OBVIOUS
  <1>2. w.ts = t /\ w.lchan = l /\ w.odd = o
    BY <1>1 DEF W
  <1>3. CASE l[i].state # "NONE"
    BY <1>1, <1>2, <1>3 DEF rsl_rx_chan_activ
  <1>4. CASE l[i].state = "NONE" /\ t.pchan # "OSMO_DYN"
    BY <1>1, <1>2, <1>4 DEF rsl_rx_chan_activ
  <1>5. CASE l[i].state = "NONE" /\ t.pchan = "OSMO_DYN" /\ t.is = m.pchan /\ t.want = m.pchan
    <2>1. PICK n : n = [w EXCEPT !.ts.want = m.pchan,
                                 !.odd = @ \cup (IF w.ts.is = "PDCH" /\ pcu.up /\ m.pchan # "PDCH"
                                                 THEN {"untold"} ELSE {})]
      OBVIOUS
    <2>2. rsl_rx_chan_activ(w, i, m) = ActivateChannel(n, i, m)
      BY <1>2, <1>5, <2>1 DEF rsl_rx_chan_activ
    <2>3. PICK x : x = [w EXCEPT !.ts.want = m.pchan]
      OBVIOUS
    <2>4. [t EXCEPT !.want = m.pchan] = t
      BY <1>5 DEF Timeslots
    <2>5. x = w
      BY <1>1, <2>3, <2>4 DEF W
    <2>6. n = [x EXCEPT !.odd = @ \cup {}]
      BY <1>2, <1>5, <2>1, <2>3
    <2>7. n = w
      <3>1. o \cup {} = o
        OBVIOUS
      <3> QED
        BY <1>1, <2>5, <2>6, <3>1 DEF W
    <2>8. rsl_rx_chan_activ(w, i, m) = ActivateChannel(w, i, m)
      BY <2>2, <2>7
    <2> QED
      BY <1>1, <1>5, <2>8
  <1> QED
    BY <1>1, <1>3, <1>4, <1>5

Toward(t, p) == [t EXCEPT !.want = p, !.is = None]

\* CHAN ACTIV is put off while the timeslot is connected as something else.
LEMMA ActivSwitches ==
    ASSUME NEW t \in Timeslots, NEW l, NEW s, NEW f, NEW b, NEW c, NEW o,
           NEW i, NEW m, t.enabled, t.pchan = "OSMO_DYN", l[i].state = "NONE",
           t.is # m.pchan, l[i].pending = NoActivation,
           NEW t2, t2 = Toward(t, m.pchan),
           NEW l2, l2 = Delayed(Conf(l, m.pchan), i, m), NEW s2, s2 = Connect(s, m.pchan),
           NEW o2, o2 = Withdraws(o, t, m.pchan)
    PROVE  rsl_rx_chan_activ(W(t, l, s, f, b, c, o), i, m) = W(t2, l2, s2, f, b, c, o2)
  <1>0. PICK p : p = m.pchan
    OBVIOUS
  <1>1. PICK w : w = W(t, l, s, f, b, c, o)
    OBVIOUS
  <1>2. w.ts = t /\ w.lchan = l /\ w.odd = o
    BY <1>1 DEF W
  <1>3. PICK n : n = [w EXCEPT !.ts.want = p,
                               !.odd = @ \cup (IF w.ts.is = "PDCH" /\ pcu.up /\ p # "PDCH"
                                               THEN {"untold"} ELSE {})]
    OBVIOUS
  <1>4. rsl_rx_chan_activ(w, i, m) = [cb_ts_disconnected(n) EXCEPT !.lchan[i].pending = m]
    BY <1>0, <1>2, <1>3 DEF rsl_rx_chan_activ
  <1>5. PICK u, x : /\ u = [t EXCEPT !.want = p]
                     /\ x = [w EXCEPT !.ts.want = p]
    OBVIOUS
  <1>6. x = W(u, l, s, f, b, c, o)
    BY <1>1, <1>5 DEF W
  <1>7. n = [x EXCEPT !.odd = o2]
    BY <1>0, <1>2, <1>3, <1>5, <1>6 DEF Withdraws, W
  <1>8. n = W(u, l, s, f, b, c, o2)
    BY <1>6, <1>7 DEF W
  <1>9. u.pchan = "OSMO_DYN" /\ u.want = p
    BY <1>5 DEF Timeslots
  <1>10. PICK v, g : v = [u EXCEPT !.is = None] /\ g = Conf(l, p)
    OBVIOUS
  <1>11. cb_ts_disconnected(n) = W(v, g, Connect(s, p), f, b, c, o2)
    BY <1>8, <1>9, <1>10, OsmoDisconnectedIs
  <1>12. [W(v, g, Connect(s, p), f, b, c, o2) EXCEPT !.lchan[i].pending = m] =
           W(v, Delayed(g, i, m), Connect(s, p), f, b, c, o2)
    BY DEF W, Delayed, With
  <1>13. v = t2
    BY <1>0, <1>5, <1>10 DEF Toward
  <1> QED
    BY <1>0, <1>1, <1>4, <1>10, <1>11, <1>12, <1>13

\* The channels of a timeslot that is being switched.
LEMMA DelayedOf ==
    ASSUME NEW l \in [Lchans -> Lchan], NEW i \in Lchans, NEW p, NEW m \in Activation,
           NEW k, k = Delayed(Conf(l, p), i, m)
    PROVE  /\ k[i].pending = m
           /\ \A j \in Lchans : k[j].type = TypeFor(p, j) /\ k[j].state = l[j].state
           /\ \A j \in Lchans : j # i => k[j].pending = l[j].pending
  <1>1. PICK g : g = Conf(l, p)
    OBVIOUS
  <1>2. /\ g \in [Lchans -> Lchan]
        /\ \A j \in Lchans : g[j].type = TypeFor(p, j) /\ g[j].state = l[j].state
                             /\ g[j].pending = l[j].pending
    BY <1>1, ConfOf
  <1>3. PICK x : x = [g[i] EXCEPT !.pending = m]
    OBVIOUS
  <1>4. g[i] \in Lchan
    BY <1>2
  <1>5. x.pending = m /\ x.state = g[i].state /\ x.type = g[i].type
    BY <1>3, <1>4 DEF Lchan
  <1>6. k = [g EXCEPT ![i] = x]
    BY <1>1, <1>3 DEF Delayed, With
  <1>7. \A j \in Lchans : k[j] = IF j = i THEN x ELSE g[j]
    BY <1>2, <1>6
  <1> QED
    BY <1>2, <1>5, <1>7

-----------------------------------------------------------------------------
(* The actions of the BSC.                                                 *)

\* The phases the state can be in, by the kind of the timeslot.
LEMMA AtState ==
    ASSUME DynIInv, Calm(odd)
    PROVE  /\ ~crashed /\ Phase(ts, lchan, slots, dev, bsc, pcu.up)
           /\ PcuPart(ts, lchan, slots, infos, bsc, odd, reqs, pcu)
           /\ pcu.up \in BOOLEAN /\ pcu.on \in BOOLEAN
           /\ reqs \in Seq(BOOLEAN)
           /\ ts.pchan = "OSMO_DYN" => OsmoPhase(ts, lchan, slots, dev, bsc, pcu.up)
           /\ ts.pchan = "TCH_F_PDCH" => IpPhase(ts, lchan, slots, dev, bsc, pcu.up)
           /\ ~ts.enabled => Off(ts, lchan, slots, bsc)
           /\ ts.enabled => ts.pchan \in {"OSMO_DYN", "TCH_F_PDCH"}
  <1>1. /\ ~crashed /\ Phase(ts, lchan, slots, dev, bsc, pcu.up)
        /\ PcuPart(ts, lchan, slots, infos, bsc, odd, reqs, pcu)
    BY DEF DynIInv, At
  <1>2. pcu.up \in BOOLEAN /\ pcu.on \in BOOLEAN /\ reqs \in Seq(BOOLEAN)
    BY DEF DynIInv, DynTypeOK
  <1> QED
    BY <1>1, <1>2 DEF Phase, OsmoPhase, IpPhase, Off, None

\* Requests that are answered are back where they were.
LEMMA WithBack ==
    ASSUME NEW b \in [Lchans -> Requests], NEW i \in Lchans, NEW r, b[i] = Nothing
    PROVE  With(With(b, i, r), i, Nothing) = b
  BY DEF With

\* What the BSC asks for, it did not have, and the other channel does not rule it out.
LEMMA AskedOf ==
    ASSUME DynIInv, NEW i \in Lchans, NEW p \in Pchans, Free(i, p), NEW b, b = Asked(bsc, i, p)
    PROVE  /\ b \in [Lchans -> Requests] /\ b[i] = Waiting(p) /\ bsc[i] = Nothing
           /\ \A j \in Lchans : j # i => b[j] = bsc[j]
           /\ \A j \in Lchans : bsc[j].use \in {None, p}
           /\ p # "TCH_H" => i = 0
           /\ With(b, i, Nothing) = bsc
  <1>1. bsc[i] = Nothing /\ bsc \in [Lchans -> Requests]
    BY StateTypes DEF Free, Nothing, Answer, DynIInv
  <1>2. With(b, i, Nothing) = bsc
    BY <1>1, WithBack DEF Asked
  <1>3. b \in [Lchans -> Requests]
    BY AsksIs DEF DynIInv
  <1>4. b[i] = Waiting(p) /\ \A j \in Lchans : j # i => b[j] = bsc[j]
    BY <1>1 DEF Asked, With, Waiting
  <1> QED
    BY <1>1, <1>2, <1>3, <1>4 DEF Free

\* What the BSC asks for a channel that is active is refused, and nothing has changed.
LEMMA ActivRefused ==
    ASSUME DynIInv, Calm(odd), NEW i \in Lchans, NEW p \in Pchans, NEW m, Free(i, p),
           ts.enabled, lchan[i].state # "NONE"
    PROVE  rsl_rx_chan_activ(Asks(i, p), i, m) = Now
  <1>1. PICK b, w : b = Asked(bsc, i, p) /\ w = W(ts, lchan, slots, infos, b, crashed, odd)
    OBVIOUS
  <1>2. Asks(i, p) = w
    BY <1>1, AsksIs DEF DynIInv
  <1>3. b[i].wait = "act" /\ With(b, i, Nothing) = bsc
    <2>1. b[i] = Waiting(p) /\ With(b, i, Nothing) = bsc
      BY <1>1, AskedOf
    <2> QED
      BY <2>1 DEF Waiting
  <1>4. ts \in Timeslots
    BY StateTypes DEF DynIInv
  <1>5. ts.pchan # "OSMO_DYN" \/ ts.is # None
    BY AtState DEF OsmoPhase, OsmoUnconnected, OsmoSwitching, OsmoConnected, OsmoPdch,
                   OsmoReleasing, Quiet, None
  <1>6. rsl_rx_chan_activ(w, i, m) = rsl_tx_chan_act_nack(w, i)
    BY <1>1, <1>4, ActivIs
  <1>7. rsl_tx_chan_act_nack(w, i) = W(ts, lchan, slots, infos, bsc, crashed, odd)
    BY <1>1, <1>3, <1>5, AckIs DEF Nothing
  <1> QED
    BY <1>2, <1>6, <1>7, StateTypes DEF DynIInv

\* A voice channel that is what the timeslot is.
LEMMA ActivVoiceOsmo ==
    ASSUME DynIInv, Calm(odd), NEW i \in Lchans, NEW p \in Pchans, NEW m \in Activation, Free(i, p),
           ts.enabled, lchan[i].state = "NONE", ts.pchan = "OSMO_DYN",
           p # "PDCH", ts.is = p, m.pchan = p,
           NEW w, w = rsl_rx_chan_activ(Asks(i, p), i, m)
    PROVE  AtWorld(w, dev, reqs, pcu)
  <1>1. PICK b : b = Asked(bsc, i, p)
    OBVIOUS
  <1>2. /\ ts \in Timeslots /\ lchan \in [Lchans -> Lchan] /\ infos \in Seq(BOOLEAN)
        /\ Asks(i, p) = W(ts, lchan, slots, infos, b, crashed, odd)
    BY <1>1, StateTypes, AsksIs DEF DynIInv
  <1>3. /\ b \in [Lchans -> Requests] /\ b[i] = Waiting(p) /\ bsc[i] = Nothing
        /\ \A j \in Lchans : j # i => b[j] = bsc[j]
        /\ p # "TCH_H" => i = 0
    BY <1>1, AskedOf
  <1>4. ~crashed /\ OsmoConnected(ts, lchan, slots, dev, bsc) /\ NoFlags(ts)
    BY AtState DEF OsmoPhase, OsmoUnconnected, OsmoSwitching, OsmoPdch, OsmoReleasing, None, Pchans
  <1>5. ts.want = p /\ p \in {"TCH_F", "TCH_H"} /\ lchan[i].pending = NoActivation
    BY <1>4 DEF OsmoConnected, Uses
  <1>6. w = ActivateChannel(W(ts, lchan, slots, infos, b, crashed, odd), i, m)
    BY <1>2, <1>5, ActivIs
  <1>7. \E l2, b2, o2 : /\ w = W(ts, l2, slots, infos, b2, crashed, o2)
                        /\ Dealt(i, p, lchan, b, odd, l2, b2, o2)
    BY <1>2, <1>3, <1>5, <1>6, ActivateVoice DEF None
  <1>8. PICK l2, b2, o2 : /\ w = W(ts, l2, slots, infos, b2, crashed, o2)
                          /\ Dealt(i, p, lchan, b, odd, l2, b2, o2)
    BY <1>7
  <1>9. /\ \A j \in Lchans : j # i => l2[j] = lchan[j] /\ b2[j] = bsc[j]
        /\ l2[i].type = lchan[i].type /\ Uses(l2[i], b2[i], p) /\ o2 \in {odd, odd \cup {"refused"}}
    BY <1>3, <1>8 DEF Dealt
  <1>10. OsmoConnected(ts, l2, slots, dev, b2)
    <2>1. /\ ts.is \in {"TCH_F", "TCH_H"} /\ ts.want = ts.is /\ slots = <<>> /\ dev = ts.is
          /\ Typed(l2, ts.is)
      BY <1>4, <1>9 DEF OsmoConnected, Typed
    <2>2. Only0(ts.is, l2, b2)
      BY <1>3, <1>4, <1>9 DEF OsmoConnected, Only0, Lchans
    <2>3. \A j \in Lchans : Uses(l2[j], b2[j], ts.is)
      BY <1>4, <1>9 DEF OsmoConnected
    <2> QED
      BY <2>1, <2>2, <2>3 DEF OsmoConnected
  <1>11. Phase(ts, l2, slots, dev, b2, pcu.up)
    BY <1>4, <1>10 DEF Phase, OsmoPhase
  <1>12. PcuPart(ts, l2, slots, infos, b2, o2, reqs, pcu)
    <2>1. ~PdchUp(lchan) /\ ~PdchUp(l2)
      <3>1. lchan[0].type # "PDTCH" /\ l2[0].type # "PDTCH"
        BY <1>4, <1>5, <1>10 DEF OsmoConnected, Typed, TypeFor, Lchans
      <3> QED
        BY <3>1 DEF PdchUp
    <2>2. "untold" \in odd <=> "untold" \in o2
      BY <1>9
    <2>3. PcuPart(ts, lchan, slots, infos, bsc, odd, reqs, pcu) /\ pcu.on \in BOOLEAN
      BY AtState
    <2>4. ~SwitchPending(ts, slots)
      BY DEF SwitchPending
    <2> QED
      BY <1>2, <2>1, <2>2, <2>3, <2>4, PcuSame
  <1> QED
    BY <1>4, <1>8, <1>11, <1>12, AtIs DEF At

\* A packet channel on a timeslot that is one: the BSC is answered at once.
LEMMA ActivPdchOsmo ==
    ASSUME DynIInv, Calm(odd), NEW i \in Lchans, NEW m \in Activation, Free(i, "PDCH"),
           ts.enabled, lchan[i].state = "NONE", ts.pchan = "OSMO_DYN", ts.is = "PDCH",
           m.pchan = "PDCH", m.verdict = "ok",
           NEW w, w = rsl_rx_chan_activ(Asks(i, "PDCH"), i, m)
    PROVE  AtWorld(w, dev, reqs, pcu)
  <1>1. PICK b, p : b = Asked(bsc, i, p) /\ p = "PDCH"
    OBVIOUS
  <1>2. p \in Pchans /\ Free(i, p)
    BY <1>1 DEF Pchans
  <1>3. /\ ts \in Timeslots /\ lchan \in [Lchans -> Lchan] /\ infos \in Seq(BOOLEAN)
        /\ Asks(i, p) = W(ts, lchan, slots, infos, b, crashed, odd)
    BY <1>1, <1>2, StateTypes, AsksIs DEF DynIInv
  <1>4. /\ b \in [Lchans -> Requests] /\ b[i] = Waiting(p) /\ bsc[i] = Nothing
        /\ \A j \in Lchans : j # i => b[j] = bsc[j]
        /\ i = 0
    BY <1>1, <1>2, AskedOf
  <1>5. ~crashed /\ OsmoPdch(ts, lchan, slots, dev, bsc, pcu.up) /\ NoFlags(ts)
    BY <1>4, AtState DEF OsmoPhase, OsmoUnconnected, OsmoSwitching, OsmoConnected,
                         OsmoReleasing, None
  <1>6. ts.want = p
    BY <1>1, <1>5 DEF OsmoPdch
  <1>7. w = ActivateChannel(W(ts, lchan, slots, infos, b, crashed, odd), i, m)
    BY <1>1, <1>3, <1>6, ActivIs
  <1>8. PICK b2, f2 : b2 = With(b, i, Using(p)) /\ f2 = TellPcu(infos, ts)
    OBVIOUS
  <1>9. w = W(ts, lchan, slots, f2, b2, crashed, odd)
    BY <1>1, <1>4, <1>6, <1>7, <1>8, ActivatePdch DEF None
  <1>10. b2[0] = Using(p) /\ b2[1] = bsc[1]
    BY <1>4, <1>8 DEF With, Lchans
  <1>11. OsmoPdch(ts, lchan, slots, dev, b2, pcu.up)
    <2>1. Using(p) # Nothing
      BY <1>1 DEF Using, Nothing, Answer, None
    <2> QED
      BY <1>1, <1>5, <1>10, <2>1 DEF OsmoPdch, Only0
  <1>12. Phase(ts, lchan, slots, dev, b2, pcu.up)
    BY <1>5, <1>11 DEF Phase, OsmoPhase
  <1>13. PcuPart(ts, lchan, slots, f2, b2, odd, reqs, pcu)
    <2>1. ~SwitchPending(ts, slots) /\ ~(PdchUp(lchan) /\ bsc[0].wait = "rel")
      BY <1>4 DEF SwitchPending, PdchUp
    <2>2. PcuPart(ts, lchan, slots, infos, bsc, odd, reqs, pcu) /\ pcu.on \in BOOLEAN
      BY AtState
    <2>3. CASE pcu.up
      <3>1. f2 = Inform(infos, ts)
        BY <1>8, <2>3 DEF TellPcu
      <3> QED
        BY <1>3, <2>1, <2>2, <2>3, <3>1, PcuToldNow
    <2>4. CASE ~pcu.up
      BY <1>8, <2>1, <2>2, <2>4, PcuSame DEF TellPcu
    <2> QED
      BY <2>3, <2>4
  <1> QED
    BY <1>5, <1>9, <1>12, <1>13, AtIs DEF At

\* A channel that the timeslot is not: the switch begins, or goes on.
LEMMA ActivSwitchOsmo ==
    ASSUME DynIInv, Calm(odd), NEW i \in Lchans, NEW p \in Pchans, NEW m \in Activation,
           Free(i, p), ts.enabled, lchan[i].state = "NONE", ts.pchan = "OSMO_DYN", ts.is # p,
           m.pchan = p, p = "PDCH" => m.verdict = "ok",
           NEW w, w = rsl_rx_chan_activ(Asks(i, p), i, m)
    PROVE  AtWorld(w, dev, reqs, pcu)
  <1>1. PICK b : b = Asked(bsc, i, p)
    OBVIOUS
  <1>2. /\ ts \in Timeslots /\ lchan \in [Lchans -> Lchan] /\ infos \in Seq(BOOLEAN)
        /\ Asks(i, p) = W(ts, lchan, slots, infos, b, crashed, odd)
    BY <1>1, StateTypes, AsksIs DEF DynIInv
  <1>3. /\ b \in [Lchans -> Requests] /\ b[i] = Waiting(p) /\ bsc[i] = Nothing
        /\ \A j \in Lchans : j # i => b[j] = bsc[j]
        /\ \A j \in Lchans : bsc[j].use \in {None, p}
        /\ p # "TCH_H" => i = 0
    BY <1>1, AskedOf
  <1>4. ~crashed /\ OsmoPhase(ts, lchan, slots, dev, bsc, pcu.up) /\ NoFlags(ts)
    BY AtState DEF OsmoPhase
  <1>5. m # NoActivation
    BY DEF Activation, NoActivation, Pchans, None
  \* Nothing is active, and what waits, waits for the same.
  <1>6. /\ Quiet(lchan) /\ lchan[i].pending = NoActivation /\ slots \in {<<>>, <<p>>}
        /\ p # "TCH_H" => lchan[1].state = "NONE" /\ lchan[1].pending = NoActivation
                          /\ bsc[1] = Nothing
        /\ \A j \in Lchans : IF lchan[j].pending = NoActivation THEN bsc[j] = Nothing
                             ELSE /\ lchan[j].pending.pchan = p /\ bsc[j] = Waiting(p)
                                  /\ p = "PDCH" => lchan[j].pending.verdict = "ok"
    <2>1. CASE OsmoUnconnected(ts, lchan, slots, bsc)
      BY <2>1 DEF OsmoUnconnected, NonePending, Unused, Quiet, Lchans
    <2>2. CASE OsmoSwitching(ts, lchan, slots, bsc)
      <3>1. lchan[i].pending = NoActivation
        BY <1>3, <2>2 DEF OsmoSwitching, Waiting, Nothing, Answer
      <3>2. PICK j \in Lchans : lchan[j].pending # NoActivation
        BY <2>2 DEF OsmoSwitching, NonePending
      <3>3. bsc[j].use = ts.want
        BY <2>2, <3>2 DEF OsmoSwitching, Waiting
      <3>4. ts.want = p
        BY <1>3, <2>2, <3>3 DEF OsmoSwitching, Pchans, None
      <3> QED
        BY <2>2, <3>1, <3>4 DEF OsmoSwitching, Only0
    <2>3. CASE OsmoConnected(ts, lchan, slots, dev, bsc)
      <3>1. ASSUME NEW j \in Lchans
            PROVE  /\ lchan[j].state = "NONE" /\ lchan[j].pending = NoActivation
                   /\ bsc[j] = Nothing
        <4>1. Uses(lchan[j], bsc[j], ts.is) /\ ts.is # None /\ ts.is # p
          BY <2>3 DEF OsmoConnected, None
        <4>2. bsc[j].use # ts.is
          BY <1>3, <4>1
        <4>3. lchan[j].state \in {"NONE", "ACTIVE"}
          BY <1>2 DEF Lchan
        <4> QED
          BY <4>1, <4>2, <4>3 DEF Uses, Using, Waiting, Answer
      <3>2. slots = <<>>
        BY <2>3 DEF OsmoConnected
      <3> QED
        BY <3>1, <3>2 DEF Quiet, Lchans
    <2>4. CASE OsmoPdch(ts, lchan, slots, dev, bsc, pcu.up)
      <3>1. ts.is = "PDCH" /\ p # "PDCH"
        BY <2>4 DEF OsmoPdch
      <3>2. bsc[0] = Nothing
        <4>1. bsc[0].use \in {None, p}
          BY <1>3 DEF Lchans
        <4> QED
          BY <2>4, <3>1, <4>1 DEF OsmoPdch, Using, Answer, None
      <3>3. lchan[0].state \in {"NONE", "ACTIVE"}
        BY <1>2 DEF Lchan, Lchans
      <3>4. lchan[0].state = "NONE"
        BY <2>4, <3>2, <3>3 DEF OsmoPdch
      <3> QED
        BY <2>4, <3>2, <3>4 DEF OsmoPdch, Only0, Quiet, NonePending, Lchans
    <2>5. CASE OsmoReleasing(ts, lchan, slots, dev, bsc)
      <3>1. bsc[0].use = "PDCH" /\ p # "PDCH"
        BY <2>5 DEF OsmoReleasing, Leaving
      <3> QED
        BY <1>3, <3>1 DEF Lchans, None
    <2> QED
      BY <1>4, <2>1, <2>2, <2>3, <2>4, <2>5 DEF OsmoPhase
  <1>7. PICK t2, l2, s2, o2 :
          /\ t2 = Toward(ts, p) /\ l2 = Delayed(Conf(lchan, p), i, m)
          /\ s2 = Connect(slots, p) /\ o2 = Withdraws(odd, ts, p)
    OBVIOUS
  <1>8. w = W(t2, l2, s2, infos, b, crashed, o2)
    <2>1. rsl_rx_chan_activ(W(ts, lchan, slots, infos, b, crashed, odd), i, m) =
          W(t2, l2, s2, infos, b, crashed, o2)
      BY <1>2, <1>6, <1>7, ActivSwitches
    <2> QED
      BY <1>2, <2>1
  <1>9. /\ t2.pchan = "OSMO_DYN" /\ t2.enabled /\ NoFlags(t2) /\ t2.is = None /\ t2.want = p
    BY <1>2, <1>4, <1>7 DEF Timeslots, NoFlags, Toward
  <1>10. s2 = <<p>>
    <2>1. CASE slots = <<>>
      BY <1>7, <2>1 DEF Connect
    <2>2. CASE slots = <<p>>
      <3>1. Last(slots) = p /\ slots # <<>>
        BY <2>2 DEF Last
      <3> QED
        BY <1>7, <2>2, <3>1 DEF Connect
    <2> QED
      BY <1>6, <2>1, <2>2
  <1>11. /\ l2[i].pending = m
         /\ \A j \in Lchans : l2[j].type = TypeFor(p, j) /\ l2[j].state = "NONE"
         /\ \A j \in Lchans : j # i => l2[j].pending = lchan[j].pending
    <2>1. /\ l2[i].pending = m
          /\ \A j \in Lchans : l2[j].type = TypeFor(p, j) /\ l2[j].state = lchan[j].state
          /\ \A j \in Lchans : j # i => l2[j].pending = lchan[j].pending
      BY <1>2, <1>7, DelayedOf
    <2> QED
      BY <1>6, <2>1 DEF Quiet
  <1>13. OsmoSwitching(t2, l2, s2, b)
    <2>1. Quiet(l2) /\ Typed(l2, p) /\ ~NonePending(l2)
      BY <1>5, <1>11 DEF Quiet, Typed, NonePending
    <2>2. Only0(p, l2, b)
      BY <1>3, <1>6, <1>11 DEF Only0, Lchans
    <2>3. ASSUME NEW j \in Lchans
          PROVE  IF l2[j].pending = NoActivation THEN b[j] = Nothing
                 ELSE /\ l2[j].pending.pchan = p /\ b[j] = Waiting(p)
                      /\ p = "PDCH" => l2[j].pending.verdict = "ok"
      <3>1. CASE j = i
        BY <1>3, <1>5, <1>11, <3>1
      <3>2. CASE j # i
        BY <1>3, <1>6, <1>11, <3>2
      <3> QED
        BY <3>1, <3>2
    <2> QED
      BY <1>9, <1>10, <2>1, <2>2, <2>3 DEF OsmoSwitching
  <1>14. Phase(t2, l2, s2, dev, b, pcu.up)
    BY <1>9, <1>13 DEF Phase, OsmoPhase
  <1>15. PcuPart(t2, l2, s2, infos, b, o2, reqs, pcu)
    <2>1. "untold" \in odd => "untold" \in o2
      BY <1>7 DEF Withdraws
    <2>2. ~PdchUp(l2) /\ ~PdchUp(lchan)
      BY <1>6, <1>11 DEF PdchUp, Quiet, Lchans
    <2>3. PcuPart(ts, lchan, slots, infos, bsc, odd, reqs, pcu)
      BY AtState
    <2>4. ~SwitchPending(ts, slots) /\ ~Wanted(t2)
      BY <1>9 DEF SwitchPending, Wanted, ts_should_be_pdch, None
    <2>5. ~pcu.up \/ "untold" \in o2 \/ ~Wanted(ts)
      <3>1. CASE ts.is = "PDCH"
        BY <1>7, <3>1 DEF Withdraws
      <3>2. CASE ts.is # "PDCH"
        BY <3>2 DEF Wanted, ts_should_be_pdch
      <3> QED
        BY <3>1, <3>2
    <2> QED
      BY <1>9, <2>1, <2>2, <2>3, <2>4, <2>5, PcuSame
  <1> QED
    BY <1>4, <1>8, <1>14, <1>15, AtIs DEF At

\* ... on an ip.access timeslot.
LEMMA ActivVoiceIp ==
    ASSUME DynIInv, Calm(odd), NEW m \in Activation, Free(0, "TCH_F"),
           ts.enabled, lchan[0].state = "NONE", ts.pchan = "TCH_F_PDCH",
           NEW w, w = rsl_rx_chan_activ(Asks(0, "TCH_F"), 0, m)
    PROVE  AtWorld(w, dev, reqs, pcu)
  <1>1. PICK b, p, i : b = Asked(bsc, i, p) /\ p = "TCH_F" /\ i = 0
    OBVIOUS
  <1>2. p \in Pchans /\ i \in Lchans /\ Free(i, p)
    BY <1>1 DEF Pchans, Lchans
  <1>3. /\ ts \in Timeslots /\ lchan \in [Lchans -> Lchan] /\ infos \in Seq(BOOLEAN)
        /\ Asks(i, p) = W(ts, lchan, slots, infos, b, crashed, odd)
    BY <1>1, <1>2, StateTypes, AsksIs DEF DynIInv
  <1>4. /\ b \in [Lchans -> Requests] /\ b[i] = Waiting(p) /\ bsc[i] = Nothing
        /\ \A j \in Lchans : j # i => b[j] = bsc[j]
    BY <1>1, <1>2, AskedOf
  <1>5. ~crashed /\ IpPhase(ts, lchan, slots, dev, bsc, pcu.up)
    BY AtState
  <1>6. IpVoice(ts, lchan, slots, dev, bsc)
    BY <1>1, <1>4, <1>5 DEF IpPhase, IpActivating, IpPdch, IpDeactivating,
                            Nothing, Waiting, Using, Leaving, Answer, None
  <1>7. ~ts.actPend /\ lchan[i].pending = NoActivation
    BY <1>1, <1>6 DEF IpVoice, NoFlags, Uses
  <1>8. w = ActivateChannel(W(ts, lchan, slots, infos, b, crashed, odd), i, m)
    BY <1>1, <1>3, ActivIs
  <1>9. \E l2, b2, o2 : /\ w = W(ts, l2, slots, infos, b2, crashed, o2)
                        /\ Dealt(i, p, lchan, b, odd, l2, b2, o2)
    BY <1>1, <1>2, <1>3, <1>4, <1>7, <1>8, ActivateVoice
  <1>10. PICK l2, b2, o2 : /\ w = W(ts, l2, slots, infos, b2, crashed, o2)
                           /\ Dealt(i, p, lchan, b, odd, l2, b2, o2)
    BY <1>9
  <1>11. /\ l2[1] = lchan[1] /\ b2[1] = bsc[1]
         /\ l2[0].type = lchan[0].type /\ Uses(l2[0], b2[0], p)
         /\ o2 \in {odd, odd \cup {"refused"}}
    BY <1>1, <1>4, <1>10 DEF Dealt, Lchans
  <1>12. IpVoice(ts, l2, slots, dev, b2)
    BY <1>1, <1>6, <1>11 DEF IpVoice, Typed, Lchans
  <1>13. IpPhase(ts, l2, slots, dev, b2, pcu.up)
    <2>1. NonePending(l2) /\ Only0("TCH_F", l2, b2)
      BY <1>5, <1>11 DEF IpPhase, NonePending, Only0, Uses, Lchans
    <2> QED
      BY <1>5, <1>12, <2>1 DEF IpPhase
  <1>14. Phase(ts, l2, slots, dev, b2, pcu.up)
    BY <1>13 DEF Phase
  <1>15. PcuPart(ts, l2, slots, infos, b2, o2, reqs, pcu)
    <2>1. ~PdchUp(lchan) /\ ~PdchUp(l2)
      <3>1. lchan[0].type # "PDTCH" /\ l2[0].type # "PDTCH"
        BY <1>6, <1>11 DEF IpVoice, Typed, TypeFor, Lchans
      <3> QED
        BY <3>1 DEF PdchUp
    <2>2. "untold" \in odd <=> "untold" \in o2
      BY <1>11
    <2>3. PcuPart(ts, lchan, slots, infos, bsc, odd, reqs, pcu)
      BY AtState
    <2>4. ~SwitchPending(ts, slots)
      BY <1>7 DEF SwitchPending
    <2> QED
      BY <2>1, <2>2, <2>3, <2>4, PcuSame
  <1> QED
    BY <1>5, <1>10, <1>14, <1>15, AtIs DEF At

\* CHAN ACTIV leads from one phase to another.
LEMMA ChanActivKeeps ==
    ASSUME DynIInv, Calm(odd), NEW i \in Lchans, NEW p \in Pchans, NEW v \in Verdicts,
           ChanActiv(i, p, v)
    PROVE  At(ts, lchan, slots, infos, bsc, crashed, odd, dev, reqs, pcu)'
  <1>1. PICK m : m = [pchan |-> p, verdict |-> v]
    OBVIOUS
  <1>2. m \in Activation /\ m.pchan = p /\ m.verdict = v
    BY <1>1 DEF Activation
  <1>3. PICK w : w = rsl_rx_chan_activ(Asks(i, p), i, m)
    OBVIOUS
  <1>4. /\ ts.enabled /\ Free(i, p) /\ (p = "PDCH" => v = "ok")
        /\ ts.pchan = "OSMO_DYN" \/ (ts.pchan = "TCH_F_PDCH" /\ p = "TCH_F")
        /\ Become(w) /\ UNCHANGED <<dev, reqs, pcu>>
    BY <1>1, <1>3 DEF ChanActiv
  <1>5. AtWorld(w, dev, reqs, pcu)
    <2>1. CASE lchan[i].state # "NONE"
      <3>1. w = Now
        BY <1>3, <1>4, <2>1, ActivRefused
      <3>2. w = W(ts, lchan, slots, infos, bsc, crashed, odd)
        BY <3>1, StateTypes DEF DynIInv
      <3> QED
        BY <3>2, AtIs DEF DynIInv
    <2>2. CASE lchan[i].state = "NONE" /\ ts.pchan = "OSMO_DYN" /\ ts.is # p
      BY <1>2, <1>3, <1>4, <2>2, ActivSwitchOsmo
    <2>3. CASE lchan[i].state = "NONE" /\ ts.pchan = "OSMO_DYN" /\ ts.is = p /\ p # "PDCH"
      BY <1>2, <1>3, <1>4, <2>3, ActivVoiceOsmo
    <2>4. CASE lchan[i].state = "NONE" /\ ts.pchan = "OSMO_DYN" /\ ts.is = p /\ p = "PDCH"
      BY <1>2, <1>3, <1>4, <2>4, ActivPdchOsmo
    <2>5. CASE lchan[i].state = "NONE" /\ ts.pchan # "OSMO_DYN"
      <3>1. ts.pchan = "TCH_F_PDCH" /\ p = "TCH_F" /\ i = 0
        BY <1>4, <2>5 DEF Free
      <3> QED
        BY <1>2, <1>3, <1>4, <2>5, <3>1, ActivVoiceIp
    <2> QED
      BY <2>1, <2>2, <2>3, <2>4, <2>5
  <1> QED
    BY <1>4, <1>5, BecomeAt

\* PDCH ACT and PDCH DEACT.
PdchActs(w) == rsl_rx_dyn_pdch(w, TRUE)
PdchDeacts(w) == rsl_rx_dyn_pdch(w, FALSE)
\* Their flags.
ActFlag(t) == [t EXCEPT !.actPend = TRUE]
DeactFlag(t) == [t EXCEPT !.deactPend = TRUE]

\* A pending PDCH ACT or PDCH DEACT is a flag of the timeslot.
LEMMA FlagsOf ==
    ASSUME NEW t \in Timeslots, NEW u, u \in {ActFlag(t), DeactFlag(t)}
    PROVE  /\ u \in Timeslots /\ u.pchan = t.pchan /\ u.is = t.is /\ u.want = t.want
           /\ u.enabled = t.enabled /\ u.active = t.active
           /\ u = ActFlag(t) => u.actPend /\ u.deactPend = t.deactPend
           /\ u = DeactFlag(t) => u.deactPend /\ u.actPend = t.actPend
  <1>1. CASE u = ActFlag(t)
    <2>1. /\ u \in Timeslots /\ u.pchan = t.pchan /\ u.is = t.is /\ u.want = t.want
          /\ u.enabled = t.enabled /\ u.active = t.active /\ u.actPend
          /\ u.deactPend = t.deactPend
      BY <1>1 DEF ActFlag, Timeslots
    <2>2. u = DeactFlag(t) => u.deactPend /\ u.actPend = t.actPend
      BY DEF DeactFlag, Timeslots
    <2> QED
      BY <2>1, <2>2
  <1>2. CASE u = DeactFlag(t)
    <2>1. /\ u \in Timeslots /\ u.pchan = t.pchan /\ u.is = t.is /\ u.want = t.want
          /\ u.enabled = t.enabled /\ u.active = t.active /\ u.deactPend
          /\ u.actPend = t.actPend
      BY <1>2 DEF DeactFlag, Timeslots
    <2>2. u = ActFlag(t) => u.actPend /\ u.deactPend = t.deactPend
      BY DEF ActFlag, Timeslots
    <2> QED
      BY <2>1, <2>2
  <1> QED
    BY <1>1, <1>2

\* PDCH ACT is refused while the channel is active, and otherwise connects the timeslot.
LEMMA PdchActIs ==
    ASSUME NEW t \in Timeslots, NEW l, NEW s, NEW f, NEW b, NEW c, NEW o,
           t.pchan = "TCH_F_PDCH", ~t.actPend, ~t.deactPend, ~t.active, b[0].wait = "act"
    PROVE  PdchActs(W(t, l, s, f, b, c, o)) =
             IF l[0].state # "NONE" THEN W(t, l, s, f, With(b, 0, Nothing), c, o)
             ELSE W(ActFlag(t), Conf(l, "PDCH"), Connect(s, "PDCH"), f, b, c, o)
  <1>1. PICK w : w = W(t, l, s, f, b, c, o)
    OBVIOUS
  <1>2. w.ts = t /\ w.lchan = l
    BY <1>1 DEF W
  <1>3. t.active \in BOOLEAN
    BY DEF Timeslots
  <1>4. CASE l[0].state # "NONE"
    <2>1. PdchActs(w) = Told(w, 0, "act", FALSE)
      BY <1>2, <1>4 DEF PdchActs, rsl_rx_dyn_pdch
    <2>2. Told(w, 0, "act", FALSE) = W(t, l, s, f, With(b, 0, Nothing), c, o)
      BY <1>1 DEF Told, W, With, Nothing, Answer
    <2> QED
      BY <1>1, <1>4, <2>1, <2>2
  <1>5. CASE l[0].state = "NONE"
    <2>1. PICK u, n : u = ActFlag(t) /\ n = W(u, l, s, f, b, c, o)
      OBVIOUS
    <2>2. [w EXCEPT !.ts.actPend = TRUE] = n
      <3>1. [w EXCEPT !.ts.actPend = TRUE] = [w EXCEPT !.ts = u]
        BY <1>2, <2>1 DEF ActFlag
      <3> QED
        BY <1>1, <2>1, <3>1 DEF W
    <2>3. PdchActs(w) = cb_ts_disconnected(n)
      BY <1>2, <1>3, <1>5, <2>2 DEF PdchActs, rsl_rx_dyn_pdch
    <2>4. u.pchan = "TCH_F_PDCH" /\ u.actPend /\ ~u.deactPend
      BY <2>1, FlagsOf
    <2>5. cb_ts_disconnected(n) = W(u, Conf(l, "PDCH"), Connect(s, "PDCH"), f, b, c, o)
      BY <2>1, <2>4, IpDisconnectedIs
    <2> QED
      BY <1>1, <1>5, <2>1, <2>3, <2>5
  <1> QED
    BY <1>4, <1>5

\* PDCH DEACT asks the PCU to release its channel, or connects the timeslot at once.
LEMMA PdchDeactIs ==
    ASSUME NEW t \in Timeslots, NEW l, NEW s, NEW f, NEW b, NEW c, NEW o,
           t.pchan = "TCH_F_PDCH", ~t.actPend, ~t.deactPend, t.active
    PROVE  PdchDeacts(W(t, l, s, f, b, c, o)) =
             IF pcu.up THEN W(DeactFlag(t), l, s, Inform(f, DeactFlag(t)), b, c, o)
             ELSE W(DeactFlag(t), Conf(l, "TCH_F"), Connect(s, "TCH_F"), f, b, c, o)
  <1>1. PICK w : w = W(t, l, s, f, b, c, o)
    OBVIOUS
  <1>2. w.ts = t /\ w.lchan = l
    BY <1>1 DEF W
  <1>3. t.active = TRUE
    BY DEF Timeslots
  <1>4. PICK u, n : u = DeactFlag(t) /\ n = W(u, l, s, f, b, c, o)
    OBVIOUS
  <1>5. [w EXCEPT !.ts.deactPend = TRUE] = n
    <2>1. [w EXCEPT !.ts.deactPend = TRUE] = [w EXCEPT !.ts = u]
      BY <1>2, <1>4 DEF DeactFlag
    <2> QED
      BY <1>1, <1>4, <2>1 DEF W
  <1>6. u.pchan = "TCH_F_PDCH" /\ u.deactPend
    BY <1>4, FlagsOf
  <1>7. PdchDeacts(w) = IF pcu.up THEN pcu_tx_info_ind(n) ELSE cb_ts_disconnected(n)
    BY <1>2, <1>3, <1>5 DEF PdchDeacts, rsl_rx_dyn_pdch
  <1>8. pcu_tx_info_ind(n) = W(u, l, s, Inform(f, u), b, c, o)
    BY <1>4, InfoIs
  <1>9. cb_ts_disconnected(n) = W(u, Conf(l, "TCH_F"), Connect(s, "TCH_F"), f, b, c, o)
    BY <1>4, <1>6, IpDisconnectedIs
  <1> QED
    BY <1>1, <1>4, <1>7, <1>8, <1>9

\* PDCH ACT leads from one phase to another.
LEMMA PdchActKeeps ==
    ASSUME DynIInv, Calm(odd), PdchAct
    PROVE  At(ts, lchan, slots, infos, bsc, crashed, odd, dev, reqs, pcu)'
  <1>1. PICK b, p, i, w : b = Asked(bsc, i, p) /\ p = "PDCH" /\ i = 0 /\ w = PdchActs(Asks(i, p))
    OBVIOUS
  <1>2. /\ ts.enabled /\ Free(0, "PDCH") /\ ts.pchan = "TCH_F_PDCH"
        /\ Become(w) /\ UNCHANGED <<dev, reqs, pcu>>
    BY <1>1 DEF PdchAct, PdchActs
  <1>3. p \in Pchans /\ i \in Lchans /\ Free(i, p)
    BY <1>1, <1>2 DEF Pchans, Lchans
  <1>4. /\ ts \in Timeslots /\ lchan \in [Lchans -> Lchan] /\ infos \in Seq(BOOLEAN)
        /\ Asks(i, p) = W(ts, lchan, slots, infos, b, crashed, odd)
    BY <1>1, <1>3, StateTypes, AsksIs DEF DynIInv
  <1>5. /\ b \in [Lchans -> Requests] /\ b[i] = Waiting(p) /\ bsc[i] = Nothing
        /\ \A j \in Lchans : j # i => b[j] = bsc[j]
        /\ With(b, i, Nothing) = bsc
    BY <1>1, <1>3, AskedOf
  <1>6. ~crashed /\ IpPhase(ts, lchan, slots, dev, bsc, pcu.up)
    BY <1>2, AtState
  <1>7. IpVoice(ts, lchan, slots, dev, bsc)
    BY <1>1, <1>5, <1>6 DEF IpPhase, IpActivating, IpPdch, IpDeactivating,
                            Nothing, Waiting, Using, Leaving, Answer, None
  <1>8. PICK t2, l2, s2 : /\ t2 = ActFlag(ts) /\ l2 = Conf(lchan, "PDCH")
                          /\ s2 = Connect(slots, "PDCH")
    OBVIOUS
  <1>9. w = IF lchan[0].state # "NONE" THEN W(ts, lchan, slots, infos, bsc, crashed, odd)
            ELSE W(t2, l2, s2, infos, b, crashed, odd)
    <2>1. ~ts.actPend /\ ~ts.deactPend /\ ~ts.active /\ b[0].wait = "act"
      BY <1>1, <1>5, <1>7 DEF IpVoice, NoFlags, Waiting
    <2> QED
      BY <1>1, <1>2, <1>4, <1>5, <1>8, <2>1, PdchActIs
  <1>10. CASE lchan[0].state # "NONE"
    <2>1. AtWorld(w, dev, reqs, pcu)
      BY <1>9, <1>10, AtIs DEF DynIInv
    <2> QED
      BY <1>2, <2>1, BecomeAt
  <1>11. CASE lchan[0].state = "NONE"
    <2>1. /\ t2.pchan = "TCH_F_PDCH" /\ t2.enabled /\ t2.is = ts.is /\ t2.want = ts.want
          /\ t2.actPend /\ t2.active = ts.active /\ t2.deactPend = ts.deactPend
      BY <1>2, <1>4, <1>8, FlagsOf
    <2>2. \A j \in Lchans : /\ l2[j].type = TypeFor(p, j) /\ l2[j].state = lchan[j].state
                            /\ l2[j].pending = lchan[j].pending
      BY <1>1, <1>4, <1>8, ConfOf
    <2>3. s2 = <<"PDCH">>
      BY <1>7, <1>8 DEF IpVoice, Connect
    <2>4. IpActivating(t2, l2, s2, dev, b)
      <3>1. Quiet(l2)
        BY <1>6, <1>11, <2>2 DEF IpPhase, Only0, Quiet, Lchans
      <3>2. Typed(l2, "PDCH") /\ b[0] = Waiting("PDCH")
        BY <1>1, <1>5, <2>2 DEF Typed
      <3> QED
        BY <1>7, <2>1, <2>3, <3>1, <3>2 DEF IpActivating, IpVoice, NoFlags
    <2>5. NonePending(l2) /\ Only0("TCH_F", l2, b)
      BY <1>1, <1>5, <1>6, <2>2 DEF IpPhase, NonePending, Only0, Lchans
    <2>6. Phase(t2, l2, s2, dev, b, pcu.up)
      BY <1>6, <2>1, <2>4, <2>5 DEF Phase, IpPhase
    <2>7. PcuPart(t2, l2, s2, infos, b, odd, reqs, pcu)
      <3>1. ~PdchUp(lchan) /\ ~PdchUp(l2)
        BY <1>11, <2>2 DEF PdchUp, Lchans
      <3>2. PcuPart(ts, lchan, slots, infos, bsc, odd, reqs, pcu)
        BY AtState
      <3>3. SwitchPending(t2, s2)
        BY <2>1, <2>3 DEF SwitchPending
      <3> QED
        BY <2>1, <3>1, <3>2, <3>3, PcuSame
    <2>8. AtWorld(w, dev, reqs, pcu)
      BY <1>6, <1>9, <1>11, <2>6, <2>7, AtIs DEF At
    <2> QED
      BY <1>2, <2>8, BecomeAt
  <1> QED
    BY <1>10, <1>11

\* A channel that the BSC gives up, it waits for the release of.
LEMMA LeftOf ==
    ASSUME DynIInv, NEW i \in Lchans, NEW b, b = Left(bsc, i)
    PROVE  /\ b \in [Lchans -> Requests] /\ b[i] = Leaving(bsc[i].use)
           /\ \A j \in Lchans : j # i => b[j] = bsc[j]
  <1>1. b \in [Lchans -> Requests] /\ bsc \in [Lchans -> Requests]
    BY LeavesIs, StateTypes DEF DynIInv
  <1> QED
    BY <1>1 DEF Left, With, Leaving

\* PDCH DEACT leads from one phase to another.
LEMMA PdchDeactKeeps ==
    ASSUME DynIInv, Calm(odd), PdchDeact
    PROVE  At(ts, lchan, slots, infos, bsc, crashed, odd, dev, reqs, pcu)'
  <1>1. PICK b, i, x, w : /\ b = Left(bsc, i) /\ i = 0
                          /\ x = [Now EXCEPT !.bsc[i].wait = "rel"] /\ w = PdchDeacts(x)
    OBVIOUS
  <1>2. /\ ts.enabled /\ ts.pchan = "TCH_F_PDCH" /\ bsc[0] = Using("PDCH")
        /\ Become(w) /\ UNCHANGED <<dev, reqs, pcu>>
    BY <1>1 DEF PdchDeact, PdchDeacts, Using, Answer
  <1>3. i \in Lchans
    BY <1>1 DEF Lchans
  <1>4. /\ ts \in Timeslots /\ lchan \in [Lchans -> Lchan] /\ infos \in Seq(BOOLEAN)
        /\ x = W(ts, lchan, slots, infos, b, crashed, odd)
    BY <1>1, <1>3, StateTypes, LeavesIs DEF DynIInv
  <1>5. b[0] = Leaving("PDCH") /\ b[1] = bsc[1]
    <2>1. b[i] = Leaving(bsc[i].use) /\ \A j \in Lchans : j # i => b[j] = bsc[j]
      BY <1>1, <1>3, LeftOf
    <2>2. bsc[0].use = "PDCH"
      BY <1>2 DEF Using, Answer
    <2> QED
      BY <1>1, <2>1, <2>2 DEF Lchans
  <1>6. ~crashed /\ IpPhase(ts, lchan, slots, dev, bsc, pcu.up)
    BY <1>2, AtState
  <1>7. IpPdch(ts, lchan, slots, dev, bsc, pcu.up)
    BY <1>2, <1>6 DEF IpPhase, IpVoice, IpActivating, IpDeactivating, Uses,
                      Nothing, Waiting, Using, Leaving, Answer, None
  <1>8. PICK t2 : t2 = DeactFlag(ts)
    OBVIOUS
  <1>9. /\ t2 \in Timeslots /\ t2.pchan = "TCH_F_PDCH" /\ t2.enabled /\ t2.is = ts.is
        /\ t2.want = ts.want /\ t2.deactPend /\ t2.active = ts.active
        /\ t2.actPend = ts.actPend
    BY <1>2, <1>4, <1>8, FlagsOf
  <1>10. ~Wanted(t2) /\ ~SwitchPending(ts, slots)
    BY <1>7, <1>9 DEF IpPdch, Wanted, ts_should_be_pdch, SwitchPending
  <1>11. PcuPart(ts, lchan, slots, infos, bsc, odd, reqs, pcu) /\ pcu.on \in BOOLEAN
    BY AtState
  <1>12. ~(PdchUp(lchan) /\ bsc[0].wait = "rel")
    BY <1>2 DEF Using, Answer
  <1>13. ~ts.actPend /\ ~ts.deactPend /\ ts.active
    BY <1>7 DEF IpPdch
  <1>14. CASE pcu.up
    <2>1. PICK f2 : f2 = Inform(infos, t2)
      OBVIOUS
    <2>2. w = W(t2, lchan, slots, f2, b, crashed, odd)
      BY <1>1, <1>2, <1>4, <1>8, <1>13, <1>14, <2>1, PdchDeactIs
    <2>3. IpDeactivating(t2, lchan, slots, dev, b)
      BY <1>5, <1>7, <1>9 DEF IpPdch, IpDeactivating
    <2>4. Only0("TCH_F", lchan, b)
      BY <1>5, <1>6 DEF IpPhase, Only0
    <2>5. Phase(t2, lchan, slots, dev, b, pcu.up)
      BY <1>6, <1>9, <2>3, <2>4 DEF Phase, IpPhase
    <2>6. PcuPart(t2, lchan, slots, f2, b, odd, reqs, pcu)
      BY <1>4, <1>9, <1>11, <1>12, <1>14, <2>1, PcuToldNow
    <2>7. AtWorld(w, dev, reqs, pcu)
      BY <1>6, <2>2, <2>5, <2>6, AtIs DEF At
    <2> QED
      BY <1>2, <2>7, BecomeAt
  <1>15. CASE ~pcu.up
    <2>1. PICK l2, s2 : l2 = Conf(lchan, "TCH_F") /\ s2 = Connect(slots, "TCH_F")
      OBVIOUS
    <2>2. w = W(t2, l2, s2, infos, b, crashed, odd)
      BY <1>1, <1>2, <1>4, <1>8, <1>13, <1>15, <2>1, PdchDeactIs
    <2>3. \A j \in Lchans : /\ l2[j].type = TypeFor("TCH_F", j) /\ l2[j].state = lchan[j].state
                            /\ l2[j].pending = lchan[j].pending
      BY <1>4, <2>1, ConfOf
    <2>4. s2 = <<"TCH_F">>
      BY <1>7, <2>1 DEF IpPdch, Connect
    <2>5. Quiet(l2) /\ Typed(l2, "TCH_F")
      <3>1. lchan[0].state = "NONE" /\ lchan[1].state = "NONE"
        <4>1. lchan[0].state \in {"NONE", "ACTIVE"}
          BY <1>4 DEF Lchan, Lchans
        <4> QED
          BY <1>6, <1>7, <1>15, <4>1 DEF IpPhase, IpPdch, Only0
      <3> QED
        BY <2>3, <3>1 DEF Quiet, Typed, Lchans
    <2>6. IpDeactivating(t2, l2, s2, dev, b)
      BY <1>5, <1>7, <1>9, <2>4, <2>5 DEF IpPdch, IpDeactivating
    <2>7. NonePending(l2) /\ Only0("TCH_F", l2, b)
      BY <1>5, <1>6, <2>3 DEF IpPhase, Only0, NonePending, Lchans
    <2>8. Phase(t2, l2, s2, dev, b, pcu.up)
      BY <1>6, <1>9, <2>6, <2>7 DEF Phase, IpPhase
    <2>9. PdchUp(l2) <=> PdchUp(lchan)
      BY <1>6, <1>7, <1>15, <2>5 DEF PdchUp, Quiet, Lchans, IpPdch
    <2>10. PcuPart(t2, l2, s2, infos, b, odd, reqs, pcu)
      BY <1>9, <1>11, <1>12, <1>15, <2>9, PcuSame
    <2>11. AtWorld(w, dev, reqs, pcu)
      BY <1>6, <2>2, <2>8, <2>10, AtIs DEF At
    <2> QED
      BY <1>2, <2>11, BecomeAt
  <1> QED
    BY <1>14, <1>15

\* The BSC wants nothing of the timeslot.
Unwanted(t) == [t EXCEPT !.want = None]

\* RF CHAN REL for a packet channel, while there is a PCU, and for a voice channel.
LEMMA PdchReleaseIs ==
    ASSUME NEW t \in Timeslots, NEW l \in [Lchans -> Lchan], NEW s, NEW f, NEW b, NEW c, NEW o,
           NEW i \in Lchans, l[i].state = "ACTIVE", t.pchan = "OSMO_DYN", t.is = "PDCH",
           t.want = "PDCH", pcu.up, NEW t2, t2 = Unwanted(t), NEW k, k = Kind(l, i, "RSL")
    PROVE  rsl_rx_rf_chan_rel(W(t, l, s, f, b, c, o), i) = W(t2, k, s, Inform(f, t2), b, c, o)
  <1>1. PICK w, n : w = W(t, l, s, f, b, c, o) /\ n = W(t, k, s, f, b, c, o)
    OBVIOUS
  <1>2. w.ts = t /\ w.lchan = l /\ n.ts = t
    BY <1>1 DEF W
  <1>3. [w EXCEPT !.lchan[i].kind = "RSL"] = n
    BY <1>1, KindIs
  <1>4. rsl_rx_rf_chan_rel(w, i) = dyn_ts_pdch_release(n, i)
    BY <1>2, <1>3 DEF rsl_rx_rf_chan_rel, gsm_lchan_release
  <1>5. dyn_ts_pdch_release(n, i) = pcu_tx_info_ind([n EXCEPT !.ts.want = None])
    BY <1>2 DEF dyn_ts_pdch_release
  <1>6. [n EXCEPT !.ts.want = None] = W(t2, k, s, f, b, c, o)
    BY <1>1 DEF W, Unwanted
  <1> QED
    BY <1>1, <1>4, <1>5, <1>6, InfoIs

\* ... a voice channel.
LEMMA VoiceReleaseIs ==
    ASSUME NEW t \in Timeslots, NEW l \in [Lchans -> Lchan], NEW s, NEW f, NEW b, NEW c, NEW o,
           NEW i \in Lchans, l[i].state = "ACTIVE", b[i].wait = "rel",
           \/ t.pchan = "OSMO_DYN" /\ t.is \in {"TCH_F", "TCH_H"}
           \/ t.pchan = "TCH_F_PDCH" /\ ~t.deactPend
    PROVE  \E l2 \in [Lchans -> Lchan] :
              /\ rsl_rx_rf_chan_rel(W(t, l, s, f, b, c, o), i) =
                   W(t, l2, s, f, With(b, i, Nothing), c, o)
              /\ l2[i].state = "NONE" /\ l2[i].type = l[i].type
              /\ l2[i].pending = NoActivation
              /\ \A j \in Lchans : j # i => l2[j] = l[j]
  <1>1. PICK k, w, n : /\ k = Kind(l, i, "RSL") /\ w = W(t, l, s, f, b, c, o)
                       /\ n = W(t, k, s, f, b, c, o)
    OBVIOUS
  <1>2. w.ts = t /\ w.lchan = l
    BY <1>1 DEF W
  <1>3. [w EXCEPT !.lchan[i].kind = "RSL"] = n
    BY <1>1, KindIs
  <1>4. rsl_rx_rf_chan_rel(w, i) = l1sap_chan_rel(n, i)
    BY <1>2, <1>3 DEF rsl_rx_rf_chan_rel, gsm_lchan_release
  <1>5. /\ k \in [Lchans -> Lchan] /\ k[i].kind = "RSL" /\ k[i].state = "ACTIVE"
        /\ k[i].type = l[i].type /\ \A j \in Lchans : j # i => k[j] = l[j]
    BY <1>1, KindOf
  <1>6. PICK x, l2 : x = Inactive(k[i]) /\ l2 = With(k, i, x)
    OBVIOUS
  <1>7. l1sap_chan_rel(n, i) = W(t, l2, s, f, With(b, i, Nothing), c, o)
    BY <1>1, <1>5, <1>6, ChanRelIs DEF Nothing, None
  <1>8. x \in Lchan /\ x.state = "NONE" /\ x.type = l[i].type /\ x.pending = NoActivation
    BY <1>5, <1>6, CellsOf
  <1>9. /\ l2 \in [Lchans -> Lchan] /\ l2[i] = x
        /\ \A j \in Lchans : j # i => l2[j] = k[j]
    BY <1>5, <1>6, <1>8 DEF With
  <1> QED
    BY <1>1, <1>4, <1>5, <1>7, <1>8, <1>9

\* RF CHAN REL leads from one phase to another.
LEMMA RfChanRelKeeps ==
    ASSUME DynIInv, Calm(odd), NEW i \in Lchans, RfChanRel(i)
    PROVE  At(ts, lchan, slots, infos, bsc, crashed, odd, dev, reqs, pcu)'
  <1>1. PICK b, w, o2 : /\ b = Left(bsc, i) /\ w = rsl_rx_rf_chan_rel(Leaves(i), i)
                        /\ o2 = EarlyOdd(odd, bsc, i)
    OBVIOUS
  <1>2. /\ ts.enabled /\ bsc[i].use # None /\ bsc[i].wait # "rel"
        /\ ts.pchan = "TCH_F_PDCH" => bsc[i].use = "TCH_F"
        /\ Become(w) /\ UNCHANGED <<dev, reqs, pcu>>
    BY <1>1 DEF RfChanRel
  <1>3. /\ ts \in Timeslots /\ lchan \in [Lchans -> Lchan] /\ infos \in Seq(BOOLEAN)
        /\ bsc \in [Lchans -> Requests]
        /\ Leaves(i) = W(ts, lchan, slots, infos, b, crashed, o2)
    BY <1>1, StateTypes, LeavesIs DEF DynIInv
  <1>4. /\ b \in [Lchans -> Requests] /\ b[i] = Leaving(bsc[i].use)
        /\ \A j \in Lchans : j # i => b[j] = bsc[j]
    BY <1>1, LeftOf
  <1>5. b[i].wait = "rel"
    BY <1>4 DEF Leaving
  <1>6. PICK b2 : b2 = With(b, i, Nothing)
    OBVIOUS
  <1>7. b2[i] = Nothing /\ \A j \in Lchans : j # i => b2[j] = bsc[j]
    BY <1>4, <1>6 DEF With
  <1>8. /\ ~crashed /\ PcuPart(ts, lchan, slots, infos, bsc, odd, reqs, pcu)
        /\ pcu.on \in BOOLEAN
        /\ \/ OsmoPhase(ts, lchan, slots, dev, bsc, pcu.up)
           \/ IpPhase(ts, lchan, slots, dev, bsc, pcu.up)
    BY <1>2, AtState
  <1>9. lchan[i].state \in {"NONE", "ACTIVE"}
    BY <1>3 DEF Lchan
  <1>10. CASE lchan[i].state = "NONE"
    <2>1. w = W(ts, lchan, slots, infos, b2, crashed, o2)
      <3>1. PICK x : x = W(ts, lchan, slots, infos, b, crashed, o2)
        OBVIOUS
      <3>2. x.lchan = lchan
        BY <3>1 DEF W
      <3>3. rsl_rx_rf_chan_rel(x, i) = tx_rf_rel_ack(x, i)
        BY <1>10, <3>2 DEF rsl_rx_rf_chan_rel
      <3> QED
        BY <1>1, <1>3, <1>5, <1>6, <3>1, <3>3, RelAckIs DEF Nothing
    <2>2. CASE bsc[i].wait = "act"
      <3>1. ~Calm(o2)
        BY <1>1, <2>2 DEF EarlyOdd, Calm
      <3>2. AtWorld(w, dev, reqs, pcu)
        BY <2>1, <3>1, AtIs DEF At
      <3> QED
        BY <1>2, <3>2, BecomeAt
    <2>3. CASE bsc[i].wait # "act"
      <3>1. o2 = odd
        BY <1>1, <2>3 DEF EarlyOdd
      \* It was a packet channel that the PCU has not activated.
      <3>2. bsc[i] # Nothing /\ \A p \in Pchans : bsc[i] # Waiting(p)
        BY <1>2, <2>3 DEF Nothing, Answer, Waiting
      <3>3. /\ ts.pchan = "OSMO_DYN" /\ ts.enabled /\ NoFlags(ts)
            /\ OsmoPdch(ts, lchan, slots, dev, bsc, pcu.up) /\ i = 0
        <4>1. CASE OsmoPhase(ts, lchan, slots, dev, bsc, pcu.up)
          <5>1. ~OsmoUnconnected(ts, lchan, slots, bsc)
            BY <3>2 DEF OsmoUnconnected, Unused
          <5>2. ~OsmoSwitching(ts, lchan, slots, bsc)
            BY <3>2 DEF OsmoSwitching
          <5>3. ~OsmoConnected(ts, lchan, slots, dev, bsc)
            BY <1>10, <3>2 DEF OsmoConnected, Uses, Pchans
          <5>4. ~OsmoReleasing(ts, lchan, slots, dev, bsc)
            BY <1>2, <1>10, <3>2 DEF OsmoReleasing, Only0, Lchans
          <5>5. OsmoPdch(ts, lchan, slots, dev, bsc, pcu.up)
            BY <4>1, <5>1, <5>2, <5>3, <5>4 DEF OsmoPhase
          <5>6. i = 0
            BY <3>2, <5>5 DEF OsmoPdch, Only0, Lchans
          <5> QED
            BY <4>1, <5>5, <5>6 DEF OsmoPhase
        <4>2. CASE IpPhase(ts, lchan, slots, dev, bsc, pcu.up)
          <5>1. i = 0 /\ bsc[0].use = "TCH_F"
            BY <1>2, <3>2, <4>2 DEF IpPhase, Only0, Lchans
          <5>2. ~IpVoice(ts, lchan, slots, dev, bsc)
            BY <1>10, <3>2, <5>1 DEF IpVoice, Uses, Pchans
          <5>3. /\ ~IpActivating(ts, lchan, slots, dev, bsc)
                /\ ~IpPdch(ts, lchan, slots, dev, bsc, pcu.up)
                /\ ~IpDeactivating(ts, lchan, slots, dev, bsc)
            BY <5>1 DEF IpActivating, IpPdch, IpDeactivating, Waiting, Using, Leaving, Answer
          <5> QED
            BY <4>2, <5>2, <5>3 DEF IpPhase
        <4> QED
          BY <1>8, <4>1, <4>2
      <3>4. b2[0] = Nothing /\ b2[1] = bsc[1]
        BY <1>7, <3>3 DEF Lchans
      <3>5. OsmoPdch(ts, lchan, slots, dev, b2, pcu.up)
        BY <1>10, <3>3, <3>4 DEF OsmoPdch, Only0
      <3>6. Phase(ts, lchan, slots, dev, b2, pcu.up)
        BY <3>3, <3>5 DEF Phase, OsmoPhase
      <3>7. PcuPart(ts, lchan, slots, infos, b2, odd, reqs, pcu)
        <4>1. ~PdchUp(lchan) /\ ~SwitchPending(ts, slots)
          BY <1>10, <3>3 DEF PdchUp, SwitchPending
        <4> QED
          BY <1>8, <3>3, <4>1, PcuSame
      <3>8. AtWorld(w, dev, reqs, pcu)
        BY <1>8, <2>1, <3>1, <3>6, <3>7, AtIs DEF At
      <3> QED
        BY <1>2, <3>8, BecomeAt
    <2> QED
      BY <2>2, <2>3
  <1>11. CASE lchan[i].state = "ACTIVE"
    <2>1. bsc[i].wait # "act"
      <3>1. CASE OsmoPhase(ts, lchan, slots, dev, bsc, pcu.up)
        BY <1>11, <3>1 DEF OsmoPhase, OsmoUnconnected, OsmoSwitching, OsmoConnected, OsmoPdch,
             OsmoReleasing, Quiet, Only0, Uses, Nothing, Using, Leaving, Answer, Lchans
      <3>2. CASE IpPhase(ts, lchan, slots, dev, bsc, pcu.up)
        BY <1>11, <3>2 DEF IpPhase, IpVoice, IpActivating, IpPdch, IpDeactivating,
             Quiet, Only0, Uses, Nothing, Using, Leaving, Answer, Lchans
      <3> QED
        BY <1>8, <3>1, <3>2
    <2>2. o2 = odd
      BY <1>1, <2>1 DEF EarlyOdd
    <2>3. CASE ts.pchan = "OSMO_DYN" /\ ts.is = "PDCH"
      <3>1. OsmoPhase(ts, lchan, slots, dev, bsc, pcu.up)
        BY <1>8, <2>3 DEF IpPhase
      <3>2. OsmoPdch(ts, lchan, slots, dev, bsc, pcu.up) /\ i = 0 /\ pcu.up
        <4>1. ~OsmoReleasing(ts, lchan, slots, dev, bsc)
          BY <1>2, <1>11 DEF OsmoReleasing, Only0, Leaving, Lchans
        <4>2. OsmoPdch(ts, lchan, slots, dev, bsc, pcu.up)
          BY <2>3, <3>1, <4>1 DEF OsmoPhase, OsmoUnconnected, OsmoSwitching, OsmoConnected, None
        <4> QED
          BY <1>11, <4>2 DEF OsmoPdch, Only0, Lchans
      <3>3. PICK t2, k, f2 : /\ t2 = Unwanted(ts) /\ k = Kind(lchan, i, "RSL")
                             /\ f2 = Inform(infos, t2)
        OBVIOUS
      <3>4. w = W(t2, k, slots, f2, b, crashed, odd)
        <4>1. ts.want = "PDCH"
          BY <3>2 DEF OsmoPdch
        <4> QED
          BY <1>1, <1>3, <1>11, <2>2, <2>3, <3>2, <3>3, <4>1, PdchReleaseIs
      <3>5. /\ t2 \in Timeslots /\ t2.pchan = "OSMO_DYN" /\ t2.is = "PDCH" /\ t2.want = None
            /\ t2.enabled /\ NoFlags(t2)
        BY <1>2, <1>3, <2>3, <3>1, <3>3 DEF Unwanted, Timeslots, OsmoPhase, NoFlags
      <3>6. /\ \A j \in Lchans : k[j].state = lchan[j].state /\ k[j].type = lchan[j].type
                                 /\ k[j].pending = lchan[j].pending
        BY <1>3, <3>3, KindOf
      <3>7. b[0] = Leaving("PDCH") /\ b[1] = bsc[1]
        <4>1. bsc[0].use = "PDCH"
          BY <1>2, <3>2 DEF OsmoPdch, Nothing, Using, Answer
        <4> QED
          BY <1>4, <3>2, <4>1 DEF Lchans
      <3>8. OsmoReleasing(t2, k, slots, dev, b)
        BY <1>11, <3>2, <3>5, <3>6, <3>7
        DEF OsmoPdch, OsmoReleasing, Typed, NonePending, Only0, Lchans
      <3>9. Phase(t2, k, slots, dev, b, pcu.up)
        BY <3>5, <3>8 DEF Phase, OsmoPhase
      <3>10. PcuPart(t2, k, slots, f2, b, odd, reqs, pcu)
        <4>1. (PdchUp(k) <=> PdchUp(lchan)) /\ b[0].wait = "rel"
          BY <3>6, <3>7 DEF PdchUp, Lchans, Leaving
        <4> QED
          BY <1>3, <1>8, <3>2, <3>3, <3>5, <4>1, PcuToldNow
      <3>11. AtWorld(w, dev, reqs, pcu)
        BY <1>8, <3>4, <3>9, <3>10, AtIs DEF At
      <3> QED
        BY <1>2, <3>11, BecomeAt
    <2>4. CASE ts.pchan = "OSMO_DYN" /\ ts.is # "PDCH"
      <3>1. OsmoPhase(ts, lchan, slots, dev, bsc, pcu.up)
        BY <1>8, <2>4 DEF IpPhase
      <3>2. OsmoConnected(ts, lchan, slots, dev, bsc)
        BY <1>11, <2>4, <3>1
        DEF OsmoPhase, OsmoUnconnected, OsmoSwitching, OsmoPdch, OsmoReleasing, Quiet
      <3>3. PICK l2 \in [Lchans -> Lchan] :
              /\ w = W(ts, l2, slots, infos, b2, crashed, odd)
              /\ l2[i].state = "NONE" /\ l2[i].type = lchan[i].type
              /\ l2[i].pending = NoActivation
              /\ \A j \in Lchans : j # i => l2[j] = lchan[j]
        <4>1. ts.is \in {"TCH_F", "TCH_H"}
          BY <3>2 DEF OsmoConnected
        <4> QED
          BY <1>1, <1>3, <1>5, <1>6, <1>11, <2>2, <2>4, <4>1, VoiceReleaseIs
      <3>4. OsmoConnected(ts, l2, slots, dev, b2)
        <4>1. Typed(l2, ts.is)
          BY <3>2, <3>3 DEF OsmoConnected, Typed
        <4>2. Only0(ts.is, l2, b2)
          BY <1>7, <3>2, <3>3 DEF OsmoConnected, Only0, Lchans
        <4>3. \A j \in Lchans : Uses(l2[j], b2[j], ts.is)
          BY <1>7, <3>2, <3>3 DEF OsmoConnected, Uses
        <4> QED
          BY <3>2, <4>1, <4>2, <4>3 DEF OsmoConnected
      <3>5. Phase(ts, l2, slots, dev, b2, pcu.up)
        BY <3>1, <3>4 DEF Phase, OsmoPhase
      <3>6. PcuPart(ts, l2, slots, infos, b2, odd, reqs, pcu)
        <4>1. ~PdchUp(lchan) /\ ~PdchUp(l2)
          <5>1. lchan[0].type # "PDTCH" /\ l2[0].type # "PDTCH"
            BY <3>2, <3>4 DEF OsmoConnected, Typed, TypeFor, Lchans
          <5> QED
            BY <5>1 DEF PdchUp
        <4>2. ~SwitchPending(ts, slots)
          BY <2>4 DEF SwitchPending
        <4> QED
          BY <1>2, <1>8, <4>1, <4>2, PcuSame
      <3>7. AtWorld(w, dev, reqs, pcu)
        BY <1>8, <3>3, <3>5, <3>6, AtIs DEF At
      <3> QED
        BY <1>2, <3>7, BecomeAt
    <2>5. CASE ts.pchan # "OSMO_DYN"
      <3>1. IpPhase(ts, lchan, slots, dev, bsc, pcu.up) /\ ts.pchan = "TCH_F_PDCH"
        BY <1>8, <2>5 DEF OsmoPhase, IpPhase
      <3>2. i = 0 /\ IpVoice(ts, lchan, slots, dev, bsc)
        <4>1. bsc[i].use = "TCH_F" /\ i = 0
          BY <1>2, <1>11, <3>1 DEF IpPhase, Only0, Lchans
        <4> QED
          BY <3>1, <4>1 DEF IpPhase, IpActivating, IpPdch, IpDeactivating,
                            Waiting, Using, Leaving, Answer
      <3>3. PICK l2 \in [Lchans -> Lchan] :
              /\ w = W(ts, l2, slots, infos, b2, crashed, odd)
              /\ l2[i].state = "NONE" /\ l2[i].type = lchan[i].type
              /\ l2[i].pending = NoActivation
              /\ \A j \in Lchans : j # i => l2[j] = lchan[j]
        <4>1. ~ts.deactPend
          BY <3>2 DEF IpVoice, NoFlags
        <4> QED
          BY <1>1, <1>3, <1>5, <1>6, <1>11, <2>2, <3>1, <4>1, VoiceReleaseIs
      <3>4. IpVoice(ts, l2, slots, dev, b2)
        <4>1. Typed(l2, "TCH_F")
          BY <3>2, <3>3 DEF IpVoice, Typed
        <4>2. Uses(l2[0], b2[0], "TCH_F")
          BY <1>7, <3>2, <3>3 DEF Uses
        <4> QED
          BY <3>2, <4>1, <4>2 DEF IpVoice
      <3>5. NonePending(l2) /\ Only0("TCH_F", l2, b2)
        BY <1>7, <3>1, <3>2, <3>3 DEF IpPhase, NonePending, Only0, Lchans
      <3>6. Phase(ts, l2, slots, dev, b2, pcu.up)
        BY <3>1, <3>4, <3>5 DEF Phase, IpPhase
      <3>7. PcuPart(ts, l2, slots, infos, b2, odd, reqs, pcu)
        <4>1. ~PdchUp(lchan) /\ ~PdchUp(l2)
          <5>1. lchan[0].type # "PDTCH" /\ l2[0].type # "PDTCH"
            BY <3>2, <3>4 DEF IpVoice, Typed, TypeFor, Lchans
          <5> QED
            BY <5>1 DEF PdchUp
        <4>2. ~SwitchPending(ts, slots)
          BY <3>2 DEF SwitchPending, IpVoice, NoFlags
        <4> QED
          BY <1>2, <1>8, <4>1, <4>2, PcuSame
      <3>8. AtWorld(w, dev, reqs, pcu)
        BY <1>8, <3>3, <3>6, <3>7, AtIs DEF At
      <3> QED
        BY <1>2, <3>8, BecomeAt
    <2> QED
      BY <2>3, <2>4, <2>5
  <1> QED
    BY <1>9, <1>10, <1>11

\* So do the loss of the A-bis link ...
LEMMA ReleaseKeeps ==
    ASSUME DynIInv, Calm(odd), gsm_ts_release
    PROVE  At(ts, lchan, slots, infos, bsc, crashed, odd, dev, reqs, pcu)'
  <1>1. PICK t, l, b, o, w : /\ t = SwitchedOff /\ l = Cleaned /\ b = NoUse /\ o = OrphanOdd
                             /\ w = IF pcu.up THEN pcu_tx_info_ind(OffWorld) ELSE OffWorld
    OBVIOUS
  <1>2. Become(w) /\ UNCHANGED <<dev, reqs, pcu>>
    <2>1. Become(w)
      BY <1>1, OffIs DEF DynIInv
    <2> QED
      BY <2>1 DEF gsm_ts_release
  <1>3. PICK f : f = IF pcu.up THEN Inform(infos, t) ELSE infos
    OBVIOUS
  <1>4. w = W(t, l, <<>>, f, b, crashed, o)
    BY <1>1, <1>3, InfoIs DEF OffWorld
  <1>5. CASE ~Calm(o)
    <2>1. AtWorld(w, dev, reqs, pcu)
      BY <1>4, <1>5, AtIs DEF At
    <2> QED
      BY <1>2, <2>1, BecomeAt
  <1>6. CASE Calm(o)
    <2>1. /\ \A i \in Lchans : lchan[i].pending = NoActivation
          /\ NoFlags(ts) /\ reqs = <<>> /\ ~Contains(infos, TRUE) /\ o = odd
      BY <1>1, <1>6 DEF OrphanOdd, Calm, NoFlags
    <2>2. /\ ~crashed /\ PcuPart(ts, lchan, slots, infos, bsc, odd, reqs, pcu)
          /\ pcu.on \in BOOLEAN /\ pcu.up \in BOOLEAN
      BY AtState
    <2>3. /\ ts \in Timeslots /\ lchan \in [Lchans -> Lchan] /\ infos \in Seq(BOOLEAN)
      BY StateTypes DEF DynIInv
    <2>4. /\ t \in Timeslots /\ ~t.enabled /\ t.pchan = None /\ t.is = None /\ t.want = None
          /\ NoFlags(t)
      BY <1>1, <2>1, <2>3 DEF SwitchedOff, Timeslots, NoFlags
    <2>5. ~Wanted(t)
      BY <2>4 DEF Wanted
    <2>6. ASSUME NEW i \in Lchans
          PROVE  l[i].state = "NONE" /\ l[i].pending = NoActivation /\ b[i] = Nothing
      <3>1. lchan[i] \in Lchan /\ l[i] = CleanLchan(lchan[i]) /\ b[i] = Nothing
        BY <1>1, <2>3 DEF Cleaned, NoUse, Nothing
      <3>2. CASE lchan[i].state = "NONE"
        BY <2>1, <3>1, <3>2 DEF CleanLchan
      <3>3. CASE lchan[i].state # "NONE"
        BY <3>1, <3>3 DEF CleanLchan, Lchan
      <3> QED
        BY <3>1, <3>2, <3>3
    <2>7. Phase(t, l, <<>>, dev, b, pcu.up)
      BY <2>4, <2>6 DEF Phase, Off, Quiet, NonePending, Unused
    <2>8. ~PdchUp(l)
      BY <2>6 DEF PdchUp, Lchans
    <2>9. ~Has(infos)
      <3>1. ASSUME NEW k \in DOMAIN infos, infos[k]
            PROVE  FALSE
        <4>1. k \in 1 .. Len(infos) /\ infos[k] \in BOOLEAN
          BY <2>3, <3>1
        <4>2. infos[k] = TRUE
          BY <3>1, <4>1
        <4> QED
          BY <2>1, <4>1, <4>2 DEF Contains
      <3> QED
        BY <3>1 DEF Has
    <2>10. PICK x \in BOOLEAN : x = Wanted(t)
      BY <2>4, WantedType
    <2>11. /\ ~Has(f) /\ ~Has(reqs)
           /\ pcu.up => FinalOf(f, pcu.on) = x /\ (pcu.on /\ infos = <<>> => HasNot(f))
           /\ HasNot(infos) => HasNot(f)
           /\ ~pcu.up => f = infos
      <3>1. CASE ~pcu.up
        BY <1>3, <2>1, <2>9, <3>1 DEF Has
      <3>2. CASE pcu.up
        <4>1. f = Append(infos, x)
          BY <1>3, <2>10, <3>2 DEF Inform
        <4>2. /\ f # <<>> /\ FinalOf(f, pcu.on) = x /\ (HasNot(infos) => HasNot(f))
              /\ Has(f) => Has(infos) \/ x
          BY <2>2, <2>3, <4>1, SeqAppend
        <4>3. infos = <<>> => HasNot(f)
          <5>1. Len(f) = Len(infos) + 1 /\ f[Len(infos) + 1] = x /\ Len(infos) + 1 \in DOMAIN f
            BY <2>3, <4>1
          <5> QED
            BY <2>5, <2>10, <5>1 DEF HasNot
        <4> QED
          BY <2>1, <2>5, <2>9, <2>10, <3>2, <4>2, <4>3 DEF Has
      <3> QED
        BY <3>1, <3>2
    <2>12. PcuPart(t, l, <<>>, f, b, o, reqs, pcu)
      <3>1. GoneOf(f, reqs, pcu)
        BY <2>2, <2>11 DEF PcuPart, GoneOf
      <3>2. QuietOf(t, f, reqs)
        BY <2>11 DEF QuietOf
      <3>3. ToldOf(t, <<>>, f, o, pcu)
        BY <2>10, <2>11 DEF ToldOf
      <3>4. DoneOf(l, f, b, o, reqs, pcu)
        <4>1. CASE "untold" \in o
          BY <4>1 DEF DoneOf
        <4>2. CASE "untold" \notin o /\ ~pcu.on
          BY <2>1, <2>8, <4>2 DEF DoneOf
        <4>3. CASE "untold" \notin o /\ pcu.on
          <5>1. pcu.up
            BY <2>2, <4>3 DEF PcuPart, GoneOf
          <5>2. HasNot(f)
            <6>1. CASE infos = <<>>
              BY <2>11, <4>3, <5>1, <6>1
            <6>2. CASE infos # <<>>
              <7>1. Len(infos) \in DOMAIN infos
                BY <2>3, <6>2
              <7>2. HasNot(infos)
                BY <2>9, <7>1 DEF Has, HasNot
              <7> QED
                BY <2>11, <7>2
            <6> QED
              BY <6>1, <6>2
          <5> QED
            BY <2>1, <4>3, <5>2 DEF DoneOf
        <4> QED
          BY <4>1, <4>2, <4>3
      <3> QED
        BY <3>1, <3>2, <3>3, <3>4 DEF PcuPart
    <2>13. AtWorld(w, dev, reqs, pcu)
      BY <1>4, <2>2, <2>7, <2>12, AtIs DEF At
    <2> QED
      BY <1>2, <2>13, BecomeAt
  <1> QED
    BY <1>5, <1>6

\* ... and the configuration of the timeslot.
LEMMA SetKeeps ==
    ASSUME DynIInv, Calm(odd), trx_set_ts
    PROVE  At(ts, lchan, slots, infos, bsc, crashed, odd, dev, reqs, pcu)'
  <1>1. PICK k \in Kinds :
            /\ Become(IF pcu.up THEN pcu_tx_info_ind(SetWorld(k)) ELSE SetWorld(k))
            /\ dev' = SetAs(k)
    BY SetIs DEF DynIInv
  <1>2. ~ts.enabled /\ UNCHANGED <<reqs, pcu>>
    BY DEF trx_set_ts
  <1>3. PICK t, l, c, d, w : /\ t = SwitchedOn(k) /\ l = SetLchans(k) /\ c = SetFails(k)
                             /\ d = SetAs(k)
                             /\ w = IF pcu.up THEN pcu_tx_info_ind(SetWorld(k)) ELSE SetWorld(k)
    OBVIOUS
  <1>4. PICK f : f = IF pcu.up THEN Inform(infos, t) ELSE infos
    OBVIOUS
  <1>5. w = W(t, l, slots, f, bsc, c, odd)
    BY <1>3, <1>4, InfoIs DEF SetWorld
  <1>6. /\ Off(ts, lchan, slots, bsc) /\ PcuPart(ts, lchan, slots, infos, bsc, odd, reqs, pcu)
        /\ pcu.on \in BOOLEAN /\ pcu.up \in BOOLEAN
    BY <1>2, AtState
  <1>7. ts \in Timeslots /\ lchan \in [Lchans -> Lchan] /\ infos \in Seq(BOOLEAN)
    BY StateTypes DEF DynIInv
  <1>8. ~c
    BY <1>3, <1>6 DEF SetFails, Off, NoFlags
  <1>9. /\ t \in Timeslots /\ t.pchan = k /\ t.enabled /\ t.is = None /\ t.want = None
        /\ NoFlags(t)
    <2>1. k \in {"OSMO_DYN", "TCH_F_PDCH"}
      BY DynAssumption
    <2>2. t.pchan = k /\ t.enabled /\ t.is = None /\ t.want = None /\ NoFlags(t)
      BY <1>3, <1>6, <1>7 DEF SwitchedOn, Timeslots, Off, NoFlags
    <2>3. t \in Timeslots
      BY <1>3, <1>7 DEF SwitchedOn, Timeslots
    <2> QED
      BY <2>2, <2>3
  <1>10. \A j \in Lchans : l[j].state = "NONE" /\ l[j].pending = NoActivation
    <2>1. CASE SetAs(k) = None
      BY <1>3, <1>6, <2>1 DEF SetLchans, Off, Quiet, NonePending
    <2>2. CASE SetAs(k) # None
      <3>1. l = Conf(lchan, SetAs(k))
        BY <1>3, <2>2 DEF SetLchans
      <3>2. \A j \in Lchans : l[j].state = lchan[j].state /\ l[j].pending = lchan[j].pending
        BY <1>7, <3>1, ConfOf
      <3> QED
        BY <1>6, <3>2 DEF Off, Quiet, NonePending
    <2> QED
      BY <2>1, <2>2
  <1>11. Phase(t, l, slots, d, bsc, pcu.up)
    <2>1. CASE k = "OSMO_DYN"
      BY <1>6, <1>9, <1>10, <2>1
      DEF Phase, OsmoPhase, OsmoUnconnected, Off, Quiet, NonePending
    <2>2. CASE k = "TCH_F_PDCH"
      <3>1. SetAs(k) = "TCH_F" /\ d = "TCH_F"
        BY <1>3, <1>6, <2>2 DEF SetAs, Off, NoFlags
      <3>2. Typed(l, "TCH_F")
        <4>1. l = Conf(lchan, "TCH_F")
          BY <1>3, <3>1 DEF SetLchans, None
        <4>2. \A j \in Lchans : l[j].type = TypeFor("TCH_F", j)
          BY <1>7, <4>1, ConfOf
        <4> QED
          BY <4>2 DEF Typed
      <3>3. NonePending(l) /\ Only0("TCH_F", l, bsc) /\ slots = <<>>
        BY <1>6, <1>10 DEF Off, NonePending, Only0, Unused, Lchans
      <3>4. Uses(l[0], bsc[0], "TCH_F")
        BY <1>6, <1>10 DEF Off, Unused, Uses, Lchans
      <3> QED
        BY <1>9, <2>2, <3>1, <3>2, <3>3, <3>4 DEF Phase, IpPhase, IpVoice
    <2> QED
      BY <2>1, <2>2, DynAssumption
  <1>12. PcuPart(t, l, slots, f, bsc, odd, reqs, pcu)
    <2>1. ~PdchUp(l) /\ ~PdchUp(lchan)
      BY <1>6, <1>10 DEF PdchUp, Off, Quiet, Lchans
    <2>2. CASE pcu.up
      <3>1. f = Inform(infos, t)
        BY <1>4, <2>2
      <3> QED
        BY <1>6, <1>7, <1>9, <2>1, <2>2, <3>1, PcuToldNow
    <2>3. CASE ~pcu.up
      BY <1>4, <1>6, <1>9, <2>1, <2>3, PcuSame
    <2> QED
      BY <2>2, <2>3
  <1>13. AtWorld(w, d, reqs, pcu)
    BY <1>5, <1>8, <1>11, <1>12, AtIs DEF At
  <1> QED
    BY <1>1, <1>2, <1>3, <1>13, BecomeAt

-----------------------------------------------------------------------------
(* The transceiver confirms SETSLOT.                                       *)

\* An activation that was put off is taken up.
Taken(l, i) == With(l, i, [l[i] EXCEPT !.pending = NoActivation])

\* An activation that was put off is taken up only once.
LEMMA TakenOf ==
    ASSUME NEW l \in [Lchans -> Lchan], NEW i \in Lchans, NEW k, k = Taken(l, i)
    PROVE  /\ k \in [Lchans -> Lchan] /\ k[i].pending = NoActivation
           /\ k[i].state = l[i].state /\ k[i].type = l[i].type
           /\ \A j \in Lchans : j # i => k[j] = l[j]
  <1>1. PICK c : c = [l[i] EXCEPT !.pending = NoActivation]
    OBVIOUS
  <1>2. l[i] \in Lchan
    OBVIOUS
  <1>3. /\ c \in Lchan /\ c.pending = NoActivation /\ c.state = l[i].state /\ c.type = l[i].type
    BY <1>1, <1>2 DEF Lchan
  <1>4. k = [l EXCEPT ![i] = c]
    BY <1>1 DEF Taken, With
  <1> QED
    BY <1>3, <1>4

\* An activation that was put off goes on when the timeslot is what it asks for.
LEMMA ResumeIs ==
    ASSUME NEW t \in Timeslots, NEW l \in [Lchans -> Lchan], NEW s, NEW f, NEW b, NEW c, NEW o,
           NEW i \in Lchans
    PROVE  /\ l[i].pending = NoActivation =>
                Resume(W(t, l, s, f, b, c, o), i) = W(t, l, s, f, b, c, o)
           /\ /\ l[i].pending # NoActivation /\ l[i].state = "NONE" /\ t.enabled
              /\ t.is = l[i].pending.pchan /\ t.want = l[i].pending.pchan
              => Resume(W(t, l, s, f, b, c, o), i) =
                   ActivateChannel(W(t, Taken(l, i), s, f, b, c, o), i, l[i].pending)
  <1>1. PICK w : w = W(t, l, s, f, b, c, o)
    OBVIOUS
  <1>2. w.lchan = l
    BY <1>1 DEF W
  <1>3. CASE l[i].pending = NoActivation
    BY <1>1, <1>2, <1>3 DEF Resume
  <1>4. CASE /\ l[i].pending # NoActivation /\ l[i].state = "NONE" /\ t.enabled
             /\ t.is = l[i].pending.pchan /\ t.want = l[i].pending.pchan
    <2>1. PICK k, m : k = Taken(l, i) /\ m = l[i].pending
      OBVIOUS
    <2>2. [w EXCEPT !.lchan[i].pending = NoActivation] = W(t, k, s, f, b, c, o)
      BY <1>1, <2>1 DEF W, Taken, With
    <2>3. Resume(w, i) = rsl_rx_chan_activ(W(t, k, s, f, b, c, o), i, m)
      BY <1>2, <1>4, <2>1, <2>2 DEF Resume
    <2>4. k[i].state = "NONE"
      BY <1>4, <2>1, TakenOf
    <2>5. rsl_rx_chan_activ(W(t, k, s, f, b, c, o), i, m) =
            ActivateChannel(W(t, k, s, f, b, c, o), i, m)
      BY <1>4, <2>1, <2>4, ActivIs
    <2> QED
      BY <1>1, <1>4, <2>1, <2>3, <2>5
  <1> QED
    BY <1>3, <1>4

\* A channel that is in use, or whose activation was put off.
Waits(c, r, p) ==
    IF c.pending = NoActivation THEN Uses(c, r, p)
    ELSE c.state = "NONE" /\ c.pending.pchan = p /\ r = Waiting(p)

\* ... and has been dealt with.
VoiceResumed(t, l, s, f, b, c, o, i, p) ==
    \E l2, b2, o2 : /\ Resume(W(t, l, s, f, b, c, o), i) = W(t, l2, s, f, b2, c, o2)
                    /\ Dealt(i, p, l, b, o, l2, b2, o2)

\* Both voice channels are in use or free afterwards.
LEMMA ResumeVoice ==
    ASSUME NEW t \in Timeslots, NEW l \in [Lchans -> Lchan], NEW s, NEW f,
           NEW b \in [Lchans -> Requests], NEW c, NEW o, NEW i \in Lchans, NEW p,
           p \in {"TCH_F", "TCH_H"}, t.pchan = "OSMO_DYN", t.enabled, t.is = p, t.want = p,
           Waits(l[i], b[i], p)
    PROVE  VoiceResumed(t, l, s, f, b, c, o, i, p)
  <1>1. CASE l[i].pending = NoActivation
    <2>1. Resume(W(t, l, s, f, b, c, o), i) = W(t, l, s, f, b, c, o)
      BY <1>1, ResumeIs
    <2>2. Dealt(i, p, l, b, o, l, b, o)
      BY <1>1 DEF Dealt, Waits
    <2> QED
      BY <2>1, <2>2 DEF VoiceResumed
  <1>2. CASE l[i].pending # NoActivation
    <2>1. PICK k, m : k = Taken(l, i) /\ m = l[i].pending
      OBVIOUS
    <2>2. m \in Activation
      <3>1. l[i] \in Lchan
        OBVIOUS
      <3> QED
        BY <1>2, <2>1, <3>1 DEF Lchan
    <2>3. l[i].state = "NONE" /\ l[i].pending.pchan = p /\ b[i] = Waiting(p)
      BY <1>2 DEF Waits
    <2>4. Resume(W(t, l, s, f, b, c, o), i) = ActivateChannel(W(t, k, s, f, b, c, o), i, m)
      BY <1>2, <2>1, <2>3, ResumeIs
    <2>5. /\ k \in [Lchans -> Lchan] /\ k[i].pending = NoActivation
          /\ k[i].state = "NONE" /\ k[i].type = l[i].type
          /\ \A j \in Lchans : j # i => k[j] = l[j]
      BY <2>1, <2>3, TakenOf
    <2>6. p \in Pchans /\ t.is # None /\ t.want # "PDCH"
      BY DEF Pchans, None
    <2>7. \E l2, b2, o2 : /\ ActivateChannel(W(t, k, s, f, b, c, o), i, m) =
                               W(t, l2, s, f, b2, c, o2)
                          /\ Dealt(i, p, k, b, o, l2, b2, o2)
      BY <2>2, <2>3, <2>5, <2>6, ActivateVoice
    <2>8. PICK l2, b2, o2 : /\ ActivateChannel(W(t, k, s, f, b, c, o), i, m) =
                                 W(t, l2, s, f, b2, c, o2)
                            /\ Dealt(i, p, k, b, o, l2, b2, o2)
      BY <2>7
    <2>9. Dealt(i, p, l, b, o, l2, b2, o2)
      BY <2>5, <2>8 DEF Dealt
    <2> QED
      BY <2>4, <2>8, <2>9 DEF VoiceResumed
  <1> QED
    BY <1>1, <1>2

\* The timeslot is what the BSC wants.
Arrived(t) == [t EXCEPT !.is = t.want]

\* A confirmed SETSLOT of an OSMO_DYN timeslot, by parts.
LEMMA OsmoConnectedIs ==
    ASSUME NEW t, NEW l, NEW s, NEW f, NEW b, NEW c, NEW o, t.pchan = "OSMO_DYN"
    PROVE  cb_ts_connected(W(t, l, s, f, b, c, o)) =
             Resume(Resume(W(Arrived(t), l, s, f, b, c, o), 0), 1)
  <1>1. PICK w : w = W(t, l, s, f, b, c, o)
    OBVIOUS
  <1>2. w.ts = t
    BY <1>1 DEF W
  <1>3. [w EXCEPT !.ts.is = w.ts.want] = W(Arrived(t), l, s, f, b, c, o)
    <2>1. PICK u : u = Arrived(t)
      OBVIOUS
    <2>2. [w EXCEPT !.ts.is = w.ts.want] = [w EXCEPT !.ts = u]
      BY <1>2, <2>1 DEF Arrived
    <2> QED
      BY <1>1, <2>1, <2>2 DEF W
  <1> QED
    BY <1>1, <1>2, <1>3 DEF cb_ts_connected, osmo_dyn_ts_connected

\* An OSMO_DYN timeslot is what the BSC wants.
LEMMA ArrivedOf ==
    ASSUME NEW t \in Timeslots, NEW u, u = Arrived(t)
    PROVE  /\ u \in Timeslots /\ u.is = t.want /\ u.want = t.want /\ u.pchan = t.pchan
           /\ u.enabled = t.enabled /\ u.active = t.active /\ u.actPend = t.actPend
           /\ u.deactPend = t.deactPend
  BY DEF Arrived, Timeslots

\* The timeslot becomes a voice channel.
LEMMA VoiceConnected ==
    ASSUME DynIInv, Calm(odd), ts.pchan = "OSMO_DYN", ts.enabled, NoFlags(ts),
           OsmoSwitching(ts, lchan, slots, bsc), ts.want # "PDCH",
           NEW s, s = <<>>, NEW d, d = ts.want,
           NEW w, w = cb_ts_connected(W(ts, lchan, s, infos, bsc, crashed, odd))
    PROVE  AtWorld(w, d, reqs, pcu)
  <1>1. PICK t, p : t = Arrived(ts) /\ p = ts.want
    OBVIOUS
  <1>2. /\ ts \in Timeslots /\ lchan \in [Lchans -> Lchan] /\ bsc \in [Lchans -> Requests]
    BY StateTypes DEF DynIInv
  <1>3. /\ t \in Timeslots /\ t.is = p /\ t.want = p /\ t.pchan = "OSMO_DYN" /\ t.enabled
        /\ NoFlags(t)
    BY <1>1, <1>2, ArrivedOf DEF NoFlags
  <1>4. p \in {"TCH_F", "TCH_H"} /\ 0 \in Lchans /\ 1 \in Lchans
    BY <1>1 DEF OsmoSwitching, Pchans, Lchans
  <1>5. \A i \in Lchans : Waits(lchan[i], bsc[i], p)
    BY <1>1 DEF OsmoSwitching, Quiet, Waits, Uses
  <1>6. PICK l1, b1, o1 : /\ Resume(W(t, lchan, s, infos, bsc, crashed, odd), 0) =
                               W(t, l1, s, infos, b1, crashed, o1)
                          /\ Dealt(0, p, lchan, bsc, odd, l1, b1, o1)
    <2>1. VoiceResumed(t, lchan, s, infos, bsc, crashed, odd, 0, p)
      BY <1>2, <1>3, <1>4, <1>5, ResumeVoice
    <2> QED
      BY <2>1 DEF VoiceResumed
  <1>7. /\ l1 \in [Lchans -> Lchan] /\ b1 \in [Lchans -> Requests]
        /\ l1[1] = lchan[1] /\ b1[1] = bsc[1] /\ l1[0].type = lchan[0].type
        /\ Uses(l1[0], b1[0], p) /\ ("untold" \in o1 <=> "untold" \in odd)
    BY <1>4, <1>6 DEF Dealt
  <1>8. PICK l2, b2, o2 : /\ Resume(W(t, l1, s, infos, b1, crashed, o1), 1) =
                               W(t, l2, s, infos, b2, crashed, o2)
                          /\ Dealt(1, p, l1, b1, o1, l2, b2, o2)
    <2>1. Waits(l1[1], b1[1], p)
      BY <1>4, <1>5, <1>7
    <2>2. VoiceResumed(t, l1, s, infos, b1, crashed, o1, 1, p)
      BY <1>3, <1>4, <1>7, <2>1, ResumeVoice
    <2> QED
      BY <2>2 DEF VoiceResumed
  <1>9. /\ l2[0] = l1[0] /\ b2[0] = b1[0] /\ l2[1].type = lchan[1].type
        /\ Uses(l2[1], b2[1], p) /\ ("untold" \in o2 <=> "untold" \in odd)
    BY <1>4, <1>7, <1>8 DEF Dealt
  <1>10. w = W(t, l2, s, infos, b2, crashed, o2)
    BY <1>1, <1>6, <1>8, OsmoConnectedIs
  <1>11. Only0(p, l2, b2)
    <2>1. CASE p = "TCH_H"
      BY <2>1 DEF Only0
    <2>2. CASE p # "TCH_H"
      <3>1. lchan[1].pending = NoActivation
        BY <1>1, <2>2 DEF OsmoSwitching, Only0
      <3>2. PICK v : v = W(t, l1, s, infos, b1, crashed, o1)
        OBVIOUS
      <3>3. Resume(v, 1) = v
        BY <1>3, <1>4, <1>7, <3>1, <3>2, ResumeIs
      <3>4. W(t, l2, s, infos, b2, crashed, o2) = W(t, l1, s, infos, b1, crashed, o1)
        BY <1>8, <3>2, <3>3
      <3>5. l2 = l1 /\ b2 = b1
        BY <3>4 DEF W
      <3>6. Only0(p, lchan, bsc)
        BY <1>1 DEF OsmoSwitching
      <3> QED
        BY <1>7, <3>5, <3>6 DEF Only0
    <2> QED
      BY <2>1, <2>2
  <1>12. OsmoConnected(t, l2, s, d, b2)
    <2>1. Typed(lchan, p)
      BY <1>1 DEF OsmoSwitching
    <2>2. Typed(l2, p)
      BY <1>7, <1>9, <2>1 DEF Typed, Lchans
    <2>3. \A i \in Lchans : Uses(l2[i], b2[i], p)
      BY <1>7, <1>9 DEF Lchans
    <2> QED
      BY <1>1, <1>3, <1>4, <1>11, <2>2, <2>3 DEF OsmoConnected
  <1>13. Phase(t, l2, s, d, b2, pcu.up)
    BY <1>3, <1>12 DEF Phase, OsmoPhase
  <1>14. PcuPart(t, l2, s, infos, b2, o2, reqs, pcu)
    <2>1. ~PdchUp(lchan) /\ ~PdchUp(l2)
      <3>1. lchan[0].state = "NONE" /\ l2[0].type # "PDTCH"
        BY <1>3, <1>4, <1>12 DEF OsmoSwitching, Quiet, OsmoConnected, Typed, TypeFor
      <3> QED
        BY <3>1 DEF PdchUp
    <2>2. ~Wanted(ts) /\ ~Wanted(t)
      BY <1>3, <1>4 DEF Wanted, ts_should_be_pdch, OsmoSwitching, None
    <2>3. PcuPart(ts, lchan, slots, infos, bsc, odd, reqs, pcu)
      BY AtState
    <2>4. ~SwitchPending(ts, slots)
      BY DEF SwitchPending
    <2> QED
      BY <1>3, <1>9, <2>1, <2>2, <2>3, <2>4, PcuSame
  <1>15. ~crashed
    BY AtState
  <1> QED
    BY <1>10, <1>13, <1>14, <1>15, AtIs DEF At

\* ... or a packet channel, of which the PCU hears.
LEMMA PdchConnected ==
    ASSUME DynIInv, Calm(odd), ts.pchan = "OSMO_DYN", ts.enabled, NoFlags(ts),
           OsmoSwitching(ts, lchan, slots, bsc), ts.want = "PDCH",
           NEW s, s = <<>>, NEW d, d = ts.want,
           NEW w, w = cb_ts_connected(W(ts, lchan, s, infos, bsc, crashed, odd))
    PROVE  AtWorld(w, d, reqs, pcu)
  <1>1. PICK t, m, l : t = Arrived(ts) /\ m = lchan[0].pending /\ l = Taken(lchan, 0)
    OBVIOUS
  <1>2. /\ ts \in Timeslots /\ lchan \in [Lchans -> Lchan] /\ bsc \in [Lchans -> Requests]
        /\ infos \in Seq(BOOLEAN)
    BY StateTypes DEF DynIInv
  <1>3. /\ t \in Timeslots /\ t.is = "PDCH" /\ t.want = "PDCH" /\ t.pchan = "OSMO_DYN"
        /\ t.enabled /\ NoFlags(t)
    BY <1>1, <1>2, ArrivedOf DEF NoFlags
  <1>4. 0 \in Lchans /\ 1 \in Lchans
    BY DEF Lchans
  <1>5. /\ lchan[1].pending = NoActivation /\ lchan[0].pending # NoActivation
        /\ bsc[1] = Nothing /\ lchan[1].state = "NONE"
    BY DEF OsmoSwitching, Only0, NonePending, Lchans
  <1>6. m.pchan = "PDCH" /\ m.verdict = "ok" /\ bsc[0] = Waiting("PDCH") /\ lchan[0].state = "NONE"
    BY <1>1, <1>4, <1>5 DEF OsmoSwitching, Quiet
  <1>7. /\ l \in [Lchans -> Lchan] /\ l[0].pending = NoActivation /\ l[0].state = "NONE"
        /\ l[0].type = lchan[0].type /\ l[1] = lchan[1]
    BY <1>1, <1>2, <1>4, <1>6, TakenOf
  <1>8. PICK f, b : f = TellPcu(infos, t) /\ b = With(bsc, 0, Using("PDCH"))
    OBVIOUS
  <1>9. Resume(W(t, lchan, s, infos, bsc, crashed, odd), 0) = W(t, l, s, f, b, crashed, odd)
    <2>1. Resume(W(t, lchan, s, infos, bsc, crashed, odd), 0) =
            ActivateChannel(W(t, l, s, infos, bsc, crashed, odd), 0, m)
      BY <1>1, <1>2, <1>3, <1>4, <1>5, <1>6, ResumeIs
    <2>2. t.is # None
      BY <1>3 DEF None
    <2>3. ActivateChannel(W(t, l, s, infos, bsc, crashed, odd), 0, m) =
            W(t, l, s, f, b, crashed, odd)
      BY <1>3, <1>4, <1>6, <1>8, <2>2, ActivatePdch
    <2> QED
      BY <2>1, <2>3
  <1>10. Resume(W(t, l, s, f, b, crashed, odd), 1) = W(t, l, s, f, b, crashed, odd)
    BY <1>3, <1>4, <1>5, <1>7, ResumeIs
  <1>11. w = W(t, l, s, f, b, crashed, odd)
    BY <1>1, <1>9, <1>10, OsmoConnectedIs
  <1>12. b[0] = Using("PDCH") /\ b[1] = Nothing
    BY <1>2, <1>5, <1>8 DEF With, Lchans
  <1>13. OsmoPdch(t, l, s, d, b, pcu.up)
    <2>1. Typed(l, "PDCH") /\ NonePending(l) /\ Only0("PDCH", l, b)
      BY <1>5, <1>7, <1>12 DEF OsmoSwitching, Typed, NonePending, Only0, Lchans
    <2> QED
      BY <1>3, <1>7, <1>12, <2>1 DEF OsmoPdch
  <1>14. Phase(t, l, s, d, b, pcu.up)
    BY <1>3, <1>13 DEF Phase, OsmoPhase
  <1>15. PcuPart(t, l, s, f, b, odd, reqs, pcu)
    <2>1. ~PdchUp(lchan) /\ ~PdchUp(l)
      BY <1>6, <1>7 DEF PdchUp
    <2>2. PcuPart(ts, lchan, slots, infos, bsc, odd, reqs, pcu) /\ pcu.on \in BOOLEAN
      BY AtState
    <2>3. CASE pcu.up
      <3>1. f = Inform(infos, t)
        BY <1>8, <2>3 DEF TellPcu
      <3> QED
        BY <1>2, <1>3, <2>1, <2>2, <2>3, <3>1, PcuToldNow
    <2>4. CASE ~pcu.up
      <3>1. f = infos
        BY <1>8, <2>4 DEF TellPcu
      <3> QED
        BY <1>3, <2>1, <2>2, <2>4, <3>1, PcuSame
    <2> QED
      BY <2>3, <2>4
  <1>16. ~crashed
    BY AtState
  <1> QED
    BY <1>11, <1>14, <1>15, <1>16, AtIs DEF At

\* A confirmed SETSLOT of an ip.access timeslot, by parts.
LEMMA IpConnectedIs ==
    ASSUME NEW t, NEW l, NEW s, NEW f, NEW b, NEW c, NEW o, t.pchan = "TCH_F_PDCH"
    PROVE  cb_ts_connected(W(t, l, s, f, b, c, o)) =
             IF t.deactPend THEN ipacc_dyn_pdch_complete(W(t, l, s, f, b, c, o))
             ELSE IF ~t.actPend THEN W(t, l, s, f, b, c, o)
             ELSE IF pcu.up THEN W(t, l, s, Inform(f, t), b, c, o)
             ELSE ipacc_dyn_pdch_complete(W(t, l, s, f, b, c, o))
  <1>1. PICK w : w = W(t, l, s, f, b, c, o)
    OBVIOUS
  <1>2. w.ts = t
    BY <1>1 DEF W
  <1>3. pcu_tx_info_ind(w) = W(t, l, s, Inform(f, t), b, c, o)
    BY <1>1, InfoIs
  <1> QED
    BY <1>1, <1>2, <1>3 DEF cb_ts_connected, ipacc_dyn_pdch_ts_connected

\* No switch is pending after one is complete.
LEMMA CompletedOf ==
    ASSUME NEW t \in Timeslots, NEW u, u = Completed(t)
    PROVE  /\ u \in Timeslots /\ u.is = t.is /\ u.want = t.want /\ u.pchan = t.pchan
           /\ u.enabled = t.enabled /\ u.active = t.actPend /\ ~u.actPend /\ ~u.deactPend
  BY DEF Completed, Timeslots

\* PDCH ACT: the PCU hears of the packet channel, or there is none and the BSC is answered.
LEMMA IpActivated ==
    ASSUME DynIInv, Calm(odd), ts.pchan = "TCH_F_PDCH",
           IpPhase(ts, lchan, slots, dev, bsc, pcu.up),
           IpActivating(ts, lchan, slots, dev, bsc),
           NEW s, s = <<>>, NEW d, d = "PDCH",
           NEW w, w = cb_ts_connected(W(ts, lchan, s, infos, bsc, crashed, odd))
    PROVE  AtWorld(w, d, reqs, pcu)
  <1>1. /\ ts \in Timeslots /\ lchan \in [Lchans -> Lchan] /\ bsc \in [Lchans -> Requests]
        /\ infos \in Seq(BOOLEAN)
    BY StateTypes DEF DynIInv
  <1>2. /\ ~crashed /\ PcuPart(ts, lchan, slots, infos, bsc, odd, reqs, pcu)
        /\ pcu.on \in BOOLEAN /\ ts.enabled
    BY AtState DEF IpPhase
  <1>3. ts.actPend /\ ~ts.deactPend /\ ~ts.active /\ bsc[0] = Waiting("PDCH")
    BY DEF IpActivating
  <1>4. ~PdchUp(lchan)
    BY DEF IpActivating, Quiet, PdchUp, Lchans
  <1>5. CASE pcu.up
    <2>1. PICK f : f = Inform(infos, ts)
      OBVIOUS
    <2>2. w = W(ts, lchan, s, f, bsc, crashed, odd)
      BY <1>3, <1>5, <2>1, IpConnectedIs
    <2>3. IpActivating(ts, lchan, s, d, bsc)
      BY DEF IpActivating
    <2>4. Phase(ts, lchan, s, d, bsc, pcu.up)
      BY <2>3 DEF Phase, IpPhase
    <2>5. PcuPart(ts, lchan, s, f, bsc, odd, reqs, pcu)
      BY <1>1, <1>2, <1>4, <1>5, <2>1, PcuToldNow
    <2> QED
      BY <1>2, <2>2, <2>4, <2>5, AtIs DEF At
  <1>6. CASE ~pcu.up
    <2>1. PICK t, b, u : t = Completed(ts) /\ b = With(bsc, 0, Answer(u)) /\ u = "PDCH"
      OBVIOUS
    <2>2. bsc[0].wait = "act" /\ bsc[0].use = u
      BY <1>3, <2>1 DEF Waiting
    <2>3. w = W(t, lchan, s, infos, b, crashed, odd)
      BY <1>1, <1>3, <1>6, <2>1, <2>2, IpConnectedIs, CompleteIs
    <2>4. /\ t.pchan = "TCH_F_PDCH" /\ t.enabled /\ t.is = ts.is /\ t.want = ts.want
          /\ t.active /\ ~t.actPend /\ ~t.deactPend
      BY <1>1, <1>2, <1>3, <2>1, CompletedOf
    <2>5. b[0] = Using("PDCH") /\ b[1] = bsc[1]
      BY <1>1, <2>1 DEF With, Lchans, Using
    <2>6. IpPdch(t, lchan, s, d, b, pcu.up)
      BY <2>4, <2>5 DEF IpPdch, IpActivating, Quiet, Lchans
    <2>7. Only0("TCH_F", lchan, b)
      BY <2>5 DEF IpPhase, Only0
    <2>8. Phase(t, lchan, s, d, b, pcu.up)
      BY <2>4, <2>6, <2>7 DEF Phase, IpPhase
    <2>9. PcuPart(t, lchan, s, infos, b, odd, reqs, pcu)
      BY <1>2, <1>4, <1>6, <2>4, PcuSame
    <2> QED
      BY <1>2, <2>3, <2>8, <2>9, AtIs DEF At
  <1> QED
    BY <1>5, <1>6

\* PDCH DEACT: the timeslot is a voice channel again.
LEMMA IpDeactivated ==
    ASSUME DynIInv, Calm(odd), ts.pchan = "TCH_F_PDCH",
           IpPhase(ts, lchan, slots, dev, bsc, pcu.up),
           IpDeactivating(ts, lchan, slots, dev, bsc), slots = <<"TCH_F">>,
           NEW s, s = <<>>, NEW d, d = "TCH_F",
           NEW w, w = cb_ts_connected(W(ts, lchan, s, infos, bsc, crashed, odd))
    PROVE  AtWorld(w, d, reqs, pcu)
  <1>1. /\ ts \in Timeslots /\ lchan \in [Lchans -> Lchan] /\ bsc \in [Lchans -> Requests]
        /\ infos \in Seq(BOOLEAN)
    BY StateTypes DEF DynIInv
  <1>2. /\ ~crashed /\ PcuPart(ts, lchan, slots, infos, bsc, odd, reqs, pcu) /\ ts.enabled
    BY AtState DEF IpPhase
  <1>3. /\ ~ts.actPend /\ ts.deactPend /\ ts.active /\ bsc[0] = Leaving("PDCH")
        /\ Typed(lchan, "TCH_F") /\ Quiet(lchan)
    BY DEF IpDeactivating
  <1>4. ~PdchUp(lchan)
    BY <1>3 DEF Quiet, PdchUp, Lchans
  <1>5. PICK t, b : t = Completed(ts) /\ b = With(bsc, 0, Answer(None))
    OBVIOUS
  <1>6. bsc[0].wait = "rel"
    BY <1>3 DEF Leaving
  <1>7. w = W(t, lchan, s, infos, b, crashed, odd)
    BY <1>1, <1>3, <1>5, <1>6, IpConnectedIs, CompleteIs
  <1>8. /\ t.pchan = "TCH_F_PDCH" /\ t.enabled /\ t.is = ts.is /\ t.want = ts.want
        /\ ~t.active /\ ~t.actPend /\ ~t.deactPend
    BY <1>1, <1>2, <1>3, <1>5, CompletedOf
  <1>9. b[0] = Nothing /\ b[1] = bsc[1]
    BY <1>1, <1>5 DEF With, Lchans, Nothing
  <1>10. IpVoice(t, lchan, s, d, b)
    <2>1. Uses(lchan[0], b[0], "TCH_F")
      BY <1>3, <1>9 DEF IpPhase, Uses, NonePending, Quiet, Lchans
    <2> QED
      BY <1>3, <1>8, <2>1 DEF IpVoice, NoFlags
  <1>11. Only0("TCH_F", lchan, b)
    BY <1>9 DEF IpPhase, Only0
  <1>12. Phase(t, lchan, s, d, b, pcu.up)
    BY <1>8, <1>10, <1>11 DEF Phase, IpPhase
  <1>13. PcuPart(t, lchan, s, infos, b, odd, reqs, pcu)
    <2>1. ~Wanted(ts) /\ ~Wanted(t) /\ ~SwitchPending(ts, slots)
      BY <1>3, <1>8 DEF Wanted, ts_should_be_pdch, SwitchPending
    <2> QED
      BY <1>2, <1>4, <1>8, <2>1, PcuSame
  <1> QED
    BY <1>2, <1>7, <1>12, <1>13, AtIs DEF At

\* The answer to SETSLOT leads from one phase to another.
LEMMA SetslotKeeps ==
    ASSUME DynIInv, Calm(odd), l1if_setslot_cb
    PROVE  At(ts, lchan, slots, infos, bsc, crashed, odd, dev, reqs, pcu)'
  <1>1. PICK s, d, w : /\ s = Tail(slots) /\ d = Head(slots)
                       /\ w = cb_ts_connected([Now EXCEPT !.slots = Tail(@)])
    OBVIOUS
  <1>2. slots # <<>> /\ dev' = d /\ Become(w) /\ UNCHANGED <<reqs, pcu>>
    BY <1>1 DEF l1if_setslot_cb
  <1>3. w = cb_ts_connected(W(ts, lchan, s, infos, bsc, crashed, odd))
    BY <1>1, <1>2, TailIs DEF DynIInv
  <1>4. ts.pchan \in {"OSMO_DYN", "TCH_F_PDCH"}
    BY <1>2, AtState DEF Off
  <1>5. CASE ts.pchan = "OSMO_DYN"
    <2>1. OsmoSwitching(ts, lchan, slots, bsc) /\ ts.enabled /\ NoFlags(ts)
      BY <1>2, <1>5, AtState DEF OsmoPhase, OsmoUnconnected, OsmoConnected, OsmoPdch, OsmoReleasing
    <2>2. s = <<>> /\ d = ts.want
      BY <1>1, <2>1 DEF OsmoSwitching
    <2>3. AtWorld(w, d, reqs, pcu)
      BY <1>3, <1>5, <2>1, <2>2, VoiceConnected, PdchConnected
    <2> QED
      BY <1>2, <2>3, BecomeAt
  <1>6. CASE ts.pchan = "TCH_F_PDCH"
    <2>1. /\ IpPhase(ts, lchan, slots, dev, bsc, pcu.up)
          /\ \/ IpActivating(ts, lchan, slots, dev, bsc) /\ slots = <<"PDCH">>
             \/ IpDeactivating(ts, lchan, slots, dev, bsc) /\ slots = <<"TCH_F">>
      BY <1>2, <1>6, AtState DEF IpPhase, IpVoice, IpPdch, IpActivating, IpDeactivating
    <2>2. CASE IpActivating(ts, lchan, slots, dev, bsc) /\ slots = <<"PDCH">>
      <3>1. s = <<>> /\ d = "PDCH"
        BY <1>1, <2>2
      <3>2. AtWorld(w, d, reqs, pcu)
        BY <1>3, <1>6, <2>1, <2>2, <3>1, IpActivated
      <3> QED
        BY <1>2, <3>2, BecomeAt
    <2>3. CASE IpDeactivating(ts, lchan, slots, dev, bsc) /\ slots = <<"TCH_F">>
      <3>1. s = <<>> /\ d = "TCH_F"
        BY <1>1, <2>3
      <3>2. AtWorld(w, d, reqs, pcu)
        BY <1>3, <1>6, <2>1, <2>3, <3>1, IpDeactivated
      <3> QED
        BY <1>2, <3>2, BecomeAt
    <2> QED
      BY <2>1, <2>2, <2>3
  <1> QED
    BY <1>4, <1>5, <1>6

-----------------------------------------------------------------------------
(* The PCU activates and releases the packet channel.                      *)

\* The phase is not a matter of who used a channel last.
LEMMA PhaseSame ==
    ASSUME NEW t, NEW l, NEW s, NEW d, NEW b, NEW up, Phase(t, l, s, d, b, up), NEW l2,
           \A j \in Lchans : /\ l2[j].state = l[j].state /\ l2[j].type = l[j].type
                             /\ l2[j].pending = l[j].pending
    PROVE  Phase(t, l2, s, d, b, up) /\ (PdchUp(l2) <=> PdchUp(l))
  <1>1. 0 \in Lchans /\ 1 \in Lchans
    BY DEF Lchans
  <1>2. /\ Quiet(l2) <=> Quiet(l)
        /\ NonePending(l2) <=> NonePending(l)
        /\ \A p : Typed(l2, p) <=> Typed(l, p)
        /\ \A p : Only0(p, l2, b) <=> Only0(p, l, b)
        /\ \A p : \A j \in Lchans : Uses(l2[j], b[j], p) <=> Uses(l[j], b[j], p)
        /\ PdchUp(l2) <=> PdchUp(l)
    BY <1>1 DEF Quiet, NonePending, Typed, Only0, Uses, PdchUp
  <1>3. CASE Off(t, l, s, b)
    BY <1>2, <1>3 DEF Phase, Off
  <1>4. CASE OsmoPhase(t, l, s, d, b, up)
    <2>1. OsmoUnconnected(t, l, s, b) => OsmoUnconnected(t, l2, s, b)
      BY <1>2 DEF OsmoUnconnected
    <2>2. OsmoSwitching(t, l, s, b) => OsmoSwitching(t, l2, s, b)
      BY <1>2 DEF OsmoSwitching
    <2>3. OsmoConnected(t, l, s, d, b) => OsmoConnected(t, l2, s, d, b)
      BY <1>2 DEF OsmoConnected
    <2>4. OsmoPdch(t, l, s, d, b, up) => OsmoPdch(t, l2, s, d, b, up)
      BY <1>1, <1>2 DEF OsmoPdch
    <2>5. OsmoReleasing(t, l, s, d, b) => OsmoReleasing(t, l2, s, d, b)
      BY <1>1, <1>2 DEF OsmoReleasing
    <2> QED
      BY <1>2, <1>4, <2>1, <2>2, <2>3, <2>4, <2>5 DEF Phase, OsmoPhase
  <1>5. CASE IpPhase(t, l, s, d, b, up)
    <2>1. IpVoice(t, l, s, d, b) => IpVoice(t, l2, s, d, b)
      BY <1>1, <1>2 DEF IpVoice
    <2>2. IpActivating(t, l, s, d, b) => IpActivating(t, l2, s, d, b)
      BY <1>2 DEF IpActivating
    <2>3. IpPdch(t, l, s, d, b, up) => IpPdch(t, l2, s, d, b, up)
      BY <1>1, <1>2 DEF IpPdch
    <2>4. IpDeactivating(t, l, s, d, b) => IpDeactivating(t, l2, s, d, b)
      BY <1>2 DEF IpDeactivating
    <2> QED
      BY <1>2, <1>5, <2>1, <2>2, <2>3, <2>4 DEF Phase, IpPhase
  <1> QED
    BY <1>2, <1>3, <1>4, <1>5 DEF Phase

\* An ACT.req has been followed, or came too late for a timeslot that the PCU is to lose.
LEMMA PcuRequestTaken ==
    ASSUME NEW t, NEW t2, NEW l, NEW l2, NEW s, NEW s2, NEW f \in Seq(BOOLEAN), NEW b, NEW b2,
           NEW o, NEW o2, NEW r \in Seq(BOOLEAN), NEW p, r # <<>>,
           PcuPart(t, l, s, f, b, o, r, p),
           t2.enabled = t.enabled,
           "untold" \in o => "untold" \in o2,
           ~SwitchPending(t, s) /\ (Wanted(t2) <=> Wanted(t)),
           \/ PdchUp(l2) <=> Head(r)
           \/ Head(r) /\ ~Wanted(t),
           NEW r2, r2 = Tail(r)
    PROVE  PcuPart(t2, l2, s2, f, b2, o2, r2, p)
  <1>1. /\ Head(r) \in BOOLEAN /\ (Has(r2) => Has(r))
        /\ \A on : FinalOf(r, on) = FinalOf(r2, Head(r))
    BY SeqTail
  <1>2. p.up
    BY DEF PcuPart, GoneOf
  <1>3. GoneOf(f, r2, p) /\ QuietOf(t2, f, r2) /\ ToldOf(t2, s2, f, o2, p)
    BY <1>1, <1>2 DEF PcuPart, GoneOf, QuietOf, ToldOf
  <1>4. DoneOf(l2, f, b2, o2, r2, p)
    <2>1. CASE "untold" \in o2
      BY <2>1 DEF DoneOf
    <2>2. CASE "untold" \notin o2 /\ r2 # <<>>
      <3>1. Last(r) = Last(r2)
        BY <1>1, <2>2 DEF FinalOf
      <3>2. Last(r) <=> p.on
        BY <2>2 DEF PcuPart, DoneOf
      <3> QED
        BY <2>2, <3>1, <3>2 DEF DoneOf
    <2>3. CASE "untold" \notin o2 /\ r2 = <<>>
      <3>1. Head(r) <=> p.on
        <4>1. Last(r) = Head(r)
          BY <1>1, <2>3 DEF FinalOf
        <4> QED
          BY <2>3, <4>1 DEF PcuPart, DoneOf
      <3>2. CASE PdchUp(l2) <=> Head(r)
        BY <2>3, <3>1, <3>2 DEF DoneOf
      <3>3. CASE Head(r) /\ ~Wanted(t)
        <4>1. ~FinalOf(f, p.on)
          BY <1>2, <2>3, <3>3 DEF PcuPart, ToldOf
        <4>2. f # <<>>
          BY <3>1, <3>3, <4>1 DEF FinalOf
        <4>3. ~Last(f)
          BY <4>1, <4>2 DEF FinalOf
        <4>4. HasNot(f)
          BY <4>2, <4>3, LastNot
        <4> QED
          BY <2>3, <3>1, <3>3, <4>4 DEF DoneOf
      <3> QED
        BY <3>2, <3>3
    <2> QED
      BY <2>1, <2>2, <2>3
  <1> QED
    BY <1>3, <1>4 DEF PcuPart

\* The packet channel, activated and released by the PCU.
ByPcu(l) == Kind(l, 0, "PCU")
Activated(l) == With(ByPcu(l), 0, Active(ByPcu(l)[0]))
Deactivated(l) == With(ByPcu(l), 0, Inactive(ByPcu(l)[0]))

\* A channel that the PCU has asked for or given up, ...
LEMMA ByPcuOf ==
    ASSUME NEW l \in [Lchans -> Lchan], NEW m, m = ByPcu(l)
    PROVE  /\ m \in [Lchans -> Lchan] /\ m[0].kind = "PCU"
           /\ \A j \in Lchans : /\ m[j].state = l[j].state /\ m[j].type = l[j].type
                                /\ m[j].pending = l[j].pending
           /\ m[1] = l[1]
  <1>1. PICK i, u : i = 0 /\ u = "PCU"
    OBVIOUS
  <1>2. m = Kind(l, i, u)
    BY <1>1 DEF ByPcu
  <1>3. i \in Lchans /\ 1 \in Lchans
    BY <1>1 DEF Lchans
  <1>4. /\ m \in [Lchans -> Lchan] /\ m[i].kind = u /\ \A j \in Lchans : j # i => m[j] = l[j]
        /\ \A j \in Lchans : /\ m[j].state = l[j].state /\ m[j].type = l[j].type
                             /\ m[j].pending = l[j].pending
    BY <1>1, <1>2, <1>3, KindOf
  <1> QED
    BY <1>1, <1>3, <1>4

\* ... and that has become active ...
LEMMA ActivatedOf ==
    ASSUME NEW l \in [Lchans -> Lchan], NEW k, k = Activated(l)
    PROVE  /\ k[0].state = "ACTIVE" /\ k[0].type = l[0].type /\ k[0].pending = l[0].pending
           /\ k[1] = l[1]
  <1>1. 0 \in Lchans /\ 1 \in Lchans
    BY DEF Lchans
  <1>2. PICK m : m = ByPcu(l)
    OBVIOUS
  <1>3. /\ m \in [Lchans -> Lchan] /\ m[1] = l[1]
        /\ \A j \in Lchans : /\ m[j].state = l[j].state /\ m[j].type = l[j].type
                             /\ m[j].pending = l[j].pending
    BY <1>2, ByPcuOf
  <1>4. PICK c, a : c = m[0] /\ a = Active(c)
    OBVIOUS
  <1>5. c \in Lchan
    BY <1>1, <1>3, <1>4
  <1>6. a.state = "ACTIVE" /\ a.type = c.type /\ a.pending = c.pending
    BY <1>4, <1>5, CellsOf
  <1>7. k = [m EXCEPT ![0] = a]
    BY <1>2, <1>4 DEF Activated, With
  <1>8. k[0] = a /\ k[1] = m[1]
    BY <1>1, <1>3, <1>7
  <1> QED
    BY <1>1, <1>3, <1>4, <1>6, <1>8

\* ... or inactive.
LEMMA DeactivatedOf ==
    ASSUME NEW l \in [Lchans -> Lchan], NEW k, k = Deactivated(l)
    PROVE  /\ k \in [Lchans -> Lchan] /\ k[0].state = "NONE" /\ k[0].type = l[0].type
           /\ k[0].pending = NoActivation /\ k[1] = l[1]
  <1>1. 0 \in Lchans /\ 1 \in Lchans
    BY DEF Lchans
  <1>2. PICK m : m = ByPcu(l)
    OBVIOUS
  <1>3. /\ m \in [Lchans -> Lchan] /\ m[1] = l[1]
        /\ \A j \in Lchans : m[j].type = l[j].type
    BY <1>2, ByPcuOf
  <1>4. PICK c, a : c = m[0] /\ a = Inactive(c)
    OBVIOUS
  <1>5. c \in Lchan
    BY <1>1, <1>3, <1>4
  <1>6. a \in Lchan /\ a.state = "NONE" /\ a.type = c.type /\ a.pending = NoActivation
    BY <1>4, <1>5, CellsOf
  <1>7. k = [m EXCEPT ![0] = a]
    BY <1>2, <1>4 DEF Deactivated, With
  <1>8. k[0] = a /\ k[1] = m[1] /\ k \in [Lchans -> Lchan]
    BY <1>1, <1>3, <1>6, <1>7
  <1> QED
    BY <1>1, <1>3, <1>4, <1>6, <1>8

\* A timeslot that the PCU is to have, or has an active channel of, is one for packet data.
LEMMA PdchTyped ==
    ASSUME DynIInv, Calm(odd)
    PROVE  /\ Wanted(ts) => lchan[0].type = "PDTCH"
           /\ PdchUp(lchan) /\ ts.pchan = "OSMO_DYN" => ts.is = "PDCH"
  <1>1. Phase(ts, lchan, slots, dev, bsc, pcu.up)
    BY AtState
  <1>2. 0 \in Lchans
    BY DEF Lchans
  <1>3. CASE Off(ts, lchan, slots, bsc)
    BY <1>2, <1>3 DEF Off, Wanted, Quiet, PdchUp
  <1>4. CASE OsmoPhase(ts, lchan, slots, dev, bsc, pcu.up)
    <2>1. Wanted(ts) => ts.is = "PDCH" /\ ts.want = "PDCH"
      BY <1>4 DEF OsmoPhase, Wanted, ts_should_be_pdch
    <2>2. CASE OsmoUnconnected(ts, lchan, slots, bsc) \/ OsmoSwitching(ts, lchan, slots, bsc)
      BY <1>2, <2>1, <2>2 DEF OsmoUnconnected, OsmoSwitching, Quiet, PdchUp, None
    <2>3. CASE OsmoConnected(ts, lchan, slots, dev, bsc)
      BY <1>2, <2>1, <2>3 DEF OsmoConnected, Typed, TypeFor, PdchUp
    <2>4. CASE OsmoPdch(ts, lchan, slots, dev, bsc, pcu.up)
      BY <1>2, <2>4 DEF OsmoPdch, Typed, TypeFor
    <2>5. CASE OsmoReleasing(ts, lchan, slots, dev, bsc)
      BY <1>2, <2>5 DEF OsmoReleasing, Typed, TypeFor
    <2> QED
      BY <1>4, <2>2, <2>3, <2>4, <2>5 DEF OsmoPhase
  <1>5. CASE IpPhase(ts, lchan, slots, dev, bsc, pcu.up)
    <2>1. Wanted(ts) => IF ts.active THEN ~ts.deactPend ELSE ts.actPend
      BY <1>5 DEF IpPhase, Wanted, ts_should_be_pdch
    <2>2. ts.pchan # "OSMO_DYN"
      BY <1>5 DEF IpPhase
    <2> QED
      BY <1>2, <1>5, <2>1, <2>2 DEF IpPhase, IpVoice, NoFlags, IpActivating, IpPdch,
                                    IpDeactivating, Typed, TypeFor
  <1> QED
    BY <1>1, <1>3, <1>4, <1>5 DEF Phase

\* The PCU asks for what the BSC uses, and not while SETSLOT is under way.
LEMMA ReqCalm ==
    ASSUME Calm(odd), Calm(ReqOdd)
    PROVE  /\ ReqOdd = odd /\ bsc[0].use # None /\ (ts.pchan = "TCH_F_PDCH" => slots = <<>>)
           /\ ~SwitchPending(ts, slots)
  <1>1. bsc[0].use # None
    BY DEF ReqOdd, Calm
  <1>2. ts.pchan = "TCH_F_PDCH" => slots = <<>>
    BY DEF ReqOdd, Calm
  <1> QED
    BY <1>1, <1>2 DEF ReqOdd, SwitchPending

\* An ACT.req that does not do anything.
LEMMA ReqNothing ==
    ASSUME DynIInv, Calm(odd), reqs # <<>>,
           \/ lchan[0].type # "PDTCH"
           \/ ts.pchan = "OSMO_DYN" /\ ts.is # "PDCH"
           \/ Head(reqs) /\ lchan[0].state = "ACTIVE"
           \/ ~Head(reqs) /\ lchan[0].state = "NONE",
           NEW r, r = Tail(reqs)
    PROVE  AtWorld(ReqWorld, dev, r, pcu)
  <1>1. PICK l, o : l = ByPcu(lchan) /\ o = ReqOdd
    OBVIOUS
  <1>2. ReqWorld = W(ts, l, slots, infos, bsc, crashed, o)
    BY <1>1 DEF ReqWorld, ByPcu
  <1>3. CASE ~Calm(o)
    BY <1>2, <1>3, AtIs DEF At
  <1>4. CASE Calm(o)
    <2>1. o = odd /\ ~SwitchPending(ts, slots)
      BY <1>1, <1>4, ReqCalm
    <2>2. /\ ~crashed /\ Phase(ts, lchan, slots, dev, bsc, pcu.up)
          /\ PcuPart(ts, lchan, slots, infos, bsc, odd, reqs, pcu) /\ reqs \in Seq(BOOLEAN)
      BY AtState
    <2>3. infos \in Seq(BOOLEAN) /\ lchan \in [Lchans -> Lchan]
      BY StateTypes DEF DynIInv
    <2>4. \A j \in Lchans : /\ l[j].state = lchan[j].state /\ l[j].type = lchan[j].type
                            /\ l[j].pending = lchan[j].pending
      BY <1>1, <2>3, ByPcuOf
    <2>5. Phase(ts, l, slots, dev, bsc, pcu.up) /\ (PdchUp(l) <=> PdchUp(lchan))
      BY <2>2, <2>4, PhaseSame
    <2>6. (PdchUp(lchan) <=> Head(reqs)) \/ (Head(reqs) /\ ~Wanted(ts))
      <3>1. CASE lchan[0].type # "PDTCH"
        BY <3>1, PdchTyped DEF PdchUp
      <3>2. CASE ts.pchan = "OSMO_DYN" /\ ts.is # "PDCH"
        BY <3>2, PdchTyped DEF Wanted, ts_should_be_pdch
      <3>3. CASE Head(reqs) /\ lchan[0].state = "ACTIVE" /\ lchan[0].type = "PDTCH"
        BY <3>3 DEF PdchUp
      <3>4. CASE ~Head(reqs) /\ lchan[0].state = "NONE"
        BY <3>4 DEF PdchUp
      <3> QED
        BY <3>1, <3>2, <3>3, <3>4
    <2>7. PcuPart(ts, l, slots, infos, bsc, o, r, pcu)
      BY <2>1, <2>2, <2>3, <2>5, <2>6, PcuRequestTaken
    <2> QED
      BY <1>2, <2>1, <2>2, <2>5, <2>7, AtIs DEF At
  <1> QED
    BY <1>3, <1>4

\* The packet channel becomes active; with PDCH ACT, that is what the BSC has waited for.
PcuActivates ==
    /\ reqs # <<>> /\ Head(reqs) /\ lchan[0].state # "ACTIVE"
    /\ lchan[0].type = "PDTCH" /\ (ts.pchan = "OSMO_DYN" => ts.is = "PDCH")

\* That leads from one phase to another.
LEMMA ReqActivates ==
    ASSUME DynIInv, Calm(odd), PcuActivates,
           NEW w, w = l1sap_chan_act(ReqWorld, 0), NEW r, r = Tail(reqs)
    PROVE  AtWorld(w, dev, r, pcu)
  <1>1. PICK m, k, o : m = ByPcu(lchan) /\ k = Activated(lchan) /\ o = ReqOdd
    OBVIOUS
  <1>2. /\ ts \in Timeslots /\ lchan \in [Lchans -> Lchan] /\ bsc \in [Lchans -> Requests]
        /\ infos \in Seq(BOOLEAN) /\ 0 \in Lchans /\ 1 \in Lchans
    BY StateTypes DEF DynIInv, Lchans
  <1>3. /\ m \in [Lchans -> Lchan] /\ m[0].kind = "PCU" /\ m[0].state # "ACTIVE"
        /\ k[0].state = "ACTIVE" /\ k[0].type = "PDTCH" /\ k[0].pending = lchan[0].pending
        /\ k[1] = lchan[1] /\ k = With(m, 0, Active(m[0])) /\ lchan[0].type = "PDTCH"
    <2>1. m \in [Lchans -> Lchan] /\ m[0].kind = "PCU" /\ m[0].state # "ACTIVE"
      BY <1>1, <1>2, ByPcuOf DEF PcuActivates
    <2>2. /\ k[0].state = "ACTIVE" /\ k[0].type = lchan[0].type
          /\ k[0].pending = lchan[0].pending /\ k[1] = lchan[1]
      BY <1>1, <1>2, ActivatedOf
    <2> QED
      BY <1>1, <2>1, <2>2 DEF Activated, PcuActivates
  <1>4. /\ ~crashed /\ Phase(ts, lchan, slots, dev, bsc, pcu.up)
        /\ PcuPart(ts, lchan, slots, infos, bsc, odd, reqs, pcu) /\ reqs \in Seq(BOOLEAN)
    BY AtState
  <1>5. pcu.up /\ ts.enabled
    <2>1. reqs # <<>> /\ Head(reqs)
      BY DEF PcuActivates
    <2>2. Has(reqs)
      BY <1>4, <2>1, SeqTail
    <2> QED
      BY <1>4, <2>1, <2>2 DEF PcuPart, GoneOf, QuietOf
  <1>6. lchan[0].state = "NONE"
    BY <1>2 DEF Lchan, PcuActivates
  <1>7. w = IF ts.pchan = "TCH_F_PDCH" /\ ts.actPend
            THEN ipacc_dyn_pdch_complete(W(ts, k, slots, infos, bsc, crashed, o))
            ELSE W(ts, k, slots, infos, bsc, crashed, o)
    <2>1. ReqWorld = W(ts, m, slots, infos, bsc, crashed, o)
      BY <1>1 DEF ReqWorld, ByPcu
    <2> QED
      BY <1>2, <1>3, <2>1, ChanActOfPcu
  <1>8. PdchUp(k) /\ Only0("PDCH", k, bsc) = Only0("PDCH", lchan, bsc)
    BY <1>3 DEF PdchUp, Only0
  <1>9. CASE ~(ts.pchan = "TCH_F_PDCH" /\ ts.actPend)
    <2>1. w = W(ts, k, slots, infos, bsc, crashed, o)
      BY <1>7, <1>9
    <2>2. CASE ~Calm(o)
      BY <2>1, <2>2, AtIs DEF At
    <2>3. CASE Calm(o)
      <3>1. o = odd /\ ~SwitchPending(ts, slots) /\ bsc[0].use # None
        BY <1>1, <2>3, ReqCalm
      <3>2. Typed(k, "PDCH") <=> Typed(lchan, "PDCH")
        BY <1>3 DEF Typed, Lchans
      <3>3. NonePending(k) <=> NonePending(lchan)
        BY <1>3 DEF NonePending, Lchans
      <3>4. ASSUME OsmoPhase(ts, lchan, slots, dev, bsc, pcu.up)
            PROVE  Phase(ts, k, slots, dev, bsc, pcu.up)
        <4>1. OsmoPdch(ts, lchan, slots, dev, bsc, pcu.up)
          BY <1>6, <3>4 DEF OsmoPhase, OsmoUnconnected, OsmoSwitching, OsmoConnected,
                            OsmoReleasing, None, PcuActivates
        <4>2. bsc[0] # Nothing
          BY <3>1 DEF Nothing, Answer
        <4>3. OsmoPdch(ts, k, slots, dev, bsc, pcu.up)
          BY <1>5, <1>8, <3>2, <3>3, <4>1, <4>2 DEF OsmoPdch
        <4> QED
          BY <3>4, <4>3 DEF Phase, OsmoPhase
      <3>5. ASSUME IpPhase(ts, lchan, slots, dev, bsc, pcu.up)
            PROVE  Phase(ts, k, slots, dev, bsc, pcu.up)
        <4>1. Only0("TCH_F", k, bsc)
          BY <1>3, <3>5 DEF Only0, IpPhase
        <4>2. \/ IpPdch(ts, lchan, slots, dev, bsc, pcu.up)
              \/ IpDeactivating(ts, lchan, slots, dev, bsc)
          <5>1. ~IpVoice(ts, lchan, slots, dev, bsc)
            BY <1>2 DEF IpVoice, Typed, TypeFor, PcuActivates
          <5>2. ~IpActivating(ts, lchan, slots, dev, bsc)
            BY <1>9, <3>5 DEF IpPhase, IpActivating
          <5> QED
            BY <3>5, <5>1, <5>2 DEF IpPhase
        <4>3. \/ IpPdch(ts, k, slots, dev, bsc, pcu.up)
              \/ IpDeactivating(ts, k, slots, dev, bsc)
          <5>1. CASE IpPdch(ts, lchan, slots, dev, bsc, pcu.up)
            BY <1>5, <3>2, <5>1 DEF IpPdch
          <5>2. CASE IpDeactivating(ts, lchan, slots, dev, bsc)
            <6>1. ~Typed(lchan, "TCH_F")
              BY <1>2 DEF Typed, TypeFor, PcuActivates
            <6> QED
              BY <3>2, <5>2, <6>1 DEF IpDeactivating
          <5> QED
            BY <4>2, <5>1, <5>2
        <4> QED
          BY <3>3, <3>5, <4>1, <4>3 DEF Phase, IpPhase
      <3>6. Phase(ts, k, slots, dev, bsc, pcu.up)
        BY <1>4, <1>5, <3>4, <3>5 DEF Phase, Off
      <3>7. PcuPart(ts, k, slots, infos, bsc, o, r, pcu)
        BY <1>2, <1>4, <1>8, <3>1, PcuRequestTaken DEF PcuActivates
      <3> QED
        BY <1>4, <2>1, <3>1, <3>6, <3>7, AtIs DEF At
    <2> QED
      BY <2>2, <2>3
  <1>10. CASE ts.pchan = "TCH_F_PDCH" /\ ts.actPend
    <2>1. IpPhase(ts, lchan, slots, dev, bsc, pcu.up) /\ IpActivating(ts, lchan, slots, dev, bsc)
      BY <1>10, AtState DEF IpPhase, IpVoice, NoFlags, IpPdch, IpDeactivating
    <2>2. PICK t, b, u : t = Completed(ts) /\ b = With(bsc, 0, Answer(u)) /\ u = "PDCH"
      OBVIOUS
    <2>3. bsc[0].wait = "act" /\ bsc[0].use = u
      BY <2>1, <2>2 DEF IpActivating, Waiting
    <2>4. w = W(t, k, slots, infos, b, crashed, o)
      BY <1>2, <1>7, <1>10, <2>2, <2>3, CompleteIs
    <2>5. CASE ~Calm(o)
      BY <2>4, <2>5, AtIs DEF At
    <2>6. CASE Calm(o)
      <3>1. o = odd /\ ~SwitchPending(ts, slots) /\ slots = <<>>
        BY <1>1, <1>10, <2>6, ReqCalm
      <3>2. /\ t.pchan = "TCH_F_PDCH" /\ t.enabled = ts.enabled /\ t.is = ts.is
            /\ t.want = ts.want /\ t.active /\ ~t.actPend /\ ~t.deactPend
        BY <1>2, <1>10, <2>2, CompletedOf
      <3>3. b[0] = Using("PDCH") /\ b[1] = bsc[1]
        BY <1>2, <2>2 DEF With, Using
      <3>4. IpPdch(t, k, slots, dev, b, pcu.up)
        <4>1. Typed(k, "PDCH")
          BY <1>3, <2>1 DEF IpActivating, Typed, Lchans
        <4> QED
          BY <1>5, <2>1, <3>1, <3>2, <3>3, <4>1 DEF IpActivating, IpPdch
      <3>5. NonePending(k) /\ Only0("TCH_F", k, b)
        BY <1>3, <2>1, <3>3 DEF IpPhase, NonePending, Only0, Lchans
      <3>6. Phase(t, k, slots, dev, b, pcu.up)
        BY <1>5, <2>1, <3>2, <3>4, <3>5 DEF Phase, IpPhase
      <3>7. Wanted(ts) /\ Wanted(t)
        BY <1>5, <1>10, <2>1, <3>2 DEF Wanted, ts_should_be_pdch, IpActivating
      <3>8. PcuPart(t, k, slots, infos, b, o, r, pcu)
        BY <1>2, <1>4, <1>8, <3>1, <3>2, <3>7, PcuRequestTaken DEF PcuActivates
      <3> QED
        BY <1>4, <2>4, <3>1, <3>6, <3>8, AtIs DEF At
    <2> QED
      BY <2>5, <2>6
  <1> QED
    BY <1>9, <1>10

\* The packet channel becomes inactive: an OSMO_DYN timeslot that the BSC wants back is
\* unconnected, an ip.access one is switched back.
PcuDeactivates ==
    /\ reqs # <<>> /\ ~Head(reqs) /\ lchan[0].state # "NONE"
    /\ lchan[0].type = "PDTCH" /\ (ts.pchan = "OSMO_DYN" => ts.is = "PDCH")
\* An OSMO_DYN timeslot is nothing.
Unconnected(t) == [t EXCEPT !.is = None]

\* The timeslot is nothing, and everything else of it is as it was.
LEMMA UnconnectedOf ==
    ASSUME NEW t \in Timeslots, NEW u, u = Unconnected(t)
    PROVE  /\ u.is = None /\ u.want = t.want /\ u.pchan = t.pchan
           /\ u.enabled = t.enabled /\ u.active = t.active /\ u.actPend = t.actPend
           /\ u.deactPend = t.deactPend
  BY DEF Unconnected, Timeslots

\* What an OSMO_DYN timeslot is that the PCU has an active channel of.
LEMMA OsmoUp ==
    ASSUME DynIInv, Calm(odd), ts.pchan = "OSMO_DYN", lchan[0].state # "NONE", ts.is = "PDCH"
    PROVE  /\ ts.enabled /\ NoFlags(ts)
           /\ \/ ts.want = "PDCH" /\ OsmoPdch(ts, lchan, slots, dev, bsc, pcu.up)
              \/ ts.want = None /\ OsmoReleasing(ts, lchan, slots, dev, bsc)
  BY AtState DEF OsmoPhase, OsmoUnconnected, OsmoSwitching, OsmoConnected, OsmoPdch,
                 OsmoReleasing, None

\* ... and an ip.access one.
LEMMA IpUp ==
    ASSUME DynIInv, Calm(odd), ts.pchan = "TCH_F_PDCH", lchan[0].state # "NONE",
           lchan[0].type = "PDTCH"
    PROVE  /\ IpPhase(ts, lchan, slots, dev, bsc, pcu.up)
           /\ \/ IpPdch(ts, lchan, slots, dev, bsc, pcu.up)
              \/ IpDeactivating(ts, lchan, slots, dev, bsc) /\ slots = <<>> /\ Typed(lchan, "PDCH")
  <1>1. IpPhase(ts, lchan, slots, dev, bsc, pcu.up) /\ 0 \in Lchans
    BY AtState DEF Lchans
  <1>2. ~IpVoice(ts, lchan, slots, dev, bsc)
    BY <1>1 DEF IpVoice, Typed, TypeFor
  <1>3. ~IpActivating(ts, lchan, slots, dev, bsc)
    BY <1>1 DEF IpActivating, Quiet
  <1>4. IpDeactivating(ts, lchan, slots, dev, bsc) => slots = <<>> /\ Typed(lchan, "PDCH")
    BY <1>1 DEF IpDeactivating, Quiet
  <1> QED
    BY <1>1, <1>2, <1>3, <1>4 DEF IpPhase

\* That leads from one phase to another with OSMO_DYN, ...
LEMMA ReqReleasesOsmo ==
    ASSUME DynIInv, Calm(odd), PcuDeactivates, ts.pchan = "OSMO_DYN",
           NEW w, w = l1sap_chan_rel(ReqWorld, 0), NEW r, r = Tail(reqs)
    PROVE  AtWorld(w, dev, r, pcu)
  <1>1. PICK m, n, o : m = ByPcu(lchan) /\ n = Deactivated(lchan) /\ o = ReqOdd
    OBVIOUS
  <1>2. /\ ts \in Timeslots /\ lchan \in [Lchans -> Lchan] /\ bsc \in [Lchans -> Requests]
        /\ infos \in Seq(BOOLEAN) /\ 0 \in Lchans /\ 1 \in Lchans
    BY StateTypes DEF DynIInv, Lchans
  <1>3. /\ m \in [Lchans -> Lchan] /\ m[0].kind = "PCU" /\ m[0].state # "NONE"
        /\ n = With(m, 0, Inactive(m[0]))
    <2>1. m \in [Lchans -> Lchan] /\ m[0].kind = "PCU" /\ m[0].state # "NONE"
      BY <1>1, <1>2, ByPcuOf DEF PcuDeactivates
    <2> QED
      BY <1>1, <2>1 DEF Deactivated
  <1>4. /\ n[0].state = "NONE" /\ n[0].type = lchan[0].type /\ n[0].pending = NoActivation
        /\ n[1] = lchan[1]
    BY <1>1, <1>2, DeactivatedOf
  <1>5. ReqWorld = W(ts, m, slots, infos, bsc, crashed, o)
    BY <1>1 DEF ReqWorld, ByPcu
  <1>6. ~crashed /\ PcuPart(ts, lchan, slots, infos, bsc, odd, reqs, pcu) /\ reqs \in Seq(BOOLEAN)
    BY AtState
  <1>7. /\ ts.enabled /\ NoFlags(ts) /\ ts.is = "PDCH"
        /\ \/ ts.want = "PDCH" /\ OsmoPdch(ts, lchan, slots, dev, bsc, pcu.up)
           \/ ts.want = None /\ OsmoReleasing(ts, lchan, slots, dev, bsc)
    BY OsmoUp DEF PcuDeactivates
  <1>8. /\ ~PdchUp(n) /\ reqs # <<>> /\ ~Head(reqs)
        /\ NonePending(lchan) => NonePending(n)
        /\ Typed(lchan, "PDCH") => Typed(n, "PDCH")
    BY <1>4 DEF PdchUp, NonePending, Typed, PcuDeactivates, Lchans
  <1>9. CASE ts.want = "PDCH" /\ OsmoPdch(ts, lchan, slots, dev, bsc, pcu.up)
    <2>1. w = W(ts, n, slots, infos, bsc, crashed, o)
      BY <1>2, <1>3, <1>5, <1>9, ChanRelOfPcu
    <2>2. CASE ~Calm(o)
      BY <2>1, <2>2, AtIs DEF At
    <2>3. CASE Calm(o)
      <3>1. o = odd /\ ~SwitchPending(ts, slots)
        BY <1>1, <2>3, ReqCalm
      <3>2. OsmoPdch(ts, n, slots, dev, bsc, pcu.up)
        BY <1>4, <1>8, <1>9 DEF OsmoPdch, Only0
      <3>3. Phase(ts, n, slots, dev, bsc, pcu.up)
        BY <1>7, <3>2 DEF Phase, OsmoPhase
      <3>4. PcuPart(ts, n, slots, infos, bsc, o, r, pcu)
        BY <1>2, <1>6, <1>8, <3>1, PcuRequestTaken
      <3> QED
        BY <1>6, <2>1, <3>1, <3>3, <3>4, AtIs DEF At
    <2> QED
      BY <2>2, <2>3
  <1>10. CASE ts.want = None /\ OsmoReleasing(ts, lchan, slots, dev, bsc)
    <2>1. PICK t, b : t = Unconnected(ts) /\ b = With(bsc, 0, Answer(None))
      OBVIOUS
    <2>2. bsc[0].wait = "rel" /\ ts.want # "PDCH" /\ ts.is # None
      BY <1>7, <1>10 DEF OsmoReleasing, Leaving, None
    <2>3. w = W(t, n, slots, infos, b, crashed, o)
      BY <1>2, <1>3, <1>5, <2>1, <2>2, ChanRelWanted DEF Unconnected
    <2>4. CASE ~Calm(o)
      BY <2>3, <2>4, AtIs DEF At
    <2>5. CASE Calm(o)
      <3>1. o = odd /\ ~SwitchPending(ts, slots)
        BY <1>1, <2>5, ReqCalm
      <3>2. t.is = None /\ t.want = None /\ t.pchan = "OSMO_DYN" /\ t.enabled /\ NoFlags(t)
        BY <1>2, <1>7, <1>10, <2>1, UnconnectedOf DEF NoFlags
      <3>3. b[0] = Nothing /\ b[1] = bsc[1]
        BY <1>2, <2>1 DEF With, Nothing
      <3>4. OsmoUnconnected(t, n, slots, b)
        <4>1. lchan[1].state = "NONE" /\ bsc[1] = Nothing /\ NonePending(n) /\ slots = <<>>
          BY <1>8, <1>10 DEF OsmoReleasing, Only0
        <4>2. Quiet(n) /\ Unused(b)
          BY <1>4, <3>3, <4>1 DEF Quiet, Unused, Lchans
        <4> QED
          BY <3>2, <4>1, <4>2 DEF OsmoUnconnected
      <3>5. Phase(t, n, slots, dev, b, pcu.up)
        BY <3>2, <3>4 DEF Phase, OsmoPhase
      <3>6. ~Wanted(ts) /\ ~Wanted(t)
        BY <1>10, <3>2 DEF Wanted, ts_should_be_pdch, None
      <3>7. PcuPart(t, n, slots, infos, b, o, r, pcu)
        BY <1>2, <1>6, <1>7, <1>8, <3>1, <3>2, <3>6, PcuRequestTaken
      <3> QED
        BY <1>6, <2>3, <3>1, <3>5, <3>7, AtIs DEF At
    <2> QED
      BY <2>4, <2>5
  <1> QED
    BY <1>7, <1>9, <1>10

\* ... and with an ip.access timeslot.
LEMMA ReqReleasesIp ==
    ASSUME DynIInv, Calm(odd), PcuDeactivates, ts.pchan = "TCH_F_PDCH",
           NEW w, w = l1sap_chan_rel(ReqWorld, 0), NEW r, r = Tail(reqs)
    PROVE  AtWorld(w, dev, r, pcu)
  <1>1. PICK m, n, o : m = ByPcu(lchan) /\ n = Deactivated(lchan) /\ o = ReqOdd
    OBVIOUS
  <1>2. /\ ts \in Timeslots /\ lchan \in [Lchans -> Lchan] /\ bsc \in [Lchans -> Requests]
        /\ infos \in Seq(BOOLEAN) /\ 0 \in Lchans /\ 1 \in Lchans
    BY StateTypes DEF DynIInv, Lchans
  <1>3. /\ m \in [Lchans -> Lchan] /\ m[0].kind = "PCU" /\ m[0].state # "NONE"
        /\ n = With(m, 0, Inactive(m[0]))
    <2>1. m \in [Lchans -> Lchan] /\ m[0].kind = "PCU" /\ m[0].state # "NONE"
      BY <1>1, <1>2, ByPcuOf DEF PcuDeactivates
    <2> QED
      BY <1>1, <2>1 DEF Deactivated
  <1>4. /\ n \in [Lchans -> Lchan] /\ n[0].state = "NONE" /\ n[0].type = lchan[0].type
        /\ n[0].pending = NoActivation /\ n[1] = lchan[1]
    BY <1>1, <1>2, DeactivatedOf
  <1>5. ReqWorld = W(ts, m, slots, infos, bsc, crashed, o)
    BY <1>1 DEF ReqWorld, ByPcu
  <1>6. ~crashed /\ PcuPart(ts, lchan, slots, infos, bsc, odd, reqs, pcu) /\ reqs \in Seq(BOOLEAN)
    BY AtState
  <1>7. /\ IpPhase(ts, lchan, slots, dev, bsc, pcu.up)
        /\ \/ IpPdch(ts, lchan, slots, dev, bsc, pcu.up)
           \/ IpDeactivating(ts, lchan, slots, dev, bsc) /\ slots = <<>> /\ Typed(lchan, "PDCH")
    BY IpUp DEF PcuDeactivates
  <1>8. /\ ~PdchUp(n) /\ reqs # <<>> /\ ~Head(reqs) /\ NonePending(n)
        /\ Typed(lchan, "PDCH") => Typed(n, "PDCH")
    BY <1>4, <1>7 DEF PdchUp, NonePending, Typed, PcuDeactivates, Lchans, IpPhase
  <1>9. w = IF ts.deactPend THEN cb_ts_disconnected(W(ts, n, slots, infos, bsc, crashed, o))
            ELSE W(ts, n, slots, infos, bsc, crashed, o)
    BY <1>2, <1>3, <1>5, ChanRelOfPcu
  <1>10. CASE IpPdch(ts, lchan, slots, dev, bsc, pcu.up)
    <2>1. w = W(ts, n, slots, infos, bsc, crashed, o)
      BY <1>9, <1>10 DEF IpPdch
    <2>2. CASE ~Calm(o)
      BY <2>1, <2>2, AtIs DEF At
    <2>3. CASE Calm(o)
      <3>1. o = odd /\ ~SwitchPending(ts, slots)
        BY <1>1, <2>3, ReqCalm
      <3>2. IpPdch(ts, n, slots, dev, bsc, pcu.up)
        BY <1>4, <1>8, <1>10 DEF IpPdch
      <3>3. Only0("TCH_F", n, bsc)
        BY <1>4, <1>7 DEF IpPhase, Only0
      <3>4. Phase(ts, n, slots, dev, bsc, pcu.up)
        BY <1>7, <1>8, <3>2, <3>3 DEF Phase, IpPhase
      <3>5. PcuPart(ts, n, slots, infos, bsc, o, r, pcu)
        BY <1>2, <1>6, <1>8, <3>1, PcuRequestTaken
      <3> QED
        BY <1>6, <2>1, <3>1, <3>4, <3>5, AtIs DEF At
    <2> QED
      BY <2>2, <2>3
  <1>11. CASE IpDeactivating(ts, lchan, slots, dev, bsc) /\ slots = <<>> /\ Typed(lchan, "PDCH")
    <2>1. ts.deactPend /\ ~ts.actPend /\ ts.active /\ dev = "PDCH" /\ bsc[0] = Leaving("PDCH")
      BY <1>11 DEF IpDeactivating
    <2>2. PICK l, s : l = Conf(n, "TCH_F") /\ s = Connect(slots, "TCH_F")
      OBVIOUS
    <2>3. w = W(ts, l, s, infos, bsc, crashed, o)
      BY <1>9, <2>1, <2>2, IpDisconnectedIs
    <2>4. CASE ~Calm(o)
      BY <2>3, <2>4, AtIs DEF At
    <2>5. CASE Calm(o)
      <3>1. o = odd /\ ~SwitchPending(ts, slots)
        BY <1>1, <2>5, ReqCalm
      <3>2. s = <<"TCH_F">>
        BY <1>11, <2>2 DEF Connect
      <3>3. \A j \in Lchans : /\ l[j].type = TypeFor("TCH_F", j) /\ l[j].state = n[j].state
                              /\ l[j].pending = n[j].pending
        BY <1>4, <2>2, ConfOf
      <3>4. Only0("TCH_F", l, bsc) /\ NonePending(l) /\ Quiet(l) /\ Typed(l, "TCH_F")
        <4>1. n[1].state = "NONE" /\ n[1].pending = NoActivation /\ bsc[1] = Nothing
          BY <1>4, <1>7 DEF IpPhase, Only0
        <4> QED
          BY <1>2, <1>4, <3>3, <4>1 DEF Only0, NonePending, Quiet, Typed, Lchans
      <3>5. IpDeactivating(ts, l, s, dev, bsc)
        BY <2>1, <3>2, <3>4 DEF IpDeactivating
      <3>6. Phase(ts, l, s, dev, bsc, pcu.up)
        BY <1>7, <3>4, <3>5 DEF Phase, IpPhase
      <3>7. ~PdchUp(l)
        BY <1>2, <3>4 DEF Quiet, PdchUp
      <3>8. PcuPart(ts, l, s, infos, bsc, o, r, pcu)
        BY <1>2, <1>6, <1>8, <3>1, <3>7, PcuRequestTaken
      <3> QED
        BY <1>6, <2>3, <3>1, <3>6, <3>8, AtIs DEF At
    <2> QED
      BY <2>4, <2>5
  <1> QED
    BY <1>7, <1>10, <1>11

\* ACT.req leads from one phase to another.
LEMMA ActReqKeeps ==
    ASSUME DynIInv, Calm(odd), pcu_rx_act_req
    PROVE  At(ts, lchan, slots, infos, bsc, crashed, odd, dev, reqs, pcu)'
  <1>1. PICK w, r : /\ w = IF lchan[0].type # "PDTCH" \/ (ts.pchan = "OSMO_DYN" /\ ts.is # "PDCH")
                          THEN ReqWorld
                          ELSE IF Head(reqs) THEN l1sap_chan_act(ReqWorld, 0)
                          ELSE l1sap_chan_rel(ReqWorld, 0)
                    /\ r = Tail(reqs)
    OBVIOUS
  <1>2. Become(w)
    BY <1>1, ActReqIs DEF DynIInv
  <1>3. reqs # <<>> /\ reqs' = r /\ UNCHANGED <<dev, pcu>>
    BY <1>1 DEF pcu_rx_act_req
  <1>4. PICK m, o : m = ByPcu(lchan) /\ o = ReqOdd
    OBVIOUS
  <1>5. ReqWorld = W(ts, m, slots, infos, bsc, crashed, o)
    BY <1>4 DEF ReqWorld, ByPcu
  <1>6. lchan \in [Lchans -> Lchan] /\ 0 \in Lchans
    BY StateTypes DEF DynIInv, Lchans
  <1>7. m[0].kind = "PCU" /\ m[0].state = lchan[0].state /\ lchan[0].state \in {"NONE", "ACTIVE"}
    <2>1. lchan[0] \in Lchan
      BY <1>6
    <2>2. m[0].kind = "PCU" /\ m[0].state = lchan[0].state
      BY <1>4, <1>6, ByPcuOf
    <2> QED
      BY <2>1, <2>2 DEF Lchan
  <1>8. ts.pchan = "OSMO_DYN" \/ ts.pchan = "TCH_F_PDCH" \/ lchan[0].state = "NONE"
    BY <1>6, AtState DEF Off, Quiet
  <1>9. AtWorld(w, dev, r, pcu)
    <2>1. CASE lchan[0].type # "PDTCH" \/ (ts.pchan = "OSMO_DYN" /\ ts.is # "PDCH")
      BY <1>1, <1>3, <2>1, ReqNothing
    <2>2. CASE ~(lchan[0].type # "PDTCH" \/ (ts.pchan = "OSMO_DYN" /\ ts.is # "PDCH"))
      <3>1. CASE Head(reqs) /\ lchan[0].state = "ACTIVE"
        <4>1. w = l1sap_chan_act(ReqWorld, 0)
          BY <1>1, <2>2, <3>1
        <4>2. l1sap_chan_act(W(ts, m, slots, infos, bsc, crashed, o), 0) =
                W(ts, m, slots, infos, bsc, crashed, o)
          BY <1>7, <3>1, ChanActAgain
        <4> QED
          BY <1>1, <1>3, <1>5, <3>1, <4>1, <4>2, ReqNothing
      <3>2. CASE ~Head(reqs) /\ lchan[0].state = "NONE"
        <4>1. w = l1sap_chan_rel(ReqWorld, 0)
          BY <1>1, <2>2, <3>2
        <4>2. l1sap_chan_rel(W(ts, m, slots, infos, bsc, crashed, o), 0) =
                W(ts, m, slots, infos, bsc, crashed, o)
          BY <1>7, <3>2, ChanRelNothing
        <4> QED
          BY <1>1, <1>3, <1>5, <3>2, <4>1, <4>2, ReqNothing
      <3>3. CASE Head(reqs) /\ lchan[0].state = "NONE"
        <4>1. PcuActivates
          BY <1>3, <2>2, <3>3 DEF PcuActivates
        <4>2. w = l1sap_chan_act(ReqWorld, 0)
          BY <1>1, <2>2, <3>3
        <4> QED
          BY <1>1, <4>1, <4>2, ReqActivates
      <3>4. CASE ~Head(reqs) /\ lchan[0].state = "ACTIVE"
        <4>1. PcuDeactivates
          BY <1>3, <2>2, <3>4 DEF PcuDeactivates
        <4>2. w = l1sap_chan_rel(ReqWorld, 0)
          BY <1>1, <2>2, <3>4
        <4> QED
          BY <1>1, <1>8, <3>4, <4>1, <4>2, ReqReleasesOsmo, ReqReleasesIp
      <3> QED
        BY <1>7, <3>1, <3>2, <3>3, <3>4
    <2> QED
      BY <2>1, <2>2
  <1> QED
    BY <1>2, <1>3, <1>9, BecomeAt

-----------------------------------------------------------------------------
(* The PCU follows what it is told, comes and goes.                        *)

\* The PCU asks for what it was told last.
LEMMA PcuFollowsKeeps ==
    ASSUME DynIInv, Calm(odd), PcuFollows
    PROVE  At(ts, lchan, slots, infos, bsc, crashed, odd, dev, reqs, pcu)'
  <1>1. PICK h, f, r, p : h = Head(infos) /\ f = infos' /\ r = reqs' /\ p = pcu'
    OBVIOUS
  <1>2. /\ infos # <<>> /\ f = Tail(infos) /\ p = [pcu EXCEPT !.on = h]
        /\ r = IF pcu.on = h THEN reqs ELSE Append(reqs, h)
        /\ UNCHANGED <<ts, lchan, slots, dev, bsc, crashed, odd>>
    BY <1>1 DEF PcuFollows
  <1>3. /\ ~crashed /\ Phase(ts, lchan, slots, dev, bsc, pcu.up)
        /\ PcuPart(ts, lchan, slots, infos, bsc, odd, reqs, pcu)
        /\ pcu.on \in BOOLEAN /\ reqs \in Seq(BOOLEAN)
    BY AtState
  <1>4. infos \in Seq(BOOLEAN)
    BY StateTypes DEF DynIInv
  <1>5. p.up = pcu.up /\ p.on = h /\ pcu.up
    <2>1. pcu \in [up : BOOLEAN, on : BOOLEAN, died : 0 .. MaxLosses]
      BY DEF DynIInv, DynTypeOK
    <2>2. p.up = pcu.up /\ p.on = h
      BY <1>2, <2>1
    <2> QED
      BY <1>2, <1>3, <2>2 DEF PcuPart, GoneOf
  <1>6. /\ h \in BOOLEAN /\ (Has(f) => Has(infos)) /\ (h => Has(infos))
        /\ (HasNot(infos) => ~h \/ HasNot(f))
        /\ FinalOf(infos, pcu.on) = FinalOf(f, h)
    BY <1>1, <1>2, <1>4, SeqTail
  <1>7. /\ pcu.on # h => r # <<>> /\ Last(r) = h
        /\ pcu.on = h => r = reqs
        /\ Has(r) => Has(reqs) \/ h
    <2>1. CASE pcu.on = h
      BY <1>2, <2>1
    <2>2. CASE pcu.on # h
      <3>1. r = Append(reqs, h)
        BY <1>2, <2>2
      <3>2. r # <<>> /\ FinalOf(r, h) = h /\ (Has(r) => Has(reqs) \/ h)
        BY <1>3, <1>6, <3>1, SeqAppend
      <3>3. Last(r) = h
        BY <3>2 DEF FinalOf
      <3> QED
        BY <2>2, <3>2, <3>3
    <2> QED
      BY <2>1, <2>2
  <1>8. GoneOf(f, r, p) /\ QuietOf(ts, f, r) /\ ToldOf(ts, slots, f, odd, p)
    BY <1>3, <1>5, <1>6, <1>7 DEF PcuPart, GoneOf, QuietOf, ToldOf
  <1>9. DoneOf(lchan, f, bsc, odd, r, p)
    <2>1. CASE "untold" \in odd
      BY <2>1 DEF DoneOf
    <2>2. CASE "untold" \notin odd /\ pcu.on # h
      BY <1>5, <1>7, <2>2 DEF DoneOf
    <2>3. CASE "untold" \notin odd /\ pcu.on = h
      BY <1>3, <1>5, <1>6, <1>7, <2>3 DEF PcuPart, DoneOf
    <2> QED
      BY <2>1, <2>2, <2>3
  <1>10. At(ts, lchan, slots, f, bsc, crashed, odd, dev, r, p)
    BY <1>3, <1>5, <1>8, <1>9 DEF At, PcuPart
  <1> QED
    BY <1>1, <1>2, <1>10

\* What the PCU is told again.
LEMMA PcuRepeated ==
    ASSUME NEW t \in Timeslots, NEW l, NEW s, NEW f \in Seq(BOOLEAN), NEW b, NEW o, NEW r, NEW p,
           NEW p2, p.on \in BOOLEAN, p2.up, p2.on = p.on,
           PcuPart(t, l, s, f, b, o, r, p), NEW f2, f2 = Inform(f, t)
    PROVE  PcuPart(t, l, s, f2, b, o, r, p2)
  <1>1. PICK x \in BOOLEAN : x = Wanted(t)
    BY WantedType
  <1>2. f2 = Append(f, x)
    BY <1>1 DEF Inform
  <1>3. FinalOf(f2, p.on) = x /\ (HasNot(f) => HasNot(f2)) /\ (Has(f2) => Has(f) \/ x)
    BY <1>2, SeqAppend
  <1>4. GoneOf(f2, r, p2) /\ ToldOf(t, s, f2, o, p2)
    BY <1>1, <1>3 DEF GoneOf, ToldOf
  <1>5. QuietOf(t, f2, r)
    BY <1>1, <1>3 DEF PcuPart, QuietOf, Wanted
  <1>6. DoneOf(l, f2, b, o, r, p2)
    BY <1>3 DEF PcuPart, DoneOf
  <1> QED
    BY <1>4, <1>5, <1>6 DEF PcuPart

\* Telling it again changes nothing ...
LEMMA SignalKeeps ==
    ASSUME DynIInv, Calm(odd), pcu_if_signal_cb
    PROVE  At(ts, lchan, slots, infos, bsc, crashed, odd, dev, reqs, pcu)'
  <1>1. PICK w, f : w = pcu_tx_info_ind(Now) /\ f = Inform(infos, ts)
    OBVIOUS
  <1>2. pcu.up /\ Become(w) /\ UNCHANGED <<dev, reqs, pcu>>
    BY <1>1 DEF pcu_if_signal_cb
  <1>3. /\ ~crashed /\ Phase(ts, lchan, slots, dev, bsc, pcu.up)
        /\ PcuPart(ts, lchan, slots, infos, bsc, odd, reqs, pcu) /\ pcu.on \in BOOLEAN
    BY AtState
  <1>4. /\ Now = W(ts, lchan, slots, infos, bsc, crashed, odd)
        /\ ts \in Timeslots /\ infos \in Seq(BOOLEAN)
    BY StateTypes DEF DynIInv
  <1>5. w = W(ts, lchan, slots, f, bsc, crashed, odd)
    BY <1>1, <1>4, InfoIs
  <1>6. PICK p : p = pcu
    OBVIOUS
  <1>7. PcuPart(ts, lchan, slots, f, bsc, odd, reqs, p)
    BY <1>1, <1>2, <1>3, <1>4, <1>6, PcuRepeated
  <1>8. AtWorld(w, dev, reqs, pcu)
    BY <1>3, <1>5, <1>6, <1>7, AtIs DEF At
  <1> QED
    BY <1>2, <1>8, BecomeAt

\* ... and tells a PCU that is new what it is to know.
LEMMA AcceptKeeps ==
    ASSUME DynIInv, Calm(odd), pcu_sock_accept
    PROVE  At(ts, lchan, slots, infos, bsc, crashed, odd, dev, reqs, pcu)'
  <1>1. PICK w, f, p : w = pcu_tx_info_ind(Now) /\ f = Inform(infos, ts) /\ p = pcu'
    OBVIOUS
  <1>2. ~pcu.up /\ p = [pcu EXCEPT !.up = TRUE] /\ Become(w) /\ UNCHANGED <<dev, reqs>>
    BY <1>1 DEF pcu_sock_accept
  <1>3. /\ ~crashed /\ Phase(ts, lchan, slots, dev, bsc, pcu.up)
        /\ PcuPart(ts, lchan, slots, infos, bsc, odd, reqs, pcu) /\ pcu.on \in BOOLEAN
    BY AtState
  <1>4. /\ Now = W(ts, lchan, slots, infos, bsc, crashed, odd)
        /\ ts \in Timeslots /\ infos \in Seq(BOOLEAN)
    BY StateTypes DEF DynIInv
  <1>5. w = W(ts, lchan, slots, f, bsc, crashed, odd)
    BY <1>1, <1>4, InfoIs
  <1>6. p.up /\ p.on = pcu.on
    <2>1. pcu \in [up : BOOLEAN, on : BOOLEAN, died : 0 .. MaxLosses]
      BY DEF DynIInv, DynTypeOK
    <2> QED
      BY <1>2, <2>1
  <1>7. Phase(ts, lchan, slots, dev, bsc, p.up)
    <2>1. OsmoPdch(ts, lchan, slots, dev, bsc, pcu.up) => OsmoPdch(ts, lchan, slots, dev, bsc, p.up)
      BY <1>6 DEF OsmoPdch
    <2>2. IpPdch(ts, lchan, slots, dev, bsc, pcu.up) => IpPdch(ts, lchan, slots, dev, bsc, p.up)
      BY <1>6 DEF IpPdch
    <2> QED
      BY <1>3, <2>1, <2>2 DEF Phase, OsmoPhase, IpPhase
  <1>8. PcuPart(ts, lchan, slots, f, bsc, odd, reqs, p)
    BY <1>1, <1>3, <1>4, <1>6, PcuRepeated
  <1>9. AtWorld(w, dev, reqs, p)
    BY <1>3, <1>5, <1>7, <1>8, AtIs DEF At
  <1> QED
    BY <1>1, <1>2, <1>9, BecomeAt

\* Without a PCU, a packet channel is inactive, or the BSC waits for its release.
LEMMA Abandoned ==
    ASSUME DynIInv, Calm(odd), ~Wanted(ts) \/ lchan[0].state = "NONE"
    PROVE  Phase(ts, lchan, slots, dev, bsc, FALSE) /\ (PdchUp(lchan) => bsc[0].wait = "rel")
  <1>1. Phase(ts, lchan, slots, dev, bsc, pcu.up) /\ 0 \in Lchans
    BY AtState DEF Lchans
  <1>2. PICK no : no = FALSE
    OBVIOUS
  <1>3. CASE Off(ts, lchan, slots, bsc)
    BY <1>1, <1>3 DEF Phase, Off, Quiet, PdchUp
  <1>4. CASE OsmoPhase(ts, lchan, slots, dev, bsc, pcu.up)
    <2>1. CASE OsmoPdch(ts, lchan, slots, dev, bsc, pcu.up)
      <3>1. Wanted(ts)
        BY <1>4, <2>1 DEF OsmoPhase, OsmoPdch, Wanted, ts_should_be_pdch
      <3>2. lchan[0].state = "NONE"
        BY <3>1
      <3>3. OsmoPdch(ts, lchan, slots, dev, bsc, no) /\ ~PdchUp(lchan)
        BY <2>1, <3>2 DEF OsmoPdch, PdchUp
      <3> QED
        BY <1>2, <1>4, <3>3 DEF Phase, OsmoPhase
    <2>2. CASE OsmoUnconnected(ts, lchan, slots, bsc)
      <3>1. ~PdchUp(lchan)
        BY <1>1, <2>2 DEF OsmoUnconnected, Quiet, PdchUp
      <3> QED
        BY <1>4, <2>2, <3>1 DEF Phase, OsmoPhase
    <2>3. CASE OsmoSwitching(ts, lchan, slots, bsc)
      <3>1. ~PdchUp(lchan)
        BY <1>1, <2>3 DEF OsmoSwitching, Quiet, PdchUp
      <3> QED
        BY <1>4, <2>3, <3>1 DEF Phase, OsmoPhase
    <2>4. CASE OsmoConnected(ts, lchan, slots, dev, bsc)
      <3>1. ~PdchUp(lchan)
        BY <1>1, <2>4 DEF OsmoConnected, Typed, TypeFor, PdchUp
      <3> QED
        BY <1>4, <2>4, <3>1 DEF Phase, OsmoPhase
    <2>5. CASE OsmoReleasing(ts, lchan, slots, dev, bsc)
      <3>1. bsc[0].wait = "rel"
        BY <2>5 DEF OsmoReleasing, Leaving
      <3> QED
        BY <1>4, <2>5, <3>1 DEF Phase, OsmoPhase
    <2> QED
      BY <1>4, <2>1, <2>2, <2>3, <2>4, <2>5 DEF OsmoPhase
  <1>5. CASE IpPhase(ts, lchan, slots, dev, bsc, pcu.up)
    <2>1. CASE IpPdch(ts, lchan, slots, dev, bsc, pcu.up)
      <3>1. Wanted(ts)
        BY <1>5, <2>1 DEF IpPhase, IpPdch, Wanted, ts_should_be_pdch
      <3>2. lchan[0].state = "NONE"
        BY <3>1
      <3>3. IpPdch(ts, lchan, slots, dev, bsc, no) /\ ~PdchUp(lchan)
        BY <2>1, <3>2 DEF IpPdch, PdchUp
      <3> QED
        BY <1>2, <1>5, <3>3 DEF Phase, IpPhase
    <2>2. CASE IpVoice(ts, lchan, slots, dev, bsc)
      <3>1. ~PdchUp(lchan)
        BY <1>1, <2>2 DEF IpVoice, Typed, TypeFor, PdchUp
      <3> QED
        BY <1>5, <2>2, <3>1 DEF Phase, IpPhase
    <2>3. CASE IpActivating(ts, lchan, slots, dev, bsc)
      <3>1. ~PdchUp(lchan)
        BY <1>1, <2>3 DEF IpActivating, Quiet, PdchUp
      <3> QED
        BY <1>5, <2>3, <3>1 DEF Phase, IpPhase
    <2>4. CASE IpDeactivating(ts, lchan, slots, dev, bsc)
      <3>1. bsc[0].wait = "rel"
        BY <2>4 DEF IpDeactivating, Leaving
      <3> QED
        BY <1>5, <2>4, <3>1 DEF Phase, IpPhase
    <2> QED
      BY <1>5, <2>1, <2>2, <2>3, <2>4 DEF IpPhase
  <1> QED
    BY <1>1, <1>3, <1>4, <1>5 DEF Phase

\* The channel that the PCU leaves behind is released.
LEMMA Orphaned ==
    ASSUME DynIInv, Calm(odd), Wanted(ts), lchan[0].state # "NONE",
           NEW n, n = Deactivated(lchan)
    PROVE  /\ Phase(ts, n, slots, dev, bsc, FALSE) /\ ~PdchUp(n)
           /\ ts.pchan # "OSMO_DYN" \/ ts.want = "PDCH"
           /\ ~(ts.pchan = "TCH_F_PDCH" /\ ts.deactPend)
  <1>1. lchan \in [Lchans -> Lchan] /\ 0 \in Lchans /\ 1 \in Lchans
    BY StateTypes DEF DynIInv, Lchans
  <1>2. /\ n[0].state = "NONE" /\ n[0].type = lchan[0].type /\ n[0].pending = NoActivation
        /\ n[1] = lchan[1]
    BY <1>1, DeactivatedOf
  <1>3. /\ NonePending(lchan) => NonePending(n)
        /\ Typed(lchan, "PDCH") => Typed(n, "PDCH")
        /\ ~PdchUp(n)
    BY <1>2 DEF NonePending, Typed, PdchUp, Lchans
  <1>4. ts.enabled /\ lchan[0].type = "PDTCH"
    BY PdchTyped DEF Wanted
  <1>5. PICK no : no = FALSE
    OBVIOUS
  <1>6. CASE ts.pchan = "OSMO_DYN"
    <2>1. ts.is = "PDCH" /\ ts.want = "PDCH"
      BY <1>6 DEF Wanted, ts_should_be_pdch
    <2>2. NoFlags(ts) /\ OsmoPdch(ts, lchan, slots, dev, bsc, pcu.up)
      BY <1>6, <2>1, OsmoUp DEF None
    <2>3. OsmoPdch(ts, n, slots, dev, bsc, no)
      BY <1>2, <1>3, <2>2 DEF OsmoPdch, Only0
    <2> QED
      BY <1>3, <1>4, <1>5, <1>6, <2>1, <2>2, <2>3 DEF Phase, OsmoPhase
  <1>7. CASE ts.pchan = "TCH_F_PDCH"
    <2>1. IF ts.active THEN ~ts.deactPend ELSE ts.actPend
      BY <1>7 DEF Wanted, ts_should_be_pdch
    <2>2. IpPhase(ts, lchan, slots, dev, bsc, pcu.up) /\ IpPdch(ts, lchan, slots, dev, bsc, pcu.up)
      BY <1>4, <1>7, <2>1, IpUp DEF IpDeactivating
    <2>3. IpPdch(ts, n, slots, dev, bsc, no)
      BY <1>2, <1>3, <2>2 DEF IpPdch
    <2>4. Only0("TCH_F", n, bsc) /\ NonePending(n)
      BY <1>2, <1>3, <2>2 DEF IpPhase, Only0
    <2>5. Phase(ts, n, slots, dev, bsc, no)
      BY <2>2, <2>3, <2>4 DEF Phase, IpPhase
    <2> QED
      BY <1>3, <1>5, <1>7, <2>2, <2>5 DEF IpPdch
  <1> QED
    BY <1>4, <1>6, <1>7, AtState

\* The loss of the PCU leads from one phase to another.
LEMMA CloseKeeps ==
    ASSUME DynIInv, Calm(odd), pcu_sock_close
    PROVE  At(ts, lchan, slots, infos, bsc, crashed, odd, dev, reqs, pcu)'
  <1>1. PICK v, e, o, p, no : /\ v = [Released EXCEPT !.infos = e] /\ e = <<>> /\ o = DiedOdd
                              /\ p = pcu' /\ no = FALSE
    OBVIOUS
  <1>2. Become(v) /\ UNCHANGED dev /\ reqs' = e /\ p.up = no /\ p.on = no
    <2>1. Become(v)
      BY <1>1, CloseIs DEF DynIInv
    <2> QED
      BY <1>1, <2>1 DEF pcu_sock_close
  <1>3. ~crashed /\ lchan \in [Lchans -> Lchan] /\ 0 \in Lchans
    BY AtState, StateTypes DEF DynIInv, Lchans
  <1>4. PICK m, n : m = ByPcu(lchan) /\ n = Deactivated(lchan)
    OBVIOUS
  <1>5. /\ m \in [Lchans -> Lchan] /\ m[0].kind = "PCU"
        /\ \A j \in Lchans : /\ m[j].state = lchan[j].state /\ m[j].type = lchan[j].type
                             /\ m[j].pending = lchan[j].pending
    BY <1>3, <1>4, ByPcuOf
  <1>6. n = With(m, 0, Inactive(m[0]))
    BY <1>4 DEF Deactivated
  <1>7. \E l : /\ Released = W(ts, l, slots, infos, bsc, crashed, o)
               /\ Phase(ts, l, slots, dev, bsc, no)
               /\ PdchUp(l) => bsc[0].wait = "rel"
    <2>1. CASE ~Wanted(ts)
      <3>1. Released = W(ts, lchan, slots, infos, bsc, crashed, o)
        BY <1>1, <2>1 DEF Released, DiedWorld
      <3>2. Phase(ts, lchan, slots, dev, bsc, no) /\ (PdchUp(lchan) => bsc[0].wait = "rel")
        BY <1>1, <2>1, Abandoned
      <3> QED
        BY <3>1, <3>2
    <2>2. CASE Wanted(ts) /\ lchan[0].state = "NONE"
      <3>1. Released = l1sap_chan_rel(W(ts, m, slots, infos, bsc, crashed, o), 0)
        BY <1>1, <1>4, <2>2 DEF Released, DiedPcuWorld, ByPcu
      <3>2. m[0].state = "NONE"
        BY <1>3, <1>5, <2>2
      <3>3. Released = W(ts, m, slots, infos, bsc, crashed, o)
        BY <3>1, <3>2, ChanRelNothing
      <3>4. Phase(ts, lchan, slots, dev, bsc, no) /\ (PdchUp(lchan) => bsc[0].wait = "rel")
        BY <1>1, <2>2, Abandoned
      <3>5. Phase(ts, m, slots, dev, bsc, no) /\ (PdchUp(m) <=> PdchUp(lchan))
        BY <1>5, <3>4, PhaseSame
      <3> QED
        BY <3>3, <3>4, <3>5
    <2>3. CASE Wanted(ts) /\ lchan[0].state # "NONE"
      <3>1. Released = l1sap_chan_rel(W(ts, m, slots, infos, bsc, crashed, o), 0)
        BY <1>1, <1>4, <2>3 DEF Released, DiedPcuWorld, ByPcu
      <3>2. /\ Phase(ts, n, slots, dev, bsc, no) /\ ~PdchUp(n)
            /\ ts.pchan # "OSMO_DYN" \/ ts.want = "PDCH"
            /\ ~(ts.pchan = "TCH_F_PDCH" /\ ts.deactPend)
        BY <1>1, <1>4, <2>3, Orphaned
      <3>3. m[0].state # "NONE"
        BY <1>3, <1>5, <2>3
      <3>4. Released = W(ts, n, slots, infos, bsc, crashed, o)
        BY <1>3, <1>5, <1>6, <3>1, <3>2, <3>3, ChanRelOfPcu
      <3> QED
        BY <3>2, <3>4
    <2> QED
      BY <2>1, <2>2, <2>3
  <1>8. PICK l : /\ Released = W(ts, l, slots, infos, bsc, crashed, o)
                 /\ Phase(ts, l, slots, dev, bsc, no)
                 /\ PdchUp(l) => bsc[0].wait = "rel"
    BY <1>7
  <1>9. v = W(ts, l, slots, e, bsc, crashed, o)
    BY <1>1, <1>8 DEF W
  <1>10. PcuPart(ts, l, slots, e, bsc, o, e, p)
    <2>1. ~Has(e)
      BY <1>1 DEF Has
    <2> QED
      BY <1>1, <1>2, <1>8, <2>1 DEF PcuPart, GoneOf, QuietOf, ToldOf, DoneOf
  <1>11. AtWorld(v, dev, e, p)
    BY <1>2, <1>3, <1>8, <1>9, <1>10, AtIs DEF At
  <1> QED
    BY <1>1, <1>2, <1>11, BecomeAt

-----------------------------------------------------------------------------
(***************************************************************************)
(* The invariant and its theorem.                                          *)
(***************************************************************************)

\* At first the timeslot is off, and nobody knows of it.
LEMMA InitHolds ==
    ASSUME DynInit
    PROVE  DynIInv
  <1>1. DynTypeOK
    <2>1. 0 \in 0 .. MaxLosses /\ 0 \in 0 .. MaxResets
      BY DynAssumption
    <2>2. slots \in Seq(Pchans) /\ infos \in Seq(BOOLEAN) /\ reqs \in Seq(BOOLEAN)
      BY EmptySeq DEF DynInit
    <2>3. NoActivation \in Activation \cup {NoActivation}
      OBVIOUS
    <2>4. lchan \in [Lchans -> Lchan]
      BY <2>3 DEF DynInit, Lchan
    <2>5. bsc \in [Lchans -> [use : Pchans \cup {None}, wait : {"none", "act", "rel"}]]
      BY DEF DynInit
    <2>6. /\ ts \in [pchan : Kinds \cup {None}, is : Pchans \cup {None},
                     want : Pchans \cup {None}, active : BOOLEAN, actPend : BOOLEAN,
                     deactPend : BOOLEAN, enabled : BOOLEAN]
          /\ dev \in Pchans \cup {None} /\ crashed \in BOOLEAN
      BY DEF DynInit
    <2>7. pcu \in [up : BOOLEAN, on : BOOLEAN, died : 0 .. MaxLosses] /\ resets \in 0 .. MaxResets
      BY <2>1 DEF DynInit
    <2>8. odd \subseteq {"early", "eager", "orphan", "died", "refused", "untold"}
      BY DEF DynInit
    <2> QED
      BY <2>2, <2>4, <2>5, <2>6, <2>7, <2>8 DEF DynTypeOK
  <1>2. PICK e : e = <<>>
    OBVIOUS
  <1>3. Off(ts, lchan, slots, bsc)
    BY DEF DynInit, Off, NoFlags, Quiet, NonePending, Unused, Nothing, Answer
  <1>4. ~PdchUp(lchan) /\ ~pcu.up /\ ~pcu.on /\ ~crashed
    BY DEF DynInit, PdchUp, Lchans
  <1>5. PcuPart(ts, lchan, slots, infos, bsc, odd, reqs, pcu)
    <2>1. infos = e /\ reqs = e /\ ~Has(e)
      BY <1>2 DEF DynInit, Has
    <2> QED
      BY <1>2, <1>4, <2>1 DEF PcuPart, GoneOf, QuietOf, ToldOf, DoneOf
  <1> QED
    BY <1>1, <1>3, <1>4, <1>5 DEF DynIInv, At, Phase

\* Every step keeps the invariant.
LEMMA StepKeeps ==
    ASSUME DynIInv, [DynNext]_dynVars
    PROVE  DynIInv'
  <1>1. CASE DynNext
    <2>1. Calm(odd)
      BY <1>1 DEF DynNext, Undisturbed, Calm
    <2>2. DynTypeOK'
      BY <1>1, TypesKept DEF DynIInv
    <2>3. At(ts, lchan, slots, infos, bsc, crashed, odd, dev, reqs, pcu)'
      <3>1. CASE BscStep
        BY <2>1, <3>1, ChanActivKeeps, PdchActKeeps, RfChanRelKeeps, PdchDeactKeeps,
           ReleaseKeeps, SetKeeps DEF BscStep
      <3>2. CASE l1if_setslot_cb
        BY <2>1, <3>2, SetslotKeeps
      <3>3. CASE pcu_rx_act_req
        BY <2>1, <3>3, ActReqKeeps
      <3>4. CASE PcuFollows
        BY <2>1, <3>4, PcuFollowsKeeps
      <3>5. CASE pcu_if_signal_cb
        BY <2>1, <3>5, SignalKeeps
      <3>6. CASE pcu_sock_accept
        BY <2>1, <3>6, AcceptKeeps
      <3>7. CASE pcu_sock_close
        BY <2>1, <3>7, CloseKeeps
      <3> QED
        BY <1>1, <3>1, <3>2, <3>3, <3>4, <3>5, <3>6, <3>7 DEF DynNext
    <2> QED
      BY <2>2, <2>3 DEF DynIInv
  <1>2. CASE UNCHANGED dynVars
    <2>1. DynTypeOK'
      BY <1>2 DEF DynIInv, DynTypeOK, dynVars
    <2>2. At(ts, lchan, slots, infos, bsc, crashed, odd, dev, reqs, pcu)'
      BY <1>2 DEF DynIInv, dynVars
    <2> QED
      BY <2>1, <2>2 DEF DynIInv
  <1> QED
    BY <1>1, <1>2

\* What the phases say of active channels.
LEMMA PhaseActive ==
    ASSUME DynIInv, Calm(odd), NEW i \in Lchans, lchan[i].state = "ACTIVE",
           NEW p, p = PchanOf(lchan[i].type)
    PROVE  dev = p /\ bsc[i].use = p
  <1>1. Phase(ts, lchan, slots, dev, bsc, pcu.up)
    BY AtState
  <1>2. ~Quiet(lchan)
    BY DEF Quiet
  <1>3. CASE OsmoPhase(ts, lchan, slots, dev, bsc, pcu.up)
    <2>1. CASE OsmoConnected(ts, lchan, slots, dev, bsc)
      <3>1. bsc[i] = Using(ts.is) /\ dev = ts.is /\ ts.is \in {"TCH_F", "TCH_H"}
        BY <2>1 DEF OsmoConnected, Uses
      <3>2. lchan[i].type = TypeFor(ts.is, i) /\ (ts.is = "TCH_F" => i # 1)
        BY <2>1 DEF OsmoConnected, Typed, Only0
      <3> QED
        BY <3>1, <3>2 DEF TypeFor, PchanOf, Using, Answer
    <2>2. CASE OsmoPdch(ts, lchan, slots, dev, bsc, pcu.up)
      <3>1. i = 0
        BY <2>2 DEF OsmoPdch, Only0, Lchans
      <3>2. lchan[i].type = "PDTCH" /\ dev = "PDCH" /\ bsc[i] = Using("PDCH")
        BY <2>2, <3>1 DEF OsmoPdch, Typed, TypeFor
      <3> QED
        BY <3>2 DEF PchanOf, Using, Answer
    <2>3. CASE OsmoReleasing(ts, lchan, slots, dev, bsc)
      <3>1. i = 0
        BY <2>3 DEF OsmoReleasing, Only0, Lchans
      <3>2. lchan[i].type = "PDTCH" /\ dev = "PDCH" /\ bsc[i] = Leaving("PDCH")
        BY <2>3, <3>1 DEF OsmoReleasing, Typed, TypeFor
      <3> QED
        BY <3>2 DEF PchanOf, Leaving
    <2> QED
      BY <1>2, <1>3, <2>1, <2>2, <2>3 DEF OsmoPhase, OsmoUnconnected, OsmoSwitching
  <1>4. CASE IpPhase(ts, lchan, slots, dev, bsc, pcu.up)
    <2>1. i = 0
      BY <1>4 DEF IpPhase, Only0, Lchans
    <2>2. CASE IpVoice(ts, lchan, slots, dev, bsc)
      <3>1. lchan[i].type = "TCH_F" /\ dev = "TCH_F" /\ bsc[i] = Using("TCH_F")
        BY <2>1, <2>2 DEF IpVoice, Typed, TypeFor, Uses
      <3> QED
        BY <3>1 DEF PchanOf, Using, Answer
    <2>3. CASE IpPdch(ts, lchan, slots, dev, bsc, pcu.up)
      <3>1. lchan[i].type = "PDTCH" /\ dev = "PDCH" /\ bsc[i] = Using("PDCH")
        BY <2>1, <2>3 DEF IpPdch, Typed, TypeFor
      <3> QED
        BY <3>1 DEF PchanOf, Using, Answer
    <2>4. CASE IpDeactivating(ts, lchan, slots, dev, bsc)
      <3>1. lchan[i].type = "PDTCH" /\ dev = "PDCH" /\ bsc[i] = Leaving("PDCH")
        BY <1>2, <2>1, <2>4 DEF IpDeactivating, Typed, TypeFor
      <3> QED
        BY <3>1 DEF PchanOf, Leaving
    <2> QED
      BY <1>2, <1>4, <2>2, <2>3, <2>4 DEF IpPhase, IpActivating
  <1> QED
    BY <1>1, <1>2, <1>3, <1>4 DEF Phase, Off

\* The invariant is one for what the runs check.
LEMMA InvFollows ==
    ASSUME DynIInv
    PROVE  DynInv
  <1>1. Undisturbed <=> Calm(odd)
    BY DEF Undisturbed, Calm
  <1>2. ActiveAsAsked
    BY <1>1, PhaseActive DEF ActiveAsAsked
  <1>3. AssertionsHold
    BY <1>1, AtState DEF AssertionsHold
  <1>4. PcuInStep
    <2>1. SUFFICES ASSUME Idle, Calm(odd), "untold" \notin odd
                   PROVE  pcu.on <=> PdchUp(lchan)
      BY <1>1 DEF PcuInStep, PdchUp
    <2>2. infos = <<>> /\ reqs = <<>> /\ bsc[0].wait = "none"
      BY <2>1 DEF Idle, Lchans
    <2>3. ~HasNot(infos)
      BY <2>2 DEF HasNot
    <2>4. DoneOf(lchan, infos, bsc, odd, reqs, pcu)
      BY <2>1, AtState DEF PcuPart
    <2> QED
      BY <2>1, <2>2, <2>3, <2>4 DEF DoneOf
  <1> QED
    BY <1>2, <1>3, <1>4 DEF DynIInv, DynInv

\* The phases of a switch are all there are, in every run of every number of lost PCUs, lost
\* A-bis links and messages: rsl.c, lchan.c and pcu_sock.c keep to them.
THEOREM DynIInvHolds == DynSpec => []DynIInv
  <1>1. DynInit => DynIInv
    BY InitHolds
  <1>2. DynIInv /\ [DynNext]_dynVars => DynIInv'
    BY StepKeeps
  <1> QED
    BY <1>1, <1>2, PTL DEF DynSpec

\* Channels, timeslot, BSC and PCU agree, whatever crosses: a channel is active only for what
\* the BSC uses it for and on a timeslot configured for it, the assertions of
\* rsl_rx_chan_activ() and trx_set_ts() hold, and the PCU has the timeslot exactly while its
\* packet channel is active.
THEOREM DynInvHolds == DynSpec => []DynInv
  <1>1. DynIInv => DynInv
    BY InvFollows
  <1> QED
    BY <1>1, DynIInvHolds, PTL
===============================================================================
