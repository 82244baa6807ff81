---------------------------- MODULE TrxProv_proofs ----------------------------
(***************************************************************************)
(* Proofs about TrxProv for any number of TRXs, any capabilities of the    *)
(* transceiver and any number of timeslot configurations, rejections and   *)
(* changes.                                                                *)
(*                                                                         *)
(* The invariant speaks about a record w of the variables that handlers    *)
(* map, what the transceiver has been told (d) and the rare events (o).    *)
(***************************************************************************)
EXTENDS TrxProv, TLAPS

\* The version that both sides know.
Agreed == IF PduVerMax <= TrxPduVer THEN PduVerMax ELSE TrxPduVer

Has(s, c) == \E m \in Range(s) : m.cmd = c

\* What is acknowledged was sent; the tuning on its way, and the one acknowledged, is to the
\* ARFCN assigned.
TunedInv(p, s, rx, tx) ==
    /\ p.acked \subseteq p.sent
    /\ p.arfcn = None => p.sent \cap {"RXTUNE", "TXTUNE", "NOMTXPOWER"} = {}
    /\ \A m \in Range(s) :
          m.cmd \in {"RXTUNE", "TXTUNE"} => p.arfcn # None /\ m.arg = p.arfcn
    /\ "RXTUNE" \in p.acked => rx = p.arfcn
    /\ "TXTUNE" \in p.acked => tx = p.arfcn

\* One version at a time is asked for, first the own one, then the one of both.
Once(s) ==
    \A i, j \in 1 .. Len(s) : s[i].cmd = "SETFORMAT" /\ s[j].cmd = "SETFORMAT" => i = j
FormatInv(p, s) ==
    /\ p.verReq \in {PduVerMax, Agreed}
    /\ Once(s)
    /\ \A m \in Range(s) : m.cmd = "SETFORMAT" =>
          m.arg \in {PduVerMax, Agreed} /\ "SETFORMAT" \in p.sent \ p.acked
    /\ "SETFORMAT" \in p.acked => p.verReq = Agreed /\ p.verUse = Agreed /\ "SETFORMAT" \in p.sent
    /\ "SETTSC" \in p.sent \cup p.acked => p.tsc
    /\ p.st \in {"OPEN_WAIT_POWERON_CNF", "OPEN_POWERON"} => p.verUse = Agreed

\* The last SETSLOT on the way is x, or the transceiver has x.
Told(s, y, x) ==
    \/ ~Has(s, "SETSLOT") /\ y = x
    \/ \E i \in 1 .. Len(s) : /\ s[i].cmd = "SETSLOT" /\ s[i].arg = x
                              /\ \A j \in i + 1 .. Len(s) : s[j].cmd # "SETSLOT"
Regular(o) == o \cap {"late", "retuned"} = {}
SlotInv(p, s, y, o) ==
    /\ p.st \in {"OPEN_POWEROFF", "OPEN_WAIT_POWERON_CNF"} => ~p.slotSent
    /\ p.st = "OPEN_POWERON" /\ p.slot # None /\ Regular(o) => p.slotSent /\ Told(s, y, p.slot)

TrxInv(p, s, rx, tx, y, o) ==
    /\ "retuned" \notin o => TunedInv(p, s, rx, tx)
    /\ FormatInv(p, s)
    /\ SlotInv(p, s, y, o)

\* What a TRX is besides the first one: it never waits for POWERON, and is in
\* operation as soon as it is enabled and provisioned.
OtherInv(p) ==
    /\ p.st # "OPEN_WAIT_POWERON_CNF"
    /\ p.st = "OPEN_POWEROFF" => ~(p.enabled /\ trx_is_provisioned(p))

\* The TRXs close together with the link.
ClosedInv(w) ==
    \A t \in Trx : w.prov[t].st = "CLOSED" =>
        w.plink.state = "SHUTDOWN" /\ w.prov[0].st = "CLOSED" /\ w.q[t] = <<>>

\* Power is asked for by TRX 0, when all TRXs are provisioned, and they stay so.
FirstPower(w) == \A t \in Trx \ {0} : ~Has(w.q[t], "POWERON")
PowerSoon(w) ==
    Has(w.q[0], "POWERON") \/ w.prov[0].st \in {"OPEN_WAIT_POWERON_CNF", "OPEN_POWERON"}
ReadyInv(w, o) ==
    "retuned" \notin o /\ PowerSoon(w) => \A t \in Trx : trx_is_provisioned(w.prov[t])

\* While TRX 0 waits for POWEROFF, no other TRX is or comes into operation.
ClosingInv(w, o) ==
    Regular(o) /\ w.prov[0].st = "OPEN_WAIT_POWEROFF_CNF" =>
        /\ w.phase = "closing"
        /\ \A t \in Trx \ {0} : /\ w.prov[t].st # "OPEN_POWERON"
                                /\ w.prov[t].st = "OPEN_POWEROFF" => ~w.prov[t].enabled

\* ... and the link is down only when all are closed.
DownInv(w, o) == w.plink.state = "SHUTDOWN" /\ o = {} => \A t \in Trx : w.prov[t].st = "CLOSED"

\* Types.
Cmds == Steps \cup {"POWERON", "POWEROFF", "POWEROFF_NOCB", "RFMUTE", "SETSLOT"}
Args == Arfcns \cup setup.slotTypes \cup {None} \cup Nat
Msgs == [cmd : Cmds, arg : Args]
Links == [state : {"SHUTDOWN", "CONNECTING", "CONNECTED"}, powered : BOOLEAN, offSent : BOOLEAN]
Phases == {"idle", "up", "closing"}
World == [prov : [Trx -> Prov], q : [Trx -> Seq(Msgs)], plink : Links, phase : Phases]
Device == [power : BOOLEAN, rx : [Trx -> Args], tx : [Trx -> Args], slot : [Trx -> Args]]

Each(w, d, o) ==
    \A t \in Trx : TrxInv(w.prov[t], w.q[t], d.rx[t], d.tx[t], d.slot[t], o)
Others(w) == \A t \in Trx \ {0} : OtherInv(w.prov[t])

WorldInv(w, d, o) ==
    /\ w \in World
    /\ Each(w, d, o)
    /\ Others(w) /\ ClosedInv(w) /\ FirstPower(w) /\ ReadyInv(w, o) /\ ClosingInv(w, o)
    /\ DownInv(w, o)

Inv ==
    /\ setup \in Setups
    /\ WorldInv(Now, dev, odd)
    /\ dev \in Device
    /\ used \in [slots : 0 .. setup.maxSlots, rejects : 0 .. setup.maxRejects,
                 changes : 0 .. setup.maxChanges]
    /\ odd \subseteq {"rejected", "retuned", "late"}

-----------------------------------------------------------------------------
(* Queues.                                                                 *)

LEMMA PutOf ==
    ASSUME NEW S, NEW s \in Seq(S), NEW m \in S
    PROVE  /\ Put(s, m) \in Seq(S)
           /\ \/ Put(s, m) = Append(s, m)
              \/ Put(s, m) = s /\ Len(s) >= 1 /\ s[Len(s)] = m
  <1>1. CASE s # <<>> /\ Last(s) = m
    <2>1. Put(s, m) = s
      BY <1>1 DEF Put
    <2>2. Len(s) \in Nat /\ Len(s) >= 1 /\ s[Len(s)] = m
      BY <1>1 DEF Last
    <2> QED
      BY <2>1, <2>2
  <1>2. CASE ~(s # <<>> /\ Last(s) = m)
    <2>1. Put(s, m) = Append(s, m)
      BY <1>2 DEF Put
    <2> QED
      BY <2>1
  <1> QED
    BY <1>1, <1>2

LEMMA PutRange ==
    ASSUME NEW S, NEW s \in Seq(S), NEW m \in S
    PROVE  Range(Put(s, m)) = Range(s) \cup {m}
  <1>1. CASE Put(s, m) = Append(s, m)
    <2>0. Append(s, m) \in Seq(S)
      OBVIOUS
    <2>1. PICK p \in Seq(S) : p = Append(s, m)
      BY Zenon, <2>0
    <2>2. /\ Len(s) \in Nat /\ Len(p) = Len(s) + 1 /\ p[Len(p)] = m
          /\ \A i \in 1 .. Len(s) : p[i] = s[i]
          /\ DOMAIN s = 1 .. Len(s) /\ DOMAIN p = 1 .. Len(p)
      BY <2>1
    <2>3. Range(p) = Range(s) \cup {m}
      BY <2>2 DEF Range
    <2> QED
      BY <1>1, <2>1, <2>3
  <1>2. CASE Put(s, m) = s /\ Len(s) >= 1 /\ s[Len(s)] = m
    <2>1. m \in Range(s)
      BY <1>2 DEF Range
    <2> QED
      BY <1>2, <2>1
  <1> QED
    BY <1>1, <1>2, PutOf

LEMMA TailOf ==
    ASSUME NEW S, NEW s \in Seq(S), s # <<>>
    PROVE  /\ Head(s) \in S /\ Tail(s) \in Seq(S) /\ Head(s) = s[1]
           /\ Len(s) \in Nat /\ Len(s) >= 1 /\ Len(Tail(s)) = Len(s) - 1
           /\ \A i \in 1 .. Len(Tail(s)) : i + 1 \in 1 .. Len(s) /\ Tail(s)[i] = s[i + 1]
           /\ \A i \in 1 .. Len(s) : i = 1 \/ (i - 1 \in 1 .. Len(Tail(s)) /\ Tail(s)[i - 1] = s[i])
  OBVIOUS

LEMMA TailRange ==
    ASSUME NEW S, NEW s \in Seq(S), s # <<>>
    PROVE  /\ Head(s) \in Range(s) /\ Range(Tail(s)) \subseteq Range(s)
           /\ \A m \in Range(s) : m = Head(s) \/ m \in Range(Tail(s))
  <1>1. DOMAIN s = 1 .. Len(s) /\ DOMAIN Tail(s) = 1 .. Len(Tail(s))
    BY TailOf
  <1>2. 1 \in 1 .. Len(s) /\ Head(s) = s[1]
    BY TailOf
  <1>3. Head(s) \in Range(s)
    BY Zenon, <1>1, <1>2 DEF Range
  <1>4. ASSUME NEW m \in Range(Tail(s)) PROVE m \in Range(s)
    <2>1. PICK i \in 1 .. Len(Tail(s)) : m = Tail(s)[i]
      BY Zenon, <1>1, <1>4 DEF Range
    <2>2. i + 1 \in 1 .. Len(s) /\ Tail(s)[i] = s[i + 1]
      BY TailOf
    <2> QED
      BY Zenon, <1>1, <2>1, <2>2 DEF Range
  <1>5. ASSUME NEW m \in Range(s) PROVE m = Head(s) \/ m \in Range(Tail(s))
    <2>1. PICK i \in 1 .. Len(s) : m = s[i]
      BY Zenon, <1>1, <1>5 DEF Range
    <2>2. i = 1 \/ (i - 1 \in 1 .. Len(Tail(s)) /\ Tail(s)[i - 1] = s[i])
      BY TailOf
    <2> QED
      BY Zenon, <1>1, <1>2, <2>1, <2>2 DEF Range
  <1> QED
    BY <1>3, <1>4, <1>5

LEMMA EmptyRange == Range(<<>>) = {} /\ \A c : ~Has(<<>>, c)
  BY DEF Range, Has

LEMMA PutOnce ==
    ASSUME NEW S, NEW s \in Seq(S), NEW m \in S, Once(s),
           m.cmd # "SETFORMAT" \/ ~Has(s, "SETFORMAT")
    PROVE  Once(Put(s, m))
  <1>1. CASE Put(s, m) = Append(s, m)
    <2>0. Append(s, m) \in Seq(S)
      OBVIOUS
    <2>1. PICK p \in Seq(S) : p = Append(s, m)
      BY Zenon, <2>0
    <2>2. /\ Len(s) \in Nat /\ Len(p) = Len(s) + 1 /\ p[Len(p)] = m
          /\ \A i \in 1 .. Len(s) : p[i] = s[i]
          /\ DOMAIN s = 1 .. Len(s)
      BY <2>1
    <2>3. ASSUME NEW i \in 1 .. Len(s) PROVE s[i].cmd = "SETFORMAT" => m.cmd # "SETFORMAT"
      <3>1. s[i] \in Range(s)
        BY <2>2 DEF Range
      <3> QED
        BY Zenon, <3>1 DEF Has
    <2>4. \A i \in 1 .. Len(p) : i \in 1 .. Len(s) \/ i = Len(p)
      BY <2>2
    <2>5. ASSUME NEW i \in 1 .. Len(p), NEW j \in 1 .. Len(p),
                 p[i].cmd = "SETFORMAT", p[j].cmd = "SETFORMAT"
          PROVE  i = j
      BY Zenon, <2>2, <2>3, <2>4, <2>5 DEF Once
    <2> QED
      BY Zenon, <1>1, <2>1, <2>5 DEF Once
  <1> QED
    BY <1>1, PutOf
-----------------------------------------------------------------------------
(* One TRX of a world.                                                     *)

LEMMA SetupTypes ==
    ASSUME setup \in Setups
    PROVE  /\ PduVerMax \in Nat /\ TrxPduVer \in Nat /\ Agreed \in 0 .. PduVerMax
           /\ None \notin Arfcns /\ None \notin setup.slotTypes
           /\ setup.maxSlots \in Nat /\ setup.maxRejects \in Nat /\ setup.maxChanges \in Nat
  <1>1. setup \in Setup /\ None \notin setup.slotTypes \cup setup.arfcns
    BY ProvAssumption
  <1>2. /\ setup.verMax \in Nat /\ setup.trxVer \in Nat
        /\ setup.maxSlots \in Nat /\ setup.maxRejects \in Nat /\ setup.maxChanges \in Nat
    BY <1>1 DEF Setup
  <1> QED
    BY <1>1, <1>2 DEF PduVerMax, TrxPduVer, Agreed, Arfcns

LEMMA FirstTrx == NumTrx \in Nat /\ 0 \in Trx
  BY ProvAssumption DEF Trx

Upd(w, t, p, s) == [w EXCEPT !.prov[t] = p, !.q[t] = s]

LEMMA UpdOf ==
    ASSUME NEW w \in World, NEW t \in Trx, NEW p \in Prov, NEW s \in Seq(Msgs),
           NEW v, v = Upd(w, t, p, s)
    PROVE  /\ v \in World /\ v.plink = w.plink /\ v.phase = w.phase
           /\ v.prov[t] = p /\ v.q[t] = s
           /\ \A u \in Trx \ {t} : v.prov[u] = w.prov[u] /\ v.q[u] = w.q[u]
  <1>1. v = [prov |-> [w.prov EXCEPT ![t] = p], q |-> [w.q EXCEPT ![t] = s],
             plink |-> w.plink, phase |-> w.phase]
    BY DEF Upd, World
  <1>2. w.prov \in [Trx -> Prov] /\ w.q \in [Trx -> Seq(Msgs)]
    BY DEF World
  <1>3. [w.prov EXCEPT ![t] = p] \in [Trx -> Prov] /\ [w.q EXCEPT ![t] = s] \in [Trx -> Seq(Msgs)]
    BY <1>2
  <1>4. v \in World
    BY <1>1, <1>3 DEF World
  <1> QED
    BY <1>1, <1>2, <1>4

LEMMA SendIs ==
    ASSUME NEW w \in World, NEW t \in Trx, NEW m \in Msgs
    PROVE  Send(w, t, m) = Upd(w, t, w.prov[t], Put(w.q[t], m))
  <1>1. w.prov \in [Trx -> Prov] /\ w.prov = [w.prov EXCEPT ![t] = w.prov[t]]
    BY DEF World
  <1>2. w = [prov |-> w.prov, q |-> w.q, plink |-> w.plink, phase |-> w.phase]
    BY DEF World
  <1> QED
    BY <1>1, <1>2 DEF Send, Upd

LEMMA MsgsOf ==
    ASSUME NEW c \in Cmds, NEW a \in Args
    PROVE  Msg(c, a) \in Msgs /\ Msg(c, a).cmd = c /\ Msg(c, a).arg = a
  BY DEF Msg, Msgs

\* One command of l1if_provision_transceiver_trx().
LEMMA CmdStep ==
    ASSUME NEW s \in Seq(Msgs), NEW c \in Steps, NEW a \in Args, NEW E,
           NEW r, r = IF c \in E THEN Put(s, Msg(c, a)) ELSE s
    PROVE  /\ r \in Seq(Msgs) /\ Range(s) \subseteq Range(r)
           /\ \A m \in Range(r) : m \in Range(s) \/ (c \in E /\ m = Msg(c, a))
           /\ Once(s) /\ (c = "SETFORMAT" => c \notin E \/ ~Has(s, c)) => Once(r)
  <1>1. CASE c \in E
    <2>1. Msg(c, a) \in Msgs /\ Msg(c, a).cmd = c
      BY MsgsOf DEF Cmds
    <2>2. r = Put(s, Msg(c, a))
      BY <1>1
    <2>3. r \in Seq(Msgs) /\ Range(r) = Range(s) \cup {Msg(c, a)}
      BY <2>1, <2>2, PutOf, PutRange
    <2>4. Once(s) /\ (c = "SETFORMAT" => ~Has(s, c)) => Once(r)
      BY <2>1, <2>2, PutOnce
    <2> QED
      BY <1>1, <2>3, <2>4
  <1>2. CASE c \notin E
    BY <1>2
  <1> QED
    BY <1>1, <1>2

Chain(s, E, arg) ==
    LET Cmd(s1, c) == IF c \in E THEN Put(s1, Msg(c, arg[c])) ELSE s1
    IN  Cmd(Cmd(Cmd(Cmd(Cmd(s, "RXTUNE"), "TXTUNE"), "NOMTXPOWER"), "SETTSC"), "SETFORMAT")

LEMMA ChainOf ==
    ASSUME NEW s \in Seq(Msgs), NEW E, NEW arg \in [Steps -> Args], NEW r, r = Chain(s, E, arg)
    PROVE  /\ r \in Seq(Msgs) /\ Range(s) \subseteq Range(r)
           /\ \A m \in Range(r) : m \in Range(s) \/ \E c \in Steps \cap E : m = Msg(c, arg[c])
           /\ Once(s) /\ ("SETFORMAT" \in E => ~Has(s, "SETFORMAT")) => Once(r)
  <1> DEFINE Cmd(s1, c) == IF c \in E THEN Put(s1, Msg(c, arg[c])) ELSE s1
  <1>0. /\ \A c \in Steps : arg[c] \in Args
        /\ {"RXTUNE", "TXTUNE", "NOMTXPOWER", "SETTSC", "SETFORMAT"} \subseteq Steps
    BY DEF Steps
  <1>1. PICK s1 : s1 = Cmd(s, "RXTUNE")
    OBVIOUS
  <1>2. PICK s2 : s2 = Cmd(s1, "TXTUNE")
    OBVIOUS
  <1>3. PICK s3 : s3 = Cmd(s2, "NOMTXPOWER")
    OBVIOUS
  <1>4. PICK s4 : s4 = Cmd(s3, "SETTSC")
    OBVIOUS
  <1>5. r = Cmd(s4, "SETFORMAT")
    BY <1>1, <1>2, <1>3, <1>4 DEF Chain
  <1> DEFINE Adds(x, y, c) ==
        /\ y \in Seq(Msgs) /\ Range(x) \subseteq Range(y)
        /\ \A m \in Range(y) : m \in Range(x) \/ (c \in E /\ m = Msg(c, arg[c]))
        /\ Once(x) /\ (c = "SETFORMAT" => c \notin E \/ ~Has(x, c)) => Once(y)
  <1>6. \A x \in Seq(Msgs), c \in Steps : \A y : y = Cmd(x, c) => Adds(x, y, c)
    BY <1>0, CmdStep
  <1> HIDE DEF Cmd, Adds
  <1>7. Adds(s, s1, "RXTUNE") /\ s1 \in Seq(Msgs)
    BY Zenon, <1>0, <1>1, <1>6 DEF Adds
  <1>8. Adds(s1, s2, "TXTUNE") /\ s2 \in Seq(Msgs)
    BY Zenon, <1>0, <1>2, <1>6, <1>7 DEF Adds
  <1>9. Adds(s2, s3, "NOMTXPOWER") /\ s3 \in Seq(Msgs)
    BY Zenon, <1>0, <1>3, <1>6, <1>8 DEF Adds
  <1>10. Adds(s3, s4, "SETTSC") /\ s4 \in Seq(Msgs)
    BY Zenon, <1>0, <1>4, <1>6, <1>9 DEF Adds
  <1>11. Adds(s4, r, "SETFORMAT") /\ r \in Seq(Msgs)
    BY Zenon, <1>0, <1>5, <1>6, <1>10 DEF Adds
  <1>12. Range(s) \subseteq Range(r)
    BY <1>7, <1>8, <1>9, <1>10, <1>11 DEF Adds
  <1>13. ASSUME NEW m \in Range(r)
         PROVE  m \in Range(s) \/ \E c \in Steps \cap E : m = Msg(c, arg[c])
    BY Zenon, <1>0, <1>7, <1>8, <1>9, <1>10, <1>11, <1>13 DEF Adds
  <1>14. ASSUME Once(s), "SETFORMAT" \in E => ~Has(s, "SETFORMAT") PROVE Once(r)
    <2>1. Once(s4)
      BY <1>14, <1>7, <1>8, <1>9, <1>10 DEF Adds
    <2>2. ASSUME NEW m \in Range(s4), m.cmd = "SETFORMAT" PROVE m \in Range(s)
      <3>1. \A c \in Steps : arg[c] \in Args /\ c \in Cmds /\ Msg(c, arg[c]).cmd = c
        BY <1>0, MsgsOf DEF Cmds
      <3>2. /\ Msg("RXTUNE", arg["RXTUNE"]).cmd # "SETFORMAT"
            /\ Msg("TXTUNE", arg["TXTUNE"]).cmd # "SETFORMAT"
            /\ Msg("NOMTXPOWER", arg["NOMTXPOWER"]).cmd # "SETFORMAT"
            /\ Msg("SETTSC", arg["SETTSC"]).cmd # "SETFORMAT"
        BY <3>1 DEF Steps
      <3> QED
        BY Zenon, <2>2, <3>2, <1>7, <1>8, <1>9, <1>10 DEF Adds
    <2>3. "SETFORMAT" \in E => ~Has(s4, "SETFORMAT")
      BY Zenon, <1>14, <2>2 DEF Has
    <2> QED
      BY Zenon, <1>11, <2>1, <2>3 DEF Adds
  <1> QED
    BY <1>11, <1>12, <1>13, <1>14

\* What l1if_provision_transceiver_trx() makes of a TRX and its queue.
Quiet == IF PduVerMax = 0 THEN {"SETFORMAT"} ELSE {}
Provided(p) == [p EXCEPT !.sent = @ \cup Due(p), !.acked = (@ \ Due(p)) \cup (Due(p) \cap Quiet)]
ArgOf(p) == [c \in Steps |-> CASE c \in {"RXTUNE", "TXTUNE"} -> p.arfcn
                               [] c = "SETFORMAT" -> p.verReq
                               [] OTHER -> None]
Asked(p, s) == Chain(s, Due(p) \ Quiet, ArgOf(p))

LEMMA ProvisionIs ==
    ASSUME NEW w \in World, NEW t \in Trx
    PROVE  l1if_provision_transceiver_trx(w, t) =
              IF w.plink.state = "SHUTDOWN" THEN w
              ELSE Upd(w, t, Provided(w.prov[t]), Asked(w.prov[t], w.q[t]))
  <1>1. w.prov \in [Trx -> Prov] /\ w.q \in [Trx -> Seq(Msgs)]
    BY DEF World
  <1> QED
    BY <1>1 DEF l1if_provision_transceiver_trx, Upd, Provided, Asked, ArgOf, Chain, Quiet

LEMMA ProvTypes ==
    ASSUME NEW p \in Prov
    PROVE  /\ p.st \in ProvStates /\ p.enabled \in BOOLEAN /\ p.arfcn \in Arfcns \cup {None}
           /\ p.tsc \in BOOLEAN /\ p.verReq \in 0 .. PduVerMax /\ p.verUse \in 0 .. PduVerMax
           /\ p.sent \subseteq Steps /\ p.acked \subseteq Steps
           /\ p.slot \in setup.slotTypes \cup {None} /\ p.slotSent \in BOOLEAN
  BY DEF Prov

LEMMA DueIs ==
    ASSUME NEW p
    PROVE  /\ Due(p) \subseteq Steps \ p.sent
           /\ p.arfcn = None => Due(p) \cap {"RXTUNE", "TXTUNE", "NOMTXPOWER"} = {}
           /\ "SETTSC" \in Due(p) => p.tsc
           /\ "SETFORMAT" \notin p.sent => "SETFORMAT" \in Due(p)
  BY DEF Due, ToTune, Steps

LEMMA ArgTypes ==
    ASSUME setup \in Setups, NEW p \in Prov
    PROVE  /\ ArgOf(p) \in [Steps -> Args]
           /\ \A c \in {"RXTUNE", "TXTUNE"} : ArgOf(p)[c] = p.arfcn
           /\ ArgOf(p)["SETFORMAT"] = p.verReq
  <1>1. p.arfcn \in Args /\ p.verReq \in Args /\ None \in Args
    BY ProvTypes, SetupTypes DEF Args
  <1> QED
    BY <1>1 DEF ArgOf, Steps

LEMMA ProvidedIs ==
    ASSUME setup \in Setups, NEW p \in Prov, NEW r, r = Provided(p)
    PROVE  /\ r \in Prov
           /\ r.st = p.st /\ r.enabled = p.enabled /\ r.arfcn = p.arfcn /\ r.tsc = p.tsc
           /\ r.verReq = p.verReq /\ r.verUse = p.verUse /\ r.slot = p.slot
           /\ r.slotSent = p.slotSent
           /\ r.sent = p.sent \cup Due(p)
           /\ r.acked = (p.acked \ Due(p)) \cup (Due(p) \cap Quiet)
  <1>1. Due(p) \subseteq Steps
    BY DueIs
  <1>2. r = [p EXCEPT !.sent = p.sent \cup Due(p),
                      !.acked = (p.acked \ Due(p)) \cup (Due(p) \cap Quiet)]
    BY DEF Provided
  <1>3. p.sent \cup Due(p) \in SUBSET Steps
        /\ (p.acked \ Due(p)) \cup (Due(p) \cap Quiet) \in SUBSET Steps
    BY <1>1, ProvTypes
  <1> HIDE DEF Quiet
  <1>4. PICK x \in SUBSET Steps : x = p.sent \cup Due(p)
    BY <1>3
  <1>5. PICK y \in SUBSET Steps : y = (p.acked \ Due(p)) \cup (Due(p) \cap Quiet)
    BY <1>3
  <1>6. r = [p EXCEPT !.sent = x, !.acked = y]
    BY <1>2, <1>4, <1>5
  <1> QED
    BY <1>4, <1>5, <1>6 DEF Prov

LEMMA AskedIs ==
    ASSUME setup \in Setups, NEW p \in Prov, NEW s \in Seq(Msgs), NEW r, r = Asked(p, s)
    PROVE  /\ r \in Seq(Msgs) /\ Range(s) \subseteq Range(r)
           /\ \A m \in Range(r) : \/ m \in Range(s)
                                   \/ /\ m.cmd \in Due(p) \ Quiet
                                      /\ m.cmd \in {"RXTUNE", "TXTUNE"} => m.arg = p.arfcn
                                      /\ m.cmd = "SETFORMAT" => m.arg = p.verReq
           /\ Once(s) /\ ("SETFORMAT" \in Due(p) => ~Has(s, "SETFORMAT")) => Once(r)
  <1>1. ArgOf(p) \in [Steps -> Args]
    BY ArgTypes
  <1>2. PICK a \in [Steps -> Args] : a = ArgOf(p)
    BY <1>1
  <1>3. PICK E : E = Due(p) \ Quiet
    OBVIOUS
  <1>4. r = Chain(s, E, a)
    BY <1>2, <1>3 DEF Asked
  <1>5. /\ r \in Seq(Msgs) /\ Range(s) \subseteq Range(r)
        /\ \A m \in Range(r) : m \in Range(s) \/ \E c \in Steps \cap E : m = Msg(c, a[c])
        /\ Once(s) /\ ("SETFORMAT" \in E => ~Has(s, "SETFORMAT")) => Once(r)
    BY <1>4, ChainOf
  <1>6. ASSUME NEW c \in Steps \cap E, NEW m, m = Msg(c, a[c])
        PROVE  /\ m.cmd \in Due(p) \ Quiet
               /\ m.cmd \in {"RXTUNE", "TXTUNE"} => m.arg = p.arfcn
               /\ m.cmd = "SETFORMAT" => m.arg = p.verReq
    <2>1. m.cmd = c /\ m.arg = a[c]
      BY <1>6, MsgsOf DEF Cmds
    <2>2. /\ c \in {"RXTUNE", "TXTUNE"} => a[c] = p.arfcn
          /\ c = "SETFORMAT" => a[c] = p.verReq
      BY ArgTypes, <1>2
    <2> QED
      BY <1>3, <1>6, <2>1, <2>2
  <1> QED
    BY Zenon, <1>3, <1>5, <1>6

LEMMA ProvidedTuned ==
    ASSUME setup \in Setups, NEW p \in Prov, NEW s \in Seq(Msgs), NEW rx, NEW tx,
           TunedInv(p, s, rx, tx)
    PROVE  TunedInv(Provided(p), Asked(p, s), rx, tx) /\ p.acked \subseteq Provided(p).acked
  <1>1. PICK r : r = Provided(p)
    OBVIOUS
  <1>2. PICK z : z = Asked(p, s)
    OBVIOUS
  <1>3. /\ r.arfcn = p.arfcn /\ r.sent = p.sent \cup Due(p)
        /\ r.acked = (p.acked \ Due(p)) \cup (Due(p) \cap Quiet)
    BY <1>1, ProvidedIs
  <1>4. /\ Due(p) \cap p.sent = {}
        /\ p.arfcn = None => Due(p) \cap {"RXTUNE", "TXTUNE", "NOMTXPOWER"} = {}
    BY DueIs
  <1>5. Quiet \subseteq {"SETFORMAT"}
    BY DEF Quiet
  <1>6. r.acked \subseteq r.sent /\ p.acked \subseteq r.acked
        /\ ("RXTUNE" \in r.acked => "RXTUNE" \in p.acked)
        /\ ("TXTUNE" \in r.acked => "TXTUNE" \in p.acked)
    BY <1>3, <1>4, <1>5 DEF TunedInv
  <1>7. r.arfcn = None => r.sent \cap {"RXTUNE", "TXTUNE", "NOMTXPOWER"} = {}
    BY <1>3, <1>4 DEF TunedInv
  <1>8. ASSUME NEW m \in Range(z), m.cmd \in {"RXTUNE", "TXTUNE"}
        PROVE  r.arfcn # None /\ m.arg = r.arfcn
    <2>1. \/ m \in Range(s)
          \/ m.cmd \in Due(p) /\ m.arg = p.arfcn
      BY ZenonT(30), <1>2, <1>8, AskedIs
    <2> QED
      BY <2>1, <1>3, <1>4, <1>8 DEF TunedInv
  <1> QED
    BY <1>1, <1>2, <1>3, <1>6, <1>7, <1>8 DEF TunedInv

LEMMA ProvidedFormat ==
    ASSUME setup \in Setups, NEW p \in Prov, NEW s \in Seq(Msgs), FormatInv(p, s)
    PROVE  FormatInv(Provided(p), Asked(p, s))
  <1>1. PICK r : r = Provided(p)
    OBVIOUS
  <1>2. PICK z : z = Asked(p, s)
    OBVIOUS
  <1>3. /\ r.sent = p.sent \cup Due(p)
        /\ r.acked = (p.acked \ Due(p)) \cup (Due(p) \cap Quiet)
        /\ r.verReq = p.verReq /\ r.verUse = p.verUse /\ r.st = p.st /\ r.tsc = p.tsc
    BY <1>1, ProvidedIs
  <1>4. /\ Due(p) \cap p.sent = {}
        /\ "SETTSC" \in Due(p) => p.tsc
    BY DueIs
  <1>5. ASSUME NEW m \in Range(z), m.cmd = "SETFORMAT"
        PROVE  m.arg \in {PduVerMax, Agreed} /\ "SETFORMAT" \in r.sent \ r.acked
    <2>1. \/ m \in Range(s)
          \/ m.cmd \in Due(p) \ Quiet /\ m.arg = p.verReq
      BY ZenonT(30), <1>2, <1>5, AskedIs
    <2>2. CASE m \in Range(s)
      <3>1. m.arg \in {PduVerMax, Agreed} /\ "SETFORMAT" \in p.sent \ p.acked
        BY <1>5, <2>2 DEF FormatInv
      <3> QED
        BY <3>1, <1>3, <1>4
    <2>3. CASE m.cmd \in Due(p) \ Quiet /\ m.arg = p.verReq
      BY <2>3, <1>3, <1>5 DEF FormatInv
    <2> QED
      BY <2>1, <2>2, <2>3
  <1>6. Once(z)
    <2>1. "SETFORMAT" \in Due(p) => ~Has(s, "SETFORMAT")
      BY <1>4 DEF FormatInv, Has
    <2> QED
      BY Zenon, <1>2, <2>1, AskedIs DEF FormatInv
  <1>7. ASSUME "SETFORMAT" \in r.acked
        PROVE  r.verReq = Agreed /\ r.verUse = Agreed /\ "SETFORMAT" \in r.sent
    <2>1. CASE "SETFORMAT" \in p.acked
      BY <2>1, <1>3 DEF FormatInv
    <2>2. CASE "SETFORMAT" \in Due(p) /\ PduVerMax = 0
      <3>1. p.verReq \in 0 .. 0 /\ p.verUse \in 0 .. 0 /\ Agreed \in 0 .. 0
        BY <2>2, SetupTypes, ProvTypes
      <3> QED
        BY <3>1, <2>2, <1>3
    <2> QED
      BY <1>3, <1>7, <2>1, <2>2 DEF Quiet
  <1>8. "SETTSC" \in r.sent \cup r.acked => r.tsc
    BY <1>3, <1>4 DEF FormatInv, Quiet
  <1>9. r.verReq \in {PduVerMax, Agreed}
        /\ (r.st \in {"OPEN_WAIT_POWERON_CNF", "OPEN_POWERON"} => r.verUse = Agreed)
    BY <1>3 DEF FormatInv
  <1> QED
    BY Zenon, <1>1, <1>2, <1>5, <1>6, <1>7, <1>8, <1>9 DEF FormatInv

LEMMA AskedPower ==
    ASSUME setup \in Setups, NEW p \in Prov, NEW s \in Seq(Msgs), Has(Asked(p, s), "POWERON")
    PROVE  Has(s, "POWERON")
  <1>1. PICK z : z = Asked(p, s)
    OBVIOUS
  <1>2. PICK m \in Range(z) : m.cmd = "POWERON"
    BY <1>1 DEF Has
  <1>3. m \in Range(s) \/ m.cmd \in Due(p)
    BY Zenon, <1>1, <1>2, AskedIs
  <1>4. "POWERON" \notin Due(p)
    BY DueIs DEF Steps
  <1> QED
    BY Zenon, <1>2, <1>3, <1>4 DEF Has

\* What is acknowledged stays so.
Grown(p, r) == p.acked \subseteq r.acked

LEMMA ProvisionedFacts ==
    ASSUME NEW p, NEW r
    PROVE  /\ trx_is_provisioned(p) => {"RXTUNE", "TXTUNE", "SETTSC", "SETFORMAT"} \subseteq p.acked
           /\ Grown(p, r) /\ trx_is_provisioned(p) => trx_is_provisioned(r)
  BY DEF trx_is_provisioned, Steps, Grown

-----------------------------------------------------------------------------
(* The handlers of OPEN_POWEROFF keep what holds within an event.          *)

Base(w, d, o) ==
    w \in World /\ Each(w, d, o) /\ ClosedInv(w) /\ FirstPower(w) /\ ReadyInv(w, o)

\* Only TRX t, which is not closed, changes, and not how it stands with the others.
LEMMA BaseUpd ==
    ASSUME NEW w, NEW d, NEW o, Base(w, d, o), NEW t \in Trx, NEW v, v \in World,
           v.plink = w.plink,
           \A u \in Trx \ {t} : v.prov[u] = w.prov[u] /\ v.q[u] = w.q[u],
           w.prov[t].st # "CLOSED", v.prov[t].st # "CLOSED",
           TrxInv(v.prov[t], v.q[t], d.rx[t], d.tx[t], d.slot[t], o),
           "retuned" \notin o => Grown(w.prov[t], v.prov[t]),
           t # 0 /\ Has(v.q[t], "POWERON") => Has(w.q[t], "POWERON"),
           PowerSoon(v) => PowerSoon(w) \/ \A u \in Trx : trx_is_provisioned(v.prov[u])
    PROVE  Base(v, d, o)
  <1>1. Each(v, d, o)
    BY Zenon DEF Base, Each
  <1>2. ASSUME NEW u \in Trx, v.prov[u].st = "CLOSED"
        PROVE  v.plink.state = "SHUTDOWN" /\ v.prov[0].st = "CLOSED" /\ v.q[u] = <<>>
    <2>1. u # t /\ v.prov[u] = w.prov[u] /\ v.q[u] = w.q[u]
      BY Zenon, <1>2
    <2>2. w.plink.state = "SHUTDOWN" /\ w.prov[0].st = "CLOSED" /\ w.q[u] = <<>>
      BY Zenon, <1>2, <2>1 DEF Base, ClosedInv
    <2>3. 0 \in Trx \ {t}
      BY Zenon, <2>2, FirstTrx
    <2> QED
      BY Zenon, <2>1, <2>2, <2>3
  <1>3. ASSUME "retuned" \notin o, PowerSoon(v), NEW u \in Trx
        PROVE  trx_is_provisioned(v.prov[u])
    <2>1. CASE PowerSoon(w)
      <3>1. trx_is_provisioned(w.prov[u])
        BY Zenon, <1>3, <2>1 DEF Base, ReadyInv
      <3>2. Grown(w.prov[u], v.prov[u])
        BY <1>3 DEF Grown
      <3> QED
        BY Zenon, <3>1, <3>2, ProvisionedFacts
    <2> QED
      BY Zenon, <1>3, <2>1
  <1>4. FirstPower(v)
    <2>1. ASSUME NEW u \in Trx \ {0} PROVE ~Has(v.q[u], "POWERON")
      <3>1. ~Has(w.q[u], "POWERON")
        BY Zenon DEF Base, FirstPower
      <3> QED
        BY Zenon, <3>1
    <2> QED
      BY Zenon, <2>1 DEF FirstPower
  <1> QED
    BY Zenon, <1>1, <1>2, <1>3, <1>4 DEF Base, ClosedInv, ReadyInv

\* l1if_provision_transceiver_trx() of a TRX that is open.
LEMMA Provision ==
    ASSUME setup \in Setups, NEW w, NEW d, NEW o, Base(w, d, o), NEW t \in Trx,
           w.prov[t].st = "OPEN_POWEROFF",
           NEW v, v = l1if_provision_transceiver_trx(w, t)
    PROVE  /\ Base(v, d, o) /\ v.plink = w.plink /\ v.phase = w.phase
           /\ v.prov[t].st = "OPEN_POWEROFF" /\ v.prov[t].enabled = w.prov[t].enabled
           /\ \A u \in Trx \ {t} : v.prov[u] = w.prov[u] /\ v.q[u] = w.q[u]
  <1>1. w \in World
    BY DEF Base
  <1>2. CASE w.plink.state = "SHUTDOWN"
    <2>1. v = w
      BY <1>1, <1>2, ProvisionIs
    <2> QED
      BY <2>1
  <1>3. CASE w.plink.state # "SHUTDOWN"
    <2>1. PICK p : p = w.prov[t]
      OBVIOUS
    <2>2. PICK s : s = w.q[t]
      OBVIOUS
    <2>3. p \in Prov /\ s \in Seq(Msgs)
      BY <1>1, <2>1, <2>2 DEF World
    <2>4. PICK r : r = Provided(p)
      OBVIOUS
    <2>5. PICK z : z = Asked(p, s)
      OBVIOUS
    <2>6. r \in Prov /\ r.st = p.st /\ r.enabled = p.enabled /\ r.slotSent = p.slotSent
      BY <2>3, <2>4, ProvidedIs
    <2>7. z \in Seq(Msgs)
      BY <2>3, <2>5, AskedIs
    <2>8. v = Upd(w, t, r, z)
      BY <1>1, <1>3, <2>1, <2>2, <2>4, <2>5, ProvisionIs
    <2>9. /\ v \in World /\ v.plink = w.plink /\ v.phase = w.phase
          /\ v.prov[t] = r /\ v.q[t] = z
          /\ \A u \in Trx \ {t} : v.prov[u] = w.prov[u] /\ v.q[u] = w.q[u]
      BY <1>1, <2>6, <2>7, <2>8, UpdOf
    <2>10. TrxInv(p, s, d.rx[t], d.tx[t], d.slot[t], o)
      BY Zenon, <2>1, <2>2 DEF Base, Each
    <2>11. "retuned" \notin o => TunedInv(r, z, d.rx[t], d.tx[t]) /\ p.acked \subseteq r.acked
      BY Zenon, <2>3, <2>4, <2>5, <2>10, ProvidedTuned DEF TrxInv
    <2>12. FormatInv(r, z)
      BY Zenon, <2>3, <2>4, <2>5, <2>10, ProvidedFormat DEF TrxInv
    <2>13. r.st = "OPEN_POWEROFF" /\ ~r.slotSent
      BY <2>1, <2>6, <2>10 DEF TrxInv, SlotInv
    <2>14. TrxInv(r, z, d.rx[t], d.tx[t], d.slot[t], o)
      BY <2>11, <2>12, <2>13 DEF TrxInv, SlotInv
    <2>15. ASSUME PowerSoon(v) PROVE PowerSoon(w)
      <3>1. CASE t = 0
        <4>1. Has(z, "POWERON")
          BY <2>9, <2>13, <2>15, <3>1 DEF PowerSoon
        <4> QED
          BY Zenon, <4>1, <2>2, <2>3, <2>5, <3>1, AskedPower DEF PowerSoon
      <3>2. CASE t # 0
        BY Zenon, <2>9, <2>15, <3>2, FirstTrx DEF PowerSoon
      <3> QED
        BY <3>1, <3>2
    <2>16. w.prov[t].st # "CLOSED" /\ v.prov[t].st # "CLOSED"
      BY <2>9, <2>13
    <2>17. TrxInv(v.prov[t], v.q[t], d.rx[t], d.tx[t], d.slot[t], o)
      BY Zenon, <2>9, <2>14
    <2>18. "retuned" \notin o => Grown(w.prov[t], v.prov[t])
      BY <2>1, <2>9, <2>11 DEF Grown
    <2>19. /\ v \in World /\ v.plink = w.plink
           /\ \A u \in Trx \ {t} : v.prov[u] = w.prov[u] /\ v.q[u] = w.q[u]
      BY <2>9
    <2>20. Base(v, d, o)
      <3>1. PowerSoon(v) => PowerSoon(w) \/ \A u \in Trx : trx_is_provisioned(v.prov[u])
        BY Zenon, <2>15
      <3>2. Has(v.q[t], "POWERON") => Has(w.q[t], "POWERON")
        BY Zenon, <2>2, <2>3, <2>5, <2>9, AskedPower
      <3> QED
        BY SMT, <2>19, <3>1, <3>2, <2>16, <2>17, <2>18, BaseUpd
    <2> QED
      BY <2>1, <2>6, <2>9, <2>20
  <1> QED
    BY <1>2, <1>3

LEMMA PutTold ==
    ASSUME NEW s \in Seq(Msgs), NEW m \in Msgs, m.cmd = "SETSLOT", NEW y
    PROVE  Told(Put(s, m), y, m.arg)
  <1>1. CASE Put(s, m) = Append(s, m)
    <2>0. Append(s, m) \in Seq(Msgs)
      OBVIOUS
    <2>1. PICK p \in Seq(Msgs) : p = Append(s, m)
      BY Zenon, <2>0
    <2>2. Len(p) \in Nat /\ Len(p) \in 1 .. Len(p) /\ p[Len(p)] = m
      BY <2>1
    <2>3. Told(p, y, m.arg)
      BY <2>2 DEF Told
    <2> QED
      BY <1>1, <2>1, <2>3
  <1>2. CASE Put(s, m) = s /\ Len(s) >= 1 /\ s[Len(s)] = m
    <2>1. Len(s) \in Nat /\ Len(s) \in 1 .. Len(s)
      BY <1>2
    <2>2. Told(s, y, m.arg)
      BY <1>2, <2>1 DEF Told
    <2> QED
      BY <1>2, <2>2
  <1> QED
    BY <1>1, <1>2, PutOf

\* A message that is neither for tuning nor for the format.
LEMMA PutPlain ==
    ASSUME NEW p, NEW s \in Seq(Msgs), NEW m \in Msgs,
           m.cmd \notin {"RXTUNE", "TXTUNE", "SETFORMAT"}
    PROVE  /\ \A rx, tx : TunedInv(p, s, rx, tx) => TunedInv(p, Put(s, m), rx, tx)
           /\ FormatInv(p, s) => FormatInv(p, Put(s, m))
           /\ Has(Put(s, m), "POWERON") => Has(s, "POWERON") \/ m.cmd = "POWERON"
  <1>1. PICK z : z = Put(s, m)
    OBVIOUS
  <1>2. Range(z) = Range(s) \cup {m}
    BY <1>1, PutRange
  <1>3. Once(s) => Once(z)
    BY Zenon, <1>1, PutOnce
  <1>4. \A rx, tx : TunedInv(p, s, rx, tx) => TunedInv(p, z, rx, tx)
    BY <1>2 DEF TunedInv
  <1>5. FormatInv(p, s) => FormatInv(p, z)
    BY <1>2, <1>3 DEF FormatInv
  <1>6. Has(z, "POWERON") => Has(s, "POWERON") \/ m.cmd = "POWERON"
    BY <1>2 DEF Has
  <1> QED
    BY Zenon, <1>1, <1>4, <1>5, <1>6

LEMMA FormatSt ==
    ASSUME NEW p, NEW r, NEW s, FormatInv(p, s), p.verUse = Agreed,
           r.verReq = p.verReq, r.verUse = p.verUse, r.sent = p.sent, r.acked = p.acked,
           r.tsc = p.tsc
    PROVE  FormatInv(r, s)
  BY DEF FormatInv

LEMMA TunedSt ==
    ASSUME NEW p, NEW r, NEW s, NEW rx, NEW tx, TunedInv(p, s, rx, tx),
           r.sent = p.sent, r.acked = p.acked, r.arfcn = p.arfcn
    PROVE  TunedInv(r, s, rx, tx)
  BY DEF TunedInv

\* st_open_poweron_on_enter().
LEMMA EnterOn ==
    ASSUME setup \in Setups, NEW w, NEW d, NEW o, Base(w, d, o), NEW t \in Trx,
           w.prov[t].st # "CLOSED", ~w.prov[t].slotSent, w.prov[t].verUse = Agreed,
           t = 0 => w.prov[0].st \in {"OPEN_WAIT_POWERON_CNF", "OPEN_POWERON"},
           NEW v, v = EnterOpenPoweron(w, t)
    PROVE  /\ Base(v, d, o) /\ v.plink = w.plink /\ v.phase = w.phase
           /\ v.prov[t].st = "OPEN_POWERON"
           /\ \A u \in Trx \ {t} : v.prov[u] = w.prov[u] /\ v.q[u] = w.q[u]
  <1>1. w \in World /\ w.prov[t] \in Prov /\ w.q[t] \in Seq(Msgs)
    BY DEF Base, World
  <1>2. PICK p \in Prov : p = w.prov[t]
    BY <1>1
  <1>3. PICK s \in Seq(Msgs) : s = w.q[t]
    BY <1>1
  <1>4. PICK m : m = Msg("SETSLOT", p.slot)
    OBVIOUS
  <1>5. m \in Msgs /\ m.cmd = "SETSLOT" /\ m.arg = p.slot
    <2>1. p.slot \in Args /\ "SETSLOT" \in Cmds
      BY ProvTypes DEF Args, Cmds
    <2> QED
      BY <1>4, <2>1, MsgsOf
  <1>6. PICK on : on = [p EXCEPT !.st = "OPEN_POWERON"]
    OBVIOUS
  <1>7. PICK sl : sl = [p EXCEPT !.st = "OPEN_POWERON", !.slotSent = TRUE]
    OBVIOUS
  <1>8. /\ on \in Prov /\ on.st = "OPEN_POWERON" /\ on.slot = p.slot /\ on.slotSent = p.slotSent
        /\ on.verReq = p.verReq /\ on.verUse = p.verUse /\ on.sent = p.sent
        /\ on.acked = p.acked /\ on.tsc = p.tsc /\ on.arfcn = p.arfcn
    BY <1>6 DEF Prov, ProvStates
  <1>9. /\ sl \in Prov /\ sl.st = "OPEN_POWERON" /\ sl.slot = p.slot /\ sl.slotSent
        /\ sl.verReq = p.verReq /\ sl.verUse = p.verUse /\ sl.sent = p.sent
        /\ sl.acked = p.acked /\ sl.tsc = p.tsc /\ sl.arfcn = p.arfcn
    BY <1>7 DEF Prov, ProvStates
  <1>10. v = IF p.slot # None THEN Upd(w, t, sl, Put(s, m)) ELSE Upd(w, t, on, s)
    <2>1. w.prov \in [Trx -> Prov] /\ w.q \in [Trx -> Seq(Msgs)]
          /\ w = [prov |-> w.prov, q |-> w.q, plink |-> w.plink, phase |-> w.phase]
      BY <1>1 DEF World
    <2>2. [w EXCEPT !.prov[t].st = "OPEN_POWERON"] = Upd(w, t, on, s)
      BY <2>1, <1>2, <1>3, <1>6 DEF Upd
    <2>3. Send([[w EXCEPT !.prov[t].st = "OPEN_POWERON"] EXCEPT !.prov[t].slotSent = TRUE], t, m)
            = Upd(w, t, sl, Put(s, m))
      BY <2>1, <1>2, <1>3, <1>7 DEF Upd, Send
    <2> QED
      BY Zenon, <2>2, <2>3, <1>2, <1>4 DEF EnterOpenPoweron
  <1>11. TrxInv(p, s, d.rx[t], d.tx[t], d.slot[t], o)
    BY Zenon, <1>2, <1>3 DEF Base, Each
  <1>12. /\ "retuned" \notin o => TunedInv(p, s, d.rx[t], d.tx[t])
         /\ FormatInv(p, s) /\ p.verUse = Agreed
    BY Zenon, <1>2, <1>11 DEF TrxInv
  <1>13. ASSUME NEW r \in {on, sl}, NEW z \in Seq(Msgs), v = Upd(w, t, r, z),
                TrxInv(r, z, d.rx[t], d.tx[t], d.slot[t], o),
                Has(z, "POWERON") => Has(s, "POWERON")
         PROVE  /\ Base(v, d, o) /\ v.plink = w.plink /\ v.phase = w.phase
                /\ v.prov[t].st = "OPEN_POWERON"
                /\ \A u \in Trx \ {t} : v.prov[u] = w.prov[u] /\ v.q[u] = w.q[u]
    <2>1. r \in Prov /\ r.st = "OPEN_POWERON" /\ r.acked = p.acked
      BY <1>8, <1>9, <1>13
    <2>2. /\ v \in World /\ v.plink = w.plink /\ v.phase = w.phase
          /\ v.prov[t] = r /\ v.q[t] = z
          /\ \A u \in Trx \ {t} : v.prov[u] = w.prov[u] /\ v.q[u] = w.q[u]
      <3>1. v = Upd(w, t, r, z)
        BY <1>13
      <3>2. w \in World /\ r \in Prov
        BY <1>1, <2>1
      <3> QED
        BY SMTT(20), <3>1, <3>2, UpdOf
    <2>3. TrxInv(v.prov[t], v.q[t], d.rx[t], d.tx[t], d.slot[t], o)
      BY Zenon, <1>13, <2>2
    <2>4. Grown(w.prov[t], v.prov[t])
      BY <1>2, <2>1, <2>2 DEF Grown
    <2>5. PowerSoon(v) => PowerSoon(w)
      <3>1. CASE t = 0
        BY <3>1 DEF PowerSoon
      <3>2. CASE t # 0
        BY Zenon, <2>2, <3>2, FirstTrx DEF PowerSoon
      <3> QED
        BY <3>1, <3>2
    <2>6. v.prov[t].st # "CLOSED"
      BY <2>1, <2>2
    <2>7. Has(v.q[t], "POWERON") => Has(w.q[t], "POWERON")
      BY Zenon, <1>3, <1>13, <2>2
    <2>8. Base(v, d, o)
      BY SMT, <2>2, <2>3, <2>4, <2>5, <2>6, <2>7, BaseUpd
    <2> QED
      BY <2>1, <2>2, <2>8
  <1>14. CASE p.slot # None
    <2>1. PICK z : z = Put(s, m)
      OBVIOUS
    <2>2. z \in Seq(Msgs)
      BY <1>5, <2>1, PutOf
    <2>3. ("retuned" \notin o => TunedInv(p, z, d.rx[t], d.tx[t])) /\ FormatInv(p, z)
      BY SMT, <1>5, <1>12, <2>1, PutPlain
    <2>4. ("retuned" \notin o => TunedInv(sl, z, d.rx[t], d.tx[t]))
      BY SMT, <2>3, <1>9, TunedSt
    <2>5. FormatInv(sl, z)
      BY SMT, <2>3, <1>9, <1>12, FormatSt
    <2>6. Told(z, d.slot[t], sl.slot)
      BY <1>5, <1>9, <2>1, PutTold
    <2>7. SlotInv(sl, z, d.slot[t], o)
      BY <2>6, <1>9 DEF SlotInv
    <2>8. Has(z, "POWERON") => Has(s, "POWERON")
      <3>1. m.cmd \notin {"RXTUNE", "TXTUNE", "SETFORMAT"} /\ m.cmd # "POWERON"
        BY <1>5
      <3>2. Has(Put(s, m), "POWERON") => Has(s, "POWERON")
        BY Zenon, <1>5, <3>1, PutPlain
      <3> QED
        BY <2>1, <3>2
    <2>9. TrxInv(sl, z, d.rx[t], d.tx[t], d.slot[t], o)
      BY Zenon, <2>4, <2>5, <2>7 DEF TrxInv
    <2> QED
      BY <1>10, <1>13, <1>14, <2>1, <2>2, <2>8, <2>9
  <1>15. CASE p.slot = None
    <2>1. ("retuned" \notin o => TunedInv(on, s, d.rx[t], d.tx[t]))
      BY SMT, <1>12, <1>8, TunedSt
    <2>2. FormatInv(on, s)
      BY SMT, <1>8, <1>12, FormatSt
    <2>3. SlotInv(on, s, d.slot[t], o)
      BY <1>8, <1>15 DEF SlotInv
    <2>4. TrxInv(on, s, d.rx[t], d.tx[t], d.slot[t], o)
      BY Zenon, <2>1, <2>2, <2>3 DEF TrxInv
    <2> QED
      BY <1>10, <1>13, <1>15, <2>4
  <1> QED
    BY <1>14, <1>15

LEMMA ToPoweron ==
    ASSUME setup \in Setups, NEW w, NEW d, NEW o, Base(w, d, o),
           w.prov[0].st = "OPEN_POWEROFF",
           \A u \in Trx : trx_is_provisioned(w.prov[u]),
           NEW v, v = EnterWaitPoweronCnf(w)
    PROVE  /\ Base(v, d, o) /\ v.plink = w.plink /\ v.phase = w.phase
           /\ v.prov[0].st = "OPEN_WAIT_POWERON_CNF"
           /\ \A u \in Trx \ {0} : v.prov[u] = w.prov[u] /\ v.q[u] = w.q[u]
  <1>0. w \in World /\ 0 \in Trx /\ w.prov[0] \in Prov /\ w.q[0] \in Seq(Msgs)
    BY FirstTrx DEF Base, World
  <1>1. PICK p \in Prov : p = w.prov[0]
    BY <1>0
  <1>2. PICK s \in Seq(Msgs) : s = w.q[0]
    BY <1>0
  <1>3. PICK m : m = Msg("POWERON", None)
    OBVIOUS
  <1>4. m \in Msgs /\ m.cmd = "POWERON"
    BY <1>3, MsgsOf DEF Args, Cmds
  <1>5. PICK r : r = [p EXCEPT !.st = "OPEN_WAIT_POWERON_CNF"]
    OBVIOUS
  <1>6. /\ r \in Prov /\ r.st = "OPEN_WAIT_POWERON_CNF" /\ r.slotSent = p.slotSent
        /\ r.verReq = p.verReq /\ r.verUse = p.verUse /\ r.sent = p.sent
        /\ r.acked = p.acked /\ r.tsc = p.tsc /\ r.arfcn = p.arfcn
    BY <1>5 DEF Prov, ProvStates
  <1>7. PICK z : z = Put(s, m)
    OBVIOUS
  <1>8. z \in Seq(Msgs)
    BY <1>4, <1>7, PutOf
  <1>9. v = Upd(w, 0, r, z)
    <2>1. w.prov \in [Trx -> Prov] /\ w.q \in [Trx -> Seq(Msgs)]
          /\ w = [prov |-> w.prov, q |-> w.q, plink |-> w.plink, phase |-> w.phase]
      BY <1>0 DEF World
    <2> QED
      BY <2>1, <1>0, <1>1, <1>2, <1>3, <1>5, <1>7 DEF EnterWaitPoweronCnf, Send, Upd
  <1>10. /\ v \in World /\ v.plink = w.plink /\ v.phase = w.phase
         /\ v.prov[0] = r /\ v.q[0] = z
         /\ \A u \in Trx \ {0} : v.prov[u] = w.prov[u] /\ v.q[u] = w.q[u]
    <2>1. w \in World /\ 0 \in Trx /\ r \in Prov
      BY <1>0, <1>6
    <2> QED
      BY <2>1, <1>8, <1>9, UpdOf
  <1>11. TrxInv(p, s, d.rx[0], d.tx[0], d.slot[0], o)
    BY Zenon, <1>0, <1>1, <1>2 DEF Base, Each
  <1>12. p.verUse = Agreed /\ ~p.slotSent /\ FormatInv(p, s)
    <2>1. trx_is_provisioned(p)
      BY Zenon, <1>0, <1>1
    <2>2. "SETFORMAT" \in p.acked
      BY <2>1, ProvisionedFacts
    <2> QED
      BY <1>1, <2>2, <1>11 DEF TrxInv, FormatInv, SlotInv
  <1>13. m.cmd \notin {"RXTUNE", "TXTUNE", "SETFORMAT"}
    BY <1>4
  <1>14. "retuned" \notin o => TunedInv(r, z, d.rx[0], d.tx[0])
    <2>1. "retuned" \notin o => TunedInv(p, z, d.rx[0], d.tx[0])
      BY SMT, <1>4, <1>7, <1>11, <1>13, PutPlain DEF TrxInv
    <2> QED
      BY SMT, <2>1, <1>6, TunedSt
  <1>15. FormatInv(r, z)
    <2>1. FormatInv(p, z)
      BY SMT, <1>4, <1>7, <1>12, <1>13, PutPlain
    <2> QED
      BY SMT, <2>1, <1>6, <1>12, FormatSt
  <1>16. TrxInv(v.prov[0], v.q[0], d.rx[0], d.tx[0], d.slot[0], o)
    <2>1. SlotInv(r, z, d.slot[0], o)
      BY <1>6, <1>12 DEF SlotInv
    <2> QED
      BY Zenon, <2>1, <1>10, <1>14, <1>15 DEF TrxInv
  <1>17. Grown(w.prov[0], v.prov[0])
    BY <1>1, <1>6, <1>10 DEF Grown
  <1>18. \A u \in Trx : trx_is_provisioned(v.prov[u])
    BY Zenon, <1>10, <1>17, ProvisionedFacts
  <1>19. /\ v.prov[0].st = "OPEN_WAIT_POWERON_CNF"
         /\ v.prov[0].st # "CLOSED"
         /\ w.prov[0].st # "CLOSED"
    BY <1>6, <1>10
  <1>20. Base(v, d, o)
    BY SMT, <1>0, <1>10, <1>16, <1>17, <1>18, <1>19, BaseUpd
  <1> QED
    BY <1>10, <1>19, <1>20

\* TRX 0 provisions itself, and asks for power when all are provisioned.
FirstOnly(w, v) ==
    /\ v.plink = w.plink /\ v.phase = w.phase
    /\ v.prov[0].st \in {"OPEN_POWEROFF", "OPEN_WAIT_POWERON_CNF"}
    /\ \A u \in Trx \ {0} : v.prov[u] = w.prov[u] /\ v.q[u] = w.q[u]

LEMMA PoweroffOfFirst ==
    ASSUME setup \in Setups, NEW w, NEW d, NEW o, Base(w, d, o),
           w.prov[0].st = "OPEN_POWEROFF"
    PROVE  Base(OpenPoweroff0(w), d, o) /\ FirstOnly(w, OpenPoweroff0(w))
  <1> DEFINE v == OpenPoweroff0(w)
  <1> HIDE DEF v
  <1>1. PICK x : x = l1if_provision_transceiver_trx(w, 0)
    OBVIOUS
  <1>2. /\ Base(x, d, o) /\ x.plink = w.plink /\ x.phase = w.phase
        /\ x.prov[0].st = "OPEN_POWEROFF"
        /\ \A u \in Trx \ {0} : x.prov[u] = w.prov[u] /\ x.q[u] = w.q[u]
    BY SMT, <1>1, FirstTrx, Provision
  <1>3. CASE x.prov[0].enabled /\ trx_is_provisioned(x.prov[0]) /\ trx_other_trx0_ready(x)
    <2>1. v = EnterWaitPoweronCnf(x)
      BY Zenon, <1>1, <1>3 DEF OpenPoweroff0, v
    <2>2. \A u \in Trx : trx_is_provisioned(x.prov[u])
      BY Zenon, <1>3 DEF trx_other_trx0_ready
    <2>3. /\ Base(v, d, o) /\ v.plink = x.plink /\ v.phase = x.phase
          /\ v.prov[0].st = "OPEN_WAIT_POWERON_CNF"
          /\ \A u \in Trx \ {0} : v.prov[u] = x.prov[u] /\ v.q[u] = x.q[u]
      BY SMT, <1>2, <2>1, <2>2, ToPoweron
    <2> QED
      BY <1>2, <2>3 DEF FirstOnly, v
  <1>4. CASE ~(x.prov[0].enabled /\ trx_is_provisioned(x.prov[0]) /\ trx_other_trx0_ready(x))
    <2>1. v = x
      BY Zenon, <1>1, <1>4 DEF OpenPoweroff0, v
    <2> QED
      BY <1>2, <2>1 DEF FirstOnly, v
  <1> QED
    BY <1>3, <1>4

LEMMA ChangeIs ==
    ASSUME NEW w \in World, NEW t \in Trx, NEW p \in Prov
    PROVE  [w EXCEPT !.prov[t] = p] = Upd(w, t, p, w.q[t])
  <1>1. w.prov \in [Trx -> Prov] /\ w.q \in [Trx -> Seq(Msgs)]
        /\ w = [prov |-> w.prov, q |-> w.q, plink |-> w.plink, phase |-> w.phase]
    BY DEF World
  <1> QED
    BY <1>1 DEF Upd

\* The event of a TRX has changed its configuration to p.
LEMMA Changed ==
    ASSUME setup \in Setups, NEW w, NEW d, NEW o, Base(w, d, o), NEW t \in Trx, NEW p \in Prov,
           w.prov[t].st = "OPEN_POWEROFF", p.st = "OPEN_POWEROFF",
           TrxInv(p, w.q[t], d.rx[t], d.tx[t], d.slot[t], o),
           "retuned" \notin o => Grown(w.prov[t], p),
           NEW v, v = Upd(w, t, p, w.q[t])
    PROVE  /\ Base(v, d, o) /\ v.plink = w.plink /\ v.phase = w.phase /\ v.prov[t] = p
           /\ \A u \in Trx \ {t} : v.prov[u] = w.prov[u] /\ v.q[u] = w.q[u]
  <1>1. w \in World /\ w.q[t] \in Seq(Msgs)
    BY DEF Base, World
  <1>2. PICK s \in Seq(Msgs) : s = w.q[t]
    BY <1>1
  <1>3. /\ v \in World /\ v.plink = w.plink /\ v.phase = w.phase
        /\ v.prov[t] = p /\ v.q[t] = s
        /\ \A u \in Trx \ {t} : v.prov[u] = w.prov[u] /\ v.q[u] = w.q[u]
    <2>1. w \in World /\ v = Upd(w, t, p, s)
      BY <1>1, <1>2
    <2> QED
      BY SMT, <2>1, UpdOf
  <1>4. TrxInv(v.prov[t], v.q[t], d.rx[t], d.tx[t], d.slot[t], o)
    BY Zenon, <1>2, <1>3
  <1>5. PowerSoon(v) => PowerSoon(w)
    <2>1. v.q[0] = w.q[0] /\ v.prov[0].st = w.prov[0].st
      BY <1>2, <1>3, FirstTrx
    <2> QED
      BY Zenon, <2>1 DEF PowerSoon
  <1>6. ("retuned" \notin o => Grown(w.prov[t], v.prov[t]))
        /\ v.prov[t].st # "CLOSED" /\ w.prov[t].st # "CLOSED"
    BY <1>3
  <1>7. PowerSoon(v) => PowerSoon(w) \/ \A u \in Trx : trx_is_provisioned(v.prov[u])
    BY Zenon, <1>5
  <1>8. /\ v \in World /\ v.plink = w.plink
        /\ \A u \in Trx \ {t} : v.prov[u] = w.prov[u] /\ v.q[u] = w.q[u]
    BY <1>3
  <1>9. Has(v.q[t], "POWERON") => Has(w.q[t], "POWERON")
    BY Zenon, <1>2, <1>3
  <1>10. Base(v, d, o)
    BY SMT, <1>8, <1>4, <1>7, <1>6, <1>9, BaseUpd
  <1> QED
    BY <1>3, <1>10

\* An event of TRX t in OPEN_POWEROFF, which may have TRX 0 power on.
LEMMA EventKeeps ==
    ASSUME NEW w, NEW d, NEW o, WorldInv(w, d, o), NEW t \in Trx, w.prov[t].st = "OPEN_POWEROFF",
           NEW v, Base(v, d, o), v.plink = w.plink, v.phase = w.phase,
           \A u \in Trx \ {0, t} : v.prov[u] = w.prov[u],
           \/ v.prov[0] = w.prov[0]
           \/ /\ w.prov[0].st = "OPEN_POWEROFF"
              /\ v.prov[0].st \in {"OPEN_POWEROFF", "OPEN_WAIT_POWERON_CNF"},
           t # 0 => /\ OtherInv(v.prov[t])
                    /\ w.phase = "closing" /\ ~w.prov[t].enabled =>
                          v.prov[t].st = "OPEN_POWEROFF" /\ ~v.prov[t].enabled
    PROVE  WorldInv(v, d, o)
  <1>1. Others(v)
    <2>1. ASSUME NEW u \in Trx \ {0} PROVE OtherInv(v.prov[u])
      <3>1. CASE u = t
        BY Zenon, <3>1
      <3>2. CASE u # t
        <4>1. v.prov[u] = w.prov[u] /\ OtherInv(w.prov[u])
          BY Zenon, <3>2 DEF WorldInv, Others
        <4> QED
          BY Zenon, <4>1
      <3> QED
        BY <3>1, <3>2
    <2> QED
      BY Zenon, <2>1 DEF Others
  <1>2. ASSUME Regular(o), v.prov[0].st = "OPEN_WAIT_POWEROFF_CNF"
        PROVE  /\ v.phase = "closing"
               /\ \A u \in Trx \ {0} : /\ v.prov[u].st # "OPEN_POWERON"
                                       /\ v.prov[u].st = "OPEN_POWEROFF" => ~v.prov[u].enabled
    <2>1. v.prov[0] = w.prov[0]
      BY <1>2
    <2>2. /\ w.phase = "closing"
          /\ \A u \in Trx \ {0} : /\ w.prov[u].st # "OPEN_POWERON"
                                  /\ w.prov[u].st = "OPEN_POWEROFF" => ~w.prov[u].enabled
      BY <1>2, <2>1 DEF WorldInv, ClosingInv
    <2>3. t # 0
      BY <1>2, <2>1
    <2>4. v.prov[t].st = "OPEN_POWEROFF" /\ ~v.prov[t].enabled
      BY <2>2, <2>3
    <2>5. ASSUME NEW u \in Trx \ {0}
          PROVE  /\ v.prov[u].st # "OPEN_POWERON"
                 /\ v.prov[u].st = "OPEN_POWEROFF" => ~v.prov[u].enabled
      <3>1. CASE u = t
        BY <2>4, <3>1
      <3>2. CASE u # t
        BY <2>2, <3>2
      <3> QED
        BY <3>1, <3>2
    <2> QED
      BY <2>2, <2>5
  <1>3. DownInv(v, o)
    BY DEF WorldInv, DownInv
  <1> QED
    BY Zenon, <1>1, <1>2, <1>3 DEF WorldInv, Base, ClosingInv

LEMMA StOpenPoweroff ==
    ASSUME setup \in Setups, NEW w, NEW d, NEW o, WorldInv(w, d, o), NEW t \in Trx, NEW p \in Prov,
           w.prov[t].st = "OPEN_POWEROFF", p.st = "OPEN_POWEROFF",
           TrxInv(p, w.q[t], d.rx[t], d.tx[t], d.slot[t], o),
           "retuned" \notin o => Grown(w.prov[t], p),
           w.phase = "closing" => p.enabled = w.prov[t].enabled
    PROVE  WorldInv(st_open_poweroff(w, t, p), d, o)
  <1>0. Base(w, d, o) /\ w \in World
    BY DEF WorldInv, Base
  <1>1. PICK x1 : x1 = Upd(w, t, p, w.q[t])
    OBVIOUS
  <1>2. x1 = [w EXCEPT !.prov[t] = p]
    BY Zenon, <1>0, <1>1, ChangeIs
  <1>3. /\ Base(x1, d, o) /\ x1.plink = w.plink /\ x1.phase = w.phase /\ x1.prov[t] = p
        /\ \A u \in Trx \ {t} : x1.prov[u] = w.prov[u] /\ x1.q[u] = w.q[u]
    BY SMT, <1>0, <1>1, Changed
  <1>4. PICK v : v = st_open_poweroff(w, t, p)
    OBVIOUS
  <1>5. CASE t = 0
    <2>1. v = OpenPoweroff0(x1)
      BY Zenon, <1>2, <1>4, <1>5 DEF st_open_poweroff
    <2>2. x1.prov[0].st = "OPEN_POWEROFF"
      BY <1>3, <1>5
    <2>3. /\ Base(v, d, o) /\ v.plink = x1.plink /\ v.phase = x1.phase
          /\ v.prov[0].st \in {"OPEN_POWEROFF", "OPEN_WAIT_POWERON_CNF"}
          /\ \A u \in Trx \ {0} : v.prov[u] = x1.prov[u] /\ v.q[u] = x1.q[u]
      <3>1. Base(x1, d, o)
        BY <1>3
      <3> QED
        BY Zenon, <2>1, <2>2, <3>1, PoweroffOfFirst DEF FirstOnly
    <2>4. /\ v.plink = w.plink /\ v.phase = w.phase
          /\ \A u \in Trx \ {0, t} : v.prov[u] = w.prov[u]
      BY <1>3, <1>5, <2>3
    <2>5. w.prov[0].st = "OPEN_POWEROFF"
      BY <1>5
    <2>6. WorldInv(v, d, o)
      BY SMT, <1>5, <2>3, <2>4, <2>5, EventKeeps
    <2> QED
      BY <1>4, <2>6
  <1>6. CASE t # 0
    <2>1. PICK x2 : x2 = l1if_provision_transceiver_trx(x1, t)
      OBVIOUS
    <2>2. x1.prov[t].st = "OPEN_POWEROFF"
      BY <1>3
    <2>3. /\ Base(x2, d, o) /\ x2.plink = x1.plink /\ x2.phase = x1.phase
          /\ x2.prov[t].st = "OPEN_POWEROFF" /\ x2.prov[t].enabled = x1.prov[t].enabled
          /\ \A u \in Trx \ {t} : x2.prov[u] = x1.prov[u] /\ x2.q[u] = x1.q[u]
      BY SMT, <1>3, <2>1, <2>2, Provision
    <2>4. PICK x3 : x3 = IF ~trx_is_provisioned(w.prov[t]) /\ trx_is_provisioned(x2.prov[t])
                         THEN trx_signal_ready_trx0(x2) ELSE x2
      OBVIOUS
    <2>5. /\ Base(x3, d, o) /\ x3.plink = x2.plink /\ x3.phase = x2.phase
          /\ \A u \in Trx \ {0} : x3.prov[u] = x2.prov[u]
          /\ \/ x3.prov[0] = x2.prov[0]
             \/ /\ x2.prov[0].st = "OPEN_POWEROFF"
                /\ x3.prov[0].st \in {"OPEN_POWEROFF", "OPEN_WAIT_POWERON_CNF"}
      <3>1. CASE x2.prov[0].st = "OPEN_POWEROFF" /\ x3 = OpenPoweroff0(x2)
        <4>1. Base(x2, d, o) /\ x2.prov[0].st = "OPEN_POWEROFF" /\ x3 = OpenPoweroff0(x2)
          BY <2>3, <3>1
        <4>2. /\ Base(x3, d, o) /\ x3.plink = x2.plink /\ x3.phase = x2.phase
              /\ x3.prov[0].st \in {"OPEN_POWEROFF", "OPEN_WAIT_POWERON_CNF"}
              /\ \A u \in Trx \ {0} : x3.prov[u] = x2.prov[u] /\ x3.q[u] = x2.q[u]
          BY Zenon, <4>1, PoweroffOfFirst DEF FirstOnly
        <4> QED
          BY <4>1, <4>2
      <3>2. CASE x3 = x2
        BY <2>3, <3>2
      <3>3. (x2.prov[0].st = "OPEN_POWEROFF" /\ x3 = OpenPoweroff0(x2)) \/ x3 = x2
        BY Zenon, <2>4 DEF trx_signal_ready_trx0
      <3> QED
        BY <3>1, <3>2, <3>3
    <2>6. x3.prov[t].st = "OPEN_POWEROFF" /\ x3.prov[t].enabled = p.enabled
      BY <1>3, <1>6, <2>3, <2>5
    <2>7. v = IF x3.prov[t].enabled /\ trx_is_provisioned(x3.prov[t])
              THEN EnterOpenPoweron(x3, t) ELSE x3
      BY Zenon, <1>2, <1>4, <1>6, <2>1, <2>4 DEF st_open_poweroff
    <2>8. /\ \A u \in Trx \ {0, t} : x3.prov[u] = w.prov[u]
          /\ x3.plink = w.plink /\ x3.phase = w.phase
          /\ \/ x3.prov[0] = w.prov[0]
             \/ /\ w.prov[0].st = "OPEN_POWEROFF"
                /\ x3.prov[0].st \in {"OPEN_POWEROFF", "OPEN_WAIT_POWERON_CNF"}
      BY <1>3, <1>6, <2>3, <2>5, FirstTrx
    <2>9. CASE x3.prov[t].enabled /\ trx_is_provisioned(x3.prov[t])
      <3>1. v = EnterOpenPoweron(x3, t)
        BY Zenon, <2>7, <2>9
      <3>2. ~x3.prov[t].slotSent /\ x3.prov[t].verUse = Agreed
        <4>1. TrxInv(x3.prov[t], x3.q[t], d.rx[t], d.tx[t], d.slot[t], o)
          BY Zenon, <2>5 DEF Base, Each
        <4>2. "SETFORMAT" \in x3.prov[t].acked
          BY <2>9, ProvisionedFacts
        <4> QED
          BY <4>1, <4>2, <2>6 DEF TrxInv, FormatInv, SlotInv
      <3>3. /\ Base(v, d, o) /\ v.plink = x3.plink /\ v.phase = x3.phase
            /\ v.prov[t].st = "OPEN_POWERON"
            /\ \A u \in Trx \ {t} : v.prov[u] = x3.prov[u] /\ v.q[u] = x3.q[u]
        <4>1. x3.prov[t].st # "CLOSED" /\ Base(x3, d, o)
          BY <2>5, <2>6
        <4> QED
          BY SMT, <1>6, <4>1, <3>1, <3>2, EnterOn
      <3>4. OtherInv(v.prov[t])
        BY <3>3 DEF OtherInv
      <3>5. ~(w.phase = "closing" /\ ~w.prov[t].enabled)
        BY <2>6, <2>9
      <3>6. /\ \A u \in Trx \ {0, t} : v.prov[u] = w.prov[u]
            /\ v.plink = w.plink /\ v.phase = w.phase
            /\ \/ v.prov[0] = w.prov[0]
               \/ /\ w.prov[0].st = "OPEN_POWEROFF"
                  /\ v.prov[0].st \in {"OPEN_POWEROFF", "OPEN_WAIT_POWERON_CNF"}
        BY <1>6, <2>8, <3>3, FirstTrx
      <3>7. WorldInv(v, d, o)
        BY SMT, <3>3, <3>4, <3>5, <3>6, EventKeeps
      <3> QED
        BY <1>4, <3>7
    <2>10. CASE ~(x3.prov[t].enabled /\ trx_is_provisioned(x3.prov[t]))
      <3>1. v = x3
        BY Zenon, <2>7, <2>10
      <3>2. OtherInv(x3.prov[t])
        BY Zenon, <2>6, <2>10 DEF OtherInv
      <3>3. w.phase = "closing" /\ ~w.prov[t].enabled =>
               x3.prov[t].st = "OPEN_POWEROFF" /\ ~x3.prov[t].enabled
        BY <2>6
      <3>4. WorldInv(x3, d, o)
        BY SMT, <2>5, <2>8, <3>2, <3>3, EventKeeps
      <3> QED
        BY <1>4, <3>1, <3>4
    <2> QED
      BY <2>9, <2>10
  <1> QED
    BY <1>5, <1>6

-----------------------------------------------------------------------------
(* The link and the phase.                                                 *)

\* More rare events leave less to show.
LEMMA Monotone ==
    ASSUME NEW w, NEW d, NEW o, WorldInv(w, d, o), NEW e
    PROVE  WorldInv(w, d, o \cup {e})
  <1>1. /\ Regular(o \cup {e}) => Regular(o)
        /\ "retuned" \notin o \cup {e} => "retuned" \notin o
        /\ o \cup {e} # {}
    BY DEF Regular
  <1>2. Each(w, d, o \cup {e})
    BY Zenon, <1>1 DEF WorldInv, Each, TrxInv, SlotInv
  <1> QED
    BY Zenon, <1>1, <1>2 DEF WorldInv, ReadyInv, ClosingInv, DownInv

LEMMA Relinked ==
    ASSUME NEW w, NEW d, NEW o, WorldInv(w, d, o), NEW v, v \in World,
           v.prov = w.prov, v.q = w.q,
           v.plink.state \in {"SHUTDOWN", w.plink.state} \/ w.prov[0].st # "CLOSED",
           v.plink.state = "SHUTDOWN" => w.plink.state = "SHUTDOWN" \/ o # {},
           Regular(o) /\ w.prov[0].st = "OPEN_WAIT_POWEROFF_CNF" => v.phase = "closing"
    PROVE  WorldInv(v, d, o)
  <1>1. Each(v, d, o)
    BY Zenon DEF WorldInv, Each
  <1>2. Others(v)
    BY Zenon DEF WorldInv, Others
  <1>3. ClosedInv(v)
    BY DEF WorldInv, ClosedInv
  <1>4. ReadyInv(v, o)
    BY Zenon DEF WorldInv, ReadyInv, PowerSoon
  <1>5. ClosingInv(v, o)
    BY Zenon DEF WorldInv, ClosingInv
  <1>6. DownInv(v, o)
    BY DEF WorldInv, DownInv
  <1>7. FirstPower(v)
    BY Zenon DEF WorldInv, FirstPower
  <1> QED
    BY Zenon, <1>1, <1>2, <1>3, <1>4, <1>5, <1>6, <1>7 DEF WorldInv

\* A TRX that was just opened.
Fresh(p) ==
    /\ p \in Prov
    /\ p.st = "OPEN_POWEROFF" /\ ~p.enabled /\ p.arfcn = None /\ p.sent = {} /\ p.acked = {}
    /\ ~p.slotSent /\ p.verReq = PduVerMax
Mute(s) == s \in Seq(Msgs) /\ \A m \in Range(s) : m.cmd \in {"POWEROFF_NOCB", "RFMUTE"}

LEMMA PutMute ==
    ASSUME NEW s, Mute(s), NEW c \in {"POWEROFF_NOCB", "RFMUTE"}
    PROVE  Mute(Put(s, Msg(c, None)))
  <1>1. Msg(c, None) \in Msgs /\ Msg(c, None).cmd = c
    BY MsgsOf DEF Cmds, Args
  <1>2. PICK m : m = Msg(c, None)
    OBVIOUS
  <1>3. Put(s, m) \in Seq(Msgs) /\ Range(Put(s, m)) = Range(s) \cup {m}
    BY <1>1, <1>2, PutOf, PutRange DEF Mute
  <1> QED
    BY <1>1, <1>2, <1>3 DEF Mute

LEMMA ResetFresh ==
    ASSUME setup \in Setups, NEW p \in Prov
    PROVE  /\ Fresh([trx_provision_reset(p) EXCEPT !.st = "OPEN_POWEROFF"])
           /\ trx_provision_reset(p) \in Prov /\ trx_provision_reset(p).st = p.st
  <1>1. PduVerMax \in 0 .. PduVerMax /\ 0 \in 0 .. PduVerMax
    BY SetupTypes
  <1>2. PICK r : r = trx_provision_reset(p)
    OBVIOUS
  <1>3. /\ r \in Prov /\ r.st = p.st /\ ~r.enabled /\ r.arfcn = None /\ r.sent = {}
        /\ r.acked = {} /\ ~r.slotSent /\ r.verReq = PduVerMax
    BY <1>1, <1>2 DEF trx_provision_reset, Prov
  <1>4. PICK z : z = [r EXCEPT !.st = "OPEN_POWEROFF"]
    OBVIOUS
  <1>5. Fresh(z)
    BY <1>3, <1>4 DEF Fresh, Prov, ProvStates
  <1> QED
    BY <1>2, <1>3, <1>4, <1>5

LEMMA OpenedTrx ==
    ASSUME setup \in Setups, NEW w \in World, NEW t \in Trx, w.prov[t].st = "CLOSED",
           w.q[t] = <<>>
    PROVE  Fresh(st_closed(w, t).prov[t]) /\ Mute(st_closed(w, t).q[t])
  <1>0. w.prov \in [Trx -> Prov] /\ w.q \in [Trx -> Seq(Msgs)]
        /\ w = [prov |-> w.prov, q |-> w.q, plink |-> w.plink, phase |-> w.phase]
    BY DEF World
  <1>1. PICK p : p = [trx_provision_reset(w.prov[t]) EXCEPT !.st = "OPEN_POWEROFF"]
    OBVIOUS
  <1>2. Fresh(p)
    BY Zenon, <1>0, <1>1, ResetFresh
  <1>3. PICK m0 : m0 = Msg("POWEROFF_NOCB", None)
    OBVIOUS
  <1>4. PICK m : m = Msg("RFMUTE", None)
    OBVIOUS
  <1>5. PICK s : s = w.q[t]
    OBVIOUS
  <1>6. Mute(s)
    BY <1>5, EmptyRange DEF Mute
  <1>7. PICK x : x = IF t = 0 THEN Put(s, m0) ELSE s
    OBVIOUS
  <1>8. Mute(x)
    BY Zenon, <1>3, <1>6, <1>7, PutMute
  <1>9. PICK z : z = Put(x, m)
    OBVIOUS
  <1>10. Mute(z)
    BY Zenon, <1>4, <1>8, <1>9, PutMute
  <1>11. PICK off : off = IF t = 0 THEN Send(w, t, m0) ELSE w
    OBVIOUS
  <1>12. off \in World /\ off.q[t] = x
    <2>1. CASE t = 0
      <3>1. m0 \in Msgs
        BY <1>3, MsgsOf DEF Cmds, Args
      <3>2. off = Upd(w, t, w.prov[t], x)
        BY Zenon, <1>5, <1>7, <1>11, <2>1, <3>1, SendIs
      <3>3. x \in Seq(Msgs) /\ w.prov[t] \in Prov
        BY <1>0, <1>8 DEF Mute
      <3> QED
        BY <3>2, <3>3, UpdOf
    <2>2. CASE t # 0
      BY Zenon, <1>5, <1>7, <1>11, <2>2
    <2> QED
      BY <2>1, <2>2
  <1>13. PICK y : y = [off EXCEPT !.prov[t] = p]
    OBVIOUS
  <1>14. y \in World /\ y.prov[t] = p /\ y.q[t] = x
    <2>1. p \in Prov /\ x \in Seq(Msgs)
      BY <1>2, <1>8 DEF Fresh, Mute
    <2>2. y = Upd(off, t, p, x)
      BY Zenon, <1>12, <1>13, <2>1, ChangeIs
    <2> QED
      BY <1>12, <2>1, <2>2, UpdOf
  <1>15. PICK v : v = st_closed(w, t)
    OBVIOUS
  <1>16. v.prov[t] = p /\ v.q[t] = z
    <2>1. p \in Prov /\ z \in Seq(Msgs) /\ m \in Msgs
      BY <1>2, <1>4, <1>10, MsgsOf DEF Fresh, Mute, Cmds, Args
    <2>2. v = Send(y, t, m)
      BY Zenon, <1>1, <1>3, <1>4, <1>11, <1>13, <1>15 DEF st_closed
    <2>3. v = Upd(y, t, p, z)
      BY Zenon, <1>9, <1>14, <2>1, <2>2, SendIs
    <2> QED
      BY <1>14, <2>1, <2>3, UpdOf
  <1> QED
    BY Zenon, <1>2, <1>10, <1>15, <1>16

LEMMA FreshInv ==
    ASSUME NEW p, NEW s, Fresh(p), Mute(s), NEW rx, NEW tx, NEW y, NEW o
    PROVE  TrxInv(p, s, rx, tx, y, o) /\ OtherInv(p) /\ ~Has(s, "POWERON")
  <1>1. TunedInv(p, s, rx, tx)
    BY DEF Fresh, Mute, TunedInv
  <1>2. Once(s)
    <2>1. \A i \in 1 .. Len(s) : s[i] \in Range(s)
      <3>1. DOMAIN s = 1 .. Len(s)
        BY DEF Mute
      <3> QED
        BY Zenon, <3>1 DEF Range
    <2> QED
      BY <2>1 DEF Mute, Once
  <1>3. FormatInv(p, s)
    BY <1>2 DEF Fresh, Mute, FormatInv
  <1>4. SlotInv(p, s, y, o)
    BY DEF Fresh, SlotInv
  <1>5. OtherInv(p) /\ ~Has(s, "POWERON")
    BY DEF Fresh, Mute, OtherInv, Has
  <1> QED
    BY Zenon, <1>1, <1>3, <1>4, <1>5 DEF TrxInv

LEMMA LinkOpen ==
    ASSUME setup \in Setups, NEW w, NEW d, NEW o, WorldInv(w, d, o),
           NEW v, v = bts_model_phy_link_open(w)
    PROVE  WorldInv(v, d, o)
  <1>1. w \in World /\ ClosedInv(w)
    BY DEF WorldInv
  <1>2. /\ v.prov = [t \in Trx |-> st_closed(w, t).prov[t]]
        /\ v.q = [t \in Trx |-> st_closed(w, t).q[t]]
        /\ v.plink = [w.plink EXCEPT !.state = "CONNECTING"] /\ v.phase = w.phase
        /\ v = [prov |-> v.prov, q |-> v.q, plink |-> v.plink, phase |-> v.phase]
    BY <1>1 DEF bts_model_phy_link_open, World
  <1>3. ASSUME NEW t \in Trx
        PROVE  /\ w.prov[t].st = "CLOSED" => Fresh(v.prov[t]) /\ Mute(v.q[t])
               /\ w.prov[t].st # "CLOSED" => v.prov[t] = w.prov[t] /\ v.q[t] = w.q[t]
               /\ v.prov[t] \in Prov /\ v.q[t] \in Seq(Msgs)
    <2>1. v.prov[t] = st_closed(w, t).prov[t] /\ v.q[t] = st_closed(w, t).q[t]
      BY <1>2
    <2>2. CASE w.prov[t].st = "CLOSED"
      <3>1. w.q[t] = <<>>
        BY <1>1, <2>2 DEF ClosedInv
      <3>2. Fresh(v.prov[t]) /\ Mute(v.q[t])
        BY Zenon, <1>1, <2>1, <2>2, <3>1, OpenedTrx
      <3> QED
        BY Zenon, <2>2, <3>2 DEF Fresh, Mute
    <2>3. CASE w.prov[t].st # "CLOSED"
      <3>1. st_closed(w, t) = w
        BY Zenon, <2>3 DEF st_closed
      <3>2. w.prov[t] \in Prov /\ w.q[t] \in Seq(Msgs)
        BY <1>1 DEF World
      <3> QED
        BY <2>1, <2>3, <3>1, <3>2
    <2> QED
      BY <2>2, <2>3
  <1>4. v \in World
    <2>1. v.prov \in [Trx -> Prov] /\ v.q \in [Trx -> Seq(Msgs)]
      <3>1. DOMAIN v.prov = Trx /\ v.prov = [t \in Trx |-> v.prov[t]]
            /\ v.q = [t \in Trx |-> v.q[t]]
        BY <1>2
      <3> QED
        BY <1>3, <3>1
    <2>2. v.plink \in Links /\ v.phase \in Phases
      BY <1>1, <1>2 DEF World, Links
    <2> QED
      BY <1>2, <2>1, <2>2 DEF World
  <1>5. Each(v, d, o)
    <2>1. ASSUME NEW t \in Trx
          PROVE  TrxInv(v.prov[t], v.q[t], d.rx[t], d.tx[t], d.slot[t], o)
      <3>1. CASE w.prov[t].st = "CLOSED"
        BY Zenon, <1>3, <3>1, FreshInv
      <3>2. CASE w.prov[t].st # "CLOSED"
        BY Zenon, <1>3, <3>2 DEF WorldInv, Each
      <3> QED
        BY <3>1, <3>2
    <2> QED
      BY Zenon, <2>1 DEF Each
  <1>6. Others(v)
    <2>1. ASSUME NEW t \in Trx \ {0} PROVE OtherInv(v.prov[t])
      <3>1. CASE w.prov[t].st = "CLOSED"
        BY Zenon, <1>3, <3>1, FreshInv
      <3>2. CASE w.prov[t].st # "CLOSED"
        BY Zenon, <1>3, <3>2 DEF WorldInv, Others
      <3> QED
        BY <3>1, <3>2
    <2> QED
      BY Zenon, <2>1 DEF Others
  <1>7. FirstPower(v)
    <2>1. ASSUME NEW t \in Trx \ {0} PROVE ~Has(v.q[t], "POWERON")
      <3>1. CASE w.prov[t].st = "CLOSED"
        BY Zenon, <1>3, <3>1, FreshInv
      <3>2. CASE w.prov[t].st # "CLOSED"
        BY Zenon, <1>3, <3>2 DEF WorldInv, FirstPower
      <3> QED
        BY <3>1, <3>2
    <2> QED
      BY Zenon, <2>1 DEF FirstPower
  <1>8. ASSUME NEW t \in Trx PROVE v.prov[t].st # "CLOSED"
    BY <1>3 DEF Fresh
  <1>9. ASSUME w.prov[0].st # "CLOSED" PROVE \A t \in Trx : v.prov[t] = w.prov[t] /\ v.q[t] = w.q[t]
    BY <1>1, <1>3, <1>9 DEF ClosedInv
  <1>10. CASE w.prov[0].st = "CLOSED"
    <2>1. v.prov[0].st = "OPEN_POWEROFF" /\ ~Has(v.q[0], "POWERON")
      BY Zenon, <1>3, <1>10, FirstTrx, FreshInv DEF Fresh
    <2> QED
      BY <1>2, <1>4, <1>5, <1>6, <1>8, <1>7, <2>1
      DEF WorldInv, ClosedInv, ReadyInv, PowerSoon, ClosingInv, DownInv
  <1>11. CASE w.prov[0].st # "CLOSED"
    <2>1. \A t \in Trx : v.prov[t] = w.prov[t] /\ v.q[t] = w.q[t]
      BY <1>9, <1>11
    <2>2. ReadyInv(v, o)
      BY Zenon, <2>1, FirstTrx DEF WorldInv, ReadyInv, PowerSoon
    <2>3. ClosingInv(v, o)
      BY ZenonT(30), <1>2, <2>1, FirstTrx DEF WorldInv, ClosingInv
    <2>4. ClosedInv(v)
      BY Zenon, <1>8 DEF ClosedInv
    <2>5. DownInv(v, o)
      BY <1>2 , <1>1 DEF DownInv, World, Links
    <2> QED
      BY Zenon, <1>4, <1>5, <1>6, <1>7, <2>2, <2>3, <2>4, <2>5 DEF WorldInv
  <1> QED
    BY <1>10, <1>11

-----------------------------------------------------------------------------
(* Closing.                                                                *)

LEMMA ToClosedTrx ==
    ASSUME NEW p \in Prov, NEW s, NEW rx, NEW tx, NEW y, NEW o, TrxInv(p, s, rx, tx, y, o),
           Regular(o) => p.st # "OPEN_POWERON",
           NEW r, r = ToClosed(p)
    PROVE  /\ TrxInv(r, <<>>, rx, tx, y, o) /\ r \in Prov
           /\ OtherInv(p) => OtherInv(r)
           /\ p.st \notin {"OPEN_WAIT_POWERON_CNF", "OPEN_POWERON"} => r.st = "CLOSED"
  <1>1. /\ r \in Prov /\ r.arfcn = p.arfcn /\ r.sent = p.sent /\ r.acked = p.acked
        /\ r.verReq = p.verReq /\ r.verUse = p.verUse /\ r.tsc = p.tsc /\ r.slot = p.slot
        /\ r.slotSent = p.slotSent
        /\ r.st = IF p.st \in {"OPEN_WAIT_POWERON_CNF", "OPEN_POWERON"} THEN p.st ELSE "CLOSED"
        /\ r.enabled = p.enabled
    BY DEF ToClosed, Prov, ProvStates
  <1>2. TunedInv(p, s, rx, tx) => TunedInv(r, <<>>, rx, tx)
    BY <1>1, EmptyRange DEF TunedInv
  <1>3. Once(<<>>)
    BY DEF Once
  <1>4. FormatInv(r, <<>>)
    BY <1>1, <1>3, EmptyRange DEF TrxInv, FormatInv
  <1>5. SlotInv(r, <<>>, y, o)
    BY <1>1 DEF TrxInv, SlotInv
  <1>6. TrxInv(r, <<>>, rx, tx, y, o)
    BY Zenon, <1>2, <1>4, <1>5 DEF TrxInv
  <1>7. OtherInv(p) => OtherInv(r)
    BY <1>1 DEF OtherInv
  <1> QED
    BY <1>1, <1>6, <1>7

LEMMA ApplyClose ==
    ASSUME NEW w, NEW d, NEW o, WorldInv(w, d, o),
           w.prov[0].st \in {"OPEN_POWEROFF", "OPEN_WAIT_POWEROFF_CNF"},
           Regular(o) => \A t \in Trx \ {0} : w.prov[t].st # "OPEN_POWERON",
           NEW v, v = trx_prov_fsm_apply_close(w)
    PROVE  WorldInv(v, d, o)
  <1>1. w \in World /\ w.prov \in [Trx -> Prov]
    BY DEF WorldInv, World
  <1>2. CASE w.plink.state = "SHUTDOWN"
    <2>1. v = w
      BY Zenon, <1>2 DEF trx_prov_fsm_apply_close
    <2> QED
      BY <2>1
  <1>3. CASE w.plink.state # "SHUTDOWN"
    <2>1. /\ v.prov = [t \in Trx |-> ToClosed(w.prov[t])] /\ v.q = [t \in Trx |-> <<>>]
          /\ v.plink = [w.plink EXCEPT !.state = "SHUTDOWN"] /\ v.phase \in Phases
          /\ v = [prov |-> v.prov, q |-> v.q, plink |-> v.plink, phase |-> v.phase]
      BY <1>1, <1>3 DEF trx_prov_fsm_apply_close, World, Phases
    <2>2. ASSUME NEW t \in Trx
          PROVE  /\ v.prov[t] = ToClosed(w.prov[t]) /\ v.q[t] = <<>> /\ w.prov[t] \in Prov
                 /\ TrxInv(v.prov[t], <<>>, d.rx[t], d.tx[t], d.slot[t], o)
                 /\ v.prov[t] \in Prov /\ (OtherInv(w.prov[t]) => OtherInv(v.prov[t]))
                 /\ w.prov[t].st \notin {"OPEN_WAIT_POWERON_CNF", "OPEN_POWERON"}
                      => v.prov[t].st = "CLOSED"
      <3>1. v.prov[t] = ToClosed(w.prov[t]) /\ v.q[t] = <<>> /\ w.prov[t] \in Prov
        BY <1>1, <2>1
      <3>2. TrxInv(w.prov[t], w.q[t], d.rx[t], d.tx[t], d.slot[t], o)
        BY Zenon DEF WorldInv, Each
      <3>3. Regular(o) => w.prov[t].st # "OPEN_POWERON"
        BY SMT
      <3> QED
        BY SMT, <3>1, <3>2, <3>3, ToClosedTrx
    <2>3. v \in World
      <3>1. v.prov \in [Trx -> Prov]
        <4>1. v.prov = [t \in Trx |-> v.prov[t]]
          BY <2>1
        <4> QED
          BY <2>2, <4>1
      <3>2. v.q \in [Trx -> Seq(Msgs)]
        BY <2>1
      <3>3. v.plink \in Links
        BY <1>1, <2>1 DEF World, Links
      <3> QED
        BY <2>1, <3>1, <3>2, <3>3 DEF World
    <2>4. Each(v, d, o)
      BY Zenon, <2>2 DEF Each
    <2>5. Others(v)
      BY Zenon, <2>2 DEF WorldInv, Others
    <2>6. v.prov[0].st = "CLOSED" /\ ~Has(v.q[0], "POWERON")
      BY <2>2, FirstTrx, EmptyRange
    <2>7. v.plink.state = "SHUTDOWN"
      BY <1>1, <2>1 DEF World, Links
    <2>8. ClosedInv(v)
      BY Zenon, <2>2, <2>6, <2>7 DEF ClosedInv
    <2>9. ReadyInv(v, o) /\ ClosingInv(v, o)
      BY <2>6 DEF ReadyInv, PowerSoon, ClosingInv
    <2>10. FirstPower(v)
      BY Zenon, <2>2, EmptyRange DEF FirstPower
    <2>11. DownInv(v, o)
      <3>1. ASSUME o = {}, NEW t \in Trx PROVE v.prov[t].st = "CLOSED"
        <4>1. CASE t = 0
          BY <2>6, <4>1
        <4>2. CASE t # 0
          <5>1. w.prov[t].st # "OPEN_POWERON"
            BY <3>1, <4>2 DEF Regular
          <5>2. w.prov[t].st # "OPEN_WAIT_POWERON_CNF"
            BY <4>2 DEF WorldInv, Others, OtherInv
          <5> QED
            BY <2>2, <5>1, <5>2
        <4> QED
          BY <4>1, <4>2
      <3> QED
        BY <3>1 DEF DownInv
    <2> QED
      BY Zenon, <2>3, <2>4, <2>5, <2>8, <2>9, <2>11, <2>10 DEF WorldInv
  <1> QED
    BY <1>2, <1>3

Wait(p) == [p EXCEPT !.st = "OPEN_WAIT_POWEROFF_CNF"]

LEMMA WaitTrx ==
    ASSUME NEW p \in Prov, NEW s, NEW rx, NEW tx, NEW y, NEW o, TrxInv(p, s, rx, tx, y, o),
           NEW r, r = Wait(p)
    PROVE  /\ r \in Prov /\ TrxInv(r, s, rx, tx, y, o) /\ OtherInv(r)
           /\ r.st = "OPEN_WAIT_POWEROFF_CNF" /\ Grown(p, r)
  <1>1. /\ r \in Prov /\ r.arfcn = p.arfcn /\ r.sent = p.sent /\ r.acked = p.acked
        /\ r.verReq = p.verReq /\ r.verUse = p.verUse /\ r.tsc = p.tsc /\ r.slot = p.slot
        /\ r.slotSent = p.slotSent /\ r.st = "OPEN_WAIT_POWEROFF_CNF"
    BY DEF Wait, Prov, ProvStates
  <1>2. TunedInv(p, s, rx, tx) => TunedInv(r, s, rx, tx)
    BY <1>1 DEF TunedInv
  <1>3. FormatInv(r, s)
    BY <1>1 DEF TrxInv, FormatInv
  <1>4. SlotInv(r, s, y, o)
    BY <1>1 DEF SlotInv
  <1>5. TrxInv(r, s, rx, tx, y, o)
    BY Zenon, <1>2, <1>3, <1>4 DEF TrxInv
  <1> QED
    BY <1>1, <1>5 DEF OtherInv, Grown

\* The other TRXs get TRX_PROV_EV_CLOSE.
OthersClosed(w) ==
    [w EXCEPT !.prov = [t \in Trx |-> IF t = 0 THEN @[0] ELSE EvClose(w, t).prov[t]]]

LEMMA CloseOthers ==
    ASSUME NEW w, NEW d, NEW o, WorldInv(w, d, o),
           NEW v, v = OthersClosed(w)
    PROVE  /\ WorldInv(v, d, o) /\ v.phase = w.phase
           /\ \A t \in Trx \ {0} : v.prov[t].st # "OPEN_POWERON"
  <1>1. w \in World /\ w.prov \in [Trx -> Prov] /\ w.q \in [Trx -> Seq(Msgs)]
        /\ w.plink \in Links /\ w.phase \in Phases
    BY DEF WorldInv, World
  <1>2. /\ v.prov = [t \in Trx |-> IF t = 0 THEN w.prov[0] ELSE EvClose(w, t).prov[t]]
        /\ v.q = w.q /\ v.plink = w.plink /\ v.phase = w.phase
        /\ v = [prov |-> v.prov, q |-> v.q, plink |-> v.plink, phase |-> v.phase]
    BY <1>1 DEF World, OthersClosed
  <1>3. ASSUME NEW t \in Trx \ {0}
        PROVE  \/ /\ w.prov[t].st \in {"OPEN_WAIT_POWERON_CNF", "OPEN_POWERON"}
                  /\ v.prov[t] = Wait(w.prov[t])
               \/ /\ w.prov[t].st \notin {"OPEN_WAIT_POWERON_CNF", "OPEN_POWERON"}
                  /\ v.prov[t] = w.prov[t]
    <2>1. v.prov[t] = EvClose(w, t).prov[t]
      BY <1>2
    <2>2. CASE w.prov[t].st \in {"OPEN_WAIT_POWERON_CNF", "OPEN_POWERON"}
      <3>1. EvClose(w, t) = [w EXCEPT !.prov[t].st = "OPEN_WAIT_POWEROFF_CNF"]
        BY <2>2 DEF EvClose
      <3>2. [w EXCEPT !.prov[t].st = "OPEN_WAIT_POWEROFF_CNF"].prov[t] = Wait(w.prov[t])
        BY <1>1 DEF Wait, World
      <3> QED
        BY <2>1, <2>2, <3>1, <3>2
    <2>3. CASE w.prov[t].st \notin {"OPEN_WAIT_POWERON_CNF", "OPEN_POWERON"}
      <3>1. EvClose(w, t) = w
        BY <2>3 DEF EvClose
      <3> QED
        BY <2>1, <2>3, <3>1
    <2> QED
      BY <2>2, <2>3
  <1>4. v.prov[0] = w.prov[0]
    BY <1>2, FirstTrx
  <1>5. ASSUME NEW t \in Trx
        PROVE  /\ v.prov[t] \in Prov
               /\ TrxInv(v.prov[t], v.q[t], d.rx[t], d.tx[t], d.slot[t], o)
               /\ t # 0 => OtherInv(v.prov[t]) /\ v.prov[t].st # "OPEN_POWERON"
               /\ Grown(w.prov[t], v.prov[t])
               /\ v.prov[t].st = "CLOSED" => w.prov[t].st = "CLOSED"
               /\ w.prov[t].st = "CLOSED" => v.prov[t].st = "CLOSED"
               /\ v.prov[t].st = "OPEN_POWEROFF" => v.prov[t] = w.prov[t]
    <2>1. TrxInv(w.prov[t], w.q[t], d.rx[t], d.tx[t], d.slot[t], o) /\ w.prov[t] \in Prov
      BY Zenon, <1>1 DEF WorldInv, Each
    <2>2. PICK p \in Prov : p = w.prov[t]
      BY <2>1
    <2>3. TrxInv(p, v.q[t], d.rx[t], d.tx[t], d.slot[t], o)
      BY <1>2, <2>1, <2>2
    <2>4. CASE v.prov[t] = Wait(p) /\ p.st \in {"OPEN_WAIT_POWERON_CNF", "OPEN_POWERON"}
      <3>1. PICK r : r = v.prov[t]
        OBVIOUS
      <3>2. /\ r \in Prov /\ TrxInv(r, v.q[t], d.rx[t], d.tx[t], d.slot[t], o) /\ OtherInv(r)
            /\ r.st = "OPEN_WAIT_POWEROFF_CNF" /\ Grown(p, r)
        BY Zenon, <2>3, <2>4, <3>1, WaitTrx
      <3> QED
        BY <2>2, <2>4, <3>1, <3>2
    <2>5. CASE v.prov[t] = p
              /\ (t = 0 \/ p.st \notin {"OPEN_WAIT_POWERON_CNF", "OPEN_POWERON"})
      <3>1. t # 0 => OtherInv(p)
        BY Zenon, <2>2 DEF WorldInv, Others
      <3>2. Grown(p, p)
        BY DEF Grown
      <3> QED
        BY <2>2, <2>3, <2>5, <3>1, <3>2
    <2> QED
      BY <1>3, <1>4, <2>2, <2>4, <2>5
  <1>6. v \in World
    <2>1. v.prov \in [Trx -> Prov]
      <3>1. v.prov = [t \in Trx |-> v.prov[t]]
        BY <1>2
      <3> QED
        BY <1>5, <3>1
    <2> QED
      BY <1>1, <1>2, <2>1 DEF World
  <1>7. Each(v, d, o) /\ Others(v)
    BY Zenon, <1>5 DEF Each, Others
  <1>8. ClosedInv(v)
    BY Zenon, <1>2, <1>4, <1>5 DEF WorldInv, ClosedInv
  <1>9. ReadyInv(v, o)
    BY Zenon, <1>2, <1>4, <1>5, ProvisionedFacts DEF WorldInv, ReadyInv, PowerSoon
  <1>10. ClosingInv(v, o)
    <2>1. ASSUME Regular(o), v.prov[0].st = "OPEN_WAIT_POWEROFF_CNF"
          PROVE  /\ v.phase = "closing"
                 /\ \A t \in Trx \ {0} : v.prov[t].st = "OPEN_POWEROFF" => ~v.prov[t].enabled
      <3>1. w.prov[0].st = "OPEN_WAIT_POWEROFF_CNF"
        BY <1>4, <2>1
      <3>2. /\ w.phase = "closing"
            /\ \A t \in Trx \ {0} : w.prov[t].st = "OPEN_POWEROFF" => ~w.prov[t].enabled
        BY Zenon, <2>1, <3>1 DEF WorldInv, ClosingInv
      <3>3. ASSUME NEW t \in Trx \ {0}, v.prov[t].st = "OPEN_POWEROFF"
            PROVE  ~v.prov[t].enabled
        <4>1. v.prov[t] = w.prov[t]
          BY Zenon, <1>5, <3>3
        <4> QED
          BY <3>2, <3>3, <4>1
      <3> QED
        BY <1>2, <3>2, <3>3
    <2> QED
      BY Zenon, <1>5, <2>1 DEF ClosingInv
  <1>11. DownInv(v, o)
    BY Zenon, <1>2, <1>5 DEF WorldInv, DownInv
  <1>12. FirstPower(v)
    BY Zenon, <1>2 DEF WorldInv, FirstPower
  <1>13. WorldInv(v, d, o)
    BY Zenon, <1>6, <1>7, <1>8, <1>9, <1>10, <1>11, <1>12 DEF WorldInv
  <1> QED
    BY <1>2, <1>5, <1>13

LEMMA PoweroffIs ==
    ASSUME NEW w \in World, NEW v, v = Poweroff(w), NEW m, m = Msg("POWEROFF", None)
    PROVE  /\ v \in World /\ v.prov = w.prov /\ v.phase = w.phase
           /\ v.plink.state = w.plink.state
           /\ \A t \in Trx \ {0} : v.q[t] = w.q[t]
           /\ v.q[0] = w.q[0] \/ v.q[0] = Put(w.q[0], m)
  <1>1. CASE w.plink.offSent
    <2>1. v = w
      BY Zenon, <1>1 DEF Poweroff
    <2> QED
      BY <2>1
  <1>2. CASE ~w.plink.offSent
    <2>1. PICK x : x = [w EXCEPT !.plink.offSent = TRUE]
      OBVIOUS
    <2>2. /\ x \in World /\ x.prov = w.prov /\ x.q = w.q /\ x.phase = w.phase
          /\ x.plink.state = w.plink.state
      <3>1. /\ x.prov = w.prov /\ x.q = w.q /\ x.phase = w.phase
            /\ x.plink = [w.plink EXCEPT !.offSent = TRUE]
            /\ x = [prov |-> x.prov, q |-> x.q, plink |-> x.plink, phase |-> x.phase]
        BY <2>1 DEF World
      <3>2. x.plink \in Links /\ x.plink.state = w.plink.state
        BY <3>1 DEF World, Links
      <3> QED
        BY <3>1, <3>2 DEF World
    <2>3. m \in Msgs
      BY MsgsOf DEF Cmds, Args
    <2>4. v = Send(x, 0, m)
      BY Zenon, <1>2, <2>1 DEF Poweroff
    <2>5. 0 \in Trx /\ x.prov[0] \in Prov /\ x.q[0] \in Seq(Msgs)
          /\ x.prov \in [Trx -> Prov]
      BY <2>2, FirstTrx DEF World
    <2>6. PICK z : z = Put(x.q[0], m)
      OBVIOUS
    <2>7. z \in Seq(Msgs)
      BY <2>3, <2>5, <2>6, PutOf
    <2>8. v = Upd(x, 0, x.prov[0], z)
      BY Zenon, <2>2, <2>3, <2>4, <2>5, <2>6, SendIs
    <2>9. PICK p \in Prov : p = x.prov[0]
      BY <2>5
    <2>10. /\ v \in World /\ v.plink = x.plink /\ v.phase = x.phase
           /\ v.prov[0] = p /\ v.q[0] = z
           /\ \A u \in Trx \ {0} : v.prov[u] = x.prov[u] /\ v.q[u] = x.q[u]
      <3>1. x \in World /\ 0 \in Trx /\ v = Upd(x, 0, p, z)
        BY Zenon, <2>2, <2>5, <2>8, <2>9
      <3> QED
        BY SMT, <2>7, <3>1, UpdOf
    <2>11. v.prov = x.prov
      <3>1. v.prov = [t \in Trx |-> v.prov[t]] /\ x.prov = [t \in Trx |-> x.prov[t]]
        BY <2>2, <2>10 DEF World
      <3>2. \A t \in Trx : v.prov[t] = x.prov[t]
        BY <2>10, <2>9
      <3> QED
        BY <3>1, <3>2
    <2> QED
      BY <2>2, <2>6, <2>10, <2>11
  <1> QED
    BY <1>1, <1>2

LEMMA WaitIs ==
    ASSUME NEW w \in World, NEW t \in Trx
    PROVE  [w EXCEPT !.prov[t].st = "OPEN_WAIT_POWEROFF_CNF"]
              = Upd(w, t, Wait(w.prov[t]), w.q[t])
  <1>1. w.prov \in [Trx -> Prov] /\ w.q \in [Trx -> Seq(Msgs)]
        /\ w = [prov |-> w.prov, q |-> w.q, plink |-> w.plink, phase |-> w.phase]
    BY DEF World
  <1> QED
    BY <1>1 DEF Upd, Wait

\* TRX 0 powers off, and waits for it.
LEMMA FirstWaits ==
    ASSUME setup \in Setups, NEW w, NEW d, NEW o, WorldInv(w, d, o), w.phase = "closing",
           \A t \in Trx \ {0} : w.prov[t].st # "OPEN_POWERON",
           w.prov[0].st \in {"OPEN_WAIT_POWERON_CNF", "OPEN_POWERON"},
           NEW x, x = w \/ x = Poweroff(w),
           NEW v, v = Upd(x, 0, Wait(x.prov[0]), x.q[0])
    PROVE  WorldInv(v, d, o)
  <1>1. w \in World /\ 0 \in Trx /\ w.prov[0] \in Prov /\ w.q[0] \in Seq(Msgs)
    BY FirstTrx DEF WorldInv, World
  <1>2. PICK m : m = Msg("POWEROFF", None)
    OBVIOUS
  <1>3. m \in Msgs /\ m.cmd = "POWEROFF"
    BY <1>2, MsgsOf DEF Cmds, Args
  <1>4. /\ x \in World /\ x.prov = w.prov /\ x.phase = w.phase
        /\ x.plink.state = w.plink.state
        /\ \A t \in Trx \ {0} : x.q[t] = w.q[t]
        /\ x.q[0] = w.q[0] \/ x.q[0] = Put(w.q[0], m)
    <2>1. CASE x = w
      BY <1>1, <2>1
    <2>2. CASE x = Poweroff(w)
      BY SMT, <1>1, <1>2, <2>2, PoweroffIs
    <2> QED
      BY <2>1, <2>2
  <1>5. PICK p \in Prov : p = w.prov[0]
    BY <1>1
  <1>6. PICK s \in Seq(Msgs) : s = w.q[0]
    BY <1>1
  <1>7. PICK z : z = x.q[0]
    OBVIOUS
  <1>8. PICK r : r = Wait(p)
    OBVIOUS
  <1>9. TrxInv(p, s, d.rx[0], d.tx[0], d.slot[0], o)
    BY Zenon, <1>1, <1>5, <1>6 DEF WorldInv, Each
  <1>10. z \in Seq(Msgs) /\ (z = s \/ z = Put(s, m))
    BY <1>1, <1>4, <1>6, <1>7 DEF World
  <1>11. /\ r \in Prov /\ TrxInv(r, s, d.rx[0], d.tx[0], d.slot[0], o)
         /\ r.st = "OPEN_WAIT_POWEROFF_CNF" /\ Grown(p, r)
    BY SMT, <1>8, <1>9, WaitTrx
  <1>12. TrxInv(r, z, d.rx[0], d.tx[0], d.slot[0], o)
         /\ (Has(z, "POWERON") => Has(s, "POWERON"))
    <2>1. CASE z = s
      BY Zenon, <1>11, <2>1
    <2>2. CASE z = Put(s, m)
      <3>1. m.cmd \notin {"RXTUNE", "TXTUNE", "SETFORMAT"} /\ m.cmd # "POWERON"
        BY <1>3
      <3>2. TunedInv(r, s, d.rx[0], d.tx[0]) => TunedInv(r, z, d.rx[0], d.tx[0])
        BY Zenon, <1>3, <2>2, <3>1, PutPlain
      <3>3. FormatInv(r, s) => FormatInv(r, z)
        BY Zenon, <1>3, <2>2, <3>1, PutPlain
      <3>4. Has(z, "POWERON") => Has(s, "POWERON")
        BY Zenon, <1>3, <2>2, <3>1, PutPlain
      <3>5. SlotInv(r, z, d.slot[0], o)
        BY <1>11 DEF SlotInv
      <3> QED
        BY Zenon, <1>11, <3>2, <3>5, <3>4, <3>3 DEF TrxInv
    <2> QED
      BY <1>10, <2>1, <2>2
  <1>13. /\ v \in World /\ v.plink = x.plink /\ v.phase = x.phase
         /\ v.prov[0] = r /\ v.q[0] = z
         /\ \A u \in Trx \ {0} : v.prov[u] = x.prov[u] /\ v.q[u] = x.q[u]
    <2>1. x.prov[0] = p
      BY <1>4, <1>5
    <2>2. v = Upd(x, 0, r, z)
      BY Zenon, <1>7, <1>8, <2>1
    <2>3. x \in World /\ 0 \in Trx /\ r \in Prov /\ z \in Seq(Msgs)
      BY <1>1, <1>4, <1>10, <1>11
    <2> QED
      BY SMTT(20), <2>2, <2>3, UpdOf
  <1>14. ASSUME NEW t \in Trx
         PROVE  /\ TrxInv(v.prov[t], v.q[t], d.rx[t], d.tx[t], d.slot[t], o)
                /\ v.prov[t].st # "CLOSED" /\ w.prov[t].st # "CLOSED"
                /\ Grown(w.prov[t], v.prov[t])
                /\ t # 0 => v.prov[t] = w.prov[t]
    <2>1. w.prov[t].st # "CLOSED"
      BY DEF WorldInv, ClosedInv
    <2>2. CASE t = 0
      BY <1>5, <1>11, <1>12, <1>13, <2>1, <2>2
    <2>3. CASE t # 0
      <3>1. v.prov[t] = w.prov[t] /\ v.q[t] = w.q[t]
        BY <1>4, <1>13, <2>3
      <3>2. TrxInv(w.prov[t], w.q[t], d.rx[t], d.tx[t], d.slot[t], o)
        BY Zenon DEF WorldInv, Each
      <3> QED
        BY <2>1, <2>3, <3>1, <3>2 DEF Grown
    <2> QED
      BY <2>2, <2>3
  <1>15. Each(v, d, o) /\ Others(v) /\ ClosedInv(v)
    BY Zenon, <1>14 DEF WorldInv, Each, Others, ClosedInv
  <1>16. ReadyInv(v, o)
    <2>1. PowerSoon(w)
      BY DEF PowerSoon
    <2>2. "retuned" \notin o => \A t \in Trx : trx_is_provisioned(w.prov[t])
      BY Zenon, <2>1 DEF WorldInv, ReadyInv
    <2>3. "retuned" \notin o => \A t \in Trx : trx_is_provisioned(v.prov[t])
      BY Zenon, <1>14, <2>2, ProvisionedFacts
    <2> QED
      BY Zenon, <2>3 DEF ReadyInv
  <1>17. ClosingInv(v, o)
    <2>1. ASSUME Regular(o), NEW t \in Trx \ {0}, v.prov[t].st = "OPEN_POWEROFF"
          PROVE  ~v.prov[t].enabled
      <3>1. "retuned" \notin o /\ PowerSoon(w)
        BY <2>1 DEF Regular, PowerSoon
      <3>2. trx_is_provisioned(w.prov[t]) /\ OtherInv(w.prov[t])
        BY Zenon, <3>1 DEF WorldInv, ReadyInv, Others
      <3>3. v.prov[t] = w.prov[t]
        BY <1>14
      <3> QED
        BY <2>1, <3>2, <3>3 DEF OtherInv
    <2>2. \A t \in Trx \ {0} : v.prov[t].st # "OPEN_POWERON"
      BY <1>14
    <2>3. v.phase = "closing"
      BY <1>4, <1>13
    <2> QED
      BY Zenon, <2>1, <2>2, <2>3 DEF ClosingInv
  <1>18. DownInv(v, o)
    <2>1. v.plink.state = w.plink.state
      BY <1>4, <1>13
    <2> QED
      BY <1>1, <2>1 DEF WorldInv, DownInv
  <1>19. FirstPower(v)
    BY Zenon, <1>4, <1>13 DEF WorldInv, FirstPower
  <1> QED
    BY Zenon, <1>13, <1>15, <1>16, <1>17, <1>18, <1>19 DEF WorldInv

LEMMA CloseAllKeeps ==
    ASSUME setup \in Setups, NEW w, NEW d, NEW o, WorldInv(w, d, o), w.phase = "closing"
    PROVE  WorldInv(CloseAll(w), d, o)
  <1>0. CloseAll(w) = EvClose(OthersClosed(w), 0)
    BY DEF CloseAll, OthersClosed
  <1>1. PICK x : x = OthersClosed(w)
    OBVIOUS
  <1>2. /\ WorldInv(x, d, o) /\ x.phase = "closing"
        /\ \A t \in Trx \ {0} : x.prov[t].st # "OPEN_POWERON"
    BY SMT, <1>1, CloseOthers
  <1>3. PICK v : v = EvClose(x, 0)
    OBVIOUS
  <1>4. CASE x.prov[0].st = "OPEN_POWEROFF"
    <2>1. v = trx_prov_fsm_apply_close(x)
      BY <1>3, <1>4 DEF EvClose
    <2>2. WorldInv(v, d, o)
      BY SMT, <1>2, <1>4, <2>1, ApplyClose
    <2> QED
      BY Zenon, <1>0, <1>1, <1>3, <2>2
  <1>5. CASE x.prov[0].st \in {"OPEN_WAIT_POWERON_CNF", "OPEN_POWERON"}
    <2>1. PICK y : /\ y = x \/ y = Poweroff(x)
                   /\ v = [y EXCEPT !.prov[0].st = "OPEN_WAIT_POWEROFF_CNF"]
      BY <1>3, <1>5 DEF EvClose
    <2>2. v = Upd(y, 0, Wait(y.prov[0]), y.q[0])
      <3>1. x \in World /\ 0 \in Trx
        BY <1>2, FirstTrx DEF WorldInv
      <3>2. y \in World
        BY Zenon, <2>1, <3>1, PoweroffIs
      <3> QED
        BY Zenon, <2>1, <3>1, <3>2, WaitIs
    <2>3. WorldInv(v, d, o)
      <3>1. y = x \/ y = Poweroff(x)
        BY <2>1
      <3> QED
        BY SMT, <1>2, <1>5, <2>2, <3>1, FirstWaits
    <2> QED
      BY Zenon, <1>0, <1>1, <1>3, <2>3
  <1>6. CASE x.prov[0].st \notin {"OPEN_POWEROFF", "OPEN_WAIT_POWERON_CNF", "OPEN_POWERON"}
    <2>1. v = x
      BY <1>3, <1>6 DEF EvClose
    <2> QED
      BY Zenon, <1>0, <1>1, <1>2, <1>3, <2>1
  <1> QED
    BY <1>4, <1>5, <1>6

-----------------------------------------------------------------------------
(* Events outside OPEN_POWEROFF.                                           *)

LEMMA NotWaiting ==
    ASSUME NEW w, NEW d, NEW o, WorldInv(w, d, o), NEW t \in Trx, w.prov[t].st # "CLOSED",
           NEW v, Base(v, d, o), v.plink = w.plink,
           \A u \in Trx \ {t} : v.prov[u] = w.prov[u],
           ~(Regular(o) /\ v.prov[0].st = "OPEN_WAIT_POWEROFF_CNF"),
           t # 0 => OtherInv(v.prov[t])
    PROVE  WorldInv(v, d, o)
  <1>1. Others(v)
    <2>1. ASSUME NEW u \in Trx \ {0} PROVE OtherInv(v.prov[u])
      <3>1. CASE u = t
        BY Zenon, <3>1
      <3>2. CASE u # t
        <4>1. v.prov[u] = w.prov[u] /\ OtherInv(w.prov[u])
          BY Zenon, <3>2 DEF WorldInv, Others
        <4> QED
          BY Zenon, <4>1
      <3> QED
        BY <3>1, <3>2
    <2> QED
      BY Zenon, <2>1 DEF Others
  <1>2. DownInv(v, o)
    BY DEF WorldInv, DownInv
  <1>3. ClosingInv(v, o)
    BY Zenon DEF ClosingInv
  <1> QED
    BY Zenon, <1>1, <1>2, <1>3 DEF WorldInv, Base

\* A timeslot is configured when power is on, or asked for: as if it were before POWERON.
Waiting(p, s) == [update_ts_data(p, s) EXCEPT !.st = "OPEN_WAIT_POWERON_CNF"]

LEMMA OnIs ==
    ASSUME NEW w \in World, NEW t \in Trx
    PROVE  [w EXCEPT !.prov[t].st = "OPEN_POWERON"]
              = Upd(w, t, [w.prov[t] EXCEPT !.st = "OPEN_POWERON"], w.q[t])
  <1>1. w.prov \in [Trx -> Prov] /\ w.q \in [Trx -> Seq(Msgs)]
        /\ w = [prov |-> w.prov, q |-> w.q, plink |-> w.plink, phase |-> w.phase]
    BY DEF World
  <1> QED
    BY <1>1 DEF Upd

LEMMA UpdIs ==
    ASSUME NEW w \in World, NEW t \in Trx, NEW p \in Prov, NEW s \in Seq(Msgs),
           NEW v, v = Upd(w, t, p, s)
    PROVE  v = [prov |-> [w.prov EXCEPT ![t] = p], q |-> [w.q EXCEPT ![t] = s],
                plink |-> w.plink, phase |-> w.phase]
  BY DEF Upd, World

LEMMA UpdUpd ==
    ASSUME NEW w \in World, NEW t \in Trx, NEW p \in Prov, NEW r \in Prov,
           NEW s \in Seq(Msgs)
    PROVE  Upd(Upd(w, t, p, s), t, r, s) = Upd(w, t, r, s)
  <1>1. PICK a \in [Trx -> Prov] : a = w.prov
    BY DEF World
  <1>2. PICK b \in [Trx -> Seq(Msgs)] : b = w.q
    BY DEF World
  <1>3. PICK v : v = Upd(w, t, p, s)
    OBVIOUS
  <1>4. v \in World
    BY SMT, <1>3, UpdOf
  <1>5. v = [prov |-> [a EXCEPT ![t] = p], q |-> [b EXCEPT ![t] = s],
             plink |-> w.plink, phase |-> w.phase]
    BY Zenon, <1>1, <1>2, <1>3, UpdIs
  <1>6. [[a EXCEPT ![t] = p] EXCEPT ![t] = r] = [a EXCEPT ![t] = r]
        /\ [[b EXCEPT ![t] = s] EXCEPT ![t] = s] = [b EXCEPT ![t] = s]
    OBVIOUS
  <1>7. v.prov = [a EXCEPT ![t] = p] /\ v.q = [b EXCEPT ![t] = s]
        /\ v.plink = w.plink /\ v.phase = w.phase
    BY <1>5
  <1>8. Upd(v, t, r, s) = [prov |-> [v.prov EXCEPT ![t] = r], q |-> [v.q EXCEPT ![t] = s],
                           plink |-> v.plink, phase |-> v.phase]
    BY Zenon, <1>4, UpdIs
  <1>9. Upd(w, t, r, s) = [prov |-> [a EXCEPT ![t] = r], q |-> [b EXCEPT ![t] = s],
                           plink |-> w.plink, phase |-> w.phase]
    BY Zenon, <1>1, <1>2, UpdIs
  <1> QED
    BY Zenon, <1>3, <1>6, <1>7, <1>8, <1>9

LEMMA NewSlot ==
    ASSUME setup \in Setups, NEW w, NEW d, NEW o, WorldInv(w, d, o), NEW t \in Trx,
           w.prov[t].st \in {"OPEN_WAIT_POWERON_CNF", "OPEN_POWERON"},
           NEW s \in setup.slotTypes,
           NEW v, v = Upd(w, t, Waiting(w.prov[t], s), w.q[t])
    PROVE  /\ Base(v, d, o) /\ v.plink = w.plink
           /\ v.prov[t] \in Prov /\ v.prov[t].st = "OPEN_WAIT_POWERON_CNF"
           /\ ~v.prov[t].slotSent /\ v.prov[t].verUse = Agreed
           /\ \A u \in Trx \ {t} : v.prov[u] = w.prov[u] /\ v.q[u] = w.q[u]
  <1>1. w \in World /\ w.prov[t] \in Prov /\ w.q[t] \in Seq(Msgs) /\ Base(w, d, o)
    BY DEF WorldInv, World, Base
  <1>2. PICK p \in Prov : p = w.prov[t]
    BY <1>1
  <1>3. PICK z \in Seq(Msgs) : z = w.q[t]
    BY <1>1
  <1>4. PICK r : r = Waiting(p, s)
    OBVIOUS
  <1>5. /\ r \in Prov /\ r.arfcn = p.arfcn /\ r.sent = p.sent /\ r.acked = p.acked
        /\ r.verReq = p.verReq /\ r.verUse = p.verUse /\ r.tsc = p.tsc
        /\ ~r.slotSent /\ r.st = "OPEN_WAIT_POWERON_CNF"
    BY <1>4 DEF Waiting, update_ts_data, Prov, ProvStates
  <1>6. TrxInv(p, z, d.rx[t], d.tx[t], d.slot[t], o)
    BY Zenon, <1>2, <1>3 DEF WorldInv, Each
  <1>7. p.verUse = Agreed
    BY <1>2, <1>6 DEF TrxInv, FormatInv
  <1>8. TrxInv(r, z, d.rx[t], d.tx[t], d.slot[t], o)
    <2>1. TunedInv(p, z, d.rx[t], d.tx[t]) => TunedInv(r, z, d.rx[t], d.tx[t])
      BY <1>5 DEF TunedInv
    <2>2. FormatInv(r, z)
      BY <1>5, <1>6, <1>7 DEF TrxInv, FormatInv
    <2>3. SlotInv(r, z, d.slot[t], o)
      BY <1>5 DEF SlotInv
    <2> QED
      BY Zenon, <1>6, <2>1, <2>2, <2>3 DEF TrxInv
  <1>9. /\ v \in World /\ v.plink = w.plink /\ v.prov[t] = r /\ v.q[t] = z
        /\ \A u \in Trx \ {t} : v.prov[u] = w.prov[u] /\ v.q[u] = w.q[u]
    <2>1. w \in World /\ r \in Prov /\ v = Upd(w, t, r, z)
      BY <1>1, <1>2, <1>3, <1>4, <1>5
    <2> QED
      BY SMT, <2>1, UpdOf
  <1>10. PowerSoon(v) => PowerSoon(w)
    <2>1. CASE t = 0
      BY <2>1 DEF PowerSoon
    <2>2. CASE t # 0
      BY Zenon, <1>9, <2>2, FirstTrx DEF PowerSoon
    <2> QED
      BY <2>1, <2>2
  <1>11. TrxInv(v.prov[t], v.q[t], d.rx[t], d.tx[t], d.slot[t], o)
    BY Zenon, <1>8, <1>9
  <1>12. Grown(w.prov[t], v.prov[t]) /\ v.prov[t].st # "CLOSED" /\ w.prov[t].st # "CLOSED"
    BY <1>2, <1>5, <1>9 DEF Grown
  <1>13. Has(v.q[t], "POWERON") => Has(w.q[t], "POWERON")
    BY Zenon, <1>3, <1>9
  <1>14. Base(v, d, o)
    BY SMT, <1>1, <1>9, <1>10, <1>11, <1>12, <1>13, BaseUpd
  <1> QED
    BY <1>5, <1>7, <1>9, <1>14

LEMMA SlotPoweron ==
    ASSUME setup \in Setups, NEW w, NEW d, NEW o, WorldInv(w, d, o), NEW t \in Trx,
           w.phase = "up", NEW s \in setup.slotTypes
    PROVE  /\ w.prov[t].st = "OPEN_WAIT_POWERON_CNF" =>
                 WorldInv([w EXCEPT !.prov[t] = update_ts_data(@, s)], d, o)
           /\ w.prov[t].st = "OPEN_POWERON" =>
                 WorldInv(EnterOpenPoweron([w EXCEPT !.prov[t] = update_ts_data(@, s)], t), d, o)
  <1>1. w \in World /\ w.prov[t] \in Prov /\ w.q[t] \in Seq(Msgs)
        /\ w.prov \in [Trx -> Prov] /\ w.q \in [Trx -> Seq(Msgs)]
        /\ w = [prov |-> w.prov, q |-> w.q, plink |-> w.plink, phase |-> w.phase]
    BY DEF WorldInv, World
  <1>2. ~(Regular(o) /\ w.prov[0].st = "OPEN_WAIT_POWEROFF_CNF")
    BY DEF WorldInv, ClosingInv
  <1>3. PICK p : p = update_ts_data(w.prov[t], s)
    OBVIOUS
  <1>4. p \in Prov /\ p.st = w.prov[t].st /\ p.slot = s /\ ~p.slotSent
    BY <1>1, <1>3 DEF update_ts_data, Prov
  <1>5. PICK y : y = [w EXCEPT !.prov[t] = update_ts_data(@, s)]
    OBVIOUS
  <1>6. y = Upd(w, t, p, w.q[t])
    <2>1. y = [w EXCEPT !.prov[t] = p]
      BY <1>3, <1>5
    <2> QED
      BY Zenon, <1>1, <1>4, <2>1, ChangeIs
  <1>7. PICK x : x = Upd(w, t, Waiting(w.prov[t], s), w.q[t])
    OBVIOUS
  <1>8. Waiting(w.prov[t], s) = [p EXCEPT !.st = "OPEN_WAIT_POWERON_CNF"]
    BY <1>3 DEF Waiting
  <1>9. CASE w.prov[t].st = "OPEN_WAIT_POWERON_CNF"
    <2>1. Waiting(w.prov[t], s) = p
      BY <1>4, <1>8, <1>9 DEF Prov
    <2>2. y = x
      BY Zenon, <1>6, <1>7, <2>1
    <2>3. Base(x, d, o) /\ x.plink = w.plink /\ x.prov[t].st = "OPEN_WAIT_POWERON_CNF"
          /\ \A u \in Trx \ {t} : x.prov[u] = w.prov[u] /\ x.q[u] = w.q[u]
      BY SMT, <1>7, <1>9, NewSlot
    <2>4. t = 0
      BY <1>9 DEF WorldInv, Others, OtherInv
    <2>5. WorldInv(x, d, o)
      BY SMT, <1>9, <2>3, <2>4, NotWaiting
    <2> QED
      BY Zenon, <1>5, <1>9, <2>2, <2>5
  <1>10. CASE w.prov[t].st = "OPEN_POWERON"
    <2>1. /\ Base(x, d, o) /\ x.plink = w.plink /\ x.prov[t].st = "OPEN_WAIT_POWERON_CNF"
          /\ ~x.prov[t].slotSent /\ x.prov[t].verUse = Agreed
          /\ \A u \in Trx \ {t} : x.prov[u] = w.prov[u] /\ x.q[u] = w.q[u]
      BY SMT, <1>7, <1>10, NewSlot
    <2>2. PICK v : v = EnterOpenPoweron(x, t)
      OBVIOUS
    <2>3. EnterOpenPoweron(y, t) = v
      <3>1. PICK r : r = [p EXCEPT !.st = "OPEN_WAIT_POWERON_CNF"]
        OBVIOUS
      <3>2. r \in Prov /\ r.slot = p.slot /\ r.slotSent = p.slotSent
            /\ [r EXCEPT !.st = "OPEN_POWERON"] = [p EXCEPT !.st = "OPEN_POWERON"]
        BY <1>4, <3>1 DEF Prov, ProvStates
      <3>3. x = Upd(w, t, r, w.q[t])
        BY Zenon, <1>7, <1>8, <3>1
      <3>4. x.prov[t] = r /\ y.prov[t] = p
        <4>1. PICK z \in Seq(Msgs) : z = w.q[t]
          BY <1>1
        <4>2. x = Upd(w, t, r, z) /\ y = Upd(w, t, p, z) /\ w \in World
          BY <1>1, <1>6, <3>3, <4>1
        <4> QED
          BY <1>4, <3>2, <4>2, UpdOf
      <3>5. [x EXCEPT !.prov[t].st = "OPEN_POWERON"] = [y EXCEPT !.prov[t].st = "OPEN_POWERON"]
        <4>1. PICK g : g = [p EXCEPT !.st = "OPEN_POWERON"]
          OBVIOUS
        <4>2. g \in Prov
          BY <1>4, <4>1 DEF Prov, ProvStates
        <4>3. PICK z \in Seq(Msgs) : z = w.q[t]
          BY <1>1
        <4>4. /\ x = Upd(w, t, r, z) /\ y = Upd(w, t, p, z) /\ w \in World
          BY <1>1, <1>6, <3>3, <4>3
        <4>5. x \in World /\ y \in World /\ x.q[t] = z /\ y.q[t] = z
          BY <1>4, <3>2, <4>4, UpdOf
        <4>6. PICK xo : xo = [x EXCEPT !.prov[t].st = "OPEN_POWERON"]
          OBVIOUS
        <4>7. PICK yo : yo = [y EXCEPT !.prov[t].st = "OPEN_POWERON"]
          OBVIOUS
        <4>8. xo = Upd(x, t, g, z) /\ yo = Upd(y, t, g, z)
          <5>1. /\ [x.prov[t] EXCEPT !.st = "OPEN_POWERON"] = g
                /\ [y.prov[t] EXCEPT !.st = "OPEN_POWERON"] = g
            BY <3>2, <3>4, <4>1
          <5>2. /\ xo = Upd(x, t, [x.prov[t] EXCEPT !.st = "OPEN_POWERON"], x.q[t])
                /\ yo = Upd(y, t, [y.prov[t] EXCEPT !.st = "OPEN_POWERON"], y.q[t])
            BY Zenon, <4>5, <4>6, <4>7, OnIs
          <5> QED
            BY Zenon, <4>5, <5>1, <5>2
        <4>9. Upd(x, t, g, z) = Upd(w, t, g, z) /\ Upd(y, t, g, z) = Upd(w, t, g, z)
          <5>1. /\ Upd(Upd(w, t, r, z), t, g, z) = Upd(w, t, g, z)
                /\ Upd(Upd(w, t, p, z), t, g, z) = Upd(w, t, g, z)
            <6>1. r \in Prov /\ p \in Prov /\ w \in World
              BY <1>4, <3>2, <4>4
            <6> QED
              BY SMT, <4>2, <6>1, UpdUpd
          <5> QED
            BY Zenon, <4>4, <5>1
        <4> QED
          BY Zenon, <4>8, <4>9, <4>6, <4>7
      <3> DEFINE Enter(sl, snt, on) ==
                   IF sl # None /\ ~snt
                   THEN Send([on EXCEPT !.prov[t].slotSent = TRUE], t, Msg("SETSLOT", sl))
                   ELSE on
      <3>6. /\ EnterOpenPoweron(x, t) = Enter(x.prov[t].slot, x.prov[t].slotSent,
                                              [x EXCEPT !.prov[t].st = "OPEN_POWERON"])
            /\ EnterOpenPoweron(y, t) = Enter(y.prov[t].slot, y.prov[t].slotSent,
                                              [y EXCEPT !.prov[t].st = "OPEN_POWERON"])
        BY Zenon DEF EnterOpenPoweron
      <3> HIDE DEF Enter
      <3>7. x.prov[t].slot = y.prov[t].slot /\ x.prov[t].slotSent = y.prov[t].slotSent
        BY <3>2, <3>4
      <3> QED
        BY Zenon, <2>2, <3>5, <3>6, <3>7
    <2>4. /\ Base(v, d, o) /\ v.plink = x.plink /\ v.prov[t].st = "OPEN_POWERON"
          /\ \A u \in Trx \ {t} : v.prov[u] = x.prov[u] /\ v.q[u] = x.q[u]
      <3>1. t = 0 => x.prov[0].st \in {"OPEN_WAIT_POWERON_CNF", "OPEN_POWERON"}
        BY <2>1
      <3>2. x.prov[t].st # "CLOSED" /\ Base(x, d, o) /\ ~x.prov[t].slotSent
            /\ x.prov[t].verUse = Agreed
        BY <2>1
      <3> QED
        BY SMT, <2>2, <3>1, <3>2, EnterOn
    <2>5. WorldInv(v, d, o)
      <3>1. /\ v.plink = w.plink /\ w.prov[t].st # "CLOSED"
            /\ \A u \in Trx \ {t} : v.prov[u] = w.prov[u]
        BY <1>10, <2>1, <2>4
      <3>2. ~(Regular(o) /\ v.prov[0].st = "OPEN_WAIT_POWEROFF_CNF")
        BY <1>2, <2>4, <3>1, FirstTrx
      <3>3. OtherInv(v.prov[t])
        BY <2>4 DEF OtherInv
      <3> QED
        BY SMT, <2>4, <3>1, <3>2, <3>3, NotWaiting
    <2> QED
      BY Zenon, <1>5, <1>10, <2>3, <2>5
  <1> QED
    BY <1>9, <1>10

-----------------------------------------------------------------------------
(* The transceiver.                                                        *)

LEMMA ToldTail ==
    ASSUME NEW s \in Seq(Msgs), s # <<>>, NEW y, NEW x, Told(s, y, x),
           NEW y2, y2 = IF Head(s).cmd = "SETSLOT" THEN Head(s).arg ELSE y
    PROVE  Told(Tail(s), y2, x)
  <1>1. PICK z : z = Tail(s)
    OBVIOUS
  <1>2. /\ Head(s) = s[1] /\ Len(s) \in Nat /\ Len(s) >= 1 /\ Len(z) = Len(s) - 1
        /\ \A i \in 1 .. Len(z) : i + 1 \in 1 .. Len(s) /\ z[i] = s[i + 1]
        /\ \A i \in 1 .. Len(s) : i = 1 \/ (i - 1 \in 1 .. Len(z) /\ z[i - 1] = s[i])
        /\ z \in Seq(Msgs)
    BY SMT, <1>1, TailOf
  <1>3. DOMAIN z = 1 .. Len(z)
    BY <1>2
  <1>4. CASE ~Has(s, "SETSLOT") /\ y = x
    <2>1. Head(s) \in Range(s) /\ \A m \in Range(z) : m \in Range(s)
      BY <1>1, TailRange
    <2>2. ~Has(z, "SETSLOT") /\ Head(s).cmd # "SETSLOT"
      BY Zenon, <1>4, <2>1 DEF Has
    <2> QED
      BY Zenon, <1>1, <1>4, <2>2 DEF Told
  <1>5. ASSUME NEW i \in 1 .. Len(s), s[i].cmd = "SETSLOT", s[i].arg = x,
               \A j \in i + 1 .. Len(s) : s[j].cmd # "SETSLOT"
        PROVE  Told(z, y2, x)
    <2>1. CASE i = 1
      <3>1. y2 = x
        BY <1>2, <1>5, <2>1
      <3>2. ASSUME NEW k \in 1 .. Len(z) PROVE z[k].cmd # "SETSLOT"
        <4>1. k + 1 \in i + 1 .. Len(s) /\ z[k] = s[k + 1]
          BY <1>2, <2>1
        <4> QED
          BY <1>5, <4>1
      <3>3. ~Has(z, "SETSLOT")
        BY Zenon, <1>3, <3>2 DEF Has, Range
      <3> QED
        BY Zenon, <3>1, <3>3 DEF Told
    <2>2. CASE i # 1
      <3>1. i - 1 \in 1 .. Len(z) /\ z[i - 1] = s[i]
        BY <1>2, <2>2
      <3>2. ASSUME NEW j \in (i - 1) + 1 .. Len(z) PROVE z[j].cmd # "SETSLOT"
        <4>1. j \in 1 .. Len(z) /\ j + 1 \in i + 1 .. Len(s)
          BY <1>2, <3>1
        <4>2. z[j] = s[j + 1]
          BY <1>2, <4>1
        <4> QED
          BY <1>5, <4>1, <4>2
      <3>3. z[i - 1].cmd = "SETSLOT" /\ z[i - 1].arg = x
        BY <1>5, <3>1
      <3> QED
        BY Zenon, <3>1, <3>2, <3>3 DEF Told
    <2> QED
      BY <2>1, <2>2
  <1> QED
    BY Zenon, <1>1, <1>4, <1>5 DEF Told

LEMMA OnceTail ==
    ASSUME NEW s \in Seq(Msgs), s # <<>>, Once(s)
    PROVE  /\ Once(Tail(s))
           /\ Head(s).cmd = "SETFORMAT" => ~Has(Tail(s), "SETFORMAT")
  <1>1. PICK z : z = Tail(s)
    OBVIOUS
  <1>2. /\ Head(s) = s[1] /\ Len(s) \in Nat /\ Len(s) >= 1 /\ Len(z) = Len(s) - 1
        /\ \A i \in 1 .. Len(z) : i + 1 \in 1 .. Len(s) /\ z[i] = s[i + 1]
        /\ z \in Seq(Msgs)
    BY SMT, <1>1, TailOf
  <1>3. DOMAIN z = 1 .. Len(z)
    BY <1>2
  <1>4. ASSUME NEW i \in 1 .. Len(z), NEW j \in 1 .. Len(z),
               z[i].cmd = "SETFORMAT", z[j].cmd = "SETFORMAT"
        PROVE  i = j
    <2>1. i + 1 = j + 1
      BY <1>2, <1>4 DEF Once
    <2> QED
      BY <2>1
  <1>5. ASSUME Head(s).cmd = "SETFORMAT", NEW i \in 1 .. Len(z) PROVE z[i].cmd # "SETFORMAT"
    <2>1. 1 \in 1 .. Len(s) /\ i + 1 \in 1 .. Len(s) /\ i + 1 # 1
      BY <1>2
    <2> QED
      BY <1>2, <1>5, <2>1 DEF Once
  <1>6. Once(z)
    BY Zenon, <1>4 DEF Once
  <1> QED
    BY Zenon, <1>1, <1>3, <1>5, <1>6 DEF Has, Range

\* What is known of the answer to m, which was taken from the queue and executed.
Answers(p, z, m, rx, tx, o) ==
    /\ m.cmd = "SETFORMAT" => /\ m.arg \in {PduVerMax, Agreed}
                              /\ "SETFORMAT" \in p.sent \ p.acked
                              /\ ~Has(z, "SETFORMAT")
    /\ "retuned" \notin o => /\ m.cmd = "RXTUNE" => rx = p.arfcn
                             /\ m.cmd = "TXTUNE" => tx = p.arfcn

\* The first command of a TRX is executed.
LEMMA TailTrx ==
    ASSUME NEW p, NEW s \in Seq(Msgs), s # <<>>, NEW rx, NEW tx, NEW y, NEW o,
           TrxInv(p, s, rx, tx, y, o), NEW m, m = Head(s),
           NEW rx2, rx2 = IF m.cmd = "RXTUNE" THEN m.arg ELSE rx,
           NEW tx2, tx2 = IF m.cmd = "TXTUNE" THEN m.arg ELSE tx,
           NEW y2, y2 = IF m.cmd = "SETSLOT" THEN m.arg ELSE y
    PROVE  /\ TrxInv(p, Tail(s), rx2, tx2, y2, o)
           /\ Answers(p, Tail(s), m, rx2, tx2, o)
  <1>1. PICK z : z = Tail(s)
    OBVIOUS
  <1>2. m \in Range(s) /\ \A x \in Range(z) : x \in Range(s)
    BY <1>1, TailRange
  <1>3. ASSUME TunedInv(p, s, rx, tx)
        PROVE  /\ TunedInv(p, z, rx2, tx2)
               /\ m.cmd = "RXTUNE" => rx2 = p.arfcn
               /\ m.cmd = "TXTUNE" => tx2 = p.arfcn
    BY <1>2, <1>3 DEF TunedInv
  <1>4. Once(z) /\ (m.cmd = "SETFORMAT" => ~Has(z, "SETFORMAT"))
    BY <1>1, OnceTail DEF TrxInv, FormatInv
  <1>5. FormatInv(p, z)
    BY <1>2, <1>4 DEF TrxInv, FormatInv
  <1>6. m.cmd = "SETFORMAT" => m.arg \in {PduVerMax, Agreed} /\ "SETFORMAT" \in p.sent \ p.acked
    BY <1>2 DEF TrxInv, FormatInv
  <1>7. SlotInv(p, z, y2, o)
    <2>1. Told(s, y, p.slot) => Told(z, y2, p.slot)
      BY Zenon, <1>1, ToldTail
    <2> QED
      BY Zenon, <2>1 DEF TrxInv, SlotInv
  <1>8. TrxInv(p, z, rx2, tx2, y2, o)
    BY Zenon, <1>3, <1>5, <1>7 DEF TrxInv
  <1>9. "retuned" \notin o => /\ m.cmd = "RXTUNE" => rx2 = p.arfcn
                              /\ m.cmd = "TXTUNE" => tx2 = p.arfcn
    BY Zenon, <1>3 DEF TrxInv
  <1> QED
    BY Zenon, <1>1, <1>4, <1>6, <1>8, <1>9 DEF Answers

\* ... and confirmed.
Confirmed(p, r) == r.st = p.st /\ r.enabled = p.enabled /\ Grown(p, r)

LEMMA ConfirmTrx ==
    ASSUME setup \in Setups, NEW p \in Prov, NEW z, NEW m \in Msgs, m.cmd \in Steps,
           NEW rx, NEW tx, NEW y, NEW o, TrxInv(p, z, rx, tx, y, o), p.st = "OPEN_POWEROFF",
           Answers(p, z, m, rx, tx, o),
           NEW r, r = Confirm(p, m)
    PROVE  r \in Prov /\ Confirmed(p, r) /\ TrxInv(r, z, rx, tx, y, o)
  <1>0. Agreed \in 0 .. PduVerMax /\ PduVerMax \in Nat /\ TrxPduVer \in Nat
    BY SetupTypes
  <1>1. CASE m.cmd # "SETFORMAT"
    <2>1. PICK a : a = p.acked \cup ({m.cmd} \cap p.sent)
      OBVIOUS
    <2>2. r = [p EXCEPT !.acked = a]
      BY <1>1, <2>1 DEF Confirm
    <2>3. a \subseteq Steps
      BY <2>1, ProvTypes
    <2>4. /\ r \in Prov /\ r.arfcn = p.arfcn /\ r.sent = p.sent /\ r.acked = a
          /\ r.verReq = p.verReq /\ r.verUse = p.verUse /\ r.tsc = p.tsc /\ r.slot = p.slot
          /\ r.slotSent = p.slotSent /\ r.st = p.st /\ r.enabled = p.enabled
      BY <2>2, <2>3 DEF Prov
    <2>5. "retuned" \notin o => TunedInv(r, z, rx, tx)
      BY <2>1, <2>4 DEF TrxInv, TunedInv, Answers
    <2>6. FormatInv(r, z)
      BY <1>1, <2>1, <2>4 DEF TrxInv, FormatInv
    <2>7. SlotInv(r, z, y, o)
      BY <2>4 DEF TrxInv, SlotInv
    <2>8. TrxInv(r, z, rx, tx, y, o)
      BY Zenon, <2>5, <2>6, <2>7 DEF TrxInv
    <2> QED
      BY <2>1, <2>4, <2>8 DEF Grown, Confirmed
  <1>2. CASE m.cmd = "SETFORMAT"
    <2>1. PICK version : version = IF m.arg <= TrxPduVer THEN m.arg ELSE TrxPduVer
      OBVIOUS
    <2>2. version = Agreed
      BY <1>0, <1>2, <2>1 DEF Agreed, Answers
    <2>3. r = IF version = p.verReq
              THEN [p EXCEPT !.verUse = version, !.acked = @ \cup {"SETFORMAT"}]
              ELSE [p EXCEPT !.verReq = version, !.sent = @ \ {"SETFORMAT"}]
      BY <1>2, <2>1 DEF Confirm
    <2>4. "SETFORMAT" \in p.sent \ p.acked /\ ~Has(z, "SETFORMAT")
      BY <1>2 DEF Answers
    <2>5. CASE version = p.verReq
      <3>1. PICK a : a = p.acked \cup {"SETFORMAT"}
        OBVIOUS
      <3>2. r = [p EXCEPT !.verUse = Agreed, !.acked = a]
        BY <2>2, <2>3, <2>5, <3>1
      <3>3. a \subseteq Steps
        BY <3>1, ProvTypes DEF Steps
      <3>4. /\ r \in Prov /\ r.arfcn = p.arfcn /\ r.sent = p.sent /\ r.acked = a
            /\ r.verReq = Agreed /\ r.verUse = Agreed /\ r.tsc = p.tsc /\ r.slot = p.slot
            /\ r.slotSent = p.slotSent /\ r.st = p.st /\ r.enabled = p.enabled
        BY <1>0, <2>2, <2>5, <3>2, <3>3 DEF Prov
      <3>5. "retuned" \notin o => TunedInv(r, z, rx, tx)
        BY <2>4, <3>1, <3>4 DEF TrxInv, TunedInv
      <3>6. FormatInv(r, z)
        BY <2>4, <3>1, <3>4 DEF TrxInv, FormatInv, Has
      <3>7. SlotInv(r, z, y, o)
        BY <3>4 DEF TrxInv, SlotInv
      <3>8. TrxInv(r, z, rx, tx, y, o)
        BY Zenon, <3>5, <3>6, <3>7 DEF TrxInv
      <3> QED
        BY <3>1, <3>4, <3>8 DEF Grown, Confirmed
    <2>6. CASE version # p.verReq
      <3>1. PICK a : a = p.sent \ {"SETFORMAT"}
        OBVIOUS
      <3>2. r = [p EXCEPT !.verReq = Agreed, !.sent = a]
        BY <2>2, <2>3, <2>6, <3>1
      <3>3. a \subseteq Steps
        BY <3>1, ProvTypes
      <3>4. /\ r \in Prov /\ r.arfcn = p.arfcn /\ r.sent = a /\ r.acked = p.acked
            /\ r.verReq = Agreed /\ r.verUse = p.verUse /\ r.tsc = p.tsc /\ r.slot = p.slot
            /\ r.slotSent = p.slotSent /\ r.st = p.st /\ r.enabled = p.enabled
        BY <1>0, <3>2, <3>3 DEF Prov
      <3>5. "retuned" \notin o => TunedInv(r, z, rx, tx)
        BY <2>4, <3>1, <3>4 DEF TrxInv, TunedInv
      <3>6. FormatInv(r, z)
        BY <2>4, <3>1, <3>4 DEF TrxInv, FormatInv, Has
      <3>7. SlotInv(r, z, y, o)
        BY <3>4 DEF TrxInv, SlotInv
      <3>8. TrxInv(r, z, rx, tx, y, o)
        BY Zenon, <3>5, <3>6, <3>7 DEF TrxInv
      <3> QED
        BY <3>4, <3>8 DEF Grown, Confirmed
    <2> QED
      BY <2>5, <2>6
  <1> QED
    BY <1>1, <1>2

Executed(d, t, m) ==
    CASE m.cmd = "RXTUNE" -> [d EXCEPT !.rx[t] = m.arg]
      [] m.cmd = "TXTUNE" -> [d EXCEPT !.tx[t] = m.arg]
      [] m.cmd = "SETSLOT" -> [d EXCEPT !.slot[t] = m.arg]
      [] m.cmd = "POWERON" -> [d EXCEPT !.power = TRUE]
      [] m.cmd \in {"POWEROFF", "POWEROFF_NOCB"} -> [d EXCEPT !.power = FALSE]
      [] OTHER -> d

Acted(d, e, t, m) ==
    /\ e.rx[t] = (IF m.cmd = "RXTUNE" THEN m.arg ELSE d.rx[t])
    /\ e.tx[t] = (IF m.cmd = "TXTUNE" THEN m.arg ELSE d.tx[t])
    /\ e.slot[t] = (IF m.cmd = "SETSLOT" THEN m.arg ELSE d.slot[t])
    /\ \A u \in Trx \ {t} : e.rx[u] = d.rx[u] /\ e.tx[u] = d.tx[u] /\ e.slot[u] = d.slot[u]
    /\ e.power = IF m.cmd = "POWERON" THEN TRUE
                 ELSE IF m.cmd \in {"POWEROFF", "POWEROFF_NOCB"} THEN FALSE ELSE d.power

LEMMA ExecutedIs ==
    ASSUME NEW d \in Device, NEW t \in Trx, NEW m \in Msgs, NEW e, e = Executed(d, t, m)
    PROVE  e \in Device /\ Acted(d, e, t, m)
  <1>1. m.arg \in Args
    BY DEF Msgs
  <1>2. /\ d.rx \in [Trx -> Args] /\ d.tx \in [Trx -> Args] /\ d.slot \in [Trx -> Args]
        /\ d.power \in BOOLEAN
        /\ d = [power |-> d.power, rx |-> d.rx, tx |-> d.tx, slot |-> d.slot]
    BY DEF Device, Acted
  <1>3. CASE m.cmd = "RXTUNE"
    <2>1. e = [power |-> d.power, rx |-> [d.rx EXCEPT ![t] = m.arg], tx |-> d.tx,
               slot |-> d.slot]
      BY <1>2, <1>3 DEF Executed
    <2> QED
      BY <1>1, <1>2, <1>3, <2>1 DEF Device, Acted
  <1>4. CASE m.cmd = "TXTUNE"
    <2>1. e = [power |-> d.power, rx |-> d.rx, tx |-> [d.tx EXCEPT ![t] = m.arg],
               slot |-> d.slot]
      BY <1>2, <1>4 DEF Executed
    <2> QED
      BY <1>1, <1>2, <1>4, <2>1 DEF Device, Acted
  <1>5. CASE m.cmd = "SETSLOT"
    <2>1. e = [power |-> d.power, rx |-> d.rx, tx |-> d.tx,
               slot |-> [d.slot EXCEPT ![t] = m.arg]]
      BY <1>2, <1>5 DEF Executed
    <2> QED
      BY <1>1, <1>2, <1>5, <2>1 DEF Device, Acted
  <1>6. CASE m.cmd = "POWERON"
    <2>1. e = [power |-> TRUE, rx |-> d.rx, tx |-> d.tx, slot |-> d.slot]
      BY <1>2, <1>6 DEF Executed
    <2> QED
      BY <1>2, <1>6, <2>1 DEF Device, Acted
  <1>7. CASE m.cmd \in {"POWEROFF", "POWEROFF_NOCB"}
    <2>1. e = [power |-> FALSE, rx |-> d.rx, tx |-> d.tx, slot |-> d.slot]
      BY <1>2, <1>7 DEF Executed
    <2> QED
      BY <1>2, <1>7, <2>1 DEF Device, Acted
  <1>8. CASE m.cmd \notin {"RXTUNE", "TXTUNE", "SETSLOT", "POWERON", "POWEROFF",
                           "POWEROFF_NOCB"}
    <2>1. e = d
      BY <1>8 DEF Executed
    <2> QED
      BY <1>2, <1>8, <2>1 DEF Acted
  <1> QED
    BY <1>3, <1>4, <1>5, <1>6, <1>7, <1>8

Taken(w, v, e, o, t, m) ==
    /\ m \in Msgs /\ e \in Device /\ WorldInv(v, e, o)
    /\ v.prov = w.prov /\ v.plink = w.plink /\ v.phase = w.phase
    /\ Answers(w.prov[t], v.q[t], m, e.rx[t], e.tx[t], o)

LEMMA TakeHead ==
    ASSUME NEW w, NEW d \in Device, NEW o, WorldInv(w, d, o), NEW t \in Trx, w.q[t] # <<>>,
           NEW m, m = Head(w.q[t]), NEW e, e = Executed(d, t, m),
           NEW v, v = Upd(w, t, w.prov[t], Tail(w.q[t]))
    PROVE  Taken(w, v, e, o, t, m)
  <1>1. w \in World /\ w.prov[t] \in Prov /\ w.q[t] \in Seq(Msgs)
        /\ w.prov \in [Trx -> Prov] /\ w.q \in [Trx -> Seq(Msgs)]
    BY DEF WorldInv, World
  <1>2. PICK s \in Seq(Msgs) : s = w.q[t]
    BY <1>1
  <1>3. PICK p \in Prov : p = w.prov[t]
    BY <1>1
  <1>4. PICK z : z = Tail(s)
    OBVIOUS
  <1>5. z \in Seq(Msgs) /\ m \in Msgs /\ s # <<>> /\ m = Head(s)
    BY <1>2, <1>4
  <1>6. /\ v.prov = w.prov /\ v.plink = w.plink /\ v.phase = w.phase
        /\ v.q = [w.q EXCEPT ![t] = z]
        /\ v = [prov |-> v.prov, q |-> v.q, plink |-> v.plink, phase |-> v.phase]
    <2>1. v = Upd(w, t, p, z)
      BY Zenon, <1>2, <1>3, <1>4
    <2>2. v = [prov |-> [w.prov EXCEPT ![t] = p], q |-> [w.q EXCEPT ![t] = z],
               plink |-> w.plink, phase |-> w.phase]
      BY Zenon, <1>1, <1>5, <2>1, UpdIs
    <2>3. [w.prov EXCEPT ![t] = p] = w.prov
      BY <1>1, <1>3
    <2> QED
      BY <2>2, <2>3
  <1>7. v.q \in [Trx -> Seq(Msgs)] /\ v.q[t] = z /\ \A u \in Trx \ {t} : v.q[u] = w.q[u]
    BY <1>1, <1>5, <1>6
  <1>8. v \in World
    BY <1>1, <1>6, <1>7 DEF World
  <1>9. /\ e \in Device
        /\ e.rx[t] = (IF m.cmd = "RXTUNE" THEN m.arg ELSE d.rx[t])
        /\ e.tx[t] = (IF m.cmd = "TXTUNE" THEN m.arg ELSE d.tx[t])
        /\ e.slot[t] = (IF m.cmd = "SETSLOT" THEN m.arg ELSE d.slot[t])
        /\ \A u \in Trx \ {t} : e.rx[u] = d.rx[u] /\ e.tx[u] = d.tx[u] /\ e.slot[u] = d.slot[u]
    <2>1. e \in Device /\ Acted(d, e, t, m)
      BY Zenon, <1>5, ExecutedIs
    <2> QED
      BY Zenon, <2>1 DEF Acted
  <1>10. TrxInv(p, s, d.rx[t], d.tx[t], d.slot[t], o)
    BY Zenon, <1>2, <1>3 DEF WorldInv, Each
  <1>11. /\ TrxInv(p, z, e.rx[t], e.tx[t], e.slot[t], o)
         /\ Answers(p, z, m, e.rx[t], e.tx[t], o)
    <2>1. PICK rx2 : rx2 = IF m.cmd = "RXTUNE" THEN m.arg ELSE d.rx[t]
      OBVIOUS
    <2>2. PICK tx2 : tx2 = IF m.cmd = "TXTUNE" THEN m.arg ELSE d.tx[t]
      OBVIOUS
    <2>3. PICK y2 : y2 = IF m.cmd = "SETSLOT" THEN m.arg ELSE d.slot[t]
      OBVIOUS
    <2>4. /\ TrxInv(p, z, rx2, tx2, y2, o)
          /\ Answers(p, z, m, rx2, tx2, o)
      BY SMT, <1>4, <1>5, <1>10, <2>1, <2>2, <2>3, TailTrx
    <2>5. e.rx[t] = rx2 /\ e.tx[t] = tx2 /\ e.slot[t] = y2
      BY Zenon, <1>9, <2>1, <2>2, <2>3
    <2> QED
      BY Zenon, <2>4, <2>5
  <1>12. Each(v, e, o)
    <2>1. ASSUME NEW u \in Trx
          PROVE  TrxInv(v.prov[u], v.q[u], e.rx[u], e.tx[u], e.slot[u], o)
      <3>1. CASE u = t
        BY Zenon, <1>3, <1>6, <1>7, <1>11, <3>1
      <3>2. CASE u # t
        <4>1. TrxInv(w.prov[u], w.q[u], d.rx[u], d.tx[u], d.slot[u], o)
          BY Zenon DEF WorldInv, Each
        <4>2. /\ v.prov[u] = w.prov[u] /\ v.q[u] = w.q[u]
              /\ e.rx[u] = d.rx[u] /\ e.tx[u] = d.tx[u] /\ e.slot[u] = d.slot[u]
          BY Zenon, <1>6, <1>7, <1>9, <3>2
        <4> QED
          BY Zenon, <4>1, <4>2
      <3> QED
        BY <3>1, <3>2
    <2> QED
      BY Zenon, <2>1 DEF Each
  <1>13. Others(v) /\ ClosingInv(v, o) /\ DownInv(v, o)
    BY Zenon, <1>6 DEF WorldInv, Others, ClosingInv, DownInv
  <1>14. ClosedInv(v)
    <2>1. w.prov[t].st # "CLOSED"
      BY DEF WorldInv, ClosedInv
    <2>2. ASSUME NEW u \in Trx, v.prov[u].st = "CLOSED"
          PROVE  v.plink.state = "SHUTDOWN" /\ v.prov[0].st = "CLOSED" /\ v.q[u] = <<>>
      <3>1. u # t /\ w.prov[u].st = "CLOSED"
        BY Zenon, <1>6, <2>1, <2>2
      <3>2. w.plink.state = "SHUTDOWN" /\ w.prov[0].st = "CLOSED" /\ w.q[u] = <<>>
        BY Zenon, <3>1 DEF WorldInv, ClosedInv
      <3> QED
        BY Zenon, <1>6, <1>7, <3>1, <3>2
    <2> QED
      BY Zenon, <2>2 DEF ClosedInv
  <1>15. ASSUME NEW u \in Trx, Has(v.q[u], "POWERON") PROVE Has(w.q[u], "POWERON")
    <2>1. CASE u = t
      <3>1. \A x \in Range(z) : x \in Range(s)
        BY <1>4, <1>5, TailRange
      <3> QED
        BY Zenon, <1>2, <1>7, <1>15, <2>1, <3>1 DEF Has
    <2>2. CASE u # t
      BY Zenon, <1>7, <1>15, <2>2
    <2> QED
      BY <2>1, <2>2
  <1>16. FirstPower(v)
    BY Zenon, <1>15 DEF WorldInv, FirstPower
  <1>17. ReadyInv(v, o)
    <2>1. PowerSoon(v) => PowerSoon(w)
      BY Zenon, <1>6, <1>15, FirstTrx DEF PowerSoon
    <2> QED
      BY Zenon, <1>6, <2>1 DEF WorldInv, ReadyInv
  <1>18. WorldInv(v, e, o)
    BY Zenon, <1>8, <1>12, <1>13, <1>14, <1>17, <1>16 DEF WorldInv
  <1> QED
    BY Zenon, <1>3, <1>5, <1>6, <1>7, <1>9, <1>11, <1>18 DEF Taken

\* A world whose link has changed.
LEMMA PlinkOf ==
    ASSUME NEW w \in World, NEW l \in Links, NEW v, v = [w EXCEPT !.plink = l]
    PROVE  /\ v \in World /\ v.prov = w.prov /\ v.q = w.q /\ v.plink = l /\ v.phase = w.phase
  BY DEF World

LEMMA CnfPoweronKeeps ==
    ASSUME setup \in Setups, NEW w, NEW d, NEW o, WorldInv(w, d, o)
    PROVE  WorldInv(CnfPoweron(w, TRUE), d, o)
  <1>0. w \in World /\ w.plink \in Links
    BY DEF WorldInv, World
  <1>1. PICK l : l = [w.plink EXCEPT !.powered = TRUE]
    OBVIOUS
  <1>2. l \in Links /\ l.state = w.plink.state
    BY <1>0, <1>1 DEF Links
  <1>3. PICK x : x = [w EXCEPT !.plink.powered = TRUE]
    OBVIOUS
  <1>4. x = [w EXCEPT !.plink = l]
    BY <1>0, <1>1, <1>3 DEF World
  <1>5. x \in World /\ x.prov = w.prov /\ x.q = w.q /\ x.plink = l /\ x.phase = w.phase
    BY SMT, <1>0, <1>2, <1>4, PlinkOf
  <1>6. Regular(o) /\ w.prov[0].st = "OPEN_WAIT_POWEROFF_CNF" => w.phase = "closing"
    BY DEF WorldInv, ClosingInv
  <1>7. WorldInv(x, d, o)
    <2>1. x.plink.state \in {"SHUTDOWN", w.plink.state} /\ x.plink.state = w.plink.state
      BY <1>2, <1>5
    <2> QED
      BY SMT, <1>5, <1>6, <2>1, Relinked
  <1>8. CASE x.prov[0].st # "OPEN_WAIT_POWERON_CNF" \/ x.plink.state = "CONNECTED"
    <2>1. CnfPoweron(w, TRUE) = x
      BY Zenon, <1>3, <1>8 DEF CnfPoweron
    <2> QED
      BY Zenon, <1>7, <2>1
  <1>9. CASE x.prov[0].st = "OPEN_WAIT_POWERON_CNF" /\ x.plink.state # "CONNECTED"
    <2>1. PICK k : k = [x.plink EXCEPT !.state = "CONNECTED"]
      OBVIOUS
    <2>2. k \in Links /\ k.state = "CONNECTED"
      BY <1>2, <1>5, <2>1 DEF Links
    <2>3. PICK y : y = [x EXCEPT !.plink.state = "CONNECTED"]
      OBVIOUS
    <2>4. y = [x EXCEPT !.plink = k]
      BY <1>5, <2>1, <2>3 DEF World
    <2>5. y \in World /\ y.prov = x.prov /\ y.q = x.q /\ y.plink = k /\ y.phase = x.phase
      BY SMT, <1>5, <2>2, <2>4, PlinkOf
    <2>6. WorldInv(y, d, o)
      <3>1. x.prov[0].st # "CLOSED" /\ y.plink.state # "SHUTDOWN"
        BY <1>9, <2>2, <2>5
      <3>2. Regular(o) /\ x.prov[0].st = "OPEN_WAIT_POWEROFF_CNF" => y.phase = "closing"
        BY <1>9
      <3> QED
        BY SMT, <1>7, <2>5, <3>1, <3>2, Relinked
    <2>7. PICK v : v = EnterOpenPoweron(y, 0)
      OBVIOUS
    <2>8. CnfPoweron(w, TRUE) = v
      BY Zenon, <1>3, <1>9, <2>3, <2>7 DEF CnfPoweron
    <2>9. /\ 0 \in Trx /\ Base(y, d, o) /\ y.prov[0].st = "OPEN_WAIT_POWERON_CNF"
          /\ y.prov[0].st # "CLOSED"
      BY <1>9, <2>5, <2>6, FirstTrx DEF WorldInv, Base
    <2>10. ~y.prov[0].slotSent /\ y.prov[0].verUse = Agreed
      <3>1. TrxInv(y.prov[0], y.q[0], d.rx[0], d.tx[0], d.slot[0], o)
        BY Zenon, <2>9 DEF Base, Each
      <3> QED
        BY <2>9, <3>1 DEF TrxInv, SlotInv, FormatInv
    <2>11. /\ Base(v, d, o) /\ v.plink = y.plink /\ v.prov[0].st = "OPEN_POWERON"
           /\ \A u \in Trx \ {0} : v.prov[u] = y.prov[u] /\ v.q[u] = y.q[u]
      BY SMT, <2>7, <2>9, <2>10, EnterOn
    <2>12. WorldInv(v, d, o)
      BY SMT, <2>6, <2>9, <2>11, NotWaiting
    <2> QED
      BY Zenon, <2>8, <2>12
  <1> QED
    BY <1>8, <1>9

LEMMA RejectKeeps ==
    ASSUME NEW w, NEW d, NEW o, o # {}, WorldInv(w, d, o)
    PROVE  WorldInv(CnfPoweron(w, FALSE), d, o)
  <1>0. w \in World /\ w.plink \in Links
    BY DEF WorldInv, World
  <1>1. PICK v : v = CnfPoweron(w, FALSE)
    OBVIOUS
  <1>2. \/ v = [w EXCEPT !.plink.powered = TRUE]
        \/ v = [[w EXCEPT !.plink.powered = TRUE] EXCEPT !.plink.state = "SHUTDOWN"]
    BY Zenon, <1>1 DEF CnfPoweron
  <1>3. PICK l : l = [w.plink EXCEPT !.powered = TRUE]
    OBVIOUS
  <1>4. PICK k : k = [l EXCEPT !.state = "SHUTDOWN"]
    OBVIOUS
  <1>5. l \in Links /\ k \in Links /\ l.state = w.plink.state /\ k.state = "SHUTDOWN"
    BY <1>0, <1>3, <1>4 DEF Links
  <1>6. PICK x : x = [w EXCEPT !.plink.powered = TRUE]
    OBVIOUS
  <1>7. x \in World /\ x.prov = w.prov /\ x.q = w.q /\ x.plink = l /\ x.phase = w.phase
    <2>1. x = [w EXCEPT !.plink = l]
      BY <1>0, <1>3, <1>6 DEF World
    <2> QED
      BY SMT, <1>0, <1>5, <2>1, PlinkOf
  <1>8. v \in World /\ v.prov = w.prov /\ v.q = w.q /\ v.phase = w.phase
        /\ (v.plink = l \/ v.plink = k)
    <2>1. CASE v = x
      BY <1>7, <2>1
    <2>2. CASE v = [x EXCEPT !.plink.state = "SHUTDOWN"]
      <3>1. x \in World /\ x.plink = l
        BY <1>7
      <3>2. v = [x EXCEPT !.plink = k]
        BY <1>4, <2>2, <3>1 DEF World
      <3>3. v \in World /\ v.prov = x.prov /\ v.q = x.q /\ v.plink = k /\ v.phase = x.phase
        BY SMT, <1>5, <3>1, <3>2, PlinkOf
      <3> QED
        BY <1>7, <3>3
    <2> QED
      BY Zenon, <1>2, <1>6, <2>1, <2>2
  <1>10. Regular(o) /\ w.prov[0].st = "OPEN_WAIT_POWEROFF_CNF" => v.phase = "closing"
    BY <1>8 DEF WorldInv, ClosingInv
  <1>11. v.plink.state \in {"SHUTDOWN", w.plink.state}
    BY <1>5, <1>8
  <1>12. WorldInv(v, d, o)
    BY SMT, <1>8, <1>10, <1>11, Relinked
  <1> QED
    BY <1>1, <1>12

LEMMA CnfPoweroffKeeps ==
    ASSUME NEW w, NEW d, NEW o, WorldInv(w, d, o)
    PROVE  WorldInv(CnfPoweroff(w), d, o)
  <1>0. w \in World /\ w.plink \in Links
    BY DEF WorldInv, World
  <1>1. PICK l : l = [w.plink EXCEPT !.powered = FALSE, !.offSent = FALSE]
    OBVIOUS
  <1>2. l \in Links /\ l.state = w.plink.state
    BY <1>0, <1>1 DEF Links
  <1>3. PICK x : x = [w EXCEPT !.plink.powered = FALSE, !.plink.offSent = FALSE]
    OBVIOUS
  <1>4. /\ x.prov = w.prov /\ x.q = w.q /\ x.plink = l /\ x.phase = w.phase
        /\ x = [prov |-> x.prov, q |-> x.q, plink |-> x.plink, phase |-> x.phase]
    BY <1>0, <1>1, <1>3 DEF World
  <1>5. x \in World
    BY <1>0, <1>2, <1>4 DEF World
  <1>6. WorldInv(x, d, o)
    <2>1. x.plink.state \in {"SHUTDOWN", w.plink.state} /\ x.plink.state = w.plink.state
      BY <1>2, <1>4
    <2>2. Regular(o) /\ w.prov[0].st = "OPEN_WAIT_POWEROFF_CNF" => x.phase = "closing"
      BY <1>4 DEF WorldInv, ClosingInv
    <2>3. x.prov = w.prov /\ x.q = w.q
      BY <1>4
    <2> QED
      BY SMT, <1>5, <2>1, <2>2, <2>3, Relinked
  <1>7. CASE x.prov[0].st = "OPEN_WAIT_POWEROFF_CNF"
    <2>1. PICK v : v = trx_prov_fsm_apply_close(x)
      OBVIOUS
    <2>2. CnfPoweroff(w) = v
      BY Zenon, <1>3, <1>7, <2>1 DEF CnfPoweroff
    <2>3. Regular(o) => \A t \in Trx \ {0} : x.prov[t].st # "OPEN_POWERON"
      BY Zenon, <1>6, <1>7 DEF WorldInv, ClosingInv
    <2>4. WorldInv(v, d, o)
      BY SMT, <1>6, <1>7, <2>1, <2>3, ApplyClose
    <2> QED
      BY Zenon, <2>2, <2>4
  <1>8. CASE x.prov[0].st # "OPEN_WAIT_POWEROFF_CNF"
    <2>1. CnfPoweroff(w) = x
      BY Zenon, <1>3, <1>8 DEF CnfPoweroff
    <2> QED
      BY Zenon, <1>6, <2>1
  <1> QED
    BY <1>7, <1>8

-----------------------------------------------------------------------------
(* The actions.                                                            *)

LEMMA BecomeIs ==
    ASSUME NEW x \in World, Become(x)
    PROVE  Now' = x
  BY DEF Become, Now, World

\* The invariant of the next state, spoken about with the setup of this one.
Counted(u, o) ==
    /\ u \in [slots : 0 .. setup.maxSlots, rejects : 0 .. setup.maxRejects,
              changes : 0 .. setup.maxChanges]
    /\ o \subseteq {"rejected", "retuned", "late"}
NextInv == WorldInv(Now', dev', odd') /\ dev' \in Device /\ Counted(used', odd')

LEMMA Stepped ==
    ASSUME setup \in Setups, setup' = setup, NextInv
    PROVE  Inv'
  <1>1. /\ Prov' = Prov /\ PduVerMax' = PduVerMax /\ Agreed' = Agreed
        /\ Args' = Args
    BY DEF Prov, Arfcns, PduVerMax, TrxPduVer, Agreed, Args
  <1>2. Msgs' = Msgs
    BY <1>1 DEF Msgs
  <1>3. World' = World /\ Device' = Device
    BY <1>1, <1>2 DEF World, Device
  <1> QED
    BY <1>1, <1>2, <1>3 DEF NextInv, Inv, WorldInv, Each, TrxInv, FormatInv,
       Others, OtherInv, trx_is_provisioned, ReadyInv, Counted

LEMMA InitHolds == Init => Inv
  <1> SUFFICES ASSUME Init PROVE Inv
    OBVIOUS
  <1>1. setup \in Setups
    BY DEF Init
  <1>2. PICK r : r = [st |-> "CLOSED", acked |-> {}, enabled |-> FALSE,
                      arfcn |-> None, tsc |-> FALSE, verReq |-> 0, verUse |-> 0,
                      sent |-> {}, slot |-> None, slotSent |-> FALSE]
    OBVIOUS
  <1>3. r \in Prov /\ r.st = "CLOSED"
    <2>1. 0 \in 0 .. PduVerMax
      BY <1>1, SetupTypes
    <2> QED
      BY <1>2, <2>1 DEF Prov, ProvStates
  <1>4. PICK p : p = trx_provision_reset(r)
    OBVIOUS
  <1>5. /\ p \in Prov /\ p.st = "CLOSED" /\ p.arfcn = None /\ p.sent = {} /\ p.acked = {}
        /\ ~p.slotSent /\ p.verReq = PduVerMax
    <2>1. p \in Prov /\ p.st = "CLOSED"
      BY Zenon, <1>1, <1>3, <1>4, ResetFresh
    <2> QED
      BY <1>3, <1>4, <2>1 DEF trx_provision_reset, Prov
  <1>6. PICK x : x = [prov |-> [t \in Trx |-> p], q |-> [t \in Trx |-> <<>>],
                      plink |-> [state |-> "SHUTDOWN", powered |-> FALSE, offSent |-> FALSE],
                      phase |-> "idle"]
    OBVIOUS
  <1>7. /\ x \in World /\ x.plink.state = "SHUTDOWN"
        /\ \A t \in Trx : x.prov[t] = p /\ x.q[t] = <<>>
    <2>1. x.prov \in [Trx -> Prov] /\ x.q \in [Trx -> Seq(Msgs)]
      BY <1>5, <1>6
    <2> QED
      BY <1>6, <2>1 DEF World, Links, Phases
  <1>8. ASSUME NEW rx, NEW tx, NEW y PROVE TrxInv(p, <<>>, rx, tx, y, {})
    <2>1. TunedInv(p, <<>>, rx, tx)
      BY <1>5, EmptyRange DEF TunedInv
    <2>2. Once(<<>>)
      BY DEF Once
    <2>3. FormatInv(p, <<>>)
      BY <1>5, <2>2, EmptyRange DEF FormatInv
    <2>4. SlotInv(p, <<>>, y, {})
      BY <1>5 DEF SlotInv
    <2> QED
      BY Zenon, <2>1, <2>3, <2>4 DEF TrxInv
  <1>9. WorldInv(x, dev, {})
    <2>1. Each(x, dev, {})
      BY Zenon, <1>7, <1>8 DEF Each
    <2>2. Others(x)
      BY <1>5, <1>7 DEF Others, OtherInv
    <2>3. ~PowerSoon(x)
      BY <1>5, <1>7, FirstTrx, EmptyRange DEF PowerSoon
    <2>4. ClosedInv(x) /\ ClosingInv(x, {}) /\ DownInv(x, {})
      BY <1>5, <1>7, FirstTrx DEF ClosedInv, ClosingInv, DownInv
    <2>5. ReadyInv(x, {})
      BY Zenon, <2>3 DEF ReadyInv
    <2>6. FirstPower(x)
      BY Zenon, <1>7, EmptyRange DEF FirstPower
    <2> QED
      BY Zenon, <1>7, <2>1, <2>2, <2>4, <2>5, <2>6 DEF WorldInv
  <1>10. PICK v : v = bts_model_phy_link_open(x)
    OBVIOUS
  <1>11. WorldInv(v, dev, {}) /\ v \in World
    <2>1. WorldInv(v, dev, {})
      BY SMT, <1>1, <1>9, <1>10, LinkOpen
    <2> QED
      BY Zenon, <2>1 DEF WorldInv
  <1>12. Now = v
    <2>1. prov = v.prov /\ q = v.q /\ plink = v.plink /\ phase = v.phase
      BY Zenon, <1>2, <1>4, <1>6, <1>10 DEF Init
    <2> QED
      BY <1>11, <2>1 DEF Now, World
  <1>13. odd = {}
    BY DEF Init
  <1>14. dev \in Device
    BY DEF Init, Device, Args
  <1>15. used \in [slots : 0 .. setup.maxSlots, rejects : 0 .. setup.maxRejects,
                   changes : 0 .. setup.maxChanges]
    BY <1>1, SetupTypes DEF Init
  <1> QED
    BY <1>1, <1>11, <1>12, <1>13, <1>14, <1>15 DEF Inv

LEMMA ConfigureKeeps ==
    ASSUME setup \in Setups, NEW o, WorldInv(Now, dev, o), NEW t \in Trx, NEW p \in Prov,
           Configure(t, p), p.st = "OPEN_POWEROFF",
           TrxInv(p, q[t], dev.rx[t], dev.tx[t], dev.slot[t], o),
           "retuned" \notin o => Grown(prov[t], p)
    PROVE  WorldInv(Now', dev', o)
  <1>1. PICK w : w = Now
    OBVIOUS
  <1>2. w.prov = prov /\ w.q = q /\ w.phase = phase
    BY <1>1 DEF Now
  <1>3. PICK x : x = st_open_poweroff(w, t, p)
    OBVIOUS
  <1>4. /\ phase = "up" /\ prov[t].st = "OPEN_POWEROFF" /\ Become(x) /\ dev' = dev
    BY <1>1, <1>3 DEF Configure
  <1>5. PICK d : d = dev
    OBVIOUS
  <1>6. WorldInv(x, d, o)
    <2>1. w.prov[t].st = "OPEN_POWEROFF" /\ w.phase # "closing" /\ WorldInv(w, d, o)
      BY <1>1, <1>2, <1>4, <1>5
    <2>2. TrxInv(p, w.q[t], d.rx[t], d.tx[t], d.slot[t], o)
      BY Zenon, <1>2, <1>5
    <2>3. "retuned" \notin o => Grown(w.prov[t], p)
      BY <1>2
    <2> QED
      BY SMT, <1>3, <2>1, <2>2, <2>3, StOpenPoweroff
  <1>7. x \in World
    BY Zenon, <1>6 DEF WorldInv
  <1>8. Now' = x
    BY Zenon, <1>4, <1>7, BecomeIs
  <1> QED
    BY <1>4, <1>5, <1>6, <1>8

\* What Inv says of one TRX.
LEMMA InvTrx ==
    ASSUME Inv, NEW t \in Trx
    PROVE  /\ setup \in Setups /\ WorldInv(Now, dev, odd) /\ Counted(used, odd)
           /\ prov[t] \in Prov /\ q[t] \in Seq(Msgs) /\ dev \in Device
           /\ TrxInv(prov[t], q[t], dev.rx[t], dev.tx[t], dev.slot[t], odd)
  <1>1. PICK w : w = Now
    OBVIOUS
  <1>2. w.prov = prov /\ w.q = q
    BY <1>1 DEF Now
  <1>3. WorldInv(w, dev, odd)
    BY <1>1 DEF Inv
  <1>4. w.prov[t] \in Prov /\ w.q[t] \in Seq(Msgs)
    BY <1>3 DEF WorldInv, World
  <1>5. TrxInv(w.prov[t], w.q[t], dev.rx[t], dev.tx[t], dev.slot[t], odd)
    BY Zenon, <1>3 DEF WorldInv, Each
  <1>6. setup \in Setups /\ Counted(used, odd) /\ dev \in Device
    BY DEF Inv, Counted
  <1> QED
    BY <1>1, <1>2, <1>3, <1>4, <1>5, <1>6

LEMMA CfgEnableKeeps ==
    ASSUME Inv, NEW t \in Trx, CfgEnable(t)
    PROVE  NextInv
  <1>0. /\ setup \in Setups /\ WorldInv(Now, dev, odd) /\ Counted(used, odd)
        /\ prov[t] \in Prov /\ dev \in Device
        /\ TrxInv(prov[t], q[t], dev.rx[t], dev.tx[t], dev.slot[t], odd)
    BY InvTrx
  <1>1. PICK p \in Prov : p = prov[t]
    BY <1>0
  <1>2. PICK r : r = [p EXCEPT !.enabled = TRUE]
    OBVIOUS
  <1>3. /\ r \in Prov /\ r.arfcn = p.arfcn /\ r.sent = p.sent /\ r.acked = p.acked
        /\ r.verReq = p.verReq /\ r.verUse = p.verUse /\ r.tsc = p.tsc /\ r.slot = p.slot
        /\ r.slotSent = p.slotSent /\ r.st = p.st
    BY <1>2 DEF Prov
  <1>4. Configure(t, r) /\ used' = used /\ odd' = odd
    BY <1>1, <1>2 DEF CfgEnable
  <1>5. TrxInv(r, q[t], dev.rx[t], dev.tx[t], dev.slot[t], odd)
    BY <1>0, <1>1, <1>3 DEF TrxInv, TunedInv, FormatInv, SlotInv
  <1>6. r.st = "OPEN_POWEROFF" /\ dev' = dev
    BY <1>1, <1>3, <1>4 DEF Configure
  <1>7. Grown(prov[t], r)
    BY <1>1, <1>3 DEF Grown
  <1>8. WorldInv(Now', dev', odd)
    BY SMT, <1>0, <1>3, <1>4, <1>5, <1>6, <1>7, ConfigureKeeps
  <1> QED
    BY <1>0, <1>4, <1>6, <1>8 DEF NextInv

LEMMA CfgBsicKeeps ==
    ASSUME Inv, NEW t \in Trx, CfgBsic(t)
    PROVE  NextInv
  <1>1. /\ setup \in Setups /\ WorldInv(Now, dev, odd) /\ Counted(used, odd)
        /\ prov[t] \in Prov /\ dev \in Device
        /\ TrxInv(prov[t], q[t], dev.rx[t], dev.tx[t], dev.slot[t], odd)
    BY InvTrx
  <1>2. PICK p \in Prov : p = prov[t]
    BY <1>1
  <1>3. PICK r : r = [p EXCEPT !.tsc = TRUE, !.sent = @ \ {"SETTSC"}]
    OBVIOUS
  <1>4. /\ r \in Prov /\ r.arfcn = p.arfcn /\ r.sent = p.sent \ {"SETTSC"} /\ r.acked = p.acked
        /\ r.verReq = p.verReq /\ r.verUse = p.verUse /\ r.tsc /\ r.slot = p.slot
        /\ r.slotSent = p.slotSent /\ r.st = p.st
    <2>1. PICK a \in SUBSET Steps : a = p.sent \ {"SETTSC"}
      BY ProvTypes
    <2>2. r = [p EXCEPT !.tsc = TRUE, !.sent = a]
      BY <1>3, <2>1
    <2> QED
      BY <2>1, <2>2 DEF Prov
  <1>5. Configure(t, r) /\ used' = used /\ odd' = odd /\ ~p.tsc
    BY <1>2, <1>3 DEF CfgBsic
  <1>6. "SETTSC" \notin p.acked
    BY <1>1, <1>2, <1>5 DEF TrxInv, FormatInv
  <1>7. TrxInv(r, q[t], dev.rx[t], dev.tx[t], dev.slot[t], odd)
    <2>1. TunedInv(p, q[t], dev.rx[t], dev.tx[t]) => TunedInv(r, q[t], dev.rx[t], dev.tx[t])
      BY <1>4, <1>6 DEF TunedInv
    <2>2. FormatInv(r, q[t])
      BY <1>1, <1>2, <1>4, <1>6 DEF TrxInv, FormatInv
    <2>3. SlotInv(r, q[t], dev.slot[t], odd)
      BY <1>1, <1>2, <1>4 DEF TrxInv, SlotInv
    <2> QED
      BY Zenon, <1>1, <1>2, <2>1, <2>2, <2>3 DEF TrxInv
  <1>8. r.st = "OPEN_POWEROFF" /\ dev' = dev
    BY <1>2, <1>4, <1>5 DEF Configure
  <1>9. Grown(prov[t], r)
    BY <1>2, <1>4 DEF Grown
  <1>10. WorldInv(Now', dev', odd)
    BY SMT, <1>1, <1>4, <1>5, <1>7, <1>8, <1>9, ConfigureKeeps
  <1> QED
    BY <1>1, <1>5, <1>8, <1>10 DEF NextInv

LEMMA CfgArfcnKeeps ==
    ASSUME Inv, NEW t \in Trx, NEW a \in Arfcns, CfgArfcn(t, a)
    PROVE  NextInv
  <1>0. /\ setup \in Setups /\ WorldInv(Now, dev, odd) /\ Counted(used, odd)
        /\ prov[t] \in Prov /\ dev \in Device
        /\ TrxInv(prov[t], q[t], dev.rx[t], dev.tx[t], dev.slot[t], odd)
    BY InvTrx
  <1>1. PICK p \in Prov : p = prov[t]
    BY <1>0
  <1>2. PICK r : r = [p EXCEPT !.arfcn = a, !.sent = @ \ {"RXTUNE", "TXTUNE", "NOMTXPOWER"}]
    OBVIOUS
  <1>3. /\ r \in Prov /\ r.arfcn = a /\ r.sent = p.sent \ {"RXTUNE", "TXTUNE", "NOMTXPOWER"}
        /\ r.acked = p.acked
        /\ r.verReq = p.verReq /\ r.verUse = p.verUse /\ r.tsc = p.tsc /\ r.slot = p.slot
        /\ r.slotSent = p.slotSent /\ r.st = p.st
    <2>1. PICK b \in SUBSET Steps : b = p.sent \ {"RXTUNE", "TXTUNE", "NOMTXPOWER"}
      BY ProvTypes
    <2>2. r = [p EXCEPT !.arfcn = a, !.sent = b]
      BY <1>2, <2>1
    <2> QED
      BY <2>1, <2>2 DEF Prov
  <1>4. Configure(t, r)
    BY <1>1, <1>2 DEF CfgArfcn
  <1>5. r.st = "OPEN_POWEROFF" /\ dev' = dev
    BY <1>1, <1>3, <1>4 DEF Configure
  <1>6. Grown(prov[t], r)
    BY <1>1, <1>3 DEF Grown
  <1>7. ASSUME NEW o, o = odd \/ o = odd \cup {"retuned"},
               "retuned" \notin o => p.arfcn = None
        PROVE  WorldInv(Now', dev', o)
    <2>1. WorldInv(Now, dev, o)
      <3>1. WorldInv(Now, dev, odd \cup {"retuned"})
        BY Zenon, <1>0, Monotone
      <3> QED
        BY <1>0, <1>7, <3>1
    <2>2. TrxInv(p, q[t], dev.rx[t], dev.tx[t], dev.slot[t], o)
      <3>1. WorldInv(Now, dev, o) /\ Now.prov = prov /\ Now.q = q
        BY <2>1 DEF Now
      <3> QED
        BY Zenon, <1>1, <3>1 DEF WorldInv, Each
    <2>3. TrxInv(r, q[t], dev.rx[t], dev.tx[t], dev.slot[t], o)
      <3>1. "retuned" \notin o => TunedInv(r, q[t], dev.rx[t], dev.tx[t])
        BY <1>3, <1>7, <2>2 DEF TrxInv, TunedInv
      <3>2. FormatInv(r, q[t])
        BY <1>3, <2>2 DEF TrxInv, FormatInv
      <3>3. SlotInv(r, q[t], dev.slot[t], o)
        BY <1>3, <2>2 DEF TrxInv, SlotInv
      <3> QED
        BY Zenon, <3>1, <3>2, <3>3 DEF TrxInv
    <2> QED
      BY SMT, <1>0, <1>3, <1>4, <1>5, <1>6, <2>1, <2>3, ConfigureKeeps
  <1>8. CASE p.arfcn = None /\ used' = used /\ odd' = odd
    <2>1. WorldInv(Now', dev', odd)
      BY Zenon, <1>7, <1>8
    <2> QED
      BY <1>0, <1>5, <1>8, <2>1 DEF NextInv
  <1>9. CASE used.changes < setup.maxChanges /\ used' = [used EXCEPT !.changes = @ + 1]
             /\ odd' = odd \cup {"retuned"}
    <2>1. WorldInv(Now', dev', odd \cup {"retuned"})
      BY <1>7
    <2>2. Counted(used', odd')
      <3>1. setup.maxChanges \in Nat
        BY <1>0, SetupTypes
      <3> QED
        BY <1>0, <1>9, <3>1 DEF Counted
    <2> QED
      BY <1>0, <1>5, <1>9, <2>1, <2>2 DEF NextInv
  <1> QED
    BY <1>1, <1>8, <1>9 DEF CfgArfcn

LEMMA CfgTsKeeps ==
    ASSUME Inv, NEW t \in Trx, NEW s \in setup.slotTypes, CfgTs(t, s)
    PROVE  NextInv
  <1>0. /\ setup \in Setups /\ WorldInv(Now, dev, odd) /\ Counted(used, odd)
        /\ prov[t] \in Prov /\ q[t] \in Seq(Msgs) /\ dev \in Device
        /\ TrxInv(prov[t], q[t], dev.rx[t], dev.tx[t], dev.slot[t], odd)
    BY InvTrx
  <1>1. PICK w : w = Now
    OBVIOUS
  <1>2. w.prov = prov /\ w.q = q /\ w.phase = phase
    BY <1>1 DEF Now
  <1>3. /\ phase = "up" /\ used.slots < setup.maxSlots
        /\ used' = [used EXCEPT !.slots = @ + 1] /\ dev' = dev /\ odd' = odd
    BY DEF CfgTs
  <1>4. PICK d : d = dev
    OBVIOUS
  <1>5. WorldInv(w, d, odd) /\ w.phase = "up"
    BY <1>0, <1>1, <1>2, <1>3, <1>4
  <1>6. \E x : WorldInv(x, d, odd) /\ Become(x)
    <2>1. CASE /\ prov[t].st = "OPEN_POWEROFF"
               /\ Become(st_open_poweroff(Now, t, update_ts_data(prov[t], s)))
      <3>1. PICK p \in Prov : p = prov[t]
        BY <1>0
      <3>2. PICK r : r = update_ts_data(p, s)
        OBVIOUS
      <3>3. /\ r \in Prov /\ r.arfcn = p.arfcn /\ r.sent = p.sent /\ r.acked = p.acked
            /\ r.verReq = p.verReq /\ r.verUse = p.verUse /\ r.tsc = p.tsc
            /\ ~r.slotSent /\ r.st = p.st
        BY <3>2 DEF update_ts_data, Prov
      <3>4. TrxInv(r, q[t], dev.rx[t], dev.tx[t], dev.slot[t], odd)
        <4>1. TunedInv(p, q[t], dev.rx[t], dev.tx[t]) => TunedInv(r, q[t], dev.rx[t], dev.tx[t])
          BY <3>3 DEF TunedInv
        <4>2. FormatInv(r, q[t])
          BY <1>0, <3>1, <3>3 DEF TrxInv, FormatInv
        <4>3. SlotInv(r, q[t], dev.slot[t], odd)
          BY <2>1, <3>1, <3>3 DEF SlotInv
        <4> QED
          BY Zenon, <1>0, <3>1, <4>1, <4>2, <4>3 DEF TrxInv
      <3>5. PICK x : x = st_open_poweroff(w, t, r)
        OBVIOUS
      <3>6. WorldInv(x, d, odd)
        <4>1. /\ w.prov[t].st = "OPEN_POWEROFF" /\ r.st = "OPEN_POWEROFF"
              /\ w.phase # "closing" /\ Grown(w.prov[t], r)
          BY <1>2, <1>3, <2>1, <3>1, <3>3 DEF Grown
        <4>2. TrxInv(r, w.q[t], d.rx[t], d.tx[t], d.slot[t], odd)
          BY Zenon, <1>2, <1>4, <3>4
        <4> QED
          BY SMT, <1>0, <1>5, <3>3, <3>5, <4>1, <4>2, StOpenPoweroff
      <3>7. Become(x)
        BY Zenon, <1>1, <2>1, <3>1, <3>2, <3>5
      <3> QED
        BY Zenon, <3>6, <3>7
    <2>2. CASE /\ prov[t].st = "OPEN_WAIT_POWERON_CNF"
               /\ Become([Now EXCEPT !.prov[t] = update_ts_data(@, s)])
      <3>1. PICK x : x = [w EXCEPT !.prov[t] = update_ts_data(@, s)]
        OBVIOUS
      <3>2. WorldInv(x, d, odd)
        BY Zenon, <1>0, <1>2, <1>5, <2>2, <3>1, SlotPoweron
      <3>3. Become(x)
        BY <1>1, <2>2, <3>1
      <3> QED
        BY Zenon, <3>2, <3>3
    <2>3. CASE /\ prov[t].st = "OPEN_POWERON"
               /\ Become(EnterOpenPoweron([Now EXCEPT !.prov[t] = update_ts_data(@, s)], t))
      <3>1. PICK x : x = EnterOpenPoweron([w EXCEPT !.prov[t] = update_ts_data(@, s)], t)
        OBVIOUS
      <3>2. WorldInv(x, d, odd)
        BY Zenon, <1>0, <1>2, <1>5, <2>3, <3>1, SlotPoweron
      <3>3. Become(x)
        BY <1>1, <2>3, <3>1
      <3> QED
        BY Zenon, <3>2, <3>3
    <2> QED
      BY Zenon, <2>1, <2>2, <2>3 DEF CfgTs
  <1>7. PICK x : WorldInv(x, d, odd) /\ Become(x)
    BY Zenon, <1>6
  <1>8. Now' = x
    BY Zenon, <1>7, BecomeIs DEF WorldInv
  <1>9. Counted(used', odd')
    <2>1. setup.maxSlots \in Nat
      BY <1>0, SetupTypes
    <2> QED
      BY <1>0, <1>3, <2>1 DEF Counted
  <1> QED
    BY <1>0, <1>3, <1>4, <1>7, <1>8, <1>9 DEF NextInv

\* An action that does nothing but change the world.
LEMMA Changes ==
    ASSUME NEW x, NEW d \in Device, NEW o, WorldInv(x, d, o), Become(x), dev' = d, odd' = o,
           Counted(used', odd')
    PROVE  NextInv
  <1>1. Now' = x
    BY Zenon, BecomeIs DEF WorldInv
  <1> QED
    BY <1>1 DEF NextInv

LEMMA PhaseChange ==
    ASSUME NEW w, NEW d, NEW o, WorldInv(w, d, o), NEW h \in Phases,
           Regular(o) /\ w.prov[0].st = "OPEN_WAIT_POWEROFF_CNF" => h = "closing"
    PROVE  WorldInv([w EXCEPT !.phase = h], d, o) /\ [w EXCEPT !.phase = h].phase = h
  <1>0. w \in World
    BY DEF WorldInv
  <1>1. PICK v : v = [w EXCEPT !.phase = h]
    OBVIOUS
  <1>2. v \in World /\ v.prov = w.prov /\ v.q = w.q /\ v.plink = w.plink /\ v.phase = h
    BY <1>0, <1>1 DEF World
  <1>3. v.plink.state \in {"SHUTDOWN", w.plink.state} /\ v.plink.state = w.plink.state
    BY <1>2
  <1>4. WorldInv(v, d, o)
    BY SMT, <1>2, <1>3, Relinked
  <1> QED
    BY Zenon, <1>1, <1>2, <1>4

LEMMA OmlUpKeeps ==
    ASSUME Inv, OmlUp
    PROVE  NextInv
  <1>0. setup \in Setups /\ WorldInv(Now, dev, odd) /\ Counted(used, odd) /\ dev \in Device
    BY DEF Inv, Counted
  <1>1. PICK w : w = Now
    OBVIOUS
  <1>2. w.phase = "idle" /\ w.plink = plink /\ dev' = dev /\ used' = used /\ odd' = odd
    BY <1>1 DEF Now, OmlUp
  <1>3. PICK d \in Device : d = dev
    BY <1>0
  <1>4. WorldInv(w, d, odd)
    BY <1>0, <1>1, <1>3
  <1>5. PICK x : x = [w EXCEPT !.phase = "up"]
    OBVIOUS
  <1>6. WorldInv(x, d, odd)
    <2>1. ~(Regular(odd) /\ w.prov[0].st = "OPEN_WAIT_POWEROFF_CNF") /\ "up" \in Phases
      BY <1>2, <1>4 DEF WorldInv, ClosingInv, Phases
    <2> QED
      BY Zenon, <1>4, <1>5, <2>1, PhaseChange
  <1>7. PICK y : y = IF plink.state = "SHUTDOWN" THEN bts_model_phy_link_open(x) ELSE x
    OBVIOUS
  <1>8. WorldInv(y, d, odd)
    <2>1. CASE y = x
      BY <1>6, <2>1
    <2>2. CASE y = bts_model_phy_link_open(x)
      BY SMT, <1>0, <1>6, <2>2, LinkOpen
    <2> QED
      BY Zenon, <1>7, <2>1, <2>2
  <1>9. Become(y)
    BY Zenon, <1>1, <1>5, <1>7 DEF OmlUp
  <1>10. dev' = d /\ odd' = odd /\ Counted(used', odd')
    BY <1>0, <1>2, <1>3
  <1> QED
    BY Zenon, <1>8, <1>9, <1>10, Changes

LEMMA ShutdownKeeps ==
    ASSUME Inv, Shutdown
    PROVE  NextInv
  <1>0. setup \in Setups /\ WorldInv(Now, dev, odd) /\ Counted(used, odd) /\ dev \in Device
    BY DEF Inv, Counted
  <1>1. PICK w : w = Now
    OBVIOUS
  <1>2. /\ w.phase = "up" /\ used.changes < setup.maxChanges
        /\ used' = [used EXCEPT !.changes = @ + 1] /\ dev' = dev /\ odd' = odd
    BY <1>1 DEF Now, Shutdown
  <1>3. PICK d \in Device : d = dev
    BY <1>0
  <1>4. WorldInv(w, d, odd)
    BY <1>0, <1>1, <1>3
  <1>5. PICK x : x = [w EXCEPT !.phase = "closing"]
    OBVIOUS
  <1>6. WorldInv(x, d, odd) /\ x.phase = "closing"
    <2>1. "closing" \in Phases
      BY DEF Phases
    <2> QED
      BY Zenon, <1>4, <1>5, <2>1, PhaseChange
  <1>7. PICK y : y = CloseAll(x)
    OBVIOUS
  <1>8. WorldInv(y, d, odd)
    BY Zenon, <1>0, <1>6, <1>7, CloseAllKeeps
  <1>9. Become(y)
    BY Zenon, <1>1, <1>5, <1>7 DEF Shutdown
  <1>10. Counted(used', odd')
    <2>1. setup.maxChanges \in Nat
      BY <1>0, SetupTypes
    <2> QED
      BY <1>0, <1>2, <2>1 DEF Counted
  <1>11. dev' = d /\ odd' = odd
    BY <1>2, <1>3
  <1> QED
    BY Zenon, <1>8, <1>9, <1>10, <1>11, Changes

LEMMA ShutdownTimeoutKeeps ==
    ASSUME Inv, ShutdownTimeout
    PROVE  NextInv
  <1>0. setup \in Setups /\ WorldInv(Now, dev, odd) /\ Counted(used, odd) /\ dev \in Device
    BY DEF Inv, Counted
  <1>1. PICK w : w = Now
    OBVIOUS
  <1>2. /\ prov' = w.prov /\ q' = w.q /\ plink' = w.plink /\ phase' = "idle"
        /\ used' = used /\ dev' = dev /\ odd' = odd \cup {"late"}
    BY <1>1 DEF Now, ShutdownTimeout
  <1>3. PICK d \in Device : d = dev
    BY <1>0
  <1>4. PICK o : o = odd \cup {"late"}
    OBVIOUS
  <1>5. WorldInv(w, d, o)
    BY Zenon, <1>0, <1>1, <1>3, <1>4, Monotone
  <1>6. PICK x : x = [w EXCEPT !.phase = "idle"]
    OBVIOUS
  <1>7. WorldInv(x, d, o) /\ x.phase = "idle"
    <2>1. /\ "idle" \in Phases
          /\ Regular(o) /\ w.prov[0].st = "OPEN_WAIT_POWEROFF_CNF" => "idle" = "closing"
      BY <1>4 DEF Phases, Regular
    <2> QED
      BY Zenon, <1>5, <1>6, <2>1, PhaseChange
  <1>8. Become(x)
    <2>1. w \in World
      BY <1>5 DEF WorldInv
    <2>2. x.prov = w.prov /\ x.q = w.q /\ x.plink = w.plink
      BY <1>6, <2>1 DEF World
    <2> QED
      BY <1>2, <1>7, <2>2 DEF Become
  <1>9. Counted(used', odd')
    BY <1>0, <1>2 DEF Counted
  <1>10. dev' = d /\ odd' = o
    BY <1>2, <1>3, <1>4
  <1> QED
    BY Zenon, <1>7, <1>8, <1>9, <1>10, Changes

LEMMA RejectPoweronKeeps ==
    ASSUME Inv, RejectPoweron
    PROVE  NextInv
  <1>0. setup \in Setups /\ WorldInv(Now, dev, odd) /\ Counted(used, odd) /\ dev \in Device
    BY DEF Inv, Counted
  <1>1. PICK w : w = Now
    OBVIOUS
  <1>2. /\ used.rejects < setup.maxRejects /\ Become(CnfPoweron(w, FALSE))
        /\ used' = [used EXCEPT !.rejects = @ + 1] /\ dev' = dev /\ odd' = odd \cup {"rejected"}
    BY <1>1 DEF RejectPoweron
  <1>3. PICK d \in Device : d = dev
    BY <1>0
  <1>4. PICK o : o = odd \cup {"rejected"}
    OBVIOUS
  <1>5. WorldInv(w, d, o) /\ o # {}
    <2>1. WorldInv(w, d, o)
      BY Zenon, <1>0, <1>1, <1>3, <1>4, Monotone
    <2> QED
      BY <1>4, <2>1
  <1>6. PICK x : x = CnfPoweron(w, FALSE)
    OBVIOUS
  <1>7. WorldInv(x, d, o)
    BY Zenon, <1>5, <1>6, RejectKeeps
  <1>8. Become(x)
    BY <1>2, <1>6
  <1>9. Counted(used', odd')
    <2>1. setup.maxRejects \in Nat
      BY <1>0, SetupTypes
    <2> QED
      BY <1>0, <1>2, <2>1 DEF Counted
  <1>10. dev' = d /\ odd' = o
    BY <1>2, <1>3, <1>4
  <1> QED
    BY Zenon, <1>7, <1>8, <1>9, <1>10, Changes

LEMMA TransceiverKeeps ==
    ASSUME Inv, NEW t \in Trx, Transceiver(t)
    PROVE  NextInv
  <1>0. /\ setup \in Setups /\ WorldInv(Now, dev, odd) /\ Counted(used, odd)
        /\ prov[t] \in Prov /\ q[t] \in Seq(Msgs) /\ dev \in Device
    BY InvTrx
  <1>1. PICK w : w = Now
    OBVIOUS
  <1>2. w.prov = prov /\ w.q = q /\ w.phase = phase
    BY <1>1 DEF Now
  <1>3. PICK d \in Device : d = dev
    BY <1>0
  <1>4. PICK m : m = Head(w.q[t])
    OBVIOUS
  <1>5. PICK e : e = Executed(d, t, m)
    OBVIOUS
  <1>6. w.q[t] # <<>> /\ dev' = e /\ used' = used /\ odd' = odd
    BY <1>2, <1>3, <1>4, <1>5 DEF Transceiver, Execute, Executed
  <1>7. PICK x : x = [w EXCEPT !.q[t] = Tail(@)]
    OBVIOUS
  <1>8. x = Upd(w, t, w.prov[t], Tail(w.q[t]))
    <2>1. w \in World
      BY Zenon, <1>0, <1>1 DEF WorldInv
    <2>2. w.prov \in [Trx -> Prov] /\ w.prov = [w.prov EXCEPT ![t] = w.prov[t]]
      BY <2>1 DEF World
    <2>3. w = [prov |-> w.prov, q |-> w.q, plink |-> w.plink, phase |-> w.phase]
      BY <2>1 DEF World
    <2> QED
      BY <1>7, <2>2, <2>3 DEF Upd
  <1>9. /\ m \in Msgs /\ e \in Device /\ WorldInv(x, e, odd)
        /\ x.prov = w.prov /\ x.plink = w.plink /\ x.phase = w.phase
        /\ Answers(w.prov[t], x.q[t], m, e.rx[t], e.tx[t], odd)
    <2>1. WorldInv(w, d, odd)
      BY <1>0, <1>1, <1>3
    <2>2. Taken(w, x, e, odd, t, m)
      BY Zenon, <1>4, <1>5, <1>6, <1>8, <2>1, TakeHead
    <2> QED
      BY Zenon, <2>2 DEF Taken
  <1>10. PICK y : y = CASE m.cmd \in Steps -> CnfStep(x, t, m)
                        [] m.cmd = "POWERON" -> CnfPoweron(x, TRUE)
                        [] m.cmd = "POWEROFF" -> CnfPoweroff(x)
                        [] OTHER -> x
    OBVIOUS
  <1>11. Become(y)
    BY Zenon, <1>1, <1>2, <1>4, <1>7, <1>10 DEF Transceiver
  <1>12. WorldInv(y, e, odd)
    <2>1. CASE m.cmd \in Steps
      <3>1. y = CnfStep(x, t, m)
        BY <1>10, <2>1 DEF Steps
      <3>2. PICK p \in Prov : p = w.prov[t]
        BY <1>0, <1>2
      <3>3. x.prov[t] = p
        BY <1>9, <3>2
      <3>4. CASE p.st = "OPEN_POWEROFF"
        <4>1. PICK r : r = Confirm(p, m)
          OBVIOUS
        <4>2. y = st_open_poweroff(x, t, r)
          BY Zenon, <3>1, <3>3, <3>4, <4>1 DEF CnfStep
        <4>3. PICK z : z = x.q[t]
          OBVIOUS
        <4>4. TrxInv(p, z, e.rx[t], e.tx[t], e.slot[t], odd)
          BY Zenon, <1>9, <3>3, <4>3 DEF WorldInv, Each
        <4>5. Answers(p, z, m, e.rx[t], e.tx[t], odd)
          BY Zenon, <1>9, <3>2, <4>3
        <4>6. /\ r \in Prov /\ r.st = p.st /\ r.enabled = p.enabled
              /\ TrxInv(r, z, e.rx[t], e.tx[t], e.slot[t], odd) /\ Grown(p, r)
          <5>1. r \in Prov /\ Confirmed(p, r) /\ TrxInv(r, z, e.rx[t], e.tx[t], e.slot[t], odd)
            BY Zenon, <1>0, <1>9, <2>1, <3>4, <4>1, <4>4, <4>5, ConfirmTrx
          <5> QED
            BY Zenon, <5>1 DEF Confirmed
        <4> QED
          BY SMT, <1>0, <1>9, <3>3, <3>4, <4>2, <4>3, <4>6, StOpenPoweroff
      <3>5. CASE p.st # "OPEN_POWEROFF"
        <4>1. y = x
          BY Zenon, <3>1, <3>3, <3>5 DEF CnfStep
        <4> QED
          BY <1>9, <4>1
      <3> QED
        BY <3>4, <3>5
    <2>2. CASE m.cmd = "POWERON"
      <3>1. y = CnfPoweron(x, TRUE)
        BY <1>10, <2>2 DEF Steps
      <3> QED
        BY Zenon, <1>0, <1>9, <3>1, CnfPoweronKeeps
    <2>3. CASE m.cmd = "POWEROFF"
      <3>1. y = CnfPoweroff(x)
        BY <1>10, <2>3 DEF Steps
      <3> QED
        BY Zenon, <1>9, <3>1, CnfPoweroffKeeps
    <2>4. CASE m.cmd \notin Steps \cup {"POWERON", "POWEROFF"}
      <3>1. y = x
        BY <1>10, <2>4
      <3> QED
        BY <1>9, <3>1
    <2> QED
      BY <2>1, <2>2, <2>3, <2>4
  <1>13. e \in Device /\ Counted(used', odd')
    BY <1>0, <1>6, <1>9
  <1> QED
    BY Zenon, <1>6, <1>11, <1>12, <1>13, Changes

LEMMA StepHolds == Inv /\ [Next]_vars => Inv'
  <1> SUFFICES ASSUME Inv, [Next]_vars PROVE Inv'
    OBVIOUS
  <1>0. setup \in Setups /\ WorldInv(Now, dev, odd) /\ dev \in Device /\ Counted(used, odd)
    BY DEF Inv, Counted
  <1>1. CASE Next
    <2>1. setup' = setup
      BY <1>1 DEF Next
    <2>2. ASSUME NEW t \in Trx, CfgEnable(t) \/ CfgBsic(t) \/ Transceiver(t) PROVE NextInv
      BY Zenon, <2>2, CfgEnableKeeps, CfgBsicKeeps, TransceiverKeeps
    <2>3. ASSUME NEW t \in Trx, NEW a \in Arfcns, CfgArfcn(t, a) PROVE NextInv
      BY Zenon, <2>3, CfgArfcnKeeps
    <2>4. ASSUME NEW t \in Trx, NEW s \in setup.slotTypes, CfgTs(t, s) PROVE NextInv
      BY Zenon, <2>4, CfgTsKeeps
    <2>5. NextInv
      BY Zenon, <1>1, <2>2, <2>3, <2>4, OmlUpKeeps, ShutdownKeeps, ShutdownTimeoutKeeps,
         RejectPoweronKeeps DEF Next
    <2> QED
      BY Zenon, <1>0, <2>1, <2>5, Stepped
  <1>2. CASE UNCHANGED vars
    <2>1. /\ setup' = setup /\ Now' = Now /\ dev' = dev /\ used' = used /\ odd' = odd
      BY <1>2 DEF vars, Now
    <2>2. NextInv
      BY <1>0, <2>1 DEF NextInv
    <2> QED
      BY Zenon, <1>0, <2>1, <2>2, Stepped
  <1> QED
    BY <1>1, <1>2

-----------------------------------------------------------------------------
(* Theorems.                                                               *)

\* What the TRXs of a link run is what was agreed and configured last, and they close
\* together: trx_provision_fsm.c, for any number of TRXs.
THEOREM ProvInvHolds == Spec => []ProvInv
  <1>1. Inv => ProvInv
    <2> SUFFICES ASSUME Inv PROVE ProvInv
      OBVIOUS
    <2>1. PICK w : w = Now
      OBVIOUS
    <2>2. w.prov = prov /\ w.q = q /\ w.plink = plink /\ w.phase = phase
      BY <2>1 DEF Now
    <2>3. /\ setup \in Setups /\ WorldInv(w, dev, odd) /\ Counted(used, odd)
          /\ dev \in Device /\ w \in World
      BY <2>1 DEF Inv, Counted, WorldInv
    <2>4. prov \in [Trx -> Prov] /\ q \in [Trx -> Seq(Msgs)] /\ plink \in Links /\ phase \in Phases
      BY <2>2, <2>3 DEF World
    <2>5. ASSUME NEW t \in Trx
          PROVE  TrxInv(prov[t], q[t], dev.rx[t], dev.tx[t], dev.slot[t], odd)
      BY Zenon, <2>2, <2>3 DEF WorldInv, Each
    <2>6. ASSUME NEW t \in Trx, NEW i \in 1 .. Len(q[t]) PROVE DOMAIN q[t][i] = {"cmd", "arg"}
      <3>1. PICK s \in Seq(Msgs) : s = q[t]
        BY <2>4
      <3>2. i \in 1 .. Len(s)
        BY <3>1
      <3>3. s[i] \in Msgs
        BY <3>2
      <3>4. DOMAIN s[i] = {"cmd", "arg"}
        BY <3>3 DEF Msgs
      <3> QED
        BY Zenon, <3>1, <3>4
    <2>7. TypeOK
      BY <2>3, <2>4, <2>6 DEF TypeOK, Counted, Links, Phases, Device
    <2>8. FormatAgreed
      BY <2>5 DEF FormatAgreed, TrxInv, FormatInv, Agreed
    <2>9. SlotApplied
      <3>1. ASSUME Regular(odd), NEW t \in Trx, prov[t].st = "OPEN_POWERON", q[t] = <<>>,
                   prov[t].slot # None
            PROVE  dev.slot[t] = prov[t].slot
        <4>1. Told(q[t], dev.slot[t], prov[t].slot)
          BY Zenon, <2>5, <3>1 DEF TrxInv, SlotInv
        <4> QED
          BY <3>1, <4>1 DEF Told
      <3> QED
        BY Zenon, <3>1 DEF SlotApplied, Regular
    <2>10. ClosedTogether
      BY <2>2, <2>3 DEF ClosedTogether, WorldInv, DownInv
    <2> QED
      BY <2>7, <2>8, <2>9, <2>10 DEF ProvInv
  <1> QED
    BY InitHolds, StepHolds, <1>1, PTL DEF Spec

\* POWERON reaches the transceiver only when each of its TRXs is tuned to its ARFCN, whatever
\* was left over from earlier connections.
THEOREM PoweronTunedHolds == Spec => PoweronTuned
  <1>1. Inv /\ [Next]_vars =>
          [~dev.power /\ dev'.power /\ "retuned" \notin odd => \A t \in Trx : Tuned(t)]_vars
    <2> SUFFICES ASSUME Inv, Next, ~dev.power, dev'.power, "retuned" \notin odd, NEW u \in Trx
                 PROVE  Tuned(u)
      BY DEF vars
    <2>1. dev' # dev
      OBVIOUS
    <2>2. PICK t \in Trx : Transceiver(t)
      BY Zenon, <2>1 DEF Next, OmlUp, Shutdown, ShutdownTimeout, RejectPoweron, CfgEnable,
         CfgBsic, CfgArfcn, CfgTs, Configure
    <2>3. PICK w : w = Now
      OBVIOUS
    <2>4. w.prov = prov /\ w.q = q
      BY <2>3 DEF Now
    <2>5. WorldInv(w, dev, odd) /\ q[t] \in Seq(Msgs) /\ dev \in Device
      BY <2>3, InvTrx
    <2>6. Head(q[t]).cmd = "POWERON" /\ q[t] # <<>>
      <3>1. Execute(t, Head(q[t])) /\ q[t] # <<>>
        BY Zenon, <2>2 DEF Transceiver
      <3>2. PICK m : m = Head(q[t])
        OBVIOUS
      <3>3. dev' = Executed(dev, t, m)
        BY Zenon, <3>1, <3>2 DEF Execute, Executed
      <3>4. m \in Msgs
        BY <2>5, <3>1, <3>2
      <3>5. PICK d \in Device : d = dev
        BY <2>5
      <3>6. PICK e : e = Executed(d, t, m)
        OBVIOUS
      <3>7. Acted(d, e, t, m)
        BY Zenon, <3>4, <3>6, ExecutedIs
      <3>8. e.power /\ ~d.power
        BY <3>3, <3>5, <3>6
      <3>9. m.cmd = "POWERON"
        BY <3>7, <3>8 DEF Acted
      <3> QED
        BY <3>1, <3>2, <3>9
    <2>7. Has(w.q[t], "POWERON")
      <3>1. Head(q[t]) \in Range(q[t])
        BY <2>5, <2>6, TailRange
      <3> QED
        BY Zenon, <2>4, <2>6, <3>1 DEF Has
    <2>8. PowerSoon(w)
      BY Zenon, <2>5, <2>7 DEF WorldInv, FirstPower, PowerSoon
    <2>9. trx_is_provisioned(w.prov[u])
      BY Zenon, <2>5, <2>8 DEF WorldInv, ReadyInv
    <2>10. TrxInv(w.prov[u], w.q[u], dev.rx[u], dev.tx[u], dev.slot[u], odd)
      BY Zenon, <2>5 DEF WorldInv, Each
    <2>11. "RXTUNE" \in w.prov[u].acked /\ "TXTUNE" \in w.prov[u].acked
      BY <2>9, ProvisionedFacts
    <2> QED
      BY <2>4, <2>10, <2>11 DEF TrxInv, TunedInv, Tuned
  <1> QED
    BY InitHolds, StepHolds, <1>1, PTL DEF Spec, PoweronTuned
=============================================================================
