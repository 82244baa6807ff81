--------------------------- MODULE TrxCtrl_proofs ---------------------------
(***************************************************************************)
(* Proofs about TrxCtrl for every set of commands, any behaviour of the    *)
(* transceiver, with or without losses and any bounds.                     *)
(***************************************************************************)
EXTENDS TrxCtrl, TLAPS

\* The commands q on the list were issued one after the other, under numbers up to n.
Listed(q, n) ==
    /\ q \in Seq(Entry)
    /\ \A i, j \in 1 .. Len(q) : i < j => q[i].id < q[j].id
    /\ \A i \in 1 .. Len(q) : q[i].id <= n

\* The CMDs cn and the RSPs rn in flight and the commands ex carried out are of issued
\* commands, none of which waits behind the head of the list q.
Unseen(q, cn, rn, ex) ==
    \A k \in 2 .. Len(q) :
        /\ q[k].id \notin ex
        /\ \A i \in 1 .. Len(cn) : cn[i].id # q[k].id
        /\ \A i \in 1 .. Len(rn) : rn[i].id # q[k].id
Issued(cn, rn, ex, n) ==
    /\ cn \in Seq(Entry) /\ \A i \in 1 .. Len(cn) : cn[i].id <= n
    /\ rn \in Seq(Rsp) /\ \A i \in 1 .. Len(rn) : rn[i].id <= n
    /\ ex \subseteq Ids /\ \A i \in ex : i <= n

\* The command carried out last is not younger than the CMDs in flight, which are in
\* the order of their issue, and these not younger than the ones on the list.
InOrder(q, cn, le) ==
    /\ \A i, j \in 1 .. Len(cn) : i < j => cn[i].id <= cn[j].id
    /\ \A i \in 1 .. Len(cn) : le <= cn[i].id
    /\ \A k \in 1 .. Len(q) : le <= q[k].id
    /\ \A k \in 1 .. Len(q) : \A i \in 1 .. Len(cn) : cn[i].id <= q[k].id

Good(q, cn, rn, ex, le, n) ==
    /\ Listed(q, n)
    /\ Unseen(q, cn, rn, ex)
    /\ Issued(cn, rn, ex, n)
    /\ InOrder(q, cn, le)
    /\ le \in 0 .. MaxCmds /\ le <= n /\ n \in Nat

-----------------------------------------------------------------------------
(* What the operations on the list and the wire keep.                      *)

\* Numbers of commands and responses are natural numbers.
LEMMA Numbers ==
    /\ \A e \in Entry : e.id \in Nat /\ e.id >= 1 /\ e.id <= MaxCmds
    /\ \A e \in Rsp : e.id \in Nat /\ e.id >= 1 /\ e.id <= MaxCmds
    /\ \A i \in Ids : i \in Nat
    /\ \A s \in Seq(Entry) : \A i \in 1 .. Len(s) : s[i] \in Entry /\ s[i].id \in Nat
    /\ \A s \in Seq(Rsp) : \A i \in 1 .. Len(s) : s[i] \in Rsp /\ s[i].id \in Nat
  <1>1. \A i \in Ids : i \in Nat /\ i >= 1 /\ i <= MaxCmds
    BY BoundsAssumption DEF Ids
  <1>2. \A e \in Entry : e.id \in Ids
    BY DEF Entry
  <1>3. \A e \in Rsp : e.id \in Ids
    BY DEF Rsp
  <1>4. \A s \in Seq(Entry) : \A i \in 1 .. Len(s) : s[i] \in Entry
    OBVIOUS
  <1>5. \A s \in Seq(Rsp) : \A i \in 1 .. Len(s) : s[i] \in Rsp
    OBVIOUS
  <1> QED
    BY <1>1, <1>2, <1>3, <1>4, <1>5

\* Only the head is sent.
LEMMA GoodSend ==
    ASSUME NEW q, NEW cn, NEW rn, NEW ex, NEW le, NEW n,
           Good(q, cn, rn, ex, le, n), q # <<>>
    PROVE  Good(q, Append(cn, Head(q)), rn, ex, le, n)
  <1> DEFINE cm == Append(cn, Head(q))
  <1>1. /\ q \in Seq(Entry) /\ cn \in Seq(Entry)
        /\ Len(q) \in Nat /\ Len(q) >= 1 /\ Head(q) = q[1] /\ q[1] \in Entry
    BY DEF Good, Listed, Issued
  <1>2. /\ cm \in Seq(Entry) /\ Len(cm) = Len(cn) + 1 /\ Len(cn) \in Nat
        /\ \A i \in 1 .. Len(cn) : cm[i] = cn[i]
        /\ cm[Len(cn) + 1] = q[1]
    BY <1>1
  <1>3. \A i \in 1 .. Len(cm) : i \in 1 .. Len(cn) \/ (i = Len(cn) + 1 /\ cm[i] = q[1])
    BY <1>2
  <1>4. \A k \in 1 .. Len(q) : q[k].id \in Nat
    BY <1>1, Numbers
  <1>5. \A k \in 2 .. Len(q) : q[1].id < q[k].id
    BY <1>1 DEF Good, Listed
  <1> HIDE DEF cm
  <1>6. Unseen(q, cm, rn, ex)
    <2>1. ASSUME NEW k \in 2 .. Len(q), NEW i \in 1 .. Len(cm)
          PROVE  cm[i].id # q[k].id
      <3>1. CASE i \in 1 .. Len(cn)
        BY <1>2, <3>1 DEF Good, Unseen
      <3>2. CASE i = Len(cn) + 1 /\ cm[i] = q[1]
        <4>1. q[1].id \in Nat /\ q[k].id \in Nat
          BY <1>1, <1>4
        <4> QED
          BY <1>5, <3>2, <4>1
      <3> QED
        BY <1>3, <3>1, <3>2
    <2> QED
      BY <2>1 DEF Good, Unseen
  <1>7. Issued(cm, rn, ex, n)
    BY SMTT(40), <1>1, <1>2, <1>3 DEF Good, Issued, Listed
  <1>8. InOrder(q, cm, le)
    <2>1. \A i \in 1 .. Len(cm) : \A k \in 1 .. Len(q) : cm[i].id <= q[k].id
      BY SMTT(40), <1>1, <1>2, <1>3, <1>4, <1>5 DEF Good, InOrder
    <2>2. \A i \in 1 .. Len(cm) : le <= cm[i].id
      BY <1>1, <1>2, <1>3 DEF Good, InOrder
    <2>3. \A i, j \in 1 .. Len(cm) : i < j => cm[i].id <= cm[j].id
      <3> SUFFICES ASSUME NEW i \in 1 .. Len(cm), NEW j \in 1 .. Len(cm), i < j
                   PROVE  cm[i].id <= cm[j].id
        OBVIOUS
      <3>1. i \in 1 .. Len(cn)
        BY <1>2
      <3>2. CASE j \in 1 .. Len(cn)
        BY <1>2, <3>1, <3>2 DEF Good, InOrder
      <3>3. CASE j = Len(cn) + 1
        BY <1>1, <2>1, <1>2, <3>3
      <3> QED
        BY <1>3, <3>2, <3>3
    <2> QED
      BY <2>1, <2>2, <2>3 DEF Good, InOrder
  <1> QED
    BY <1>6, <1>7, <1>8 DEF Good, cm

\* An answered command leaves the list.
LEMMA GoodTail ==
    ASSUME NEW q, NEW cn, NEW rn, NEW ex, NEW le, NEW n,
           Good(q, cn, rn, ex, le, n), q # <<>>
    PROVE  Good(Tail(q), cn, rn, ex, le, n)
  <1> DEFINE r == Tail(q)
  <1>1. /\ q \in Seq(Entry) /\ Len(q) \in Nat /\ Len(q) >= 1
        /\ r \in Seq(Entry) /\ Len(r) = Len(q) - 1
        /\ \A k \in 1 .. Len(r) : r[k] = q[k + 1]
    BY DEF Good, Listed
  <1> HIDE DEF r
  <1>2. \A k \in 1 .. Len(r) : k + 1 \in 1 .. Len(q) /\ k + 1 \in 2 .. Len(q)
    BY <1>1
  <1>3. Listed(r, n)
    <2>1. \A i, j \in 1 .. Len(r) : i < j => r[i].id < r[j].id
      <3> SUFFICES ASSUME NEW i \in 1 .. Len(r), NEW j \in 1 .. Len(r), i < j
                   PROVE  r[i].id < r[j].id
        OBVIOUS
      <3>1. i + 1 < j + 1
        OBVIOUS
      <3> QED
        BY <1>1, <1>2, <3>1 DEF Good, Listed
    <2> QED
      BY <1>1, <1>2, <2>1 DEF Good, Listed
  <1>4. Unseen(r, cn, rn, ex)
    <2>1. ASSUME NEW k \in 2 .. Len(r)
          PROVE  r[k] = q[k + 1] /\ k + 1 \in 2 .. Len(q)
      BY <1>1
    <2> QED
      BY <2>1 DEF Good, Unseen
  <1>5. InOrder(r, cn, le)
    BY <1>1, <1>2 DEF Good, InOrder
  <1> QED
    BY <1>3, <1>4, <1>5 DEF Good, r

\* An empty list, and responses that are gone.
LEMMA GoodEmpty ==
    ASSUME NEW q, NEW cn, NEW rn, NEW ex, NEW le, NEW n, Good(q, cn, rn, ex, le, n)
    PROVE  /\ Good(<<>>, cn, rn, ex, le, n)
           /\ Good(q, cn, <<>>, ex, le, n)
  BY DEF Good, Listed, Unseen, Issued, InOrder

\* A new command goes to the end of the list, unless it equals the one there.
LEMMA GoodEnqueue ==
    ASSUME NEW q, NEW cn, NEW rn, NEW ex, NEW le, NEW c \in Cmds,
           Good(q, cn, rn, ex, le, Len(history)), Len(history) < MaxCmds
    PROVE  /\ Good(Enqueue(q, c), cn, rn, ex, le, Len(history) + 1)
           /\ Enqueue(q, c) # <<>>
           /\ q # <<>> => Head(Enqueue(q, c)) = Head(q)
  <1> DEFINE n == Len(history)
             e == [id |-> n + 1, c |-> c]
             r == Append(q, e)
  <1>1. n \in Nat /\ n < MaxCmds /\ MaxCmds \in Nat
    BY BoundsAssumption DEF Good
  <1>2. e \in Entry /\ e.id = n + 1
    BY <1>1 DEF Entry, Ids
  <1>3. Good(q, cn, rn, ex, le, n + 1)
    <2>1. Listed(q, n + 1)
      <3>1. \A i \in 1 .. Len(q) : q[i].id \in Nat /\ q[i].id <= n
        BY Numbers DEF Good, Listed
      <3> QED
        BY <1>1, <3>1 DEF Good, Listed
    <2>2. Issued(cn, rn, ex, n + 1)
      <3>1. \A i \in 1 .. Len(cn) : cn[i].id \in Nat /\ cn[i].id <= n
        BY Numbers DEF Good, Issued
      <3>2. \A i \in 1 .. Len(rn) : rn[i].id \in Nat /\ rn[i].id <= n
        BY Numbers DEF Good, Issued
      <3>3. \A i \in ex : i \in Nat /\ i <= n
        BY Numbers DEF Good, Issued
      <3> QED
        BY <1>1, <3>1, <3>2, <3>3 DEF Good, Issued
    <2> QED
      BY <1>1, <2>1, <2>2 DEF Good
  <1> HIDE DEF e, n
  <1>4. /\ q \in Seq(Entry) /\ Len(q) \in Nat
        /\ r \in Seq(Entry) /\ Len(r) = Len(q) + 1 /\ r # <<>>
        /\ \A k \in 1 .. Len(q) : r[k] = q[k]
        /\ r[Len(q) + 1] = e
        /\ q # <<>> => Head(r) = Head(q)
    <2>1. q \in Seq(Entry) /\ Len(q) \in Nat
      BY DEF Good, Listed
    <2>2. r \in Seq(Entry) /\ Len(r) = Len(q) + 1
      BY <1>2, <2>1
    <2>3. r[Len(q) + 1] = e /\ \A k \in 1 .. Len(q) : r[k] = q[k]
      BY <1>2, <2>1
    <2> HIDE DEF r
    <2>4. r # <<>>
      BY <2>1, <2>2
    <2>5. ASSUME q # <<>> PROVE Head(r) = Head(q)
      <3>1. 1 \in 1 .. Len(q)
        BY <2>1, <2>5
      <3> QED
        BY <2>1, <2>2, <2>3, <2>4, <2>5, <3>1
    <2> QED
      BY <2>1, <2>2, <2>3, <2>4, <2>5
  <1> HIDE DEF r
  <1>5. \A k \in 1 .. Len(r) : k \in 1 .. Len(q) \/ (k = Len(q) + 1 /\ r[k] = e)
    BY <1>4
  <1>6. Listed(r, n + 1)
    <2>1. \A i \in 1 .. Len(r) : r[i].id <= n + 1
      BY <1>1, <1>2, <1>3, <1>4, <1>5 DEF Good, Listed
    <2>2. \A i \in 1 .. Len(q) : q[i].id \in Nat /\ q[i].id < n + 1
      BY <1>1, Numbers DEF Good, Listed, n
    <2>3. \A i, j \in 1 .. Len(r) : i < j => r[i].id < r[j].id
      <3> SUFFICES ASSUME NEW i \in 1 .. Len(r), NEW j \in 1 .. Len(r), i < j
                   PROVE  r[i].id < r[j].id
        OBVIOUS
      <3>1. i \in 1 .. Len(q)
        BY <1>4
      <3>2. CASE j \in 1 .. Len(q)
        BY <1>4, <3>1, <3>2 DEF Good, Listed
      <3>3. CASE j = Len(q) + 1
        BY <1>2, <1>4, <2>2, <3>1, <3>3
      <3> QED
        BY <1>5, <3>2, <3>3
    <2> QED
      BY <1>4, <2>1, <2>3 DEF Listed
  <1>7. Unseen(r, cn, rn, ex)
    <2>1. ASSUME NEW k \in 2 .. Len(r)
          PROVE  /\ r[k].id \notin ex
                 /\ \A i \in 1 .. Len(cn) : cn[i].id # r[k].id
                 /\ \A i \in 1 .. Len(rn) : rn[i].id # r[k].id
      <3>1. CASE k \in 1 .. Len(q)
        BY <1>4, <3>1 DEF Good, Unseen
      <3>2. CASE k = Len(q) + 1
        <4>1. r[k].id = n + 1
          BY <1>2, <1>4, <3>2
        <4>2. n + 1 \notin ex
          BY <1>1, Numbers DEF Good, Issued, n
        <4>3. \A i \in 1 .. Len(cn) : cn[i].id # n + 1
          BY <1>1, Numbers DEF Good, Issued, n
        <4>4. \A i \in 1 .. Len(rn) : rn[i].id # n + 1
          BY <1>1, Numbers DEF Good, Issued, n
        <4> QED
          BY <4>1, <4>2, <4>3, <4>4
      <3> QED
        BY <1>5, <3>1, <3>2
    <2> QED
      BY <2>1 DEF Unseen
  <1>8. InOrder(r, cn, le)
    <2>1. le <= n + 1 /\ \A i \in 1 .. Len(cn) : cn[i].id <= n + 1
      BY <1>1, <1>3 DEF Good, Issued
    <2> QED
      BY <1>2, <1>4, <1>5, <2>1 DEF Good, InOrder
  <1>9. Good(r, cn, rn, ex, le, n + 1)
    BY <1>3, <1>6, <1>7, <1>8 DEF Good
  <1>10. Enqueue(q, c) = IF q # <<>> /\ SameCmd(Last(q).c, c) THEN q ELSE r
    BY DEF Enqueue, r, e, n
  <1> QED
    BY <1>3, <1>4, <1>9, <1>10 DEF n

\* A response is read or lost.
LEMMA GoodRspTaken ==
    ASSUME NEW q, NEW cn, NEW rn, NEW ex, NEW le, NEW n,
           Good(q, cn, rn, ex, le, n), rn # <<>>
    PROVE  Good(q, cn, Tail(rn), ex, le, n)
  <1> DEFINE r == Tail(rn)
  <1>1. /\ rn \in Seq(Rsp) /\ Len(rn) \in Nat /\ Len(rn) >= 1
        /\ r \in Seq(Rsp) /\ Len(r) = Len(rn) - 1
        /\ \A k \in 1 .. Len(r) : r[k] = rn[k + 1]
    BY DEF Good, Issued
  <1> HIDE DEF r
  <1>2. \A k \in 1 .. Len(r) : k + 1 \in 1 .. Len(rn)
    BY <1>1
  <1>3. Unseen(q, cn, r, ex)
    BY <1>1, <1>2 DEF Good, Unseen
  <1>4. Issued(cn, r, ex, n)
    BY <1>1, <1>2 DEF Good, Issued
  <1> QED
    BY <1>3, <1>4 DEF Good, r

\* A CMD is lost or taken by the transceiver.
LEMMA GoodCmdTaken ==
    ASSUME NEW q, NEW cn, NEW rn, NEW ex, NEW le, NEW n,
           Good(q, cn, rn, ex, le, n), cn # <<>>
    PROVE  /\ Good(q, Tail(cn), rn, ex, le, n)
           /\ Good(q, Tail(cn), rn, ex \cup {Head(cn).id}, Head(cn).id, n)
           /\ Head(cn).id >= le
  <1> DEFINE r == Tail(cn)
             d == Head(cn).id
  <1>1. /\ cn \in Seq(Entry) /\ Len(cn) \in Nat /\ Len(cn) >= 1
        /\ r \in Seq(Entry) /\ Len(r) = Len(cn) - 1
        /\ \A k \in 1 .. Len(r) : r[k] = cn[k + 1]
        /\ Head(cn) = cn[1] /\ 1 \in 1 .. Len(cn)
    BY DEF Good, Issued
  <1>2. d = cn[1].id /\ d \in 0 .. MaxCmds /\ d \in Ids
    BY <1>1, Numbers, BoundsAssumption DEF Ids
  <1> HIDE DEF r, d
  <1>3. \A k \in 1 .. Len(r) : k + 1 \in 1 .. Len(cn)
    BY <1>1
  <1>4. /\ d <= n /\ le <= d
        /\ \A k \in 1 .. Len(q) : d <= q[k].id
        /\ \A k \in 2 .. Len(q) : d # q[k].id
        /\ \A k \in 1 .. Len(r) : d <= r[k].id
    <2>1. d <= n /\ le <= d
      BY <1>1, <1>2 DEF Good, Issued, InOrder
    <2>2. \A k \in 1 .. Len(q) : d <= q[k].id
      BY <1>1, <1>2 DEF Good, InOrder
    <2>3. \A k \in 2 .. Len(q) : d # q[k].id
      BY <1>1, <1>2 DEF Good, Unseen
    <2>4. ASSUME NEW k \in 1 .. Len(r) PROVE d <= r[k].id
      <3>1. 1 < k + 1 /\ k + 1 \in 1 .. Len(cn) /\ r[k] = cn[k + 1]
        BY <1>1, <1>3
      <3> QED
        BY <1>1, <1>2, <3>1 DEF Good, InOrder
    <2> QED
      BY <2>1, <2>2, <2>3, <2>4
  <1>5. Unseen(q, r, rn, ex) /\ Unseen(q, r, rn, ex \cup {d})
    <2>1. \A k \in 2 .. Len(q) : \A i \in 1 .. Len(r) : r[i].id # q[k].id
      BY <1>1, <1>3 DEF Good, Unseen
    <2> QED
      BY <1>4, <2>1 DEF Good, Unseen
  <1>6. Issued(r, rn, ex, n) /\ Issued(r, rn, ex \cup {d}, n)
    BY <1>1, <1>2, <1>3, <1>4 DEF Good, Issued
  <1>7. InOrder(q, r, le) /\ InOrder(q, r, d)
    <2>1. \A i, j \in 1 .. Len(r) : i < j => r[i].id <= r[j].id
      <3> SUFFICES ASSUME NEW i \in 1 .. Len(r), NEW j \in 1 .. Len(r), i < j
                   PROVE  r[i].id <= r[j].id
        OBVIOUS
      <3>1. i + 1 < j + 1
        OBVIOUS
      <3> QED
        BY <1>1, <1>3, <3>1 DEF Good, InOrder
    <2> QED
      BY <1>1, <1>3, <1>4, <2>1 DEF Good, InOrder
  <1>8. Good(q, r, rn, ex, le, n)
    BY <1>5, <1>6, <1>7 DEF Good
  <1>9. Good(q, r, rn, ex \cup {d}, d, n)
    BY <1>2, <1>4, <1>5, <1>6, <1>7 DEF Good
  <1>10. d >= le
    BY <1>2, <1>4 DEF Good
  <1> QED
    BY <1>8, <1>9, <1>10 DEF r, d

\* A response to a command that is not one of those behind the head.
LEMMA GoodAnswer ==
    ASSUME NEW q, NEW cn, NEW rn, NEW ex, NEW le, NEW n, NEW a \in Rsp,
           Good(q, cn, rn, ex, le, n), a.id <= n,
           \A k \in 2 .. Len(q) : a.id # q[k].id
    PROVE  Good(q, cn, Append(rn, a), ex, le, n)
  <1> DEFINE r == Append(rn, a)
  <1>1. rn \in Seq(Rsp) /\ Len(rn) \in Nat
    BY DEF Good, Issued
  <1>2. /\ r \in Seq(Rsp) /\ Len(r) = Len(rn) + 1
        /\ r[Len(rn) + 1] = a /\ \A k \in 1 .. Len(rn) : r[k] = rn[k]
    BY <1>1
  <1> HIDE DEF r
  <1>3. \A k \in 1 .. Len(r) : k \in 1 .. Len(rn) \/ r[k] = a
    BY <1>1, <1>2
  <1>4. Unseen(q, cn, r, ex)
    BY <1>2, <1>3 DEF Good, Unseen
  <1>5. Issued(cn, r, ex, n)
    BY <1>2, <1>3 DEF Good, Issued
  <1> QED
    BY <1>4, <1>5 DEF Good, r
-----------------------------------------------------------------------------
(* The steps of the specification.                                         *)

Inv ==
    /\ TypeOK
    /\ TimerNeedsCommand
    /\ Good(queue, cmdNet, rspNet, executed, lastExec, Len(history))

\* The invariant implies the properties.
LEMMA InvImplies == Inv => TypeOK /\ TimerNeedsCommand /\ StopAndWait
  <1>1. Inv => TypeOK /\ TimerNeedsCommand
    BY DEF Inv
  <1>2. Inv => StopAndWait
    <2> SUFFICES ASSUME Inv PROVE StopAndWait
      OBVIOUS
    <2>1. DOMAIN cmdNet = 1 .. Len(cmdNet) /\ DOMAIN rspNet = 1 .. Len(rspNet)
      BY DEF Inv, TypeOK
    <2>2. Unseen(queue, cmdNet, rspNet, executed)
      BY DEF Inv, Good
    <2> QED
      BY <2>1, <2>2 DEF Unseen, StopAndWait
  <1> QED
    BY <1>1, <1>2

\* trx_ctrl_send() of the list q.
LEMMA SendKeeps ==
    ASSUME NEW q, NEW isOpen, NEW rn, NEW ex, NEW le, NEW n,
           Good(q, cmdNet, rn, ex, le, n), trx_ctrl_send(q, isOpen)
    PROVE  /\ Good(q, cmdNet', rn, ex, le, n)
           /\ timer' \in BOOLEAN
           /\ timer' => q # <<>>
  BY GoodSend DEF trx_ctrl_send

\* The types that follow from Good().
LEMMA GoodTypes ==
    ASSUME NEW q, NEW cn, NEW rn, NEW ex, NEW le, NEW n, Good(q, cn, rn, ex, le, n)
    PROVE  /\ q \in Seq(Entry) /\ cn \in Seq(Entry) /\ rn \in Seq(Rsp)
           /\ ex \subseteq Ids /\ le \in 0 .. MaxCmds
  BY DEF Good, Listed, Issued

\* Issuing a command.
LEMMA IssueKeeps ==
    ASSUME Inv, NEW c \in Cmds, Issue(c)
    PROVE  /\ history' \in Seq(Cmds) /\ Len(history') <= MaxCmds
           /\ Len(history') = Len(history) + 1
           /\ Good(Enqueue(queue, c), cmdNet, rspNet, executed, lastExec, Len(history'))
           /\ Enqueue(queue, c) # <<>>
           /\ queue # <<>> => Head(Enqueue(queue, c)) = Head(queue)
  <1>1. history \in Seq(Cmds) /\ Len(history) \in Nat /\ Len(history) < MaxCmds
    BY DEF Inv, TypeOK, Issue
  <1>2. history' \in Seq(Cmds) /\ Len(history') = Len(history) + 1
    BY <1>1 DEF Issue
  <1>3. Len(history') <= MaxCmds
    BY <1>1, <1>2, BoundsAssumption
  <1> QED
    BY <1>1, <1>2, <1>3, GoodEnqueue DEF Inv

\* The end of trx_ctrl_read_cb(), after a callback that left the list q: not empty, with
\* the answered command still at its head, or flushed.
LEMMA ConcludeKeeps ==
    ASSUME Inv, NEW r, NEW tcm \in Entry, NEW q, NEW flushed \in BOOLEAN, NEW isOpen,
           NEW rn, NEW n,
           Good(q, cmdNet, rn, executed, lastExec, n),
           ~flushed => q # <<>>,
           flushed => q = <<>>,
           Conclude(r, tcm, q, flushed, isOpen)
    PROVE  /\ Good(queue', cmdNet', rn, executed, lastExec, n)
           /\ timer' \in BOOLEAN
           /\ timer' => queue' # <<>>
           /\ lastAcked' \in {<<>>} \cup {<<e>> : e \in Entry}
           /\ acked' \subseteq Ids
           /\ shutdown' \in BOOLEAN
  <1> DEFINE rc == trx_ctrl_rx_rsp(r, tcm.c)
             rest == IF flushed \/ rc # "done" THEN q ELSE Tail(q)
  <1>1. Good(rest, cmdNet, rn, executed, lastExec, n)
    BY GoodTail
  <1>2. /\ queue' = rest
        /\ lastAcked' = IF flushed THEN <<>>
                        ELSE IF rc = "done" THEN <<tcm>> ELSE lastAcked
        /\ IF rc = "done" THEN trx_ctrl_send(rest, isOpen)
           ELSE timer' = (rc = "retry" /\ q # <<>>) /\ UNCHANGED cmdNet
        /\ acked' = IF rc = "done" THEN acked \cup {tcm.id} ELSE acked
        /\ shutdown' = (shutdown \/ rc = "fatal")
    BY DEF Conclude, SaveLastAcked
  <1> HIDE DEF rc
  <1>3. CASE rc = "done"
    <2> HIDE DEF rest
    <2> QED
      BY <1>1, <1>2, <1>3, SendKeeps DEF Inv, TypeOK, Entry
  <1>4. CASE rc # "done"
    BY <1>1, <1>2, <1>4 DEF Inv, TypeOK
  <1> QED
    BY <1>3, <1>4

\* Nothing is issued, on the wire or carried out at the start.
LEMMA InvInit == Init => Inv
  <1> SUFFICES ASSUME Init PROVE Inv
    OBVIOUS
  <1>1. Good(<<>>, <<>>, <<>>, {}, 0, 0)
    BY BoundsAssumption DEF Good, Listed, Unseen, Issued, InOrder
  <1>2. Len(history) = 0 /\ history \in Seq(Cmds)
    BY DEF Init
  <1>3. TypeOK
    <2>1. lastExec \in 0 .. MaxCmds /\ Len(history) <= MaxCmds
      BY <1>2, BoundsAssumption DEF Init
    <2>2. queue \in Seq(Entry) /\ cmdNet \in Seq(Entry) /\ rspNet \in Seq(Rsp)
      BY DEF Init
    <2>3. lastAcked \in {<<>>} \cup {<<e>> : e \in Entry}
      BY DEF Init
    <2>4. acked \subseteq Ids /\ executed \subseteq Ids
      BY DEF Init
    <2> QED
      BY <1>2, <2>1, <2>2, <2>3, <2>4 DEF Init, TypeOK
  <1> QED
    BY <1>1, <1>2, <1>3 DEF Init, Inv, TimerNeedsCommand

\* A response is read.
LEMMA InvRead ==
    ASSUME Inv, trx_ctrl_read_cb
    PROVE  Inv'
  <1> DEFINE r == Head(rspNet)
             n == Len(history)
  <1>1. /\ Good(queue, cmdNet, rspNet, executed, lastExec, n)
        /\ rspNet # <<>>
        /\ UNCHANGED <<executed, lastExec>> /\ smooth' \in BOOLEAN
    BY DEF Inv, trx_ctrl_read_cb
  <1>2. Good(queue, cmdNet, Tail(rspNet), executed, lastExec, n)
    BY <1>1, GoodRspTaken
  <1>3. CASE IgnoreRsp(r) \/ MismatchRsp(r)
    <2>1. /\ UNCHANGED <<queue, lastAcked, open, cmdNet, history, acked>>
          /\ timer' = FALSE /\ rspNet' = Tail(rspNet) /\ shutdown' \in BOOLEAN
      BY <1>3 DEF IgnoreRsp, MismatchRsp, Inv, TypeOK
    <2> QED
      BY <1>1, <1>2, <2>1, GoodTypes DEF Inv, TypeOK, TimerNeedsCommand
  <1>4. ASSUME TakenForHead(r) PROVE queue # <<>> /\ Head(queue) \in Entry
    BY <1>4 DEF TakenForHead, Inv, TypeOK
  <1>5. ASSUME NEW q, NEW flushed \in BOOLEAN, NEW isOpen, NEW rn, TakenForHead(r),
               Good(q, cmdNet, rn, executed, lastExec, Len(history')),
               ~flushed => q # <<>>, flushed => q = <<>>,
               Conclude(r, Head(queue), q, flushed, isOpen),
               rspNet' = rn, open' \in BOOLEAN,
               history' \in Seq(Cmds), Len(history') <= MaxCmds
        PROVE  Inv'
    <2>1. /\ Good(queue', cmdNet', rn, executed, lastExec, Len(history'))
          /\ timer' \in BOOLEAN
          /\ timer' => queue' # <<>>
          /\ lastAcked' \in {<<>>} \cup {<<e>> : e \in Entry}
          /\ acked' \subseteq Ids
          /\ shutdown' \in BOOLEAN
      BY <1>4, <1>5, ConcludeKeeps
    <2> QED
      BY <1>1, <1>5, <2>1, GoodTypes DEF Inv, TypeOK, TimerNeedsCommand
  <1>6. CASE HandleRsp(r)
    <2>1. /\ TakenForHead(r) /\ rspNet' = Tail(rspNet) /\ UNCHANGED <<open, history>>
          /\ Conclude(r, Head(queue), queue, FALSE, open)
      BY <1>6 DEF HandleRsp
    <2>2. open' \in BOOLEAN /\ history' \in Seq(Cmds) /\ Len(history') <= MaxCmds
      BY <2>1 DEF Inv, TypeOK
    <2>3. Len(history') = n
      BY <2>1
    <2> QED
      BY <1>2, <1>4, <1>5, <2>1, <2>2, <2>3
  <1>7. ASSUME NEW c \in Cmds, HandleRspQueueing(r, c)
        PROVE  Inv'
    <2>1. /\ TakenForHead(r) /\ Issue(c) /\ rspNet' = Tail(rspNet) /\ open' \in BOOLEAN
          /\ Conclude(r, Head(queue), Enqueue(queue, c), FALSE, open)
      BY <1>7 DEF HandleRspQueueing, Inv, TypeOK
    <2>2. /\ history' \in Seq(Cmds) /\ Len(history') <= MaxCmds
          /\ Good(Enqueue(queue, c), cmdNet, rspNet, executed, lastExec, Len(history'))
          /\ Enqueue(queue, c) # <<>>
      BY <2>1, IssueKeeps
    <2>3. Good(Enqueue(queue, c), cmdNet, Tail(rspNet), executed, lastExec, Len(history'))
      BY <1>1, <2>2, GoodRspTaken
    <2> QED
      BY <1>5, <2>1, <2>2, <2>3
  <1>8. CASE HandleRspClosing(r)
    <2>1. /\ TakenForHead(r) /\ rspNet' = <<>> /\ open' \in BOOLEAN /\ UNCHANGED history
          /\ Conclude(r, Head(queue), <<>>, TRUE, FALSE)
      BY <1>8 DEF HandleRspClosing
    <2>2. history' \in Seq(Cmds) /\ Len(history') <= MaxCmds /\ Len(history') = n
      BY <2>1 DEF Inv, TypeOK
    <2>3. Good(<<>>, cmdNet, <<>>, executed, lastExec, Len(history'))
      BY <1>1, <2>2, GoodEmpty
    <2> QED
      BY <1>5, <2>1, <2>2, <2>3
  <1> QED
    BY <1>3, <1>6, <1>7, <1>8 DEF trx_ctrl_read_cb

\* The transceiver takes a CMD; it does not go back to an older one.
LEMMA InvTransceiver ==
    ASSUME Inv, Transceiver
    PROVE  Inv' /\ lastExec' >= lastExec
  <1> DEFINE n == Len(history)
             d == Head(cmdNet)
  <1>1. /\ Good(queue, cmdNet, rspNet, executed, lastExec, n)
        /\ cmdNet # <<>> /\ cmdNet' = Tail(cmdNet) /\ d \in Entry
    BY DEF Inv, Transceiver, TypeOK
  <1>2. PICK good \in BOOLEAN :
            /\ executed' = IF good THEN executed \cup {d.id} ELSE executed
            /\ lastExec' = IF good THEN d.id ELSE lastExec
            /\ rspNet' = IF open THEN Append(rspNet, RspTo(d, good)) ELSE rspNet
            /\ smooth' = (smooth /\ good)
    BY DEF Transceiver
  <1>3. /\ Good(queue, cmdNet', rspNet, executed', lastExec', n)
        /\ lastExec' >= lastExec
    <2>1. /\ Good(queue, Tail(cmdNet), rspNet, executed, lastExec, n)
          /\ Good(queue, Tail(cmdNet), rspNet, executed \cup {d.id}, d.id, n)
          /\ d.id >= lastExec
      BY <1>1, GoodCmdTaken
    <2>2. lastExec >= lastExec
      BY <1>1 DEF Good
    <2> QED
      BY <1>1, <1>2, <2>1, <2>2
  <1>4. RspTo(d, good) \in Rsp /\ RspTo(d, good).id = d.id
    <2>1. d.id \in Ids /\ d.c.name \in CmdNames /\ d.c.par \in Nat
      BY <1>1, CmdsAssumption DEF Entry
    <2> QED
      BY <2>1 DEF RspTo, Rsp
  <1>5. d.id <= n /\ \A k \in 2 .. Len(queue) : d.id # queue[k].id
    <2>1. d = cmdNet[1] /\ 1 \in 1 .. Len(cmdNet)
      BY <1>1 DEF Good, Issued
    <2> QED
      BY <1>1, <2>1 DEF Good, Issued, Unseen
  <1>6. Good(queue, cmdNet', rspNet', executed', lastExec', n)
    <2>1. Good(queue, cmdNet', Append(rspNet, RspTo(d, good)), executed', lastExec', n)
      BY <1>3, <1>4, <1>5, GoodAnswer
    <2> QED
      BY <1>2, <1>3, <2>1
  <1>7. UNCHANGED <<queue, timer, lastAcked, open, shutdown, history, acked>>
    BY DEF Transceiver
  <1> QED
    BY <1>2, <1>3, <1>6, <1>7, GoodTypes DEF Inv, TypeOK, TimerNeedsCommand

\* The invariant is inductive, and no step makes the transceiver go back.
LEMMA InvNext == Inv /\ [Next]_vars => Inv' /\ lastExec' >= lastExec
  <1> SUFFICES ASSUME Inv, [Next]_vars PROVE Inv' /\ lastExec' >= lastExec
    OBVIOUS
  <1> DEFINE n == Len(history)
  <1>1. Good(queue, cmdNet, rspNet, executed, lastExec, n) /\ lastExec >= lastExec
    BY DEF Inv, Good
  <1>2. ASSUME NEW c \in Cmds, trx_ctrl_cmd_cb(c)
        PROVE  Inv' /\ lastExec' >= lastExec
    <2>1. /\ Issue(c) /\ queue' = Enqueue(queue, c)
          /\ IF queue = <<>> THEN trx_ctrl_send(Enqueue(queue, c), open)
             ELSE UNCHANGED <<cmdNet, timer>>
          /\ UNCHANGED <<lastAcked, open, shutdown, rspNet, acked, executed, lastExec,
                         smooth>>
      BY <1>2 DEF trx_ctrl_cmd_cb
    <2>2. /\ history' \in Seq(Cmds) /\ Len(history') <= MaxCmds
          /\ Good(Enqueue(queue, c), cmdNet, rspNet, executed, lastExec, Len(history'))
          /\ Enqueue(queue, c) # <<>>
      BY <2>1, IssueKeeps
    <2>3. /\ Good(Enqueue(queue, c), cmdNet', rspNet, executed, lastExec, Len(history'))
          /\ timer' \in BOOLEAN
      BY <2>1, <2>2, SendKeeps DEF Inv, TypeOK
    <2> QED
      BY <1>1, <2>1, <2>2, <2>3, GoodTypes DEF Inv, TypeOK, TimerNeedsCommand
  <1>3. CASE trx_ctrl_timer_cb
    <2>1. /\ trx_ctrl_send(queue, open)
          /\ UNCHANGED <<queue, lastAcked, open, shutdown, rspNet, history, acked,
                         executed, lastExec, smooth>>
      BY <1>3 DEF trx_ctrl_timer_cb
    <2>2. /\ Good(queue, cmdNet', rspNet, executed, lastExec, n)
          /\ timer' \in BOOLEAN
          /\ timer' => queue # <<>>
      BY <1>1, <2>1, SendKeeps
    <2> QED
      BY <1>1, <2>1, <2>2, GoodTypes DEF Inv, TypeOK, TimerNeedsCommand
  <1>4. CASE trx_ctrl_read_cb
    BY <1>1, <1>4, InvRead DEF trx_ctrl_read_cb
  <1>5. CASE trx_if_close
    <2>1. Good(<<>>, cmdNet, <<>>, executed, lastExec, n)
      BY <1>1, GoodEmpty
    <2>2. /\ queue' = <<>> /\ lastAcked' = <<>> /\ timer' = FALSE /\ open' = FALSE
          /\ rspNet' = <<>> /\ smooth' = FALSE
          /\ UNCHANGED <<shutdown, cmdNet, history, acked, executed, lastExec>>
      BY <1>5 DEF trx_if_close, trx_if_flush
    <2> QED
      BY <1>1, <2>1, <2>2, GoodTypes DEF Inv, TypeOK, TimerNeedsCommand
  <1>6. CASE trx_if_open
    BY <1>1, <1>6 DEF trx_if_open, Inv, TypeOK, TimerNeedsCommand
  <1>7. CASE Transceiver
    BY <1>7, InvTransceiver
  <1>8. CASE LoseCmd
    <2>1. Good(queue, cmdNet', rspNet, executed, lastExec, n)
      BY <1>1, <1>8, GoodCmdTaken DEF LoseCmd
    <2> QED
      BY <1>1, <1>8, <2>1, GoodTypes DEF LoseCmd, Inv, TypeOK, TimerNeedsCommand
  <1>9. CASE LoseRsp
    <2>1. Good(queue, cmdNet, rspNet', executed, lastExec, n)
      BY <1>1, <1>9, GoodRspTaken DEF LoseRsp
    <2> QED
      BY <1>1, <1>9, <2>1, GoodTypes DEF LoseRsp, Inv, TypeOK, TimerNeedsCommand
  <1>10. CASE UNCHANGED vars
    BY <1>1, <1>10 DEF vars, Inv, TypeOK, TimerNeedsCommand
  <1> QED
    BY <1>2, <1>3, <1>4, <1>5, <1>6, <1>7, <1>8, <1>9, <1>10 DEF Next
-----------------------------------------------------------------------------
(* The theorems.                                                           *)

\* The invariant holds in every reachable state.
LEMMA InvHolds == Spec => []Inv
  <1>1. Inv /\ [Next]_vars => Inv'
    BY InvNext
  <1> QED
    BY <1>1, InvInit, PTL DEF Spec

\* trx_if.c keeps the type of its state.
THEOREM TypeCorrect == Spec => []TypeOK
  BY InvHolds, InvImplies, PTL

\* The retransmission timer never fires on an empty list: the assertion of
\* trx_ctrl_timer_cb() holds.
THEOREM TimerNeedsCommandHolds == Spec => []TimerNeedsCommand
  BY InvHolds, InvImplies, PTL

\* No command is sent before the one ahead of it has its answer, however responses,
\* retransmissions, losses and callbacks that queue or flush interleave.
THEOREM StopAndWaitHolds == Spec => []StopAndWait
  BY InvHolds, InvImplies, PTL

\* The transceiver carries the commands out in the order of their issue.
THEOREM ExecutionOrderHolds == Spec => ExecutionOrder
  <1>1. Inv /\ [Next]_vars => [lastExec' >= lastExec]_vars
    BY InvNext
  <1> QED
    BY <1>1, InvHolds, PTL DEF Spec, ExecutionOrder

\* However responses, retransmissions, callbacks and flushes interleave, the list of
\* trx_if.c stays one command at a time on the wire, in order, its timer never without a
\* command.
THEOREM ConnectionInvHolds == Spec => []ConnectionInv
  BY TypeCorrect, TimerNeedsCommandHolds, StopAndWaitHolds, PTL DEF ConnectionInv
-----------------------------------------------------------------------------
(* Which command an answer is taken for.                                   *)

\* The commands on the list q and on the wire cn are the ones issued under their numbers
\* in h; an RSP of success is of a command of its name that was carried out, and no RSP is
\* of a command younger than one on the list.
Tied(q, cn, rn, ex, h) ==
    /\ \A k \in 1 .. Len(q) : q[k].c = h[q[k].id]
    /\ \A i \in 1 .. Len(cn) : cn[i].c = h[cn[i].id]
    /\ \A i \in 1 .. Len(rn) :
          rn[i].ok => rn[i].id \in ex /\ rn[i].name = h[rn[i].id].name
    /\ \A i \in 1 .. Len(rn) : \A k \in 1 .. Len(q) : rn[i].id <= q[k].id

\* The critical command i of h was carried out, or an earlier one of its name was.
Done(i, ex, h) ==
    h[i].crit /\ h[i].name \notin {"NOMTXPOWER", "SETPOWER"} =>
        \/ i \in ex
        \/ \E j \in ex : j < i /\ h[j].name = h[i].name
Earned(ac, ex, h) == \A i \in ac : i \in 1 .. Len(h) /\ Done(i, ex, h)

\* The datagrams in flight, the next one to reach the BTS first.
Flying(rn, cn, i) == IF i <= Len(rn) THEN rn[i] ELSE cn[i - Len(rn)].c

\* Is d of the command answered last, or of the head of the list?
Old(la, d) == la # <<>> /\ cmd_matches_rsp(la[1].c, d)
New(q, d) == q # <<>> /\ cmd_matches_rsp(Head(q).c, d)

\* Every datagram in flight is of one of the two, those of the head at the end.
Crossing(rn, cn, la, q) ==
    /\ \A i \in 1 .. Len(rn) + Len(cn) :
          Old(la, Flying(rn, cn, i)) \/ New(q, Flying(rn, cn, i))
    /\ \A i, j \in 1 .. Len(rn) + Len(cn) :
          i < j /\ ~Old(la, Flying(rn, cn, i)) => New(q, Flying(rn, cn, j))

\* While nothing is lost, refused or closed.
Smooth(rn, cn, la, q) ==
    /\ \A i \in 1 .. Len(rn) : rn[i].ok
    /\ Crossing(rn, cn, la, q)

MatchInv ==
    /\ Tied(queue, cmdNet, rspNet, executed, history)
    /\ Earned(acked, executed, history)
    /\ smooth => open /\ ~shutdown /\ Smooth(rspNet, cmdNet, lastAcked, queue)

\* A list without its head.
LEMMA TailOf ==
    ASSUME NEW S, NEW s \in Seq(S), s # <<>>
    PROVE  /\ Len(s) \in Nat /\ Len(s) >= 1 /\ Head(s) = s[1] /\ s[1] \in S
           /\ Tail(s) \in Seq(S) /\ Len(Tail(s)) = Len(s) - 1
           /\ \A k \in 1 .. Len(Tail(s)) : Tail(s)[k] = s[k + 1] /\ k + 1 \in 1 .. Len(s)
  OBVIOUS

\* A list with one more element.
LEMMA AppendOf ==
    ASSUME NEW S, NEW s \in Seq(S), NEW e \in S
    PROVE  /\ Len(s) \in Nat
           /\ Append(s, e) \in Seq(S) /\ Len(Append(s, e)) = Len(s) + 1
           /\ Append(s, e)[Len(s) + 1] = e
           /\ \A k \in 1 .. Len(s) : Append(s, e)[k] = s[k]
           /\ \A k \in 1 .. Len(Append(s, e)) : k \in 1 .. Len(s) \/ k = Len(s) + 1
  OBVIOUS

\* Two commands that one response matches are matched by the same responses.
LEMMA SameMatches ==
    ASSUME NEW c, NEW d, NEW x, NEW y,
           cmd_matches_rsp(c, x), cmd_matches_rsp(d, x), cmd_matches_rsp(c, y)
    PROVE  cmd_matches_rsp(d, y)
  BY DEF cmd_matches_rsp

\* Only the head is sent.
LEMMA TiedSend ==
    ASSUME NEW q \in Seq(Entry), NEW cn \in Seq(Entry), NEW rn, NEW ex, NEW h,
           Tied(q, cn, rn, ex, h), q # <<>>
    PROVE  Tied(q, Append(cn, Head(q)), rn, ex, h)
  <1>1. Head(q) = q[1] /\ 1 \in 1 .. Len(q) /\ q[1] \in Entry
    OBVIOUS
  <1> DEFINE cm == Append(cn, Head(q))
  <1>2. /\ Len(cm) = Len(cn) + 1 /\ cm[Len(cn) + 1] = q[1]
        /\ \A k \in 1 .. Len(cn) : cm[k] = cn[k]
        /\ \A k \in 1 .. Len(cm) : k \in 1 .. Len(cn) \/ k = Len(cn) + 1
    BY <1>1, AppendOf
  <1> HIDE DEF cm
  <1>3. q[1].c = h[q[1].id]
    BY <1>1 DEF Tied
  <1>4. ASSUME NEW i \in 1 .. Len(cm) PROVE cm[i].c = h[cm[i].id]
    BY <1>2, <1>3 DEF Tied
  <1> QED
    BY <1>4 DEF Tied, cm

\* An answered command leaves the list, or all do.
LEMMA TiedTail ==
    ASSUME NEW q \in Seq(Entry), NEW cn, NEW rn, NEW ex, NEW h, Tied(q, cn, rn, ex, h)
    PROVE  /\ q # <<>> => Tied(Tail(q), cn, rn, ex, h)
           /\ Tied(<<>>, cn, rn, ex, h)
           /\ Tied(<<>>, cn, <<>>, ex, h)
  <1>1. ASSUME q # <<>> PROVE Tied(Tail(q), cn, rn, ex, h)
    <2> DEFINE t == Tail(q)
    <2>1. \A k \in 1 .. Len(t) : t[k] = q[k + 1] /\ k + 1 \in 1 .. Len(q)
      BY <1>1, TailOf
    <2> HIDE DEF t
    <2> QED
      BY <2>1 DEF Tied, t
  <1>2. \A k \in 1 .. Len(<<>>) : FALSE
    OBVIOUS
  <1> QED
    BY <1>1, <1>2 DEF Tied

\* A new command goes to the end of the list, unless it equals the one there.
LEMMA TiedEnqueue ==
    ASSUME Inv, NEW c \in Cmds, Issue(c),
           Tied(queue, cmdNet, rspNet, executed, history)
    PROVE  Tied(Enqueue(queue, c), cmdNet, rspNet, executed, history')
  <1> DEFINE n == Len(history)
             e == [id |-> n + 1, c |-> c]
             q == Append(queue, e)
  <1>1. /\ history \in Seq(Cmds) /\ n \in Nat /\ n + 1 \in Ids
        /\ queue \in Seq(Entry) /\ cmdNet \in Seq(Entry) /\ rspNet \in Seq(Rsp)
    BY BoundsAssumption DEF Inv, TypeOK, Issue, Ids
  <1>2. e \in Entry /\ e.id = n + 1 /\ e.c = c
    BY <1>1 DEF Entry
  <1>3. history'[n + 1] = c /\ \A i \in 1 .. n : history'[i] = history[i]
    BY <1>1, AppendOf DEF Issue
  <1> HIDE DEF e
  <1>4. /\ \A k \in 1 .. Len(queue) : queue[k].id \in 1 .. n
        /\ \A i \in 1 .. Len(cmdNet) : cmdNet[i].id \in 1 .. n
        /\ \A i \in 1 .. Len(rspNet) : rspNet[i].id \in 1 .. n
    <2> USE Numbers DEF Inv, Good
    <2>1. \A k \in 1 .. Len(queue) : queue[k].id \in 1 .. n
      <3>1. \A k \in 1 .. Len(queue) : queue[k] \in Entry /\ queue[k].id <= n
        BY <1>1 DEF Listed
      <3> QED
        BY <1>1, <3>1
    <2>2. \A i \in 1 .. Len(cmdNet) : cmdNet[i].id \in 1 .. n
      <3>1. \A i \in 1 .. Len(cmdNet) : cmdNet[i] \in Entry /\ cmdNet[i].id <= n
        BY <1>1 DEF Issued
      <3> QED
        BY <1>1, <3>1
    <2>3. \A i \in 1 .. Len(rspNet) : rspNet[i].id \in 1 .. n
      <3>1. \A i \in 1 .. Len(rspNet) : rspNet[i] \in Rsp /\ rspNet[i].id <= n
        BY <1>1 DEF Issued
      <3> QED
        BY <1>1, <3>1
    <2> QED
      BY <2>1, <2>2, <2>3
  <1> HIDE DEF n
  <1>5. Tied(queue, cmdNet, rspNet, executed, history')
    BY <1>3, <1>4 DEF Tied
  <1>6. /\ \A k \in 1 .. Len(queue) : q[k] = queue[k]
        /\ \A k \in 1 .. Len(q) : k \in 1 .. Len(queue) \/ q[k] = e
    BY <1>1, <1>2, AppendOf
  <1> HIDE DEF q
  <1>7. Tied(q, cmdNet, rspNet, executed, history')
    <2>1. \A k \in 1 .. Len(q) : q[k].c = history'[q[k].id]
      BY <1>2, <1>3, <1>5, <1>6 DEF Tied
    <2>2. ASSUME NEW i \in 1 .. Len(rspNet), NEW k \in 1 .. Len(q)
          PROVE  rspNet[i].id <= q[k].id
      <3>1. rspNet[i].id <= n + 1
        BY <1>1, <1>4 DEF n
      <3> QED
        BY <1>2, <1>5, <1>6, <3>1 DEF Tied
    <2> QED
      BY <1>5, <2>1, <2>2 DEF Tied
  <1> QED
    BY <1>5, <1>7 DEF Enqueue, q, e, n

\* A response is read or lost.
LEMMA TiedRspTaken ==
    ASSUME NEW q, NEW cn, NEW rn \in Seq(Rsp), NEW ex, NEW h,
           Tied(q, cn, rn, ex, h), rn # <<>>
    PROVE  Tied(q, cn, Tail(rn), ex, h)
  <1> DEFINE t == Tail(rn)
  <1>1. \A k \in 1 .. Len(t) : t[k] = rn[k + 1] /\ k + 1 \in 1 .. Len(rn)
    BY TailOf
  <1> HIDE DEF t
  <1> QED
    BY <1>1 DEF Tied, t

\* A CMD is lost or taken, and its command perhaps carried out.
LEMMA TiedCmdTaken ==
    ASSUME NEW q, NEW cn \in Seq(Entry), NEW rn, NEW ex, NEW ey, NEW h,
           Tied(q, cn, rn, ex, h), cn # <<>>, ex \subseteq ey
    PROVE  Tied(q, Tail(cn), rn, ey, h)
  <1> DEFINE t == Tail(cn)
  <1>1. \A k \in 1 .. Len(t) : t[k] = cn[k + 1] /\ k + 1 \in 1 .. Len(cn)
    BY TailOf
  <1> HIDE DEF t
  <1> QED
    BY <1>1 DEF Tied, t

\* The transceiver answers.
LEMMA TiedAnswer ==
    ASSUME NEW q, NEW cn, NEW rn \in Seq(Rsp), NEW ex, NEW h, NEW a \in Rsp,
           Tied(q, cn, rn, ex, h),
           a.ok => a.id \in ex /\ a.name = h[a.id].name,
           \A k \in 1 .. Len(q) : a.id <= q[k].id
    PROVE  Tied(q, cn, Append(rn, a), ex, h)
  <1> DEFINE t == Append(rn, a)
  <1>1. \A k \in 1 .. Len(t) : t[k] = a \/ (k \in 1 .. Len(rn) /\ t[k] = rn[k])
    BY AppendOf
  <1> HIDE DEF t
  <1> QED
    BY <1>1 DEF Tied, t

\* The responses of a command are those that its name and parameters give it.
LEMMA CrossAlike ==
    ASSUME NEW rn, NEW cn, NEW rm, NEW cm, NEW la, NEW q,
           Crossing(rn, cn, la, q),
           Len(rm) + Len(cm) = Len(rn) + Len(cn),
           \A i \in 1 .. Len(rn) + Len(cn) :
               /\ Flying(rm, cm, i).name = Flying(rn, cn, i).name
               /\ Flying(rm, cm, i).par = Flying(rn, cn, i).par
    PROVE  Crossing(rm, cm, la, q)
  <1>1. ASSUME NEW i \in 1 .. Len(rn) + Len(cn)
        PROVE  /\ Old(la, Flying(rm, cm, i)) <=> Old(la, Flying(rn, cn, i))
               /\ New(q, Flying(rm, cm, i)) <=> New(q, Flying(rn, cn, i))
    BY DEF Old, New, cmd_matches_rsp
  <1> QED
    BY <1>1 DEF Crossing

\* Only the head is sent.
LEMMA CrossSend ==
    ASSUME NEW rn \in Seq(Rsp), NEW cn \in Seq(Entry), NEW la, NEW q \in Seq(Entry),
           Crossing(rn, cn, la, q), q # <<>>
    PROVE  Crossing(rn, Append(cn, Head(q)), la, q)
  <1> DEFINE cm == Append(cn, Head(q))
             m == Len(rn) + Len(cn)
  <1>1. Head(q) \in Entry
    OBVIOUS
  <1>2. /\ Len(cm) = Len(cn) + 1 /\ cm[Len(cn) + 1] = Head(q)
        /\ \A k \in 1 .. Len(cn) : cm[k] = cn[k]
    BY <1>1, AppendOf
  <1>3. Len(rn) \in Nat /\ Len(cn) \in Nat
    OBVIOUS
  <1> HIDE DEF cm
  <1>4. /\ Flying(rn, cm, m + 1) = Head(q).c
        /\ \A i \in 1 .. m : Flying(rn, cm, i) = Flying(rn, cn, i)
    <2>1. ASSUME NEW i \in 1 .. m PROVE Flying(rn, cm, i) = Flying(rn, cn, i)
      <3>1. i <= Len(rn) \/ i - Len(rn) \in 1 .. Len(cn)
        BY <1>3
      <3> QED
        BY <1>2, <3>1 DEF Flying
    <2>2. ~(m + 1 <= Len(rn)) /\ m + 1 - Len(rn) = Len(cn) + 1
      BY <1>3
    <2> QED
      BY <1>2, <2>1, <2>2 DEF Flying
  <1>5. New(q, Flying(rn, cm, m + 1))
    BY <1>4 DEF New, cmd_matches_rsp
  <1>6. Len(rn) + Len(cm) = m + 1 /\ m \in Nat
    BY <1>2, <1>3
  <1> HIDE DEF m
  <1>7. \A i \in 1 .. m + 1 : i \in 1 .. m \/ i = m + 1
    BY <1>6
  <1>8. \A i, j \in 1 .. m + 1 : i < j => i \in 1 .. m
    BY <1>6
  <1>9. /\ \A i \in 1 .. m : Old(la, Flying(rn, cn, i)) \/ New(q, Flying(rn, cn, i))
        /\ \A i, j \in 1 .. m :
              i < j /\ ~Old(la, Flying(rn, cn, i)) => New(q, Flying(rn, cn, j))
    BY DEF Crossing, m
  <1>10. \A i \in 1 .. m + 1 : Old(la, Flying(rn, cm, i)) \/ New(q, Flying(rn, cm, i))
    BY Zenon, <1>4, <1>5, <1>7, <1>9
  <1>11. \A i, j \in 1 .. m + 1 :
            i < j /\ ~Old(la, Flying(rn, cm, i)) => New(q, Flying(rn, cm, j))
    BY Zenon, <1>4, <1>5, <1>7, <1>8, <1>9
  <1> QED
    BY <1>6, <1>10, <1>11 DEF Crossing, cm

\* What follows the first response in flight.
LEMMA FlyingTail ==
    ASSUME NEW rn \in Seq(Rsp), NEW cn \in Seq(Entry), rn # <<>>
    PROVE  /\ Len(Tail(rn)) + Len(cn) = Len(rn) + Len(cn) - 1
           /\ Flying(rn, cn, 1) = Head(rn)
           /\ 1 \in 1 .. Len(rn) + Len(cn)
           /\ \A i \in 1 .. Len(Tail(rn)) + Len(cn) :
                 /\ i + 1 \in 1 .. Len(rn) + Len(cn)
                 /\ 1 < i + 1
                 /\ Flying(Tail(rn), cn, i) = Flying(rn, cn, i + 1)
  <1> DEFINE t == Tail(rn)
  <1>1. /\ Len(rn) \in Nat /\ Len(rn) >= 1 /\ Head(rn) = rn[1]
        /\ Len(t) = Len(rn) - 1 /\ Len(cn) \in Nat
        /\ \A k \in 1 .. Len(t) : t[k] = rn[k + 1]
    BY TailOf
  <1> HIDE DEF t
  <1>2. ASSUME NEW i \in 1 .. Len(t) + Len(cn)
        PROVE  /\ i + 1 \in 1 .. Len(rn) + Len(cn)
               /\ 1 < i + 1
               /\ Flying(t, cn, i) = Flying(rn, cn, i + 1)
    <2>1. i - Len(t) = i + 1 - Len(rn) /\ (i <= Len(t) <=> i + 1 <= Len(rn))
      BY <1>1
    <2> QED
      BY <1>1, <2>1 DEF Flying
  <1> QED
    BY <1>1, <1>2 DEF Flying, t

\* A response is read and ignored.
LEMMA CrossRead ==
    ASSUME NEW rn \in Seq(Rsp), NEW cn \in Seq(Entry), NEW la, NEW q,
           Crossing(rn, cn, la, q), rn # <<>>
    PROVE  Crossing(Tail(rn), cn, la, q)
  <1>1. \A i, j \in 1 .. Len(Tail(rn)) + Len(cn) : i < j => i + 1 < j + 1
    OBVIOUS
  <1>2. \A i \in 1 .. Len(Tail(rn)) + Len(cn) :
            /\ i + 1 \in 1 .. Len(rn) + Len(cn)
            /\ Flying(Tail(rn), cn, i) = Flying(rn, cn, i + 1)
    BY FlyingTail
  <1> QED
    BY Zenon, <1>1, <1>2 DEF Crossing

\* The response taken for the head's makes the head the command answered last, and all
\* that is still in flight is of that one.
LEMMA CrossDone ==
    ASSUME NEW rn \in Seq(Rsp), NEW cn \in Seq(Entry), NEW la, NEW q \in Seq(Entry), NEW p,
           Crossing(rn, cn, la, q), rn # <<>>, New(q, Head(rn))
    PROVE  Crossing(Tail(rn), cn, <<Head(q)>>, p)
  <1>1. ASSUME NEW i \in 1 .. Len(Tail(rn)) + Len(cn)
        PROVE  New(q, Flying(Tail(rn), cn, i))
    <2> DEFINE d == Flying(rn, cn, i + 1)
    <2>1. /\ i + 1 \in 1 .. Len(rn) + Len(cn) /\ 1 \in 1 .. Len(rn) + Len(cn) /\ 1 < i + 1
          /\ Flying(Tail(rn), cn, i) = d /\ Flying(rn, cn, 1) = Head(rn)
      BY FlyingTail
    <2>2. Old(la, d) \/ New(q, d)
      BY <2>1 DEF Crossing
    <2>3. ~Old(la, Head(rn)) => New(q, d)
      BY <2>1 DEF Crossing
    <2> HIDE DEF d
    <2>4. Old(la, Head(rn)) /\ Old(la, d) => New(q, d)
      BY SameMatches DEF Old, New
    <2> QED
      BY <2>1, <2>2, <2>3, <2>4
  <1>2. \A d : New(q, d) => Old(<<Head(q)>>, d)
    BY DEF Old, New
  <1> QED
    BY Zenon, <1>1, <1>2 DEF Crossing

\* A command that goes behind the others, or a first one.
LEMMA CrossEnqueue ==
    ASSUME NEW rn, NEW cn, NEW la, NEW q, NEW p, Crossing(rn, cn, la, q),
           q # <<>> => p # <<>> /\ Head(p) = Head(q)
    PROVE  Crossing(rn, cn, la, p)
  <1>1. \A d : New(q, d) => New(p, d)
    BY DEF New
  <1> QED
    BY Zenon, <1>1 DEF Crossing

\* The transceiver answers a CMD with its own name and parameters.
LEMMA CrossAnswer ==
    ASSUME NEW rn \in Seq(Rsp), NEW cn \in Seq(Entry), NEW la, NEW q, NEW a \in Rsp,
           Crossing(rn, cn, la, q), cn # <<>>,
           a.name = Head(cn).c.name, a.par = Head(cn).c.par
    PROVE  Crossing(Append(rn, a), Tail(cn), la, q)
  <1> DEFINE rm == Append(rn, a)
             cm == Tail(cn)
  <1>1. /\ Len(rn) \in Nat /\ Len(rm) = Len(rn) + 1 /\ rm[Len(rn) + 1] = a
        /\ \A k \in 1 .. Len(rn) : rm[k] = rn[k]
    BY AppendOf
  <1>2. /\ Len(cn) \in Nat /\ Len(cn) >= 1 /\ Head(cn) = cn[1]
        /\ Len(cm) = Len(cn) - 1
        /\ \A k \in 1 .. Len(cm) : cm[k] = cn[k + 1]
    BY TailOf
  <1> HIDE DEF rm, cm
  <1>3. Len(rm) + Len(cm) = Len(rn) + Len(cn)
    BY <1>1, <1>2
  <1>4. ASSUME NEW i \in 1 .. Len(rn) + Len(cn)
        PROVE  /\ Flying(rm, cm, i).name = Flying(rn, cn, i).name
               /\ Flying(rm, cm, i).par = Flying(rn, cn, i).par
    <2>1. CASE i <= Len(rn)
      BY <1>1, <1>2, <2>1 DEF Flying
    <2>2. CASE i = Len(rn) + 1
      <3>1. Flying(rm, cm, i) = a /\ Flying(rn, cn, i) = cn[1].c
        BY <1>1, <1>2, <2>2 DEF Flying
      <3> QED
        BY <1>2, <3>1
    <2>3. CASE i > Len(rn) + 1
      <3>1. /\ i - Len(rm) \in 1 .. Len(cm) /\ (i - Len(rm)) + 1 = i - Len(rn)
            /\ ~(i <= Len(rm)) /\ ~(i <= Len(rn))
        BY <1>1, <1>2, <2>3
      <3> QED
        BY <1>2, <3>1 DEF Flying
    <2> QED
      BY <1>1, <1>2, <2>1, <2>2, <2>3
  <1> QED
    BY <1>3, <1>4, CrossAlike DEF rm, cm

\* More commands carried out, and one more issued, leave the answered ones as they were.
LEMMA EarnedStays ==
    ASSUME Inv, NEW ac, NEW ey, Earned(ac, executed, history), executed \subseteq ey
    PROVE  /\ Earned(ac, ey, history)
           /\ \A c \in Cmds : Issue(c) => Earned(ac, executed, history')
  <1>1. Earned(ac, ey, history)
    BY DEF Earned, Done
  <1>2. ASSUME NEW c \in Cmds, Issue(c) PROVE Earned(ac, executed, history')
    <2> DEFINE n == Len(history)
    <2>1. /\ n \in Nat /\ Len(history') = n + 1
          /\ \A i \in 1 .. n : history'[i] = history[i]
      BY <1>2, AppendOf DEF Inv, TypeOK, Issue
    <2>2. \A i \in 1 .. n : i \in 1 .. Len(history')
      BY <2>1
    <2>3. \A j \in executed : j \in 1 .. n
      BY Numbers DEF Inv, Good, Issued, Ids
    <2> HIDE DEF n
    <2>4. ASSUME NEW i \in ac PROVE Done(i, executed, history')
      <3>1. i \in 1 .. n /\ Done(i, executed, history)
        BY DEF Earned, n
      <3> QED
        BY <2>1, <2>3, <3>1 DEF Done
    <2> QED
      BY <2>2, <2>4 DEF Earned, n
  <1> QED
    BY <1>1, <1>2

\* The command that a response takes off the list was carried out, or an earlier one of
\* its name was, if it is critical.
LEMMA HeadDone ==
    ASSUME Inv, MatchInv, rspNet # <<>>, TakenForHead(Head(rspNet)),
           trx_ctrl_rx_rsp(Head(rspNet), Head(queue).c) = "done"
    PROVE  /\ Head(queue).id \in 1 .. Len(history)
           /\ Done(Head(queue).id, executed, history)
  <1>1. /\ queue # <<>> /\ queue \in Seq(Entry) /\ rspNet \in Seq(Rsp)
    BY DEF TakenForHead, Inv, TypeOK
  <1>2. /\ Head(queue) = queue[1] /\ 1 \in 1 .. Len(queue) /\ queue[1] \in Entry
        /\ Head(rspNet) = rspNet[1] /\ 1 \in 1 .. Len(rspNet) /\ rspNet[1] \in Rsp
    BY <1>1
  <1>3. PICK r \in Rsp, t \in Entry :
            /\ r = Head(rspNet) /\ r = rspNet[1] /\ t = Head(queue) /\ t = queue[1]
    BY <1>2
  <1>4. /\ t.c = history[t.id] /\ r.id <= t.id
        /\ r.ok => r.id \in executed /\ r.name = history[r.id].name
    BY <1>2, <1>3 DEF MatchInv, Tied
  <1>5. t.id \in 1 .. Len(history)
    <2>1. t.id <= Len(history) /\ Len(history) \in Nat
      BY <1>2, <1>3 DEF Inv, Good, Listed
    <2> QED
      BY <1>3, <2>1, Numbers
  <1>6. ASSUME t.c.crit, t.c.name \notin {"NOMTXPOWER", "SETPOWER"}
        PROVE  r.ok /\ r.name = t.c.name
    <2>1. r.name = t.c.name
      BY <1>3, <1>6 DEF TakenForHead, cmd_matches_rsp
    <2>2. r.ok \in BOOLEAN
      BY <1>3 DEF Rsp
    <2>3. trx_ctrl_rx_rsp(r, t.c) = "done"
      BY <1>3
    <2> QED
      BY <1>6, <2>1, <2>2, <2>3 DEF trx_ctrl_rx_rsp
  <1>7. Done(t.id, executed, history)
    <2>1. r.id \in Nat /\ t.id \in Nat
      BY <1>3, Numbers
    <2>2. r.id < t.id \/ r.id = t.id
      BY <1>4, <2>1
    <2> QED
      BY <1>4, <1>6, <2>2 DEF Done
  <1> QED
    BY <1>3, <1>5, <1>7

\* trx_ctrl_send() of the list q.
LEMMA SendTied ==
    ASSUME NEW q \in Seq(Entry), NEW isOpen, NEW rn \in Seq(Rsp), NEW ex, NEW h, NEW la,
           cmdNet \in Seq(Entry), trx_ctrl_send(q, isOpen), Tied(q, cmdNet, rn, ex, h)
    PROVE  /\ Tied(q, cmdNet', rn, ex, h)
           /\ Crossing(rn, cmdNet, la, q) => Crossing(rn, cmdNet', la, q)
  <1>1. cmdNet' = cmdNet \/ (q # <<>> /\ cmdNet' = Append(cmdNet, Head(q)))
    BY DEF trx_ctrl_send
  <1>2. CASE cmdNet' = cmdNet
    BY <1>2
  <1>3. CASE q # <<>> /\ cmdNet' = Append(cmdNet, Head(q))
    BY <1>3, TiedSend, CrossSend
  <1> QED
    BY <1>1, <1>2, <1>3

\* The end of trx_ctrl_read_cb(), after a callback that left the list q.
LEMMA ConcludeTied ==
    ASSUME Inv, MatchInv, rspNet # <<>>, TakenForHead(Head(rspNet)),
           NEW q \in Seq(Entry), NEW flushed \in BOOLEAN, NEW isOpen, NEW rn \in Seq(Rsp),
           Tied(q, cmdNet, rn, executed, history'),
           Earned(acked, executed, history'),
           history' = history \/ \E c \in Cmds : Issue(c),
           ~flushed => q # <<>>,
           Conclude(Head(rspNet), Head(queue), q, flushed, isOpen)
    PROVE  /\ Tied(queue', cmdNet', rn, executed, history')
           /\ Earned(acked', executed, history')
  <1> DEFINE rc == trx_ctrl_rx_rsp(Head(rspNet), Head(queue).c)
             rest == IF flushed \/ rc # "done" THEN q ELSE Tail(q)
  <1>1. /\ queue' = rest
        /\ IF rc = "done" THEN trx_ctrl_send(rest, isOpen) ELSE UNCHANGED cmdNet
        /\ acked' = IF rc = "done" THEN acked \cup {Head(queue).id} ELSE acked
    BY DEF Conclude
  <1>2. rest \in Seq(Entry) /\ Tied(rest, cmdNet, rn, executed, history')
    BY TiedTail
  <1>3. cmdNet \in Seq(Entry)
    BY DEF Inv, TypeOK
  <1>4. Tied(queue', cmdNet', rn, executed, history')
    <2> HIDE DEF rest, rc
    <2>1. CASE rc = "done"
      BY <1>1, <1>2, <1>3, <2>1, SendTied
    <2>2. CASE rc # "done"
      BY <1>1, <1>2, <2>2
    <2> QED
      BY <2>1, <2>2
  <1>5. ASSUME rc = "done"
        PROVE  Earned({Head(queue).id}, executed, history')
    <2>1. Earned({Head(queue).id}, executed, history)
      BY <1>5, HeadDone DEF Earned
    <2> QED
      BY <2>1, EarnedStays
  <1>6. Earned(acked', executed, history')
    BY <1>1, <1>5 DEF Earned
  <1> QED
    BY <1>4, <1>6

\* A response of success to the head, while nothing was lost or refused: the command is
\* done, and what is in flight is sorted again.
LEMMA ConcludeSmooth ==
    ASSUME Inv, MatchInv, smooth, rspNet # <<>>, TakenForHead(Head(rspNet)),
           NEW q \in Seq(Entry), q # <<>>, Head(q) = Head(queue),
           Tied(q, cmdNet, Tail(rspNet), executed, history'),
           Conclude(Head(rspNet), Head(queue), q, FALSE, open)
    PROVE  ~shutdown' /\ Smooth(Tail(rspNet), cmdNet', lastAcked', queue')
  <1> DEFINE rc == trx_ctrl_rx_rsp(Head(rspNet), Head(queue).c)
             t == Tail(rspNet)
  <1>1. /\ queue # <<>> /\ queue \in Seq(Entry) /\ rspNet \in Seq(Rsp)
        /\ cmdNet \in Seq(Entry) /\ ~shutdown
        /\ Smooth(rspNet, cmdNet, lastAcked, queue)
    BY DEF TakenForHead, Inv, TypeOK, MatchInv
  <1>2. /\ Len(rspNet) >= 1 /\ Head(rspNet) = rspNet[1] /\ rspNet[1] \in Rsp
        /\ t \in Seq(Rsp)
        /\ \A k \in 1 .. Len(t) : t[k] = rspNet[k + 1] /\ k + 1 \in 1 .. Len(rspNet)
        /\ 1 \in 1 .. Len(rspNet)
    BY <1>1, TailOf
  <1>3. rspNet[1].ok /\ \A k \in 1 .. Len(t) : t[k].ok
    BY <1>1, <1>2 DEF Smooth
  <1>4. rc = "done"
    BY <1>2, <1>3 DEF trx_ctrl_rx_rsp
  <1>5. /\ queue' = Tail(q) /\ lastAcked' = <<Head(queue)>>
        /\ trx_ctrl_send(Tail(q), open) /\ shutdown' = (shutdown \/ rc = "fatal")
    BY <1>4 DEF Conclude, SaveLastAcked
  <1>6. ~shutdown'
    BY <1>1, <1>4, <1>5
  <1>7. New(queue, Head(rspNet))
    <2>1. Old(lastAcked, Head(rspNet)) \/ New(queue, Head(rspNet))
      BY <1>1, FlyingTail DEF Smooth, Crossing
    <2> QED
      BY <1>1, <2>1 DEF TakenForHead, SkipAsRetransmission, Old, New
  <1>8. Crossing(t, cmdNet, <<Head(queue)>>, Tail(q))
    BY <1>1, <1>7, CrossDone DEF Smooth
  <1>9. Tail(q) \in Seq(Entry) /\ Tied(Tail(q), cmdNet, t, executed, history')
    BY TiedTail
  <1> HIDE DEF t, rc
  <1>10. Crossing(t, cmdNet', <<Head(queue)>>, Tail(q))
    BY <1>1, <1>2, <1>5, <1>8, <1>9, SendTied
  <1> QED
    BY <1>3, <1>5, <1>6, <1>10 DEF Smooth, t

\* A response is read.
LEMMA MatchRead ==
    ASSUME Inv, MatchInv, trx_ctrl_read_cb
    PROVE  MatchInv'
  <1> DEFINE r == Head(rspNet)
             t == Tail(rspNet)
  <1>1. /\ rspNet # <<>> /\ UNCHANGED executed /\ smooth' = (smooth /\ open')
        /\ queue \in Seq(Entry) /\ cmdNet \in Seq(Entry) /\ rspNet \in Seq(Rsp)
    BY DEF trx_ctrl_read_cb, Inv, TypeOK
  <1>2. t \in Seq(Rsp) /\ Tied(queue, cmdNet, t, executed, history)
    BY <1>1, TailOf, TiedRspTaken DEF MatchInv
  <1>3. ASSUME smooth PROVE Smooth(t, cmdNet, lastAcked, queue)
    <2>1. Crossing(t, cmdNet, lastAcked, queue)
      BY <1>1, <1>3, CrossRead DEF MatchInv, Smooth
    <2>2. \A k \in 1 .. Len(t) : t[k] = rspNet[k + 1] /\ k + 1 \in 1 .. Len(rspNet)
      BY <1>1, TailOf
    <2> QED
      BY <1>3, <2>1, <2>2 DEF MatchInv, Smooth
  <1>4. CASE IgnoreRsp(r)
    <2>1. /\ rspNet' = t
          /\ UNCHANGED <<queue, lastAcked, open, shutdown, cmdNet, history, acked>>
      BY <1>4 DEF IgnoreRsp
    <2> HIDE DEF t
    <2> QED
      BY <1>1, <1>2, <1>3, <2>1 DEF MatchInv
  <1>5. CASE MismatchRsp(r)
    <2>1. /\ rspNet' = t /\ queue # <<>>
          /\ ~cmd_matches_rsp(Head(queue).c, r) /\ ~SkipAsRetransmission(r)
          /\ UNCHANGED <<queue, lastAcked, open, cmdNet, history, acked>>
      BY <1>5 DEF MismatchRsp
    <2>2. ~smooth
      <3> SUFFICES ASSUME smooth PROVE FALSE
        BY DEF Inv, TypeOK
      <3>1. Old(lastAcked, r) \/ New(queue, r)
        BY <1>1, FlyingTail DEF MatchInv, Smooth, Crossing
      <3> QED
        BY <2>1, <3>1 DEF SkipAsRetransmission, Old, New
    <2> HIDE DEF t
    <2> QED
      BY <1>1, <1>2, <2>1, <2>2 DEF MatchInv
  <1>6. CASE HandleRsp(r)
    <2>1. /\ TakenForHead(r) /\ rspNet' = t /\ UNCHANGED <<open, history>>
          /\ Conclude(r, Head(queue), queue, FALSE, open) /\ queue # <<>>
      BY <1>6 DEF HandleRsp, TakenForHead
    <2>2. /\ Tied(queue, cmdNet, t, executed, history')
          /\ Earned(acked, executed, history')
      BY <1>2, <2>1 DEF MatchInv
    <2> HIDE DEF t
    <2>3. /\ Tied(queue', cmdNet', t, executed, history')
          /\ Earned(acked', executed, history')
      BY <1>1, <1>2, <2>1, <2>2, ConcludeTied
    <2>4. ASSUME smooth PROVE ~shutdown' /\ Smooth(t, cmdNet', lastAcked', queue')
      BY <1>1, <2>1, <2>2, <2>4, ConcludeSmooth DEF t
    <2> QED
      BY <1>1, <2>1, <2>3, <2>4 DEF MatchInv
  <1>7. ASSUME NEW c \in Cmds, HandleRspQueueing(r, c)
        PROVE  MatchInv'
    <2> DEFINE q == Enqueue(queue, c)
    <2>1. /\ TakenForHead(r) /\ Issue(c) /\ rspNet' = t /\ UNCHANGED open
          /\ Conclude(r, Head(queue), q, FALSE, open) /\ queue # <<>>
      BY <1>7 DEF HandleRspQueueing, TakenForHead
    <2>2. /\ Good(q, cmdNet, rspNet, executed, lastExec, Len(history'))
          /\ q # <<>> /\ Head(q) = Head(queue)
      BY <2>1, IssueKeeps
    <2>3. q \in Seq(Entry)
      BY <2>2, GoodTypes
    <2>4. /\ Tied(q, cmdNet, rspNet, executed, history')
          /\ Earned(acked, executed, history')
      BY <2>1, TiedEnqueue, EarnedStays DEF MatchInv
    <2>5. Tied(q, cmdNet, t, executed, history')
      BY <1>1, <2>4, TiedRspTaken
    <2> HIDE DEF t, q
    <2>6. /\ Tied(queue', cmdNet', t, executed, history')
          /\ Earned(acked', executed, history')
      BY <1>1, <1>2, <2>1, <2>2, <2>3, <2>4, <2>5, ConcludeTied
    <2>7. ASSUME smooth PROVE ~shutdown' /\ Smooth(t, cmdNet', lastAcked', queue')
      BY <1>1, <2>1, <2>2, <2>3, <2>5, <2>7, ConcludeSmooth DEF t
    <2> QED
      BY <1>1, <2>1, <2>6, <2>7 DEF MatchInv
  <1>8. CASE HandleRspClosing(r)
    <2>1. /\ TakenForHead(r) /\ rspNet' = <<>> /\ open' = FALSE /\ UNCHANGED history
          /\ Conclude(r, Head(queue), <<>>, TRUE, FALSE)
      BY <1>8 DEF HandleRspClosing
    <2>2. /\ Tied(<<>>, cmdNet, <<>>, executed, history')
          /\ Earned(acked, executed, history')
          /\ <<>> \in Seq(Entry) /\ <<>> \in Seq(Rsp)
      BY <1>1, <2>1, TiedTail DEF MatchInv
    <2>3. /\ Tied(queue', cmdNet', <<>>, executed, history')
          /\ Earned(acked', executed, history')
      BY <1>1, <2>1, <2>2, ConcludeTied
    <2> QED
      BY <1>1, <2>1, <2>3 DEF MatchInv
  <1> QED
    BY <1>4, <1>5, <1>6, <1>7, <1>8 DEF trx_ctrl_read_cb

\* The transceiver takes a CMD and answers it.
LEMMA MatchTransceiver ==
    ASSUME Inv, MatchInv, Transceiver
    PROVE  MatchInv'
  <1> DEFINE d == Head(cmdNet)
  <1>1. /\ cmdNet # <<>> /\ cmdNet' = Tail(cmdNet) /\ d \in Entry /\ d = cmdNet[1]
        /\ 1 \in 1 .. Len(cmdNet) /\ cmdNet \in Seq(Entry) /\ rspNet \in Seq(Rsp)
        /\ UNCHANGED <<queue, timer, lastAcked, open, shutdown, history, acked>>
    BY DEF Inv, Transceiver, TypeOK
  <1>2. PICK good \in BOOLEAN :
            /\ good => d.c.name \notin Unsupported
            /\ executed' = IF good THEN executed \cup {d.id} ELSE executed
            /\ rspNet' = IF open THEN Append(rspNet, RspTo(d, good)) ELSE rspNet
            /\ smooth' = (smooth /\ good)
    BY DEF Transceiver
  <1>3. PICK a \in Rsp :
            /\ a = RspTo(d, good) /\ a.id = d.id /\ a.ok = good
            /\ good => a.name = d.c.name /\ a.par = d.c.par
    <2>1. d.id \in Ids /\ d.c.name \in CmdNames /\ d.c.par \in Nat
      BY <1>1, CmdsAssumption DEF Entry
    <2>2. RspTo(d, good) \in Rsp
      BY <2>1 DEF RspTo, Rsp
    <2> QED
      BY <1>2, <2>2 DEF RspTo
  <1>4. executed \subseteq executed'
    BY <1>2
  <1>5. Tied(queue, cmdNet', rspNet, executed', history)
    BY <1>1, <1>4, TiedCmdTaken DEF MatchInv
  <1>6. Tied(queue, cmdNet', rspNet', executed', history)
    <2>1. d.c = history[d.id] /\ \A k \in 1 .. Len(queue) : d.id <= queue[k].id
      BY <1>1 DEF MatchInv, Tied, Inv, Good, InOrder
    <2>2. Tied(queue, cmdNet', Append(rspNet, a), executed', history)
      <3>1. a.ok => a.id \in executed' /\ a.name = history[a.id].name
        BY <1>2, <1>3, <2>1
      <3>2. \A k \in 1 .. Len(queue) : a.id <= queue[k].id
        BY <1>3, <2>1
      <3> QED
        BY <1>1, <1>3, <1>5, <3>1, <3>2, TiedAnswer
    <2> QED
      BY <1>2, <1>3, <1>5, <2>2
  <1>7. Earned(acked, executed', history)
    BY <1>4, EarnedStays DEF MatchInv
  <1>8. ASSUME smooth' PROVE open /\ ~shutdown /\ Smooth(rspNet', cmdNet', lastAcked, queue)
    <2>1. smooth /\ good
      BY <1>2, <1>8
    <2>2. open /\ ~shutdown /\ Smooth(rspNet, cmdNet, lastAcked, queue)
      BY <2>1 DEF MatchInv
    <2>3. rspNet' = Append(rspNet, a)
      BY <1>2, <1>3, <2>2
    <2>4. Crossing(rspNet', cmdNet', lastAcked, queue)
      BY <1>1, <1>3, <2>1, <2>2, <2>3, CrossAnswer DEF Smooth
    <2>5. ASSUME NEW i \in 1 .. Len(rspNet') PROVE rspNet'[i].ok
      <3>1. rspNet'[i] = a \/ (i \in 1 .. Len(rspNet) /\ rspNet'[i] = rspNet[i])
        BY <1>1, <1>3, <2>3, AppendOf
      <3> QED
        BY <1>3, <2>1, <2>2, <3>1 DEF Smooth
    <2> QED
      BY <2>2, <2>4, <2>5 DEF Smooth
  <1> QED
    BY <1>1, <1>6, <1>7, <1>8 DEF MatchInv

\* Every step keeps the answers matched.
LEMMA MatchNext == Inv /\ MatchInv /\ [Next]_vars => MatchInv'
  <1> SUFFICES ASSUME Inv, MatchInv, [Next]_vars PROVE MatchInv'
    OBVIOUS
  <1>1. queue \in Seq(Entry) /\ cmdNet \in Seq(Entry) /\ rspNet \in Seq(Rsp)
    BY DEF Inv, TypeOK
  <1>2. ASSUME NEW c \in Cmds, trx_ctrl_cmd_cb(c)
        PROVE  MatchInv'
    <2> DEFINE q == Enqueue(queue, c)
    <2>1. /\ Issue(c) /\ queue' = q
          /\ IF queue = <<>> THEN trx_ctrl_send(q, open) ELSE UNCHANGED <<cmdNet, timer>>
          /\ UNCHANGED <<lastAcked, open, shutdown, rspNet, acked, executed, smooth>>
      BY <1>2 DEF trx_ctrl_cmd_cb
    <2>2. /\ Good(q, cmdNet, rspNet, executed, lastExec, Len(history'))
          /\ q # <<>>
          /\ queue # <<>> => Head(q) = Head(queue)
      BY <2>1, IssueKeeps
    <2>3. q \in Seq(Entry)
      BY <2>2, GoodTypes
    <2>4. Tied(q, cmdNet, rspNet, executed, history') /\ Earned(acked, executed, history')
      BY <2>1, TiedEnqueue, EarnedStays DEF MatchInv
    <2>5. ASSUME smooth PROVE Crossing(rspNet, cmdNet, lastAcked, q)
      BY <2>2, <2>5, CrossEnqueue DEF MatchInv, Smooth
    <2> HIDE DEF q
    <2>6. /\ Tied(q, cmdNet', rspNet, executed, history')
          /\ smooth => Crossing(rspNet, cmdNet', lastAcked, q)
      BY <1>1, <2>1, <2>3, <2>4, <2>5, SendTied
    <2> QED
      BY <2>1, <2>4, <2>6 DEF MatchInv, Smooth
  <1>3. CASE trx_ctrl_timer_cb
    <2>1. /\ trx_ctrl_send(queue, open)
          /\ UNCHANGED <<queue, lastAcked, open, shutdown, rspNet, history, acked,
                         executed, lastExec, smooth>>
      BY <1>3 DEF trx_ctrl_timer_cb
    <2>2. /\ Tied(queue, cmdNet', rspNet, executed, history)
          /\ smooth => Crossing(rspNet, cmdNet', lastAcked, queue)
      BY <1>1, <2>1, SendTied DEF MatchInv, Smooth
    <2> QED
      BY <2>1, <2>2 DEF MatchInv, Smooth
  <1>4. CASE trx_ctrl_read_cb
    BY <1>4, MatchRead
  <1>5. CASE trx_if_close
    <2>1. Tied(<<>>, cmdNet, <<>>, executed, history)
      BY <1>1, TiedTail DEF MatchInv
    <2> QED
      BY <1>5, <2>1 DEF trx_if_close, trx_if_flush, MatchInv
  <1>6. CASE trx_if_open
    BY <1>6 DEF trx_if_open, MatchInv
  <1>7. CASE Transceiver
    BY <1>7, MatchTransceiver
  <1>8. CASE LoseCmd
    <2>1. Tied(queue, cmdNet', rspNet, executed, history)
      BY <1>1, <1>8, TiedCmdTaken DEF LoseCmd, MatchInv
    <2> QED
      BY <1>8, <2>1 DEF LoseCmd, MatchInv
  <1>9. CASE LoseRsp
    <2>1. Tied(queue, cmdNet, rspNet', executed, history)
      BY <1>1, <1>9, TiedRspTaken DEF LoseRsp, MatchInv
    <2> QED
      BY <1>9, <2>1 DEF LoseRsp, MatchInv
  <1>10. CASE UNCHANGED vars
    BY <1>10 DEF vars, MatchInv
  <1> QED
    BY <1>2, <1>3, <1>4, <1>5, <1>6, <1>7, <1>8, <1>9, <1>10 DEF Next

\* A command that leaves the list as answered was carried out, or an earlier one of its
\* name was, and without losses and refusals no duplicate response stops the BTS: matching
\* responses by name against the head and the command answered last is enough.
THEOREM AnswersMatchedHolds == Spec => []AnswersMatched
  <1>1. Init => MatchInv
    <2> SUFFICES ASSUME Init PROVE MatchInv
      OBVIOUS
    <2>1. /\ queue = <<>> /\ cmdNet = <<>> /\ rspNet = <<>> /\ history = <<>>
          /\ acked = {} /\ open /\ ~shutdown
      BY DEF Init
    <2>2. Len(<<>>) = 0 /\ \A i \in 1 .. 0 : FALSE
      OBVIOUS
    <2> QED
      BY <2>1, <2>2 DEF MatchInv, Tied, Earned, Smooth, Crossing
  <1>2. Inv /\ MatchInv /\ [Next]_vars => MatchInv'
    BY MatchNext
  <1>3. MatchInv => AnswersMatched
    BY DEF MatchInv, Earned, Done, AnswersMatched, AckMeansExecuted, NoSpuriousShutdown,
           MustSucceed
  <1> QED
    BY <1>1, <1>2, <1>3, InvHolds, PTL DEF Spec
=============================================================================
