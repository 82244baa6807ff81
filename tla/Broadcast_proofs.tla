-------------------------- MODULE Broadcast_proofs --------------------------
(***************************************************************************)
(* Proofs about the common channels of a cell.                             *)
(*                                                                         *)
(* About Broadcast: for any set of group calls, any number of cell         *)
(* broadcast messages and all settings of their queues.                    *)
(*                                                                         *)
(* About Ccch: for any number of paging groups, identities, MAC blocks and *)
(* request references, and all settings of the queues.                     *)
(***************************************************************************)
EXTENDS Broadcast, Ccch, SequenceTheorems, FiniteSetTheorems, WellFoundedInduction, TLAPS

-----------------------------------------------------------------------------
(* Sequences.                                                              *)

\* Removing an element moves those behind it up.
LEMMA RemoveAtProps ==
    ASSUME NEW S, NEW s \in Seq(S), NEW i \in 1 .. Len(s)
    PROVE  /\ RemoveAt(s, i) \in Seq(S)
           /\ Len(RemoveAt(s, i)) = Len(s) - 1
           /\ \A j \in 1 .. Len(s) - 1 : RemoveAt(s, i)[j] = s[IF j < i THEN j ELSE j + 1]
  <1> DEFINE a == SubSeq(s, 1, i - 1)
             b == SubSeq(s, i + 1, Len(s))
  <1>0. Len(s) \in Nat /\ i \in Int
    BY LenProperties
  <1>1. /\ a \in Seq(S) /\ Len(a) = i - 1
        /\ \A j \in 1 .. i - 1 : a[j] = s[j]
    BY SubSeqProperties
  <1>2. /\ b \in Seq(S) /\ Len(b) = Len(s) - i
        /\ \A j \in 1 .. Len(s) - i : b[j] = s[i + j]
    BY SubSeqProperties
  <1>3. RemoveAt(s, i) = a \o b
    BY DEF RemoveAt
  <1> HIDE DEF a, b
  <1>4. /\ a \o b \in Seq(S) /\ Len(a \o b) = Len(s) - 1
    <2>1. a \o b \in Seq(S) /\ Len(a \o b) = Len(a) + Len(b)
      BY <1>1, <1>2, ConcatProperties, Zenon
    <2> QED
      BY <1>0, <1>1, <1>2, <2>1
  <1>5. ASSUME NEW j \in 1 .. Len(s) - 1
        PROVE  (a \o b)[j] = s[IF j < i THEN j ELSE j + 1]
    <2>1. CASE j < i
      BY <1>1, <1>2, <2>1
    <2>2. CASE j >= i
      BY <1>1, <1>2, <2>2
    <2>3. j < i \/ j >= i
      BY <1>0
    <2> QED
      BY <2>1, <2>2, <2>3, Zenon
  <1> QED
    BY <1>3, <1>4, <1>5

\* Moving the head of a sequence to its end.
LEMMA RotateProps ==
    ASSUME NEW S, NEW s \in Seq(S), s # <<>>
    PROVE  LET r == Append(Tail(s), Head(s))
           IN  /\ r \in Seq(S) /\ Len(r) = Len(s) /\ Head(s) = s[1] /\ s[1] \in S
               /\ \A i \in 1 .. Len(s) : r[i] = IF i = Len(s) THEN s[1] ELSE s[i + 1]
  OBVIOUS

-----------------------------------------------------------------------------
(* Notifications.                                                          *)

Listed(n) == 1 .. Len(n)

\* The calls heard of are those at the end of the list, as many as were counted; those
\* never announced are at its beginning.
Counted == /\ notification_entries = Len(notifications)
           /\ notification_count = 0 \/ notification_count < notification_entries
Distinct == \A i, j \in Listed(notifications) : notifications[i] = notifications[j] => i = j
HeardLast ==
    \A i \in Listed(notifications) :
        notifications[i] \in heard <=> i > Len(notifications) - notification_count
FreshFirst ==
    /\ \A i, j \in Listed(notifications) :
          i < j /\ notifications[j] \in fresh => notifications[i] \in fresh
    /\ \A c \in fresh : \E i \in Listed(notifications) : notifications[i] = c
NchShape == Counted /\ Distinct /\ HeardLast /\ FreshFirst

NchInv == NchTypeOK /\ NchShape

LEMMA NchAdd ==
    ASSUME NchInv, NEW call \in Calls, bts_asci_notification_add(call)
    PROVE  NchInv'
  <1> DEFINE n == notifications
  <1>1. /\ n \in Seq(Calls) /\ n' \in Seq(Calls) /\ Len(n') = Len(n) + 1
        /\ \A i \in Listed(n') : n'[i] = IF i = 1 THEN call ELSE n[i - 1]
    BY DEF NchInv, NchTypeOK, bts_asci_notification_add, Listed
  <1>2. \A i \in Listed(n) : n[i] # call
    BY <1>1 DEF bts_asci_notification_add, Range, Listed
  <1>3. NchTypeOK'
    BY <1>1 DEF NchInv, NchTypeOK, bts_asci_notification_add
  <1>4. Counted'
    BY <1>1, <1>2 DEF NchInv, NchTypeOK, NchShape, Counted, bts_asci_notification_add
  <1>5. Distinct'
    <2> SUFFICES ASSUME NEW i \in Listed(n'), NEW j \in Listed(n'), n'[i] = n'[j] PROVE i = j
      BY DEF Distinct
    <2>1. CASE i = 1 \/ j = 1
      BY <1>1, <1>2, <2>1 DEF Listed
    <2>2. CASE i # 1 /\ j # 1
      <3>1. i - 1 \in Listed(n) /\ j - 1 \in Listed(n) /\ n[i - 1] = n[j - 1]
        BY <1>1, <2>2 DEF Listed
      <3>2. i - 1 = j - 1
        BY <3>1 DEF NchInv, NchShape, Distinct
      <3> QED
        BY <1>1, <3>2 DEF Listed
    <2> QED
      BY <2>1, <2>2
  <1>6. HeardLast'
    BY <1>1, <1>2 DEF HeardLast, Listed, bts_asci_notification_add
  <1>7. FreshFirst'
    <2>1. \A i, j \in Listed(n') : i < j /\ n'[j] \in fresh' => n'[i] \in fresh'
      <3> SUFFICES ASSUME NEW i \in Listed(n'), NEW j \in Listed(n'), i < j, n'[j] \in fresh'
                   PROVE  n'[i] \in fresh'
        OBVIOUS
      <3>1. CASE i = 1
        BY <1>1, <3>1 DEF bts_asci_notification_add
      <3>2. CASE i # 1
        <4>1. /\ i - 1 \in Listed(n) /\ j - 1 \in Listed(n) /\ i - 1 < j - 1
              /\ n'[j] = n[j - 1] /\ n'[i] = n[i - 1]
          BY <1>1, <3>2 DEF Listed
        <4>2. n[j - 1] \in fresh
          BY <1>2, <4>1 DEF bts_asci_notification_add
        <4>3. n[i - 1] \in fresh
          BY <4>1, <4>2 DEF NchInv, NchShape, FreshFirst
        <4> QED
          BY <4>1, <4>3 DEF bts_asci_notification_add
      <3> QED
        BY <3>1, <3>2
    <2>2. \A c \in fresh' : \E i \in Listed(n') : n'[i] = c
      BY <1>1, <1>2 DEF NchInv, NchShape, Distinct, FreshFirst, Listed, bts_asci_notification_add
    <2> QED
      BY <2>1, <2>2 DEF FreshFirst
  <1> QED
    BY <1>3, <1>4, <1>5, <1>6, <1>7 DEF NchInv, NchShape

LEMMA NchDel ==
    ASSUME NchInv, NEW call \in Calls, bts_asci_notification_del(call)
    PROVE  NchInv'
  <1> DEFINE n == notifications
  <1>0. n \in Seq(Calls)
    BY DEF NchInv, NchTypeOK
  <1>1. PICK k \in Listed(n) : n[k] = call /\ n' = RemoveAt(n, k)
    BY <1>0 DEF bts_asci_notification_del, Listed
  <1>2. /\ n' \in Seq(Calls) /\ Len(n') = Len(n) - 1
        /\ \A i \in Listed(n') : n'[i] = n[IF i < k THEN i ELSE i + 1]
    BY <1>0, <1>1, RemoveAtProps DEF Listed
  <1>3. NchTypeOK'
    BY <1>0, <1>1, <1>2 DEF NchInv, NchTypeOK, NchShape, Counted,
                               bts_asci_notification_del, Listed
  <1>4. Counted'
    BY <1>0, <1>1, <1>2 DEF NchInv, NchTypeOK, NchShape, Counted, bts_asci_notification_del
  <1>5. Distinct'
    <2> SUFFICES ASSUME NEW i \in Listed(n'), NEW j \in Listed(n'), n'[i] = n'[j] PROVE i = j
      BY DEF Distinct
    <2> DEFINE f(x) == IF x < k THEN x ELSE x + 1
    <2>1. f(i) \in Listed(n) /\ f(j) \in Listed(n) /\ n[f(i)] = n[f(j)]
      <3>1. PICK l \in Nat : l = Len(n) /\ Len(n') = l - 1
        BY <1>0, <1>2, LenProperties
      <3>2. ASSUME NEW x \in Listed(n') PROVE f(x) \in Listed(n) /\ n'[x] = n[f(x)]
        BY <1>2, <3>1, <3>2 DEF Listed
      <3> QED
        BY <3>2
    <2>2. f(i) = f(j)
      BY <2>1 DEF NchInv, NchShape, Distinct
    <2> QED
      BY <1>0, <1>2, <2>2 DEF Listed
  <1>6. HeardLast'
    BY <1>0, <1>1, <1>2 DEF HeardLast, Listed, bts_asci_notification_del
  <1>7. FreshFirst'
    <2> DEFINE up(i) == IF i < k THEN i ELSE i + 1
    <2>0. \A i \in Listed(n') : up(i) \in Listed(n) /\ up(i) # k /\ n'[i] = n[up(i)]
      BY <1>0, <1>2 DEF Listed
    <2>1. \A i, j \in Listed(n') : i < j /\ n'[j] \in fresh' => n'[i] \in fresh'
      <3> SUFFICES ASSUME NEW i \in Listed(n'), NEW j \in Listed(n'), i < j, n'[j] \in fresh'
                   PROVE  n'[i] \in fresh'
        OBVIOUS
      <3>0. up(i) < up(j)
        BY <1>0, <1>2 DEF Listed
      <3>1. n[up(j)] \in fresh
        BY <2>0 DEF bts_asci_notification_del
      <3>2. n[up(i)] \in fresh
        BY <2>0, <3>0, <3>1 DEF NchInv, NchShape, FreshFirst
      <3>3. n[up(i)] # call
        BY <1>1, <2>0 DEF NchInv, NchShape, Distinct
      <3> QED
        BY <2>0, <3>2, <3>3 DEF bts_asci_notification_del
    <2>2. \A c \in fresh' : \E i \in Listed(n') : n'[i] = c
      <3> SUFFICES ASSUME NEW c \in fresh' PROVE \E i \in Listed(n') : n'[i] = c
        OBVIOUS
      <3>1. c \in fresh /\ c # call
        BY DEF bts_asci_notification_del
      <3>2. PICK j \in Listed(n) : n[j] = c
        BY <3>1 DEF NchInv, NchShape, FreshFirst
      <3>3. j # k
        BY <1>1, <3>1, <3>2
      <3>4. CASE j < k
        BY <1>0, <1>2, <3>2, <3>4 DEF Listed
      <3>5. CASE j > k
        <4>1. j - 1 \in Listed(n') /\ n'[j - 1] = n[j]
          BY <1>0, <1>2, <3>2, <3>5 DEF Listed
        <4> QED
          BY <4>1, <3>2
      <3> QED
        BY <1>0, <3>3, <3>4, <3>5 DEF Listed
    <2> QED
      BY <2>1, <2>2 DEF FreshFirst
  <1> QED
    BY <1>3, <1>4, <1>5, <1>6, <1>7 DEF NchInv, NchShape

LEMMA NchReset ==
    ASSUME NchInv, bts_asci_notification_reset
    PROVE  NchInv'
  BY DEF NchInv, NchTypeOK, NchShape, Counted, Distinct, HeardLast, FreshFirst,
         bts_asci_notification_reset, Listed

LEMMA NchGenMsg ==
    ASSUME NchInv, bts_asci_notify_nch_gen_msg
    PROVE  NchInv'
  <1> DEFINE n == notifications
             last == notification_count >= notification_entries - 1
  <1>0. n \in Seq(Calls)
    BY DEF NchInv, NchTypeOK
  <1>1. PICK call \in Calls \cup {NoCall} :
          /\ bts_asci_notification_get_next(call)
          /\ nch' = [nln |-> IF last THEN nln ELSE -1, call |-> call]
          /\ notification_count' = IF notification_count + 1 >= notification_entries THEN 0
                                   ELSE notification_count + 1
          /\ heard' = IF last THEN {} ELSE heard \cup {call}
          /\ fresh' = fresh \ {call}
          /\ UNCHANGED <<notification_entries, nln>>
    BY DEF bts_asci_notify_nch_gen_msg
  <1>2. CASE n = <<>>
    <2>1. /\ n' = n /\ last /\ Len(n) = 0
      BY <1>0, <1>1, <1>2 DEF bts_asci_notification_get_next, NchInv, NchShape, Counted, NchTypeOK
    <2> QED
      BY <1>1, <1>2, <2>1 DEF NchInv, NchTypeOK, NchShape, Counted, Distinct, HeardLast,
                             FreshFirst, Listed
  <1>3. CASE n # <<>>
    <2>1. /\ n' \in Seq(Calls) /\ Len(n') = Len(n) /\ call = n[1] /\ call \in Calls
          /\ \A i \in Listed(n) : n'[i] = IF i = Len(n) THEN n[1] ELSE n[i + 1]
      <3>1. call = Head(n) /\ n' = Append(Tail(n), Head(n))
        BY <1>1, <1>3 DEF bts_asci_notification_get_next
      <3> QED
        BY <1>0, <1>3, <3>1, RotateProps DEF Listed
    <2>2. NchTypeOK'
      BY <1>1, <2>1 DEF NchInv, NchTypeOK
    <2>3. NchShape'
      <3>1. Counted'
        BY <1>0, <1>1, <2>1 DEF NchInv, NchTypeOK, NchShape, Counted
      <3>2. Distinct'
        BY <1>0, <2>1 DEF NchInv, NchShape, Distinct, Listed
      <3>0. /\ Len(n) \in Nat /\ Len(n) > 0 /\ 1 \in Listed(n)
            /\ Listed(n') = Listed(n) /\ n'[Len(n)] = n[1] /\ Len(n) \in Listed(n)
            /\ \A i \in Listed(n) : i # Len(n) => i + 1 \in Listed(n) /\ n'[i] = n[i + 1]
        BY <1>0, <1>3, <2>1 DEF Listed
      <3>a. \A i \in Listed(n) : i # Len(n) => n[i + 1] # call
        BY <3>0, <2>1 DEF NchInv, NchShape, Distinct, Listed
      <3>3. HeardLast'
        <4> SUFFICES ASSUME NEW i \in Listed(n)
                     PROVE  n'[i] \in heard' <=> i > Len(n) - notification_count'
          BY <3>0, <2>1 DEF HeardLast
        <4>1. CASE last
          BY <1>1, <3>0, <4>1 DEF NchInv, NchTypeOK, NchShape, Counted, Listed
        <4>2. CASE ~last /\ i = Len(n)
          BY <1>1, <2>1, <3>0, <4>2 DEF NchInv, NchTypeOK, NchShape, Counted, Listed
        <4>3. CASE ~last /\ i # Len(n)
          <5>1. n[i + 1] \in heard <=> i + 1 > Len(n) - notification_count
            BY <3>0, <4>3 DEF NchInv, NchShape, HeardLast
          <5>2. n'[i] \in heard' <=> n[i + 1] \in heard
            BY <1>1, <3>0, <3>a, <4>3
          <5>3. notification_count' = notification_count + 1 /\ notification_count \in Nat
            BY <1>1, <4>3 DEF NchInv, NchTypeOK, NchShape, Counted
          <5> QED
            BY <3>0, <5>1, <5>2, <5>3 DEF Listed
        <4> QED
          BY <4>1, <4>2, <4>3
      <3>4. \A i, j \in Listed(n') : i < j /\ n'[j] \in fresh' => n'[i] \in fresh'
        <4> SUFFICES ASSUME NEW i \in Listed(n), NEW j \in Listed(n), i < j, n'[j] \in fresh'
                     PROVE  n'[i] \in fresh'
          BY <3>0
        <4>1. i # Len(n) /\ j # Len(n)
          BY <1>1, <2>1, <3>0 DEF Listed
        <4>2. n[i + 1] \in fresh
          <5>1. n[j + 1] \in fresh /\ i + 1 < j + 1
            BY <1>1, <3>0, <4>1 DEF Listed
          <5>2. i + 1 \in Listed(n) /\ j + 1 \in Listed(n)
            BY <3>0, <4>1 DEF Listed
          <5> QED
            BY <5>1, <5>2 DEF NchInv, NchShape, FreshFirst
        <4> QED
          BY <1>1, <3>0, <3>a, <4>1, <4>2
      <3>5. \A c \in fresh' : \E i \in Listed(n') : n'[i] = c
        <4> SUFFICES ASSUME NEW c \in fresh' PROVE \E i \in Listed(n) : n'[i] = c
          BY <3>0
        <4>1. PICK j \in Listed(n) : n[j] = c
          BY <1>1 DEF NchInv, NchShape, FreshFirst
        <4>2. j # 1
          BY <1>1, <2>1, <4>1
        <4>3. j - 1 \in Listed(n) /\ j - 1 # Len(n) /\ (j - 1) + 1 = j
          BY <3>0, <4>2 DEF Listed
        <4> QED
          BY <3>0, <4>1, <4>3
      <3> QED
        BY <3>1, <3>2, <3>3, <3>4, <3>5 DEF NchShape, FreshFirst
    <2> QED
      BY <2>2, <2>3 DEF NchInv
  <1> QED
    BY <1>2, <1>3

\* The last of the calls not yet heard is announced with NLN, a new call first.
LEMMA NchAnnounces ==
    ASSUME NchInv, bts_asci_notify_nch_gen_msg
    PROVE  /\ nch'.nln >= 0 <=> Range(notifications) \subseteq heard \cup {nch'.call}
           /\ fresh # {} => nch'.call \in fresh
  <1> DEFINE n == notifications
             last == notification_count >= notification_entries - 1
  <1>0. n \in Seq(Calls) /\ nln \in 0 .. 3
    BY DEF NchInv, NchTypeOK
  <1>1. PICK call \in Calls \cup {NoCall} :
          /\ bts_asci_notification_get_next(call)
          /\ nch' = [nln |-> IF last THEN nln ELSE -1, call |-> call]
    BY DEF bts_asci_notify_nch_gen_msg
  <1>2. nch'.call = call /\ (nch'.nln >= 0 <=> last)
    BY <1>0, <1>1
  <1>3. CASE n = <<>>
    <2>1. last /\ Range(n) = {} /\ fresh = {}
      BY <1>3 DEF NchInv, NchTypeOK, NchShape, Counted, FreshFirst, Range, Listed
    <2> QED
      BY <1>2, <2>1
  <1>4. CASE n # <<>>
    <2>1. call = n[1] /\ 1 \in Listed(n)
      BY <1>0, <1>1, <1>4 DEF bts_asci_notification_get_next, Listed
    <2>2. last => \A i \in Listed(n) : n[i] \in heard \cup {call}
      BY <1>0, <2>1 DEF NchInv, NchTypeOK, NchShape, Counted, Distinct, HeardLast, FreshFirst,
                        Listed
    <2>3. ~last => n[2] \notin heard /\ n[2] # call /\ 2 \in Listed(n)
      BY <1>0, <2>1 DEF NchInv, NchTypeOK, NchShape, Counted, Distinct, HeardLast, FreshFirst,
                        Listed
    <2>4. Range(n) = {n[i] : i \in Listed(n)}
      BY <1>0 DEF Range, Listed
    <2>5. fresh # {} => call \in fresh
      BY <1>0, <2>1 DEF NchInv, NchTypeOK, NchShape, Counted, Distinct, HeardLast, FreshFirst,
                        Listed
    <2> QED
      BY <1>2, <2>2, <2>3, <2>4, <2>5
  <1> QED
    BY <1>3, <1>4

-----------------------------------------------------------------------------
(* The messages of one cell broadcast channel.                             *)

\* The state of a channel when n messages have been allocated so far.
MsgState(n) == [queue : Seq(1 .. n), cur : {0} \cup 1 .. n, def : {0} \cup 1 .. n]

Injective(q) == \A i, j \in 1 .. Len(q) : q[i] = q[j] => i = j

\* No message is queued twice, and none that is in transmission or the default.
Good(s, n) ==
    /\ s \in MsgState(n)
    /\ Injective(s.queue)
    /\ s.cur \notin Range(s.queue) /\ s.def \notin Range(s.queue)

\* What a queue holds, element by element.
LEMMA RangeSeq ==
    ASSUME NEW S, NEW q \in Seq(S)
    PROVE  /\ \A x : x \in Range(q) <=> \E i \in 1 .. Len(q) : q[i] = x
           /\ Range(q) \subseteq S
           /\ Len(q) \in Nat
  BY DEF Range

LEMMA AppendProps ==
    ASSUME NEW S, NEW q \in Seq(S), NEW x \in S, x \notin Range(q), Injective(q)
    PROVE  /\ Append(q, x) \in Seq(S) /\ Len(Append(q, x)) = Len(q) + 1
           /\ Injective(Append(q, x))
           /\ Range(Append(q, x)) = Range(q) \cup {x}
  <1> DEFINE r == Append(q, x)
  <1>1. /\ r \in Seq(S) /\ Len(r) = Len(q) + 1 /\ Len(q) \in Nat
        /\ \A i \in 1 .. Len(q) : r[i] = q[i] /\ q[i] # x
        /\ r[Len(q) + 1] = x
    BY DEF Range
  <1> HIDE DEF r
  <1>2. Injective(r)
    <2> SUFFICES ASSUME NEW i \in 1 .. Len(r), NEW j \in 1 .. Len(r), r[i] = r[j] PROVE i = j
      BY DEF Injective
    <2>1. i \in 1 .. Len(q) \/ i = Len(q) + 1
      BY <1>1
    <2>2. j \in 1 .. Len(q) \/ j = Len(q) + 1
      BY <1>1
    <2> QED
      BY <1>1, <2>1, <2>2 DEF Injective
  <1>3. \A y : y \in Range(r) <=> y \in Range(q) \/ y = x
    <2> TAKE y
    <2>1. y \in Range(r) <=> \E i \in 1 .. Len(r) : r[i] = y
      BY <1>1, RangeSeq
    <2>2. y \in Range(q) <=> \E i \in 1 .. Len(q) : q[i] = y
      BY RangeSeq
    <2>3. \A i : i \in 1 .. Len(r) <=> i \in 1 .. Len(q) \/ i = Len(q) + 1
      BY <1>1
    <2> QED
      BY <1>1, <2>1, <2>2, <2>3
  <1> QED
    BY <1>1, <1>2, <1>3 DEF r

LEMMA TailProps ==
    ASSUME NEW S, NEW q \in Seq(S), q # <<>>, Injective(q)
    PROVE  /\ Head(q) \in S /\ Tail(q) \in Seq(S) /\ Len(Tail(q)) = Len(q) - 1
           /\ Injective(Tail(q)) /\ Head(q) \notin Range(Tail(q))
           /\ Range(q) = Range(Tail(q)) \cup {Head(q)}
  <1> DEFINE r == Tail(q)
             h == Head(q)
  <1>1. /\ r \in Seq(S) /\ Len(r) = Len(q) - 1 /\ Len(q) \in Nat /\ Len(r) \in Nat
        /\ \A i \in 1 .. Len(r) : r[i] = q[i + 1]
        /\ h = q[1] /\ h \in S
    OBVIOUS
  <1> HIDE DEF r, h
  <1>2. Injective(r)
    BY <1>1 DEF Injective
  <1>3. h \notin Range(r)
    <2>1. \A i \in 1 .. Len(r) : r[i] # h
      BY <1>1 DEF Injective
    <2> QED
      BY <1>1, <2>1, RangeSeq
  <1>4. \A y : y \in Range(q) <=> y \in Range(r) \/ y = h
    <2> TAKE y
    <2>1. y \in Range(r) <=> \E i \in 1 .. Len(r) : r[i] = y
      BY <1>1, RangeSeq
    <2>2. y \in Range(q) <=> \E i \in 1 .. Len(q) : q[i] = y
      BY RangeSeq
    <2>3. \A i : i \in 1 .. Len(q) <=> i = 1 \/ (i \in Int /\ i - 1 \in 1 .. Len(r))
      BY <1>1
    <2>4. \A i \in 1 .. Len(q) : i # 1 => q[i] = r[i - 1]
      BY <1>1
    <2>5. \A i \in 1 .. Len(r) : i + 1 \in 1 .. Len(q)
      BY <1>1
    <2>6. ASSUME y \in Range(q), y # h PROVE y \in Range(r)
      <3>1. PICK i \in 1 .. Len(q) : q[i] = y
        BY <2>2, <2>6
      <3>2. i - 1 \in 1 .. Len(r) /\ r[i - 1] = y
        BY <1>1, <2>3, <2>4, <2>6, <3>1
      <3> QED
        BY <2>1, <3>2
    <2>7. y \in Range(r) => y \in Range(q)
      BY <1>1, <2>1, <2>2, <2>5
    <2>8. y = h => y \in Range(q)
      BY <1>1, <2>2, <2>3
    <2> QED
      BY <2>6, <2>7, <2>8
  <1> QED
    BY <1>1, <1>2, <1>3, <1>4 DEF r, h

\* A message that is new goes to the end of the queue.
LEMMA AppendGood ==
    ASSUME NEW n \in Nat, NEW s, Good(s, n)
    PROVE  LET t == [s EXCEPT !.queue = Append(@, n + 1)]
           IN  /\ Good(t, n + 1)
               /\ Pointers(t) = Pointers(s) \cup {n + 1}
               /\ t.cur = s.cur /\ t.def = s.def /\ t.queue = Append(s.queue, n + 1)
  <1> DEFINE q == Append(s.queue, n + 1)
             t == [s EXCEPT !.queue = q]
  <1>1. /\ s.queue \in Seq(1 .. n) /\ s.queue \in Seq(1 .. n + 1) /\ Injective(s.queue)
        /\ s \in MsgState(n)
        /\ s.cur \in {0} \cup 1 .. n /\ s.def \in {0} \cup 1 .. n
        /\ s.cur \notin Range(s.queue) /\ s.def \notin Range(s.queue)
    BY DEF Good, MsgState
  <1>2. n + 1 \notin Range(s.queue) /\ n + 1 \in 1 .. n + 1
    BY <1>1, RangeSeq
  <1>3. q \in Seq(1 .. n + 1) /\ Injective(q) /\ Range(q) = Range(s.queue) \cup {n + 1}
    BY <1>1, <1>2, AppendProps
  <1> HIDE DEF q
  <1>4. t.cur = s.cur /\ t.def = s.def /\ t.queue = q
    BY <1>1 DEF MsgState
  <1>4a. s.cur \in {0} \cup 1 .. n + 1 /\ s.def \in {0} \cup 1 .. n + 1
    BY <1>1
  <1>5. t \in MsgState(n + 1)
    BY <1>1, <1>3, <1>4a DEF MsgState
  <1> HIDE DEF t
  <1>6. s.cur # n + 1 /\ s.def # n + 1
    BY <1>1
  <1>7. Good(t, n + 1)
    BY <1>1, <1>3, <1>4, <1>5, <1>6 DEF Good
  <1>8. Pointers(t) = Pointers(s) \cup {n + 1}
    BY <1>3, <1>4 DEF Pointers
  <1> QED
    BY <1>4, <1>7, <1>8 DEF q, t

\* With more messages allocated the channel is still a good one.
LEMMA GrowGood ==
    ASSUME NEW n \in Nat, NEW s, Good(s, n)
    PROVE  Good(s, n + 1)
  <1>1. Seq(1 .. n) \subseteq Seq(1 .. n + 1) /\ 1 .. n \subseteq 1 .. n + 1
    OBVIOUS
  <1> QED
    BY <1>1 DEF Good, MsgState

\* A new default, after the message in transmission was given up if it was the old one.
LEMMA DefaultGood ==
    ASSUME NEW n \in Nat, NEW s, Good(s, n), NEW t \in MsgState(n),
           t.def = 0 \/ t.def \notin Pointers(s),
           t.cur = IF s.def # 0 /\ s.cur = s.def THEN 0 ELSE s.cur,
           t.queue = s.queue
    PROVE  /\ Good(t, n)
           /\ Pointers(t) = (Pointers(s) \ {s.def}) \cup ({t.def} \ {0})
  <1>1. /\ s.queue \in Seq(1 .. n) /\ s.cur \in {0} \cup 1 .. n /\ s.def \in {0} \cup 1 .. n
        /\ s.cur \notin Range(s.queue) /\ s.def \notin Range(s.queue)
    BY DEF Good, MsgState
  <1>2. 0 \notin Range(s.queue)
    BY <1>1, RangeSeq
  <1>3. Good(t, n)
    BY <1>1, <1>2 DEF Good, Pointers
  <1>4. Pointers(t) = (Pointers(s) \ {s.def}) \cup ({t.def} \ {0})
    BY <1>1, <1>2 DEF Pointers
  <1> QED
    BY <1>3, <1>4

\* select_next_smscb() gives up the message in transmission and drops nothing else.
LEMMA SelectGood ==
    ASSUME NEW n \in Nat, NEW s, Good(s, n)
    PROVE  LET t == select_next_smscb(s)
           IN  /\ Good(t, n) /\ t.def = s.def
               /\ Pointers(t) \subseteq Pointers(s)
               /\ Pointers(s) \subseteq Pointers(t) \cup {s.cur}
               /\ Len(t.queue) <= Len(s.queue)
  <1>1. /\ s.queue \in Seq(1 .. n) /\ s.cur \in {0} \cup 1 .. n /\ s.def \in {0} \cup 1 .. n
        /\ s.cur \notin Range(s.queue) /\ s.def \notin Range(s.queue)
        /\ Injective(s.queue) /\ s \in MsgState(n) /\ Len(s.queue) \in Nat
    BY DEF Good, MsgState
  <1>2. CASE s.queue = <<>>
    <2> DEFINE t == [s EXCEPT !.cur = s.def]
    <2>1. t.cur = s.def /\ t.def = s.def /\ t.queue = s.queue /\ t \in MsgState(n)
      BY <1>1 DEF MsgState
    <2>2. select_next_smscb(s) = t
      BY <1>2 DEF select_next_smscb
    <2> HIDE DEF t
    <2> QED
      BY <1>1, <2>1, <2>2 DEF Good, Pointers
  <1>3. CASE s.queue # <<>>
    <2> DEFINE h == Head(s.queue)
               q == Tail(s.queue)
               t == [s EXCEPT !.queue = q, !.cur = h]
    <2>1. /\ h \in 1 .. n /\ q \in Seq(1 .. n) /\ Len(q) = Len(s.queue) - 1
          /\ Injective(q) /\ h \notin Range(q) /\ Range(s.queue) = Range(q) \cup {h}
      BY <1>1, <1>3, TailProps
    <2>2. select_next_smscb(s) = t
      BY <1>3 DEF select_next_smscb
    <2> HIDE DEF h, q
    <2>3. t.cur = h /\ t.def = s.def /\ t.queue = q /\ t \in MsgState(n)
      BY <1>1, <2>1 DEF MsgState
    <2> HIDE DEF t
    <2>4. Good(t, n)
      BY <1>1, <2>1, <2>3 DEF Good
    <2>5. /\ Pointers(t) \subseteq Pointers(s)
          /\ Pointers(s) \subseteq Pointers(t) \cup {s.cur}
      BY <1>1, <2>1, <2>3 DEF Pointers
    <2>6. Len(t.queue) <= Len(s.queue)
      BY <1>1, <2>1, <2>3
    <2> QED
      BY <2>2, <2>3, <2>4, <2>5, <2>6
  <1> QED
    BY <1>2, <1>3

\* The message in transmission is done.
LEMMA DoneGood ==
    ASSUME NEW n \in Nat, NEW s, Good(s, n), s.cur # 0, s.cur # s.def
    PROVE  LET t == [s EXCEPT !.cur = 0]
           IN  /\ Good(t, n) /\ t.cur = 0 /\ t.def = s.def /\ t.queue = s.queue
               /\ Pointers(t) = Pointers(s) \ {s.cur}
  <1> DEFINE t == [s EXCEPT !.cur = 0]
  <1>1. t.cur = 0 /\ t.def = s.def /\ t.queue = s.queue /\ t \in MsgState(n)
    BY DEF MsgState, Good
  <1>2. 0 \notin Range(s.queue)
    BY RangeSeq DEF Good, MsgState
  <1> HIDE DEF t
  <1> QED
    BY <1>1, <1>2 DEF Good, Pointers, t

-----------------------------------------------------------------------------
(* Cell broadcast: the inductive invariant.                                *)

\* The number of the first block of a channel.
First(c) == IF c = "basic" THEN 0 ELSE 4

\* The types of the variables other than ss.
CbchTypes ==
    /\ segs \in Seq(1 .. 4) /\ Len(segs) <= MaxMsgs
    /\ live \subseteq Msgs
    /\ corrupt \in BOOLEAN
    /\ tb \in 0 .. 7
    /\ smscbCfg \in SmscbCfgs
    /\ told \in [Cbchs -> {"none", "under", "over", "retuned"}]
    /\ aired \in [Cbchs -> Seq(Msgs \X (0 .. 3))]
    /\ cut \subseteq Cbchs
    /\ skips \in 0 .. MaxSkips

\* The channels share no message.
Apart ==
    /\ ss \in [Cbchs -> MsgState(Len(segs))]
    /\ \A c \in Cbchs : Good(ss[c], Len(segs))
    /\ Pointers(ss["basic"]) \cap Pointers(ss["extended"]) = {}

\* What is pointed to is allocated, and only a skipped block makes a message leak.
Memory ==
    /\ corrupt = FALSE
    /\ \A c \in Cbchs : Pointers(ss[c]) \subseteq live
    /\ skips = 0 => live \subseteq Pointers(ss["basic"]) \cup Pointers(ss["extended"])

\* Unless blocks are skipped, a message that is not the default is in transmission only
\* within a period, and has blocks left.
InTime ==
    skips = 0 => \A c \in Cbchs : ss[c].cur \notin {0, ss[c].def} =>
                    /\ tb - First(c) \in 1 .. 3
                    /\ tb - First(c) < segs[ss[c].cur]

\* The blocks of a period are those of the message in transmission.
OfCurrent ==
    \A c \in Cbchs : \A i, j \in 1 .. Len(aired[c]) :
        /\ aired[c][i][1] = aired[c][j][1]
        /\ ss[c].cur # 0 => aired[c][i][1] = ss[c].cur

\* An uninterrupted period has all blocks so far, and transmission ends with the last.
Complete ==
    \A c \in Cbchs \ cut :
        /\ aired[c] = <<>> /\ tb - First(c) \in 1 .. 3 => ss[c].cur = 0
        /\ aired[c] # <<>> =>
              LET m == aired[c][1][1]
              IN  /\ Len(aired[c]) = IF Asked(c) < segs[m] THEN Asked(c) ELSE segs[m]
                  /\ \A i \in 1 .. Len(aired[c]) : aired[c][i] = <<m, i - 1>>
                  /\ ss[c].cur = 0 => Asked(c) >= segs[m]

\* A queue that is too long was announced.
LoadTold ==
    \A c \in Cbchs : Len(ss[c].queue) >= smscbCfg.tgt + smscbCfg.hyst =>
                        told[c] \in {"over", "retuned"}

CbchInv ==
    CbchTypes /\ Apart /\ Memory /\ InTime /\ OfCurrent /\ Complete /\ LoadTold

\* A step that changes channel c to t, frees D and allocates F, all of them messages of c.
LEMMA MemoryStep ==
    ASSUME Apart, Memory, NEW c \in Cbchs, NEW t, NEW D, NEW F,
           Len(segs) \in Nat, Len(segs') \in {Len(segs), Len(segs) + 1},
           Good(t, Len(segs')), ss' = [ss EXCEPT ![c] = t],
           live' = (live \ D) \cup F, corrupt' = FALSE,
           F \cap live = {}, F \subseteq Pointers(t), Pointers(t) \subseteq Pointers(ss[c]) \cup F,
           D \subseteq Pointers(ss[c]), D \cap Pointers(t) = {},
           skips' = 0 => skips = 0 /\ Pointers(ss[c]) \subseteq Pointers(t) \cup D
    PROVE  Apart' /\ Memory'
  <1>1. PICK d \in Cbchs : d # c
    BY DEF Cbchs
  <1>2. \A x : x \in Cbchs <=> x = c \/ x = d
    BY <1>1 DEF Cbchs
  <1>3. ss'[c] = t /\ ss'[d] = ss[d]
    BY <1>1 DEF Apart
  <1>4. Good(ss[d], Len(segs'))
    BY <1>1, GrowGood DEF Apart
  <1>5. \A x \in Cbchs : Good(ss'[x], Len(segs'))
    BY <1>2, <1>3, <1>4
  <1>6. ss' \in [Cbchs -> MsgState(Len(segs'))]
    <2>1. ss' = [x \in Cbchs |-> ss'[x]]
      BY DEF Apart
    <2> QED
      BY <1>5, <2>1 DEF Good
  <1> DEFINE P == Pointers(ss[c])
             Q == Pointers(ss[d])
             R == Pointers(t)
  <1>7. P \cap Q = {} /\ P \subseteq live /\ Q \subseteq live
    BY <1>1 DEF Apart, Memory, Cbchs
  <1>8. skips = 0 => live \subseteq P \cup Q
    BY <1>1 DEF Memory, Cbchs
  <1>9. R \cap Q = {} /\ R \subseteq live' /\ Q \subseteq live'
    BY <1>7
  <1>10. skips' = 0 => live' \subseteq R \cup Q
    BY <1>7, <1>8
  <1> HIDE DEF P, Q, R
  <1>11. Pointers(ss'[c]) = R /\ Pointers(ss'[d]) = Q
    BY <1>3 DEF R, Q
  <1>12. Pointers(ss'["basic"]) \cap Pointers(ss'["extended"]) = {}
    BY <1>1, <1>9, <1>11 DEF Cbchs
  <1>13. \A x \in Cbchs : Pointers(ss'[x]) \subseteq live'
    BY <1>2, <1>9, <1>11
  <1>14. skips' = 0 => live' \subseteq Pointers(ss'["basic"]) \cup Pointers(ss'["extended"])
    BY <1>1, <1>10, <1>11 DEF Cbchs
  <1> QED
    BY <1>5, <1>6, <1>12, <1>13, <1>14 DEF Apart, Memory

\* The facts about the types that the steps use.
LEMMA CbchFacts ==
    ASSUME CbchInv
    PROVE  /\ Len(segs) \in Nat /\ segs \in Seq(1 .. 4) /\ live \subseteq 1 .. Len(segs)
           /\ \A c \in Cbchs : /\ Good(ss[c], Len(segs)) /\ ss[c] \in MsgState(Len(segs))
                              /\ Pointers(ss[c]) \subseteq live
                              /\ ss[c].queue \in Seq(1 .. Len(segs))
                              /\ Len(ss[c].queue) \in Nat
           /\ smscbCfg.max \in Nat \ {0} /\ smscbCfg.tgt \in Nat \ {0} /\ smscbCfg.hyst \in Nat
  BY CbchAssumption DEF CbchInv, CbchTypes, Apart, Memory, Msgs, MsgState, Good

\* Allocating a message.
LEMMA AllocFacts ==
    ASSUME CbchInv, NEW lb \in LastBlocks, Alloc(lb)
    PROVE  /\ segs' \in Seq(1 .. 4) /\ Len(segs') = Len(segs) + 1 /\ Len(segs') <= MaxMsgs
           /\ \A m \in 1 .. Len(segs) : segs'[m] = segs[m]
  <1>1. last_block_rsl2um(lb) \in 1 .. 4
    BY CbchAssumption DEF last_block_rsl2um
  <1>2. segs \in Seq(1 .. 4) /\ Len(segs) \in Nat
    BY CbchFacts
  <1> QED
    BY <1>1, <1>2, CbchAssumption DEF Alloc

\* Types are kept when messages are allocated.
LEMMA AiredGrows ==
    ASSUME CbchInv, Len(segs') = Len(segs) + 1
    PROVE  aired \in [Cbchs -> Seq((1 .. Len(segs')) \X (0 .. 3))] /\ live \subseteq 1 .. Len(segs')
  <1>1. Len(segs) \in Nat /\ aired \in [Cbchs -> Seq((1 .. Len(segs)) \X (0 .. 3))]
    BY CbchFacts DEF CbchInv, CbchTypes, Msgs
  <1>2. (1 .. Len(segs)) \X (0 .. 3) \subseteq (1 .. Len(segs')) \X (0 .. 3)
    BY <1>1
  <1>3. Seq((1 .. Len(segs)) \X (0 .. 3)) \subseteq Seq((1 .. Len(segs')) \X (0 .. 3))
    BY <1>2
  <1> QED
    BY <1>1, <1>3, CbchFacts

\* A step that sends no block, and interrupts the period if it takes away the message.
LEMMA TransmissionKept ==
    ASSUME CbchInv, UNCHANGED <<tb, aired, skips>>, cut \subseteq cut',
           \A m \in 1 .. Len(segs) : segs'[m] = segs[m],
           \A c \in Cbchs :
              /\ ss'[c].cur = ss[c].cur \/ (ss'[c].cur = 0 /\ c \in cut')
              /\ ss'[c].cur \notin {0, ss'[c].def} => ss[c].cur \notin {0, ss[c].def}
    PROVE  InTime' /\ OfCurrent' /\ Complete'
  <1>1. \A c \in Cbchs : ss[c].cur # 0 => ss[c].cur \in 1 .. Len(segs)
    BY CbchFacts DEF MsgState
  <1>2. InTime'
    BY <1>1 DEF CbchInv, InTime
  <1>3. OfCurrent'
    BY DEF CbchInv, OfCurrent
  <1>4. Complete'
    <2> SUFFICES ASSUME NEW c \in Cbchs, c \notin cut'
                 PROVE  /\ aired[c] = <<>> /\ tb - First(c) \in 1 .. 3 => ss'[c].cur = 0
                        /\ aired[c] # <<>> =>
                              LET m == aired[c][1][1]
                              IN  /\ Len(aired[c]) = IF Asked(c) < segs'[m] THEN Asked(c)
                                                     ELSE segs'[m]
                                  /\ \A i \in 1 .. Len(aired[c]) : aired[c][i] = <<m, i - 1>>
                                  /\ ss'[c].cur = 0 => Asked(c) >= segs'[m]
      BY DEF Complete, Asked
    <2>1. c \notin cut /\ ss'[c].cur = ss[c].cur
      OBVIOUS
    <2>2. aired[c] # <<>> => aired[c][1][1] \in 1 .. Len(segs)
      <3>1. aired[c] \in Seq(Msgs \X (0 .. 3))
        BY DEF CbchInv, CbchTypes
      <3>2. aired[c] # <<>> => aired[c][1] \in Msgs \X (0 .. 3)
        BY <3>1
      <3> QED
        BY <3>2 DEF Msgs
    <2> QED
      BY <2>1, <2>2 DEF CbchInv, Complete
  <1> QED
    BY <1>2, <1>3, <1>4

\* A queue of the length that was looked at last is announced as it should be.
LEMMA LoadChecked ==
    ASSUME CbchInv, NEW c \in Cbchs, NEW len \in Nat, check_and_send_cbch_load(c, len),
           Len(ss'[c].queue) = len, UNCHANGED smscbCfg,
           \A d \in Cbchs : d # c => ss'[d] = ss[d]
    PROVE  LoadTold' /\ told' \in [Cbchs -> {"none", "under", "over", "retuned"}]
  <1>1. /\ smscbCfg.tgt \in Nat \ {0} /\ smscbCfg.hyst \in Nat
        /\ told \in [Cbchs -> {"none", "under", "over", "retuned"}]
    BY CbchFacts DEF CbchInv, CbchTypes
  <1> DEFINE w == CASE len - smscbCfg.tgt >= 0 /\ len - smscbCfg.tgt >= smscbCfg.hyst -> "over"
                    [] len - smscbCfg.tgt < 0 /\ -(len - smscbCfg.tgt) >= smscbCfg.hyst -> "under"
                    [] OTHER -> told[c]
  <1>2. told' = [told EXCEPT ![c] = w]
    BY DEF check_and_send_cbch_load
  <1>3. w \in {"none", "under", "over", "retuned"}
    BY <1>1
  <1>4. len >= smscbCfg.tgt + smscbCfg.hyst => w = "over"
    BY <1>1
  <1> HIDE DEF w
  <1>5. LoadTold'
    BY <1>1, <1>2, <1>4 DEF LoadTold, CbchInv
  <1> QED
    BY <1>1, <1>2, <1>3, <1>5

LEMMA CbchQueued ==
    ASSUME CbchInv, NEW c \in Cbchs, NEW lb \in LastBlocks, SmscbQueued(c, lb)
    PROVE  CbchInv'
  <1> DEFINE n == Len(segs)
             t == [ss[c] EXCEPT !.queue = Append(@, n + 1)]
  <1>1. /\ n \in Nat /\ Good(ss[c], n) /\ Len(ss[c].queue) \in Nat
        /\ Pointers(ss[c]) \subseteq live /\ live \subseteq 1 .. n
        /\ ss[c].queue \in Seq(1 .. n)
    BY CbchFacts
  <1>2. /\ segs' \in Seq(1 .. 4) /\ Len(segs') = n + 1 /\ Len(segs') <= MaxMsgs
        /\ \A m \in 1 .. n : segs'[m] = segs[m]
    BY AllocFacts DEF SmscbQueued
  <1>3. /\ Good(t, n + 1) /\ Pointers(t) = Pointers(ss[c]) \cup {n + 1}
        /\ t.cur = ss[c].cur /\ t.def = ss[c].def /\ t.queue = Append(ss[c].queue, n + 1)
    BY <1>1, AppendGood
  <1>4. ss' = [ss EXCEPT ![c] = t]
    BY <1>2 DEF SmscbQueued
  <1>4a. Len(t.queue) = Len(ss[c].queue) + 1
    BY <1>1, <1>3
  <1> HIDE DEF t
  <1>5. /\ ss'[c] = t /\ \A d \in Cbchs : d # c => ss'[d] = ss[d]
    BY <1>4 DEF CbchInv, Apart
  <1>6. n + 1 \notin live
    BY <1>1
  <1>7. Apart' /\ Memory'
    <2> DEFINE D == {}
               F == {n + 1}
    <2>1. live' = (live \ D) \cup F /\ corrupt' = FALSE /\ skips' = skips
      BY <1>2 DEF SmscbQueued, CbchInv, Memory
    <2>2. /\ F \cap live = {} /\ F \subseteq Pointers(t)
          /\ Pointers(t) \subseteq Pointers(ss[c]) \cup F
          /\ D \subseteq Pointers(ss[c]) /\ D \cap Pointers(t) = {}
          /\ Pointers(ss[c]) \subseteq Pointers(t) \cup D
      BY <1>3, <1>6
    <2>3. /\ Good(t, Len(segs')) /\ Apart /\ Memory
          /\ Len(segs) \in Nat /\ Len(segs') \in {Len(segs), Len(segs) + 1}
          /\ skips' = 0 => skips = 0 /\ Pointers(ss[c]) \subseteq Pointers(t) \cup D
      BY <1>1, <1>2, <1>3, <2>1, <2>2 DEF CbchInv
    <2> HIDE DEF D, F
    <2> QED
      BY <1>4, <2>1, <2>2, <2>3, MemoryStep, Zenon
  <1>8. InTime' /\ OfCurrent' /\ Complete'
    <2>1. \A d \in Cbchs : ss'[d].cur = ss[d].cur /\ ss'[d].def = ss[d].def
      BY <1>3, <1>5
    <2> QED
      BY <1>2, <2>1, TransmissionKept DEF SmscbQueued
  <1>9. LoadTold' /\ told' \in [Cbchs -> {"none", "under", "over", "retuned"}]
    BY <1>1, <1>4a, <1>5, LoadChecked DEF SmscbQueued
  <1>10. CbchTypes'
    <2>1. live' \subseteq 1 .. n + 1
      BY <1>1, <1>2 DEF SmscbQueued
    <2>2. aired' \in [Cbchs -> Seq((1 .. Len(segs')) \X (0 .. 3))]
      BY <1>2, AiredGrows DEF SmscbQueued
    <2> QED
      BY <1>2, <1>9, <2>1, <2>2 DEF SmscbQueued, CbchInv, CbchTypes, Msgs
  <1> QED
    BY <1>7, <1>8, <1>9, <1>10 DEF CbchInv

LEMMA CbchOverflow ==
    ASSUME CbchInv, NEW c \in Cbchs, NEW lb \in LastBlocks, SmscbOverflow(c, lb)
    PROVE  CbchInv'
  <1>1. /\ segs' \in Seq(1 .. 4) /\ Len(segs') = Len(segs) + 1 /\ Len(segs') <= MaxMsgs
        /\ \A m \in 1 .. Len(segs) : segs'[m] = segs[m]
    BY AllocFacts DEF SmscbOverflow
  <1>2. Len(segs) \in Nat /\ ss \in [Cbchs -> MsgState(Len(segs))]
    BY CbchFacts DEF CbchInv, Apart
  <1>3. \A d \in Cbchs : Good(ss[d], Len(segs'))
    BY <1>1, <1>2, CbchFacts, GrowGood
  <1>4. Apart'
    <2>1. ss \in [Cbchs -> MsgState(Len(segs'))]
      BY <1>2, <1>3 DEF Good
    <2> QED
      BY <1>3, <2>1 DEF CbchInv, Apart, SmscbOverflow
  <1>5. Memory' /\ LoadTold'
    BY DEF CbchInv, Memory, LoadTold, SmscbOverflow
  <1>6. InTime' /\ OfCurrent' /\ Complete'
    BY <1>1, TransmissionKept DEF SmscbOverflow
  <1>7. CbchTypes'
    BY <1>1, AiredGrows DEF SmscbOverflow, CbchInv, CbchTypes, Msgs
  <1> QED
    BY <1>4, <1>5, <1>6, <1>7 DEF CbchInv

LEMMA CbchNewDefault ==
    ASSUME CbchInv, NEW c \in Cbchs, NEW m, NewDefault(c, m),
           UNCHANGED <<tb, smscbCfg, told, aired, skips>>,
           segs' \in Seq(1 .. 4), Len(segs') <= MaxMsgs,
           \A k \in 1 .. Len(segs) : segs'[k] = segs[k],
           \/ m = 0 /\ segs' = segs
           \/ m = Len(segs') /\ Len(segs') = Len(segs) + 1
    PROVE  CbchInv'
  <1> DEFINE n == Len(segs)
             s == ss[c]
             cur == IF s.def # 0 /\ s.cur = s.def THEN 0 ELSE s.cur
             t == [s EXCEPT !.def = m, !.cur = cur]
  <1>1. /\ n \in Nat /\ Good(s, n) /\ Len(s.queue) \in Nat
        /\ Pointers(s) \subseteq live /\ live \subseteq 1 .. n
        /\ s \in MsgState(n)
    BY CbchFacts
  <1>2. /\ Len(segs') \in Nat /\ Len(segs') \in {n, n + 1}
        /\ m = 0 \/ (m \in 1 .. Len(segs') /\ m \notin live)
    BY <1>1
  <1>3. Good(s, Len(segs'))
    BY <1>1, <1>2, GrowGood
  <1>4. ss' = [ss EXCEPT ![c] = t]
    BY DEF NewDefault
  <1>4a. t = [s EXCEPT !.def = m, !.cur = cur]
    OBVIOUS
  <1> HIDE DEF s, cur, t
  <1>5. /\ Good(t, Len(segs')) /\ Pointers(t) = (Pointers(s) \ {s.def}) \cup ({m} \ {0})
        /\ t.cur = cur /\ t.def = m /\ t.queue = s.queue
    <2>1. m \in {0} \cup 1 .. Len(segs') /\ (m = 0 \/ m \notin Pointers(s))
      BY <1>1, <1>2
    <2>2. s \in MsgState(Len(segs'))
      BY <1>3 DEF Good
    <2>3. cur \in {0} \cup 1 .. Len(segs')
      BY <2>2 DEF cur, MsgState
    <2>4. t.cur = cur /\ t.def = m /\ t.queue = s.queue /\ t \in MsgState(Len(segs'))
      BY <1>4a, <2>1, <2>2, <2>3 DEF MsgState
    <2> QED
      BY <1>2, <1>3, <2>1, <2>4, DefaultGood DEF cur
  <1>6. ss'[c] = t /\ \A d \in Cbchs : d # c => ss'[d] = ss[d]
    BY <1>4 DEF CbchInv, Apart
  <1>7. s.def # 0 => s.def \in Pointers(s)
    BY DEF Pointers
  <1>8. Apart' /\ Memory'
    <2> DEFINE D == {s.def} \ {0}
               F == {m} \ {0}
    <2>1. live' = (live \ D) \cup F /\ corrupt' = FALSE /\ skips' = skips
      <3>1. live' = (live \ {s.def}) \cup F
        BY DEF NewDefault, s
      <3>2. 0 \notin live
        BY <1>1
      <3>3. corrupt' = (corrupt \/ (s.def # 0 /\ s.def \notin live)) /\ corrupt = FALSE
        BY DEF NewDefault, CbchInv, Memory, s
      <3>4. s.def # 0 => s.def \in live
        BY <1>1, <1>7
      <3> QED
        BY <3>1, <3>2, <3>3, <3>4
    <2>2. /\ F \cap live = {} /\ F \subseteq Pointers(t)
          /\ Pointers(t) \subseteq Pointers(s) \cup F
          /\ D \subseteq Pointers(s) /\ D \cap Pointers(t) = {}
          /\ Pointers(s) \subseteq Pointers(t) \cup D
      <3>1. 0 \notin live /\ 0 \notin Pointers(s)
        BY <1>1
      <3> QED
        BY <1>1, <1>2, <1>5, <1>7, <3>1
    <2>3. /\ Good(t, Len(segs')) /\ Apart /\ Memory
          /\ Len(segs) \in Nat /\ Len(segs') \in {Len(segs), Len(segs) + 1}
          /\ skips' = 0 => skips = 0 /\ Pointers(s) \subseteq Pointers(t) \cup D
      BY <1>1, <1>2, <1>5, <2>1, <2>2 DEF CbchInv
    <2> HIDE DEF D, F
    <2> QED
      BY <1>4, <2>1, <2>2, <2>3, MemoryStep, Zenon DEF s
  <1>9. InTime' /\ OfCurrent' /\ Complete'
    <2>1. cut \subseteq cut' /\ (s.def # 0 /\ s.cur = s.def => c \in cut')
      BY DEF NewDefault, s
    <2>2. \A d \in Cbchs :
            /\ ss'[d].cur = ss[d].cur \/ (ss'[d].cur = 0 /\ d \in cut')
            /\ ss'[d].cur \notin {0, ss'[d].def} => ss[d].cur \notin {0, ss[d].def}
      <3>1. /\ t.cur = s.cur \/ (t.cur = 0 /\ c \in cut')
            /\ t.cur \notin {0, t.def} => s.cur \notin {0, s.def}
        BY <1>5, <2>1 DEF cur
      <3> QED
        BY <1>6, <3>1 DEF s
    <2> QED
      BY <2>1, <2>2, TransmissionKept
  <1>10. LoadTold'
    BY <1>5, <1>6 DEF CbchInv, LoadTold, s
  <1>11. CbchTypes'
    <2>1. live' \subseteq 1 .. Len(segs')
      BY <1>1, <1>2 DEF NewDefault
    <2>2. aired' \in [Cbchs -> Seq((1 .. Len(segs')) \X (0 .. 3))]
      BY <1>2, AiredGrows DEF CbchInv, CbchTypes, Msgs
    <2>3. corrupt' = FALSE /\ cut' \subseteq Cbchs
      BY <1>8 DEF Memory, NewDefault, CbchInv, CbchTypes
    <2> QED
      BY <2>1, <2>2, <2>3 DEF CbchInv, CbchTypes, Msgs
  <1> QED
    BY <1>8, <1>9, <1>10, <1>11 DEF CbchInv

LEMMA CbchDefault ==
    ASSUME CbchInv, NEW c \in Cbchs, NEW lb \in LastBlocks, SmscbDefault(c, lb)
    PROVE  CbchInv'
  <1>1. CASE Alloc(lb) /\ NewDefault(c, Len(segs'))
    BY <1>1, AllocFacts, CbchNewDefault DEF SmscbDefault
  <1>2. CASE NewDefault(c, 0) /\ UNCHANGED segs
    BY <1>2, CbchNewDefault DEF SmscbDefault, CbchInv, CbchTypes
  <1> QED
    BY <1>1, <1>2 DEF SmscbDefault

LEMMA CbchVty ==
    ASSUME CbchInv, VtySmscb
    PROVE  CbchInv'
  <1>1. InTime' /\ OfCurrent' /\ Complete'
    BY TransmissionKept DEF VtySmscb
  <1>2. Apart' /\ Memory' /\ LoadTold' /\ CbchTypes'
    BY DEF VtySmscb, CbchInv, Apart, Memory, LoadTold, CbchTypes, Msgs
  <1> QED
    BY <1>1, <1>2 DEF CbchInv

-----------------------------------------------------------------------------
(* Cell broadcast: the blocks.                                             *)

\* Block n of channel c comes next; the other channel is between two periods.
LEMMA TbFacts ==
    ASSUME tb \in 0 .. 7, tb' = (tb + 1) % 8, NEW c, c = bts_smscb_state(tb), NEW n, n = tb % 4
    PROVE  /\ c \in Cbchs /\ n \in 0 .. 3 /\ tb' \in 0 .. 7
           /\ tb - First(c) = n
           /\ tb' - First(c) \in 1 .. 3 <=> n < 3
           /\ n < 3 => tb' - First(c) = n + 1
           /\ Asked(c)' = n + 1
           /\ n > 0 => Asked(c) = n
           /\ \A d \in Cbchs : d # c => /\ Asked(d) = 4 /\ Asked(d)' = 4
                                       /\ tb - First(d) \notin 1 .. 3
                                       /\ tb' - First(d) \notin 1 .. 3
  <1>1. CASE tb < 4
    BY <1>1 DEF bts_smscb_state, First, Asked, Cbchs
  <1>2. CASE tb >= 4
    BY <1>2 DEF bts_smscb_state, First, Asked, Cbchs
  <1> QED
    BY <1>1, <1>2

\* The blocks a of a period so far belong to one message, that in transmission if any.
BlocksOf(a, cur) ==
    \A i, j \in 1 .. Len(a) : a[i][1] = a[j][1] /\ (cur # 0 => a[i][1] = cur)

\* They are all of its blocks, when n have been asked for.
AllBlocks(a, cur, n, sg) ==
    /\ a = <<>> => cur = 0
    /\ a # <<>> => LET m == a[1][1]
                   IN  /\ Len(a) = IF n < sg[m] THEN n ELSE sg[m]
                       /\ \A i \in 1 .. Len(a) : a[i] = <<m, i - 1>>
                       /\ cur = 0 => n >= sg[m]

\* Block n, if there is one to send.
WithBlock(a, cur, n, sg) == a \o (IF cur # 0 /\ n < sg[cur] THEN <<<<cur, n>>>> ELSE <<>>)

\* The next block keeps this so.
LEMMA NextBlock ==
    ASSUME NEW N \in Nat, NEW sg \in Seq(1 .. 4), Len(sg) = N, NEW cur \in {0} \cup 1 .. N,
           NEW n \in 0 .. 3, NEW a \in Seq((1 .. N) \X (0 .. 3)), NEW b, NEW cur2,
           BlocksOf(a, cur), n = 0 => a = <<>>,
           b = WithBlock(a, cur, n, sg),
           cur2 = cur \/ (cur2 = 0 /\ cur # 0 /\ n + 1 = sg[cur])
    PROVE  /\ b \in Seq((1 .. N) \X (0 .. 3))
           /\ BlocksOf(b, cur2)
           /\ n = 0 \/ AllBlocks(a, cur, n, sg) => AllBlocks(b, cur2, n + 1, sg)
  <1>0. cur # 0 => sg[cur] \in 1 .. 4
    OBVIOUS
  <1>1. CASE cur # 0 /\ n < sg[cur]
    <2>1. b = Append(a, <<cur, n>>) /\ <<cur, n>> \in (1 .. N) \X (0 .. 3)
      BY <1>1 DEF WithBlock
    <2>2. /\ b \in Seq((1 .. N) \X (0 .. 3)) /\ Len(b) = Len(a) + 1 /\ Len(a) \in Nat
          /\ \A i \in 1 .. Len(a) : b[i] = a[i]
          /\ b[Len(a) + 1] = <<cur, n>>
      <3> DEFINE x == <<cur, n>>
                 X == (1 .. N) \X (0 .. 3)
      <3>1. b = Append(a, x) /\ x \in X /\ a \in Seq(X)
        BY <2>1
      <3> HIDE DEF x, X
      <3>2. /\ b \in Seq(X) /\ Len(b) = Len(a) + 1 /\ Len(a) \in Nat
            /\ \A i \in 1 .. Len(a) : b[i] = a[i]
            /\ b[Len(a) + 1] = x
        BY <3>1, AppendProperties
      <3> QED
        BY <3>2 DEF x, X
    <2>3. \A i \in 1 .. Len(b) : b[i][1] = cur
      <3> SUFFICES ASSUME NEW i \in 1 .. Len(b) PROVE b[i][1] = cur
        OBVIOUS
      <3>1. CASE i = Len(a) + 1
        BY <2>2, <3>1
      <3>2. CASE i # Len(a) + 1
        <4>1. i \in 1 .. Len(a) /\ b[i] = a[i]
          BY <2>2, <3>2
        <4> QED
          BY <1>1, <4>1 DEF BlocksOf
      <3> QED
        BY <3>1, <3>2
    <2>4. BlocksOf(b, cur2)
      BY <2>3 DEF BlocksOf
    <2>5. ASSUME n = 0 \/ AllBlocks(a, cur, n, sg) PROVE AllBlocks(b, cur2, n + 1, sg)
      <3>1. b # <<>> /\ b[1][1] = cur
        BY <2>2, <2>3
      <3>2. Len(a) = n
        <4>1. CASE n = 0
          BY <4>1
        <4>2. CASE n # 0
          <5>1. a # <<>> /\ AllBlocks(a, cur, n, sg)
            BY <1>1, <2>5, <4>2 DEF AllBlocks
          <5>2. 1 \in 1 .. Len(a)
            BY <5>1
          <5>3. a[1][1] = cur
            BY <1>1, <5>2 DEF BlocksOf
          <5> QED
            BY <1>1, <5>1, <5>3 DEF AllBlocks
        <4> QED
          BY <4>1, <4>2
      <3>3. \A i \in 1 .. Len(a) : a[i] = <<cur, i - 1>>
        <4>1. CASE n = 0
          BY <2>2, <3>2, <4>1
        <4>2. CASE n # 0
          <5>1. a # <<>> /\ AllBlocks(a, cur, n, sg)
            BY <1>1, <2>5, <4>2 DEF AllBlocks
          <5>2. 1 \in 1 .. Len(a)
            BY <5>1
          <5>3. a[1][1] = cur
            BY <1>1, <5>2 DEF BlocksOf
          <5> QED
            BY <5>1, <5>3 DEF AllBlocks
        <4> QED
          BY <4>1, <4>2
      <3>4. \A i \in 1 .. Len(b) : b[i] = <<cur, i - 1>>
        <4> SUFFICES ASSUME NEW i \in 1 .. Len(b) PROVE b[i] = <<cur, i - 1>>
          OBVIOUS
        <4>1. CASE i = Len(a) + 1
          <5>1. i - 1 = n
            BY <3>2, <4>1
          <5> QED
            BY <2>2, <4>1, <5>1
        <4>2. CASE i # Len(a) + 1
          <5>1. i \in 1 .. Len(a) /\ b[i] = a[i]
            BY <2>2, <4>2
          <5> QED
            BY <3>3, <5>1
        <4> QED
          BY <4>1, <4>2
      <3>5. /\ Len(b) = IF n + 1 < sg[cur] THEN n + 1 ELSE sg[cur]
            /\ cur2 = 0 => n + 1 >= sg[cur]
        BY <1>0, <1>1, <2>2, <3>2
      <3> QED
        BY <3>1, <3>4, <3>5 DEF AllBlocks
    <2> QED
      BY <2>2, <2>4, <2>5
  <1>2. CASE ~(cur # 0 /\ n < sg[cur])
    <2>1. b = a
      BY <1>2 DEF WithBlock
    <2>2. cur2 = cur
      BY <1>0, <1>2
    <2>3. ASSUME n = 0 \/ AllBlocks(a, cur, n, sg) PROVE AllBlocks(a, cur, n + 1, sg)
      <3>1. CASE n = 0
        BY <1>0, <1>2, <3>1 DEF AllBlocks
      <3>2. CASE n # 0 /\ a = <<>>
        BY <2>3, <3>2 DEF AllBlocks
      <3>3. CASE n # 0 /\ a # <<>>
        <4> DEFINE m == a[1][1]
        <4>1. /\ AllBlocks(a, cur, n, sg) /\ 1 \in 1 .. Len(a) /\ a[1] \in (1 .. N) \X (0 .. 3)
          BY <2>3, <3>3
        <4>2. m \in 1 .. N /\ sg[m] \in 1 .. 4
          BY <4>1
        <4>3. cur # 0 => m = cur
          BY <4>1 DEF BlocksOf
        <4> HIDE DEF m
        <4>4. n >= sg[m]
          <5>1. CASE cur = 0
            BY <3>3, <4>1, <5>1 DEF AllBlocks, m
          <5>2. CASE cur # 0
            BY <1>2, <4>2, <4>3, <5>2
          <5> QED
            BY <5>1, <5>2
        <4> QED
          BY <3>3, <4>1, <4>2, <4>4 DEF AllBlocks, m
      <3> QED
        BY <3>1, <3>2, <3>3
    <2> QED
      BY <2>1, <2>2, <2>3
  <1> QED
    BY <1>1, <1>2

\* The parts of the invariant, channel by channel.
LEMMA BlockParts ==
    ASSUME tb \in 0 .. 7
    PROVE  /\ OfCurrent <=> \A c \in Cbchs : BlocksOf(aired[c], ss[c].cur)
           /\ \A c \in Cbchs \ cut : tb - First(c) \in 1 .. 3 /\ Complete =>
                                     AllBlocks(aired[c], ss[c].cur, Asked(c), segs)
  <1>1. OfCurrent <=> \A c \in Cbchs : BlocksOf(aired[c], ss[c].cur)
    BY DEF OfCurrent, BlocksOf
  <1>2. ASSUME NEW c \in Cbchs \ cut, tb - First(c) \in 1 .. 3, Complete
        PROVE  AllBlocks(aired[c], ss[c].cur, Asked(c), segs)
    BY <1>2 DEF Complete, AllBlocks
  <1> QED
    BY <1>1, <1>2

\* Channel d is left alone by a step at which the other one has its block.
LEMMA OtherChannel ==
    ASSUME CbchInv, NEW d \in Cbchs, Asked(d) = 4, Asked(d)' = 4,
           tb - First(d) \notin 1 .. 3, tb' - First(d) \notin 1 .. 3,
           aired'[d] = aired[d], ss'[d] = ss[d], segs' = segs, d \notin cut
    PROVE  /\ aired'[d] = <<>> /\ tb' - First(d) \in 1 .. 3 => ss'[d].cur = 0
           /\ aired'[d] # <<>> =>
                 LET m == aired'[d][1][1]
                 IN  /\ Len(aired'[d]) = IF Asked(d)' < segs'[m] THEN Asked(d)' ELSE segs'[m]
                     /\ \A i \in 1 .. Len(aired'[d]) : aired'[d][i] = <<m, i - 1>>
                     /\ ss'[d].cur = 0 => Asked(d)' >= segs'[m]
  BY DEF CbchInv, Complete

LEMMA CbchSkip ==
    ASSUME CbchInv, SkipBlock
    PROVE  CbchInv'
  <1> DEFINE c == bts_smscb_state(tb)
             n == tb % 4
  <1>1. tb \in 0 .. 7 /\ tb' = (tb + 1) % 8
    BY DEF SkipBlock, CbchInv, CbchTypes
  <1>2. /\ c \in Cbchs /\ tb' \in 0 .. 7
        /\ \A d \in Cbchs : d # c => /\ Asked(d) = 4 /\ Asked(d)' = 4
                                    /\ tb - First(d) \notin 1 .. 3 /\ tb' - First(d) \notin 1 .. 3
    BY <1>1, TbFacts
  <1>3. /\ cut' = cut \cup {c} /\ skips' \in 0 .. MaxSkips /\ skips' # 0
        /\ aired' = IF tb % 4 = 0 THEN [aired EXCEPT ![c] = <<>>] ELSE aired
        /\ UNCHANGED <<ss, segs, live, corrupt, smscbCfg, told>>
    BY CbchAssumption DEF SkipBlock, CbchInv, CbchTypes
  <1> HIDE DEF c
  <1>4. /\ aired' \in [Cbchs -> Seq(Msgs \X (0 .. 3))]
        /\ \A d \in Cbchs : aired'[d] = <<>> \/ aired'[d] = aired[d]
        /\ \A d \in Cbchs : d # c => aired'[d] = aired[d]
    BY <1>2, <1>3 DEF CbchInv, CbchTypes
  <1>5. CbchTypes'
    BY <1>2, <1>3, <1>4 DEF CbchInv, CbchTypes, Msgs
  <1>6. Apart' /\ Memory' /\ InTime' /\ LoadTold'
    BY <1>3 DEF CbchInv, Apart, Memory, InTime, LoadTold
  <1>7. OfCurrent'
    <2>1. \A d \in Cbchs : aired'[d] = <<>> => Len(aired'[d]) = 0
      OBVIOUS
    <2> QED
      BY <1>3, <1>4, <2>1 DEF CbchInv, OfCurrent
  <1>8. Complete'
    <2> SUFFICES ASSUME NEW d \in Cbchs, d \notin cut'
                 PROVE  /\ aired'[d] = <<>> /\ tb' - First(d) \in 1 .. 3 => ss'[d].cur = 0
                        /\ aired'[d] # <<>> =>
                              LET m == aired'[d][1][1]
                              IN  /\ Len(aired'[d]) = IF Asked(d)' < segs'[m] THEN Asked(d)'
                                                      ELSE segs'[m]
                                  /\ \A i \in 1 .. Len(aired'[d]) : aired'[d][i] = <<m, i - 1>>
                                  /\ ss'[d].cur = 0 => Asked(d)' >= segs'[m]
      BY DEF Complete
    <2>1. d # c /\ d \notin cut
      BY <1>3
    <2> QED
      BY <1>2, <1>3, <1>4, <2>1, OtherChannel
  <1> QED
    BY <1>5, <1>6, <1>7, <1>8 DEF CbchInv

\* Two lists without a message in common, one after the other.
LEMMA ConcatInjective ==
    ASSUME NEW S, NEW p \in Seq(S), NEW q \in Seq(S), Injective(p), Injective(q),
           Range(p) \cap Range(q) = {}
    PROVE  /\ p \o q \in Seq(S) /\ Injective(p \o q)
           /\ Range(p \o q) = Range(p) \cup Range(q)
  <1> DEFINE r == p \o q
  <1>1. /\ r \in Seq(S) /\ Len(r) = Len(p) + Len(q) /\ Len(p) \in Nat /\ Len(q) \in Nat
        /\ \A i \in 1 .. Len(p) + Len(q) : r[i] = IF i <= Len(p) THEN p[i] ELSE q[i - Len(p)]
    BY ConcatProperties
  <1> HIDE DEF r
  <1>1a. r \in Seq(S)
    BY <1>1
  <1> DEFINE Left(i) == i \in 1 .. Len(p) /\ r[i] = p[i] /\ r[i] \in Range(p)
             Right(i) == i - Len(p) \in 1 .. Len(q) /\ r[i] = q[i - Len(p)] /\ r[i] \in Range(q)
  <1>2. ASSUME NEW i \in 1 .. Len(r) PROVE Left(i) \/ Right(i)
    <2>1. CASE i <= Len(p)
      <3>1. i \in 1 .. Len(p) /\ r[i] = p[i]
        BY <1>1, <2>1
      <3> QED
        BY <3>1, RangeSeq
    <2>2. CASE i > Len(p)
      <3>1. i - Len(p) \in 1 .. Len(q) /\ r[i] = q[i - Len(p)]
        BY <1>1, <2>2
      <3> QED
        BY <3>1, RangeSeq
    <2> QED
      BY <1>1, <2>1, <2>2
  <1>3. Injective(r)
    <2> SUFFICES ASSUME NEW i \in 1 .. Len(r), NEW j \in 1 .. Len(r), r[i] = r[j] PROVE i = j
      BY DEF Injective
    <2>1. CASE Left(i)
      <3>1. j \in 1 .. Len(p) /\ r[j] = p[j]
        BY <1>2, <2>1
      <3> QED
        BY <2>1, <3>1 DEF Injective
    <2>2. CASE Right(i)
      <3>1. j - Len(p) \in 1 .. Len(q) /\ r[j] = q[j - Len(p)]
        BY <1>2, <2>2
      <3>2. i - Len(p) = j - Len(p)
        BY <2>2, <3>1 DEF Injective
      <3> QED
        BY <1>1, <3>2
    <2> QED
      BY <1>2, <2>1, <2>2
  <1>4. \A x : x \in Range(r) <=> x \in Range(p) \/ x \in Range(q)
    <2> TAKE x
    <2>1. x \in Range(r) <=> \E i \in 1 .. Len(r) : r[i] = x
      BY <1>1a, RangeSeq
    <2>2. x \in Range(r) => x \in Range(p) \/ x \in Range(q)
      BY <1>2, <2>1
    <2>3. ASSUME x \in Range(p) PROVE x \in Range(r)
      <3>1. PICK i \in 1 .. Len(p) : p[i] = x
        BY <2>3, RangeSeq
      <3>2. i \in 1 .. Len(r) /\ r[i] = x
        BY <1>1, <3>1
      <3> QED
        BY <2>1, <3>2
    <2>4. ASSUME x \in Range(q) PROVE x \in Range(r)
      <3>1. PICK i \in 1 .. Len(q) : q[i] = x
        BY <2>4, RangeSeq
      <3>2. /\ Len(p) + i \in 1 .. Len(p) + Len(q) /\ ~(Len(p) + i <= Len(p))
            /\ (Len(p) + i) - Len(p) = i
        BY <1>1
      <3>3. r[Len(p) + i] = q[(Len(p) + i) - Len(p)]
        BY <1>1, <3>2
      <3>4. Len(p) + i \in 1 .. Len(r) /\ r[Len(p) + i] = x
        BY <1>1, <3>1, <3>2, <3>3
      <3> QED
        BY <2>1, <3>4
    <2> QED
      BY <2>2, <2>3, <2>4
  <1> QED
    BY <1>1, <1>3, <1>4 DEF r

\* bts_smscb_state_reset() frees what the channel points to, each message once.
LEMMA ResetList ==
    ASSUME NEW n \in Nat, NEW s, Good(s, n)
    PROVE  LET l == bts_smscb_state_reset(s)
           IN  l \in Seq(1 .. n) /\ Injective(l) /\ Range(l) = Pointers(s)
  <1> DEFINE a == IF s.cur # s.def THEN Pointer(s.cur) ELSE <<>>
             b == Pointer(s.def)
  <1>1. /\ s.queue \in Seq(1 .. n) /\ s.cur \in {0} \cup 1 .. n /\ s.def \in {0} \cup 1 .. n
        /\ s.cur \notin Range(s.queue) /\ s.def \notin Range(s.queue) /\ Injective(s.queue)
    BY DEF Good, MsgState
  <1>2. ASSUME NEW m \in {0} \cup 1 .. n
        PROVE  Pointer(m) \in Seq(1 .. n) /\ Injective(Pointer(m)) /\ Range(Pointer(m)) = {m} \ {0}
    <2>1. CASE m = 0
      BY <2>1 DEF Pointer, Injective, Range
    <2>2. CASE m # 0
      <3>1. Pointer(m) = <<m>> /\ m \in 1 .. n
        BY <2>2 DEF Pointer
      <3> QED
        BY <2>2, <3>1 DEF Injective, Range
    <2> QED
      BY <2>1, <2>2
  <1>3. /\ a \in Seq(1 .. n) /\ Injective(a)
        /\ Range(a) = IF s.cur # s.def THEN {s.cur} \ {0} ELSE {}
    <2>1. CASE s.cur # s.def
      BY <1>1, <1>2, <2>1
    <2>2. CASE s.cur = s.def
      BY <2>2 DEF Injective, Range
    <2> QED
      BY <2>1, <2>2
  <1>4. b \in Seq(1 .. n) /\ Injective(b) /\ Range(b) = {s.def} \ {0}
    BY <1>1, <1>2
  <1>5. bts_smscb_state_reset(s) = (s.queue \o a) \o b
    BY DEF bts_smscb_state_reset
  <1> HIDE DEF a, b
  <1>6. Range(s.queue) \cap Range(a) = {}
    BY <1>1, <1>3
  <1>7. /\ s.queue \o a \in Seq(1 .. n) /\ Injective(s.queue \o a)
        /\ Range(s.queue \o a) = Range(s.queue) \cup Range(a)
    BY <1>1, <1>3, <1>6, ConcatInjective
  <1>8. Range(s.queue \o a) \cap Range(b) = {}
    BY <1>1, <1>3, <1>4, <1>7
  <1>9. /\ (s.queue \o a) \o b \in Seq(1 .. n) /\ Injective((s.queue \o a) \o b)
        /\ Range((s.queue \o a) \o b) = Range(s.queue \o a) \cup Range(b)
    <2> DEFINE p == s.queue \o a
    <2>1. p \in Seq(1 .. n) /\ Injective(p) /\ Range(p) \cap Range(b) = {}
      BY <1>7, <1>8
    <2> HIDE DEF p
    <2>2. p \o b \in Seq(1 .. n) /\ Injective(p \o b) /\ Range(p \o b) = Range(p) \cup Range(b)
      BY <1>4, <2>1, ConcatInjective
    <2> QED
      BY <2>2 DEF p
  <1> QED
    BY <1>3, <1>4, <1>5, <1>7, <1>9 DEF Pointers

LEMMA CbchReset ==
    ASSUME CbchInv, bts_cbch_reset
    PROVE  CbchInv'
  <1> DEFINE n == Len(segs)
             p == bts_smscb_state_reset(ss["basic"])
             q == bts_smscb_state_reset(ss["extended"])
             P == Pointers(ss["basic"])
             Q == Pointers(ss["extended"])
  <1>1. /\ n \in Nat /\ Good(ss["basic"], n) /\ Good(ss["extended"], n)
        /\ P \cap Q = {} /\ P \subseteq live /\ Q \subseteq live
        /\ corrupt = FALSE /\ (skips = 0 => live \subseteq P \cup Q)
        /\ live \subseteq 1 .. n
    BY CbchFacts DEF CbchInv, Apart, Memory, Cbchs
  <1>2. /\ p \in Seq(1 .. n) /\ Injective(p) /\ Range(p) = P
        /\ q \in Seq(1 .. n) /\ Injective(q) /\ Range(q) = Q
    BY <1>1, ResetList
  <1>3. /\ live' = live \ Range(p \o q)
        /\ corrupt' = (corrupt \/ ~IsInjective(p \o q) \/ ~(Range(p \o q) \subseteq live))
    BY DEF bts_cbch_reset, Free
  <1> HIDE DEF p, q, P, Q
  <1>4. /\ p \o q \in Seq(1 .. n) /\ Injective(p \o q) /\ Range(p \o q) = P \cup Q
    BY <1>1, <1>2, ConcatInjective
  <1>5. IsInjective(p \o q)
    <2>1. DOMAIN (p \o q) = 1 .. Len(p \o q)
      BY <1>4
    <2> QED
      BY <1>4, <2>1 DEF IsInjective, Injective
  <1>6. corrupt' = FALSE /\ live' = live \ (P \cup Q)
    BY <1>1, <1>3, <1>4, <1>5
  <1>7. /\ \A c \in Cbchs : ss'[c] = NoMsgs
        /\ ss' = [c \in Cbchs |-> NoMsgs]
        /\ "basic" \in Cbchs /\ "extended" \in Cbchs
    BY DEF bts_cbch_reset, Cbchs
  <1>8. /\ NoMsgs.queue = <<>> /\ NoMsgs.cur = 0 /\ NoMsgs.def = 0 /\ NoMsgs \in MsgState(n)
        /\ Range(NoMsgs.queue) = {} /\ Len(NoMsgs.queue) = 0
    BY DEF NoMsgs, MsgState, Range
  <1>9. Good(NoMsgs, n) /\ Pointers(NoMsgs) = {}
    BY <1>8 DEF Good, Pointers, Injective
  <1>10. segs' = segs /\ skips' = skips /\ tb' = tb /\ aired' = aired /\ cut' = Cbchs
         /\ smscbCfg' = smscbCfg /\ told' = told
    BY DEF bts_cbch_reset
  <1>11. Apart'
    BY <1>7, <1>8, <1>9, <1>10 DEF Apart
  <1>12. Memory'
    BY <1>1, <1>6, <1>7, <1>9, <1>10 DEF Memory
  <1>13. InTime' /\ OfCurrent' /\ Complete'
    <2>1. \A c \in Cbchs : ss'[c].cur = 0 /\ c \in cut'
      BY <1>7, <1>8, <1>10
    <2>2. cut \subseteq cut'
      BY <1>10 DEF CbchInv, CbchTypes
    <2> QED
      BY <1>10, <2>1, <2>2, TransmissionKept
  <1>14. LoadTold'
    BY <1>7, <1>8, <1>10, CbchFacts DEF LoadTold
  <1>15. CbchTypes'
    BY <1>1, <1>6, <1>10 DEF CbchInv, CbchTypes, Msgs
  <1> QED
    BY <1>11, <1>12, <1>13, <1>14, <1>15 DEF CbchInv

LEMMA CbchGet ==
    ASSUME CbchInv, bts_cbch_get
    PROVE  CbchInv'
  <1>0. PICK c : c = bts_smscb_state(tb)
    OBVIOUS
  <1> DEFINE n == tb % 4
             N == Len(segs)
             s == IF n = 0 THEN select_next_smscb(ss[c]) ELSE ss[c]
             sends == s.cur # 0 /\ n < segs[s.cur]
             done == sends /\ n + 1 = segs[s.cur] /\ s.cur # s.def
             t == [s EXCEPT !.cur = IF done THEN 0 ELSE @]
             a == IF n = 0 THEN <<>> ELSE aired[c]
             b == a \o (IF sends THEN <<<<s.cur, n>>>> ELSE <<>>)
  <1>1. tb \in 0 .. 7 /\ tb' = (tb + 1) % 8
    BY DEF bts_cbch_get, CbchInv, CbchTypes
  <1>2. /\ c \in Cbchs /\ n \in 0 .. 3 /\ tb' \in 0 .. 7
        /\ tb - First(c) = n
        /\ tb' - First(c) \in 1 .. 3 <=> n < 3
        /\ n < 3 => tb' - First(c) = n + 1
        /\ Asked(c)' = n + 1
        /\ n > 0 => Asked(c) = n
        /\ \A d \in Cbchs : d # c => /\ Asked(d) = 4 /\ Asked(d)' = 4
                                    /\ tb - First(d) \notin 1 .. 3 /\ tb' - First(d) \notin 1 .. 3
    BY <1>0, <1>1, TbFacts
  <1>3. /\ aired' = [aired EXCEPT ![c] = b]
        /\ ss' = [ss EXCEPT ![c] = t]
        /\ live' = IF done THEN live \ {s.cur} ELSE live
        /\ corrupt' = (corrupt \/ (s.cur # 0 /\ s.cur \notin live))
        /\ n = 0 => check_and_send_cbch_load(c, Len(s.queue)) /\ cut' = cut \ {c}
        /\ n # 0 => UNCHANGED <<told, cut>>
        /\ UNCHANGED <<segs, smscbCfg, skips>>
    BY <1>0 DEF bts_cbch_get, get_smscb_block
  <1>4. /\ N \in Nat /\ segs \in Seq(1 .. 4) /\ Good(ss[c], N) /\ Len(ss[c].queue) \in Nat
        /\ Pointers(ss[c]) \subseteq live /\ live \subseteq 1 .. N
        /\ corrupt = FALSE
    BY <1>2, CbchFacts DEF CbchInv, Memory
  <1>5. /\ Good(s, N) /\ s.def = ss[c].def /\ Pointers(s) \subseteq Pointers(ss[c])
        /\ Pointers(ss[c]) \subseteq Pointers(s) \cup {ss[c].cur}
        /\ n # 0 => s = ss[c]
    BY <1>4, SelectGood
  <1> HIDE DEF n, s
  <1>6. s \in MsgState(N) /\ s.cur \in {0} \cup 1 .. N /\ s.def \in {0} \cup 1 .. N
        /\ s.queue \in Seq(1 .. N) /\ Len(s.queue) \in Nat
    BY <1>5 DEF Good, MsgState
  <1>7. /\ t.cur = (IF done THEN 0 ELSE s.cur) /\ t.def = s.def /\ t.queue = s.queue
        /\ Good(t, N)
        /\ Pointers(t) = IF done THEN Pointers(s) \ {s.cur} ELSE Pointers(s)
    <2>1. CASE done
      <3>1. t = [s EXCEPT !.cur = 0] /\ s.cur # 0 /\ s.cur # s.def
        BY <2>1
      <3> QED
        BY <1>4, <1>5, <2>1, <3>1, DoneGood
    <2>2. CASE ~done
      <3>1. t = s
        BY <1>6, <2>2 DEF MsgState
      <3> QED
        BY <1>5, <2>2, <3>1
    <2> QED
      BY <2>1, <2>2
  <1> HIDE DEF t
  <1>8. s.cur # 0 => s.cur \in Pointers(s)
    BY DEF Pointers
  <1>9. skips = 0 => Pointers(ss[c]) \subseteq Pointers(s)
    <2> SUFFICES ASSUME skips = 0, n = 0 PROVE Pointers(ss[c]) \subseteq Pointers(s)
      BY <1>5
    <2>1. ss[c].cur \in {0, ss[c].def}
      BY <1>2 DEF CbchInv, InTime
    <2>2. 0 \notin Pointers(ss[c])
      BY <1>4
    <2>3. s.def # 0 => s.def \in Pointers(s)
      BY DEF Pointers
    <2> QED
      BY <1>5, <2>1, <2>2, <2>3
  <1>10. ss'[c] = t /\ \A d \in Cbchs : d # c => ss'[d] = ss[d]
    BY <1>2, <1>3 DEF CbchInv, Apart
  <1>11. Apart' /\ Memory'
    <2> DEFINE D == IF done THEN {s.cur} ELSE {}
               F == {}
    <2>1. live' = (live \ D) \cup F /\ corrupt' = FALSE /\ skips' = skips
      BY <1>3, <1>4, <1>5, <1>8
    <2>2. /\ F \cap live = {} /\ F \subseteq Pointers(t)
          /\ Pointers(t) \subseteq Pointers(ss[c]) \cup F
          /\ D \subseteq Pointers(ss[c]) /\ D \cap Pointers(t) = {}
          /\ Pointers(s) \subseteq Pointers(t) \cup D
      BY <1>5, <1>7, <1>8
    <2>3. /\ Good(t, Len(segs')) /\ Apart /\ Memory
          /\ Len(segs) \in Nat /\ Len(segs') \in {Len(segs), Len(segs) + 1}
          /\ skips' = 0 => skips = 0 /\ Pointers(ss[c]) \subseteq Pointers(t) \cup D
      BY <1>3, <1>4, <1>7, <1>9, <2>1, <2>2 DEF CbchInv
    <2> HIDE DEF D, F
    <2> QED
      BY <1>2, <1>3, <2>1, <2>2, <2>3, MemoryStep, Zenon
  <1>12. InTime'
    <2> SUFFICES ASSUME skips = 0, NEW d \in Cbchs, ss'[d].cur \notin {0, ss'[d].def}
                 PROVE  /\ tb' - First(d) \in 1 .. 3
                        /\ tb' - First(d) < segs[ss'[d].cur]
      BY <1>3 DEF InTime
    <2>1. CASE d # c
      BY <1>2, <1>10, <2>1 DEF CbchInv, InTime
    <2>2. CASE d = c
      <3>1. t.cur = s.cur /\ s.cur # 0 /\ s.cur # s.def /\ ~done
        BY <1>7, <1>10, <2>2
      <3>2. segs[s.cur] \in 1 .. 4
        BY <1>4, <1>6, <3>1
      <3>3. n < segs[s.cur]
        <4>1. CASE n = 0
          BY <3>2, <4>1
        <4>2. CASE n # 0
          BY <1>2, <1>5, <3>1, <4>2 DEF CbchInv, InTime
        <4> QED
          BY <4>1, <4>2
      <3>4. n + 1 < segs[s.cur]
        BY <1>2, <3>1, <3>2, <3>3
      <3> QED
        BY <1>2, <1>10, <2>2, <3>1, <3>2, <3>4
    <2> QED
      BY <2>1, <2>2
  <1>13. a \in Seq((1 .. N) \X (0 .. 3)) /\ BlocksOf(a, s.cur) /\ (n = 0 => a = <<>>)
    <2>1. CASE n = 0
      BY <2>1 DEF BlocksOf
    <2>2. CASE n # 0
      BY <1>1, <1>2, <1>5, <2>2, BlockParts DEF CbchInv, CbchTypes, Msgs
    <2> QED
      BY <2>1, <2>2
  <1>14. /\ b \in Seq((1 .. N) \X (0 .. 3)) /\ BlocksOf(b, t.cur)
         /\ n = 0 \/ AllBlocks(a, s.cur, n, segs) => AllBlocks(b, t.cur, n + 1, segs)
    <2> DEFINE cur == s.cur
               cur2 == t.cur
    <2>1. /\ cur2 = cur \/ (cur2 = 0 /\ cur # 0 /\ n + 1 = segs[cur])
          /\ b = WithBlock(a, cur, n, segs)
          /\ cur \in {0} \cup 1 .. N /\ Len(segs) = N
          /\ BlocksOf(a, cur) /\ (n = 0 => a = <<>>)
          /\ a \in Seq((1 .. N) \X (0 .. 3))
          /\ n \in 0 .. 3 /\ N \in Nat /\ segs \in Seq(1 .. 4)
      BY <1>2, <1>4, <1>6, <1>7, <1>13 DEF WithBlock
    <2> HIDE DEF a, b, cur, cur2, n, N
    <2>2. /\ b \in Seq((1 .. N) \X (0 .. 3)) /\ BlocksOf(b, cur2)
          /\ n = 0 \/ AllBlocks(a, cur, n, segs) => AllBlocks(b, cur2, n + 1, segs)
      BY <2>1, NextBlock, ZenonT(60)
    <2> QED
      BY <2>2 DEF cur, cur2
  <1> HIDE DEF a, b
  <1>15. /\ aired'[c] = b /\ \A d \in Cbchs : d # c => aired'[d] = aired[d]
         /\ aired' \in [Cbchs -> Seq(Msgs \X (0 .. 3))]
    BY <1>2, <1>3, <1>14 DEF CbchInv, CbchTypes, Msgs
  <1>16. OfCurrent'
    <2>1. \A d \in Cbchs : BlocksOf(aired[d], ss[d].cur)
      BY <1>1, BlockParts DEF CbchInv
    <2>2. \A d \in Cbchs : BlocksOf(aired'[d], ss'[d].cur)
      BY <1>10, <1>14, <1>15, <2>1
    <2> QED
      BY <2>2 DEF OfCurrent, BlocksOf
  <1>17. Complete'
    <2> SUFFICES ASSUME NEW d \in Cbchs, d \notin cut'
                 PROVE  /\ aired'[d] = <<>> /\ tb' - First(d) \in 1 .. 3 => ss'[d].cur = 0
                        /\ aired'[d] # <<>> =>
                              LET m == aired'[d][1][1]
                              IN  /\ Len(aired'[d]) = IF Asked(d)' < segs'[m] THEN Asked(d)'
                                                      ELSE segs'[m]
                                  /\ \A i \in 1 .. Len(aired'[d]) : aired'[d][i] = <<m, i - 1>>
                                  /\ ss'[d].cur = 0 => Asked(d)' >= segs'[m]
      BY DEF Complete
    <2>1. CASE d # c
      <3>1. d \notin cut
        BY <1>3, <2>1
      <3> QED
        BY <1>2, <1>3, <1>10, <1>15, <2>1, <3>1, OtherChannel
    <2>2. CASE d = c
      <3>1. n = 0 \/ AllBlocks(a, s.cur, n, segs)
        <4> SUFFICES ASSUME n # 0 PROVE AllBlocks(a, s.cur, n, segs)
          OBVIOUS
        <4>1. c \notin cut /\ tb - First(c) \in 1 .. 3 /\ Asked(c) = n /\ a = aired[c] /\ s = ss[c]
          BY <1>2, <1>3, <1>5, <2>2 DEF a
        <4> QED
          BY <1>1, <1>2, <4>1, BlockParts DEF CbchInv
      <3>2. AllBlocks(b, t.cur, n + 1, segs)
        BY <1>14, <3>1
      <3>3. aired'[d] = b /\ ss'[d].cur = t.cur /\ Asked(d)' = n + 1 /\ segs' = segs
        BY <1>2, <1>3, <1>10, <1>15, <2>2
      <3> QED
        BY <3>2, <3>3 DEF AllBlocks
    <2> QED
      BY <2>1, <2>2
  <1>18. LoadTold' /\ told' \in [Cbchs -> {"none", "under", "over", "retuned"}]
    <2>1. CASE n = 0
      BY <1>2, <1>3, <1>6, <1>7, <1>10, <2>1, LoadChecked
    <2>2. CASE n # 0
      <3>1. \A d \in Cbchs : ss'[d].queue = ss[d].queue
        BY <1>5, <1>7, <1>10, <2>2
      <3> QED
        BY <1>3, <2>2, <3>1 DEF CbchInv, CbchTypes, LoadTold
    <2> QED
      BY <2>1, <2>2
  <1>19. CbchTypes'
    <2>1. live' \subseteq live /\ cut' \subseteq cut
      BY <1>3
    <2>2. corrupt' \in BOOLEAN
      BY <1>11 DEF Memory
    <2> QED
      BY <1>2, <1>3, <1>15, <1>18, <2>1, <2>2 DEF CbchInv, CbchTypes, Msgs
  <1> QED
    BY <1>11, <1>12, <1>16, <1>17, <1>18, <1>19 DEF CbchInv

-----------------------------------------------------------------------------
(* The specification.                                                      *)

Inv == CbchInv /\ NchInv

LEMMA InvInit == Init => Inv
  <1> SUFFICES ASSUME Init PROVE Inv
    OBVIOUS
  <1>1. NchInv
    BY DEF Init, NchInit, NchInv, NchTypeOK, NchShape, Counted, Distinct, HeardLast, FreshFirst,
           Listed
  <1>2. /\ ss = [c \in Cbchs |-> NoMsgs] /\ segs = <<>> /\ live = {} /\ corrupt = FALSE /\ tb = 0
        /\ aired = [c \in Cbchs |-> <<>>] /\ cut = {} /\ skips = 0 /\ smscbCfg \in SmscbCfgs
        /\ told = [c \in Cbchs |-> "none"] /\ Len(segs) = 0
    BY DEF Init, CbchInit
  <1>3. /\ NoMsgs.queue = <<>> /\ NoMsgs.cur = 0 /\ NoMsgs.def = 0 /\ NoMsgs \in MsgState(0)
        /\ Range(NoMsgs.queue) = {} /\ Len(NoMsgs.queue) = 0
    BY DEF NoMsgs, MsgState, Range
  <1>4. Good(NoMsgs, 0) /\ Pointers(NoMsgs) = {}
    BY <1>3 DEF Good, Pointers, Injective
  <1>5. \A c \in Cbchs : ss[c] = NoMsgs
    BY <1>2
  <1>6. Apart /\ Memory
    BY <1>2, <1>3, <1>4, <1>5 DEF Apart, Memory, Cbchs
  <1>7. InTime /\ OfCurrent /\ Complete
    BY <1>2, <1>3, <1>5 DEF InTime, OfCurrent, Complete, First
  <1>8. LoadTold
    <2>1. smscbCfg.tgt \in Nat \ {0} /\ smscbCfg.hyst \in Nat
      BY <1>2, CbchAssumption
    <2> QED
      BY <1>3, <1>5, <2>1 DEF LoadTold
  <1>9. CbchTypes
    <2>1. \A S : <<>> \in Seq(S)
      OBVIOUS
    <2>2. segs \in Seq(1 .. 4)
      BY <1>2, <2>1
    <2>3. aired \in [Cbchs -> Seq(Msgs \X (0 .. 3))]
      <3> HIDE DEF Cbchs, Msgs
      <3> QED
        BY <1>2, <2>1
    <2>4. told \in [Cbchs -> {"none", "under", "over", "retuned"}]
      BY <1>2
    <2>5. Len(segs) <= MaxMsgs /\ skips \in 0 .. MaxSkips
      BY <1>2, CbchAssumption
    <2>6. live \subseteq Msgs /\ cut \subseteq Cbchs
      BY <1>2
    <2>7. corrupt \in BOOLEAN /\ smscbCfg \in SmscbCfgs
      BY <1>2, Zenon
    <2>8. tb \in 0 .. 7
      BY <1>2
    <2> HIDE DEF Cbchs, Msgs
    <2> QED
      BY <2>2, <2>3, <2>4, <2>5, <2>6, <2>7, <2>8 DEF CbchTypes
  <1> QED
    BY <1>1, <1>6, <1>7, <1>8, <1>9 DEF Inv, CbchInv

LEMMA InvStep == Inv /\ [Next]_vars => Inv'
  <1> SUFFICES ASSUME Inv, [Next]_vars PROVE Inv'
    OBVIOUS
  <1>1. UNCHANGED cbchVars => CbchInv'
    BY DEF cbchVars, Inv, CbchInv, CbchTypes, Msgs, Apart, Memory, InTime, OfCurrent, Complete,
           Asked, LoadTold
  <1>2. UNCHANGED nchVars => NchInv'
    BY DEF nchVars, Inv, NchInv, NchTypeOK, NchShape, Counted, Distinct, HeardLast, FreshFirst,
           Listed
  <1>3. ASSUME NEW c \in Cbchs, CbchNext(c) PROVE CbchInv'
    BY <1>3, CbchQueued, CbchOverflow, CbchDefault, CbchGet, CbchSkip, CbchVty DEF CbchNext, Inv
  <1>4. NchNext => NchInv'
    BY NchAdd, NchDel, NchReset, NchGenMsg DEF NchNext, rsl_rx_notification_cmd, Inv
  <1>5. NotInstalled => Inv'
    BY CbchReset, NchReset DEF NotInstalled, Inv
  <1> QED
    BY <1>1, <1>2, <1>3, <1>4, <1>5 DEF Next, vars, Inv

LEMMA InvHolds == Spec => []Inv
  BY InvInit, InvStep, PTL DEF Spec

\* No cell broadcast message is used or freed twice, none leaks unless layer 1 skips a
\* block, none that is sent or the default is queued (cbch.c), and a period carries the
\* blocks of one message from the first on.
THEOREM BroadcastInvHolds == Spec => []BroadcastInv
  <1> SUFFICES ASSUME Inv PROVE BroadcastInv
    BY InvHolds, PTL
  <1>1. CbchTypeOK
    BY DEF Inv, CbchInv, CbchTypes, Apart, MsgState, CbchTypeOK, Msgs
  <1>2. CbchMemory
    <2>1. \A c \in Cbchs : \A m \in {ss[c].cur, ss[c].def} : m \notin Range(ss[c].queue)
      BY DEF Inv, CbchInv, Apart, Good
    <2>2. UNION {Pointers(ss[c]) : c \in Cbchs} =
              Pointers(ss["basic"]) \cup Pointers(ss["extended"])
      BY DEF Cbchs
    <2> QED
      BY <2>1, <2>2 DEF Inv, CbchInv, Memory, CbchMemory, Cbchs
  <1>3. OneMessagePerPeriod
    <2> SUFFICES ASSUME NEW c \in Cbchs
                 PROVE  /\ \A i, j \in DOMAIN aired[c] : aired[c][i][1] = aired[c][j][1]
                        /\ c \notin cut /\ aired[c] # <<>> =>
                              LET n == segs[aired[c][1][1]]
                                  k == IF Asked(c) < n THEN Asked(c) ELSE n
                              IN  aired[c] = [i \in 1 .. k |-> <<aired[c][1][1], i - 1>>]
      BY DEF OneMessagePerPeriod
    <2>1. aired[c] \in Seq(Msgs \X (0 .. 3))
      BY DEF Inv, CbchInv, CbchTypes
    <2>2. /\ DOMAIN aired[c] = 1 .. Len(aired[c])
          /\ aired[c] = [i \in 1 .. Len(aired[c]) |-> aired[c][i]]
      BY <2>1
    <2>3. \A i, j \in DOMAIN aired[c] : aired[c][i][1] = aired[c][j][1]
      BY <2>2 DEF Inv, CbchInv, OfCurrent
    <2>4. ASSUME c \notin cut, aired[c] # <<>>
          PROVE  LET n == segs[aired[c][1][1]]
                     k == IF Asked(c) < n THEN Asked(c) ELSE n
                 IN  aired[c] = [i \in 1 .. k |-> <<aired[c][1][1], i - 1>>]
      <3> DEFINE m == aired[c][1][1]
                 k == IF Asked(c) < segs[m] THEN Asked(c) ELSE segs[m]
      <3>1. Len(aired[c]) = k /\ \A i \in 1 .. k : aired[c][i] = <<m, i - 1>>
        BY <2>4 DEF Inv, CbchInv, Complete
      <3> HIDE DEF m, k
      <3>2. aired[c] = [i \in 1 .. k |-> <<m, i - 1>>]
        BY <2>2, <3>1
      <3> QED
        BY <3>2 DEF m, k
    <2> QED
      BY <2>3, <2>4
  <1> QED
    BY <1>1, <1>2, <1>3 DEF BroadcastInv, Inv, NchInv

\* check_and_send_cbch_load() tells the BSC of too long a queue before bts_process_smscb_cmd()
\* drops a message, for all settings that put the limit above target and hysteresis.
THEOREM DropsAnnouncedHolds == Spec => DropsAnnounced
  <1> DEFINE A == \A c \in Cbchs : (\E lb \in LastBlocks : SmscbOverflow(c, lb)) =>
                    \/ told[c] \in {"over", "retuned"}
                    \/ smscbCfg.max < smscbCfg.tgt + smscbCfg.hyst
  <1>1. Inv => [A]_cbchVars
    <2> SUFFICES ASSUME Inv, NEW c \in Cbchs, NEW lb \in LastBlocks, SmscbOverflow(c, lb),
                        ~(smscbCfg.max < smscbCfg.tgt + smscbCfg.hyst)
                 PROVE  told[c] \in {"over", "retuned"}
      OBVIOUS
    <2>1. Len(ss[c].queue) >= smscbCfg.max
      BY DEF SmscbOverflow
    <2>2. Len(ss[c].queue) >= smscbCfg.tgt + smscbCfg.hyst
      BY <2>1, CbchFacts DEF Inv
    <2> QED
      BY <2>2 DEF Inv, CbchInv, LoadTold
  <1>2. Spec => [][A]_cbchVars
    BY <1>1, InvHolds, PTL
  <1> QED
    BY <1>2 DEF DropsAnnounced

\* bts_asci_notify_nch_gen_msg() sends NLN with the last call of a round and announces new
\* calls first, however calls are added and deleted in between (notification.c).
THEOREM CallsHeardHolds == Spec => CallsHeard
  <1> DEFINE A == bts_asci_notify_nch_gen_msg =>
                    (nch'.nln >= 0 <=> Range(notifications) \subseteq heard \cup {nch'.call})
             B == bts_asci_notify_nch_gen_msg /\ fresh # {} => nch'.call \in fresh
  <1>1. Inv => [A]_nchVars /\ [B]_nchVars
    BY NchAnnounces DEF Inv
  <1>2. Spec => [][A]_nchVars /\ [][B]_nchVars
    BY <1>1, InvHolds, PTL
  <1> QED
    BY <1>2 DEF CallsHeard, NlnMeansComplete, NewCallFirst
-----------------------------------------------------------------------------
(***************************************************************************)
(* The common control channel.                                             *)
(***************************************************************************)
\* The order of the natural numbers is well-founded.
LEMMA LessWellFounded == IsWellFoundedOn({pp \in Nat \X Nat : pp[1] < pp[2]}, Nat)
  BY NatLessThanWellFounded DEF OpToRel

\* A set of numbers has a least one.
LEMMA LeastNumber ==
    ASSUME NEW S \in SUBSET Nat, S # {}
    PROVE  \E x \in S : \A y \in S : x <= y
  <1>1. PICK x \in S : \A y \in S : ~ (<<y, x>> \in {pp \in Nat \X Nat : pp[1] < pp[2]})
    BY LessWellFounded, WFMin, Zenon
  <1>2. ASSUME NEW y \in S PROVE x <= y
    <2>1. y < x => <<y, x>> \in {pp \in Nat \X Nat : pp[1] < pp[2]}
      OBVIOUS
    <2>2. ~ (y < x) /\ x \in Nat /\ y \in Nat
      BY <1>1, <2>1, Zenon
    <2> QED
      BY <2>2
  <1> QED
    BY <1>2

LEMMA MinIsLeast ==
    ASSUME NEW S \in SUBSET Nat, S # {}
    PROVE  Min(S) \in S /\ \A y \in S : Min(S) <= y
  BY LeastNumber, Zenon DEF Min

\* Induction for a set of numbers.
LEMMA SetInduction ==
    ASSUME NEW S, 0 \in S, \A j \in S : j + 1 \in S
    PROVE  Nat \subseteq S
  <1>1. SUFFICES ASSUME Nat \ S # {} PROVE FALSE
    OBVIOUS
  <1>2. PICK x \in Nat \ S : \A y \in Nat \ S : x <= y
    BY <1>1, LeastNumber
  <1>3. x \in Nat /\ x # 0 /\ x - 1 \in Nat
    OBVIOUS
  <1>4. x - 1 \in S /\ (x - 1) + 1 = x
    BY <1>2, <1>3
  <1>5. x \in S
    BY <1>4
  <1> QED
    BY <1>5

-----------------------------------------------------------------------------
(* The elements of a sequence at some of its places.                       *)

\* g is the course of Selected() over the first m elements.
Taking(g, s, I, m) ==
    g = [i \in 0 .. m |-> IF i = 0 THEN <<>>
                          ELSE IF i \in I THEN Append(g[i - 1], s[i]) ELSE g[i - 1]]

LEMMA TakingExists ==
    ASSUME NEW s, NEW I, NEW m \in Nat
    PROVE  \E g : Taking(g, s, I, m)
  <1> DEFINE S == {k \in Nat : \E g : Taking(g, s, I, k)}
  <1>1. 0 \in S
    <2> DEFINE g == [i \in 0 .. 0 |-> <<>>]
    <2>1. Taking(g, s, I, 0)
      BY DEF Taking
    <2> QED
      BY <2>1
  <1>2. ASSUME NEW k \in S PROVE k + 1 \in S
    <2>1. PICK g : Taking(g, s, I, k)
      OBVIOUS
    <2> DEFINE h == [i \in 0 .. (k + 1) |->
                       IF i = k + 1 THEN (IF i \in I THEN Append(g[k], s[i]) ELSE g[k])
                       ELSE g[i]]
    <2>2. ASSUME NEW i \in 0 .. (k + 1)
          PROVE  h[i] = IF i = 0 THEN <<>>
                        ELSE IF i \in I THEN Append(h[i - 1], s[i]) ELSE h[i - 1]
      <3>1. CASE i = k + 1
        <4>1. i - 1 = k /\ h[i - 1] = g[k] /\ i # 0
          BY <3>1
        <4>2. h[i] = IF i \in I THEN Append(g[k], s[i]) ELSE g[k]
          BY <3>1
        <4> HIDE DEF h
        <4> QED
          BY <4>1, <4>2
      <3>2. CASE i # k + 1
        <4>1. i \in 0 .. k /\ h[i] = g[i]
          BY <3>2
        <4>2. g[i] = IF i = 0 THEN <<>>
                     ELSE IF i \in I THEN Append(g[i - 1], s[i]) ELSE g[i - 1]
          BY <2>1, <4>1 DEF Taking
        <4>3. i # 0 => h[i - 1] = g[i - 1]
          BY <4>1
        <4> HIDE DEF h
        <4> QED
          BY <4>1, <4>2, <4>3
      <3> QED
        BY <3>1, <3>2
    <2>3. Taking(h, s, I, k + 1)
      BY <2>2 DEF Taking
    <2> QED
      BY <2>3
  <1> HIDE DEF S
  <1>3. Nat \subseteq S
    BY <1>1, <1>2, SetInduction
  <1> QED
    BY <1>3 DEF S

\* f numbers the places I; t has the elements of s at these places.
Lists(f, t, s, I) ==
    /\ f \in [1 .. Len(t) -> I]
    /\ \A i \in I : \E k \in 1 .. Len(t) : f[k] = i
    /\ \A j, k \in 1 .. Len(t) : j < k => f[j] < f[k]
    /\ \A k \in 1 .. Len(t) : t[k] = s[f[k]]

\* A further place.
LEMMA ListsOne ==
    ASSUME NEW R, NEW s, NEW I, NEW t \in Seq(R), NEW f, NEW m \in Nat,
           Lists(f, t, s, I \cap 1 .. m), m + 1 \in I, s[m + 1] \in R
    PROVE  \E h : Lists(h, Append(t, s[m + 1]), s, I \cap 1 .. (m + 1))
  <1> DEFINE u == Append(t, s[m + 1])
             h == [k \in 1 .. (Len(t) + 1) |-> IF k = Len(t) + 1 THEN m + 1 ELSE f[k]]
  <1>1. /\ Len(t) \in Nat /\ Len(u) = Len(t) + 1 /\ u[Len(t) + 1] = s[m + 1]
        /\ \A k \in 1 .. Len(t) : u[k] = t[k]
    BY AppendProperties
  <1> HIDE DEF u
  <1>2. \A k \in 1 .. Len(t) : h[k] = f[k] /\ f[k] \in I \cap 1 .. m
    BY <1>1 DEF Lists
  <1>3. h[Len(t) + 1] = m + 1
    BY <1>1
  <1>4. h \in [1 .. Len(u) -> I \cap 1 .. (m + 1)]
    <2>1. m + 1 \in I \cap 1 .. (m + 1) /\ I \cap 1 .. m \subseteq I \cap 1 .. (m + 1)
      OBVIOUS
    <2>2. ASSUME NEW k \in 1 .. (Len(t) + 1) PROVE h[k] \in I \cap 1 .. (m + 1)
      <3>1. CASE k = Len(t) + 1
        BY <2>1, <3>1, <1>3
      <3>2. CASE k # Len(t) + 1
        <4>1. k \in 1 .. Len(t)
          BY <1>1, <3>2
        <4> QED
          BY <2>1, <4>1, <1>2
      <3> QED
        BY <3>1, <3>2
    <2> QED
      BY <1>1, <2>2
  <1> HIDE DEF h
  <1>5. ASSUME NEW i \in I \cap 1 .. (m + 1) PROVE \E k \in 1 .. Len(u) : h[k] = i
    <2>1. CASE i = m + 1
      BY <2>1, <1>1, <1>3
    <2>2. CASE i # m + 1
      <3>1. i \in I \cap 1 .. m
        BY <2>2
      <3>2. PICK k \in 1 .. Len(t) : f[k] = i
        BY <3>1 DEF Lists
      <3> QED
        BY <3>2, <1>1, <1>2
    <2> QED
      BY <2>1, <2>2
  <1>6. ASSUME NEW j \in 1 .. Len(u), NEW k \in 1 .. Len(u), j < k PROVE h[j] < h[k]
    <2>1. j \in 1 .. Len(t)
      BY <1>1, <1>6
    <2>2. CASE k = Len(t) + 1
      BY <2>1, <2>2, <1>2, <1>3
    <2>3. CASE k # Len(t) + 1
      <3>1. k \in 1 .. Len(t)
        BY <1>1, <2>3
      <3> QED
        BY <3>1, <2>1, <1>2, <1>6 DEF Lists
    <2> QED
      BY <2>2, <2>3
  <1>7. ASSUME NEW k \in 1 .. Len(u) PROVE u[k] = s[h[k]]
    <2>1. CASE k = Len(t) + 1
      BY <2>1, <1>1, <1>3
    <2>2. CASE k # Len(t) + 1
      <3>1. k \in 1 .. Len(t)
        BY <1>1, <2>2
      <3> QED
        BY <3>1, <1>1, <1>2 DEF Lists
    <2> QED
      BY <2>1, <2>2
  <1>8. Lists(h, u, s, I \cap 1 .. (m + 1))
    BY <1>4, <1>5, <1>6, <1>7 DEF Lists
  <1> QED
    BY <1>8 DEF u

\* What g[m] is.
TakenUpTo(g, m, s, I, R) ==
    g[m] \in Seq(R) /\ \E f : Lists(f, g[m], s, I \cap 1 .. m)

\* Selected() has the elements at the given places, in their order.
LEMMA SelectedLists ==
    ASSUME NEW R, NEW s \in Seq(R), NEW I \in SUBSET (1 .. Len(s))
    PROVE  /\ Selected(s, I) \in Seq(R)
           /\ \E f : Lists(f, Selected(s, I), s, I)
  <1> DEFINE g == CHOOSE g : g = [i \in 0 .. Len(s) |->
                     IF i = 0 THEN <<>>
                     ELSE IF i \in I THEN Append(g[i - 1], s[i]) ELSE g[i - 1]]
  <1>0. Len(s) \in Nat /\ \A i \in 1 .. Len(s) : s[i] \in R
    BY ElementOfSeq, LenProperties
  <1>1. Taking(g, s, I, Len(s))
    <2>1. \E h : Taking(h, s, I, Len(s))
      BY <1>0, TakingExists
    <2> QED
      BY <2>1, Zenon DEF Taking
  <1>2. Selected(s, I) = g[Len(s)]
    BY DEF Selected
  <1> HIDE DEF g
  <1> DEFINE S == {m \in Nat : m <= Len(s) => TakenUpTo(g, m, s, I, R)}
  <1>3. 0 \in S
    <2>1. g[0] = <<>>
      BY <1>0, <1>1 DEF Taking
    <2>2. PICK t : t = <<>>
      OBVIOUS
    <2>3. t \in Seq(R) /\ Len(t) = 0
      BY <2>2
    <2>4. Lists(t, t, s, I \cap 1 .. 0)
      <3>1. I \cap 1 .. 0 = {} /\ 1 .. 0 = {}
        OBVIOUS
      <3>2. t \in [{} -> {}]
        BY <2>2
      <3> QED
        BY <2>3, <3>1, <3>2 DEF Lists
    <2> QED
      BY <2>1, <2>2, <2>3, <2>4 DEF TakenUpTo
  <1>4. ASSUME NEW m \in S PROVE m + 1 \in S
    <2>1. SUFFICES ASSUME m + 1 <= Len(s)
                   PROVE  TakenUpTo(g, m + 1, s, I, R)
      OBVIOUS
    <2>0. m \in Nat /\ m <= Len(s) /\ TakenUpTo(g, m, s, I, R)
      BY <2>1, <1>0
    <2>2. m \in Nat /\ g[m] \in Seq(R) /\ m + 1 \in 0 .. Len(s) /\ m + 1 # 0 /\ (m + 1) - 1 = m
      BY <2>0, <2>1, <1>0 DEF TakenUpTo
    <2>3. PICK f : Lists(f, g[m], s, I \cap 1 .. m)
      BY <2>0 DEF TakenUpTo
    <2>4. g[m + 1] = IF m + 1 \in I THEN Append(g[m], s[m + 1]) ELSE g[m]
      BY <2>2, <1>1 DEF Taking
    <2>5. s[m + 1] \in R
      BY <1>0, <2>1, <2>2
    <2>6. CASE m + 1 \in I
      <3>1. Append(g[m], s[m + 1]) \in Seq(R)
        BY <2>2, <2>5, AppendProperties
      <3>2. \E h : Lists(h, Append(g[m], s[m + 1]), s, I \cap 1 .. (m + 1))
        BY <2>2, <2>3, <2>5, <2>6, ListsOne
      <3> QED
        BY <2>4, <2>6, <3>1, <3>2, Zenon DEF TakenUpTo
    <2>7. CASE m + 1 \notin I
      <3>1. I \cap 1 .. (m + 1) = I \cap 1 .. m
        BY <2>2, <2>7
      <3> QED
        BY <2>2, <2>3, <2>4, <2>7, <3>1, Zenon DEF TakenUpTo
    <2> QED
      BY <2>6, <2>7
  <1> HIDE DEF S
  <1>5. Len(s) \in S
    BY <1>0, <1>3, <1>4, SetInduction
  <1>6. I \cap 1 .. Len(s) = I
    OBVIOUS
  <1>7. TakenUpTo(g, Len(s), s, I, R)
    BY <1>0, <1>5 DEF S
  <1> QED
    BY <1>2, <1>6, <1>7, Zenon DEF TakenUpTo

\* There are as many of them as places.
LEMMA SelectedLen ==
    ASSUME NEW R, NEW s \in Seq(R), NEW I \in SUBSET (1 .. Len(s))
    PROVE  Len(Selected(s, I)) = Cardinality(I) /\ IsFiniteSet(I)
  <1>1. PICK f : Lists(f, Selected(s, I), s, I)
    BY SelectedLists
  <1>2. Len(Selected(s, I)) \in Nat
    BY SelectedLists, LenProperties
  <1> DEFINE m == Len(Selected(s, I))
  <1>0. m \in Nat /\ Lists(f, Selected(s, I), s, I) /\ I \subseteq Int
    BY <1>1, <1>2
  <1>3. f \in Bijection(1 .. m, I)
    <2>1. f \in [1 .. m -> I]
      BY <1>1 DEF Lists
    <2>0. \A j, k \in 1 .. m : j < k => f[j] < f[k]
      BY <1>1 DEF Lists
    <2> HIDE DEF m
    <2>2. ASSUME NEW j \in 1 .. m, NEW k \in 1 .. m, f[j] = f[k] PROVE j = k
      <3>1. (j < k => f[j] < f[k]) /\ (k < j => f[k] < f[j]) /\ f[j] \in Int
        BY <1>0, <2>0, <2>1
      <3> QED
        BY <2>2, <3>1, <1>0
    <2>3. \A i \in I : \E k \in 1 .. m : f[k] = i
      BY <1>1 DEF Lists, m
    <2> QED
      BY <2>1, <2>2, <2>3 DEF Bijection, Injection, Surjection, IsInjective
  <1>4. IsFiniteSet(1 .. m) /\ Cardinality(1 .. m) = m
    <2> HIDE DEF m
    <2>1. \A b \in Nat : IsFiniteSet(1 .. b) /\ Cardinality(1 .. b) = b
      BY FS_Interval
    <2> QED
      BY <1>0, <2>1
  <1> HIDE DEF m
  <1>5. IsFiniteSet(I) /\ Cardinality(I) = m
    BY <1>3, <1>4, FS_Bijection DEF ExistsBijection
  <1> QED
    BY <1>5 DEF m
-----------------------------------------------------------------------------
\* A sequence up to its k-th element and behind it.
LEMMA Splits ==
    ASSUME NEW R, NEW q \in Seq(R), NEW k \in 0 .. Len(q)
    PROVE  /\ SubSeq(q, 1, k) \in Seq(R) /\ Len(SubSeq(q, 1, k)) = k
           /\ DOMAIN SubSeq(q, 1, k) = 1 .. k
           /\ \A i \in 1 .. k : SubSeq(q, 1, k)[i] = q[i]
           /\ SubSeq(q, k + 1, Len(q)) \in Seq(R) /\ Len(SubSeq(q, k + 1, Len(q))) = Len(q) - k
           /\ DOMAIN SubSeq(q, k + 1, Len(q)) = 1 .. (Len(q) - k)
           /\ \A i \in 1 .. (Len(q) - k) : SubSeq(q, k + 1, Len(q))[i] = q[i + k]
  <1>1. Len(q) \in Nat /\ \A i \in 1 .. Len(q) : q[i] \in R
    BY LenProperties, ElementOfSeq
  <1>2. k \in Nat /\ k \in Int /\ k <= Len(q)
    BY <1>1
  <1>3. /\ SubSeq(q, 1, k) \in Seq(R) /\ Len(SubSeq(q, 1, k)) = k
        /\ \A i \in 1 .. k : SubSeq(q, 1, k)[i] = q[i]
    <2> DEFINE t == SubSeq(q, 1, k)
    <2>1. \A i \in 1 .. k : q[i] \in R
      BY <1>1, <1>2
    <2>2. /\ t \in Seq(R) /\ Len(t) = (IF 1 <= k THEN k - 1 + 1 ELSE 0)
          /\ \A i \in 1 .. k - 1 + 1 : t[i] = q[1 + i - 1]
      BY <1>2, <2>1, SubSeqProperties
    <2> HIDE DEF t
    <2>3. Len(t) = k
      BY <1>2, <2>2
    <2>4. ASSUME NEW i \in 1 .. k PROVE t[i] = q[i]
      <3>1. i \in 1 .. k - 1 + 1 /\ 1 + i - 1 = i
        BY <1>2
      <3> QED
        BY <2>2, <3>1
    <2> QED
      BY <2>2, <2>3, <2>4 DEF t
  <1>4. /\ SubSeq(q, k + 1, Len(q)) \in Seq(R) /\ Len(SubSeq(q, k + 1, Len(q))) = Len(q) - k
        /\ \A i \in 1 .. (Len(q) - k) : SubSeq(q, k + 1, Len(q))[i] = q[i + k]
    <2> DEFINE t == SubSeq(q, k + 1, Len(q))
    <2>1. (\A i \in k + 1 .. Len(q) : q[i] \in R) /\ k + 1 \in Int /\ Len(q) \in Int
      BY <1>1, <1>2
    <2>2. /\ t \in Seq(R) /\ Len(t) = (IF k + 1 <= Len(q) THEN Len(q) - (k + 1) + 1 ELSE 0)
          /\ \A i \in 1 .. Len(q) - (k + 1) + 1 : t[i] = q[(k + 1) + i - 1]
      BY <2>1, SubSeqProperties
    <2> HIDE DEF t
    <2>3. Len(t) = Len(q) - k
      BY <1>1, <1>2, <2>2
    <2>4. ASSUME NEW i \in 1 .. (Len(q) - k) PROVE t[i] = q[i + k]
      <3>1. i \in 1 .. Len(q) - (k + 1) + 1 /\ (k + 1) + i - 1 = i + k
        BY <1>1, <1>2
      <3> QED
        BY <2>2, <3>1
    <2> QED
      BY <2>2, <2>3, <2>4 DEF t
  <1>5. DOMAIN SubSeq(q, 1, k) = 1 .. k /\ DOMAIN SubSeq(q, k + 1, Len(q)) = 1 .. (Len(q) - k)
    BY <1>3, <1>4, LenProperties
  <1> QED
    BY <1>3, <1>4, <1>5

-----------------------------------------------------------------------------
(* Merging rejections.                                                     *)

NoRepeats(s) == \A i, j \in 1 .. Len(s) : i # j => s[i] # s[j]

\* extract_imm_ass_rej_refs() loses no reference and has each of them once.
LEMMA Extracted ==
    ASSUME NEW refs \in [1 .. 4 -> Refs]
    PROVE  LET e == extract_imm_ass_rej_refs(refs) IN
           e \in Seq(Refs) /\ Len(e) \in 1 .. 4 /\ NoRepeats(e) /\ Range(e) = Range(refs)
  <1> DEFINE I == {i \in 1 .. 4 : \A j \in 1 .. i - 1 : refs[j] # refs[i]}
  <1>0. refs \in Seq(Refs) /\ Len(refs) = 4 /\ I \in SUBSET (1 .. Len(refs)) /\ 1 \in I
    <2>1. refs \in Seq(Refs) /\ Len(refs) = 4
      <3>1. refs \in Seq(Refs)
        BY SeqDef
      <3> QED
        BY <3>1, LenProperties
    <2>2. I \subseteq 1 .. 4
      OBVIOUS
    <2>3. 1 \in I
      <3>1. 1 .. 1 - 1 = {} /\ 1 \in 1 .. 4
        OBVIOUS
      <3> QED
        BY <3>1
    <2> HIDE DEF I
    <2> QED
      BY <2>1, <2>2, <2>3
  <1>1. PICK e : e = Selected(refs, I)
    OBVIOUS
  <1>2. e = extract_imm_ass_rej_refs(refs)
    BY <1>1 DEF extract_imm_ass_rej_refs
  <1>3. e \in Seq(Refs) /\ \E f : Lists(f, e, refs, I)
    BY <1>0, <1>1, SelectedLists
  <1>4. PICK f : Lists(f, e, refs, I)
    BY <1>3
  <1>5. Len(e) \in Nat
    BY <1>3, LenProperties
  <1>6. Len(e) \in 1 .. 4
    <2>1. Len(e) = Cardinality(I) /\ IsFiniteSet(I)
      BY <1>0, <1>1, SelectedLen
    <2>2. IsFiniteSet(1 .. 4) /\ Cardinality(1 .. 4) = 4
      <3>1. \A b \in Nat : IsFiniteSet(1 .. b) /\ Cardinality(1 .. b) = b
        BY FS_Interval
      <3> QED
        BY <3>1
    <2>3. Cardinality(I) <= 4
      BY <2>2, FS_Subset
    <2>4. \E k \in 1 .. Len(e) : f[k] = 1
      BY <1>0, <1>4 DEF Lists
    <2> QED
      BY <2>1, <2>3, <2>4, <1>5
  <1>7. \A k \in 1 .. Len(e) : f[k] \in I /\ e[k] = refs[f[k]]
    BY <1>4 DEF Lists
  <1>8. NoRepeats(e)
    <2>1. ASSUME NEW i \in 1 .. Len(e), NEW j \in 1 .. Len(e), i < j PROVE e[i] # e[j]
      <3>1. f[i] < f[j]
        BY <1>4, <2>1 DEF Lists
      <3>2. f[i] \in 1 .. f[j] - 1
        BY <1>7, <3>1
      <3> QED
        BY <1>7, <3>2
    <2> QED
      BY <2>1, <1>5 DEF NoRepeats
  <1>9. Range(e) = Range(refs)
    <2>1. DOMAIN e = 1 .. Len(e) /\ DOMAIN refs = 1 .. 4
      BY <1>3, LenProperties
    <2>2. ASSUME NEW i \in 1 .. 4 PROVE \E j \in I : refs[j] = refs[i]
      <3> DEFINE S == {j \in 1 .. 4 : refs[j] = refs[i]}
      <3>1. S \in SUBSET Nat /\ S # {}
        OBVIOUS
      <3>2. PICK j \in S : \A k \in S : j <= k
        BY <3>1, LeastNumber
      <3>3. j \in I
        BY <3>2
      <3> QED
        BY <3>2, <3>3
    <2>3. ASSUME NEW i \in I PROVE \E k \in 1 .. Len(e) : e[k] = refs[i]
      BY <1>4, <1>7 DEF Lists
    <2>4. \A i \in I : i \in 1 .. 4
      OBVIOUS
    <2> HIDE DEF I
    <2>5. ASSUME NEW k \in 1 .. Len(e) PROVE \E i \in 1 .. 4 : e[k] = refs[i]
      BY <1>7, <2>4
    <2>6. ASSUME NEW i \in 1 .. 4 PROVE \E k \in 1 .. Len(e) : e[k] = refs[i]
      BY <2>2, <2>3
    <2> QED
      BY <2>1, <2>5, <2>6 DEF Range
  <1> QED
    BY <1>2, <1>3, <1>6, <1>8, <1>9

\* store_imm_ass_rej_refs() has the first four of them.
LEMMA Stored ==
    ASSUME NEW s \in Seq(Refs), Len(s) >= 1
    PROVE  /\ store_imm_ass_rej_refs(s) \in [1 .. 4 -> Refs]
           /\ Range(store_imm_ass_rej_refs(s)) = {s[i] : i \in {k \in 1 .. Len(s) : k <= 4}}
  <1>0. Len(s) \in Nat /\ \A i \in 1 .. Len(s) : s[i] \in Refs
    BY LenProperties, ElementOfSeq
  <1> DEFINE t == [i \in 1 .. 4 |-> IF i <= Len(s) THEN s[i] ELSE s[1]]
  <1>1. t = store_imm_ass_rej_refs(s)
    BY DEF store_imm_ass_rej_refs
  <1>2. t \in [1 .. 4 -> Refs] /\ DOMAIN t = 1 .. 4
    BY <1>0
  <1>3. ASSUME NEW i \in 1 .. 4 PROVE t[i] \in {s[j] : j \in {k \in 1 .. Len(s) : k <= 4}}
    BY <1>0
  <1>4. ASSUME NEW i \in 1 .. Len(s), i <= 4 PROVE t[i] = s[i] /\ i \in 1 .. 4
    BY <1>0, <1>4
  <1> HIDE DEF t
  <1> QED
    BY <1>1, <1>2, <1>3, <1>4 DEF Range

\* What m, a message for the queue and perhaps another, makes of two messages.
Merged(m, old, new) ==
    /\ m.old \in Message /\ m.rest \in Seq(Message)
    /\ \/ /\ m.rest = <<>>
          /\ Range(m.old.refs) = Range(old.refs) \cup Range(new.refs)
       \/ \E r \in Message :
             /\ m.rest = <<r>>
             /\ Range(m.old.refs) \cup Range(r.refs) = Range(old.refs) \cup Range(new.refs)
             /\ Range(m.old.refs) \cap Range(r.refs) = {}

\* try_merge_imm_ass_rej() loses no reference and doubles none.
LEMMA MergeKeeps ==
    ASSUME NEW old \in Message, NEW new \in Message, Range(old.refs) \cap Range(new.refs) = {}
    PROVE  Merged(try_merge_imm_ass_rej(old, new), old, new)
  <1>1. Merged(NotMerged(old, new), old, new)
    <2>1. <<new>> \in Seq(Message)
      OBVIOUS
    <2> QED
      BY <2>1 DEF Merged, NotMerged
  <1>2. CASE old.type # "rej" \/ new.type # "rej"
    BY <1>1, <1>2 DEF try_merge_imm_ass_rej
  <1>3. CASE old.type = "rej" /\ new.type = "rej"
    <2> DEFINE had == extract_imm_ass_rej_refs(old.refs)
               news == extract_imm_ass_rej_refs(new.refs)
               all == had \o news
               over == SubSeq(all, 5, Len(all))
               kept == [old EXCEPT !.refs = store_imm_ass_rej_refs(all)]
               left == [new EXCEPT !.refs = store_imm_ass_rej_refs(over)]
    <2>1. old.refs \in [1 .. 4 -> Refs] /\ new.refs \in [1 .. 4 -> Refs]
      BY <1>3 DEF Message
    <2>2. /\ had \in Seq(Refs) /\ Len(had) \in 1 .. 4 /\ NoRepeats(had)
          /\ Range(had) = Range(old.refs)
          /\ news \in Seq(Refs) /\ Len(news) \in 1 .. 4 /\ NoRepeats(news)
          /\ Range(news) = Range(new.refs)
      BY <2>1, Extracted
    <2>3. try_merge_imm_ass_rej(old, new) =
            IF Len(had) = 4 THEN NotMerged(old, new)
            ELSE [old |-> kept, rest |-> IF Len(all) <= 4 THEN <<>> ELSE <<left>>]
      BY <1>3 DEF try_merge_imm_ass_rej
    <2> HIDE DEF had, news
    <2>4. /\ all \in Seq(Refs) /\ Len(all) = Len(had) + Len(news)
          /\ \A i \in 1 .. Len(had) : all[i] = had[i]
          /\ \A i \in 1 .. Len(news) : all[Len(had) + i] = news[i]
      BY <2>2, ConcatProperties
    <2> HIDE DEF all
    <2>14. /\ Len(had) \in 1 .. 4 /\ Len(news) \in 1 .. 4 /\ Len(all) = Len(had) + Len(news)
           /\ Len(all) \in 2 .. 8
      <3>1. PICK a, b \in 1 .. 4 : a = Len(had) /\ b = Len(news)
        BY <2>2
      <3>2. Len(all) = a + b
        BY <2>4, <3>1
      <3>3. a + b \in 2 .. 8
        OBVIOUS
      <3> QED
        BY <3>1, <3>2, <3>3, Zenon
    <2>5. DOMAIN had = 1 .. Len(had) /\ DOMAIN news = 1 .. Len(news)
      BY <2>2, LenProperties
    <2>6. ASSUME NEW i \in 1 .. Len(all)
          PROVE  \/ i \in 1 .. Len(had) /\ all[i] = had[i] /\ all[i] \in Range(old.refs)
                 \/ /\ i - Len(had) \in 1 .. Len(news) /\ all[i] = news[i - Len(had)]
                    /\ all[i] \in Range(new.refs)
      <3>1. CASE i <= Len(had)
        <4>1. i \in 1 .. Len(had)
          BY <3>1, <2>14
        <4>2. had[i] \in Range(had)
          BY <4>1, <2>5 DEF Range
        <4> QED
          BY <4>1, <4>2, <2>2, <2>4
      <3>2. CASE i > Len(had)
        <4>1. i - Len(had) \in 1 .. Len(news) /\ Len(had) + (i - Len(had)) = i
          BY <3>2, <2>14
        <4>2. news[i - Len(had)] \in Range(news)
          BY <4>1, <2>5 DEF Range
        <4>3. all[Len(had) + (i - Len(had))] = news[i - Len(had)]
          BY <4>1, <2>4
        <4> QED
          BY <4>1, <4>2, <4>3, <2>2
      <3> QED
        BY <3>1, <3>2, <2>2, <2>4
    <2>7. NoRepeats(all)
      <3> SUFFICES ASSUME NEW i \in 1 .. Len(all), NEW j \in 1 .. Len(all), i # j
                   PROVE  all[i] # all[j]
        BY DEF NoRepeats
      <3>1. i - Len(had) # j - Len(had)
        BY <2>2, <2>4
      <3> QED
        BY <3>1, <2>2, <2>6 DEF NoRepeats
    <2>8. ASSUME NEW r \in Range(old.refs) \cup Range(new.refs)
          PROVE  \E i \in 1 .. Len(all) : all[i] = r
      <3>1. CASE r \in Range(old.refs)
        <4>1. PICK i \in 1 .. Len(had) : had[i] = r
          BY <3>1, <2>2, <2>5 DEF Range
        <4> QED
          BY <4>1, <2>2, <2>4
      <3>2. CASE r \in Range(new.refs)
        <4>1. PICK i \in 1 .. Len(news) : news[i] = r
          BY <3>2, <2>2, <2>5 DEF Range
        <4>2. Len(had) + i \in 1 .. Len(all)
          BY <2>2, <2>4
        <4> QED
          BY <4>1, <4>2, <2>4
      <3> QED
        BY <3>1, <3>2
    <2>9. /\ store_imm_ass_rej_refs(all) \in [1 .. 4 -> Refs]
          /\ Range(store_imm_ass_rej_refs(all)) = {all[i] : i \in {k \in 1 .. Len(all) : k <= 4}}
      BY <2>4, <2>14, Stored
    <2>10. kept \in Message /\ kept.refs = store_imm_ass_rej_refs(all)
      BY <1>3, <2>9 DEF Message
    <2> HIDE DEF kept
    <2>11. CASE Len(had) = 4
      BY <1>1, <2>3, <2>11
    <2>12. CASE Len(had) # 4 /\ Len(all) <= 4
      <3>1. Range(kept.refs) = Range(old.refs) \cup Range(new.refs)
        BY <2>2, <2>4, <2>6, <2>8, <2>9, <2>10, <2>12
      <3>2. PICK t : t = <<>>
        OBVIOUS
      <3>3. t \in Seq(Message)
        BY <3>2
      <3>4. try_merge_imm_ass_rej(old, new) = [old |-> kept, rest |-> t]
        BY <2>3, <2>12, <3>2
      <3> QED
        BY <2>10, <3>1, <3>2, <3>3, <3>4 DEF Merged
    <2>13. CASE Len(had) # 4 /\ Len(all) > 4
      <3>1. /\ over \in Seq(Refs) /\ Len(over) = Len(all) - 4
            /\ \A i \in 1 .. Len(all) - 4 : over[i] = all[i + 4]
        <4>1. PICK k \in 0 .. Len(all) : k = 4
          BY <2>13, <2>14
        <4>2. k + 1 = 5
          BY <4>1
        <4> QED
          BY <2>4, <4>1, <4>2, Splits
      <3> HIDE DEF over
      <3>2. /\ store_imm_ass_rej_refs(over) \in [1 .. 4 -> Refs]
            /\ Range(store_imm_ass_rej_refs(over)) = {over[i] : i \in {k \in 1 .. Len(over) : k <= 4}}
        BY <2>13, <2>14, <3>1, Stored
      <3>3. left \in Message /\ left.refs = store_imm_ass_rej_refs(over)
        BY <1>3, <3>2 DEF Message
      <3> HIDE DEF left
      <3>4. Range(left.refs) = {all[i] : i \in {k \in 1 .. Len(all) : k > 4}}
        <4>1. Len(all) \in 5 .. 7 /\ Len(over) = Len(all) - 4
          <5>1. PICK a, b \in 1 .. 4 : a = Len(had) /\ b = Len(news)
            BY <2>14
          <5>2. a \in 1 .. 3 /\ Len(all) = a + b /\ a + b > 4
            BY <2>13, <2>14, <5>1
          <5>3. a + b \in 5 .. 7
            BY <5>2
          <5> QED
            BY <3>1, <5>2, <5>3, Zenon
        <4>2. ASSUME NEW i \in 1 .. Len(over)
              PROVE  i <= 4 /\ over[i] = all[i + 4] /\ i + 4 \in 5 .. Len(all)
          <5>1. i \in 1 .. Len(all) - 4 /\ i <= 4 /\ i + 4 \in 5 .. Len(all)
            BY <4>1
          <5> QED
            BY <3>1, <5>1
        <4>3. ASSUME NEW i \in 1 .. Len(all), i > 4
              PROVE  i - 4 \in 1 .. Len(over) /\ i - 4 <= 4 /\ over[i - 4] = all[i]
          <5>1. i - 4 \in 1 .. Len(all) - 4 /\ (i - 4) + 4 = i /\ i - 4 <= 4
            BY <4>1, <4>3
          <5> QED
            BY <3>1, <5>1
        <4>4. \A i \in 5 .. Len(all) : i \in 1 .. Len(all) /\ i > 4
          BY <4>1
        <4> QED
          <5>1. Range(left.refs) = {over[i] : i \in {k \in 1 .. Len(over) : k <= 4}}
            BY <3>2, <3>3, Zenon
          <5>2. ASSUME NEW i \in {k \in 1 .. Len(over) : k <= 4}
                PROVE  over[i] \in {all[j] : j \in {k \in 1 .. Len(all) : k > 4}}
            BY <4>2, <4>4
          <5>3. ASSUME NEW j \in {k \in 1 .. Len(all) : k > 4}
                PROVE  all[j] \in {over[i] : i \in {k \in 1 .. Len(over) : k <= 4}}
            BY <4>3
          <5> QED
            BY <5>1, <5>2, <5>3
      <3>5. Range(kept.refs) \cup Range(left.refs) = Range(old.refs) \cup Range(new.refs)
        <4>1. \A i \in 1 .. Len(all) : i <= 4 \/ i > 4
          BY <2>2, <2>4
        <4> QED
          BY <2>6, <2>8, <2>9, <2>10, <3>4, <4>1
      <3>6. Range(kept.refs) \cap Range(left.refs) = {}
        BY <2>7, <2>9, <2>10, <3>4 DEF NoRepeats
      <3>7. <<left>> \in Seq(Message)
        BY <3>3
      <3>8. try_merge_imm_ass_rej(old, new) = [old |-> kept, rest |-> <<left>>]
        BY <2>3, <2>13, <2>14
      <3> QED
        BY <2>10, <3>3, <3>5, <3>6, <3>7, <3>8 DEF Merged
    <2> QED
      BY <2>2, <2>4, <2>11, <2>12, <2>13
  <1> QED
    BY <1>2, <1>3
-----------------------------------------------------------------------------
(* The queue of access grants.                                             *)

\* The messages of q have the references o between them.
Answers(q, o) ==
    /\ q \in Seq(Message)
    /\ RefsOf(q) = o
    /\ \A i, j \in DOMAIN q : i # j => Range(q[i].refs) \cap Range(q[j].refs) = {}

\* A message with references of its own.
LEMMA AnswersAppend ==
    ASSUME NEW q, NEW o, Answers(q, o), NEW msg \in Message, Range(msg.refs) \cap o = {}
    PROVE  Answers(Append(q, msg), o \cup Range(msg.refs)) /\ Len(Append(q, msg)) = Len(q) + 1
  <1> DEFINE s == Append(q, msg)
  <1>1. /\ q \in Seq(Message) /\ Len(q) \in Nat /\ DOMAIN q = 1 .. Len(q)
        /\ s \in Seq(Message) /\ Len(s) = Len(q) + 1 /\ DOMAIN s = 1 .. (Len(q) + 1)
        /\ s[Len(q) + 1] = msg /\ \A i \in DOMAIN q : s[i] = q[i]
    BY AppendProperties, LenProperties DEF Answers
  <1> HIDE DEF s
  <1>2. \A i \in DOMAIN s : i = Len(q) + 1 \/ (i \in DOMAIN q /\ s[i] = q[i])
    BY <1>1
  <1>3. \A i \in DOMAIN q : Range(q[i].refs) \subseteq o
    BY DEF Answers, RefsOf
  <1>4. Len(q) + 1 \in DOMAIN s /\ DOMAIN q \subseteq DOMAIN s
    BY <1>1
  <1>5. RefsOf(s) = o \cup Range(msg.refs)
    <2>1. RefsOf(s) \subseteq o \cup Range(msg.refs)
      BY <1>1, <1>2, <1>3 DEF RefsOf
    <2>2. o \subseteq RefsOf(s)
      <3>1. ASSUME NEW r \in o PROVE r \in RefsOf(s)
        <4>1. PICK i \in DOMAIN q : r \in Range(q[i].refs)
          BY DEF Answers, RefsOf
        <4>2. i \in DOMAIN s /\ r \in Range(s[i].refs)
          BY <4>1, <1>1, <1>4
        <4> QED
          BY <4>2 DEF RefsOf
      <3> QED
        BY <3>1
    <2>3. Range(msg.refs) \subseteq RefsOf(s)
      BY <1>1, <1>4 DEF RefsOf
    <2> QED
      BY <2>1, <2>2, <2>3
  <1>6. ASSUME NEW i \in DOMAIN s, NEW j \in DOMAIN s, i # j
        PROVE  Range(s[i].refs) \cap Range(s[j].refs) = {}
    <2>1. CASE i \in DOMAIN q /\ j \in DOMAIN q
      BY <2>1, <1>1, <1>6 DEF Answers
    <2>2. CASE i \in DOMAIN q /\ j = Len(q) + 1
      BY <2>2, <1>1, <1>3
    <2>3. CASE i = Len(q) + 1 /\ j \in DOMAIN q
      BY <2>3, <1>1, <1>3
    <2> QED
      BY <2>1, <2>2, <2>3, <1>2, <1>6
  <1> QED
    BY <1>1, <1>5, <1>6 DEF Answers, s

\* The messages behind the k-th, without the references of those up to it.
LEMMA AnswersSuffix ==
    ASSUME NEW q, NEW o, Answers(q, o), NEW k \in 0 .. Len(q)
    PROVE  /\ Answers(SubSeq(q, k + 1, Len(q)), o \ RefsOf(SubSeq(q, 1, k)))
           /\ Len(SubSeq(q, k + 1, Len(q))) = Len(q) - k
  <1> DEFINE s == SubSeq(q, k + 1, Len(q))
             t == SubSeq(q, 1, k)
  <1>0. q \in Seq(Message) /\ Len(q) \in Nat /\ DOMAIN q = 1 .. Len(q)
    BY LenProperties DEF Answers
  <1>1. /\ s \in Seq(Message) /\ Len(s) = Len(q) - k /\ DOMAIN s = 1 .. (Len(q) - k)
        /\ \A i \in 1 .. (Len(q) - k) : s[i] = q[i + k]
    <2>1. s \in Seq(Message)
      BY <1>0, Splits
    <2>2. Len(s) = Len(q) - k
      BY <1>0, Splits
    <2>3. DOMAIN s = 1 .. (Len(q) - k)
      BY <1>0, Splits
    <2>4. \A i \in 1 .. (Len(q) - k) : s[i] = q[i + k]
      BY <1>0, Splits
    <2> QED
      BY <2>1, <2>2, <2>3, <2>4, Zenon
  <1>2. DOMAIN t = 1 .. k /\ \A i \in 1 .. k : t[i] = q[i]
    BY <1>0, Splits
  <1> HIDE DEF s, t
  <1>3. ASSUME NEW i \in DOMAIN s PROVE i + k \in DOMAIN q /\ s[i] = q[i + k] /\ i + k \notin 1 .. k
    BY <1>0, <1>1
  <1>4. ASSUME NEW i \in DOMAIN q, i \notin 1 .. k PROVE i - k \in DOMAIN s /\ s[i - k] = q[i]
    BY <1>0, <1>1, <1>4
  <1>5. \A i \in 1 .. k : i \in DOMAIN q
    BY <1>0
  <1>6. RefsOf(s) \subseteq o \ RefsOf(t)
    <2>1. ASSUME NEW i \in DOMAIN s, NEW r \in Range(s[i].refs) PROVE r \in o /\ r \notin RefsOf(t)
      <3>1. r \in Range(q[i + k].refs) /\ i + k \in DOMAIN q
        BY <1>3, <2>1
      <3>2. r \in o
        BY <3>1 DEF Answers, RefsOf
      <3>3. ASSUME NEW j \in 1 .. k PROVE r \notin Range(t[j].refs)
        <4>1. j # i + k /\ j \in DOMAIN q /\ t[j] = q[j]
          BY <1>2, <1>3, <1>5
        <4> QED
          BY <3>1, <4>1 DEF Answers
      <3> QED
        BY <3>2, <3>3, <1>2 DEF RefsOf
    <2> QED
      BY <2>1 DEF RefsOf
  <1>7. o \ RefsOf(t) \subseteq RefsOf(s)
    <2>1. ASSUME NEW r \in o, r \notin RefsOf(t) PROVE r \in RefsOf(s)
      <3>1. PICK i \in DOMAIN q : r \in Range(q[i].refs)
        BY DEF Answers, RefsOf
      <3>2. i \notin 1 .. k
        <4>1. i \in 1 .. k => i \in DOMAIN t /\ t[i] = q[i]
          BY <1>2
        <4> QED
          BY <2>1, <3>1, <4>1 DEF RefsOf
      <3>3. i - k \in DOMAIN s /\ s[i - k] = q[i]
        BY <1>4, <3>2
      <3> QED
        BY <3>1, <3>3 DEF RefsOf
    <2> QED
      BY <2>1
  <1>8. ASSUME NEW i \in DOMAIN s, NEW j \in DOMAIN s, i # j
        PROVE  Range(s[i].refs) \cap Range(s[j].refs) = {}
    <2>1. i + k # j + k
      BY <1>0, <1>1, <1>8
    <2> QED
      BY <2>1, <1>3 DEF Answers
  <1> QED
    BY <1>1, <1>6, <1>7, <1>8 DEF Answers, s, t

\* The messages but for the last one.
LEMMA AnswersFront ==
    ASSUME NEW q, NEW o, Answers(q, o), q # <<>>
    PROVE  /\ Last(q) \in Message /\ Range(Last(q).refs) \subseteq o
           /\ Answers(Front(q), o \ Range(Last(q).refs))
           /\ Len(Front(q)) = Len(q) - 1
  <1> DEFINE s == Front(q)
             m == Len(q)
  <1>0. q \in Seq(Message) /\ m \in Nat /\ m >= 1 /\ DOMAIN q = 1 .. m
    BY LenProperties, EmptySeq DEF Answers
  <1>1. /\ s \in Seq(Message) /\ Len(s) = m - 1 /\ DOMAIN s = 1 .. (m - 1)
        /\ \A i \in 1 .. (m - 1) : s[i] = q[i]
    <2>1. SubSeq(q, 1, m - 1) \in Seq(Message) /\ Len(SubSeq(q, 1, m - 1)) = m - 1
      BY <1>0
    <2>2. \A i \in 1 .. (m - 1) : SubSeq(q, 1, m - 1)[i] = q[i]
      BY <1>0
    <2> QED
      BY <1>0, <2>1, <2>2 DEF Front
  <1>2. Last(q) = q[m] /\ q[m] \in Message /\ m \in DOMAIN q
    BY <1>0 DEF Last
  <1> HIDE DEF s, m
  <1>3. Range(q[m].refs) \subseteq o
    BY <1>2 DEF Answers, RefsOf
  <1>4. \A i \in DOMAIN q : i = m \/ i \in DOMAIN s
    BY <1>0, <1>1
  <1>5. \A i \in DOMAIN s : i \in DOMAIN q /\ i # m /\ s[i] = q[i]
    BY <1>0, <1>1
  <1>6. RefsOf(s) = o \ Range(q[m].refs)
    <2>1. ASSUME NEW i \in DOMAIN s, NEW r \in Range(s[i].refs)
          PROVE  r \in o /\ r \notin Range(q[m].refs)
      BY <1>2, <1>5 DEF Answers, RefsOf
    <2>2. ASSUME NEW r \in o, r \notin Range(q[m].refs) PROVE r \in RefsOf(s)
      <3>1. PICK i \in DOMAIN q : r \in Range(q[i].refs)
        BY DEF Answers, RefsOf
      <3>2. i \in DOMAIN s /\ s[i] = q[i]
        BY <1>4, <1>5, <2>2, <3>1
      <3> QED
        BY <3>1, <3>2 DEF RefsOf
    <2> QED
      BY <2>1, <2>2 DEF RefsOf
  <1>7. \A i, j \in DOMAIN s : i # j => Range(s[i].refs) \cap Range(s[j].refs) = {}
    BY <1>5 DEF Answers
  <1> QED
    BY <1>0, <1>1, <1>2, <1>3, <1>6, <1>7 DEF Answers, s, m

\* bts_agch_enqueue() adds the references of the message, and one message at most.
LEMMA EnqueueKeeps ==
    ASSUME HardLimit \in Nat, Answers(agch, open), AgchBounded, open \subseteq Refs,
           NEW msg \in Message, Range(msg.refs) \cap open = {}, bts_agch_enqueue(msg)
    PROVE  Answers(agch', open') /\ AgchBounded' /\ open' \subseteq Refs
  <1>0. Len(agch) \in Nat
    BY LenProperties DEF Answers
  <1>a. Range(msg.refs) \subseteq Refs
    BY DEF Message, Range
  <1>1. CASE ~AgchRoom
    BY <1>1 DEF bts_agch_enqueue, AgchBounded
  <1>2. CASE AgchRoom /\ agch = <<>>
    <2>1. agch' = <<msg>> /\ open' = open \cup Range(msg.refs)
      BY <1>2 DEF bts_agch_enqueue
    <2>2. Append(agch, msg) = <<msg>>
      BY <1>2
    <2>3. /\ Answers(Append(agch, msg), open \cup Range(msg.refs))
          /\ Len(Append(agch, msg)) = Len(agch) + 1
      BY AnswersAppend
    <2>4. Answers(agch', open') /\ Len(agch') = Len(agch) + 1
      BY <2>1, <2>2, <2>3, Zenon
    <2> QED
      BY <1>0, <1>2, <1>a, <2>1, <2>4 DEF AgchRoom, AgchBounded
  <1>3. CASE AgchRoom /\ agch # <<>>
    <2>1. PICK last, front : last = Last(agch) /\ front = Front(agch)
      OBVIOUS
    <2>2. PICK m : m = try_merge_imm_ass_rej(last, msg)
      OBVIOUS
    <2>3. agch' = Append(front, m.old) \o m.rest /\ open' = open \cup Range(msg.refs)
      BY <1>3, <2>1, <2>2, Zenon DEF bts_agch_enqueue
    <2>4. /\ last \in Message /\ Range(last.refs) \subseteq open
          /\ Answers(front, open \ Range(last.refs)) /\ Len(front) = Len(agch) - 1
      BY <1>3, <2>1, AnswersFront, Zenon
    <2>5. Range(last.refs) \cap Range(msg.refs) = {}
      BY <2>4
    <2>6. Merged(m, last, msg)
      BY <2>2, <2>4, <2>5, MergeKeeps, Zenon
    <2>7. m.old \in Message /\ Range(m.old.refs) \cap (open \ Range(last.refs)) = {}
      BY <2>4, <2>6 DEF Merged
    <2> DEFINE mid == Append(front, m.old)
               o == (open \ Range(last.refs)) \cup Range(m.old.refs)
    <2>8. Answers(mid, o) /\ Len(mid) = Len(front) + 1
      BY <2>4, <2>7, AnswersAppend
    <2>9. CASE m.rest = <<>> /\ Range(m.old.refs) = Range(last.refs) \cup Range(msg.refs)
      <3>1. o = open \cup Range(msg.refs)
        BY <2>4, <2>9
      <3>2. mid \o m.rest = mid
        BY <2>8, <2>9 DEF Answers
      <3>3. agch' = mid /\ open' = o
        BY <2>3, <3>1, <3>2
      <3>4. Len(mid) = Len(agch)
        BY <1>0, <2>4, <2>8
      <3> HIDE DEF mid, o
      <3>5. Answers(agch', open') /\ Len(agch') = Len(agch)
        BY <2>8, <3>3, <3>4, Zenon
      <3> QED
        BY <1>0, <1>3, <1>a, <2>3, <3>5 DEF AgchRoom, AgchBounded
    <2>10. ASSUME NEW r \in Message, m.rest = <<r>>,
                  Range(m.old.refs) \cup Range(r.refs) = Range(last.refs) \cup Range(msg.refs),
                  Range(m.old.refs) \cap Range(r.refs) = {}
           PROVE  Answers(agch', open') /\ AgchBounded' /\ open' \subseteq Refs
      <3>1. Range(r.refs) \cap o = {} /\ o \cup Range(r.refs) = open \cup Range(msg.refs)
        BY <2>4, <2>10
      <3> HIDE DEF o
      <3>2. mid \o m.rest = Append(mid, r)
        <4>1. mid \in Seq(Message)
          BY <2>8 DEF Answers
        <4> HIDE DEF mid
        <4> QED
          BY <2>10, <4>1
      <3> HIDE DEF mid
      <3>3. Answers(Append(mid, r), o \cup Range(r.refs)) /\ Len(Append(mid, r)) = Len(mid) + 1
        BY <2>8, <2>10, <3>1, AnswersAppend
      <3>4. Answers(agch', open') /\ Len(agch') = Len(mid) + 1
        BY <2>3, <3>1, <3>2, <3>3, Zenon DEF mid
      <3> QED
        BY <1>0, <1>3, <1>a, <2>3, <2>4, <2>8, <3>4 DEF AgchRoom, AgchBounded
    <2> QED
      BY <2>6, <2>9, <2>10 DEF Merged
  <1> QED
    BY <1>1, <1>2, <1>3

\* Messages are only dropped from the head.
LEMMA DropsBounds ==
    ASSUME NEW k \in Drops, Len(agch) \in Nat
    PROVE  k \in 0 .. Len(agch)
  BY DEF Drops

\* compact_agch_queue() gives up the references of what it drops.
LEMMA CompactKeeps ==
    ASSUME HardLimit \in Nat, Answers(agch, open), AgchBounded, open \subseteq Refs,
           NEW k \in Drops, compact_agch_queue(k)
    PROVE  Answers(agch', open') /\ AgchBounded' /\ open' \subseteq Refs
  <1>1. Len(agch) \in Nat
    BY LenProperties DEF Answers
  <1>2. k \in 0 .. Len(agch)
    BY <1>1, DropsBounds
  <1>3. Answers(agch', open') /\ Len(agch') = Len(agch) - k
    BY <1>2, AnswersSuffix DEF compact_agch_queue
  <1> QED
    BY <1>1, <1>2, <1>3 DEF compact_agch_queue, AgchBounded

\* bts_agch_dequeue() answers those of the message it sends too.
LEMMA DequeueKeeps ==
    ASSUME HardLimit \in Nat, Answers(agch, open), AgchBounded, open \subseteq Refs,
           NEW k \in Drops, NEW kind, bts_agch_dequeue(k, kind)
    PROVE  Answers(agch', open') /\ AgchBounded' /\ open' \subseteq Refs
  <1>1. Len(agch) \in Nat /\ agch \in Seq(Message)
    BY LenProperties DEF Answers
  <1>2. k \in 0 .. Len(agch)
    BY <1>1, DropsBounds
  <1>3. CASE Len(agch) = k
    <2>1. agch' = <<>> /\ open' = open \ RefsOf(agch)
      BY <1>3 DEF bts_agch_dequeue
    <2>2. open' = {}
      BY <2>1 DEF Answers
    <2>3. PICK t : t = <<>>
      OBVIOUS
    <2>4. t \in Seq(Message) /\ DOMAIN t = {} /\ Len(t) = 0
      BY <2>3
    <2>5. Answers(t, {})
      BY <2>4 DEF Answers, RefsOf
    <2>6. Answers(agch', open') /\ Len(agch') = 0 /\ open' \subseteq Refs
      BY <2>1, <2>2, <2>3, <2>4, <2>5, Zenon
    <2> QED
      BY <2>6 DEF AgchBounded
  <1>4. CASE Len(agch) # k
    <2>1. PICK i \in 0 .. Len(agch) : i = k + 1
      BY <1>1, <1>2, <1>4
    <2>2. agch' = SubSeq(agch, i + 1, Len(agch)) /\ open' = open \ RefsOf(SubSeq(agch, 1, i))
      <3>1. i + 1 = k + 2
        BY <1>2, <2>1
      <3> QED
        BY <1>4, <2>1, <3>1 DEF bts_agch_dequeue
    <2>3. Answers(agch', open') /\ Len(agch') = Len(agch) - i
      BY <2>2, AnswersSuffix
    <2> QED
      BY <1>1, <2>1, <2>2, <2>3 DEF AgchBounded
  <1> QED
    BY <1>3, <1>4
-----------------------------------------------------------------------------
(* Counting identities.                                                    *)

NumIdentities(q) == Cardinality(Identities(q))

\* A record is an identity or a MAC block.
LEMMA RecordKinds ==
    ASSUME NEW r \in Record
    PROVE  \/ r.type = "normal" /\ r.id \in Tmsi \cup Imsi /\ r.left \in Nat
           \/ r.type = "macblock"
  BY DEF Record

\* A queue of identities only.
LEMMA CountAll ==
    ASSUME NEW q \in Seq(Record), \A i \in 1 .. Len(q) : q[i].type = "normal"
    PROVE  IsFiniteSet(Identities(q)) /\ NumIdentities(q) = Len(q)
  <1>1. Len(q) \in Nat /\ DOMAIN q = 1 .. Len(q)
    BY LenProperties
  <1>2. Identities(q) = 1 .. Len(q)
    BY <1>1 DEF Identities
  <1>3. \A b \in Nat : IsFiniteSet(1 .. b) /\ Cardinality(1 .. b) = b
    BY FS_Interval
  <1> QED
    BY <1>1, <1>2, <1>3 DEF NumIdentities

LEMMA CountFinite ==
    ASSUME NEW q \in Seq(Record)
    PROVE  IsFiniteSet(Identities(q)) /\ NumIdentities(q) \in Nat
  <1>1. Len(q) \in Nat /\ Identities(q) \in SUBSET (1 .. Len(q))
    BY LenProperties DEF Identities
  <1>2. \A b \in Nat : IsFiniteSet(1 .. b) /\ Cardinality(1 .. b) = b
    BY FS_Interval
  <1>3. IsFiniteSet(Identities(q))
    BY <1>1, <1>2, FS_Subset
  <1> QED
    BY <1>3, FS_CardinalityType DEF NumIdentities

\* One queue behind the other.
LEMMA CountConcat ==
    ASSUME NEW p \in Seq(Record), NEW q \in Seq(Record)
    PROVE  p \o q \in Seq(Record) /\ NumIdentities(p \o q) = NumIdentities(p) + NumIdentities(q)
  <1> DEFINE s == p \o q
             m == Len(p)
             D == {i + m : i \in Identities(q)}
             f == [i \in Identities(q) |-> i + m]
  <1>1. /\ s \in Seq(Record) /\ m \in Nat /\ Len(q) \in Nat
        /\ DOMAIN s = 1 .. (m + Len(q)) /\ DOMAIN p = 1 .. m /\ DOMAIN q = 1 .. Len(q)
        /\ \A i \in 1 .. m : s[i] = p[i]
        /\ \A i \in 1 .. Len(q) : s[m + i] = q[i]
    BY ConcatProperties, LenProperties
  <1> HIDE DEF s, m
  <1>2. Identities(s) = Identities(p) \cup D
    <2>1. ASSUME NEW i \in Identities(s) PROVE i \in Identities(p) \cup D
      <3>1. CASE i <= m
        BY <3>1, <1>1 DEF Identities
      <3>2. CASE i > m
        <4>1. i - m \in 1 .. Len(q) /\ m + (i - m) = i /\ (i - m) + m = i
          BY <3>2, <1>1 DEF Identities
        <4>2. i - m \in Identities(q)
          BY <4>1, <1>1 DEF Identities
        <4> QED
          BY <4>1, <4>2
      <3> QED
        BY <3>1, <3>2, <1>1 DEF Identities
    <2>2. Identities(p) \subseteq Identities(s)
      BY <1>1 DEF Identities
    <2>3. ASSUME NEW i \in Identities(q) PROVE i + m \in Identities(s)
      <3>1. i + m = m + i /\ i + m \in 1 .. (m + Len(q)) /\ i \in 1 .. Len(q)
        BY <1>1 DEF Identities
      <3> QED
        BY <3>1, <1>1 DEF Identities
    <2> QED
      BY <2>1, <2>2, <2>3
  <1>3. Identities(p) \cap D = {}
    BY <1>1 DEF Identities
  <1>4. /\ IsFiniteSet(Identities(q)) /\ IsFiniteSet(Identities(p))
        /\ NumIdentities(p) \in Nat /\ NumIdentities(q) \in Nat
    BY CountFinite
  <1>5. f \in Bijection(Identities(q), D)
    <2>1. \A i \in Identities(q) : i \in Int
      BY <1>1 DEF Identities
    <2> QED
      BY <1>1, <2>1 DEF Bijection, Injection, Surjection, IsInjective
  <1>6. IsFiniteSet(D) /\ Cardinality(D) = NumIdentities(q)
    <2> HIDE DEF D, f
    <2> QED
      BY <1>4, <1>5, FS_Bijection DEF ExistsBijection, NumIdentities
  <1> HIDE DEF D
  <1>7. Cardinality(Identities(p) \cup D) = Cardinality(Identities(p)) + Cardinality(D) - 0
    BY <1>3, <1>4, <1>6, FS_Union, FS_EmptySet
  <1> QED
    BY <1>1, <1>2, <1>4, <1>6, <1>7 DEF NumIdentities, s

\* All queues qs, of which that of group g becomes q.
AllOf(qs) == UNION {{g} \X Identities(qs[g]) : g \in Groups}

LEMMA CountGroup ==
    ASSUME NEW qs \in [Groups -> Seq(Record)], NEW g \in Groups, NEW q \in Seq(Record),
           IsFiniteSet(AllOf(qs))
    PROVE  /\ IsFiniteSet(AllOf([qs EXCEPT ![g] = q]))
           /\ Cardinality(AllOf([qs EXCEPT ![g] = q]))
                = Cardinality(AllOf(qs)) - NumIdentities(qs[g]) + NumIdentities(q)
           /\ NumIdentities(qs[g]) <= Cardinality(AllOf(qs))
  <1> DEFINE rs == [qs EXCEPT ![g] = q]
             A == {x \in AllOf(qs) : x[1] # g}
             B == {g} \X Identities(qs[g])
             C == {g} \X Identities(q)
  <1>1. AllOf(qs) = A \cup B /\ A \cap B = {}
    BY DEF AllOf
  <1>2. AllOf(rs) = A \cup C /\ A \cap C = {}
    <2>1. rs[g] = q /\ \A h \in Groups \ {g} : rs[h] = qs[h]
      OBVIOUS
    <2> HIDE DEF rs
    <2> QED
      BY <2>1 DEF AllOf
  <1>3. /\ IsFiniteSet(Identities(q)) /\ IsFiniteSet(Identities(qs[g]))
        /\ NumIdentities(q) \in Nat /\ NumIdentities(qs[g]) \in Nat
    BY CountFinite
  <1>4. IsFiniteSet({g}) /\ Cardinality({g}) = 1
    BY FS_Singleton
  <1>5. /\ IsFiniteSet(B) /\ Cardinality(B) = NumIdentities(qs[g])
        /\ IsFiniteSet(C) /\ Cardinality(C) = NumIdentities(q)
    <2>1. /\ IsFiniteSet(B) /\ Cardinality(B) = 1 * NumIdentities(qs[g])
          /\ IsFiniteSet(C) /\ Cardinality(C) = 1 * NumIdentities(q)
      BY <1>3, <1>4, FS_Product, Zenon DEF NumIdentities
    <2> HIDE DEF B, C
    <2> QED
      BY <1>3, <2>1
  <1>6. A \in SUBSET AllOf(qs)
    OBVIOUS
  <1> HIDE DEF A, B, C, rs
  <1>7. IsFiniteSet(A) /\ Cardinality(A) \in Nat
    BY <1>6, FS_Subset, FS_CardinalityType
  <1>8. Cardinality(A \cup B) = Cardinality(A) + Cardinality(B) - 0
    BY <1>1, <1>5, <1>7, FS_Union, FS_EmptySet
  <1>9. IsFiniteSet(A \cup C) /\ Cardinality(A \cup C) = Cardinality(A) + Cardinality(C) - 0
    <2>1. IsFiniteSet(A \cup C)
      BY <1>5, <1>7, FS_Union, Zenon
    <2>2. Cardinality(A \cup C) = Cardinality(A) + Cardinality(C) - Cardinality(A \cap C)
      BY <1>5, <1>7, FS_Union, Zenon
    <2>3. Cardinality(A \cap C) = 0
      BY <1>2, FS_EmptySet, Zenon
    <2> QED
      BY <2>1, <2>2, <2>3
  <1>10. /\ Cardinality(AllOf(qs)) = Cardinality(A) + NumIdentities(qs[g])
         /\ Cardinality(AllOf(rs)) = Cardinality(A) + NumIdentities(q)
    BY <1>1, <1>2, <1>3, <1>5, <1>7, <1>8, <1>9
  <1>11. IsFiniteSet(AllOf(rs))
    BY <1>2, <1>9
  <1> QED
    BY <1>3, <1>7, <1>10, <1>11 DEF rs

-----------------------------------------------------------------------------
(* A paging message.                                                       *)

\* The first records of a queue and the others.
LEMMA WindowProps ==
    ASSUME NEW q \in Seq(Record), q # <<>>
    PROVE  /\ Window(q) \in Seq(Record) /\ Len(Window(q)) \in 1 .. 4 /\ Len(Window(q)) <= Len(q)
           /\ \A i \in 1 .. Len(Window(q)) : Window(q)[i] = q[i]
           /\ Rest(q) \in Seq(Record) /\ Len(Rest(q)) = Len(q) - Len(Window(q))
           /\ \A i \in 1 .. Len(Rest(q)) : Rest(q)[i] = q[i + Len(Window(q))]
  <1>1. Len(q) \in Nat /\ Len(q) >= 1
    BY LenProperties, EmptySeq
  <1>b. PICK n \in Nat : n = Len(q) /\ n >= 1
    BY <1>1
  <1>2. PICK m \in 1 .. 4 : m = (IF Len(q) < 4 THEN Len(q) ELSE 4) /\ m <= Len(q)
    <2>1. \E m \in 1 .. 4 : m = (IF n < 4 THEN n ELSE 4) /\ m <= n
      <3>1. CASE n < 4
        BY <1>b, <3>1
      <3>2. CASE ~ (n < 4)
        BY <1>b, <3>2
      <3> QED
        BY <3>1, <3>2
    <2> QED
      BY <1>b, <2>1
  <1>3. Window(q) = SubSeq(q, 1, m)
    BY <1>2 DEF Window
  <1>a. m \in 0 .. Len(q)
    BY <1>1, <1>2
  <1>4. /\ Window(q) \in Seq(Record) /\ Len(Window(q)) = m
        /\ \A i \in 1 .. m : Window(q)[i] = q[i]
    BY <1>a, <1>3, Splits
  <1>5. Rest(q) = SubSeq(q, m + 1, Len(q))
    BY <1>4 DEF Rest
  <1>6. /\ Rest(q) \in Seq(Record) /\ Len(Rest(q)) = Len(q) - m
        /\ \A i \in 1 .. Len(q) - m : Rest(q)[i] = q[i + m]
    BY <1>a, <1>5, Splits
  <1> QED
    BY <1>2, <1>4, <1>6

\* The first MAC block among them.
LEMMA FirstMacProps ==
    ASSUME NEW q \in Seq(Record), q # <<>>
    PROVE  \/ FirstMac(q) = 0 /\ \A i \in 1 .. Len(Window(q)) : Window(q)[i].type = "normal"
           \/ /\ FirstMac(q) \in 1 .. Len(Window(q)) /\ q[FirstMac(q)].type = "macblock"
              /\ \A i \in 1 .. Len(Window(q)) : i < FirstMac(q) => q[i].type = "normal"
  <1> DEFINE w == Window(q)
             I == {i \in 1 .. Len(w) : w[i].type = "macblock"}
  <1>1. /\ Len(w) \in 1 .. 4 /\ \A i \in 1 .. Len(w) : w[i] = q[i] /\ w[i] \in Record
    <2>1. w \in Seq(Record) /\ Len(w) \in 1 .. 4 /\ \A i \in 1 .. Len(w) : w[i] = q[i]
      BY WindowProps
    <2> HIDE DEF w
    <2> QED
      BY <2>1, ElementOfSeq
  <1>2. FirstMac(q) = IF I # {} THEN Min(I) ELSE 0
    BY Zenon DEF FirstMac, SelectInSeq
  <1>3. \A i \in 1 .. Len(w) : w[i].type \in {"normal", "macblock"}
    BY <1>1, RecordKinds
  <1> HIDE DEF w
  <1>4. CASE I = {}
    BY <1>2, <1>3, <1>4 DEF w
  <1>5. CASE I # {}
    <2>1. I \in SUBSET Nat
      OBVIOUS
    <2>2. FirstMac(q) \in I /\ \A i \in I : FirstMac(q) <= i
      <3> HIDE DEF I
      <3> QED
        BY <1>2, <1>5, <2>1, MinIsLeast
    <2>3. FirstMac(q) \in 1 .. Len(w) /\ q[FirstMac(q)].type = "macblock"
      BY <1>1, <2>2
    <2>4. ASSUME NEW i \in 1 .. Len(w), i < FirstMac(q) PROVE q[i].type = "normal"
      BY <1>1, <1>3, <2>2, <2>3, <2>4
    <2> QED
      BY <2>3, <2>4 DEF w
  <1> QED
    BY <1>4, <1>5

\* What becomes of a queue q when out is sent: no identity is lost but those that are
\* freed, no record but those that are sent, and what is sent has the form of its kind.
Delivers(out, q) ==
    /\ out.queue \in Seq(Record)
    /\ out.freed \in Nat /\ NumIdentities(out.queue) = NumIdentities(q) - out.freed
    /\ Range(q) \subseteq Range(out.ids) \cup Range(out.mac) \cup Range(out.queue)
    /\ out.mac = <<>> =>
          \A i \in 1 .. Len(out.ids) :
              pr_is_imsi(out.ids[i]) => Len(out.ids) <= 2 \/ (Len(out.ids) = 3 /\ i = 3)

\* Reverse() keeps the records.
LEMMA ReverseKeeps ==
    ASSUME NEW R, NEW s \in Seq(R)
    PROVE  /\ Reverse(s) \in Seq(R) /\ Len(Reverse(s)) = Len(s)
           /\ \A i \in 1 .. Len(s) : Reverse(s)[i] = s[(Len(s) - i) + 1]
           /\ Range(s) \subseteq Range(Reverse(s))
  <1>1. PICK n \in Nat : n = Len(s) /\ DOMAIN s = 1 .. n
    BY LenProperties
  <1>2. \A i \in 1 .. n : (n - i) + 1 \in 1 .. n /\ (n - ((n - i) + 1)) + 1 = i
    OBVIOUS
  <1>3. \A i \in 1 .. n : s[i] \in R
    BY <1>1, ElementOfSeq
  <1>4. Reverse(s) = [i \in 1 .. n |-> s[(n - i) + 1]]
    BY <1>1 DEF Reverse
  <1>5. Reverse(s) \in [1 .. n -> R]
    BY <1>2, <1>3, <1>4
  <1>6. Reverse(s) \in Seq(R)
    BY <1>5, SeqDef
  <1>7. DOMAIN Reverse(s) = 1 .. n /\ Len(Reverse(s)) = n
    BY <1>1, <1>5, <1>6, LenProperties
  <1>8. \A i \in 1 .. n : Reverse(s)[(n - i) + 1] = s[i]
    BY <1>2, <1>4
  <1>9. Range(s) \subseteq Range(Reverse(s))
    <2>1. ASSUME NEW i \in 1 .. n PROVE s[i] \in Range(Reverse(s))
      <3>1. (n - i) + 1 \in DOMAIN Reverse(s) /\ Reverse(s)[(n - i) + 1] = s[i]
        BY <1>2, <1>7, <1>8
      <3> QED
        BY <3>1, Zenon DEF Range
    <2> QED
      BY <1>1, <2>1, Zenon DEF Range
  <1> QED
    BY <1>1, <1>4, <1>6, <1>7, <1>9

\* The identities up to the k-th record and behind it.
LEMMA CountSplit ==
    ASSUME NEW q \in Seq(Record), NEW k \in 0 .. Len(q)
    PROVE  /\ NumIdentities(q)
                = NumIdentities(SubSeq(q, 1, k)) + NumIdentities(SubSeq(q, k + 1, Len(q)))
           /\ Range(q) = Range(SubSeq(q, 1, k)) \cup Range(SubSeq(q, k + 1, Len(q)))
  <1> DEFINE s == SubSeq(q, 1, k)
             t == SubSeq(q, k + 1, Len(q))
  <1>1. PICK n \in Nat : n = Len(q)
    BY LenProperties
  <1>2. s \in Seq(Record) /\ t \in Seq(Record)
    BY Splits
  <1>3. s \o t = SubSeq(q, 1, Len(q))
    <2>1. 1 \in 1 .. Len(q) + 1 /\ k \in 1 - 1 .. Len(q) /\ Len(q) \in k .. Len(q)
      BY <1>1
    <2> QED
      BY <2>1, ConcatAdjacentSubSeq
  <1>4. s \o t = q
    BY <1>3, SubSeqFull
  <1> HIDE DEF s, t
  <1>5. NumIdentities(q) = NumIdentities(s) + NumIdentities(t)
    BY <1>2, <1>4, CountConcat
  <1>6. Range(q) = Range(s) \cup Range(t)
    BY <1>2, <1>4, RangeConcatenation
  <1> QED
    BY <1>5, <1>6 DEF s, t

\* A MAC block is sent, and the identities before it are put back.
LEMMA MacDelivered ==
    ASSUME NEW q \in Seq(Record), q # <<>>, FirstMac(q) # 0
    PROVE  Delivers(SendMac(q), q)
  <1>1. PICK n \in Nat : n = Len(q) /\ DOMAIN q = 1 .. n
    BY LenProperties
  <1>2. PICK k \in 1 .. n : /\ k = FirstMac(q) /\ q[k].type = "macblock"
                            /\ \A i \in 1 .. k - 1 : q[i].type = "normal"
    <2>1. PICK l \in Nat : l = Len(Window(q)) /\ l <= n
      BY <1>1, WindowProps
    <2>2. /\ FirstMac(q) \in 1 .. l /\ q[FirstMac(q)].type = "macblock"
          /\ \A i \in 1 .. l : i < FirstMac(q) => q[i].type = "normal"
      BY <2>1, FirstMacProps
    <2>3. \A i \in 1 .. FirstMac(q) - 1 : i \in 1 .. l /\ i < FirstMac(q)
      BY <2>2
    <2> QED
      BY <1>1, <2>1, <2>2, <2>3
  <1> DEFINE p == SubSeq(q, 1, k - 1)
             h == SubSeq(q, 1, k)
             t == SubSeq(q, k + 1, Len(q))
  <1>3. p \in Seq(Record) /\ Len(p) = k - 1 /\ \A i \in 1 .. k - 1 : p[i] = q[i]
    <2>1. k - 1 \in 0 .. Len(q)
      BY <1>1
    <2> QED
      BY <2>1, Splits
  <1>4. k \in 0 .. Len(q)
    BY <1>1
  <1>5. h \in Seq(Record) /\ DOMAIN h = 1 .. k /\ \A i \in 1 .. k : h[i] = q[i]
    BY <1>4, Splits
  <1>6. t \in Seq(Record)
    BY <1>4, Splits
  <1>7. NumIdentities(q) = NumIdentities(h) + NumIdentities(t) /\ Range(q) = Range(h) \cup Range(t)
    BY <1>4, CountSplit
  <1>8. SendMac(q) = [mac |-> <<q[k]>>, ids |-> <<>>, freed |-> 0, queue |-> Reverse(p) \o t]
    BY <1>2, Zenon DEF SendMac
  <1> HIDE DEF p, h, t
  <1>9. /\ Reverse(p) \in Seq(Record) /\ Len(Reverse(p)) = k - 1
        /\ \A i \in 1 .. k - 1 : Reverse(p)[i].type = "normal"
        /\ Range(p) \subseteq Range(Reverse(p))
    <2>1. Reverse(p) \in Seq(Record) /\ Range(p) \subseteq Range(Reverse(p))
      BY <1>3, ReverseKeeps
    <2>2. Len(Reverse(p)) = k - 1
      BY <1>3, ReverseKeeps
    <2>3. \A i \in 1 .. Len(p) : Reverse(p)[i] = p[(Len(p) - i) + 1]
      BY <1>3, ReverseKeeps
    <2>4. ASSUME NEW i \in 1 .. k - 1 PROVE Reverse(p)[i].type = "normal"
      <3>1. PICK j \in 1 .. k - 1 : j = (k - 1 - i) + 1
        OBVIOUS
      <3> QED
        BY <1>2, <1>3, <2>3, <3>1
    <2> QED
      BY <2>1, <2>2, <2>4
  <1>10. NumIdentities(Reverse(p)) = k - 1
    BY <1>9, CountAll
  <1>11. NumIdentities(h) = k - 1
    <2>1. Identities(h) = 1 .. k - 1
      BY <1>2, <1>5 DEF Identities
    <2>2. \A b \in Nat : Cardinality(1 .. b) = b
      BY FS_Interval
    <2> QED
      BY <2>1, <2>2 DEF NumIdentities
  <1>12. NumIdentities(Reverse(p) \o t) = NumIdentities(q) /\ Reverse(p) \o t \in Seq(Record)
    BY <1>6, <1>7, <1>9, <1>10, <1>11, CountConcat
  <1>13. Range(q) \subseteq {q[k]} \cup Range(Reverse(p) \o t)
    <2>1. Range(Reverse(p) \o t) = Range(Reverse(p)) \cup Range(t)
      BY <1>6, <1>9, RangeConcatenation
    <2>2. ASSUME NEW i \in 1 .. k, i # k PROVE q[i] \in Range(p)
      <3>1. DOMAIN p = 1 .. k - 1
        BY <1>3, LenProperties
      <3>2. i \in 1 .. k - 1 /\ p[i] = q[i]
        BY <1>3, <2>2
      <3> QED
        BY <3>1, <3>2, Zenon DEF Range
    <2>3. Range(h) \subseteq {q[k]} \cup Range(p)
      BY <1>5, <2>2 DEF Range
    <2> QED
      BY <1>7, <1>9, <2>1, <2>3
  <1>14. NumIdentities(q) \in Nat
    BY CountFinite
  <1>15. q[k] \in Range(<<q[k]>>)
    BY DEF Range
  <1> QED
    BY <1>8, <1>12, <1>13, <1>14, <1>15 DEF Delivers

\* What is at the places.
LEMMA SelectedRange ==
    ASSUME NEW R, NEW s \in Seq(R), NEW I \in SUBSET (1 .. Len(s))
    PROVE  Range(Selected(s, I)) = {s[i] : i \in I}
  <1> DEFINE t == Selected(s, I)
  <1>1. PICK f : Lists(f, t, s, I)
    BY SelectedLists
  <1>2. t \in Seq(R)
    BY SelectedLists
  <1> HIDE DEF t
  <1>3. DOMAIN t = 1 .. Len(t)
    BY <1>2, LenProperties
  <1>4. \A k \in 1 .. Len(t) : f[k] \in I /\ t[k] = s[f[k]]
    BY <1>1 DEF Lists
  <1>5. ASSUME NEW i \in I PROVE s[i] \in Range(t)
    <2>1. PICK k \in 1 .. Len(t) : f[k] = i
      BY <1>1 DEF Lists
    <2>2. k \in DOMAIN t /\ t[k] = s[i]
      BY <1>3, <1>4, <2>1
    <2> QED
      BY <2>2, Zenon DEF Range
  <1>6. Range(t) \subseteq {s[i] : i \in I}
    <2>1. \A k \in 1 .. Len(t) : t[k] \in {s[i] : i \in I}
      BY <1>4
    <2> QED
      BY <1>3, <2>1, Zenon DEF Range
  <1>7. {s[i] : i \in I} \subseteq Range(t)
    BY <1>5
  <1>8. Range(t) = {s[i] : i \in I}
    BY <1>6, <1>7
  <1> QED
    BY <1>8 DEF t

\* The places behind and before, at the length of a sequence of identities.
LEMMA PlacesSplit ==
    ASSUME NEW n \in Nat, NEW I \in SUBSET (1 .. n)
    PROVE  /\ IsFiniteSet(I) /\ Cardinality(I) \in 0 .. n
           /\ Cardinality((1 .. n) \ I) = n - Cardinality(I)
  <1> DEFINE D == 1 .. n
  <1>1. IsFiniteSet(D) /\ Cardinality(D) = n
    BY FS_Interval
  <1>2. I \in SUBSET D /\ D \cap I = I
    OBVIOUS
  <1> HIDE DEF D
  <1>3. IsFiniteSet(I) /\ Cardinality(I) <= n
    BY <1>1, <1>2, FS_Subset
  <1>4. Cardinality(I) \in Nat
    BY <1>3, FS_CardinalityType
  <1>5. Cardinality(D \ I) = n - Cardinality(I)
    <2>1. Cardinality(D \ I) = Cardinality(D) - Cardinality(D \cap I)
      BY <1>1, FS_Difference, Zenon
    <2> QED
      BY <1>1, <1>2, <2>1
  <1> QED
    BY <1>3, <1>4, <1>5 DEF D

\* Sorting keeps the records, the temporary identities come first.
LEMMA Sorted ==
    ASSUME NEW w \in Seq(Record), \A i \in 1 .. Len(w) : w[i].type = "normal"
    PROVE  LET pr == sort_pr_tmsi_imsi(w) IN
           /\ pr \in Seq(Record) /\ Len(pr) = Len(w)
           /\ \A i \in 1 .. Len(w) : pr[i].type = "normal"
           /\ Range(pr) = Range(w)
           /\ Cardinality(Imsis(w)) \in 0 .. Len(w)
           /\ \A i \in 1 .. Len(w) :
                 pr_is_imsi(pr[i]) => i > Len(w) - Cardinality(Imsis(w))
  <1> DEFINE M == Imsis(w)
             T == DOMAIN w \ M
             a == Selected(w, T)
             b == Selected(w, M)
  <1>1. PICK n \in Nat : n = Len(w) /\ DOMAIN w = 1 .. n
    BY LenProperties
  <1>2. M \in SUBSET (1 .. n) /\ T = (1 .. n) \ M /\ T \in SUBSET (1 .. n)
    BY <1>1 DEF Imsis
  <1>3. a \in Seq(Record) /\ b \in Seq(Record)
    BY <1>1, <1>2, SelectedLists
  <1>4. Len(a) = Cardinality(T) /\ Len(b) = Cardinality(M)
    BY <1>1, <1>2, SelectedLen
  <1>5. PICK m \in 0 .. n : m = Cardinality(M) /\ Cardinality(T) = n - m
    BY <1>2, PlacesSplit
  <1>6. Range(a) = {w[i] : i \in T} /\ Range(b) = {w[i] : i \in M}
    BY <1>1, <1>2, SelectedRange
  <1>7. sort_pr_tmsi_imsi(w) = a \o b
    BY Zenon DEF sort_pr_tmsi_imsi
  <1>8. \A i \in M : pr_is_imsi(w[i])
    BY DEF Imsis
  <1>9. \A i \in T : ~ pr_is_imsi(w[i])
    BY DEF Imsis
  <1> DEFINE pr == a \o b
  <1> HIDE DEF a, b, M, T
  <1>10. pr \in Seq(Record) /\ Len(pr) = n /\ Range(pr) = Range(w)
    <2>a. Len(pr) = Len(a) + Len(b)
      BY <1>3, ConcatProperties, Zenon
    <2>1. Len(pr) = (n - m) + m
      BY <1>4, <1>5, <2>a
    <2>2. Range(pr) = Range(a) \cup Range(b)
      BY <1>3, RangeConcatenation
    <2>3. Range(w) = {w[i] : i \in T} \cup {w[i] : i \in M}
      BY <1>1, <1>2 DEF Range
    <2> QED
      BY <1>3, <1>6, <2>1, <2>2, <2>3, ConcatProperties
  <1>11. \A i \in 1 .. n - m : pr[i] = a[i] /\ a[i] \in Range(a)
    <2>1. DOMAIN a = 1 .. n - m
      BY <1>3, <1>4, <1>5, LenProperties
    <2>2. \A i \in 1 .. n - m : pr[i] = a[i]
      BY <1>3, <1>4, <1>5, ConcatProperties
    <2> QED
      BY <2>1, <2>2 DEF Range
  <1>12. ASSUME NEW i \in 1 .. n, pr_is_imsi(pr[i]) PROVE i > n - m
    <2>1. ~ (i \in 1 .. n - m)
      BY <1>6, <1>9, <1>11, <1>12
    <2> QED
      BY <2>1
  <1>13. ASSUME NEW i \in 1 .. n PROVE pr[i].type = "normal"
    <2>1. pr[i] \in Range(pr)
      <3>1. DOMAIN pr = 1 .. n
        BY <1>10, LenProperties
      <3> QED
        BY <3>1, Zenon DEF Range
    <2>2. PICK j \in 1 .. n : pr[i] = w[j]
      BY <1>1, <1>10, <2>1 DEF Range
    <2> QED
      BY <1>1, <2>2
  <1> QED
    BY <1>1, <1>5, <1>7, <1>10, <1>12, <1>13 DEF M

\* Those that are sent: as many as fit, and back to the tail unless their time is over.
LEMMA BackToTail ==
    ASSUME NEW s \in Seq(Record), \A i \in 1 .. Len(s) : s[i].type = "normal"
    PROVE  LET back == Selected(s, DOMAIN s \ Expired(s)) IN
           /\ back \in Seq(Record) /\ NumIdentities(back) = Len(s) - Cardinality(Expired(s))
           /\ Cardinality(Expired(s)) \in 0 .. Len(s)
  <1> DEFINE T == DOMAIN s \ Expired(s)
             b == Selected(s, T)
  <1>1. PICK n \in Nat : n = Len(s) /\ DOMAIN s = 1 .. n
    BY LenProperties
  <1>2. Expired(s) \in SUBSET (1 .. n) /\ T = (1 .. n) \ Expired(s) /\ T \in SUBSET (1 .. n)
    BY <1>1 DEF Expired
  <1>3. Cardinality(Expired(s)) \in 0 .. n /\ Cardinality(T) = n - Cardinality(Expired(s))
    BY <1>2, PlacesSplit
  <1>4. b \in Seq(Record)
    BY <1>1, <1>2, SelectedLists
  <1>5. Len(b) = Cardinality(T)
    BY <1>1, <1>2, SelectedLen
  <1>6. Range(b) = {s[i] : i \in T}
    BY <1>1, <1>2, SelectedRange
  <1> HIDE DEF T, b
  <1>7. \A i \in 1 .. Len(b) : b[i] \in Range(b)
    <2>1. DOMAIN b = 1 .. Len(b)
      BY <1>4, LenProperties
    <2> QED
      BY <2>1, Zenon DEF Range
  <1>8. \A i \in 1 .. Len(b) : b[i].type = "normal"
    BY <1>1, <1>2, <1>6, <1>7
  <1>9. NumIdentities(b) = Len(b)
    BY <1>4, <1>8, CountAll
  <1> QED
    BY <1>1, <1>3, <1>4, <1>5, <1>9 DEF b, T

\* How many of n identities, of which m are permanent, are sent.
LEMMA NumFitProps ==
    ASSUME NEW w, NEW n \in 1 .. 4, n = Len(w), NEW m \in 0 .. n, m = Cardinality(Imsis(w))
    PROVE  /\ NumFit(w) \in 1 .. n
           /\ \A i \in 1 .. NumFit(w) :
                 i > n - m => NumFit(w) <= 2 \/ (NumFit(w) = 3 /\ i = 3)
  <1>1. NumFit(w) = IF n = 4 /\ m = 0 THEN 4
                    ELSE IF n >= 3 /\ m <= 1 THEN 3
                    ELSE IF n = 1 THEN 1 ELSE 2
    BY DEF NumFit
  <1>2. NumFit(w) \in 1 .. n
    BY <1>1
  <1>3. ASSUME NEW i \in 1 .. NumFit(w), i > n - m
        PROVE  NumFit(w) <= 2 \/ (NumFit(w) = 3 /\ i = 3)
    BY <1>1, <1>3
  <1> QED
    BY <1>2, <1>3

\* Identities are sent.
LEMMA IdentitiesDelivered ==
    ASSUME NEW q \in Seq(Record), q # <<>>, FirstMac(q) = 0
    PROVE  Delivers(SendIdentities(q), q)
  <1> DEFINE w == Window(q)
             pr == sort_pr_tmsi_imsi(w)
             k == NumFit(w)
             sent == SubSeq(pr, 1, k)
             kept == SubSeq(pr, k + 1, Len(pr))
             back == Selected(sent, DOMAIN sent \ Expired(sent))
             e == Cardinality(Expired(sent))
  <1>1. PICK n \in 1 .. 4 : n = Len(w) /\ n <= Len(q)
    BY WindowProps
  <1>2. w \in Seq(Record) /\ \A i \in 1 .. n : w[i].type = "normal"
    BY <1>1, WindowProps, FirstMacProps
  <1>3. PICK m \in 0 .. n : m = Cardinality(Imsis(w))
    BY <1>1, <1>2, Sorted
  <1>4. pr \in Seq(Record) /\ Len(pr) = n /\ Range(pr) = Range(w)
    BY <1>1, <1>2, Sorted
  <1>5. \A i \in 1 .. n : pr[i].type = "normal" /\ (pr_is_imsi(pr[i]) => i > n - m)
    BY <1>1, <1>2, <1>3, Sorted
  <1>6. k \in 1 .. n /\ \A i \in 1 .. k : i > n - m => k <= 2 \/ (k = 3 /\ i = 3)
    BY <1>1, <1>3, NumFitProps
  <1>7. NumIdentities(q) = n + NumIdentities(Rest(q)) /\ Range(q) = Range(w) \cup Range(Rest(q))
    <2>1. n \in 0 .. Len(q)
      BY <1>1, LenProperties
    <2>2. SubSeq(q, 1, n) = w /\ SubSeq(q, n + 1, Len(q)) = Rest(q)
      <3>1. w = SubSeq(q, 1, IF Len(q) < 4 THEN Len(q) ELSE 4)
        BY DEF Window
      <3>2. Rest(q) = SubSeq(q, Len(w) + 1, Len(q))
        BY DEF Rest
      <3>3. PICK l \in Nat : l = Len(q)
        BY LenProperties
      <3>4. PICK j \in 0 .. Len(q) : j = IF Len(q) < 4 THEN Len(q) ELSE 4
        BY <3>3
      <3>5. Len(w) = j
        BY <3>1, <3>4, Splits
      <3> QED
        BY <1>1, <3>1, <3>2, <3>4, <3>5
    <2>a. /\ NumIdentities(q)
               = NumIdentities(SubSeq(q, 1, n)) + NumIdentities(SubSeq(q, n + 1, Len(q)))
          /\ Range(q) = Range(SubSeq(q, 1, n)) \cup Range(SubSeq(q, n + 1, Len(q)))
      BY <2>1, CountSplit
    <2>3. /\ NumIdentities(q) = NumIdentities(w) + NumIdentities(Rest(q))
          /\ Range(q) = Range(w) \cup Range(Rest(q))
      BY <2>2, <2>a, Zenon
    <2>4. NumIdentities(w) = n
      BY <1>1, <1>2, CountAll
    <2> QED
      BY <2>3, <2>4
  <1>8. SendIdentities(q) = [mac |-> <<>>, ids |-> sent, freed |-> e,
                             queue |-> (Reverse(kept) \o Rest(q)) \o back]
    BY Zenon DEF SendIdentities
  <1>9. Rest(q) \in Seq(Record)
    BY WindowProps
  <1> HIDE DEF pr, k
  <1>10. k \in 0 .. Len(pr)
    BY <1>4, <1>6
  <1>11. /\ sent \in Seq(Record) /\ Len(sent) = k /\ \A i \in 1 .. k : sent[i] = pr[i]
    BY <1>4, <1>10, Splits
  <1>12. kept \in Seq(Record) /\ Len(kept) = n - k
    BY <1>4, <1>10, Splits
  <1>13. \A i \in 1 .. n - k : kept[i] = pr[i + k]
    BY <1>4, <1>10, Splits
  <1>14. Range(pr) = Range(sent) \cup Range(kept)
    BY <1>4, <1>10, CountSplit
  <1> HIDE DEF sent, kept
  <1>15. \A i \in 1 .. Len(sent) : sent[i].type = "normal"
    BY <1>5, <1>6, <1>11
  <1>16. back \in Seq(Record) /\ NumIdentities(back) = k - e /\ e \in 0 .. k
    BY <1>11, <1>15, BackToTail
  <1> HIDE DEF back, e
  <1>17. Reverse(kept) \in Seq(Record) /\ Range(kept) \subseteq Range(Reverse(kept))
    BY <1>12, ReverseKeeps
  <1>18. NumIdentities(Reverse(kept)) = n - k
    <2>1. Len(Reverse(kept)) = n - k
      BY <1>12, ReverseKeeps
    <2>2. \A i \in 1 .. Len(kept) : Reverse(kept)[i] = kept[(Len(kept) - i) + 1]
      BY <1>12, ReverseKeeps
    <2>3. ASSUME NEW i \in 1 .. n - k PROVE Reverse(kept)[i].type = "normal"
      <3>1. PICK j \in 1 .. n - k : j = (n - k - i) + 1 /\ j + k \in 1 .. n
        BY <1>6
      <3> QED
        BY <1>5, <1>12, <1>13, <2>2, <3>1
    <2> QED
      BY <1>17, <2>1, <2>3, CountAll
  <1> DEFINE p == Reverse(kept) \o Rest(q)
  <1>19. p \in Seq(Record) /\ NumIdentities(p) = (n - k) + NumIdentities(Rest(q))
    BY <1>9, <1>17, <1>18, CountConcat
  <1>20. Range(p) = Range(Reverse(kept)) \cup Range(Rest(q))
    BY <1>9, <1>17, RangeConcatenation
  <1> HIDE DEF p
  <1>21. p \o back \in Seq(Record) /\ NumIdentities(p \o back) = NumIdentities(p) + (k - e)
    BY <1>16, <1>19, CountConcat
  <1>22. Range(p \o back) = Range(p) \cup Range(back)
    BY <1>16, <1>19, RangeConcatenation
  <1>23. NumIdentities(p \o back) = NumIdentities(q) - e
    <2>1. NumIdentities(Rest(q)) \in Nat
      BY <1>9, CountFinite
    <2> QED
      BY <1>6, <1>7, <1>16, <1>19, <1>21, <2>1
  <1>24. Range(q) \subseteq Range(sent) \cup Range(p \o back)
    BY <1>4, <1>7, <1>14, <1>17, <1>20, <1>22
  <1>25. ASSUME NEW i \in 1 .. Len(sent), pr_is_imsi(sent[i])
         PROVE  Len(sent) <= 2 \/ (Len(sent) = 3 /\ i = 3)
    BY <1>5, <1>6, <1>11, <1>25
  <1> QED
    BY <1>8, <1>16, <1>21, <1>23, <1>24, <1>25 DEF Delivers, p

\* Whatever is sent.
LEMMA Delivered ==
    ASSUME NEW q \in Seq(Record), q # <<>>, NEW out \in PagingRequest(q)
    PROVE  Delivers(out, q)
  BY MacDelivered, IdentitiesDelivered DEF PagingRequest
-----------------------------------------------------------------------------
(* The commands.                                                           *)

\* The queues are counted.
QueuesOk(qs, n) ==
    /\ qs \in [Groups -> Seq(Record)]
    /\ IsFiniteSet(AllOf(qs)) /\ n = Cardinality(AllOf(qs))

\* No record is lost.
NoneLost ==
    \A g \in Groups : \A i \in DOMAIN queue[g] :
        Survives(g, queue[g][i]) \/ Aired(g, queue[g][i])

\* An identity lives on.
LEMMA RecordRenewed ==
    ASSUME NEW r \in Record, r.type = "normal", NEW l \in Nat
    PROVE  [r EXCEPT !.left = l] \in Record /\ [r EXCEPT !.left = l].type = "normal"
           /\ [r EXCEPT !.left = l].id = r.id
  <1>1. r \in [type : {"normal"}, id : Tmsi \cup Imsi, left : Nat]
    BY DEF Record
  <1>2. [r EXCEPT !.left = l] \in [type : {"normal"}, id : Tmsi \cup Imsi, left : Nat]
    BY <1>1
  <1>3. [r EXCEPT !.left = l].id = r.id
    BY <1>1
  <1> QED
    BY <1>2, <1>3 DEF Record

\* Records of q are renewed.
LEMMA QueueRenewed ==
    ASSUME NEW q \in Seq(Record), NEW r, DOMAIN r = DOMAIN q, r = [i \in DOMAIN q |-> r[i]],
           \A i \in DOMAIN q : r[i] \in Record /\ r[i].type = q[i].type
    PROVE  r \in Seq(Record) /\ Identities(r) = Identities(q)
  <1>1. PICK n \in Nat : DOMAIN q = 1 .. n
    BY LenProperties
  <1>2. r \in [1 .. n -> Record]
    BY <1>1, Zenon
  <1>3. r \in Seq(Record)
    BY <1>2, SeqDef
  <1> QED
    BY <1>3 DEF Identities

\* The queue of one group changes.
LEMMA GroupChanged ==
    ASSUME NEW g \in Groups, NEW q \in Seq(Record), QueuesOk(queue, num_paging),
           queue' = [queue EXCEPT ![g] = q],
           num_paging' = num_paging - NumIdentities(queue[g]) + NumIdentities(q),
           \A i \in DOMAIN queue[g] : Survives(g, queue[g][i]) \/ Aired(g, queue[g][i])
    PROVE  QueuesOk(queue', num_paging') /\ NoneLost
  <1>1. queue' \in [Groups -> Seq(Record)]
    BY DEF QueuesOk
  <1>2. IsFiniteSet(AllOf(queue')) /\ num_paging' = Cardinality(AllOf(queue'))
    BY CountGroup DEF QueuesOk
  <1>3. \A h \in Groups : h # g => queue'[h] = queue[h]
    BY DEF QueuesOk
  <1>4. ASSUME NEW h \in Groups, h # g, NEW i \in DOMAIN queue[h] PROVE Survives(h, queue[h][i])
    BY <1>3, <1>4 DEF Survives
  <1> QED
    BY <1>1, <1>2, <1>4 DEF QueuesOk, NoneLost

LEMMA Unchanged ==
    ASSUME QueuesOk(queue, num_paging), queue' = queue, num_paging' = num_paging
    PROVE  QueuesOk(queue', num_paging') /\ NoneLost
  BY DEF NoneLost, Survives

\* A record goes to the head of a queue.
LEMMA HeadAdded ==
    ASSUME NEW q \in Seq(Record), NEW r \in Record
    PROVE  /\ <<r>> \o q \in Seq(Record)
           /\ NumIdentities(<<r>> \o q) = (IF r.type = "normal" THEN 1 ELSE 0) + NumIdentities(q)
           /\ \A i \in DOMAIN q : i + 1 \in DOMAIN (<<r>> \o q) /\ (<<r>> \o q)[i + 1] = q[i]
  <1>1. <<r>> \in Seq(Record) /\ Len(<<r>>) = 1 /\ <<r>>[1] = r
    OBVIOUS
  <1>2. NumIdentities(<<r>>) = IF r.type = "normal" THEN 1 ELSE 0
    <2>1. CASE r.type = "normal"
      <3>1. Identities(<<r>>) = {1}
        BY <1>1, <2>1 DEF Identities
      <3> QED
        BY <2>1, <3>1, FS_Singleton DEF NumIdentities
    <2>2. CASE r.type # "normal"
      <3>1. Identities(<<r>>) = {}
        BY <1>1, <2>2 DEF Identities
      <3> QED
        BY <2>2, <3>1, FS_EmptySet DEF NumIdentities
    <2> QED
      BY <2>1, <2>2
  <1>3. PICK n \in Nat : n = Len(q) /\ DOMAIN q = 1 .. n
    BY LenProperties
  <1>4. <<r>> \o q \in Seq(Record) /\ Len(<<r>> \o q) = 1 + n
    BY <1>1, <1>3, ConcatProperties
  <1>5. \A i \in 1 .. 1 + n : i > 1 => (<<r>> \o q)[i] = q[i - 1]
    BY <1>1, <1>3
  <1>6. DOMAIN (<<r>> \o q) = 1 .. (1 + n)
    BY <1>4, LenProperties
  <1>7. ASSUME NEW i \in DOMAIN q
        PROVE  i + 1 \in DOMAIN (<<r>> \o q) /\ (<<r>> \o q)[i + 1] = q[i]
    <2>1. i + 1 \in 1 .. 1 + n /\ i + 1 > 1 /\ (i + 1) - 1 = i
      BY <1>3
    <2> QED
      BY <1>5, <1>6, <2>1
  <1> QED
    BY <1>1, <1>2, <1>4, <1>7, CountConcat

LEMMA AddIdentityKeeps ==
    ASSUME NEW g \in Groups, NEW id \in Identity, QueuesOk(queue, num_paging),
           cfg.lifetime \in Nat, paging_add_identity(g, id)
    PROVE  QueuesOk(queue', num_paging') /\ NoneLost
  <1> DEFINE q == queue[g]
             dup == {i \in DOMAIN q : IsIdentity(q[i], id)}
             renewed == [i \in DOMAIN q |->
                           IF i \in dup THEN [q[i] EXCEPT !.left = cfg.lifetime] ELSE q[i]]
             new == [type |-> "normal", id |-> id, left |-> cfg.lifetime]
  <1>0. q \in Seq(Record)
    BY DEF QueuesOk
  <1>a. DOMAIN q = 1 .. Len(q)
    BY <1>0, LenProperties
  <1>1. CASE UNCHANGED <<queue, num_paging>>
    BY <1>1, Unchanged
  <1>2. CASE queue' = [queue EXCEPT ![g] = renewed] /\ UNCHANGED num_paging
    <2>1. \A i \in DOMAIN q : renewed[i] \in Record /\ renewed[i].type = q[i].type
                              /\ renewed[i].id = q[i].id
      <3>1. ASSUME NEW i \in DOMAIN q, i \in dup
            PROVE  renewed[i] \in Record /\ renewed[i].type = q[i].type /\ renewed[i].id = q[i].id
        <4>1. q[i] \in Record /\ q[i].type = "normal"
          BY <1>0, <1>a, <3>1, ElementOfSeq DEF IsIdentity
        <4>2. renewed[i] = [q[i] EXCEPT !.left = cfg.lifetime]
          BY <3>1, Zenon
        <4> QED
          BY <4>1, <4>2, RecordRenewed, Zenon
      <3>2. ASSUME NEW i \in DOMAIN q, i \notin dup
            PROVE  renewed[i] \in Record /\ renewed[i].type = q[i].type /\ renewed[i].id = q[i].id
        <4>1. q[i] \in Record
          BY <1>0, <1>a, <3>2, ElementOfSeq
        <4>2. renewed[i] = q[i]
          BY <3>2, Zenon
        <4> QED
          BY <4>1, <4>2, Zenon
      <3> QED
        BY <3>1, <3>2
    <2>2. DOMAIN renewed = DOMAIN q /\ renewed = [i \in DOMAIN q |-> renewed[i]]
      BY Zenon
    <2> HIDE DEF renewed
    <2>3. renewed \in Seq(Record) /\ Identities(renewed) = Identities(q)
      BY <1>0, <2>1, <2>2, QueueRenewed
    <2>4. queue'[g] = renewed
      BY <1>2 DEF QueuesOk
    <2>5. \A i \in DOMAIN q : Survives(g, q[i])
      BY <2>1, <2>2, <2>4 DEF Survives
    <2>6. num_paging' = num_paging - NumIdentities(q) + NumIdentities(renewed)
      <3>1. NumIdentities(q) \in Nat /\ NumIdentities(renewed) = NumIdentities(q)
        BY <1>0, <2>3, CountFinite DEF NumIdentities
      <3>2. num_paging \in Nat
        BY FS_CardinalityType DEF QueuesOk
      <3> QED
        BY <1>2, <3>1, <3>2
    <2> HIDE DEF dup
    <2> QED
      BY <1>2, <2>3, <2>5, <2>6, GroupChanged
  <1>3. CASE /\ queue' = [queue EXCEPT ![g] = <<new>> \o q] /\ num_paging' = num_paging + 1
             /\ id \notin TooLong
    <2>1. new \in Record /\ new.type = "normal"
      BY <1>3 DEF Identity, Record
    <2> HIDE DEF new
    <2>2. /\ <<new>> \o q \in Seq(Record) /\ NumIdentities(<<new>> \o q) = 1 + NumIdentities(q)
          /\ \A i \in DOMAIN q : i + 1 \in DOMAIN (<<new>> \o q) /\ (<<new>> \o q)[i + 1] = q[i]
      BY <1>0, <2>1, HeadAdded
    <2>3. queue'[g] = <<new>> \o q
      BY <1>3 DEF QueuesOk
    <2>4. \A i \in DOMAIN q : Survives(g, q[i])
      BY <2>2, <2>3 DEF Survives
    <2>5. num_paging' = num_paging - NumIdentities(q) + NumIdentities(<<new>> \o q)
      <3>1. NumIdentities(q) \in Nat
        BY <1>0, CountFinite
      <3>2. num_paging \in Nat
        BY FS_CardinalityType DEF QueuesOk
      <3> QED
        BY <1>3, <2>2, <3>1, <3>2
    <2> QED
      BY <1>3, <2>2, <2>4, <2>5, GroupChanged
  <1> QED
    BY <1>1, <1>2, <1>3, Zenon DEF paging_add_identity

LEMMA AddMacblockKeeps ==
    ASSUME NEW g \in Groups, NEW m \in MacBlocks, NEW confirm \in BOOLEAN,
           QueuesOk(queue, num_paging), paging_add_macblock(g, m, confirm)
    PROVE  QueuesOk(queue', num_paging') /\ NoneLost
  <1> DEFINE q == queue[g]
             new == [type |-> "macblock", id |-> m, confirm |-> confirm]
  <1>0. q \in Seq(Record)
    BY DEF QueuesOk
  <1>1. CASE queue' = queue
    BY <1>1, Unchanged DEF paging_add_macblock
  <1>2. CASE queue' = [queue EXCEPT ![g] = <<new>> \o q]
    <2>1. new \in Record /\ new.type # "normal"
      BY DEF Record
    <2> HIDE DEF new
    <2>2. /\ <<new>> \o q \in Seq(Record) /\ NumIdentities(<<new>> \o q) = 0 + NumIdentities(q)
          /\ \A i \in DOMAIN q : i + 1 \in DOMAIN (<<new>> \o q) /\ (<<new>> \o q)[i + 1] = q[i]
      BY <1>0, <2>1, HeadAdded
    <2>3. queue'[g] = <<new>> \o q
      BY <1>2 DEF QueuesOk
    <2>4. \A i \in DOMAIN q : Survives(g, q[i])
      BY <2>2, <2>3 DEF Survives
    <2>5. num_paging' = num_paging - NumIdentities(q) + NumIdentities(<<new>> \o q)
      <3>1. NumIdentities(q) \in Nat
        BY <1>0, CountFinite
      <3>2. num_paging \in Nat
        BY FS_CardinalityType DEF QueuesOk
      <3>3. num_paging' = num_paging
        BY DEF paging_add_macblock
      <3> QED
        BY <2>2, <3>1, <3>2, <3>3
    <2> QED
      BY <1>2, <2>2, <2>4, <2>5, GroupChanged
  <1> QED
    BY <1>1, <1>2, Zenon DEF paging_add_macblock

LEMMA TickKeeps ==
    ASSUME QueuesOk(queue, num_paging), PagingTick
    PROVE  QueuesOk(queue', num_paging') /\ NoneLost
  <1> DEFINE aged(g) == [i \in DOMAIN queue[g] |->
                           IF queue[g][i].type = "normal" /\ queue[g][i].left > 0
                           THEN [queue[g][i] EXCEPT !.left = @ - 1] ELSE queue[g][i]]
  <1>1. queue' = [g \in Groups |-> aged(g)] /\ num_paging' = num_paging
    BY Zenon DEF PagingTick
  <1>2. ASSUME NEW g \in Groups
        PROVE  /\ aged(g) \in Seq(Record) /\ Identities(aged(g)) = Identities(queue[g])
               /\ \A i \in DOMAIN queue[g] :
                     /\ i \in DOMAIN aged(g) /\ aged(g)[i].type = queue[g][i].type
                     /\ aged(g)[i].id = queue[g][i].id
    <2> DEFINE q == queue[g]
               a == aged(g)
    <2>1. q \in Seq(Record) /\ DOMAIN q = 1 .. Len(q)
      BY LenProperties DEF QueuesOk
    <2>2. DOMAIN a = DOMAIN q /\ a = [i \in DOMAIN q |-> a[i]]
      BY Zenon
    <2>3. ASSUME NEW i \in DOMAIN q
          PROVE  a[i] \in Record /\ a[i].type = q[i].type /\ a[i].id = q[i].id
      <3>1. q[i] \in Record
        BY <2>1, <2>3, ElementOfSeq
      <3>2. CASE q[i].type = "normal" /\ q[i].left > 0
        <4>1. a[i] = [q[i] EXCEPT !.left = q[i].left - 1]
          BY <2>3, <3>2
        <4>2. q[i].left \in Nat
          BY <3>1, <3>2, RecordKinds
        <4>3. q[i].left - 1 \in Nat
          BY <3>2, <4>2
        <4> QED
          BY <3>1, <3>2, <4>1, <4>3, RecordRenewed, Zenon
      <3>3. CASE ~ (q[i].type = "normal" /\ q[i].left > 0)
        <4>1. a[i] = q[i]
          BY <2>3, <3>3, Zenon
        <4> QED
          BY <3>1, <4>1, Zenon
      <3> QED
        BY <3>2, <3>3
    <2> HIDE DEF a
    <2>4. a \in Seq(Record) /\ Identities(a) = Identities(q)
      BY <2>1, <2>2, <2>3, QueueRenewed
    <2> QED
      BY <2>2, <2>3, <2>4 DEF a
  <1> HIDE DEF aged
  <1>3. queue' \in [Groups -> Seq(Record)] /\ \A g \in Groups : queue'[g] = aged(g)
    BY <1>1, <1>2
  <1>4. AllOf(queue') = AllOf(queue)
    <2>1. \A g \in Groups : Identities(queue'[g]) = Identities(queue[g])
      BY <1>2, <1>3
    <2> QED
      BY <2>1, Zenon DEF AllOf
  <1>5. NoneLost
    BY <1>2, <1>3 DEF NoneLost, Survives
  <1> QED
    BY <1>1, <1>3, <1>4, <1>5 DEF QueuesOk

\* What layer 1 has sent.
LEMMA GenMsgKeeps ==
    ASSUME QueuesOk(queue, num_paging), subch \in Groups, paging_gen_msg
    PROVE  QueuesOk(queue', num_paging') /\ NoneLost /\ FitsMessage'
  <1>1. CASE etws.pages > 0 /\ air' = [kind |-> "etws", page |-> etws.next]
             /\ UNCHANGED <<queue, num_paging>>
    BY <1>1, Unchanged DEF FitsMessage
  <1> DEFINE q == queue[subch]
  <1>2. CASE q # <<>> /\ \E out \in PagingRequest(q) :
                 /\ queue' = [queue EXCEPT ![subch] = out.queue]
                 /\ num_paging' = num_paging - out.freed
                 /\ air' = [kind |-> "pch", group |-> subch, ids |-> out.ids, mac |-> out.mac]
    <2>1. q \in Seq(Record)
      BY DEF QueuesOk
    <2>2. PICK out \in PagingRequest(q) :
                 /\ queue' = [queue EXCEPT ![subch] = out.queue]
                 /\ num_paging' = num_paging - out.freed
                 /\ air' = [kind |-> "pch", group |-> subch, ids |-> out.ids, mac |-> out.mac]
      BY <1>2
    <2>3. Delivers(out, q)
      BY <1>2, <2>1, Delivered
    <2>4. /\ out.queue \in Seq(Record)
          /\ out.freed \in Nat /\ NumIdentities(out.queue) = NumIdentities(q) - out.freed
      BY <2>3 DEF Delivers
    <2>5. num_paging' = num_paging - NumIdentities(q) + NumIdentities(out.queue)
      <3>1. NumIdentities(q) \in Nat
        BY <2>1, CountFinite
      <3>2. num_paging \in Nat
        BY FS_CardinalityType DEF QueuesOk
      <3> QED
        BY <2>2, <2>4, <3>1, <3>2
    <2>6. queue'[subch] = out.queue
      BY <2>2 DEF QueuesOk
    <2>7. ASSUME NEW i \in DOMAIN q PROVE Survives(subch, q[i]) \/ Aired(subch, q[i])
      <3>1. q[i] \in Range(out.ids) \cup Range(out.mac) \cup Range(out.queue)
        <4>1. q[i] \in Range(q)
          BY <2>7 DEF Range
        <4> QED
          BY <2>3, <4>1 DEF Delivers
      <3>2. CASE q[i] \in Range(out.ids) \cup Range(out.mac)
        <4>1. /\ air'.kind = "pch" /\ air'.group = subch
              /\ air'.ids = out.ids /\ air'.mac = out.mac
          BY <2>2
        <4> QED
          BY <3>2, <4>1 DEF Aired
      <3>3. CASE q[i] \in Range(out.queue)
        <4>1. PICK j \in DOMAIN out.queue : out.queue[j] = q[i]
          BY <3>3 DEF Range
        <4> QED
          BY <2>6, <4>1 DEF Survives
      <3> QED
        BY <3>1, <3>2, <3>3
    <2>8. FitsMessage'
      <3>1. out.mac = <<>> => \A i \in 1 .. Len(out.ids) :
                 pr_is_imsi(out.ids[i]) => Len(out.ids) <= 2 \/ (Len(out.ids) = 3 /\ i = 3)
        BY <2>3 DEF Delivers
      <3>2. air'.ids = out.ids /\ air'.mac = out.mac
        BY <2>2
      <3> QED
        BY <3>1, <3>2 DEF FitsMessage, pr_is_imsi
    <2> QED
      BY <2>2, <2>4, <2>5, <2>7, <2>8, GroupChanged
  <1> QED
    BY <1>1, <1>2, Zenon DEF paging_gen_msg
-----------------------------------------------------------------------------
(* The inductive invariant.                                                *)

\* Settings, groups, and the notification: with none, no page is next.
SettingsOk ==
    /\ cs_priority \in BOOLEAN
    /\ cfg \in [max : QueueMaxes, lifetime : Lifetimes]
    /\ groups \in GroupCounts
    /\ subch \in 0 .. groups - 1
    /\ etws \in [pages : 0 .. MaxPages, next : 0 .. MaxPages, cut : BOOLEAN]
    /\ etws.pages = 0 => etws.next = 0
    /\ EtwsPageExists

\* The queue of access grants.
GrantsOk == Answers(agch, open) /\ AgchBounded /\ open \subseteq Refs

CcchIInv ==
    /\ SettingsOk
    /\ QueuesOk(queue, num_paging)
    /\ FitsMessage
    /\ GrantsOk
    /\ max_length \in MaxLengths \cup {0}
    /\ cmds \in 0 .. MaxCmds

LEMMA CcchIInvSuffices == CcchIInv => CcchInv
  <1> SUFFICES ASSUME CcchIInv PROVE CcchInv
    OBVIOUS
  <1>1. AllOf(queue) = Normal
    BY Zenon DEF AllOf, Normal
  <1>2. PagingCounted /\ num_paging \in Nat
    BY <1>1, FS_CardinalityType DEF CcchIInv, QueuesOk, PagingCounted
  <1>3. PagingTypeOK
    BY <1>2 DEF CcchIInv, QueuesOk, SettingsOk, PagingTypeOK
  <1>4. CcchTypeOK
    BY <1>3 DEF CcchIInv, GrantsOk, Answers, CcchTypeOK
  <1>5. AnswersKept /\ AgchBounded
    BY DEF CcchIInv, GrantsOk, Answers, AnswersKept
  <1> QED
    BY <1>2, <1>4, <1>5 DEF CcchIInv, SettingsOk, CcchInv

\* A finite set of numbers has a greatest one.
LEMMA MaxIsGreatest ==
    ASSUME NEW S \in SUBSET Nat, S # {}, IsFiniteSet(S)
    PROVE  Max(S) \in S
  <1>0. PICK n \in Nat : n = Cardinality(S) /\ ExistsBijection(1 .. n, S)
    BY FS_CardinalityType
  <1>1. PICK f : f \in Bijection(1 .. n, S)
    BY <1>0 DEF ExistsBijection
  <1>2. f \in [1 .. n -> S] /\ \A x \in S : \E i \in 1 .. n : f[i] = x
    BY <1>1 DEF Bijection, Injection, Surjection
  <1> DEFINE J == {j \in Nat : \E x \in S : \A i \in 1 .. n : i <= j => f[i] <= x}
  <1>3. 0 \in J
    <2>1. PICK x \in S : TRUE
      OBVIOUS
    <2>2. \A i \in 1 .. n : ~ (i <= 0)
      BY <1>0
    <2> QED
      BY <2>1, <2>2
  <1>4. ASSUME NEW j \in J PROVE j + 1 \in J
    <2>1. PICK x \in S : \A i \in 1 .. n : i <= j => f[i] <= x
      BY <1>4
    <2>2. \A i \in 1 .. n : i <= j + 1 => i <= j \/ i = j + 1
      BY <1>0, <1>4
    <2>3. CASE ~ (j + 1 \in 1 .. n) \/ f[j + 1] <= x
      <3>1. \A i \in 1 .. n : i <= j + 1 => f[i] <= x
        BY <2>1, <2>2, <2>3
      <3> QED
        BY <1>4, <3>1
    <2>4. CASE j + 1 \in 1 .. n /\ ~ (f[j + 1] <= x)
      <3>1. PICK y \in S : y = f[j + 1]
        BY <1>2, <2>4
      <3>2. \A i \in 1 .. n : f[i] \in Nat
        BY <1>2
      <3>3. x \in Nat /\ y \in Nat /\ x <= y
        BY <2>4, <3>1
      <3>4. \A i \in 1 .. n : i <= j => f[i] <= y
        BY <2>1, <3>2, <3>3
      <3>5. \A i \in 1 .. n : i <= j + 1 => f[i] <= y
        BY <2>2, <3>1, <3>3, <3>4
      <3> QED
        BY <1>4, <3>5
    <2> QED
      BY <2>3, <2>4
  <1>5. n \in J
    <2> HIDE DEF J
    <2> QED
      BY <1>0, <1>3, <1>4, SetInduction
  <1>6. \E x \in S : \A y \in S : x >= y
    BY <1>2, <1>5
  <1> QED
    BY <1>6, Zenon DEF Max

LEMMA CcchTypes == HardLimit \in Nat /\ MaxCmds \in Nat
  BY CcchAssumption, SMT

LEMMA CcchInitOk == CcchInit => CcchIInv
  <1> SUFFICES ASSUME CcchInit PROVE CcchIInv
    OBVIOUS
  <1>0. /\ queue = [g \in Groups |-> <<>>] /\ num_paging = 0 /\ cs_priority = FALSE
        /\ cfg = [max |-> Max(QueueMaxes), lifetime |-> Max(Lifetimes)]
        /\ groups = Min(GroupCounts) /\ subch = 0
        /\ etws = [pages |-> 0, next |-> 0, cut |-> FALSE]
        /\ air = [kind |-> "none"] /\ agch = <<>> /\ max_length = 0 /\ open = {} /\ cmds = 0
    BY Zenon DEF CcchInit, PagingInit, Silence
  <1>1. SettingsOk
    <2>1. PICK m \in QueueMaxes, l \in Lifetimes : m = Max(QueueMaxes) /\ l = Max(Lifetimes)
      <3>1. QueueMaxes \in SUBSET Nat /\ Lifetimes \in SUBSET Nat
        BY PagingAssumption
      <3> QED
        BY <3>1, PagingAssumption, MaxIsGreatest
    <2>2. PICK n \in GroupCounts : n = Min(GroupCounts)
      <3>1. GroupCounts \in SUBSET Nat
        BY PagingAssumption
      <3> QED
        BY <3>1, PagingAssumption, MinIsLeast
    <2>3. n \in Nat /\ n >= 1 /\ MaxPages \in Nat
      BY <2>2, PagingAssumption
    <2>4. cfg = [max |-> m, lifetime |-> l] /\ groups = n
      BY <1>0, <2>1, <2>2
    <2>5. 0 \in 0 .. n - 1 /\ 0 \in 0 .. MaxPages
      BY <2>3
    <2>6. cfg \in [max : QueueMaxes, lifetime : Lifetimes]
      BY <2>4
    <2>7. groups \in GroupCounts /\ subch \in 0 .. groups - 1 /\ cs_priority \in BOOLEAN
      <3>1. subch = 0 /\ cs_priority = FALSE
        BY <1>0, Zenon
      <3> QED
        BY <2>4, <2>5, <3>1
    <2>8. etws = [pages |-> 0, next |-> 0, cut |-> FALSE]
      BY <1>0, Zenon
    <2>9. etws \in [pages : 0 .. MaxPages, next : 0 .. MaxPages, cut : BOOLEAN]
      BY <2>5, <2>8
    <2>10. etws.next = 0 /\ EtwsPageExists
      BY <2>8 DEF EtwsPageExists
    <2> QED
      BY <2>6, <2>7, <2>9, <2>10 DEF SettingsOk
  <1>2. QueuesOk(queue, num_paging)
    <2>1. queue \in [Groups -> Seq(Record)]
      BY <1>0, EmptySeq
    <2>2. AllOf(queue) = {}
      BY <1>0 DEF AllOf, Identities
    <2> QED
      BY <1>0, <2>1, <2>2, FS_EmptySet DEF QueuesOk
  <1>3. FitsMessage
    BY <1>0 DEF FitsMessage
  <1>4. GrantsOk
    <2>1. Len(agch) = 0 /\ agch \in Seq(Message)
      BY <1>0, EmptySeq
    <2>2. DOMAIN agch = {}
      BY <1>0
    <2>3. RefsOf(agch) = {}
      BY <2>2 DEF RefsOf
    <2>4. AgchBounded
      BY <2>1, CcchTypes DEF AgchBounded
    <2>5. Answers(agch, open)
      BY <1>0, <2>1, <2>2, <2>3 DEF Answers
    <2> QED
      BY <1>0, <2>4, <2>5 DEF GrantsOk
  <1>5. max_length \in MaxLengths \cup {0} /\ cmds \in 0 .. MaxCmds
    <2>1. MaxCmds \in Nat
      BY CcchTypes
    <2>2. max_length = 0 /\ cmds = 0
      BY <1>0, Zenon
    <2> QED
      BY <2>1, <2>2
  <1> QED
    BY <1>1, <1>2, <1>3, <1>4, <1>5 DEF CcchIInv
-----------------------------------------------------------------------------
(* The steps.                                                              *)

\* What a step leaves alone.
LEMMA SettingsSame ==
    ASSUME SettingsOk, UNCHANGED <<cfg, groups, subch, etws>>, cs_priority' \in BOOLEAN
    PROVE  SettingsOk'
  BY DEF SettingsOk, EtwsPageExists

LEMMA GrantsSame ==
    ASSUME GrantsOk, UNCHANGED <<agch, open>>
    PROVE  GrantsOk'
  BY DEF GrantsOk, AgchBounded

LEMMA CongestionType ==
    ASSUME cs_priority \in BOOLEAN, NEW max
    PROVE  check_congestion(max) \in BOOLEAN
  BY Zenon DEF check_congestion

\* What is sent for somebody else, or nothing.
LEMMA FitsOther ==
    ASSUME air'.kind # "pch"
    PROVE  FitsMessage'
  BY DEF FitsMessage

\* The turn of the next group.
LEMMA NextTurn ==
    ASSUME SettingsOk
    PROVE  (subch + 1) % groups \in 0 .. groups - 1 /\ subch \in Groups
  <1>1. /\ groups \in Nat /\ groups >= 1 /\ groups <= MaxGroups /\ MaxGroups \in Nat
        /\ subch \in 0 .. groups - 1
    BY PagingAssumption DEF SettingsOk
  <1>2. PICK n \in Nat : n = groups /\ n >= 1
    BY <1>1
  <1>3. PICK s \in Nat : s = subch + 1
    BY <1>1
  <1>4. s % n \in 0 .. n - 1
    BY <1>2
  <1>5. subch \in Groups
    BY <1>1 DEF Groups
  <1> QED
    BY <1>2, <1>3, <1>4, <1>5

\* The commands leave the queue of access grants alone, or the paging queues.
LEMMA PagingCmdStep ==
    ASSUME CcchIInv, rsl_rx_paging_cmd
    PROVE  SettingsOk' /\ QueuesOk(queue', num_paging') /\ NoneLost
  <1>1. PICK g \in Groups :
          \/ \E id \in Queued : paging_add_identity(g, id)
          \/ \E kind \in {Tmsi, Imsi, TooLong} :
                kind \ Queued # {} /\ paging_add_identity(g, Min(kind \ Queued))
    BY Zenon DEF rsl_rx_paging_cmd
  <1>2. \E id \in Identity : paging_add_identity(g, id)
    <2>1. ASSUME NEW id \in Queued, paging_add_identity(g, id) PROVE id \in Identity
      <3>1. PICK h \in Groups : \E i \in Identities(queue[h]) : id = queue[h][i].id
        BY <2>1 DEF Queued
      <3>2. PICK i \in Identities(queue[h]) : id = queue[h][i].id
        BY <3>1
      <3>3. queue[h] \in Seq(Record)
        BY DEF CcchIInv, QueuesOk
      <3>4. i \in 1 .. Len(queue[h]) /\ queue[h][i].type = "normal"
        BY <3>3, LenProperties DEF Identities
      <3>5. queue[h][i] \in Record
        BY <3>3, <3>4, ElementOfSeq
      <3> QED
        BY <3>2, <3>4, <3>5, RecordKinds DEF Identity
    <2>2. ASSUME NEW kind \in {Tmsi, Imsi, TooLong}, kind \ Queued # {}
          PROVE  Min(kind \ Queued) \in Identity
      <3>1. kind \ Queued \in SUBSET Nat /\ kind \subseteq Identity
        BY PagingAssumption DEF Identity
      <3>2. Min(kind \ Queued) \in kind \ Queued
        BY <2>2, <3>1, MinIsLeast
      <3> QED
        BY <3>1, <3>2
    <2> QED
      BY <1>1, <2>1, <2>2
  <1>3. PICK id \in Identity : paging_add_identity(g, id)
    BY <1>2
  <1>4. QueuesOk(queue', num_paging') /\ NoneLost
    <2>1. cfg.lifetime \in Nat
      BY PagingAssumption DEF CcchIInv, SettingsOk
    <2> QED
      BY <1>3, <2>1, AddIdentityKeeps DEF CcchIInv
  <1>5. SettingsOk'
    BY <1>3, SettingsSame, CongestionType DEF CcchIInv, SettingsOk, paging_add_identity
  <1> QED
    BY <1>4, <1>5

LEMMA MacCmdStep ==
    ASSUME CcchIInv, pcu_rx_pch
    PROVE  SettingsOk' /\ QueuesOk(queue', num_paging') /\ NoneLost
  <1>1. PICK g \in Groups, m \in MacBlocks, confirm \in BOOLEAN :
            paging_add_macblock(g, m, confirm)
    BY Zenon DEF pcu_rx_pch
  <1>2. QueuesOk(queue', num_paging') /\ NoneLost
    BY <1>1, AddMacblockKeeps DEF CcchIInv
  <1>3. SettingsOk'
    BY <1>1, SettingsSame, CongestionType DEF CcchIInv, SettingsOk, paging_add_macblock
  <1> QED
    BY <1>2, <1>3

LEMMA EtwsStep ==
    ASSUME SettingsOk, NEW n \in 0 .. MaxPages, rsl_rx_osmo_etws_cmd(n)
    PROVE  SettingsOk'
  <1>1. /\ MaxPages \in Nat /\ etws \in [pages : 0 .. MaxPages, next : 0 .. MaxPages, cut : BOOLEAN]
        /\ etws.pages = 0 => etws.next = 0
        /\ etws.pages > 0 /\ ~etws.cut => etws.next < etws.pages
    BY PagingAssumption DEF SettingsOk, EtwsPageExists
  <1>2. etws' = [pages |-> n, next |-> IF n = 0 THEN 0 ELSE etws.next,
                 cut |-> n > 0 /\ (etws.cut \/ n < etws.pages)]
    BY DEF rsl_rx_osmo_etws_cmd
  <1>3. PICK p \in 0 .. MaxPages, x \in 0 .. MaxPages :
            p = etws.pages /\ x = etws.next
    BY <1>1
  <1>4. /\ etws'.pages = n /\ etws'.next = (IF n = 0 THEN 0 ELSE x)
        /\ etws'.cut = (n > 0 /\ (etws.cut \/ n < p))
    BY <1>2, <1>3
  <1>5. etws' \in [pages : 0 .. MaxPages, next : 0 .. MaxPages, cut : BOOLEAN]
    <2>1. (IF n = 0 THEN 0 ELSE x) \in 0 .. MaxPages
      BY <1>1, <1>3
    <2>2. (n > 0 /\ (etws.cut \/ n < p)) \in BOOLEAN
      BY Zenon
    <2> QED
      BY <1>2, <1>3, <2>1, <2>2
  <1>6. EtwsPageExists'
    <2>1. CASE n > 0 /\ ~ etws.cut /\ ~ (n < p)
      <3>1. x < n
        BY <1>1, <1>3, <2>1
      <3> QED
        BY <1>4, <2>1, <3>1 DEF EtwsPageExists
    <2>2. CASE ~ (n > 0 /\ ~ etws.cut /\ ~ (n < p))
      BY <1>4, <2>2 DEF EtwsPageExists
    <2> QED
      BY <2>1, <2>2
  <1>7. etws'.pages = 0 => etws'.next = 0
    BY <1>4
  <1>8. UNCHANGED <<cs_priority, cfg, groups, subch>>
    BY DEF rsl_rx_osmo_etws_cmd
  <1> QED
    BY <1>5, <1>6, <1>7, <1>8 DEF SettingsOk

\* A new message has references of its own.
LEMMA NewMessage ==
    ASSUME open \subseteq Refs, rsl_rx_imm_ass \/ pcu_rx_agch
    PROVE  \E msg \in Message : Range(msg.refs) \cap open = {} /\ bts_agch_enqueue(msg)
  <1>1. \A used : FirstFree(used) \subseteq Refs \ used
    BY DEF FirstFree
  <1>2. ASSUME NEW a \in Refs \ open, NEW confirm \in BOOLEAN
        PROVE  LET msg == [type |-> "ass", refs |-> <<a>>, confirm |-> confirm]
               IN  msg \in Message /\ Range(msg.refs) \cap open = {}
    <2>1. Range(<<a>>) = {a}
      BY DEF Range
    <2>2. [type |-> "ass", refs |-> <<a>>, confirm |-> confirm] \in Message
      BY DEF Message
    <2> QED
      BY <2>1, <2>2
  <1>3. ASSUME NEW s \in Seq(Refs), Len(s) >= 1, Range(s) \cap open = {}
        PROVE  LET msg == [type |-> "rej", refs |-> store_imm_ass_rej_refs(s), confirm |-> FALSE]
               IN  msg \in Message /\ Range(msg.refs) \cap open = {}
    <2> DEFINE r == store_imm_ass_rej_refs(s)
    <2>1. r \in [1 .. 4 -> Refs] /\ Range(r) = {s[i] : i \in {k \in 1 .. Len(s) : k <= 4}}
      BY <1>3, Stored
    <2> HIDE DEF r
    <2>2. Range(r) \subseteq Range(s)
      <3>1. DOMAIN s = 1 .. Len(s)
        BY <1>3, LenProperties
      <3> QED
        BY <2>1, <3>1 DEF Range
    <2>3. [type |-> "rej", refs |-> r, confirm |-> FALSE] \in Message
      BY <2>1 DEF Message
    <2> QED
      BY <1>3, <2>2, <2>3 DEF r
  <1>4. CASE pcu_rx_agch
    BY <1>1, <1>2, <1>4 DEF pcu_rx_agch
  <1>5. CASE rsl_rx_imm_ass
    <2>1. PICK a \in FirstFree(open) :
             \/ bts_agch_enqueue([type |-> "ass", refs |-> <<a>>, confirm |-> FALSE])
             \/ bts_agch_enqueue([type |-> "rej", refs |-> store_imm_ass_rej_refs(<<a>>),
                                  confirm |-> FALSE])
             \/ \E b \in FirstFree(open \cup {a}) : \E c \in FirstFree(open \cup {a, b}) :
                  bts_agch_enqueue([type |-> "rej", refs |-> store_imm_ass_rej_refs(<<a, b, c>>),
                                    confirm |-> FALSE])
      BY <1>5, Zenon DEF rsl_rx_imm_ass
    <2>2. a \in Refs \ open
      BY <1>1
    <2>3. CASE bts_agch_enqueue([type |-> "ass", refs |-> <<a>>, confirm |-> FALSE])
      BY <1>2, <2>2, <2>3
    <2>4. CASE bts_agch_enqueue([type |-> "rej", refs |-> store_imm_ass_rej_refs(<<a>>),
                                  confirm |-> FALSE])
      <3>1. <<a>> \in Seq(Refs) /\ Len(<<a>>) = 1 /\ Range(<<a>>) = {a}
        BY <2>2 DEF Range
      <3>2. Len(<<a>>) >= 1 /\ Range(<<a>>) \cap open = {}
        BY <2>2, <3>1
      <3> QED
        BY <1>3, <2>4, <3>1, <3>2, Zenon
    <2>5. CASE \E b \in FirstFree(open \cup {a}) : \E c \in FirstFree(open \cup {a, b}) :
                  bts_agch_enqueue([type |-> "rej", refs |-> store_imm_ass_rej_refs(<<a, b, c>>),
                                    confirm |-> FALSE])
      <3>1. PICK b \in Refs \ open, c \in Refs \ open :
                  bts_agch_enqueue([type |-> "rej", refs |-> store_imm_ass_rej_refs(<<a, b, c>>),
                                    confirm |-> FALSE])
        <4>1. PICK b \in FirstFree(open \cup {a}) : \E c \in FirstFree(open \cup {a, b}) :
                  bts_agch_enqueue([type |-> "rej", refs |-> store_imm_ass_rej_refs(<<a, b, c>>),
                                    confirm |-> FALSE])
          BY <2>5
        <4>2. PICK c \in FirstFree(open \cup {a, b}) :
                  bts_agch_enqueue([type |-> "rej", refs |-> store_imm_ass_rej_refs(<<a, b, c>>),
                                    confirm |-> FALSE])
          BY <4>1
        <4>3. b \in Refs \ open /\ c \in Refs \ open
          BY <1>1
        <4> QED
          BY <4>2, <4>3
      <3>2. <<a, b, c>> \in Seq(Refs) /\ Len(<<a, b, c>>) = 3
        BY <2>2
      <3>3. Range(<<a, b, c>>) = {a, b, c}
        BY DEF Range
      <3>4. Len(<<a, b, c>>) >= 1 /\ Range(<<a, b, c>>) \cap open = {}
        BY <2>2, <3>2, <3>3
      <3> QED
        BY <1>3, <3>1, <3>2, <3>4, Zenon
    <2> QED
      BY <2>1, <2>3, <2>4, <2>5
  <1> QED
    BY <1>4, <1>5

\* A step that leaves the paging queues alone.
LEMMA QueuesSame ==
    ASSUME CcchIInv, UNCHANGED pagingVars
    PROVE  SettingsOk' /\ QueuesOk(queue', num_paging') /\ NoneLost
  <1>1. UNCHANGED <<queue, num_paging, cs_priority, cfg, groups, subch, etws>>
    BY DEF pagingVars
  <1>2. SettingsOk'
    BY <1>1, SettingsSame DEF CcchIInv, SettingsOk
  <1>3. QueuesOk(queue', num_paging') /\ NoneLost
    BY <1>1, Unchanged DEF CcchIInv
  <1> QED
    BY <1>2, <1>3

LEMMA EnqueueStep ==
    ASSUME CcchIInv, rsl_rx_imm_ass \/ pcu_rx_agch
    PROVE  /\ SettingsOk' /\ QueuesOk(queue', num_paging') /\ NoneLost
           /\ GrantsOk' /\ air' = Silence /\ max_length' = max_length
  <1>1. PICK msg \in Message : Range(msg.refs) \cap open = {} /\ bts_agch_enqueue(msg)
    BY NewMessage DEF CcchIInv, GrantsOk
  <1>2. HardLimit \in Nat
    BY CcchTypes
  <1>3. GrantsOk'
    BY <1>1, <1>2, EnqueueKeeps DEF CcchIInv, GrantsOk
  <1>4. air' = Silence /\ max_length' = max_length /\ UNCHANGED pagingVars
    BY <1>1 DEF bts_agch_enqueue
  <1> QED
    BY <1>3, <1>4, QueuesSame

LEMMA SysinfoStep ==
    ASSUME CcchIInv, NewSysinfo
    PROVE  /\ SettingsOk' /\ QueuesOk(queue', num_paging') /\ NoneLost
           /\ max_length' \in MaxLengths
  <1>1. PICK n \in GroupCounts, len \in MaxLengths, next \in Groups :
            paging_si_update(n, next) /\ max_length' = len
    BY Zenon DEF NewSysinfo
  <1>2. /\ groups' = n /\ subch' = next /\ next < n
        /\ UNCHANGED <<queue, num_paging, cs_priority, cfg, etws>>
    BY <1>1 DEF paging_si_update
  <1>3. next \in 0 .. n - 1
    BY <1>2, PagingAssumption DEF Groups
  <1>4. SettingsOk'
    BY <1>2, <1>3 DEF CcchIInv, SettingsOk, EtwsPageExists
  <1>5. QueuesOk(queue', num_paging') /\ NoneLost
    BY <1>2, Unchanged DEF CcchIInv
  <1> QED
    BY <1>1, <1>4, <1>5

LEMMA VtyStep ==
    ASSUME CcchIInv, VtyPaging
    PROVE  SettingsOk' /\ QueuesOk(queue', num_paging') /\ NoneLost
  <1>1. \/ \E n \in QueueMaxes : paging_set_queue_max(n)
        \/ \E n \in Lifetimes : paging_set_lifetime(n)
    BY Zenon DEF VtyPaging
  <1>2. UNCHANGED <<queue, num_paging, cs_priority, groups, subch, etws>>
    BY <1>1 DEF paging_set_queue_max, paging_set_lifetime
  <1>3. cfg \in [max : QueueMaxes, lifetime : Lifetimes]
    BY DEF CcchIInv, SettingsOk
  <1>4. cfg' \in [max : QueueMaxes, lifetime : Lifetimes]
    BY <1>1, <1>3 DEF paging_set_queue_max, paging_set_lifetime
  <1>5. SettingsOk'
    BY <1>2, <1>4 DEF CcchIInv, SettingsOk, EtwsPageExists
  <1>6. QueuesOk(queue', num_paging') /\ NoneLost
    BY <1>2, Unchanged DEF CcchIInv
  <1> QED
    BY <1>5, <1>6

LEMMA CommandStep ==
    ASSUME CcchIInv, Command
    PROVE  CcchIInv' /\ NoneLost
  <1>1. cmds' \in 0 .. MaxCmds
    <2>1. MaxCmds \in Nat
      BY CcchTypes
    <2> QED
      BY <2>1 DEF CcchIInv, Command
  <1>2. CASE rsl_rx_paging_cmd
    <2>1. air' = Silence /\ UNCHANGED <<agch, max_length, open>>
      BY <1>2, Zenon DEF rsl_rx_paging_cmd
    <2> QED
      BY <1>1, <1>2, <2>1, PagingCmdStep, FitsOther, GrantsSame DEF CcchIInv, Silence
  <1>3. CASE pcu_rx_pch
    <2>1. air' = Silence /\ UNCHANGED <<agch, max_length, open>>
      BY <1>3, Zenon DEF pcu_rx_pch
    <2> QED
      BY <1>1, <1>3, <2>1, MacCmdStep, FitsOther, GrantsSame DEF CcchIInv, Silence
  <1>4. CASE rsl_rx_imm_ass \/ pcu_rx_agch
    BY <1>1, <1>4, EnqueueStep, FitsOther DEF CcchIInv, Silence
  <1>5. CASE NewSysinfo
    <2>1. air' = Silence /\ UNCHANGED <<agch, open>>
      BY <1>5, Zenon DEF NewSysinfo
    <2> QED
      BY <1>1, <1>5, <2>1, SysinfoStep, FitsOther, GrantsSame DEF CcchIInv, Silence
  <1>6. CASE EtwsCmd
    <2>1. air' = Silence /\ UNCHANGED <<agch, max_length, open>>
      BY <1>6, Zenon DEF EtwsCmd
    <2>2. PICK n \in 0 .. MaxPages : rsl_rx_osmo_etws_cmd(n)
      BY <1>6 DEF EtwsCmd
    <2>3. QueuesOk(queue', num_paging') /\ NoneLost
      BY <2>2, Unchanged DEF rsl_rx_osmo_etws_cmd, CcchIInv
    <2>4. SettingsOk'
      BY <2>2, EtwsStep DEF CcchIInv
    <2> QED
      BY <1>1, <2>1, <2>3, <2>4, FitsOther, GrantsSame DEF CcchIInv, Silence
  <1>7. CASE VtyPaging
    <2>1. air' = Silence /\ UNCHANGED <<agch, max_length, open>>
      BY <1>7, Zenon DEF VtyPaging
    <2> QED
      BY <1>1, <1>7, <2>1, VtyStep, FitsOther, GrantsSame DEF CcchIInv, Silence
  <1> QED
    BY <1>2, <1>3, <1>4, <1>5, <1>6, <1>7, Zenon DEF Command

LEMMA PchStep ==
    ASSUME CcchIInv, PchBlock
    PROVE  CcchIInv' /\ NoneLost
  <1>1. HardLimit \in Nat
    BY CcchTypes
  <1>2. UNCHANGED <<max_length, cmds>>
    BY Zenon DEF PchBlock
  <1>3. PICK k \in Drops :
            \/ paging_gen_msg /\ compact_agch_queue(k)
            \/ PchForGrant(k)
    BY Zenon DEF PchBlock
  <1>4. (subch + 1) % groups \in 0 .. groups - 1 /\ subch \in Groups
    BY NextTurn DEF CcchIInv
  <1>5. check_congestion(cfg.max) \in BOOLEAN
    BY CongestionType DEF CcchIInv, SettingsOk
  <1>6. CASE paging_gen_msg /\ compact_agch_queue(k)
    <2>1. QueuesOk(queue', num_paging') /\ NoneLost /\ FitsMessage'
      BY <1>4, <1>6, GenMsgKeeps DEF CcchIInv
    <2>2. GrantsOk'
      BY <1>1, <1>6, CompactKeeps DEF CcchIInv, GrantsOk
    <2>3. cs_priority' \in BOOLEAN /\ subch' \in 0 .. groups - 1 /\ UNCHANGED <<cfg, groups>>
      BY <1>4, <1>5, <1>6 DEF paging_gen_msg
    <2>4. /\ etws' \in [pages : 0 .. MaxPages, next : 0 .. MaxPages, cut : BOOLEAN]
          /\ etws'.pages = 0 => etws'.next = 0
          /\ EtwsPageExists'
      <3>1. CASE UNCHANGED etws
        BY <3>1 DEF CcchIInv, SettingsOk, EtwsPageExists
      <3>2. CASE etws.pages > 0 /\ etws' = [etws EXCEPT !.next = NextPage, !.cut = FALSE]
        <4>1. /\ etws \in [pages : 0 .. MaxPages, next : 0 .. MaxPages, cut : BOOLEAN]
              /\ MaxPages \in Nat
          BY PagingAssumption DEF CcchIInv, SettingsOk
        <4>2. PICK p \in 1 .. MaxPages, x \in Nat : p = etws.pages /\ x = etws.next + 1
          BY <3>2, <4>1
        <4>3. x % p \in 0 .. p - 1
          BY <4>2
        <4>4. PICK y \in 0 .. MaxPages : y = NextPage /\ y < p
          BY <4>1, <4>2, <4>3 DEF NextPage
        <4>5. etws' = [etws EXCEPT !.next = y, !.cut = FALSE]
          BY <3>2, <4>4
        <4>6. etws'.pages = p /\ etws'.next = y
          BY <4>1, <4>2, <4>5
        <4>7. etws' \in [pages : 0 .. MaxPages, next : 0 .. MaxPages, cut : BOOLEAN]
          BY <4>1, <4>4, <4>5
        <4> QED
          BY <4>2, <4>4, <4>6, <4>7 DEF EtwsPageExists
      <3> QED
        BY <1>6, <3>1, <3>2, Zenon DEF paging_gen_msg
    <2>5. SettingsOk'
      BY <2>3, <2>4 DEF CcchIInv, SettingsOk
    <2> QED
      BY <1>2, <2>1, <2>2, <2>5 DEF CcchIInv
  <1>7. CASE PchForGrant(k)
    <2>1. paging_gen_empty /\ bts_agch_dequeue(k, "empty")
      BY <1>7, Zenon DEF PchForGrant
    <2>2. GrantsOk'
      BY <1>1, <2>1, DequeueKeeps DEF CcchIInv, GrantsOk
    <2>3. FitsMessage'
      BY <2>1, FitsOther DEF bts_agch_dequeue
    <2>4. QueuesOk(queue', num_paging') /\ NoneLost
      BY <2>1, Unchanged DEF CcchIInv, paging_gen_empty
    <2>5. SettingsOk'
      BY <1>4, <1>5, <2>1 DEF CcchIInv, SettingsOk, EtwsPageExists, paging_gen_empty
    <2> QED
      BY <1>2, <2>2, <2>3, <2>4, <2>5 DEF CcchIInv
  <1> QED
    BY <1>3, <1>6, <1>7

LEMMA AgchStep ==
    ASSUME CcchIInv, AgchBlock
    PROVE  CcchIInv' /\ NoneLost
  <1>1. HardLimit \in Nat
    BY CcchTypes
  <1>2. UNCHANGED <<pagingVars, max_length, cmds>>
    BY Zenon DEF AgchBlock
  <1>3. PICK k \in Drops : bts_agch_dequeue(k, "none")
    BY Zenon DEF AgchBlock
  <1>4. GrantsOk'
    BY <1>1, <1>3, DequeueKeeps DEF CcchIInv, GrantsOk
  <1>5. FitsMessage'
    BY <1>3, FitsOther DEF bts_agch_dequeue
  <1>6. SettingsOk' /\ QueuesOk(queue', num_paging') /\ NoneLost
    BY <1>2, QueuesSame
  <1> QED
    BY <1>2, <1>4, <1>5, <1>6 DEF CcchIInv

LEMMA TickStep ==
    ASSUME CcchIInv, Tick
    PROVE  CcchIInv' /\ NoneLost
  <1>1. PagingTick /\ air' = Silence /\ UNCHANGED <<agch, max_length, open, cmds>>
    BY Zenon DEF Tick
  <1>2. QueuesOk(queue', num_paging') /\ NoneLost
    BY <1>1, TickKeeps DEF CcchIInv
  <1>3. SettingsOk'
    BY <1>1, SettingsSame DEF CcchIInv, SettingsOk, PagingTick
  <1> QED
    BY <1>1, <1>2, <1>3, FitsOther, GrantsSame DEF CcchIInv, Silence

LEMMA CcchStep ==
    ASSUME CcchIInv, [CcchNext]_ccchvars
    PROVE  CcchIInv' /\ [NoneLost]_ccchvars
  <1>1. CASE CcchNext
    BY <1>1, CommandStep, PchStep, AgchStep, TickStep, Zenon DEF CcchNext
  <1>2. CASE UNCHANGED ccchvars
    <2>1. UNCHANGED pagingVars /\ UNCHANGED <<air, agch, max_length, open, cmds>>
      BY <1>2 DEF ccchvars
    <2>2. SettingsOk' /\ QueuesOk(queue', num_paging')
      BY <2>1, QueuesSame
    <2>3. FitsMessage'
      BY <2>1 DEF CcchIInv, FitsMessage, pr_is_imsi
    <2> QED
      BY <1>2, <2>1, <2>2, <2>3, GrantsSame DEF CcchIInv
  <1> QED
    BY <1>1, <1>2

\* At any time, for any numbers of groups, identities and references: num_paging is the
\* number of identities in all queues, what is sent has the form of its kind, the page of
\* the ETWS notification exists, and each accepted reference is in exactly one message.
THEOREM CcchInvHolds == CcchSpec => []CcchInv
  <1>1. CcchInit => CcchIInv
    BY CcchInitOk
  <1>2. CcchIInv /\ [CcchNext]_ccchvars => CcchIInv'
    BY CcchStep
  <1> QED
    BY <1>1, <1>2, CcchIInvSuffices, PTL DEF CcchSpec

\* No paging record leaves its queue without being sent.
THEOREM NothingLostHolds == CcchSpec => NothingLost
  <1>1. CcchInit => CcchIInv
    BY CcchInitOk
  <1>2. CcchIInv /\ [CcchNext]_ccchvars => CcchIInv'
    BY CcchStep
  <1>3. CcchIInv /\ [CcchNext]_ccchvars => [NoneLost]_ccchvars
    BY CcchStep
  <1> QED
    BY <1>1, <1>2, <1>3, PTL DEF CcchSpec, NothingLost, NoneLost
=============================================================================
