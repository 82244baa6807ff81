----------------------------- MODULE Link_proofs -----------------------------
(***************************************************************************)
(* Proofs about the link to the BSC and what the BSC does over it.  About  *)
(* AbisLink, the link: for any number of TRXs and BSC addresses, with or   *)
(* without an operator who removes some.  About Lchan, a channel: for      *)
(* either BTS model, any number of repetitions (NY1, NY2), any radio link  *)
(* timeout and any number of activations.                                  *)
(***************************************************************************)
EXTENDS AbisLink, Lchan, SequenceTheorems, TLAPS
-----------------------------------------------------------------------------
(***************************************************************************)
(* The A-bis link.                                                         *)
(***************************************************************************)
\* Signalling links exist only below an established connection.
THEOREM LinksOnlyWhenConnectedHolds == Spec => []LinksOnlyWhenConnected
  <1>1. Init => LinksOnlyWhenConnected
    BY DEF Init, LinksOnlyWhenConnected
  <1>2. LinksOnlyWhenConnected /\ [Next]_vars => LinksOnlyWhenConnected'
    <2> SUFFICES ASSUME LinksOnlyWhenConnected, [Next]_vars PROVE LinksOnlyWhenConnected'
      OBVIOUS
    <2>1. CASE abis_link_connecting_onenter
      BY <2>1 DEF abis_link_connecting_onenter, links, LinksOnlyWhenConnected
    <2>2. CASE OmlUp \/ (\E t \in Trx : RslUp(t))
      BY <2>2 DEF OmlUp, RslUp, LinksOnlyWhenConnected
    <2>3. CASE ConnectFails \/ abis_link_connected
      BY <2>3 DEF ConnectFails, abis_link_connected, LinksOnlyWhenConnected
    <2>4. CASE cfg_bts_oml_ip \/ (\E h \in Hosts : cfg_bts_no_oml_ip(h))
      BY <2>4 DEF cfg_bts_oml_ip, cfg_bts_no_oml_ip, links, LinksOnlyWhenConnected
    <2>5. CASE OtherShutdown \/ ShutdownDone \/ UNCHANGED vars
      BY <2>5 DEF OtherShutdown, ShutdownDone, vars, links, LinksOnlyWhenConnected
    <2> QED
      BY <2>1, <2>2, <2>3, <2>4, <2>5 DEF Next
  <1> QED
    BY <1>1, <1>2, PTL DEF Spec

\* No connection is set up or kept in the middle of a shutdown from which the BTS will
\* come back.
THEOREM NoLinkDuringShutdownHolds == Spec => []NoLinkDuringShutdown
  <1>1. Init => NoLinkDuringShutdown
    BY DEF Init, NoLinkDuringShutdown
  <1>2. NoLinkDuringShutdown /\ [Next]_vars => NoLinkDuringShutdown'
    <2> SUFFICES ASSUME NoLinkDuringShutdown, [Next]_vars PROVE NoLinkDuringShutdown'
      OBVIOUS
    <2>1. CASE abis_link_connecting_onenter
      BY <2>1 DEF abis_link_connecting_onenter, NoLinkDuringShutdown
    <2>2. CASE OmlUp \/ (\E t \in Trx : RslUp(t))
      BY <2>2 DEF OmlUp, RslUp, NoLinkDuringShutdown
    <2>3. CASE ConnectFails \/ abis_link_connected
      BY <2>3 DEF ConnectFails, abis_link_connected, NoLinkDuringShutdown
    <2>4. CASE cfg_bts_oml_ip \/ (\E h \in Hosts : cfg_bts_no_oml_ip(h))
      BY <2>4 DEF cfg_bts_oml_ip, cfg_bts_no_oml_ip, NoLinkDuringShutdown
    <2>5. CASE OtherShutdown \/ ShutdownDone \/ UNCHANGED vars
      BY <2>5 DEF OtherShutdown, ShutdownDone, vars, NoLinkDuringShutdown
    <2> QED
      BY <2>1, <2>2, <2>3, <2>4, <2>5 DEF Next
  <1> QED
    BY <1>1, <1>2, PTL DEF Spec

-----------------------------------------------------------------------------
(***************************************************************************)
(* The shutdown as AbisLink sees it is that of module Shutdown.            *)
(***************************************************************************)
\* The part of the type invariant that the step simulation needs.
ShutdownTypes ==
    /\ shutdown \in BOOLEAN /\ exitProc \in BOOLEAN
    /\ process \in {"running", "exited", "aborted", "crashed"}

\* The process goes on, or it fails, when the next BSC is picked.
LEMMA PickProcess ==
    ASSUME process = "running", pick_next_bsc
    PROVE  process' \in {"running", "aborted", "crashed"}
  BY DEF pick_next_bsc

\* A started shutdown stays one, and a request to end the process is kept.
LEMMA AbisCloseAsks ==
    ASSUME ShutdownTypes, process = "running", process' = process, bts_model_abis_close
    PROVE  Abstract!Next /\ shutdown' = TRUE /\ exitProc' \in BOOLEAN
  <1>1. Abstract!Ask(AbisCloseExits)
    BY AbisAssumption DEF bts_model_abis_close, Abstract!Ask, ShutdownTypes
  <1> QED
    BY <1>1, AbisAssumption DEF Abstract!Next, bts_model_abis_close, ShutdownTypes

\* A step that leaves the shutdown alone, in which the process may fail.
LEMMA QuietStep ==
    ASSUME ShutdownTypes, process = "running", process' \in {"running", "aborted", "crashed"},
           UNCHANGED <<shutdown, exitProc>>
    PROVE  ShutdownTypes' /\ [Abstract!Next]_(Abstract!vars)
  <1>1. CASE process' = "running"
    BY <1>1 DEF ShutdownTypes, Abstract!vars
  <1>2. CASE process' \in {"aborted", "crashed"}
    <2>1. Abstract!Fail
      BY <1>2 DEF Abstract!Fail
    <2> QED
      BY <1>2, <2>1 DEF ShutdownTypes, Abstract!Next
  <1> QED
    BY <1>1, <1>2

\* Every step of AbisLink is a step of the abstract shutdown or leaves it alone.
LEMMA ShutdownSimulates ==
    ASSUME ShutdownTypes, [Next]_vars
    PROVE  ShutdownTypes' /\ [Abstract!Next]_(Abstract!vars)
  <1>1. CASE abis_link_connecting_onenter
    <2>1. CASE hosts = <<>> /\ bts_model_abis_close /\ process' = process
      BY <1>1, <2>1, AbisCloseAsks DEF abis_link_connecting_onenter, ShutdownTypes
    <2>2. CASE pick_next_bsc /\ UNCHANGED <<shutdown, exitProc>>
      BY <1>1, <2>2, PickProcess, QuietStep DEF abis_link_connecting_onenter
    <2>3. CASE pick_next_bsc /\ process' = process /\ bts_model_abis_close
      BY <1>1, <2>3, AbisCloseAsks DEF abis_link_connecting_onenter, ShutdownTypes
    <2> QED
      BY <1>1, <2>1, <2>2, <2>3 DEF abis_link_connecting_onenter
  <1>2. CASE OmlUp \/ (\E t \in Trx : RslUp(t)) \/ ConnectFails \/ cfg_bts_oml_ip
    BY <1>2, QuietStep DEF OmlUp, RslUp, ConnectFails, cfg_bts_oml_ip
  <1>3. CASE abis_link_connected
    BY <1>3, AbisCloseAsks DEF abis_link_connected, ShutdownTypes
  <1>4. ASSUME NEW h \in Hosts, cfg_bts_no_oml_ip(h)
        PROVE  ShutdownTypes' /\ [Abstract!Next]_(Abstract!vars)
    <2>1. process' \in {"running", "aborted", "crashed"}
      BY <1>4, PickProcess DEF cfg_bts_no_oml_ip
    <2> QED
      BY <1>4, <2>1, QuietStep DEF cfg_bts_no_oml_ip
  <1>5. CASE OtherShutdown
    <2>1. Abstract!Ask(TRUE)
      BY <1>5 DEF OtherShutdown, Abstract!Ask, ShutdownTypes
    <2> QED
      BY <1>5, <2>1 DEF OtherShutdown, Abstract!Next, ShutdownTypes
  <1>6. CASE ShutdownDone
    <2>1. Abstract!End
      BY <1>6 DEF ShutdownDone, Abstract!End, ShutdownTypes
    <2> QED
      BY <1>6, <2>1 DEF ShutdownDone, Abstract!Next, ShutdownTypes
  <1>7. CASE UNCHANGED vars
    BY <1>7 DEF vars, Abstract!vars, ShutdownTypes
  <1> QED
    BY <1>1, <1>2, <1>3, <1>4, <1>5, <1>6, <1>7 DEF Next

\* What AbisLink assumes of a shutdown - that requests merge, that one to end the
\* process is never lost - is what module Shutdown promises.
THEOREM ImplementsShutdownHolds == Spec => ImplementsShutdown
  <1>1. Init => Abstract!Init /\ ShutdownTypes
    BY DEF Init, Abstract!Init, ShutdownTypes
  <1>2. ShutdownTypes /\ [Next]_vars => ShutdownTypes' /\ [Abstract!Next]_(Abstract!vars)
    BY ShutdownSimulates
  <1> QED
    BY <1>1, <1>2, PTL DEF Spec, ImplementsShutdown, Abstract!Spec

-----------------------------------------------------------------------------
(***************************************************************************)
(* The list of BSCs: no object is on it twice, none is used before it was  *)
(* allocated.                                                              *)
(***************************************************************************)

\* Removing an element moves those behind it up.
LEMMA RemoveAtProps ==
    ASSUME NEW S, NEW s \in Seq(S), NEW i \in 1 .. Len(s)
    PROVE  /\ RemoveAt(s, i) \in Seq(S)
           /\ Len(RemoveAt(s, i)) = Len(s) - 1
           /\ \A j \in 1 .. Len(s) - 1 : RemoveAt(s, i)[j] = s[IF j < i THEN j ELSE j + 1]
  <1> DEFINE a == SubSeq(s, 1, i - 1)
             b == SubSeq(s, i + 1, Len(s))
  <1>0. Len(s) \in Nat /\ i \in Int
    BY LenProperties
  <1>1. /\ a \in Seq(S) /\ Len(a) = i - 1
        /\ \A j \in 1 .. i - 1 : a[j] = s[j]
    BY SubSeqProperties
  <1>2. /\ b \in Seq(S) /\ Len(b) = Len(s) - i
        /\ \A j \in 1 .. Len(s) - i : b[j] = s[i + j]
    BY SubSeqProperties
  <1>3. RemoveAt(s, i) = a \o b
    BY DEF RemoveAt
  <1> HIDE DEF a, b
  <1>4. /\ a \o b \in Seq(S) /\ Len(a \o b) = Len(s) - 1
    <2>1. a \o b \in Seq(S) /\ Len(a \o b) = Len(a) + Len(b)
      BY <1>1, <1>2, ConcatProperties, Zenon
    <2> QED
      BY <1>0, <1>1, <1>2, <2>1
  <1>5. ASSUME NEW j \in 1 .. Len(s) - 1
        PROVE  (a \o b)[j] = s[IF j < i THEN j ELSE j + 1]
    <2>1. CASE j < i
      BY <1>1, <1>2, <2>1
    <2>2. CASE j >= i
      BY <1>1, <1>2, <2>2
    <2>3. j < i \/ j >= i
      BY <1>0
    <2> QED
      BY <2>1, <2>2, <2>3, Zenon
  <1> QED
    BY <1>3, <1>4, <1>5

\* The types, and that a new object is not on the list.
ListInv ==
    /\ TypeOK
    /\ \A i \in 1 .. Len(hosts) : hosts[i] \in 1 .. made

LEMMA ListFacts ==
    ASSUME ListInv
    PROVE  /\ Len(hosts) \in Nat /\ DOMAIN hosts = 1 .. Len(hosts)
           /\ \A i \in 1 .. Len(hosts) : hosts[i] \in 1 .. MaxHosts
           /\ \A i, j \in 1 .. Len(hosts) : hosts[i] = hosts[j] => i = j
  <1>1. hosts \in Seq(Hosts) /\ IsInjective(hosts)
    BY DEF ListInv, TypeOK
  <1>2. Len(hosts) \in Nat /\ DOMAIN hosts = 1 .. Len(hosts)
    BY <1>1
  <1>3. \A i \in 1 .. Len(hosts) : hosts[i] \in Hosts
    BY <1>1
  <1> QED
    BY <1>1, <1>2, <1>3 DEF IsInjective, Hosts

\* Whatever BSC is picked, it is one of the list or the one picked before.
LEMMA PickTypes ==
    ASSUME ListInv, process = "running", pick_next_bsc
    PROVE  /\ cur' \in 0 .. MaxHosts /\ reconnect' \in BOOLEAN
           /\ process' \in {"running", "aborted", "crashed"}
  <1>1. process' \in {"running", "aborted", "crashed"}
    BY PickProcess
  <1>2. reconnect' \in BOOLEAN
    BY DEF pick_next_bsc, ListInv, TypeOK
  <1>3. hosts # <<>> /\ Len(hosts) \in Nat \ {0}
    BY ListFacts DEF pick_next_bsc, ListInv, TypeOK
  <1>4. \A h \in Range(hosts) : h \in 0 .. MaxHosts
    BY ListFacts DEF Range
  <1>5. (cur = 0 \/ cur \in Range(hosts)) => NextBsc \in 0 .. MaxHosts
    <2>1. Head(hosts) = hosts[1] /\ Last(hosts) = hosts[Len(hosts)]
      BY <1>3 DEF Last, ListInv, TypeOK
    <2>2. ASSUME cur \in Range(hosts), cur # Last(hosts) PROVE Successor(cur) \in 0 .. MaxHosts
      <3>1. PICK k \in 1 .. Len(hosts) : hosts[k] = cur
        BY <2>2, ListFacts DEF Range
      <3>2. k + 1 \in 2 .. Len(hosts) /\ hosts[(k + 1) - 1] = cur
        BY <1>3, <2>1, <2>2, <3>1
      <3>3. \E i \in 2 .. Len(hosts) : hosts[i - 1] = cur
        BY <3>2
      <3>4. PICK m : m = CHOOSE i \in 2 .. Len(hosts) : hosts[i - 1] = cur
        OBVIOUS
      <3>5. m \in 2 .. Len(hosts)
        BY <3>3, <3>4
      <3>6. hosts[m] \in 1 .. MaxHosts
        BY <1>3, <3>5, ListFacts
      <3> QED
        BY <3>4, <3>6 DEF Successor
    <2> QED
      BY <1>3, <2>1, <2>2, ListFacts DEF NextBsc
  <1>6. cur' \in 0 .. MaxHosts
    BY <1>4, <1>5 DEF pick_next_bsc, ListInv, TypeOK
  <1> QED
    BY <1>1, <1>2, <1>6

LEMMA AddKeepsList ==
    ASSUME ListInv, cfg_bts_oml_ip
    PROVE  ListInv'
  <1>1. made' = made + 1 /\ hosts' = Append(hosts, made + 1) /\ made + 1 \in 1 .. MaxHosts
    BY AbisAssumption DEF cfg_bts_oml_ip, ListInv, TypeOK, Hosts
  <1>2. /\ hosts' \in Seq(Hosts) /\ Len(hosts') = Len(hosts) + 1
        /\ \A i \in 1 .. Len(hosts) : hosts'[i] = hosts[i]
        /\ hosts'[Len(hosts) + 1] = made + 1
    BY <1>1 DEF ListInv, TypeOK, Hosts
  <1>3. made \in Nat
    BY AbisAssumption DEF ListInv, TypeOK, Hosts
  <1>4. \A i \in 1 .. Len(hosts') : hosts'[i] \in 1 .. made'
    BY <1>1, <1>2, <1>3, ListFacts DEF ListInv
  <1>5. IsInjective(hosts')
    <2> SUFFICES ASSUME NEW i \in 1 .. Len(hosts'), NEW j \in 1 .. Len(hosts'),
                        hosts'[i] = hosts'[j]
                 PROVE  i = j
      BY <1>2 DEF IsInjective
    <2>1. \A k \in 1 .. Len(hosts) : hosts'[k] # made + 1
      BY <1>2, <1>3 DEF ListInv
    <2> QED
      BY <1>2, <2>1, ListFacts
  <1> QED
    BY <1>1, <1>2, <1>4, <1>5 DEF cfg_bts_oml_ip, links, ListInv, TypeOK, Hosts

LEMMA RemoveKeepsList ==
    ASSUME ListInv, NEW h \in Hosts, cfg_bts_no_oml_ip(h)
    PROVE  ListInv'
  <1>1. PICK k \in 1 .. Len(hosts) : hosts' = RemoveAt(hosts, k)
    BY ListFacts DEF cfg_bts_no_oml_ip
  <1>2. /\ hosts' \in Seq(Hosts) /\ Len(hosts') = Len(hosts) - 1
        /\ \A j \in 1 .. Len(hosts) - 1 : hosts'[j] = hosts[IF j < k THEN j ELSE j + 1]
    BY <1>1, RemoveAtProps DEF ListInv, TypeOK
  <1>3. ASSUME NEW j \in 1 .. Len(hosts') PROVE hosts'[j] \in 1 .. made
    <2>1. PICK i \in 1 .. Len(hosts) : hosts'[j] = hosts[i]
      BY SMTT(20), <1>2, ListFacts
    <2> QED
      BY <2>1 DEF ListInv
  <1>4. IsInjective(hosts')
    <2> SUFFICES ASSUME NEW i \in 1 .. Len(hosts'), NEW j \in 1 .. Len(hosts'),
                        hosts'[i] = hosts'[j]
                 PROVE  i = j
      BY <1>2 DEF IsInjective
    <2> DEFINE f(x) == IF x < k THEN x ELSE x + 1
    <2>1. f(i) \in 1 .. Len(hosts) /\ f(j) \in 1 .. Len(hosts) /\ hosts[f(i)] = hosts[f(j)]
      BY <1>2, ListFacts
    <2>2. f(i) = f(j)
      BY <2>1, ListFacts
    <2> QED
      BY <1>2, <2>2, ListFacts
  <1>5. /\ cur' \in 0 .. MaxHosts /\ reconnect' \in BOOLEAN
        /\ process' \in {"running", "aborted", "crashed"}
    <2>1. CASE pick_next_bsc
      BY <2>1, PickTypes DEF cfg_bts_no_oml_ip
    <2>2. CASE cur' \in {cur, 0} /\ UNCHANGED <<reconnect, process>>
      BY <2>2, AbisAssumption DEF cfg_bts_no_oml_ip, ListInv, TypeOK
    <2> QED
      BY <2>1, <2>2 DEF cfg_bts_no_oml_ip
  <1> QED
    BY <1>2, <1>3, <1>4, <1>5 DEF cfg_bts_no_oml_ip, links, ListInv, TypeOK

LEMMA ListStep == ListInv /\ [Next]_vars => ListInv'
  <1> SUFFICES ASSUME ListInv, [Next]_vars PROVE ListInv'
    OBVIOUS
  <1>1. bts_model_abis_close => shutdown' \in BOOLEAN /\ exitProc' \in BOOLEAN
    BY AbisAssumption DEF bts_model_abis_close, ListInv, TypeOK
  <1>2. CASE abis_link_connecting_onenter
    <2>1. /\ cur' \in 0 .. MaxHosts /\ reconnect' \in BOOLEAN
          /\ process' \in {"running", "exited", "aborted", "crashed"}
      <3>1. CASE pick_next_bsc
        BY <1>2, <3>1, PickTypes DEF abis_link_connecting_onenter
      <3>2. CASE UNCHANGED <<cur, reconnect, process>>
        BY <3>2 DEF ListInv, TypeOK
      <3> QED
        BY <1>2, <3>1, <3>2 DEF abis_link_connecting_onenter
    <2>2. shutdown' \in BOOLEAN /\ exitProc' \in BOOLEAN
      BY <1>1, <1>2 DEF abis_link_connecting_onenter, ListInv, TypeOK
    <2>3. st' \in {"CONNECTING", "FAILED"}
      BY <1>2 DEF abis_link_connecting_onenter
    <2>4. UNCHANGED <<hosts, made, oml, rsl>>
      BY <1>2 DEF abis_link_connecting_onenter, links
    <2> QED
      BY <2>1, <2>2, <2>3, <2>4 DEF ListInv, TypeOK
  <1>3. CASE OmlUp \/ (\E t \in Trx : RslUp(t)) \/ ConnectFails
    BY <1>3 DEF OmlUp, RslUp, ConnectFails, ListInv, TypeOK
  <1>4. CASE abis_link_connected
    BY <1>1, <1>4 DEF abis_link_connected, ListInv, TypeOK
  <1>5. CASE OtherShutdown \/ ShutdownDone \/ UNCHANGED vars
    BY <1>5 DEF OtherShutdown, ShutdownDone, vars, links, ListInv, TypeOK
  <1> QED
    BY <1>2, <1>3, <1>4, <1>5, AddKeepsList, RemoveKeepsList DEF Next

\* For any number of TRXs and BSC addresses the links, the list of BSCs (abis.c, vty.c) and the
\* shutdown fit together, whatever the operator adds and removes.
THEOREM AbisInvHolds == Spec => []AbisInv
  <1>1. Init => ListInv
    <2> SUFFICES ASSUME Init PROVE ListInv
      OBVIOUS
    <2>1. hosts = <<1>> /\ made = 1 /\ cur = 1
      BY DEF Init
    <2>2. 1 \in Hosts /\ 1 \in 0 .. MaxHosts
      BY AbisAssumption DEF Hosts
    <2>3. hosts \in Seq(Hosts) /\ Len(hosts) = 1 /\ hosts[1] = 1
      BY <2>1, <2>2
    <2>4. IsInjective(hosts)
      BY <2>3 DEF IsInjective
    <2>5. \A i \in 1 .. Len(hosts) : hosts[i] \in 1 .. made
      BY <2>1, <2>3
    <2>6. TypeOK
      BY <2>1, <2>2, <2>3, <2>4 DEF Init, TypeOK
    <2> QED
      BY <2>5, <2>6 DEF ListInv
  <1>2. ListInv => TypeOK
    BY DEF ListInv
  <1>3. TypeOK /\ LinksOnlyWhenConnected /\ NoLinkDuringShutdown => AbisInv
    BY DEF AbisInv
  <1> QED
    BY <1>1, <1>2, <1>3, ListStep, LinksOnlyWhenConnectedHolds, NoLinkDuringShutdownHolds, PTL
       DEF Spec

-----------------------------------------------------------------------------
(***************************************************************************)
(* The channel.  What the properties say of an active channel rests on     *)
(* what an inactive one keeps (Clean), on the agreement of the channel     *)
(* with what the BSC uses it for (Agreed), and on where an assignment that *)
(* waits comes from (IaCurrent).                                           *)
(***************************************************************************)
\* A channel that is not active has nothing of its last use.
Clean ==
    ~lc.active => \/ ~Undisturbed
                  \/ lc.ho = "NONE" /\ lc.talker = "NONE" /\ ~lc.listener /\ ~lc.free

\* Channel and BSC agree on the use, and an activation waits only for an inactive channel.
Agreed ==
    /\ lc.pending # Nothing =>
          /\ ~lc.active
          /\ bsc.use # "none" => lc.pending.kind = bsc.use
          /\ Undisturbed => bsc.use # "none"
    /\ bsc.use # "none" =>
          /\ ~lc.active => lc.pending # Nothing
          /\ lc.active => lc.rt = RtOf(bsc.use)

\* A talker is one of a group call.
TalkerInGroup == lc.talker # "NONE" => lc.rt = "vgcs" \/ ~Undisturbed

\* An assignment that is kept belongs to the present request.
IaCurrent == lc.ia # 0 => (lc.ia = bsc.req /\ bsc.use = "normal") \/ ~Undisturbed

Inv == LchanInv /\ Clean /\ Agreed /\ TalkerInGroup /\ IaCurrent


-----------------------------------------------------------------------------
(* The operators on the state of the channel.                              *)

Pendings == {Nothing} \cup [kind : Kinds, verdict : Verdicts]

\* The bounds of the counters are in their ranges.
LEMMA Bounds ==
    /\ Rlt \in 0 .. Rlt /\ 0 \in 0 .. MaxActs /\ 0 \in 0 .. Ny2 /\ 1 \in 0 .. Ny1 /\ 1 \in 0 .. Ny2
    /\ \A s \in 0 .. Rlt : /\ s # 0 => s - 1 \in 0 .. Rlt
                          /\ s + 2 <= Rlt => s + 2 \in 0 .. Rlt
    /\ \A p \in 0 .. Ny1 : p < Ny1 => p + 1 \in 0 .. Ny1
    /\ \A g \in 0 .. Ny2 : g < Ny2 => g + 1 \in 0 .. Ny2
  BY LchanAssumption

\* Setting a field to a value of its type.
LEMMA SetPending ==
    ASSUME NEW l \in LchanState, NEW p \in Pendings
    PROVE  [l EXCEPT !.pending = p] \in LchanState
  BY DEF LchanState, Pendings
LEMMA SetIa ==
    ASSUME NEW l \in LchanState, NEW n \in 0 .. MaxActs, NEW d \in BOOLEAN
    PROVE  /\ [l EXCEPT !.ia = n] \in LchanState
           /\ [l EXCEPT !.delay = d, !.ia = n] \in LchanState
  BY DEF LchanState
LEMMA SetS ==
    ASSUME NEW l \in LchanState, NEW n \in 0 .. Rlt
    PROVE  [l EXCEPT !.s = n] \in LchanState
  BY DEF LchanState
LEMMA SetTalker ==
    ASSUME NEW l \in LchanState, NEW t \in {"NONE", "WAIT_FRAME", "ACTIVE"}, NEW n \in 0 .. Rlt
    PROVE  /\ [l EXCEPT !.talker = t, !.s = n] \in LchanState
           /\ [l EXCEPT !.t3115 = FALSE, !.talker = t, !.s = n] \in LchanState
  BY DEF LchanState
LEMMA SetGrants ==
    ASSUME NEW l \in LchanState, NEW t \in {"NONE", "WAIT_FRAME", "ACTIVE"}, NEW g \in 0 .. Ny2
    PROVE  /\ [l EXCEPT !.talker = t, !.grants = g, !.t3115 = TRUE] \in LchanState
           /\ [l EXCEPT !.t3115 = FALSE, !.grants = g, !.talker = t] \in LchanState
           /\ [l EXCEPT !.grants = g] \in LchanState
           /\ [l EXCEPT !.t3115 = FALSE] \in LchanState
  BY DEF LchanState
LEMMA SetHo ==
    ASSUME NEW l \in LchanState, NEW h \in {"NONE", "ENABLED", "WAIT_FRAME"},
           NEW r \in {"normal", "vgcs"}
    PROVE  /\ [l EXCEPT !.rt = r, !.ho = h] \in LchanState
           /\ [l EXCEPT !.ho = h] \in LchanState
  BY DEF LchanState
LEMMA SetPhys ==
    ASSUME NEW l \in LchanState, NEW p \in 0 .. Ny1
    PROVE  /\ [l EXCEPT !.ho = "WAIT_FRAME", !.phys = p, !.t3105 = TRUE] \in LchanState
           /\ [l EXCEPT !.phys = p] \in LchanState
           /\ [l EXCEPT !.t3105 = FALSE] \in LchanState
  BY DEF LchanState
LEMMA SetFlags ==
    ASSUME NEW l \in LchanState, NEW b \in BOOLEAN, NEW c \in BOOLEAN
    PROVE  /\ [l EXCEPT !.listener = b] \in LchanState
           /\ [l EXCEPT !.free = b] \in LchanState
           /\ [l EXCEPT !.listener = b, !.free = c] \in LchanState
  BY DEF LchanState

\* What the operators do to a channel.
LEMMA ChanActTyped ==
    ASSUME NEW l \in LchanState
    PROVE  l1sap_chan_act(l) \in LchanState
  BY Bounds DEF LchanState, l1sap_chan_act

LEMMA HandoverReset ==
    ASSUME NEW l \in LchanState
    PROVE  handover_reset(l) \in LchanState
  BY DEF LchanState, handover_reset

LEMMA TalkerReset ==
    ASSUME NEW l \in LchanState
    PROVE  talker_reset(l) \in LchanState
  BY DEF LchanState, talker_reset

LEMMA SetNoneTyped ==
    ASSUME NEW l \in LchanState
    PROVE  SetNone(l) \in LchanState
  <1>1. Nothing \in Pendings
    BY DEF Pendings
  <1> QED
    BY <1>1, Bounds, ZenonT(60) DEF LchanState, SetNone, Pendings

LEMMA ReleaseTyped ==
    ASSUME NEW l \in LchanState
    PROVE  gsm_lchan_release(l) \in LchanState
  <1> DEFINE t == talker_reset(handover_reset(l))
  <1>1. t \in LchanState
    BY HandoverReset, TalkerReset
  <1> HIDE DEF t
  <1>2. [t EXCEPT !.listener = FALSE, !.free = FALSE] \in LchanState
    BY <1>1, SetFlags
  <1> QED
    BY <1>2, SetNoneTyped DEF gsm_lchan_release, t

LEMMA RltTyped ==
    ASSUME NEW l \in LchanState, NEW bad \in BOOLEAN
    PROVE  radio_link_timeout(l, bad) \in LchanState
  <1> DEFINE n == IF l.s + 2 > Rlt THEN Rlt ELSE l.s + 2
  <1>1. l.s \in 0 .. Rlt
    BY DEF LchanState
  <1>2. n \in 0 .. Rlt
    BY <1>1, LchanAssumption
  <1>3. l.s # 0 => l.s - 1 \in 0 .. Rlt
    BY <1>1, LchanAssumption
  <1> HIDE DEF n
  <1>4. [l EXCEPT !.s = n] \in LchanState
    BY <1>2, SetS
  <1>5. l.s # 0 => [l EXCEPT !.s = l.s - 1] \in LchanState
    BY <1>3, SetS
  <1> QED
    BY <1>4, <1>5 DEF radio_link_timeout, n

LEMMA FirstFrameTyped ==
    ASSUME NEW l \in LchanState
    PROVE  FirstFrame(l) \in LchanState
  <1> DEFINE h == IF l.ho = "WAIT_FRAME" THEN handover_reset(l) ELSE l
  <1>1. h \in LchanState
    BY HandoverReset, Zenon
  <1> HIDE DEF h
  <1>2. [h EXCEPT !.t3115 = FALSE, !.talker = "ACTIVE", !.s = Rlt] \in LchanState
    BY <1>1, Bounds, SetTalker
  <1> QED
    BY <1>1, <1>2 DEF FirstFrame, h

\* Every step leaves a channel.
LEMMA StateTyped == LchanTypeOK /\ LchanNext => lc' \in LchanState
  <1> SUFFICES ASSUME LchanTypeOK, LchanNext PROVE lc' \in LchanState
    OBVIOUS
  <1>t. /\ lc \in LchanState
        /\ lc.phys \in 0 .. Ny1 /\ lc.grants \in 0 .. Ny2
        /\ lc.pending \in Pendings /\ Nothing \in Pendings
        /\ bsc.req \in 0 .. MaxActs
    BY DEF LchanTypeOK, LchanState, Pendings
  <1>1. ASSUME NEW k \in Kinds, NEW v \in Verdicts, rsl_rx_chan_activ([kind |-> k, verdict |-> v])
        PROVE  lc' \in LchanState
    <2>1. [kind |-> k, verdict |-> v] \in Pendings
      BY DEF Pendings
    <2> QED
      BY <1>1, <1>t, <2>1, SetPending DEF rsl_rx_chan_activ
  <1>2. CASE TsConnected
    <2> DEFINE l == [lc EXCEPT !.pending = Nothing]
               m == lc.pending
               ho == IF m.kind = "handover" THEN "ENABLED" ELSE l.ho
               set == [l EXCEPT !.rt = RtOf(m.kind), !.ho = ho]
    <2>1. l \in LchanState
      BY <1>t, SetPending
    <2>2. ho \in {"NONE", "ENABLED", "WAIT_FRAME"} /\ l.ho \in {"NONE", "ENABLED", "WAIT_FRAME"}
      BY <2>1 DEF LchanState
    <2>3. RtOf(m.kind) \in {"normal", "vgcs"}
      BY DEF RtOf
    <2>4. \/ lc' = [set EXCEPT !.ho = l.ho]
          \/ lc' = set
          \/ lc' = l1sap_chan_act(set)
      BY <1>2, Zenon DEF TsConnected, ActivateChannel, Refuse
    <2> HIDE DEF l, ho
    <2>5. set \in LchanState
      BY <2>1, <2>2, <2>3, SetHo, ZenonT(60)
    <2> HIDE DEF set
    <2> QED
      BY <2>2, <2>4, <2>5, ChanActTyped, SetHo
  <1>3. CASE vgcs_lchan_react
    BY <1>3, <1>t, Bounds, SetTalker DEF vgcs_lchan_react
  <1>4. CASE rsl_rx_imm_ass
    BY <1>4, <1>t, SetIa DEF rsl_rx_imm_ass
  <1>5. CASE early_rr_ia_delay_cb
    BY <1>5, <1>t, Bounds, SetIa DEF early_rr_ia_delay_cb
  <1>6. CASE rsl_rx_rf_chan_rel
    BY <1>6, <1>t, ReleaseTyped DEF rsl_rx_rf_chan_rel
  <1>7. CASE AbisLost
    BY <1>7, <1>t, SetNoneTyped, ReleaseTyped DEF AbisLost
  <1>8. CASE handover_rach
    BY <1>8, <1>t, Bounds, SetPhys DEF handover_rach
  <1>9. CASE ho_t3105_cb
    BY <1>9, <1>t, Bounds, SetPhys DEF ho_t3105_cb
  <1>10. ASSUME NEW listens \in BOOLEAN, vgcs_rach(listens) PROVE lc' \in LchanState
    <2>1. \/ lc' = [lc EXCEPT !.listener = TRUE]
          \/ lc' = [lc EXCEPT !.talker = "WAIT_FRAME", !.grants = 1, !.t3115 = TRUE]
          \/ lc' = lc
      BY <1>10 DEF vgcs_rach
    <2>2. [lc EXCEPT !.listener = TRUE] \in LchanState
      BY <1>t, SetFlags
    <2>3. [lc EXCEPT !.talker = "WAIT_FRAME", !.grants = 1, !.t3115 = TRUE] \in LchanState
      BY <1>t, Bounds, SetGrants
    <2> QED
      BY <1>t, <2>1, <2>2, <2>3
  <1>11. CASE vgcs_t3115_cb
    <2>1. \/ lc.grants < Ny2 /\ lc' = [lc EXCEPT !.grants = lc.grants + 1]
          \/ lc' = [lc EXCEPT !.t3115 = FALSE, !.grants = 0, !.talker = "NONE"]
          \/ lc' = [lc EXCEPT !.t3115 = FALSE]
      BY <1>11 DEF vgcs_t3115_cb
    <2>2. lc.grants < Ny2 => [lc EXCEPT !.grants = lc.grants + 1] \in LchanState
      BY <1>t, Bounds, SetGrants, ZenonT(60)
    <2>3. /\ [lc EXCEPT !.t3115 = FALSE, !.grants = 0, !.talker = "NONE"] \in LchanState
          /\ [lc EXCEPT !.t3115 = FALSE] \in LchanState
      BY <1>t, Bounds, SetGrants
    <2> QED
      BY <2>1, <2>2, <2>3
  <1>12. ASSUME NEW sacch \in BOOLEAN, NEW bad \in BOOLEAN, l1sap_ph_data_ind(sacch, bad)
         PROVE  lc' \in LchanState
    BY <1>12, <1>t, RltTyped, FirstFrameTyped DEF l1sap_ph_data_ind
  <1>13. CASE vgcs_talker_reset
    BY <1>13, <1>t, TalkerReset DEF vgcs_talker_reset
  <1>14. ASSUME NEW free \in BOOLEAN, UplinkMessage(free) PROVE lc' \in LchanState
    BY <1>14, <1>t, SetFlags DEF UplinkMessage
  <1> QED
    BY <1>1, <1>2, <1>3, <1>4, <1>5, <1>6, <1>7, <1>8, <1>9, <1>10, <1>11, <1>12, <1>13, <1>14
    DEF LchanNext

\* What the other variables are.
Rest ==
    /\ model \in Models
    /\ rach \in BOOLEAN
    /\ bsc \in [use : Kinds \cup {"none"}, req : 0 .. MaxActs, failed : BOOLEAN]
    /\ agch \in 0 .. MaxActs
    /\ odd \subseteq {"refused", "early", "lost", "closed"}

LEMMA RestStep == LchanTypeOK /\ LchanNext => Rest'
  <1> SUFFICES ASSUME LchanTypeOK, LchanNext PROVE Rest'
    OBVIOUS
  <1>t. /\ rach \in BOOLEAN /\ lc.active \in BOOLEAN /\ lc.ia \in 0 .. MaxActs
        /\ model \in Models /\ agch \in 0 .. MaxActs
        /\ bsc \in [use : Kinds \cup {"none"}, req : 0 .. MaxActs, failed : BOOLEAN]
        /\ odd \subseteq {"refused", "early", "lost", "closed"}
    BY DEF LchanTypeOK, LchanState
  <1>1. ASSUME NEW k \in Kinds, NEW v \in Verdicts, rsl_rx_chan_activ([kind |-> k, verdict |-> v])
        PROVE  Rest'
    <2>1. bsc.req + 1 \in 0 .. MaxActs
      BY <1>t, <1>1, LchanAssumption DEF rsl_rx_chan_activ
    <2>2. \/ bsc' = [bsc EXCEPT !.req = bsc.req + 1]
          \/ bsc' = [use |-> k, req |-> bsc.req + 1, failed |-> FALSE]
      BY <1>1 DEF rsl_rx_chan_activ
    <2>3. bsc' \in [use : Kinds \cup {"none"}, req : 0 .. MaxActs, failed : BOOLEAN]
      <3>1. CASE bsc' = [bsc EXCEPT !.req = bsc.req + 1]
        <4> DEFINE n == bsc.req + 1
        <4> HIDE DEF n
        <4> QED
          BY <1>t, <2>1, <3>1 DEF n
      <3>2. CASE bsc' = [use |-> k, req |-> bsc.req + 1, failed |-> FALSE]
        BY <2>1, <3>2
      <3> QED
        BY <2>2, <3>1, <3>2
    <2> QED
      BY <1>t, <1>1, <2>3 DEF Rest, rsl_rx_chan_activ
  <1>2. CASE TsConnected
    BY <1>t, <1>2, LchanAssumption
    DEF Rest, TsConnected, ActivateChannel, Refuse, DetectsAtOnce, Fails
  <1>3. CASE vgcs_lchan_react
    BY <1>t, <1>3, LchanAssumption DEF Rest, vgcs_lchan_react, Fails
  <1>4. CASE rsl_rx_imm_ass
    BY <1>t, <1>4, LchanAssumption DEF Rest, rsl_rx_imm_ass
  <1>5. CASE early_rr_ia_delay_cb
    BY <1>t, <1>5, LchanAssumption DEF Rest, early_rr_ia_delay_cb
  <1>6. CASE rsl_rx_rf_chan_rel
    BY <1>t, <1>6, LchanAssumption DEF Rest, rsl_rx_rf_chan_rel
  <1>7. CASE AbisLost
    BY <1>t, <1>7, LchanAssumption DEF Rest, AbisLost
  <1>8. CASE handover_rach
    BY <1>t, <1>8, LchanAssumption DEF Rest, handover_rach
  <1>9. CASE ho_t3105_cb
    BY <1>t, <1>9, LchanAssumption DEF Rest, ho_t3105_cb, Fails
  <1>10. CASE \E listens \in BOOLEAN : vgcs_rach(listens)
    BY <1>t, <1>10, LchanAssumption DEF Rest, vgcs_rach, Fails
  <1>11. CASE vgcs_t3115_cb
    BY <1>t, <1>11, LchanAssumption DEF Rest, vgcs_t3115_cb, Fails
  <1>12. CASE \E sacch, bad \in BOOLEAN : l1sap_ph_data_ind(sacch, bad)
    BY <1>t, <1>12, LchanAssumption DEF Rest, l1sap_ph_data_ind, Fails
  <1>13. CASE vgcs_talker_reset
    BY <1>t, <1>13, LchanAssumption DEF Rest, vgcs_talker_reset, Fails
  <1>14. CASE \E free \in BOOLEAN : UplinkMessage(free)
    BY <1>t, <1>14, LchanAssumption DEF Rest, UplinkMessage
  <1> QED
    BY <1>1, <1>2, <1>3, <1>4, <1>5, <1>6, <1>7, <1>8, <1>9, <1>10, <1>11, <1>12, <1>13, <1>14
    DEF LchanNext

\* Every step keeps the type of the state.
LEMMA TypeStep == LchanTypeOK /\ [LchanNext]_lchanVars => LchanTypeOK'
  <1>1. LchanTypeOK /\ UNCHANGED lchanVars => LchanTypeOK'
    BY DEF LchanTypeOK, lchanVars
  <1> QED
    BY <1>1, StateTyped, RestStep DEF LchanTypeOK, Rest

-----------------------------------------------------------------------------
(* The inductive invariant.                                                *)

\* What gsm_lchan_release() leaves of an active channel.
LEMMA Released ==
    ASSUME NEW l \in LchanState, l.active
    PROVE  LET r == gsm_lchan_release(l)
           IN  /\ r.active = FALSE /\ r.pending = Nothing /\ r.ia = 0 /\ r.rt = l.rt
               /\ r.ho = "NONE" /\ r.t3105 = FALSE /\ r.talker = "NONE"
               /\ r.listener = FALSE /\ r.free = FALSE
               /\ r.t3115 = IF l.talker = "NONE" THEN l.t3115 ELSE FALSE
  BY DEF LchanState, gsm_lchan_release, SetNone, talker_reset, handover_reset

\* The parts of the invariant beside the type.
Parts == TimersMatch /\ NotDeaf /\ UplinkOpen /\ Clean /\ Agreed /\ TalkerInGroup /\ IaCurrent

LEMMA PartsStep == LchanTypeOK /\ Parts /\ LchanNext => Parts'
  <1> SUFFICES ASSUME LchanTypeOK, Parts, LchanNext PROVE Parts'
    OBVIOUS
  <1> USE DEF Parts, TimersMatch, NotDeaf, UplinkOpen, Clean, Agreed, TalkerInGroup, IaCurrent,
             Undisturbed, UplinkAccess
  <1>t. /\ lc \in LchanState /\ odd \subseteq {"refused", "early", "lost", "closed"}
        /\ bsc \in [use : Kinds \cup {"none"}, req : 0 .. MaxActs, failed : BOOLEAN]
    BY DEF LchanTypeOK
  <1>1. ASSUME NEW k \in Kinds, NEW v \in Verdicts, rsl_rx_chan_activ([kind |-> k, verdict |-> v])
        PROVE  Parts'
    BY <1>t, <1>1 DEF rsl_rx_chan_activ, RtOf, LchanState, Nothing, Kinds
  <1>2. CASE TsConnected
    <2> DEFINE m == lc.pending
               l == [lc EXCEPT !.pending = Nothing]
               set == [l EXCEPT !.rt = RtOf(m.kind),
                                !.ho = IF m.kind = "handover" THEN "ENABLED" ELSE @]
               back == [set EXCEPT !.ho = l.ho]
               act == l1sap_chan_act(set)
    <2>1. /\ set.active = lc.active /\ set.pending = Nothing /\ set.rt = RtOf(m.kind)
          /\ set.ho = (IF m.kind = "handover" THEN "ENABLED" ELSE lc.ho)
          /\ set.t3105 = lc.t3105 /\ set.t3115 = lc.t3115 /\ set.talker = lc.talker
          /\ set.listener = lc.listener /\ set.free = lc.free /\ set.ia = lc.ia
      BY <1>t DEF LchanState
    <2>2. /\ act.active /\ act.pending = Nothing /\ act.rt = set.rt /\ act.ho = set.ho
          /\ act.t3105 = lc.t3105 /\ act.t3115 = lc.t3115 /\ act.talker = lc.talker
          /\ act.listener = lc.listener /\ act.free = lc.free /\ act.ia = lc.ia
      BY <1>t, <2>1 DEF LchanState, l1sap_chan_act
    <2>3. /\ back.active = lc.active /\ back.pending = Nothing /\ back.rt = set.rt
          /\ back.ho = lc.ho
          /\ back.t3105 = lc.t3105 /\ back.t3115 = lc.t3115 /\ back.talker = lc.talker
          /\ back.listener = lc.listener /\ back.free = lc.free /\ back.ia = lc.ia
      BY <1>t, <2>1 DEF LchanState
    <2>4. /\ ~lc.active /\ ~rach
          /\ bsc.use # "none" => m.kind = bsc.use
          /\ Undisturbed => bsc.use # "none"
      BY <1>2 DEF TsConnected
    <2>5. CASE /\ lc' = back \/ lc' = set
               /\ bsc' = [bsc EXCEPT !.use = "none"]
               /\ odd' = odd \cup {"refused"}
               /\ UNCHANGED rach
      <3> HIDE DEF set, back
      <3> QED
        BY <1>t, <2>1, <2>3, <2>4, <2>5
    <2>6. CASE /\ lc' = act
               /\ rach' = DetectsAtOnce(set)
               /\ odd' = odd \cup (IF set.rt = "vgcs" /\ ~rach' THEN {"closed"} ELSE {})
               /\ bsc'.use = bsc.use /\ bsc'.req = bsc.req
               /\ set.rt = "vgcs" /\ ~UplinkAccess => bsc'.failed
               /\ UNCHANGED model
      <3> HIDE DEF set, act
      <3> QED
        BY <1>t, <2>1, <2>2, <2>4, <2>6 DEF DetectsAtOnce, RtOf
    <2>7. Fails => bsc'.use = bsc.use /\ bsc'.req = bsc.req /\ bsc'.failed
      BY <1>t DEF Fails
    <2> QED
      BY <1>2, <2>5, <2>6, <2>7 DEF TsConnected, ActivateChannel, Refuse
  <1>3. CASE vgcs_lchan_react
    BY <1>t, <1>3 DEF vgcs_lchan_react, RtOf, LchanState, Nothing, Fails
  <1>4. CASE rsl_rx_imm_ass
    BY <1>t, <1>4 DEF rsl_rx_imm_ass, LchanState, Nothing
  <1>5. CASE early_rr_ia_delay_cb
    BY <1>t, <1>5 DEF early_rr_ia_delay_cb, LchanState, Nothing
  <1>6. CASE rsl_rx_rf_chan_rel
    <2> DEFINE r == gsm_lchan_release(lc)
    <2>1. /\ lc' = r /\ rach' = (rach /\ ~lc.active)
          /\ bsc'.use = "none" /\ bsc'.req = bsc.req
          /\ odd' = (odd \ {"closed"}) \cup (IF lc.pending # Nothing THEN {"early"} ELSE {})
      BY <1>t, <1>6 DEF rsl_rx_rf_chan_rel
    <2>2. ~lc.active => r = lc
      BY DEF gsm_lchan_release
    <2>3. CASE ~lc.active
      BY <1>t, <1>6, <2>1, <2>2, <2>3 DEF rsl_rx_rf_chan_rel
    <2>4. CASE lc.active
      <3>1. /\ r.active = FALSE /\ r.pending = Nothing /\ r.ia = 0 /\ r.rt = lc.rt
            /\ r.ho = "NONE" /\ r.t3105 = FALSE /\ r.talker = "NONE"
            /\ r.listener = FALSE /\ r.free = FALSE
            /\ r.t3115 = IF lc.talker = "NONE" THEN lc.t3115 ELSE FALSE
        BY <1>t, <2>4, Released
      <3> HIDE DEF r
      <3> QED
        BY <1>t, <2>1, <2>4, <3>1
    <2> QED
      BY <2>3, <2>4
  <1>7. CASE AbisLost
    <2> DEFINE r == SetNone(lc)
    <2>0. r.active = FALSE
      BY <1>t DEF LchanState, SetNone
    <2>1. /\ lc' = r /\ rach' = FALSE
          /\ bsc'.use = "none" /\ bsc'.req = bsc.req
          /\ odd' = (odd \ {"closed"}) \cup {"lost"}
      BY <1>t, <1>7, <2>0 DEF AbisLost, gsm_lchan_release
    <2>2. r.pending = Nothing \/ r.pending = lc.pending
      BY <1>t DEF LchanState, SetNone
    <2> HIDE DEF r
    <2> QED
      BY <2>0, <2>1, <2>2
  <1>8. CASE handover_rach
    BY <1>t, <1>8 DEF handover_rach, RtOf, LchanState, Nothing
  <1>9. CASE ho_t3105_cb
    BY <1>t, <1>9 DEF ho_t3105_cb, Fails, LchanState, Nothing
  <1>10. ASSUME NEW listens \in BOOLEAN, vgcs_rach(listens) PROVE Parts'
    <2> DEFINE ear == [lc EXCEPT !.listener = TRUE]
               wait == [lc EXCEPT !.talker = "WAIT_FRAME", !.grants = 1, !.t3115 = TRUE]
    <2>1. /\ ear.active = lc.active /\ ear.pending = lc.pending /\ ear.rt = lc.rt /\ ear.ho = lc.ho
          /\ ear.t3105 = lc.t3105 /\ ear.t3115 = lc.t3115 /\ ear.talker = lc.talker
          /\ ear.ia = lc.ia
      BY <1>t DEF LchanState
    <2>2. /\ wait.active = lc.active /\ wait.pending = lc.pending /\ wait.rt = lc.rt
          /\ wait.ho = lc.ho /\ wait.t3105 = lc.t3105 /\ wait.t3115 = TRUE
          /\ wait.talker = "WAIT_FRAME" /\ wait.ia = lc.ia
      BY <1>t DEF LchanState
    <2>3. /\ rach /\ lc.rt = "vgcs" /\ lc.active
          /\ \/ lc' = ear /\ UNCHANGED <<rach, bsc>>
             \/ UplinkAccess /\ lc' = wait /\ rach' = FALSE /\ UNCHANGED bsc
             \/ UNCHANGED <<lc, rach>> /\ Fails
          /\ UNCHANGED <<model, odd>>
      BY <1>10 DEF vgcs_rach
    <2>4. Fails => bsc'.use = bsc.use /\ bsc'.req = bsc.req /\ bsc'.failed
      BY <1>t DEF Fails
    <2> HIDE DEF ear, wait
    <2> QED
      BY <2>1, <2>2, <2>3, <2>4
  <1>11. CASE vgcs_t3115_cb
    <2> DEFINE up == [lc EXCEPT !.grants = @ + 1]
               off == [lc EXCEPT !.t3115 = FALSE, !.grants = 0, !.talker = "NONE"]
               quiet == [lc EXCEPT !.t3115 = FALSE]
    <2>1. /\ up.active = lc.active /\ up.pending = lc.pending /\ up.rt = lc.rt /\ up.ho = lc.ho
          /\ up.t3105 = lc.t3105 /\ up.t3115 = lc.t3115 /\ up.talker = lc.talker
          /\ up.listener = lc.listener /\ up.free = lc.free /\ up.ia = lc.ia
      BY <1>t DEF LchanState
    <2>2. /\ off.active = lc.active /\ off.pending = lc.pending /\ off.rt = lc.rt /\ off.ho = lc.ho
          /\ off.t3105 = lc.t3105 /\ off.t3115 = FALSE /\ off.talker = "NONE"
          /\ off.listener = lc.listener /\ off.free = lc.free /\ off.ia = lc.ia
      BY <1>t DEF LchanState
    <2>3. /\ quiet.active = lc.active /\ quiet.pending = lc.pending /\ quiet.rt = lc.rt
          /\ quiet.ho = lc.ho
          /\ quiet.t3105 = lc.t3105 /\ quiet.t3115 = FALSE /\ quiet.talker = lc.talker
          /\ quiet.listener = lc.listener /\ quiet.free = lc.free /\ quiet.ia = lc.ia
      BY <1>t DEF LchanState
    <2>4. /\ \/ lc' = up /\ UNCHANGED <<bsc, odd>>
             \/ lc.active /\ lc' = off /\ Fails /\ odd' = odd \cup {"closed"}
             \/ lc' = quiet /\ UNCHANGED <<bsc, odd>>
          /\ UNCHANGED <<model, rach>>
      BY <1>11 DEF vgcs_t3115_cb
    <2>5. Fails => bsc'.use = bsc.use /\ bsc'.req = bsc.req /\ bsc'.failed
      BY <1>t DEF Fails
    <2> HIDE DEF up, off, quiet
    <2>6. CASE lc' = up /\ UNCHANGED <<bsc, odd>>
      BY <2>1, <2>4, <2>6
    <2>7. CASE lc.active /\ lc' = off /\ Fails /\ odd' = odd \cup {"closed"}
      BY <2>2, <2>4, <2>5, <2>7
    <2>8. CASE lc' = quiet /\ UNCHANGED <<bsc, odd>>
      BY <2>3, <2>4, <2>8
    <2> QED
      BY <2>4, <2>6, <2>7, <2>8
  <1>12. CASE \E sacch, bad \in BOOLEAN : l1sap_ph_data_ind(sacch, bad)
    BY <1>t, <1>12 DEF l1sap_ph_data_ind, Decoded, radio_link_timeout, FirstFrame, handover_reset, Fails, RtOf,
                        LchanState, Nothing
  <1>13. CASE vgcs_talker_reset
    BY <1>t, <1>13 DEF vgcs_talker_reset, talker_reset, LchanState, Nothing, Fails
  <1>14. CASE \E free \in BOOLEAN : UplinkMessage(free)
    BY <1>t, <1>14 DEF UplinkMessage, LchanState, Nothing
  <1> QED
    BY <1>1, <1>2, <1>3, <1>4, <1>5, <1>6, <1>7, <1>8, <1>9, <1>10, <1>11, <1>12, <1>13, <1>14
    DEF LchanNext

LEMMA InvStep == Inv /\ [LchanNext]_lchanVars => Inv'
  <1>1. Inv <=> LchanTypeOK /\ Parts
    BY DEF Inv, LchanInv, Parts
  <1>2. Inv' <=> LchanTypeOK' /\ Parts'
    BY DEF Inv, LchanInv, Parts
  <1>3. Parts /\ UNCHANGED lchanVars => Parts'
    BY DEF Parts, TimersMatch, NotDeaf, UplinkOpen, Clean, Agreed, TalkerInGroup, IaCurrent,
           Undisturbed, UplinkAccess, lchanVars
  <1> QED
    BY <1>1, <1>2, <1>3, TypeStep, PartsStep

LEMMA InvInit == LchanInit => Inv
  <1> SUFFICES ASSUME LchanInit PROVE Inv
    OBVIOUS
  <1>1. lc \in LchanState
    BY Bounds, LchanAssumption DEF LchanInit, LchanState
  <1>2. LchanTypeOK
    BY <1>1, Bounds DEF LchanInit, LchanTypeOK
  <1>3. Parts
    BY DEF LchanInit, Parts, TimersMatch, NotDeaf, UplinkOpen, Clean, Agreed, TalkerInGroup,
           IaCurrent
  <1> QED
    BY <1>2, <1>3 DEF Inv, LchanInv, Parts

LEMMA InvHolds == LchanSpec => []Inv
  BY InvInit, InvStep, PTL DEF LchanSpec

\* T3105 and T3115 run for the present use of a channel, its uplink is searched for access
\* bursts only while one is awaited (handover.c, asci.c), and a group channel without a
\* talker can be accessed: for all NY1, NY2 and radio link timeouts.
THEOREM LchanInvHolds == LchanSpec => []LchanInv
  <1>1. Inv => LchanInv
    BY DEF Inv
  <1> QED
    BY <1>1, InvHolds, PTL

-----------------------------------------------------------------------------
(* One use of the channel and the next.                                    *)

\* Only the end of an activation makes a channel active, and only if it is accepted.
LEMMA ActiveBy ==
    ASSUME LchanTypeOK, LchanNext, ~lc.active, lc'.active
    PROVE  TsConnected
  <1>t. lc \in LchanState
    BY DEF LchanTypeOK
  <1>1. ASSUME NEW k \in Kinds, NEW v \in Verdicts, rsl_rx_chan_activ([kind |-> k, verdict |-> v])
        PROVE  FALSE
    BY <1>t, <1>1 DEF rsl_rx_chan_activ, LchanState
  <1>3. ~vgcs_lchan_react
    BY <1>t DEF vgcs_lchan_react, LchanState
  <1>4. ~rsl_rx_imm_ass
    BY <1>t DEF rsl_rx_imm_ass, LchanState
  <1>5. ~early_rr_ia_delay_cb
    BY <1>t DEF early_rr_ia_delay_cb, LchanState
  <1>6. ~rsl_rx_rf_chan_rel
    BY <1>t DEF rsl_rx_rf_chan_rel, gsm_lchan_release
  <1>7. ~AbisLost
    BY <1>t DEF AbisLost, gsm_lchan_release, SetNone
  <1>8. ~handover_rach
    BY <1>t DEF handover_rach, LchanState
  <1>9. ~ho_t3105_cb
    BY <1>t DEF ho_t3105_cb, LchanState
  <1>10. ASSUME NEW listens \in BOOLEAN, vgcs_rach(listens) PROVE FALSE
    BY <1>t, <1>10 DEF vgcs_rach, LchanState
  <1>11. ~vgcs_t3115_cb
    BY <1>t DEF vgcs_t3115_cb, LchanState
  <1>12. ASSUME NEW sacch \in BOOLEAN, NEW bad \in BOOLEAN, l1sap_ph_data_ind(sacch, bad)
         PROVE  FALSE
    BY <1>12 DEF l1sap_ph_data_ind
  <1>13. ~vgcs_talker_reset
    BY DEF vgcs_talker_reset
  <1>14. ASSUME NEW free \in BOOLEAN, UplinkMessage(free) PROVE FALSE
    BY <1>14 DEF UplinkMessage
  <1> QED
    BY <1>1, <1>3, <1>4, <1>5, <1>6, <1>7, <1>8, <1>9, <1>10, <1>11, <1>12, <1>13, <1>14
    DEF LchanNext

\* A channel that becomes active was clean, and was activated for what the BSC wants.
LEMMA ActivatedClean ==
    ASSUME Inv, TsConnected, lc'.active, Undisturbed
    PROVE  /\ (lc'.ho = "ENABLED") <=> (bsc.use = "handover")
           /\ lc'.ho # "WAIT_FRAME"
           /\ lc'.talker = "NONE" /\ ~lc'.listener /\ ~lc'.free
  <1> DEFINE m == lc.pending
             l == [lc EXCEPT !.pending = Nothing]
             set == [l EXCEPT !.rt = RtOf(m.kind),
                              !.ho = IF m.kind = "handover" THEN "ENABLED" ELSE @]
             back == [set EXCEPT !.ho = l.ho]
             act == l1sap_chan_act(set)
  <1>t. lc \in LchanState
    BY DEF Inv, LchanInv, LchanTypeOK
  <1>1. /\ ~lc.active /\ m.kind = bsc.use
        /\ lc.ho = "NONE" /\ lc.talker = "NONE" /\ ~lc.listener /\ ~lc.free
    BY DEF Inv, Agreed, Clean, TsConnected
  <1>2. /\ set.active = lc.active
        /\ set.ho = (IF m.kind = "handover" THEN "ENABLED" ELSE lc.ho)
        /\ set.talker = lc.talker /\ set.listener = lc.listener /\ set.free = lc.free
    BY <1>t DEF LchanState
  <1>3. back.active = lc.active
    BY <1>t DEF LchanState
  <1>4. /\ act.ho = set.ho
        /\ act.talker = lc.talker /\ act.listener = lc.listener /\ act.free = lc.free
    BY <1>t, <1>2 DEF LchanState, l1sap_chan_act
  <1>5. lc' = back \/ lc' = set \/ lc' = act
    BY DEF TsConnected, ActivateChannel, Refuse
  <1> HIDE DEF set, back, act
  <1> QED
    BY <1>1, <1>2, <1>3, <1>4, <1>5

\* An assignment is queued for the present request.
LEMMA QueuedFresh ==
    ASSUME Inv, LchanNext, agch' # agch, Undisturbed
    PROVE  agch' = bsc.req
  <1>1. rsl_rx_imm_ass \/ early_rr_ia_delay_cb
    BY DEF LchanNext, rsl_rx_chan_activ, TsConnected, vgcs_lchan_react, rsl_rx_rf_chan_rel,
           AbisLost, handover_rach, ho_t3105_cb, vgcs_rach, vgcs_t3115_cb, l1sap_ph_data_ind,
           vgcs_talker_reset, UplinkMessage
  <1> QED
    BY <1>1 DEF rsl_rx_imm_ass, early_rr_ia_delay_cb, Inv, IaCurrent

\* A channel that becomes active has nothing of an earlier use, and an immediate assignment
\* goes out for the activation it came with (rsl_rx_chan_activ(), gsm_lchan_release() and
\* early_rr_ia_delay_cb()), unless one of the three exceptions has happened.
THEOREM UsesApartHolds == LchanSpec => UsesApart
  <1> DEFINE A == ~lc.active /\ lc'.active /\ Undisturbed =>
                    /\ (lc'.ho = "ENABLED") <=> (bsc.use = "handover")
                    /\ lc'.ho # "WAIT_FRAME"
                    /\ lc'.talker = "NONE" /\ ~lc'.listener /\ ~lc'.free
             B == agch' # agch /\ Undisturbed => agch' = bsc.req
  <1>1. Inv /\ [LchanNext]_lchanVars => [A]_lchanVars
    <2>1. Inv /\ LchanNext => A
      BY ActiveBy, ActivatedClean DEF Inv, LchanInv
    <2> QED
      BY <2>1
  <1>2. Inv /\ [LchanNext]_lchanVars => [B]_lchanVars
    BY QueuedFresh
  <1>3. LchanSpec => [][A]_lchanVars
    BY <1>1, InvHolds, PTL DEF LchanSpec
  <1>4. LchanSpec => [][B]_lchanVars
    BY <1>2, InvHolds, PTL DEF LchanSpec
  <1> QED
    BY <1>3, <1>4 DEF UsesApart, NothingLeftOver, IaIsFresh
=============================================================================
