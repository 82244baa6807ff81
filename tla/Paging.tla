------------------------------- MODULE Paging -------------------------------
(***************************************************************************)
(* The paging queues of the BTS (common/paging.c): one list of records per *)
(* paging group, records of the BSC (an identity that is paged until its   *)
(* lifetime is over) and MAC blocks of the PCU (sent once), the priority   *)
(* for the BSC's records when the queues fill up, and the ETWS primary     *)
(* notification that takes the paging channel over.                        *)
(*                                                                         *)
(* The module has the state, the commands of BSC, PCU and VTY, and the     *)
(* paging message for one block; Ccch adds the access grant channel and    *)
(* layer 1, which asks for the blocks.                                     *)
(***************************************************************************)
EXTENDS Integers, Sequences, SequencesExt, FiniteSets, FiniteSetsExt

CONSTANTS
    Tmsi,          \* temporary identities the BSC pages (numbers, as all identities)
    Imsi,          \* permanent identities the BSC pages
    TooLong,       \* identities that do not fit a record
    MaxGroups,     \* size of the array of queues
    GroupCounts,   \* numbers of paging groups system information may announce
    QueueMaxes,    \* values of "paging queue-size"; the configuration file has the largest
    Lifetimes,     \* values of "paging lifetime", in ticks of the clock
    MaxPages,      \* pages of the longest ETWS primary notification
    MacBlocks      \* MAC blocks of the PCU, numbered by their msg_id

Identity == Tmsi \cup Imsi \cup TooLong
Groups == 0 .. MaxGroups - 1

ASSUME PagingAssumption ==
    /\ MaxGroups \in Nat \ {0}
    /\ GroupCounts \subseteq 1 .. MaxGroups /\ GroupCounts # {}
    /\ QueueMaxes \subseteq Nat \ {0} /\ QueueMaxes # {} /\ IsFiniteSet(QueueMaxes)
    /\ Lifetimes \subseteq Nat /\ Lifetimes # {} /\ IsFiniteSet(Lifetimes)
    /\ MaxPages \in Nat
    /\ MacBlocks \subseteq Nat
    /\ Tmsi \cap Imsi = {}
    /\ Identity \subseteq Nat

VARIABLES
    queue,         \* ps->paging_queue[]
    num_paging,    \* ps->num_paging
    cs_priority,   \* ps->cs_priority_active
    cfg,           \* num_paging_max and paging_lifetime
    groups,        \* number of paging groups of ps->chan_desc
    subch,         \* paging group of the next block of the paging channel
    etws,          \* num_pages (0: no notification), next_page, and: was a longer one replaced?
    air            \* what the last block of the common control channel carried

pagingVars == <<queue, num_paging, cs_priority, cfg, groups, subch, etws>>

\* A record: what it is, and for an identity the time it has left.
Record == [type : {"normal"}, id : Tmsi \cup Imsi, left : Nat] \cup
          [type : {"macblock"}, id : MacBlocks, confirm : BOOLEAN]

PagingTypeOK ==
    /\ queue \in [Groups -> Seq(Record)]
    /\ num_paging \in Nat
    /\ cs_priority \in BOOLEAN
    /\ cfg \in [max : QueueMaxes, lifetime : Lifetimes]
    /\ groups \in GroupCounts
    /\ subch \in 0 .. groups - 1
    /\ etws \in [pages : 0 .. MaxPages, next : 0 .. MaxPages, cut : BOOLEAN]

\* After the configuration file was read; the VTY may lower the values later.
PagingInit ==
    /\ queue = [g \in Groups |-> <<>>]
    /\ num_paging = 0
    /\ cs_priority = FALSE
    /\ cfg = [max |-> Max(QueueMaxes), lifetime |-> Max(Lifetimes)]
    /\ groups = Min(GroupCounts)
    /\ subch = 0
    /\ etws = [pages |-> 0, next |-> 0, cut |-> FALSE]
-----------------------------------------------------------------------------
(***************************************************************************)
(* Commands.                                                               *)
(***************************************************************************)
THRESHOLD_CONGESTED == 66
THRESHOLD_CLEAR == 50

\* The hysteresis of the priority for the BSC's records.
check_congestion(max) ==
    IF num_paging > (max * THRESHOLD_CONGESTED) \div 100 THEN TRUE
    ELSE IF num_paging < (max * THRESHOLD_CLEAR) \div 100 THEN FALSE
    ELSE cs_priority

IsIdentity(rec, id) == rec.type = "normal" /\ rec.id = id

\* The BSC pages an identity in a group: refused when there is no such group, when the
\* queues are full or when the identity is too long; one that is queued already lives
\* on; a new one goes to the head.
paging_add_identity(g, id) ==
    /\ cs_priority' = check_congestion(cfg.max)
    /\ LET dup == {i \in DOMAIN queue[g] : IsIdentity(queue[g][i], id)}
           full == num_paging >= cfg.max
       IN  IF g >= groups \/ full THEN UNCHANGED <<queue, num_paging>>
           ELSE IF dup # {}
           THEN /\ queue' = [queue EXCEPT ![g] = [i \in DOMAIN @ |->
                       IF i \in dup THEN [@[i] EXCEPT !.left = cfg.lifetime] ELSE @[i]]]
                /\ UNCHANGED num_paging
           ELSE IF id \in TooLong THEN UNCHANGED <<queue, num_paging>>
           ELSE /\ queue' = [queue EXCEPT ![g] =
                       <<[type |-> "normal", id |-> id, left |-> cfg.lifetime]>> \o @]
                /\ num_paging' = num_paging + 1
    /\ UNCHANGED <<cfg, groups, subch, etws>>

\* The PCU has a MAC block sent in the group of a mobile's IMSI: dropped while the
\* BSC's records have priority, never counted.
paging_add_macblock(g, m, confirm) ==
    /\ g < groups
    /\ cs_priority' = check_congestion(cfg.max)
    /\ queue' = IF cs_priority' THEN queue
                ELSE [queue EXCEPT ![g] =
                        <<[type |-> "macblock", id |-> m, confirm |-> confirm]>> \o @]
    /\ UNCHANGED <<num_paging, cfg, groups, subch, etws>>

\* New system information: records stay in the queue they are in.
paging_si_update(n, next) ==
    /\ groups' = n
    /\ next < n
    /\ subch' = next
    /\ UNCHANGED <<queue, num_paging, cs_priority, cfg, etws>>

paging_set_queue_max(n) ==
    /\ cfg' = [cfg EXCEPT !.max = n]
    /\ UNCHANGED <<queue, num_paging, cs_priority, groups, subch, etws>>

paging_set_lifetime(n) ==
    /\ cfg' = [cfg EXCEPT !.lifetime = n]
    /\ UNCHANGED <<queue, num_paging, cs_priority, groups, subch, etws>>

\* An ETWS primary notification of so many pages begins, is replaced, or ends (0).  The
\* page to be sent next is forgotten at the end only.
rsl_rx_osmo_etws_cmd(pages) ==
    /\ etws' = [pages |-> pages, next |-> IF pages = 0 THEN 0 ELSE etws.next,
                cut |-> pages > 0 /\ (etws.cut \/ pages < etws.pages)]
    /\ UNCHANGED <<queue, num_paging, cs_priority, cfg, groups, subch>>

\* A second passes.
PagingTick ==
    /\ queue' = [g \in Groups |-> [i \in DOMAIN queue[g] |->
                    IF queue[g][i].type = "normal" /\ queue[g][i].left > 0
                    THEN [queue[g][i] EXCEPT !.left = @ - 1] ELSE queue[g][i]]]
    /\ UNCHANGED <<num_paging, cs_priority, cfg, groups, subch, etws>>
-----------------------------------------------------------------------------
(***************************************************************************)
(* The message for one block of the paging channel.                        *)
(***************************************************************************)
pr_is_imsi(rec) == rec.id \in Imsi

\* The elements of s at the places I, in their order.
Selected(s, I) ==
    LET taken[i \in 0 .. Len(s)] ==
          IF i = 0 THEN <<>>
          ELSE IF i \in I THEN Append(taken[i - 1], s[i]) ELSE taken[i - 1]
    IN  taken[Len(s)]

\* Bubble sort of the dequeued records: temporary identities ahead of permanent ones.
Imsis(pr) == {i \in DOMAIN pr : pr_is_imsi(pr[i])}
sort_pr_tmsi_imsi(pr) == Selected(pr, DOMAIN pr \ Imsis(pr)) \o Selected(pr, Imsis(pr))

\* How many of the dequeued identities fit: type 3 has four temporary ones, type 2 two
\* temporary ones and one of any kind, type 1 two of any kind.
NumFit(pr) ==
    LET n == Len(pr)
        imsis == Cardinality(Imsis(pr))
    IN  IF n = 4 /\ imsis = 0 THEN 4
        ELSE IF n >= 3 /\ imsis <= 1 THEN 3
        ELSE IF n = 1 THEN 1 ELSE 2

\* Up to four records are dequeued; the first MAC block among them is sent alone.
Window(q) == SubSeq(q, 1, IF Len(q) < 4 THEN Len(q) ELSE 4)
Rest(q) == SubSeq(q, Len(Window(q)) + 1, Len(q))
FirstMac(q) == SelectInSeq(Window(q), LAMBDA r : r.type = "macblock")

\* The records before the MAC block are put back one after the other at the head.
SendMac(q) ==
    LET k == FirstMac(q)
    IN  [mac |-> <<q[k]>>, ids |-> <<>>, freed |-> 0,
         queue |-> Reverse(SubSeq(q, 1, k - 1)) \o SubSeq(q, k + 1, Len(q))]

\* Records that leave the count when they are freed.
Expired(sent) == {i \in DOMAIN sent : sent[i].left = 0}

\* Of the identities those that do not fit are put back at the head, and those that
\* were sent go to the tail unless their time is over.
MutFreesAll(q) ==
    LET pr == sort_pr_tmsi_imsi(Window(q))
        k == NumFit(Window(q))
    IN  [mac |-> <<>>, ids |-> SubSeq(pr, 1, k),
         freed |-> Cardinality(Expired(pr)),
         queue |-> Rest(q) \o Selected(pr, DOMAIN pr \ Expired(pr))]
MutNeverExpires(q) ==
    LET pr == sort_pr_tmsi_imsi(Window(q))
        k == NumFit(Window(q))
    IN  [mac |-> <<>>, ids |-> SubSeq(pr, 1, k), freed |-> 0,
         queue |-> Reverse(SubSeq(pr, k + 1, Len(pr))) \o Rest(q)
                   \o SubSeq(pr, 1, k)]
SendIdentities(q) ==
    LET pr == sort_pr_tmsi_imsi(Window(q))
        k == NumFit(Window(q))
        sent == SubSeq(pr, 1, k)
    IN  [mac |-> <<>>, ids |-> sent,
         freed |-> Cardinality(Expired(sent)),
         queue |-> Reverse(SubSeq(pr, k + 1, Len(pr))) \o Rest(q)
                   \o Selected(sent, DOMAIN sent \ Expired(sent))]

\* What is sent for a group in which somebody is to be paged.
PagingRequest(q) == IF FirstMac(q) # 0 THEN {SendMac(q)} ELSE {SendIdentities(q)}

\* build_p1_rest_octets(): the page of the notification, and the one after it.
NextPage == (etws.next + 1) % etws.pages

\* The message of the group whose turn it is: a page of an ETWS notification; nothing,
\* and the block may go to the access grant channel; a MAC block; or identities.
paging_gen_msg ==
    /\ cs_priority' = check_congestion(cfg.max)
    /\ subch' = (subch + 1) % groups
    /\ \/ /\ etws.pages > 0
          /\ etws' = [etws EXCEPT !.next = NextPage, !.cut = FALSE]
          /\ air' = [kind |-> "etws", page |-> etws.next]
          /\ UNCHANGED <<queue, num_paging>>
       \/ /\ etws.pages = 0 /\ queue[subch] # <<>>
          /\ \E out \in PagingRequest(queue[subch]) :
                 /\ queue' = [queue EXCEPT ![subch] = out.queue]
                 /\ num_paging' = num_paging - out.freed
                 /\ air' = [kind |-> "pch", group |-> subch, ids |-> out.ids, mac |-> out.mac]
          /\ UNCHANGED etws
    /\ UNCHANGED <<cfg, groups>>

\* Nobody is to be paged: the message is empty.
PagingEmpty == etws.pages = 0 /\ queue[subch] = <<>>
paging_gen_empty ==
    /\ PagingEmpty
    /\ cs_priority' = check_congestion(cfg.max)
    /\ subch' = (subch + 1) % groups
    /\ UNCHANGED <<queue, num_paging, cfg, groups, etws>>
=============================================================================
