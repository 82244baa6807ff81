-------------------------------- MODULE Ccch --------------------------------
(***************************************************************************)
(* The downlink common control channel: the queue of access grants         *)
(* (common/bts.c), filled by the BSC (common/rsl.c) and the PCU            *)
(* (common/pcu_sock.c), which shares the blocks of the channel with the    *)
(* paging queues.  Layer 1 asks for one block after the other; a block of  *)
(* the paging channel in which nobody is paged goes to the access grants.  *)
(***************************************************************************)
EXTENDS Paging

CONSTANTS
    MaxRefs,       \* bound: request references that are unanswered at a time
    MaxLengths,    \* lengths of the queue that system information may lead to
    HardLimit,     \* hard_limit in bts_agch_enqueue(): 100
    Low, High, Thresh,  \* agch-queue-mgmt, in percent
    MaxCmds        \* bound: commands of BSC, PCU and VTY

Refs == 1 .. MaxRefs

ASSUME CcchAssumption ==
    /\ MaxRefs \in Nat
    /\ MaxLengths \subseteq Nat
    /\ HardLimit \in Nat
    /\ Low \in 0 .. 100 /\ High \in 0 .. 100000 /\ Thresh \in 0 .. 100
    /\ MaxCmds \in Nat

VARIABLES
    agch,          \* agch_queue.queue
    max_length,    \* agch_queue.max_length
    open,          \* references that were accepted and neither answered nor given up
    cmds           \* commands so far

Silence == [kind |-> "none"]
ccchvars == <<pagingVars, air, agch, max_length, open, cmds>>

\* An immediate assignment answers one request, a rejection up to four; a message with
\* fewer repeats the first.
Message == [type : {"ass"}, refs : {<<r>> : r \in Refs}, confirm : BOOLEAN] \cup
           [type : {"rej"}, refs : [1 .. 4 -> Refs], confirm : BOOLEAN]

\* The type of the state.
CcchTypeOK ==
    /\ PagingTypeOK
    /\ agch \in Seq(Message)
    /\ max_length \in MaxLengths \cup {0}
    /\ open \subseteq Refs
    /\ cmds \in 0 .. MaxCmds

CcchInit ==
    /\ PagingInit
    /\ air = Silence
    /\ agch = <<>>
    /\ max_length = 0
    /\ open = {}
    /\ cmds = 0
-----------------------------------------------------------------------------
(***************************************************************************)
(* Rejections are merged into the last message of the queue.               *)
(***************************************************************************)
\* extract_imm_ass_rej_refs(): the references without their repetitions.
extract_imm_ass_rej_refs(refs) ==
    Selected(refs, {i \in 1 .. 4 : \A j \in 1 .. i - 1 : refs[j] # refs[i]})

\* store_imm_ass_rej_refs(): up to four references, the first one repeated.
store_imm_ass_rej_refs(refs) == [i \in 1 .. 4 |-> IF i <= Len(refs) THEN refs[i] ELSE refs[1]]

\* try_merge_imm_ass_rej(): both messages afterwards; none of the new one when all its
\* references found room in the old one.
NotMerged(old, new) == [old |-> old, rest |-> <<new>>]
MutMergeOverflows(old, new) ==
    LET all == extract_imm_ass_rej_refs(old.refs) \o extract_imm_ass_rej_refs(new.refs)
    IN  IF old.type # "rej" \/ new.type # "rej" THEN NotMerged(old, new)
        ELSE [old |-> [old EXCEPT !.refs = store_imm_ass_rej_refs(all)], rest |-> <<>>]
try_merge_imm_ass_rej(old, new) ==
    IF old.type # "rej" \/ new.type # "rej" THEN NotMerged(old, new)
    ELSE LET had == extract_imm_ass_rej_refs(old.refs)
             all == had \o extract_imm_ass_rej_refs(new.refs)
         IN  IF Len(had) = 4 THEN NotMerged(old, new)
             ELSE [old |-> [old EXCEPT !.refs = store_imm_ass_rej_refs(all)],
                   rest |-> IF Len(all) <= 4 THEN <<>>
                            ELSE <<[new EXCEPT !.refs =
                                    store_imm_ass_rej_refs(SubSeq(all, 5, Len(all)))]>>]

RefsOf(msgs) == UNION {Range(msgs[i].refs) : i \in DOMAIN msgs}

\* Is there room?  The limit is checked before the message is added.
AgchRoom == Len(agch) <= HardLimit

\* bts_agch_enqueue() for a message of the BSC, which is told when there is no room
\* (rsl_rx_imm_ass()), or of the PCU, which is not (pcu_rx_data_req()).
bts_agch_enqueue(msg) ==
    /\ IF ~AgchRoom THEN UNCHANGED <<agch, open>>
       ELSE /\ open' = open \cup Range(msg.refs)
            /\ IF agch = <<>> THEN agch' = <<msg>>
               ELSE LET m == try_merge_imm_ass_rej(Last(agch), msg)
                    IN  agch' = Append(Front(agch), m.old) \o m.rest
    /\ air' = Silence
    /\ UNCHANGED <<pagingVars, max_length>>

\* A new message answers the first references that are not in use: one, or three.
FirstFree(used) == {r \in Refs \ used : \A s \in Refs \ used : r <= s}

rsl_rx_imm_ass ==
    \E a \in FirstFree(open) :
        \/ bts_agch_enqueue([type |-> "ass", refs |-> <<a>>, confirm |-> FALSE])
        \/ bts_agch_enqueue([type |-> "rej", refs |-> store_imm_ass_rej_refs(<<a>>),
                             confirm |-> FALSE])
        \/ \E b \in FirstFree(open \cup {a}) : \E c \in FirstFree(open \cup {a, b}) :
             bts_agch_enqueue([type |-> "rej", refs |-> store_imm_ass_rej_refs(<<a, b, c>>),
                               confirm |-> FALSE])

pcu_rx_agch ==
    \E a \in FirstFree(open) :
        bts_agch_enqueue([type |-> "ass", refs |-> <<a>>, confirm |-> TRUE])

\* New system information: paging groups and the length of the queue of access grants.
\* The clock of the paging channel goes on with the new number of groups.
NewSysinfo ==
    \E n \in GroupCounts, len \in MaxLengths, next \in Groups :
        /\ <<n, len>> # <<groups, max_length>>
        /\ paging_si_update(n, next)
        /\ max_length' = len
        /\ air' = Silence
        /\ UNCHANGED <<agch, open>>
-----------------------------------------------------------------------------
(***************************************************************************)
(* One block of the channel.                                               *)
(***************************************************************************)
MaxLen == IF max_length = 0 THEN 1 ELSE max_length

\* 65536 times the probability that a message is dropped from a queue of that length.
p_drop(len) ==
    LET offs == (MaxLen * Low) \div 100
        slope == IF High > Low THEN (65536 * 100) \div (High - Low) ELSE 65536 * MaxLen
    IN  ((len - offs) * slope) \div MaxLen

\* How many messages compact_agch_queue() may drop: one after the other from the head,
\* until the dice or the end of the queue say stop.
Drops ==
    IF Len(agch) < (MaxLen * Thresh) \div 100 THEN {0}
    ELSE {k \in 0 .. Len(agch) :
            /\ \A j \in 0 .. k - 1 : p_drop(Len(agch) - j) > 0
            /\ k = Len(agch) \/ p_drop(Len(agch) - k) <= 65535}

\* The block carries the first access grant that is left, if there is one.
bts_agch_dequeue(k, kind) ==
    IF Len(agch) = k
    THEN /\ air' = [kind |-> kind]
         /\ agch' = <<>>
         /\ open' = open \ RefsOf(agch)
    ELSE /\ air' = [kind |-> "agch", msg |-> agch[k + 1]]
         /\ agch' = SubSeq(agch, k + 2, Len(agch))
         /\ open' = open \ RefsOf(SubSeq(agch, 1, k + 1))

\* Only the house keeping; the block is somebody else's.
compact_agch_queue(k) ==
    /\ agch' = SubSeq(agch, k + 1, Len(agch))
    /\ open' = open \ RefsOf(SubSeq(agch, 1, k))

PchForGrant(k) == paging_gen_empty /\ bts_agch_dequeue(k, "empty")

\* bts_ccch_copy_msg() for a block of the paging channel.
PchBlock ==
    /\ \E k \in Drops :
          \/ ~PagingEmpty /\ paging_gen_msg /\ compact_agch_queue(k)
          \/ PchForGrant(k)
    /\ UNCHANGED <<max_length, cmds>>

\* bts_ccch_copy_msg() for a block reserved for access grants; there need not be any.
AgchBlock ==
    /\ \E k \in Drops : bts_agch_dequeue(k, "none")
    /\ UNCHANGED <<pagingVars, max_length, cmds>>
-----------------------------------------------------------------------------
\* The places of the identities in a queue, and in all of them.
Identities(q) == {i \in DOMAIN q : q[i].type = "normal"}
Normal == UNION {{g} \X Identities(queue[g]) : g \in Groups}
Queued == UNION {{queue[g][i].id : i \in Identities(queue[g])} : g \in Groups}

\* The BSC pages an identity again or a new one.  Identities of a kind are all alike: the
\* new one is the first that is not queued.
rsl_rx_paging_cmd ==
    /\ \E g \in Groups :
          \/ \E id \in Queued : paging_add_identity(g, id)
          \/ \E kind \in {Tmsi, Imsi, TooLong} :
                kind \ Queued # {} /\ paging_add_identity(g, Min(kind \ Queued))
    /\ air' = Silence
    /\ UNCHANGED <<agch, max_length, open>>

InUse(m) == \E g \in Groups : \E i \in DOMAIN queue[g] :
                queue[g][i].type = "macblock" /\ queue[g][i].id = m

pcu_rx_pch ==
    /\ \E g \in Groups, m \in MacBlocks, confirm \in BOOLEAN :
            ~InUse(m) /\ paging_add_macblock(g, m, confirm)
    /\ air' = Silence
    /\ UNCHANGED <<agch, max_length, open>>

EtwsCmd ==
    /\ \E n \in 0 .. MaxPages : n # etws.pages /\ rsl_rx_osmo_etws_cmd(n)
    /\ air' = Silence
    /\ UNCHANGED <<agch, max_length, open>>

VtyPaging ==
    /\ \/ \E n \in QueueMaxes : n # cfg.max /\ paging_set_queue_max(n)
       \/ \E n \in Lifetimes : n # cfg.lifetime /\ paging_set_lifetime(n)
    /\ air' = Silence
    /\ UNCHANGED <<agch, max_length, open>>

Command ==
    /\ cmds < MaxCmds
    /\ cmds' = cmds + 1
    /\ \/ rsl_rx_paging_cmd
       \/ pcu_rx_pch
       \/ rsl_rx_imm_ass
       \/ pcu_rx_agch
       \/ NewSysinfo
       \/ EtwsCmd
       \/ VtyPaging

Tick == PagingTick /\ air' = Silence /\ UNCHANGED <<agch, max_length, open, cmds>>

CcchNext == Command \/ PchBlock \/ AgchBlock \/ Tick

CcchSpec == CcchInit /\ [][CcchNext]_ccchvars

\* Layer 1 goes on asking for blocks of the paging channel and time goes on.
CcchFairSpec == CcchSpec /\ WF_ccchvars(PchBlock) /\ WF_ccchvars(Tick)
-----------------------------------------------------------------------------
(***************************************************************************)
(* Properties.                                                             *)
(***************************************************************************)
\* num_paging, from which the limit, the congestion and the load indications are
\* computed, is the number of identities in all queues, whatever is sent, put back,
\* expired or left behind in a group that has ceased to exist.
PagingCounted == num_paging = Cardinality(Normal)

Aired(g, rec) ==
    /\ air'.kind = "pch" /\ air'.group = g
    /\ rec \in Range(air'.ids) \cup Range(air'.mac)

Survives(g, rec) ==
    \E j \in DOMAIN queue'[g] :
        queue'[g][j].type = rec.type /\ queue'[g][j].id = rec.id

\* A record leaves its queue only by being sent: neither the limit of four identities
\* per message, nor a MAC block among them, nor a lifetime that is over before the first
\* transmission loses it.
NothingLost ==
    [][\A g \in Groups : \A i \in DOMAIN queue[g] :
            Survives(g, queue[g][i]) \/ Aired(g, queue[g][i])]_ccchvars

\* Temporary identities only where the message has room for nothing else: type 3 has four
\* of them, type 2 two ahead of an identity of any kind.
FitsMessage ==
    air.kind = "pch" /\ air.mac = <<>> =>
        LET n == Len(air.ids)
        IN  \A i \in 1 .. n : pr_is_imsi(air.ids[i]) => n <= 2 \/ (n = 3 /\ i = 3)

\* The page of an ETWS notification that is sent next exists, unless the notification
\* has just replaced a longer one: then next_page may point behind its end once.
EtwsPageExists == etws.pages > 0 /\ ~etws.cut => etws.next < etws.pages

\* Through merging, dropping and sending, each reference that was accepted is in exactly
\* one queued message until it is answered or given up.
AnswersKept ==
    /\ RefsOf(agch) = open
    /\ \A i, j \in DOMAIN agch : i # j => Range(agch[i].refs) \cap Range(agch[j].refs) = {}

\* The queue of access grants holds at most one message more than its hard limit.
AgchBounded == Len(agch) <= HardLimit + 1

\* The queues of the common control channel, at any time: counted, bounded, with each
\* accepted reference in one message, and what is sent has the form its kind allows.
CcchInv ==
    CcchTypeOK /\ PagingCounted /\ FitsMessage /\ EtwsPageExists /\ AnswersKept /\ AgchBounded

\* When the BSC has no more commands, the identities of the existing groups do not keep
\* each other from being sent: all are, unless an ETWS notification goes on for ever.
EventuallyPaged ==
    <>[](etws.pages > 0 \/ \A g \in 0 .. groups - 1 : queue[g] = <<>>)

\* Every access grant is eventually sent or given up, even without reserved blocks.
EventuallyAnswered == <>[](etws.pages > 0 \/ open = {})

\* The priority of the BSC's records ends when the queues drain, unless records are left
\* behind in a group that has ceased to exist, or the queue size is 1: then the lower
\* threshold is 0 and nothing is below it.
PriorityClears ==
    <>[](\/ ~cs_priority \/ etws.pages > 0 \/ cfg.max = 1
         \/ \E g \in groups .. MaxGroups - 1 : queue[g] # <<>>)

\* Left alone, all queues drain and the congestion is over.
QueuesDrain == EventuallyPaged /\ EventuallyAnswered /\ PriorityClears
=============================================================================
