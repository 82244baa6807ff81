--------------------------------- MODULE Cbch ---------------------------------
(***************************************************************************)
(* Cell broadcast (common/cbch.c): the messages of the basic and of the    *)
(* extended CBCH, each with a queue, a default message that is repeated    *)
(* when the queue is empty, and the message in transmission.               *)
(*                                                                         *)
(* A message is its number in the order of allocation, 0 is the NULL       *)
(* pointer; segs says how many blocks it has and live which messages are   *)
(* allocated.  Only the contents of the blocks are left out: NORMAL,       *)
(* SCHEDULE and NULL commands differ in nothing else.                      *)
(***************************************************************************)
EXTENDS Integers, Sequences, SequencesExt, Functions

CONSTANTS
    LastBlocks, \* what the commands say in the field last block, between 0 and 3
    SmscbCfgs,  \* the settings of the queue: [max, tgt, hyst]
    MaxMsgs,    \* bound: messages the BSC sends
    MaxSkips    \* bound: blocks that layer 1 does not ask for

\* The ranges of the commands of the VTY, and of a field of two bits.
ASSUME CbchAssumption ==
    /\ LastBlocks \subseteq 0 .. 3
    /\ SmscbCfgs \subseteq [max : Nat \ {0}, tgt : Nat \ {0}, hyst : Nat]
    /\ MaxMsgs \in Nat /\ MaxSkips \in Nat

VARIABLES
    ss,       \* ss[c]: bts->smscb_basic and bts->smscb_extended
    segs,     \* segs[m]: num_segs of message m
    live,     \* the messages that are allocated
    corrupt,  \* has a message been used or freed after it was freed?
    tb,       \* TB of the next block, 0 to 7
    smscbCfg, \* the settings of the queue
    told,     \* told[c]: the last CBCH LOAD INDICATION, or "retuned" after new settings
    aired,    \* aired[c]: <<message, block number>> sent in the current period
    cut,      \* the channels whose period was interrupted
    skips     \* the blocks skipped so far

cbchVars == <<ss, segs, live, corrupt, tb, smscbCfg, told, aired, cut, skips>>

Cbchs == {"basic", "extended"}
Msgs == 1 .. Len(segs)

\* The type of the state.
CbchTypeOK ==
    /\ segs \in Seq(1 .. 4) /\ Len(segs) <= MaxMsgs
    /\ ss \in [Cbchs -> [queue : Seq(Msgs), cur : {0} \cup Msgs, def : {0} \cup Msgs]]
    /\ live \subseteq Msgs
    /\ corrupt \in BOOLEAN
    /\ tb \in 0 .. 7
    /\ smscbCfg \in SmscbCfgs
    /\ told \in [Cbchs -> {"none", "under", "over", "retuned"}]
    /\ aired \in [Cbchs -> Seq(Msgs \X (0 .. 3))]
    /\ cut \subseteq Cbchs
    /\ skips \in 0 .. MaxSkips

NoMsgs == [queue |-> <<>>, cur |-> 0, def |-> 0]

CbchInit ==
    /\ ss = [c \in Cbchs |-> NoMsgs]
    /\ segs = <<>> /\ live = {} /\ corrupt = FALSE
    /\ tb = 0
    /\ smscbCfg \in SmscbCfgs
    /\ told = [c \in Cbchs |-> "none"]
    /\ aired = [c \in Cbchs |-> <<>>]
    /\ cut = {} /\ skips = 0

\* check_and_send_cbch_load(): tell the BSC when the length is too far from the target.
MutLoadOffByOne(c, len) ==
    LET delta == len - smscbCfg.tgt IN
    told' = [told EXCEPT ![c] = CASE delta >= 0 /\ delta > smscbCfg.hyst -> "over"
                                  [] delta < 0 /\ -delta > smscbCfg.hyst -> "under"
                                  [] OTHER -> @]
check_and_send_cbch_load(c, len) ==
    LET delta == len - smscbCfg.tgt IN
    told' = [told EXCEPT ![c] = CASE delta >= 0 /\ delta >= smscbCfg.hyst -> "over"
                                  [] delta < 0 /\ -delta >= smscbCfg.hyst -> "under"
                                  [] OTHER -> @]

\* talloc_free() of the messages ms, one after the other.
Free(ms) ==
    /\ live' = live \ Range(ms)
    /\ corrupt' = (corrupt \/ ~IsInjective(ms) \/ ~(Range(ms) \subseteq live))
Pointer(m) == IF m = 0 THEN <<>> ELSE <<m>>
-----------------------------------------------------------------------------
(* bts_process_smscb_cmd(): the BSC sends a message.                       *)

last_block_rsl2um(lb) == IF lb = 0 THEN 4 ELSE lb

Alloc(lb) == Len(segs) < MaxMsgs /\ segs' = Append(segs, last_block_rsl2um(lb))

SmscbQueued(c, lb) ==
    /\ Alloc(lb)
    /\ Len(ss[c].queue) < smscbCfg.max
    /\ ss' = [ss EXCEPT ![c].queue = Append(@, Len(segs'))]
    /\ live' = live \cup {Len(segs')}
    /\ check_and_send_cbch_load(c, Len(ss[c].queue) + 1)
    /\ UNCHANGED <<corrupt, tb, smscbCfg, aired, cut, skips>>

\* The queue is full: the message is freed again.
SmscbOverflow(c, lb) ==
    /\ Alloc(lb)
    /\ Len(ss[c].queue) >= smscbCfg.max
    /\ UNCHANGED <<ss, live, corrupt, tb, smscbCfg, told, aired, cut, skips>>

\* The old default message is freed; if it is the one in transmission that is given up.
MutDefaultStaysCurrent(c, m) ==
    /\ ss' = [ss EXCEPT ![c].def = m]
    /\ live' = (live \ {ss[c].def}) \cup ({m} \ {0})
    /\ UNCHANGED <<corrupt, cut>>
NewDefault(c, m) ==
    LET old == ss[c].def
        current == old # 0 /\ ss[c].cur = old
    IN
    /\ ss' = [ss EXCEPT ![c].def = m, ![c].cur = IF current THEN 0 ELSE @]
    /\ live' = (live \ {old}) \cup ({m} \ {0})
    /\ corrupt' = (corrupt \/ (old # 0 /\ old \notin live))
    /\ cut' = IF current THEN cut \cup {c} ELSE cut

\* DEFAULT with a message, or with none: then the one it carries is freed at once.
SmscbDefault(c, lb) ==
    /\ \/ Alloc(lb) /\ NewDefault(c, Len(segs'))
       \/ NewDefault(c, 0) /\ UNCHANGED segs
    /\ UNCHANGED <<tb, smscbCfg, told, aired, skips>>
-----------------------------------------------------------------------------
(* bts_cbch_get(): layer 1 asks for the block of TB.                       *)

\* bts_smscb_state(): the channel of a TB.
bts_smscb_state(t) == IF t < 4 THEN "basic" ELSE "extended"

\* select_next_smscb(): the state after the message for the next period was chosen.
MutDefaultFirst(s) ==
    IF s.def # 0 THEN [s EXCEPT !.cur = s.def]
    ELSE IF s.queue # <<>> THEN [s EXCEPT !.queue = Tail(@), !.cur = Head(s.queue)]
    ELSE [s EXCEPT !.cur = 0]
select_next_smscb(s) ==
    IF s.queue # <<>> THEN [s EXCEPT !.queue = Tail(@), !.cur = Head(s.queue)]
    ELSE [s EXCEPT !.cur = s.def]

\* get_smscb_block(): send block n of the current message.  Behind its last block the
\* message is freed, unless it is the default.
get_smscb_block(c, s, n) ==
    LET sends == s.cur # 0 /\ n < segs[s.cur]
        done == sends /\ n + 1 = segs[s.cur] /\ s.cur # s.def
    IN
    /\ aired' = [aired EXCEPT ![c] = (IF n = 0 THEN <<>> ELSE @)
                                     \o (IF sends THEN <<<<s.cur, n>>>> ELSE <<>>)]
    /\ ss' = [ss EXCEPT ![c] = [s EXCEPT !.cur = IF done THEN 0 ELSE @]]
    /\ live' = IF done THEN live \ {s.cur} ELSE live
    /\ corrupt' = (corrupt \/ (s.cur # 0 /\ s.cur \notin live))

bts_cbch_get ==
    LET c == bts_smscb_state(tb)
        n == tb % 4
    IN
    /\ IF n = 0
       THEN /\ check_and_send_cbch_load(c, Len(select_next_smscb(ss[c]).queue))
            /\ get_smscb_block(c, select_next_smscb(ss[c]), n)
            /\ cut' = cut \ {c}
       ELSE /\ get_smscb_block(c, ss[c], n)
            /\ UNCHANGED <<told, cut>>
    /\ tb' = (tb + 1) % 8
    /\ UNCHANGED <<segs, smscbCfg, skips>>

\* Layer 1 does not ask for a block, since frames were lost.
SkipBlock ==
    LET c == bts_smscb_state(tb) IN
    /\ skips < MaxSkips
    /\ skips' = skips + 1
    /\ tb' = (tb + 1) % 8
    /\ aired' = IF tb % 4 = 0 THEN [aired EXCEPT ![c] = <<>>] ELSE aired
    /\ cut' = cut \cup {c}
    /\ UNCHANGED <<ss, segs, live, corrupt, smscbCfg, told>>
-----------------------------------------------------------------------------
\* bts_smscb_state_reset(): what it frees, in this order.
bts_smscb_state_reset(s) ==
    s.queue \o (IF s.cur # s.def THEN Pointer(s.cur) ELSE <<>>) \o Pointer(s.def)
bts_cbch_reset ==
    /\ Free(bts_smscb_state_reset(ss["basic"]) \o bts_smscb_state_reset(ss["extended"]))
    /\ ss' = [c \in Cbchs |-> NoMsgs]
    /\ cut' = Cbchs
    /\ UNCHANGED <<segs, tb, smscbCfg, told, aired, skips>>

\* The operator changes the settings of the queue.
VtySmscb ==
    /\ smscbCfg' \in SmscbCfgs \ {smscbCfg}
    /\ told' = [c \in Cbchs |-> "retuned"]
    /\ UNCHANGED <<ss, segs, live, corrupt, tb, aired, cut, skips>>

\* The steps of a BTS whose BSC uses the channel c.
CbchNext(c) ==
    \/ \E lb \in LastBlocks : SmscbQueued(c, lb) \/ SmscbOverflow(c, lb) \/ SmscbDefault(c, lb)
    \/ bts_cbch_get
    \/ SkipBlock
    \/ VtySmscb
-----------------------------------------------------------------------------
Pointers(s) == Range(s.queue) \cup ({s.cur, s.def} \ {0})

\* The message in transmission may be the default one, which may be replaced or reset at
\* any time: no message is used or freed twice, and every allocated one is still pointed
\* to, unless the last block of a message was never asked for.
CbchMemory ==
    /\ ~corrupt
    /\ UNION {Pointers(ss[c]) : c \in Cbchs} \subseteq live
    /\ skips = 0 => live \subseteq UNION {Pointers(ss[c]) : c \in Cbchs}
    /\ \A c \in Cbchs : \A m \in {ss[c].cur, ss[c].def} : m \notin Range(ss[c].queue)

Asked(c) ==   \* blocks of the current or last period of c that are over
    LET first == IF c = "basic" THEN 0 ELSE 4
    IN  IF tb > first /\ tb <= first + 4 THEN tb - first ELSE 4

\* The blocks of a period belong to one message; an uninterrupted period has them all,
\* from the first on.
OneMessagePerPeriod ==
    \A c \in Cbchs :
        /\ \A i, j \in DOMAIN aired[c] : aired[c][i][1] = aired[c][j][1]
        /\ c \notin cut /\ aired[c] # <<>> =>
              LET n == segs[aired[c][1][1]]
                  k == IF Asked(c) < n THEN Asked(c) ELSE n
              IN  aired[c] = [i \in 1 .. k |-> <<aired[c][1][1], i - 1>>]

\* A message is only dropped after the BSC was told that there are too many, provided
\* the settings put the limit at least the hysteresis above the target.
DropsAnnounced ==
    [][\A c \in Cbchs : (\E lb \in LastBlocks : SmscbOverflow(c, lb)) =>
            \/ told[c] \in {"over", "retuned"}
            \/ smscbCfg.max < smscbCfg.tgt + smscbCfg.hyst]_cbchVars

\* A queued message is sent or reset, whatever default messages come and go.
EventuallyBroadcast ==
    \A c \in Cbchs : ss[c].queue # <<>> ~> ss[c].queue = <<>>
=============================================================================
