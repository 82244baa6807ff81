------------------------------ MODULE SchedDl ------------------------------
(***************************************************************************)
(* The downlink of one timeslot in the TDMA scheduler (common/scheduler.c, *)
(* osmo-bts-trx/sched_lchan_xcch.c): ready-to-send indications ahead of    *)
(* time, the queue of the blocks that the upper layers answer with, and    *)
(* the bursts of a block.  Two channels share the timeslot and its queue,  *)
(* each with a block of four frames in a multiframe of eight.              *)
(***************************************************************************)
EXTENDS Integers, Sequences, SequencesExt

CONSTANTS
    DlHyperframe,   \* GSM_TDMA_HYPERFRAME
    RtsAdvance,     \* rts_advance
    MaxAhead,       \* how far ahead a block may be: 100 frames
    Resyncs,        \* by how much trx_setup_clock() may change the frame number
    MaxDlFrames,    \* bound: frames scheduled
    MaxDlEvents     \* bound: releases, activations and changes of the clock

ASSUME SchedDlAssumption ==
    /\ DlHyperframe \in Nat /\ DlHyperframe > 8 /\ DlHyperframe % 8 = 0
    /\ {RtsAdvance, MaxAhead, MaxDlFrames, MaxDlEvents} \subseteq Nat
    /\ RtsAdvance <= 8 /\ RtsAdvance <= MaxAhead /\ MaxAhead < DlHyperframe
    /\ Resyncs \subseteq Int

\* No block waits for so long (three hours and a half) that it is ahead again.
ASSUME ShortRun == MaxDlFrames + MaxAhead < DlHyperframe

VARIABLES
    tn,         \* ts->nr
    dlfn,       \* the next frame to schedule
    nframes,    \* frames scheduled so far
    lchs,       \* l1sched_chan_state of both channels
    dl_prims,   \* the queue: for which channel, activation and frame, and if answered at once
    owed,       \* a ready-to-send indication that is not answered yet
    era,        \* how often the clock was changed; the code has no such state
    ndlevents,
    wrong       \* what has gone wrong so far

dlvars == <<tn, dlfn, nframes, lchs, dl_prims, owed, era, ndlevents, wrong>>

Chans == {"a", "b"}
NoBlock == [chan |-> "a", gen |-> 0, fn |-> 0, era |-> 0, prompt |-> TRUE]
Blocks == [chan : Chans, gen : Nat, fn : 0 .. DlHyperframe - 1, era : Nat, prompt : BOOLEAN]

\* The type of the state.
DlTypeOK ==
    /\ tn \in 0 .. 7 /\ dlfn \in 0 .. DlHyperframe - 1 /\ nframes \in 0 .. MaxDlFrames
    /\ lchs \in [Chans -> [active : BOOLEAN, gen : Nat, mask : BOOLEAN, burst : Blocks]]
    /\ dl_prims \in Seq(Blocks) /\ owed \subseteq Blocks
    /\ era \in Nat /\ ndlevents \in 0 .. MaxDlEvents
    /\ wrong \subseteq {"foreign", "offbeat", "missed"}

DlFn(f) == (f + DlHyperframe) % DlHyperframe
ChanOf(fn) == IF fn % 8 < 4 THEN "a" ELSE "b"
DlBid(fn) == fn % 4

DlInit ==
    /\ tn \in {0, 1}
    /\ dlfn = 8 - RtsAdvance   \* just before the first ready-to-send indication
    /\ nframes = 0 /\ era = 0 /\ ndlevents = 0
    /\ lchs = [c \in Chans |-> [active |-> TRUE, gen |-> 1, mask |-> FALSE, burst |-> NoBlock]]
    /\ dl_prims = <<>> /\ owed = {} /\ wrong = {}
-----------------------------------------------------------------------------
\* Giving up at a block that is too late.
MutStopAtLate(q, fn) ==
    CASE q = <<>> -> [msg |-> {}, q |-> q]
      [] q # <<>> /\ DlFn(Head(q).fn - fn) \in 1 .. MaxAhead -> [msg |-> {}, q |-> q]
      [] OTHER -> [msg |-> {p \in {Head(q)} : p.chan = ChanOf(fn) /\ p.fn = fn}, q |-> Tail(q)]

\* _sched_dequeue_prim(): blocks that are too late are dropped, up to one that is not.
\* It is returned if it is for this frame, and kept if its time has not come.
_sched_dequeue_prim(q, fn) ==
    LET Diff(p) == DlFn(p.fn - fn)
        InRange(p) == Diff(p) <= MaxAhead
        n == SelectInSeq(q, InRange)
    IN  CASE n = 0 -> [msg |-> {}, q |-> <<>>]
          [] n > 0 /\ Diff(q[n]) > 0 -> [msg |-> {}, q |-> SubSeq(q, n, Len(q))]
          [] OTHER -> [msg |-> {p \in {q[n]} : p.chan = ChanOf(fn)}, q |-> SubSeq(q, n + 1, Len(q))]

\* tx_data_fn(): the first burst takes a block from the queue, the others follow if
\* there was one.  What is sent, if anything, and the new state of the channel.
tx_data_fn(c, q, fn) ==
    LET d == _sched_dequeue_prim(q, fn)
    IN  CASE DlBid(fn) > 0 -> [c |-> c, q |-> q, sent |-> IF c.mask THEN {c.burst} ELSE {}]
          [] DlBid(fn) = 0 /\ d.msg = {} -> [c |-> [c EXCEPT !.mask = FALSE], q |-> d.q, sent |-> {}]
          [] OTHER -> LET msg == CHOOSE m \in d.msg : TRUE
                      IN  [c |-> [c EXCEPT !.mask = TRUE, !.burst = msg], q |-> d.q, sent |-> {msg}]

\* _sched_rts().  The upper layers answer at once, or later if at all.
Rts(fn) ==
    LET c == ChanOf(fn)
    IN  IF DlBid(fn) = 0 /\ lchs[c].active
        THEN {[chan |-> c, gen |-> lchs[c].gen, fn |-> fn, era |-> era, prompt |-> TRUE]} ELSE {}

\* bts_sched_fn() for the timeslot: ready-to-send for a later frame, and the burst of
\* this one.
bts_sched_fn(answer) ==
    /\ nframes < MaxDlFrames
    /\ LET fn == dlfn
           c == ChanOf(fn)
           rts == Rts(DlFn(fn + RtsAdvance))
           q == IF answer = "now" THEN dl_prims \o SetToSeq(rts) ELSE dl_prims
           tx == tx_data_fn(lchs[c], q, fn)
           asked == /\ \E i \in DOMAIN q : q[i].prompt /\ q[i].chan = c /\ q[i].fn = fn
                    /\ \A i \in DOMAIN q : q[i].era = era
       IN  /\ rts = {} => answer = "now"
           /\ owed' = IF answer = "later" THEN owed \cup {[p EXCEPT !.prompt = FALSE] : p \in rts} ELSE owed
           /\ IF lchs[c].active THEN lchs' = [lchs EXCEPT ![c] = tx.c] /\ dl_prims' = tx.q
                                ELSE UNCHANGED lchs /\ dl_prims' = q
           /\ wrong' = IF ~lchs[c].active THEN wrong ELSE wrong
                \cup (IF \E b \in tx.sent : b.prompt /\ b.gen # lchs[c].gen THEN {"foreign"} ELSE {})
                \cup (IF \E b \in tx.sent : b.era = era /\ DlFn(b.fn + DlBid(fn)) # fn THEN {"offbeat"} ELSE {})
                \cup (IF DlBid(fn) = 0 /\ asked /\ tx.sent = {} THEN {"missed"} ELSE {})
    /\ dlfn' = DlFn(dlfn + 1)
    /\ nframes' = nframes + 1
    /\ UNCHANGED <<tn, era, ndlevents>>

\* trx_sched_ph_data_req() with an answer that took its time, as those of the PCU.
trx_sched_ph_data_req ==
    /\ \E p \in owed :
         /\ owed' = owed \ {p}
         /\ dl_prims' = Append(dl_prims, p)
    /\ UNCHANGED <<tn, dlfn, nframes, lchs, era, ndlevents, wrong>>

\* trx_sched_queue_filter(): it is given the channel number without the timeslot, which
\* is that of no block unless the timeslot is the first.
trx_sched_queue_filter(q, c) ==
    LET rest[n \in 0 .. Len(q)] ==   \* what is left of the first n
            CASE n = 0 -> <<>>
              [] n > 0 /\ q[n].chan = c /\ tn = 0 -> rest[n - 1]
              [] OTHER -> Append(rest[n - 1], q[n])
    IN rest[Len(q)]

\* _trx_sched_set_lchan().
DlSetLchan ==
    /\ ndlevents < MaxDlEvents
    /\ ndlevents' = ndlevents + 1
    /\ \E c \in Chans :
         IF lchs[c].active
         THEN /\ lchs' = [lchs EXCEPT ![c].active = FALSE]
              /\ dl_prims' = trx_sched_queue_filter(dl_prims, c)
         ELSE /\ lchs' = [lchs EXCEPT ![c] = [active |-> TRUE, gen |-> @.gen + 1,
                                              mask |-> FALSE, burst |-> NoBlock]]
              /\ UNCHANGED dl_prims
    /\ UNCHANGED <<tn, dlfn, nframes, owed, era, wrong>>

\* The frame clock is restarted with another frame number.
Resync ==
    /\ ndlevents < MaxDlEvents
    /\ ndlevents' = ndlevents + 1
    /\ \E d \in Resyncs : dlfn' = DlFn(dlfn + d)
    /\ era' = era + 1
    /\ UNCHANGED <<tn, nframes, lchs, dl_prims, owed, wrong>>

DlNext ==
    \/ \E answer \in {"now", "later"} : bts_sched_fn(answer)
    \/ trx_sched_ph_data_req
    \/ DlSetLchan
    \/ Resync

DlSpec == DlInit /\ [][DlNext]_dlvars
-----------------------------------------------------------------------------
\* A burst is sent in the frame that its block was asked for, and a burst of a block
\* that is over is never sent again, except for the block in which the clock changes.
BurstsInTheirFrames == "offbeat" \notin wrong

\* A block that was given for a channel is not sent on its next activation, on the
\* first timeslot; on the others the blocks of a released channel stay in the queue.
NoBlockOfOthers == tn = 0 => "foreign" \notin wrong

\* However late other answers are and whatever is released, a block that the upper
\* layers give at once is sent, or another one for the same frame; only blocks from
\* before a change of the clock may stand in its way.
PromptIsSent == "missed" \notin wrong

\* What is sent is what was given for this frame and this user, and it is sent.
DownlinkInv == DlTypeOK /\ BurstsInTheirFrames /\ NoBlockOfOthers /\ PromptIsSent
=============================================================================
