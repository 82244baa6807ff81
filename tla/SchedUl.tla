------------------------------ MODULE SchedUl ------------------------------
(***************************************************************************)
(* The uplink of one SDCCH or SACCH in the TDMA scheduler                  *)
(* (common/scheduler.c, osmo-bts-trx/sched_lchan_xcch.c): the bursts of a  *)
(* block come from the transceiver in datagrams that get lost or overtake  *)
(* one another, and are put together to blocks that are indicated to the   *)
(* upper layers.  A block takes the first four frames of a multiframe; the *)
(* other frames belong to other channels, which have state of their own.   *)
(***************************************************************************)
EXTENDS Integers, FiniteSets, Sequences

CONSTANTS
    UlHyperframe,  \* GSM_TDMA_HYPERFRAME, a multiple of Period
    Period,        \* l1ts->mf_period
    UlStarts,      \* frame numbers to start with
    MaxFrames,     \* bound: frames that pass
    MaxDelay,      \* bound: frames that a datagram is on its way
    MaxUlEvents    \* bound: activations, releases and ends of handover detection

ASSUME SchedUlAssumption ==
    /\ Period \in Nat /\ Period >= 4
    /\ UlHyperframe \in Nat /\ UlHyperframe % Period = 0 /\ 2 * Period <= UlHyperframe
    /\ UlStarts \subseteq 0 .. UlHyperframe - 1
    /\ {MaxFrames, MaxDelay, MaxUlEvents} \subseteq Nat

\* No burst is overtaken by three frames or by one of another block, and no channel is
\* followed for half a hyperframe (an hour and three quarters).
ASSUME UlShortRun ==
    /\ MaxDelay <= 3 /\ MaxDelay <= Period - 3
    /\ 2 * MaxFrames + 8 <= UlHyperframe

VARIABLES
    start,     \* the first frame number
    now,       \* frames that have passed since
    net,       \* bursts on their way: when they were sent, and whether they are NOPE.ind
    chan,      \* l1sched_chan_state of the channel
    nevents,
    blocks,    \* how often each block was indicated in the present activation
    whole,     \* every indication was made of the bursts of its own block
    measured,  \* the measurements of every indication were those of its four bursts
    late       \* a burst was overtaken

ulvars == <<start, now, net, chan, nevents, blocks, whole, measured, late>>

Zero == -1     \* a burst buffer that was cleared

\* memset() of _trx_sched_set_lchan(), with or without handover detection.  The code
\* has no "rough" (the block in the buffers was begun during handover detection, or a
\* whole multiframe is missing in it) and no "since" (the first burst after these).
NewChan(ho) ==
    [active |-> TRUE, ho |-> ho, started |-> FALSE, last |-> 0, mask |-> {}, first |-> 0,
     buf |-> [b \in 0 .. 3 |-> Zero], meas |-> <<>>,
     rough |-> ho, since |-> 0]

\* The type of the state.
UlTypeOK ==
    /\ start \in UlStarts
    /\ now \in 0 .. MaxFrames
    /\ net \subseteq [t : 0 .. MaxFrames, nope : BOOLEAN]
    /\ chan \in [active : BOOLEAN, ho : BOOLEAN, started : BOOLEAN,
                 last : 0 .. UlHyperframe - 1, mask : SUBSET (0 .. 3),
                 first : 0 .. UlHyperframe - 1,
                 buf : [0 .. 3 -> -1 .. UlHyperframe - 1], meas : Seq(0 .. UlHyperframe - 1),
                 rough : BOOLEAN, since : 0 .. UlHyperframe - 1]
    /\ nevents \in 0 .. MaxUlEvents
    /\ \A f \in DOMAIN blocks : blocks[f] \in Nat
    /\ whole \in BOOLEAN /\ measured \in BOOLEAN /\ late \in BOOLEAN

UlFn(f) == f % UlHyperframe
Fn(t) == UlFn(start + t)
Bid(fn) == fn % Period             \* bi->bid of a frame of the channel
Ours(fn) == fn % Period \in 0 .. 3
FirstOf(fn) == fn - Bid(fn)

UlInit ==
    /\ start \in UlStarts
    /\ now = 0 /\ net = {} /\ nevents = 0
    /\ \E ho \in BOOLEAN : chan = NewChan(ho)
    /\ blocks = [f \in {g \in 0 .. UlHyperframe - 1 : g % Period = 0} |-> 0]
    /\ whole = TRUE /\ measured = TRUE /\ late = FALSE
-----------------------------------------------------------------------------
\* The transceiver: a burst, or NOPE.ind for one it could not receive, in each frame.
UlFrame ==
    /\ now < MaxFrames
    /\ \A b \in net : now - b.t < MaxDelay
    /\ now' = now + 1
    /\ IF Ours(Fn(now)) THEN \E nope \in BOOLEAN : net' = net \cup {[t |-> now, nope |-> nope]}
                        ELSE net' = net
    /\ UNCHANGED <<start, chan, nevents, blocks, whole, measured, late>>

LoseBurst ==
    /\ \E b \in net : net' = net \ {b}
    /\ UNCHANGED <<start, now, chan, nevents, blocks, whole, measured, late>>
-----------------------------------------------------------------------------
\* What handling bursts amounts to: the channel and the blocks indicated.
Rx(c, inds) == [chan |-> c, inds |-> inds]

\* The first burst of a block clears what is left of the one before.
Opened(c, fn) ==
    IF Bid(fn) # 0 THEN c
    ELSE [c EXCEPT !.buf = [b \in 0 .. 3 |-> Zero], !.mask = {}, !.first = fn, !.rough = c.ho]

\* A burst is put in its place.  What arrives is "data", "nope" (NOPE.ind without bits) or
\* "blank" (made up); the last four measurements are kept.
Stored(c, fn, what) ==
    LET m == Append(c.meas, fn)
    IN  [c EXCEPT !.mask = c.mask \cup {Bid(fn)},
                  !.buf = CASE what = "data" -> [c.buf EXCEPT ![Bid(fn)] = fn]
                            [] what = "nope" -> c.buf
                            [] what = "blank" -> [c.buf EXCEPT ![Bid(fn)] = Zero],
                  !.meas = IF Len(m) > 4 THEN Tail(m) ELSE m]

Block(c) == [first |-> c.first, buf |-> c.buf, meas |-> c.meas, rough |-> c.rough]

\* rx_data_fn(): with handover detection a burst is taken for an access burst; else it
\* is put in its place, and the last of a block has the block decoded and indicated.
rx_data_fn(r, fn, what) ==
    LET stored == Stored(Opened(r.chan, fn), fn, what)
    IN  IF r.chan.ho /\ what = "data" THEN r
        ELSE IF Bid(fn) # 3 THEN Rx(stored, r.inds)
        ELSE Rx([stored EXCEPT !.mask = {}],
                IF 0 \in stored.mask THEN Append(r.inds, Block(stored)) ELSE r.inds)

Elapsed(c, fn) == UlFn(fn - c.last + UlHyperframe)

MutPeriodIsTooMany(c, fn) == Elapsed(c, fn) >= Period
TooMany(c, fn) == Elapsed(c, fn) > Period

\* trx_sched_calc_frame_loss(): the frames of the channel since the last one, if there
\* is no more than a multiframe of them, are handled as NOPE.ind first.
trx_sched_calc_frame_loss(c, fn) ==
    LET Substitute[i \in 0 .. Period] ==
          IF i = 0 THEN Rx(c, <<>>)
          ELSE LET f == UlFn(c.last + i)
               IN  IF i < Elapsed(c, fn) /\ Ours(f) THEN rx_data_fn(Substitute[i - 1], f, "blank")
                                                    ELSE Substitute[i - 1]
    IN  IF ~c.started \/ c.ho \/ TooMany(c, fn) THEN Rx(c, <<>>) ELSE Substitute[Period]

\* An indication that is made of the bursts of its own block, as far as they arrived,
\* and one whose measurements are of these four bursts.
Whole(block) == \A b \in 0 .. 3 : block.buf[b] \in {Zero, block.first + b}
Measured(block) == block.meas = [i \in 1 .. 4 |-> block.first + i - 1]

\* A multiframe and more is missing before a burst that was not overtaken.
Gap(c, fn) == c.started /\ Elapsed(c, fn) \in Period + 1 .. UlHyperframe \div 2

FollowedSince(c, fn) ==
    CASE c.ho -> UlFn(fn + 1)
      [] ~c.ho /\ (Gap(c, fn) \/ ~c.started) -> fn
      [] OTHER -> c.since

\* What a burst comes to: what was lost before it is made up, and it is handled itself.
Received(c, fn, what) ==
    LET made_up == trx_sched_calc_frame_loss(c, fn)
    IN  rx_data_fn(Rx([made_up.chan EXCEPT !.last = fn, !.started = TRUE,
                                           !.rough = made_up.chan.rough \/ Gap(c, fn),
                                           !.since = FollowedSince(c, fn)], made_up.inds), fn, what)

\* trx_sched_ul_burst(): a burst arrives.
trx_sched_ul_burst ==
    \E b \in net :
      LET r == Received(chan, Fn(b.t), IF b.nope THEN "nope" ELSE "data")
          smooth == {block \in {r.inds[i] : i \in DOMAIN r.inds} : ~block.rough}
      IN  /\ net' = net \ {b}
          /\ late' = (late \/ \E o \in net : o.t < b.t)
          /\ IF ~chan.active THEN UNCHANGED <<chan, blocks, whole, measured>>
             ELSE /\ chan' = r.chan
                  /\ blocks' = [f \in DOMAIN blocks |->
                                 blocks[f] + Cardinality({i \in DOMAIN r.inds : r.inds[i].first = f})]
                  /\ whole' = (whole /\ \A block \in smooth : Whole(block))
                  /\ measured' = (measured /\ \A block \in smooth : Measured(block))
          /\ UNCHANGED <<start, now, nevents>>

\* The channel is released, activated again, or the access burst that handover
\* detection was waiting for is taken.
_trx_sched_set_lchan ==
    /\ nevents < MaxUlEvents
    /\ nevents' = nevents + 1
    /\ \/ chan.active /\ chan' = [chan EXCEPT !.active = FALSE, !.ho = FALSE]
       \/ ~chan.active /\ \E ho \in BOOLEAN : chan' = NewChan(ho)
    /\ blocks' = [f \in DOMAIN blocks |-> 0]
    /\ whole' = TRUE /\ measured' = TRUE
    /\ UNCHANGED <<start, now, net, late>>

trx_sched_set_ul_access ==
    /\ chan.active /\ chan.ho
    /\ chan' = [chan EXCEPT !.ho = FALSE]
    /\ UNCHANGED <<start, now, net, nevents, blocks, whole, measured, late>>

UlNext ==
    \/ UlFrame
    \/ LoseBurst
    \/ trx_sched_ul_burst
    \/ _trx_sched_set_lchan
    \/ trx_sched_set_ul_access

UlSpec == UlInit /\ [][UlNext]_ulvars
-----------------------------------------------------------------------------
\* However bursts get lost or overtake one another, by up to two frames, a block that
\* is indicated consists of its own bursts, with some of them blank, unless it was begun
\* during handover detection or more than a multiframe is missing in it.
WholeBlocks == whole

\* Without overtaking, the measurements of such a block are those of its four bursts.
BlocksMeasured == ~late => measured

\* Once the channel has received a burst, every block that is over by its last burst
\* has been indicated, exactly once, so that no measurement period is missed or ended
\* too early; except for what is missing when a multiframe and more is lost, and for
\* the time of handover detection.
EveryBlockIndicated ==
    LET After(f) == UlFn(f - chan.since + UlHyperframe)
    IN  /\ \A f \in DOMAIN blocks : blocks[f] <= 1
        /\ chan.active /\ chan.started /\ ~chan.ho /\ After(chan.last) < UlHyperframe \div 2
           => \A f \in DOMAIN blocks : After(f) + 3 <= After(chan.last) => blocks[f] = 1

\* What goes up is what was received: whole blocks, with their own measurements, each of
\* them once.
UplinkInv == UlTypeOK /\ WholeBlocks /\ BlocksMeasured /\ EveryBlockIndicated
=============================================================================
