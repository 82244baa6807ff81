----------------------------- MODULE SchedClock -----------------------------
(***************************************************************************)
(* The frame clock of osmo-bts-trx (osmo-bts-trx/scheduler_trx.c): a timer *)
(* of the PC schedules one frame after the other, and the clock            *)
(* indications that the transceiver sends now and then (trx_clk_read_cb()  *)
(* of trx_if.c) keep it in step.  Time passes in frames.  The process      *)
(* handles what is ready before the next frame unless the operating system *)
(* does not let it run; a timer and an indication that are both ready are  *)
(* handled in either order.                                                *)
(***************************************************************************)
EXTENDS Integers, Sequences

CONSTANTS
    Hyperframe,      \* GSM_TDMA_HYPERFRAME
    NegativeFrom,    \* the difference from which compute_elapsed_fn() counts backwards
    MaxFnSkew,       \* MAX_FN_SKEW
    TrxLossFrames,   \* TRX_LOSS_FRAMES
    StartFrames,     \* the three seconds of trx_sched_clock_started()
    IndPeriod,       \* how often the transceiver indicates its clock
    FirstFrames,     \* frame numbers of a transceiver that is powered on
    Jumps,           \* by how much its frame number may jump
    MaxFaults        \* bound: stalled frames, lost indications, jumps and restarts

ASSUME SchedClockAssumption ==
    /\ {Hyperframe, NegativeFrom} \subseteq Nat
    /\ MaxFnSkew \in Nat \ {0} /\ MaxFnSkew < NegativeFrom
    /\ NegativeFrom + MaxFnSkew < Hyperframe
    /\ {TrxLossFrames, StartFrames, IndPeriod, MaxFaults} \subseteq Nat \ {0}
    /\ FirstFrames \subseteq 0 .. Hyperframe - 1 /\ Jumps \subseteq Int

\* The transceiver indicates its clock more rarely than the skew that is put up with, and
\* often enough for the two supervisions: every 51 to 300 frames with the code's numbers.
ASSUME RatesAssumption ==
    /\ MaxFnSkew < IndPeriod /\ IndPeriod < NegativeFrom
    /\ 2 * IndPeriod + MaxFnSkew <= StartFrames
    /\ IndPeriod + MaxFnSkew <= TrxLossFrames + 1
    /\ 2 * MaxFnSkew <= NegativeFrom /\ NegativeFrom + 2 * MaxFnSkew <= Hyperframe

VARIABLES
    trx,       \* the transceiver: on, its fn, frames until its next indication
    ind,       \* clock indications in the socket
    powered,   \* plink->u.osmotrx.powered
    timer,     \* fn_timer_ofd: callback, frames until it expires (0: not set), expirations
    last,      \* last_fn_timer.fn
    age,       \* how long ago last_fn_timer.tv was, up to MaxFnSkew + 1
    without,   \* fn_without_clock_ind
    alarm,     \* why bts_shutdown() was called first
    faults,    \* what has gone wrong in this run of the transceiver
    lag,       \* how many frames of it passed before the process handled what was ready
    nfaults,   \* how often anything has gone wrong
    synced     \* an indication was handled on time and the transceiver kept its clock since

clkvars == <<trx, ind, powered, timer, last, age, without, alarm, faults, lag, nfaults, synced>>

Alarms == {"none", "start", "loss", "skew"}
Closed == [cb |-> "none", due |-> 0, count |-> 0]

\* The type of the state.
ClockTypeOK ==
    /\ trx \in [on : BOOLEAN, fn : 0 .. Hyperframe - 1, next : 1 .. IndPeriod]
    /\ ind \in Seq(0 .. Hyperframe - 1)
    /\ powered \in BOOLEAN
    /\ timer \in [cb : {"none", "start", "fn"}, due : Nat, count : Nat]
    /\ last \in 0 .. Hyperframe - 1
    /\ age \in 0 .. MaxFnSkew + 1
    /\ without \in 0 .. TrxLossFrames + 1
    /\ alarm \in Alarms
    /\ faults \subseteq {"lost", "silent", "jump", "wrap"}
    /\ lag \in 0 .. MaxFaults
    /\ nfaults \in 0 .. MaxFaults
    /\ synced \in BOOLEAN

ClockInit ==
    /\ trx = [on |-> FALSE, fn |-> 0, next |-> IndPeriod]
    /\ ind = <<>> /\ powered = FALSE /\ timer = Closed
    /\ last = 0 /\ age = 0 /\ without = 0 /\ alarm = "none"
    /\ faults = {} /\ lag = 0 /\ nfaults = 0 /\ synced = FALSE

Plus(fn, k) == (fn + k) % Hyperframe

compute_elapsed_fn(from, to) ==
    LET elapsed == Plus(to, -from)
    IN  IF elapsed >= NegativeFrom THEN elapsed - Hyperframe ELSE elapsed

Ready == timer.count > 0 \/ ind # <<>>
-----------------------------------------------------------------------------
\* The transceiver: POWERON reaches it, it counts frames and indicates its clock.
PowerOn ==
    /\ ~trx.on
    /\ \E f \in FirstFrames : trx' = [on |-> TRUE, fn |-> f, next |-> IndPeriod]
    /\ faults' = {} /\ lag' = 0 /\ synced' = FALSE /\ alarm' = "none"
    /\ UNCHANGED <<ind, powered, timer, last, age, without, nfaults>>

\* A frame passes, perhaps before the process has run.  The timer expires, a one-shot
\* timer once; the indication that is due may get lost, and a transceiver that has
\* died sends none.
Frame(sends) ==
    /\ trx.on
    /\ Ready => nfaults < MaxFaults
    /\ LET due == trx.next = 1
           fn == Plus(trx.fn, 1)
           lost == due /\ ~sends /\ "silent" \notin faults
       IN  /\ ~sends => due
           /\ sends => ~(due /\ "silent" \in faults)
           /\ lost => nfaults < MaxFaults
           /\ trx' = [trx EXCEPT !.fn = fn, !.next = IF due THEN IndPeriod ELSE @ - 1]
           /\ ind' = IF due /\ sends THEN Append(ind, fn) ELSE ind
           /\ faults' = faults \cup (IF lost THEN {"lost"} ELSE {})
           /\ lag' = IF Ready THEN lag + 1 ELSE lag
           /\ nfaults' = IF lost \/ Ready THEN nfaults + 1 ELSE nfaults
    /\ timer' = CASE timer.due = 0 -> timer
                  [] timer.due = 1 -> [timer EXCEPT !.count = @ + 1,
                                                    !.due = IF timer.cb = "fn" THEN 1 ELSE 0]
                  [] OTHER -> [timer EXCEPT !.due = @ - 1]
    /\ age' = IF age > MaxFnSkew THEN age ELSE age + 1
    /\ UNCHANGED <<powered, last, without, alarm, synced>>

\* The transceiver's frame number jumps, or it stops sending for good.
TrxFault ==
    /\ trx.on /\ nfaults < MaxFaults
    /\ nfaults' = nfaults + 1
    /\ \/ /\ \E d \in Jumps : trx' = [trx EXCEPT !.fn = Plus(@, d)]
          /\ faults' = faults \cup {"jump"}
          /\ synced' = FALSE
       \/ faults' = faults \cup {"silent"} /\ UNCHANGED <<trx, synced>>
    /\ UNCHANGED <<ind, powered, timer, last, age, without, alarm, lag>>
-----------------------------------------------------------------------------
\* Without the memset().
MutStartedStale ==
    /\ trx.on /\ ~powered
    /\ powered' = TRUE
    /\ timer' = [cb |-> "start", due |-> StartFrames, count |-> 0]
    /\ UNCHANGED <<trx, ind, last, age, without, alarm, faults, lag, nfaults, synced>>

\* POWERON is confirmed: the BTS waits for the first clock indication.
trx_sched_clock_started ==
    /\ trx.on /\ ~powered
    /\ powered' = TRUE
    /\ timer' = [cb |-> "start", due |-> StartFrames, count |-> 0]
    /\ last' = 0 /\ without' = 0 /\ age' = MaxFnSkew + 1
    /\ UNCHANGED <<trx, ind, alarm, faults, lag, nfaults, synced>>

\* POWEROFF is confirmed, for a shutdown after an alarm or one of another cause, and
\* the sockets are closed.
trx_sched_clock_stopped ==
    /\ powered
    /\ alarm = "none" => nfaults < MaxFaults
    /\ nfaults' = IF alarm = "none" THEN nfaults + 1 ELSE nfaults
    /\ powered' = FALSE /\ timer' = Closed
    /\ trx' = [trx EXCEPT !.on = FALSE] /\ ind' = <<>>
    /\ UNCHANGED <<last, age, without, alarm, faults, lag, synced>>

RaiseAlarm(why) == alarm' = IF alarm = "none" THEN why ELSE alarm

\* No indication since the start.
trx_start_noclockind_to_cb ==
    /\ timer.cb = "start" /\ timer.count > 0
    /\ timer' = Closed
    /\ RaiseAlarm("start")
    /\ UNCHANGED <<trx, ind, powered, last, age, without, faults, lag, nfaults, synced>>

\* The frame timer: as many frames as it has expired for, unless the transceiver is
\* not heard of any more or the timer is too late.
trx_fn_timer_cb ==
    /\ timer.cb = "fn" /\ timer.count > 0
    /\ without' = without + 1
    /\ CASE without = TrxLossFrames ->
              /\ timer' = [timer EXCEPT !.due = 0, !.count = 0]
              /\ RaiseAlarm("loss")
              /\ UNCHANGED <<last, age>>
         [] without # TrxLossFrames /\ age > MaxFnSkew ->
              /\ timer' = [timer EXCEPT !.due = 0, !.count = 0]
              /\ RaiseAlarm("skew")
              /\ age' = 0 /\ UNCHANGED last
         [] OTHER ->
              /\ timer' = [timer EXCEPT !.count = 0]
              /\ last' = Plus(last, timer.count)
              /\ age' = 0 /\ UNCHANGED alarm
    /\ UNCHANGED <<trx, ind, powered, faults, lag, nfaults, synced>>

\* Setting the timer forgets its expirations and does nothing to a closed one.
Schedule(due) == IF timer.cb = "none" THEN timer ELSE [timer EXCEPT !.due = due, !.count = 0]

\* The pause of a timer that is ahead of the transceiver: until the next frame is due.
MutPause(elapsed_fn) == -elapsed_fn
Pause(elapsed_fn) == 1 - elapsed_fn

\* trx_setup_clock(): the frame timer starts with the frame of the indication.
MutSetupUnset(fn) ==
    /\ timer' = [cb |-> "fn", due |-> 0, count |-> 0]
    /\ last' = fn /\ age' = 0
trx_setup_clock(fn) ==
    /\ timer' = [cb |-> "fn", due |-> 1, count |-> 0]
    /\ last' = fn /\ age' = 0

\* A clock indication that differs too much from the timer restarts it; one that is
\* behind makes it wait, one that is ahead makes up for what is missing.
trx_sched_clock(fn) ==
    LET elapsed_fn == compute_elapsed_fn(last, fn)
    IN  /\ without' = 0
        /\ CASE elapsed_fn > MaxFnSkew \/ elapsed_fn < -MaxFnSkew -> trx_setup_clock(fn)
             [] elapsed_fn \in -MaxFnSkew .. -1 ->
                  /\ timer' = Schedule(Pause(elapsed_fn))
                  /\ UNCHANGED <<last, age>>
             [] OTHER ->
                  /\ last' = fn
                  /\ age' = IF fn # last THEN 0 ELSE age
                  /\ UNCHANGED timer
        /\ synced' = (fn = trx.fn /\ timer'.count = 0 /\ (elapsed_fn < 0 \/ timer'.due = 1))
        /\ faults' = IF timer.cb = "start" /\ fn >= Hyperframe - MaxFnSkew
                     THEN faults \cup {"wrap"} ELSE faults

\* A clock indication arrives; before POWERON is confirmed it is ignored.
trx_clk_read_cb ==
    /\ ind # <<>>
    /\ ind' = Tail(ind)
    /\ IF powered THEN trx_sched_clock(Head(ind))
                  ELSE UNCHANGED <<timer, last, age, without, faults, synced>>
    /\ UNCHANGED <<trx, powered, alarm, lag, nfaults>>

ClockHandlers ==
    trx_clk_read_cb \/ trx_fn_timer_cb \/ trx_start_noclockind_to_cb

ClockNext ==
    \/ PowerOn
    \/ \E sends \in BOOLEAN : Frame(sends)
    \/ TrxFault
    \/ trx_sched_clock_started
    \/ trx_sched_clock_stopped
    \/ ClockHandlers

ClockSpec == ClockInit /\ [][ClockNext]_clkvars
-----------------------------------------------------------------------------
\* Once an indication has been handled in time, with neither an expiration nor an
\* earlier pause of the timer left over, the frames that are scheduled are exactly
\* those of the transceiver, whatever the timer waits for or has to make up for, as
\* long as the transceiver counts on.
InStep ==
    synced /\ powered /\ timer.cb = "fn" /\ timer.due > 0
    => Plus(last, timer.count + 1) = Plus(trx.fn, timer.due)

\* The clock of the BTS is well formed and in step with the transceiver's.
ClockInv == ClockTypeOK /\ InStep

\* A transceiver that indicates its clock regularly never has the BTS shut down as
\* long as the process is stalled for less than MaxFnSkew - 1 frames in all, unless the
\* first indication has one of the last numbers before the frame number wraps.
NoFalseAlarm == alarm # "none" => faults # {} \/ lag >= MaxFnSkew - 1

\* A transceiver that falls silent is noticed, whenever it does.
SilenceNoticed == (powered /\ "silent" \in faults) ~> (alarm # "none" \/ ~powered)
=============================================================================
