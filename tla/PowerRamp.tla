------------------------------ MODULE PowerRamp ------------------------------
(***************************************************************************)
(* The transmit power ramp of one TRX (common/tx_power.c), as functions    *)
(* from ramp states to ramp states.  Powers are in mdBm.                   *)
(*                                                                         *)
(* A ramp state is a record                                                *)
(*   tgt    p_total_tgt_mdBm, the power to reach                           *)
(*   cur    p_total_cur_mdBm, the power it is said to have now             *)
(*   att    ramp.attenuation_mdB, what is still missing to the target:     *)
(*          positive on the way up, negative on the way down               *)
(*   cb     ramp.compl_cb, the callback for a completed ramp               *)
(*   timer  is ramp.step_timer armed?                                      *)
(*   req    bts_model_change_power() requests the layer 1 has not answered *)
(*   out    the power of the last such request                             *)
(*                                                                         *)
(* Amplifier gains and thermal attenuation shift the power that layer 1 is *)
(* given, not the course of the ramp, and are left out.                    *)
(***************************************************************************)
EXTENDS Integers

CONSTANTS
    StepSize,    \* ramp.step_size_mdB
    MaxInitial   \* ramp.max_initial_pout_mdBm

ASSUME RampAssumption == StepSize \in Nat \ {0} /\ MaxInitial \in Int

RampState(Callbacks) ==
    [tgt : Int, cur : Int, att : Int, cb : Callbacks, timer : BOOLEAN, req : Nat, out : Int]

\* A TRX at power p with no ramp going on and no callback.
AtRest(p) ==
    [tgt |-> p, cur |-> p, att |-> 0, cb |-> "none", timer |-> FALSE, req |-> 0, out |-> p]

we_are_ramping_up(r) == r.tgt > r.cur

\* power_ramp_timer_cb(): the power follows from the attenuation, layer 1 is told.
power_ramp_timer_cb(r) ==
    [r EXCEPT !.cur = r.tgt - r.att, !.out = r.tgt - r.att,
              !.req = @ + 1, !.timer = FALSE]

\* power_ramp_do_step(), the part that takes a step: bring the attenuation closer
\* to zero and schedule the timer that makes it effective.
DoStep(r) ==
    [r EXCEPT
        !.att = IF we_are_ramping_up(r)
                THEN IF @ - StepSize <= 0 THEN 0 ELSE @ - StepSize
                ELSE IF @ + StepSize >= 0 THEN 0 ELSE @ + StepSize,
        !.timer = TRUE]

power_ramp_abort(r) == [r EXCEPT !.timer = FALSE]

\* power_trx_change_compl(): layer 1 has answered a request.  With no attenuation
\* left the ramp is complete and its callback runs, otherwise it takes a step.
IsComplete(r) == r.att = 0
power_trx_change_compl(r) ==
    LET answered == [r EXCEPT !.req = @ - 1] IN
    IF IsComplete(r) THEN answered ELSE DoStep(answered)

\* _power_ramp_start() to power p with callback cb.  What is left of an earlier ramp
\* is its unanswered requests.
power_ramp_start(r, p, cb, skip) ==
    LET new == [power_ramp_abort(r) EXCEPT !.tgt = p, !.cb = cb]
        from == IF we_are_ramping_up(new) /\ new.cur + StepSize < MaxInitial
                THEN MaxInitial - StepSize ELSE new.cur
    IN
    IF skip \/ (we_are_ramping_up(new) /\ p <= MaxInitial)
    THEN power_ramp_timer_cb([new EXCEPT !.cur = p, !.att = 0])
    ELSE DoStep([new EXCEPT !.cur = from, !.att = p - from])

\* The power the next timer will ask for lies between the current one and the target.
OnCourse(r) ==
    \/ r.cur <= r.tgt - r.att /\ r.tgt - r.att <= r.tgt
    \/ r.cur >= r.tgt - r.att /\ r.tgt - r.att >= r.tgt

\* Is anything left that will drive the ramp on?
RampIdle(r) == ~r.timer /\ r.req = 0
=============================================================================
