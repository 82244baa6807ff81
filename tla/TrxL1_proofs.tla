---------------------------- MODULE TrxL1_proofs ----------------------------
(***************************************************************************)
(* Proofs about layer 1 of osmo-bts-trx.  TxPower, for all step sizes,     *)
(* powers, reductions and any number of unanswered requests: the lemmas    *)
(* are about the functions of PowerRamp, and each theorem then goes        *)
(* through the actions once.  SchedClock, for every hyperframe and all the *)
(* rates of its assumptions: the lemmas are about frame numbers and their  *)
(* differences, and two inductive invariants say where the timer stands.   *)
(* SchedDl, for every hyperframe, advance and history of the queue: the    *)
(* lemmas are about what is taken from the queue and what is kept of it.   *)
(* SchedUl, for every hyperframe, period and order of arrival: the lemmas  *)
(* say how a channel stands after each frame, with true frame numbers in   *)
(* place of those that wrap around.                                        *)
(***************************************************************************)
EXTENDS TxPower, SchedClock, SchedUl, SchedDl, FiniteSetTheorems, WellFoundedInduction, TLAPS

\* A ramp that no timer drives on has asked layer 1 for the power its attenuation
\* stands for, and waits for an answer or has nothing left to do.
Driven(r) == r.timer \/ (r.out = r.tgt - r.att /\ (r.req > 0 \/ r.att = 0))

\* A step keeps the type and leaves the ramp driven.
LEMMA DoStepDriven ==
    ASSUME NEW s \in RampState(Callbacks)
    PROVE  /\ DoStep(s) \in RampState(Callbacks)
           /\ DoStep(s).timer = TRUE
           /\ DoStep(s).tgt = s.tgt /\ DoStep(s).cur = s.cur
           /\ Driven(DoStep(s))
  <1> DEFINE a == IF we_are_ramping_up(s)
                  THEN IF s.att - StepSize <= 0 THEN 0 ELSE s.att - StepSize
                  ELSE IF s.att + StepSize >= 0 THEN 0 ELSE s.att + StepSize
  <1>1. a \in Int
    <2>1. s.att \in Int /\ StepSize \in Int
      BY RampAssumption DEF RampState
    <2> QED
      BY <2>1
  <1>2. DoStep(s) = [s EXCEPT !.att = a, !.timer = TRUE]
    BY DEF DoStep
  <1> HIDE DEF a
  <1>3. /\ DoStep(s) \in RampState(Callbacks)
        /\ DoStep(s).timer = TRUE
        /\ DoStep(s).tgt = s.tgt /\ DoStep(s).cur = s.cur
    BY <1>1, <1>2 DEF RampState
  <1> QED
    BY <1>3 DEF Driven

\* The ramp's timer and a new start keep the type and leave the ramp driven.
LEMMA RampFunctions ==
    ASSUME NEW r \in RampState(Callbacks), NEW p \in Int, NEW cb \in Callbacks
    PROVE  /\ power_ramp_timer_cb(r) \in RampState(Callbacks)
           /\ Driven(power_ramp_timer_cb(r))
           /\ power_ramp_start(r, p, cb, FALSE) \in RampState(Callbacks)
           /\ Driven(power_ramp_start(r, p, cb, FALSE))
           /\ power_ramp_start(r, p, cb, FALSE).tgt = p
  <1>1. ASSUME NEW s \in RampState(Callbacks)
        PROVE  /\ power_ramp_timer_cb(s) \in RampState(Callbacks)
               /\ Driven(power_ramp_timer_cb(s))
               /\ power_ramp_timer_cb(s).tgt = s.tgt
    <2> DEFINE o == s.tgt - s.att
               q == s.req + 1
    <2>1. o \in Int /\ q \in Nat /\ q > 0
      BY DEF RampState
    <2>2. power_ramp_timer_cb(s) = [s EXCEPT !.cur = o, !.out = o, !.req = q, !.timer = FALSE]
      BY DEF power_ramp_timer_cb
    <2>3. power_ramp_timer_cb(s).tgt = s.tgt /\ power_ramp_timer_cb(s).att = s.att
      BY <2>2 DEF RampState
    <2>4. power_ramp_timer_cb(s).out = o /\ power_ramp_timer_cb(s).req = q
      BY <2>2 DEF RampState
    <2> HIDE DEF q
    <2>5. Driven(power_ramp_timer_cb(s))
      BY <2>1, <2>3, <2>4 DEF Driven
    <2> HIDE DEF o
    <2>6. power_ramp_timer_cb(s) \in RampState(Callbacks)
      BY <2>1, <2>2 DEF RampState
    <2> QED
      BY <2>3, <2>5, <2>6
  <1> DEFINE new == [power_ramp_abort(r) EXCEPT !.tgt = p, !.cb = cb]
             from == IF we_are_ramping_up(new) /\ new.cur + StepSize < MaxInitial
                     THEN MaxInitial - StepSize ELSE new.cur
  <1>2. new \in RampState(Callbacks) /\ new.tgt = p
    BY DEF RampState, power_ramp_abort
  <1>3. from \in Int
    <2> HIDE DEF new
    <2>1. new.cur \in Int /\ MaxInitial \in Int /\ StepSize \in Int
      BY <1>2, RampAssumption DEF RampState
    <2> QED
      BY <2>1
  <1>4. power_ramp_start(r, p, cb, FALSE) =
            IF we_are_ramping_up(new) /\ p <= MaxInitial
            THEN power_ramp_timer_cb([new EXCEPT !.cur = p, !.att = 0])
            ELSE DoStep([new EXCEPT !.cur = from, !.att = p - from])
    BY DEF power_ramp_start
  <1> HIDE DEF new, from
  <1>5. ASSUME NEW c \in Int, NEW a \in Int
        PROVE  /\ [new EXCEPT !.cur = c, !.att = a] \in RampState(Callbacks)
               /\ [new EXCEPT !.cur = c, !.att = a].tgt = p
    BY <1>2 DEF RampState
  <1>6. p - from \in Int
    BY <1>3
  <1>7. CASE we_are_ramping_up(new) /\ p <= MaxInitial
    <2> DEFINE s == [new EXCEPT !.cur = p, !.att = 0]
    <2>0. 0 \in Int
      OBVIOUS
    <2>1. s \in RampState(Callbacks) /\ s.tgt = p
      BY <1>5, <2>0, Zenon
    <2>2. power_ramp_start(r, p, cb, FALSE) = power_ramp_timer_cb(s)
      BY <1>4, <1>7
    <2> HIDE DEF s
    <2> QED
      BY <1>1, <2>1, <2>2
  <1>8. CASE ~(we_are_ramping_up(new) /\ p <= MaxInitial)
    <2> DEFINE s == [new EXCEPT !.cur = from, !.att = p - from]
    <2>1. s \in RampState(Callbacks) /\ s.tgt = p
      BY <1>3, <1>5, <1>6, Zenon
    <2>2. power_ramp_start(r, p, cb, FALSE) = DoStep(s)
      BY <1>4, <1>8
    <2> HIDE DEF s
    <2> QED
      BY <1>1, <2>1, <2>2, DoStepDriven
  <1> QED
    BY <1>7, <1>8

\* An answer of layer 1 keeps the ramp driven, too.
LEMMA AnswerDriven ==
    ASSUME NEW r \in RampState(Callbacks), r.req > 0, Driven(r)
    PROVE  /\ power_trx_change_compl(r) \in RampState(Callbacks)
           /\ Driven(power_trx_change_compl(r))
           /\ power_trx_change_compl(r).tgt = r.tgt
  <1> DEFINE answered == [r EXCEPT !.req = @ - 1]
  <1>1. /\ answered \in RampState(Callbacks)
        /\ answered.tgt = r.tgt /\ answered.att = r.att /\ answered.out = r.out
        /\ answered.timer = r.timer
    BY DEF RampState
  <1>2. power_trx_change_compl(r) = IF r.att = 0 THEN answered ELSE DoStep(answered)
    BY DEF power_trx_change_compl, IsComplete
  <1> HIDE DEF answered
  <1>3. CASE r.att = 0
    BY <1>1, <1>2, <1>3 DEF Driven
  <1>4. CASE r.att # 0
    BY <1>1, <1>2, <1>4, DoStepDriven
  <1> QED
    BY <1>3, <1>4
-----------------------------------------------------------------------------
(* The state of the specification.                                         *)

Inv == TypeOK /\ Driven(ramp)

\* The TRX starts at rest.
LEMMA InvInit == Init => Inv
  <1>1. ASSUME NEW p \in Int
        PROVE  AtRest(p) \in RampState(Callbacks) /\ Driven(AtRest(p))
    BY DEF AtRest, RampState, Callbacks, Driven
  <1>2. 0 \in Int /\ RFDisabled \in Int
    BY DEF RFDisabled
  <1> QED
    BY <1>1, <1>2 DEF Init, Inv, TypeOK, Meddling

\* What ramps are started to are integers.
LEMMA Powers ==
    ASSUME Inv
    PROVE  /\ ramp \in RampState(Callbacks) /\ ramp.cur \in Int /\ RFDisabled \in Int
           /\ maxout \in Int /\ red \in Int
           /\ "adm" \in Callbacks /\ "none" \in Callbacks
           /\ \A p \in MaxPowers, r \in Reductions, f \in Reductions \cup {NotForced} :
                  /\ p \in Int /\ r \in Int /\ p - r \in Int
                  /\ FullPower(p, r, f) \in Int
           /\ FullPower(maxout, red, forced) \in Int
  <1>1. ramp \in RampState(Callbacks) /\ ramp.cur \in Int /\ RFDisabled \in Int
    BY DEF Inv, TypeOK, RampState, RFDisabled
  <1>2. ASSUME NEW p \in MaxPowers, NEW r \in Reductions, NEW f \in Reductions \cup {NotForced}
        PROVE  p \in Int /\ r \in Int /\ p - r \in Int /\ FullPower(p, r, f) \in Int
    <2>1. p \in Int /\ r \in Int /\ f \in Int
      BY TxPowerAssumption DEF NotForced
    <2> QED
      BY <2>1 DEF FullPower
  <1>3. maxout \in MaxPowers /\ red \in Reductions /\ forced \in Reductions \cup {NotForced}
    BY DEF Inv, TypeOK
  <1> QED
    BY <1>1, <1>2, <1>3 DEF Callbacks

\* Each step keeps the types and leaves the ramp driven.
LEMMA InvNext == Inv /\ [Next]_vars => Inv'
  <1> SUFFICES ASSUME Inv, [Next]_vars PROVE Inv'
    OBVIOUS
  <1>1. ASSUME NEW p \in Int, NEW cb \in Callbacks, Start(p, cb)
        PROVE  ramp' \in RampState(Callbacks) /\ Driven(ramp')
    BY <1>1, Powers, RampFunctions DEF Start
  <1>2. CASE Lock
    BY <1>1, <1>2, Powers DEF Lock, Inv, TypeOK
  <1>3. CASE Unlock
    BY <1>1, <1>3, Powers DEF Unlock, Inv, TypeOK
  <1>4. CASE CarrierEnabled
    BY <1>1, <1>4, Powers DEF CarrierEnabled, Inv, TypeOK, Meddling
  <1>5. ASSUME NEW r \in Reductions, oml_rx_set_radio_attr(r)
        PROVE  Inv'
    <2>1. maxout - r \in Int
      BY Powers, TxPowerAssumption DEF Inv, TypeOK
    <2>2. CASE trx_set_trx(r)
      BY <1>1, <1>5, <2>1, <2>2, Powers
      DEF oml_rx_set_radio_attr, trx_set_trx, Inv, TypeOK, Meddling
    <2>3. CASE UNCHANGED ramp /\ meddled' \subseteq meddled \cup {"attr"}
      BY <1>5, <2>3 DEF oml_rx_set_radio_attr, Inv, TypeOK, Meddling
    <2> QED
      BY <1>5, <2>2, <2>3 DEF oml_rx_set_radio_attr
  <1>6. ASSUME NEW f \in Reductions \cup {NotForced}, cfg_phyinst_tx_atten(f)
        PROVE  Inv'
    <2>1. FullPower(maxout, red, f) \in Int
      BY Powers DEF Inv, TypeOK
    <2>2. ramp' \in RampState(Callbacks) /\ Driven(ramp')
      BY <1>1, <1>6, <2>1, Powers DEF cfg_phyinst_tx_atten, Inv
    <2> QED
      BY <1>6, <2>2 DEF cfg_phyinst_tx_atten, Inv, TypeOK, Meddling
  <1>7. ASSUME NEW p \in MaxPowers, l1if_trx_set_nominal_power(p)
        PROVE  Inv'
    <2> DEFINE lowered == [ramp EXCEPT !.cur = IF @ <= p THEN @ ELSE p]
    <2>1. p \in Int /\ FullPower(p, red, forced) \in Int
      BY Powers, TxPowerAssumption DEF Inv, TypeOK
    <2>2. lowered \in RampState(Callbacks) /\ Driven(lowered)
      BY <2>1 DEF Inv, TypeOK, RampState, Driven
    <2>3. ramp' \in {lowered, power_ramp_start(lowered, FullPower(p, red, forced), "none", FALSE)}
      BY <1>7 DEF l1if_trx_set_nominal_power
    <2>4. maxout' = p /\ meddled' \subseteq Meddling
      BY <1>7 DEF l1if_trx_set_nominal_power, Inv, TypeOK, Meddling
    <2> HIDE DEF lowered
    <2>5. ramp' \in RampState(Callbacks) /\ Driven(ramp')
      BY <2>1, <2>2, <2>3, Powers, RampFunctions
    <2> QED
      BY <1>7, <2>4, <2>5 DEF l1if_trx_set_nominal_power, Inv, TypeOK
  <1>8. CASE set_therm_att
    BY <1>1, <1>8, Powers DEF set_therm_att, Inv, TypeOK, Meddling
  <1>9. CASE RampTimer
    BY <1>9, Powers, RampFunctions DEF RampTimer, Inv, TypeOK
  <1>10. CASE l1if_setpower_att_cb
    <2>1. ramp' \in RampState(Callbacks) /\ Driven(ramp')
      BY <1>10, Powers, AnswerDriven DEF l1if_setpower_att_cb, Inv
    <2>2. pending' \in BOOLEAN /\ muted' \in BOOLEAN
      BY <1>10 DEF l1if_setpower_att_cb, Inv, TypeOK
    <2> QED
      BY <1>10, <2>1, <2>2 DEF l1if_setpower_att_cb, Inv, TypeOK
  <1>11. CASE UNCHANGED vars
    BY <1>11 DEF vars, Inv, TypeOK
  <1> QED
    BY <1>2, <1>3, <1>4, <1>5, <1>6, <1>7, <1>8, <1>9, <1>10, <1>11 DEF Next

\* Inv is an invariant.
LEMMA InvHolds == Spec => []Inv
  BY InvInit, InvNext, PTL DEF Spec

\* The drivers of the ramp keep the type of its state.
THEOREM TypeCorrect == Spec => []TypeOK
  <1>1. Inv => TypeOK
    BY DEF Inv
  <1> QED
    BY <1>1, InvHolds, PTL

\* However the BSC, the operator, the timer and layer 1 interleave, a ramp never stops
\* short of its target.
THEOREM RestsAtTargetHolds == Spec => []RestsAtTarget
  <1>1. Inv => RestsAtTarget
    BY DEF Inv, TypeOK, RampState, Driven, RestsAtTarget, RampIdle
  <1> QED
    BY <1>1, InvHolds, PTL
-----------------------------------------------------------------------------
(* The course of the ramp.                                                 *)

\* What the functions of the ramp do to the fields that OnCourse() reads.
LEMMA StepOnCourse ==
    ASSUME NEW s \in RampState(Callbacks), OnCourse(s)
    PROVE  OnCourse(DoStep(s))
  <1> DEFINE a == IF we_are_ramping_up(s)
                  THEN IF s.att - StepSize <= 0 THEN 0 ELSE s.att - StepSize
                  ELSE IF s.att + StepSize >= 0 THEN 0 ELSE s.att + StepSize
  <1>1. /\ DoStep(s).tgt = s.tgt /\ DoStep(s).cur = s.cur
        /\ DoStep(s).att = a
    BY DEF DoStep, RampState
  <1>2. s.tgt \in Int /\ s.cur \in Int /\ s.att \in Int /\ StepSize \in Nat
    BY RampAssumption DEF RampState
  <1>3. \/ s.cur <= s.tgt - a /\ s.tgt - a <= s.tgt
        \/ s.cur >= s.tgt - a /\ s.tgt - a >= s.tgt
    BY <1>2 DEF OnCourse, we_are_ramping_up
  <1> HIDE DEF a
  <1> QED
    BY <1>1, <1>3 DEF OnCourse

\* The timer makes the attenuation effective, which leaves the ramp on course.
LEMMA TimerOnCourse ==
    ASSUME NEW s \in RampState(Callbacks)
    PROVE  OnCourse(power_ramp_timer_cb(s))
  <1>1. /\ power_ramp_timer_cb(s).tgt = s.tgt /\ power_ramp_timer_cb(s).att = s.att
        /\ power_ramp_timer_cb(s).cur = s.tgt - s.att
    BY DEF power_ramp_timer_cb, RampState
  <1>2. s.tgt \in Int /\ s.att \in Int
    BY DEF RampState
  <1> QED
    BY <1>1, <1>2 DEF OnCourse

\* A ramp starts on course from wherever an earlier one was stopped.
LEMMA StartOnCourse ==
    ASSUME NEW r \in RampState(Callbacks), NEW p \in Int, NEW cb \in Callbacks
    PROVE  OnCourse(power_ramp_start(r, p, cb, FALSE))
  <1> DEFINE new == [power_ramp_abort(r) EXCEPT !.tgt = p, !.cb = cb]
             from == IF we_are_ramping_up(new) /\ new.cur + StepSize < MaxInitial
                     THEN MaxInitial - StepSize ELSE new.cur
  <1>1. new \in RampState(Callbacks) /\ new.tgt = p
    BY DEF RampState, power_ramp_abort
  <1>2. power_ramp_start(r, p, cb, FALSE) =
            IF we_are_ramping_up(new) /\ p <= MaxInitial
            THEN power_ramp_timer_cb([new EXCEPT !.cur = p, !.att = 0])
            ELSE DoStep([new EXCEPT !.cur = from, !.att = p - from])
    BY DEF power_ramp_start
  <1>3. from \in Int /\ p - from \in Int /\ 0 \in Int
    <2> HIDE DEF new
    <2>1. new.cur \in Int /\ MaxInitial \in Int /\ StepSize \in Int
      BY <1>1, RampAssumption DEF RampState
    <2> QED
      BY <2>1
  <1> HIDE DEF new, from
  <1>4. ASSUME NEW c \in Int, NEW a \in Int
        PROVE  /\ [new EXCEPT !.cur = c, !.att = a] \in RampState(Callbacks)
               /\ [new EXCEPT !.cur = c, !.att = a].tgt = p
               /\ [new EXCEPT !.cur = c, !.att = a].cur = c
               /\ [new EXCEPT !.cur = c, !.att = a].att = a
    BY <1>1 DEF RampState
  <1>5. OnCourse(power_ramp_timer_cb([new EXCEPT !.cur = p, !.att = 0]))
    BY <1>3, <1>4, TimerOnCourse
  <1>6. ASSUME NEW c \in Int, NEW a \in Int, a = p - c
        PROVE  OnCourse(DoStep([new EXCEPT !.cur = c, !.att = a]))
    <2> DEFINE s == [new EXCEPT !.cur = c, !.att = a]
    <2>1. s \in RampState(Callbacks) /\ s.tgt = p /\ s.cur = c /\ s.att = a
      BY <1>1 DEF RampState
    <2> HIDE DEF s
    <2>2. OnCourse(s)
      BY <1>6, <2>1 DEF OnCourse
    <2>3. OnCourse(DoStep(s))
      BY <2>1, <2>2, StepOnCourse
    <2> QED
      BY <2>3 DEF s
  <1>7. OnCourse(DoStep([new EXCEPT !.cur = from, !.att = p - from]))
    BY <1>3, <1>6
  <1> QED
    BY <1>2, <1>5, <1>7

\* An answer of layer 1, awaited or late, leaves the ramp on course.
LEMMA AnswerOnCourse ==
    ASSUME NEW r \in RampState(Callbacks), r.req > 0, OnCourse(r)
    PROVE  OnCourse(power_trx_change_compl(r))
  <1> DEFINE answered == [r EXCEPT !.req = @ - 1]
  <1>1. /\ answered \in RampState(Callbacks)
        /\ answered.tgt = r.tgt /\ answered.att = r.att /\ answered.cur = r.cur
    BY DEF RampState
  <1>2. power_trx_change_compl(r) = IF r.att = 0 THEN answered ELSE DoStep(answered)
    BY DEF power_trx_change_compl, IsComplete
  <1> HIDE DEF answered
  <1>3. OnCourse(answered)
    BY <1>1 DEF OnCourse
  <1> QED
    BY <1>1, <1>2, <1>3, StepOnCourse

\* Whoever starts ramps, and however that interleaves with the timer and late answers, the
\* ramp never asks for a power beyond its target, unless the maximum power of the running
\* TRX has been changed under it and no ramp was started since.
THEOREM RampOnCourseHolds == Spec => []RampOnCourse
  <1>1. Init => RampOnCourse
    <2>1. ASSUME NEW p \in Int PROVE OnCourse(AtRest(p))
      BY DEF AtRest, OnCourse
    <2>2. 0 \in Int /\ RFDisabled \in Int
      BY DEF RFDisabled
    <2> QED
      BY <2>1, <2>2 DEF Init, RampOnCourse
  <1>2. Inv /\ RampOnCourse /\ [Next]_vars => RampOnCourse'
    <2> SUFFICES ASSUME Inv, RampOnCourse, [Next]_vars PROVE RampOnCourse'
      OBVIOUS
    <2>1. ASSUME NEW p \in Int, NEW cb \in Callbacks, Start(p, cb)
          PROVE  RampOnCourse'
      BY <2>1, Powers, StartOnCourse DEF Start, RampOnCourse
    <2>2. CASE UNCHANGED ramp /\ meddled \subseteq meddled'
      BY <2>2 DEF RampOnCourse
    <2>3. CASE Lock \/ Unlock \/ CarrierEnabled \/ set_therm_att
      BY <2>1, <2>3, Powers DEF Lock, Unlock, CarrierEnabled, set_therm_att
    <2>4. ASSUME NEW r \in Reductions, oml_rx_set_radio_attr(r)
          PROVE  RampOnCourse'
      <3>1. maxout - r \in Int
        BY Powers, TxPowerAssumption DEF Inv, TypeOK
      <3> QED
        BY <2>1, <2>2, <2>4, <3>1, Powers DEF oml_rx_set_radio_attr, trx_set_trx
    <2>5. ASSUME NEW f \in Reductions \cup {NotForced}, cfg_phyinst_tx_atten(f)
          PROVE  RampOnCourse'
      <3>1. FullPower(maxout, red, f) \in Int
        BY Powers DEF Inv, TypeOK
      <3> QED
        BY <2>1, <2>2, <2>5, <3>1, Powers DEF cfg_phyinst_tx_atten
    <2>6. ASSUME NEW p \in MaxPowers, l1if_trx_set_nominal_power(p)
          PROVE  RampOnCourse'
      <3> DEFINE lowered == [ramp EXCEPT !.cur = IF @ <= p THEN @ ELSE p]
      <3>1. p \in Int /\ FullPower(p, red, forced) \in Int
        BY Powers, TxPowerAssumption DEF Inv, TypeOK
      <3>2. lowered \in RampState(Callbacks)
        BY <3>1 DEF Inv, TypeOK, RampState
      <3>3. \/ "nominal" \in meddled'
            \/ ramp' = power_ramp_start(lowered, FullPower(p, red, forced), "none", FALSE)
        BY <2>6 DEF l1if_trx_set_nominal_power
      <3> HIDE DEF lowered
      <3> QED
        BY <3>1, <3>2, <3>3, Powers, StartOnCourse DEF RampOnCourse
    <2>7. CASE RampTimer
      BY <2>7, Powers, TimerOnCourse DEF RampTimer, RampOnCourse
    <2>8. CASE l1if_setpower_att_cb
      BY <2>8, Powers, AnswerOnCourse DEF l1if_setpower_att_cb, RampOnCourse
    <2>9. CASE UNCHANGED vars
      BY <2>2, <2>9 DEF vars
    <2> QED
      BY <2>3, <2>4, <2>5, <2>6, <2>7, <2>8, <2>9 DEF Next
  <1> QED
    BY <1>1, <1>2, InvHolds, PTL DEF Spec

\* A TRX that is unlocked, or whose ramp down to the lock has not ended, is not muted.
Heard == pending \/ admin = "UNLOCKED" => ~muted

\* An unlocked TRX ramps to full power, forced or not, unless its ramp was redirected or
\* left out.
ToFullPower ==
    admin = "UNLOCKED" /\ meddled \subseteq {"restart"} => ramp.tgt = FullPower(maxout, red, forced)

UnlockInv == Heard /\ ToFullPower

\* A lock under way keeps the TRX audible until its ramp has ended, and the unlock that
\* overtakes it does not unmute again.
LEMMA HeardNext == Inv /\ Heard /\ [Next]_vars => Heard'
  <1> SUFFICES ASSUME Inv, Heard, [Next]_vars PROVE Heard'
    OBVIOUS
  <1>1. admin \in {"LOCKED", "UNLOCKED"} /\ pending \in BOOLEAN /\ muted \in BOOLEAN
    BY DEF Inv, TypeOK
  <1>2. CASE Lock \/ Unlock
    BY <1>1, <1>2 DEF Lock, Unlock, Heard
  <1>3. CASE l1if_setpower_att_cb
    BY <1>1, <1>3 DEF l1if_setpower_att_cb, Heard
  <1>4. CASE UNCHANGED <<admin, pending, muted>>
    BY <1>4 DEF Heard
  <1> QED
    BY <1>2, <1>3, <1>4
    DEF Next, vars, CarrierEnabled, oml_rx_set_radio_attr, cfg_phyinst_tx_atten,
        l1if_trx_set_nominal_power, set_therm_att, RampTimer

\* Whatever changes the full power of an unlocked TRX starts a ramp to it, or is an
\* exception.
LEMMA ToFullPowerNext == Inv /\ ToFullPower /\ [Next]_vars => ToFullPower'
  <1> SUFFICES ASSUME Inv, ToFullPower, [Next]_vars,
                      admin' = "UNLOCKED", meddled' \subseteq {"restart"}
               PROVE  ramp'.tgt = FullPower(maxout', red', forced')
    BY DEF ToFullPower, FullPower
  <1>1. ASSUME NEW p \in Int, NEW cb \in Callbacks, Start(p, cb)
        PROVE  ramp'.tgt = p
    BY <1>1, Powers, RampFunctions DEF Start
  <1>2. CASE Lock \/ set_therm_att
    BY <1>2 DEF Lock, set_therm_att
  <1>3. CASE Unlock
    BY <1>1, <1>3, Powers DEF Unlock
  <1>4. CASE CarrierEnabled
    BY <1>1, <1>4, Powers DEF CarrierEnabled
  <1>5. ASSUME NEW r \in Reductions, oml_rx_set_radio_attr(r)
        PROVE  ramp'.tgt = FullPower(maxout', red', forced')
    <2>1. maxout' = maxout /\ red' = r /\ forced' = forced /\ admin = "UNLOCKED"
      BY <1>5 DEF oml_rx_set_radio_attr
    <2>2. trx_set_trx(r)
      BY <1>5, <2>1 DEF oml_rx_set_radio_attr
    <2>3. CASE forced = NotForced
      <3>1. Start(maxout - r, "none") /\ maxout - r \in Int
        BY <2>1, <2>2, <2>3, Powers, TxPowerAssumption DEF trx_set_trx, Inv, TypeOK
      <3> QED
        BY <1>1, <2>1, <2>3, <3>1, Powers DEF FullPower
    <2>4. CASE forced # NotForced
      <3>1. UNCHANGED <<ramp, meddled>>
        BY <2>2, <2>4 DEF trx_set_trx
      <3> QED
        BY <2>1, <2>4, <3>1 DEF ToFullPower, FullPower
    <2> QED
      BY <2>3, <2>4
  <1>6. ASSUME NEW f \in Reductions \cup {NotForced}, cfg_phyinst_tx_atten(f)
        PROVE  ramp'.tgt = FullPower(maxout', red', forced')
    <2>1. maxout' = maxout /\ red' = red /\ forced' = f /\ admin = "UNLOCKED"
      BY <1>6 DEF cfg_phyinst_tx_atten
    <2>2. Start(FullPower(maxout, red, f), "none") /\ FullPower(maxout, red, f) \in Int
      BY <1>6, <2>1, Powers DEF cfg_phyinst_tx_atten, Inv, TypeOK
    <2> QED
      BY <1>1, <2>1, <2>2, Powers
  <1>7. ASSUME NEW p \in MaxPowers, l1if_trx_set_nominal_power(p)
        PROVE  FALSE
    <2>1. admin = "UNLOCKED"
      BY <1>7 DEF l1if_trx_set_nominal_power
    <2>2. "nominal" \in meddled'
      BY Zenon, <1>7, <2>1 DEF l1if_trx_set_nominal_power
    <2> QED
      BY <2>2
  <1>8. CASE RampTimer
    <2>1. ramp'.tgt = ramp.tgt
      BY <1>8, Powers DEF RampTimer, power_ramp_timer_cb, RampState
    <2> QED
      BY <1>8, <2>1 DEF RampTimer, ToFullPower
  <1>9. CASE l1if_setpower_att_cb
    <2>1. ramp'.tgt = ramp.tgt
      BY <1>9, Powers, AnswerDriven DEF l1if_setpower_att_cb, Inv
    <2> QED
      BY <1>9, <2>1 DEF l1if_setpower_att_cb, ToFullPower
  <1>10. CASE UNCHANGED vars
    BY <1>10 DEF vars, ToFullPower
  <1> QED
    BY <1>2, <1>3, <1>4, <1>5, <1>6, <1>7, <1>8, <1>9, <1>10 DEF Next

\* An unlocked TRX is never left muted, and comes to rest transmitting at the full power
\* that OML or the forced attenuation leaves it, whatever the order of locks, unlocks, new
\* attributes and answers, unless its ramp was redirected or left out since.
THEOREM UnlockedTransmitsHolds == Spec => []UnlockedTransmits
  <1>1. Init => UnlockInv
    BY DEF Init, UnlockInv, Heard, ToFullPower
  <1>2. Inv /\ UnlockInv /\ [Next]_vars => UnlockInv'
    BY HeardNext, ToFullPowerNext DEF UnlockInv
  <1>3. Inv /\ UnlockInv => UnlockedTransmits
    <2>1. Inv => RestsAtTarget
      BY DEF Inv, TypeOK, RampState, Driven, RestsAtTarget, RampIdle
    <2> QED
      BY <2>1 DEF UnlockInv, Heard, ToFullPower, UnlockedTransmits, RestsAtTarget
  <1> QED
    BY <1>1, <1>2, <1>3, InvHolds, PTL DEF Spec

\* Whoever starts ramps of tx_power.c, and in whatever order timers and answers come: the
\* ramp stays on course, comes to rest at its target only, and an unlocked TRX then
\* transmits at the full power that OML or the operator leaves it.
THEOREM PowerInvHolds == Spec => []PowerInv
  BY TypeCorrect, RampOnCourseHolds, RestsAtTargetHolds, UnlockedTransmitsHolds, PTL
  DEF PowerInv
-----------------------------------------------------------------------------
\* Frame numbers differ by whole hyperframes exactly when they are the same.
LEMMA Division ==
    ASSUME NEW h \in Nat \ {0}, NEW a \in Int
    PROVE  \E q \in Int : \E r \in 0 .. h - 1 : a = h * q + r /\ r = a % h
  <1> DEFINE d == a \div h
             r == a % h
  <1>1. d \in Int /\ r \in 0 .. h - 1
    OBVIOUS
  <1>2. r = a - h * d
    BY Z3
  <1> HIDE DEF d, r
  <1>3. a = h * d + r
    BY <1>1, <1>2
  <1> QED
    BY Zenon, <1>1, <1>3 DEF r

LEMMA Remainder ==
    ASSUME NEW h \in Nat \ {0}, NEW q \in Int, NEW r \in 0 .. h - 1
    PROVE  (h * q + r) % h = r
  OBVIOUS

LEMMA SameRemainder ==
    ASSUME NEW h \in Nat \ {0}, NEW a \in Int, NEW k \in Int
    PROVE  (a + h * k) % h = a % h
  <1>1. PICK q \in Int : \E r \in 0 .. h - 1 : a = h * q + r /\ r = a % h
    BY Division
  <1>2. PICK r \in 0 .. h - 1 : a = h * q + r /\ r = a % h
    BY <1>1
  <1>3. a + h * k = h * (q + k) + r
    BY <1>2
  <1>4. q + k \in Int
    OBVIOUS
  <1> QED
    BY <1>2, <1>3, <1>4, Remainder

LEMMA Hyper == Hyperframe \in Nat \ {0} /\ NegativeFrom \in Nat /\ NegativeFrom < Hyperframe
  BY SchedClockAssumption

\* Adding in two steps is adding at once; adding nothing changes nothing.
LEMMA PlusPlus ==
    ASSUME NEW f \in Int, NEW k \in Int, NEW j \in Int
    PROVE  /\ Plus(f, k) \in 0 .. Hyperframe - 1
           /\ Plus(Plus(f, k), j) = Plus(f, k + j)
           /\ f \in 0 .. Hyperframe - 1 => Plus(f, 0) = f
  <1>1. PICK d \in Int :
            Plus(f, k) \in 0 .. Hyperframe - 1 /\ f + k = Hyperframe * d + Plus(f, k)
    <2>1. f + k \in Int
      OBVIOUS
    <2>2. PICK q \in Int : \E r \in 0 .. Hyperframe - 1 :
              f + k = Hyperframe * q + r /\ r = (f + k) % Hyperframe
      BY Zenon, <2>1, Division, Hyper
    <2>3. PICK r \in 0 .. Hyperframe - 1 :
              f + k = Hyperframe * q + r /\ r = (f + k) % Hyperframe
      BY Zenon, <2>2
    <2>4. r = Plus(f, k)
      BY Zenon, <2>3 DEF Plus
    <2> QED
      BY Zenon, <2>3, <2>4
  <1>2. Plus(f, k) + j + Hyperframe * d = f + (k + j) /\ Plus(f, k) + j \in Int
    BY <1>1, Hyper
  <1>3. Plus(Plus(f, k), j) = Plus(f, k + j)
    <2>1. PICK p \in Int : p = Plus(f, k) + j /\ p + Hyperframe * d = f + (k + j)
      BY Zenon, <1>2
    <2>2. (p + Hyperframe * d) % Hyperframe = p % Hyperframe
      BY Zenon, <1>1, SameRemainder, Hyper
    <2>3. Plus(f, k + j) = (p + Hyperframe * d) % Hyperframe
      BY Zenon, <2>1 DEF Plus
    <2>4. Plus(Plus(f, k), j) = p % Hyperframe
      BY Zenon, <2>1 DEF Plus
    <2> QED
      BY Zenon, <2>2, <2>3, <2>4
  <1>4. f \in 0 .. Hyperframe - 1 => Plus(f, 0) = f
    BY Hyper DEF Plus
  <1> QED
    BY <1>1, <1>3, <1>4

\* Adding one.
LEMMA PlusOne ==
    ASSUME NEW f \in Int, NEW k \in Int
    PROVE  /\ Plus(f, 1) \in 0 .. Hyperframe - 1
           /\ Plus(Plus(f, 1), k) = Plus(f, 1 + k)
           /\ Plus(Plus(f, k), 1) = Plus(f, k + 1)
  <1>1. PICK o \in Int : o = 1
    OBVIOUS
  <1>2. /\ Plus(f, o) \in 0 .. Hyperframe - 1
        /\ Plus(Plus(f, o), k) = Plus(f, o + k)
        /\ Plus(Plus(f, k), o) = Plus(f, k + o)
    <2>1. /\ Plus(f, o) \in 0 .. Hyperframe - 1
          /\ Plus(Plus(f, o), k) = Plus(f, o + k)
      BY PlusPlus
    <2>2. Plus(Plus(f, k), o) = Plus(f, k + o)
      BY PlusPlus
    <2> QED
      BY <2>1, <2>2
  <1> QED
    BY Zenon, <1>1, <1>2

\* A frame number is its own remainder, and the remainder differs by whole hyperframes.
LEMMA PlusSplit ==
    ASSUME NEW f \in Int, NEW k \in Int
    PROVE  \E d \in Int : f + k = Hyperframe * d + Plus(f, k)
  <1>1. f + k \in Int
    OBVIOUS
  <1>2. PICK q \in Int : \E r \in 0 .. Hyperframe - 1 :
            f + k = Hyperframe * q + r /\ r = (f + k) % Hyperframe
    BY Zenon, <1>1, Division, Hyper
  <1>3. PICK r \in 0 .. Hyperframe - 1 :
            f + k = Hyperframe * q + r /\ r = (f + k) % Hyperframe
    BY Zenon, <1>2
  <1>4. r = Plus(f, k)
    BY Zenon, <1>3 DEF Plus
  <1> QED
    BY Zenon, <1>3, <1>4

\* The frame before which a timer that is ahead waits: what compute_elapsed_fn() returns
\* leads back from one number to the other.
LEMMA ElapsedLeads ==
    ASSUME NEW f \in 0 .. Hyperframe - 1, NEW t \in 0 .. Hyperframe - 1
    PROVE  /\ compute_elapsed_fn(f, t) \in Int
           /\ Plus(t, 1 - compute_elapsed_fn(f, t)) = Plus(f, 1)
  <1> DEFINE g == Plus(t, -f)
             e == compute_elapsed_fn(f, t)
  <1>1. PICK d \in Int : t - f = Hyperframe * d + g
    <2>1. t \in Int /\ -f \in Int
      BY Hyper
    <2>2. PICK d \in Int : t + (-f) = Hyperframe * d + g
      BY Zenon, <2>1, PlusSplit
    <2>3. g \in Int
      BY <2>1, PlusPlus, Hyper
    <2> HIDE DEF g
    <2> QED
      BY <2>1, <2>2, <2>3, Hyper
  <1>2. g \in 0 .. Hyperframe - 1 /\ e = IF g >= NegativeFrom THEN g - Hyperframe ELSE g
    BY PlusPlus, Hyper DEF compute_elapsed_fn
  <1> HIDE DEF g, e
  <1>3. e \in Int
    BY <1>2, Hyper
  <1>4. PICK k \in Int : t + (1 - e) = (f + 1) + Hyperframe * k
    <2>1. CASE g >= NegativeFrom
      <3>1. t + (1 - e) = (f + 1) + Hyperframe * (d + 1) /\ d + 1 \in Int
        BY <1>1, <1>2, <2>1, Hyper
      <3> QED
        BY <3>1
    <2>2. CASE ~(g >= NegativeFrom)
      <3>1. t + (1 - e) = (f + 1) + Hyperframe * d
        BY <1>1, <1>2, <2>2, Hyper
      <3> QED
        BY <3>1
    <2> QED
      BY <2>1, <2>2
  <1>5. f + 1 \in Int
    BY Hyper
  <1>6. Plus(t, 1 - e) = Plus(f, 1)
    BY <1>4, <1>5, SameRemainder, Hyper DEF Plus
  <1> QED
    BY <1>3, <1>6 DEF e

\* For numbers that are close it is their difference.
LEMMA ElapsedIs ==
    ASSUME NEW f \in Int, NEW a \in Int, NEW b \in Int,
           NegativeFrom - Hyperframe <= b - a, b - a < NegativeFrom
    PROVE  compute_elapsed_fn(Plus(f, a), Plus(f, b)) = b - a
  <1> DEFINE c == Plus(f, a)
             g == Plus(Plus(f, b), -Plus(f, a))
  <1>1. PICK d \in Int : f + a = Hyperframe * d + c
    BY PlusSplit
  <1>2. c \in Int
    BY PlusPlus, Hyper
  <1>3. g = Plus(f, b - c)
    <2> HIDE DEF c
    <2>1. PICK m \in Int : m = -c
      BY <1>2
    <2>2. Plus(Plus(f, b), m) = Plus(f, b + m)
      BY PlusPlus
    <2>3. b + m = b - c
      BY <1>2, <2>1
    <2> QED
      BY <2>1, <2>2, <2>3 DEF c
  <1> HIDE DEF c, g
  <1>4. f + (b - c) = (b - a) + Hyperframe * d /\ b - a \in Int
    BY <1>1, <1>2, Hyper
  <1>5. g = (b - a) % Hyperframe
    <2>1. ((b - a) + Hyperframe * d) % Hyperframe = (b - a) % Hyperframe
      BY Zenon, <1>1, <1>4, SameRemainder, Hyper
    <2>2. Plus(f, b - c) = ((b - a) + Hyperframe * d) % Hyperframe
      BY Zenon, <1>4 DEF Plus
    <2> QED
      BY Zenon, <1>3, <2>1, <2>2
  <1>6. g = IF b - a >= 0 THEN b - a ELSE b - a + Hyperframe
    <2>1. CASE b - a >= 0
      BY <1>5, <2>1, Hyper
    <2>2. CASE ~(b - a >= 0)
      <3>1. /\ b - a \in Int /\ Hyperframe * 1 = Hyperframe
            /\ b - a + Hyperframe \in 0 .. Hyperframe - 1
        BY <2>2, Hyper
      <3>2. ((b - a) + Hyperframe * 1) % Hyperframe = (b - a) % Hyperframe
        <4>1. PICK k \in Int : k = 1
          OBVIOUS
        <4>2. ((b - a) + Hyperframe * k) % Hyperframe = (b - a) % Hyperframe
          BY Zenon, <3>1, SameRemainder, Hyper
        <4> QED
          BY Zenon, <4>1, <4>2
      <3> QED
        BY <1>5, <2>2, <3>1, <3>2, Hyper
    <2> QED
      BY <2>1, <2>2
  <1>7. compute_elapsed_fn(c, Plus(f, b)) = IF g >= NegativeFrom THEN g - Hyperframe ELSE g
    BY DEF compute_elapsed_fn, c, g
  <1> QED
    BY <1>6, <1>7, Hyper DEF c

\* The clock while it is off, and the counters of the alarms.
OffInv ==
    /\ ~powered => timer = Closed
    /\ ~trx.on => ~powered /\ ind = <<>>
CountInv ==
    /\ lag <= nfaults
    /\ timer.cb = "fn" /\ (timer.due > 0 \/ timer.count > 0) => without <= TrxLossFrames

BasicInv == ClockTypeOK /\ InStep /\ OffInv /\ CountInv

\* The numbers of the state.
LEMMA ClockTypes ==
    ASSUME ClockTypeOK
    PROVE  /\ trx.on \in BOOLEAN /\ trx.fn \in 0 .. Hyperframe - 1 /\ trx.fn \in Int
           /\ trx.next \in 1 .. IndPeriod /\ trx.next \in Int
           /\ trx = [on |-> trx.on, fn |-> trx.fn, next |-> trx.next]
           /\ timer.cb \in {"none", "start", "fn"} /\ timer.due \in Nat /\ timer.count \in Nat
           /\ timer = [cb |-> timer.cb, due |-> timer.due, count |-> timer.count]
           /\ last \in 0 .. Hyperframe - 1 /\ last \in Int
           /\ age \in Nat /\ age <= MaxFnSkew + 1 /\ without \in Nat
           /\ lag \in Nat /\ nfaults \in Nat
  BY SchedClockAssumption, Hyper DEF ClockTypeOK

LEMMA ClockNumbers ==
    /\ MaxFnSkew \in Nat /\ MaxFnSkew >= 1 /\ IndPeriod \in Nat /\ IndPeriod >= 1
    /\ TrxLossFrames \in Nat /\ StartFrames \in Nat /\ StartFrames >= 1
    /\ MaxFaults \in Nat /\ MaxFaults >= 1
  BY SchedClockAssumption

\* At the start.
LEMMA BasicInit == ClockInit => BasicInv
  <1> SUFFICES ASSUME ClockInit PROVE BasicInv
    OBVIOUS
  <1>1. /\ trx \in [on : BOOLEAN, fn : 0 .. Hyperframe - 1, next : 1 .. IndPeriod]
        /\ last \in 0 .. Hyperframe - 1 /\ age \in 0 .. MaxFnSkew + 1
        /\ without \in 0 .. TrxLossFrames + 1
        /\ lag \in 0 .. MaxFaults /\ nfaults \in 0 .. MaxFaults
    BY ClockNumbers, Hyper DEF ClockInit
  <1>3. timer \in [cb : {"none", "start", "fn"}, due : Nat, count : Nat]
    BY DEF ClockInit, Closed
  <1>4. /\ ind \in Seq(0 .. Hyperframe - 1) /\ powered \in BOOLEAN /\ synced \in BOOLEAN
        /\ alarm \in Alarms /\ faults \subseteq {"lost", "silent", "jump", "wrap"}
    <2>1. ind \in Seq(0 .. Hyperframe - 1)
      BY DEF ClockInit
    <2> QED
      BY Zenon, <2>1 DEF ClockInit, Alarms
  <1>5. ClockTypeOK
    BY Zenon, <1>1, <1>3, <1>4 DEF ClockTypeOK
  <1>2. InStep /\ OffInv /\ CountInv
    BY DEF ClockInit, InStep, OffInv, CountInv, Closed
  <1> QED
    BY <1>2, <1>5 DEF BasicInv

\* The transceiver is powered on.
LEMMA BasicPowerOn ==
    ASSUME BasicInv, PowerOn
    PROVE  BasicInv'
  <1>1. PICK f \in FirstFrames : trx' = [on |-> TRUE, fn |-> f, next |-> IndPeriod]
    BY DEF PowerOn
  <1>2. /\ faults' = {} /\ lag' = 0 /\ synced' = FALSE /\ alarm' = "none"
        /\ UNCHANGED <<ind, powered, timer, last, age, without, nfaults>>
    BY DEF PowerOn
  <1>3. trx' \in [on : BOOLEAN, fn : 0 .. Hyperframe - 1, next : 1 .. IndPeriod]
    BY <1>1, SchedClockAssumption
  <1>4. ClockTypeOK'
    <2>1. /\ lag' \in 0 .. MaxFaults
          /\ faults' \subseteq {"lost", "silent", "jump", "wrap"}
          /\ alarm' \in Alarms /\ synced' \in BOOLEAN
      <3>1. lag' \in 0 .. MaxFaults
        BY <1>2, ClockNumbers
      <3> QED
        BY Zenon, <1>2, <3>1 DEF Alarms
    <2>2. /\ ind' = ind /\ powered' = powered /\ timer' = timer /\ last' = last /\ age' = age
          /\ without' = without /\ nfaults' = nfaults
      BY <1>2
    <2> QED
      BY Zenon, <1>3, <2>1, <2>2 DEF BasicInv, ClockTypeOK
  <1>5. OffInv' /\ InStep'
    BY <1>1, <1>2 DEF BasicInv, OffInv, InStep
  <1>6. CountInv'
    BY <1>2, ClockTypes DEF BasicInv, CountInv
  <1> QED
    BY <1>4, <1>5, <1>6 DEF BasicInv

\* What a frame makes of the timer.
Ticked(t) ==
    [cb |-> t.cb,
     due |-> IF t.due = 0 THEN 0
             ELSE IF t.due > 1 THEN t.due - 1
             ELSE IF t.cb = "fn" THEN 1 ELSE 0,
     count |-> IF t.due = 1 THEN t.count + 1 ELSE t.count]

\* A frame in scalars.
LEMMA FrameFacts ==
    ASSUME ClockTypeOK, NEW sends \in BOOLEAN, Frame(sends)
    PROVE  /\ trx.on /\ trx'.on
           /\ trx' = [on |-> trx.on, fn |-> Plus(trx.fn, 1),
                      next |-> IF trx.next = 1 THEN IndPeriod ELSE trx.next - 1]
           /\ \/ ind' = ind /\ (trx.next = 1 => faults' # {})
              \/ ind' = Append(ind, Plus(trx.fn, 1)) /\ trx.next = 1
           /\ faults \subseteq faults' /\ faults' \subseteq faults \cup {"lost"}
           /\ lag' = IF Ready THEN lag + 1 ELSE lag
           /\ Ready => nfaults' = nfaults + 1
           /\ nfaults' = nfaults \/ (nfaults' = nfaults + 1 /\ nfaults < MaxFaults)
           /\ timer' = Ticked(timer)
           /\ age' = IF age > MaxFnSkew THEN age ELSE age + 1
           /\ UNCHANGED <<powered, last, without, alarm, synced>>
  <1> USE DEF Frame
  <1>1. trx' = [on |-> trx.on, fn |-> Plus(trx.fn, 1),
                next |-> IF trx.next = 1 THEN IndPeriod ELSE trx.next - 1] /\ trx.on
    BY ClockTypes
  <1>2. /\ \/ ind' = ind /\ (trx.next = 1 => faults' # {})
           \/ ind' = Append(ind, Plus(trx.fn, 1)) /\ trx.next = 1
        /\ faults \subseteq faults' /\ faults' \subseteq faults \cup {"lost"}
    OBVIOUS
  <1>3. /\ lag' = IF Ready THEN lag + 1 ELSE lag
        /\ Ready => nfaults' = nfaults + 1
        /\ nfaults' = nfaults \/ (nfaults' = nfaults + 1 /\ nfaults < MaxFaults)
    OBVIOUS
  <1>4. timer' = Ticked(timer)
    <2>1. /\ timer.cb \in {"none", "start", "fn"} /\ timer.due \in Nat /\ timer.count \in Nat
          /\ timer = [cb |-> timer.cb, due |-> timer.due, count |-> timer.count]
      BY ClockTypes
    <2>2. CASE timer.due = 0
      BY <2>1, <2>2 DEF Ticked
    <2>3. CASE timer.due = 1
      <3>1. timer' = [timer EXCEPT !.count = @ + 1,
                                   !.due = IF timer.cb = "fn" THEN 1 ELSE 0]
        BY <2>3
      <3>2. timer' = [cb |-> timer.cb, due |-> IF timer.cb = "fn" THEN 1 ELSE 0,
                      count |-> timer.count + 1]
        BY <2>1, <3>1
      <3>3. timer.due # 0 /\ ~(timer.due > 1)
        BY <2>3
      <3> QED
        BY Zenon, <2>3, <3>2, <3>3 DEF Ticked
    <2>4. CASE timer.due > 1
      <3>1. timer' = [timer EXCEPT !.due = @ - 1]
        BY <2>1, <2>4
      <3> QED
        BY <2>1, <2>4, <3>1 DEF Ticked
    <2> QED
      BY <2>1, <2>2, <2>3, <2>4
  <1>5. trx'.on
    BY <1>1
  <1> QED
    BY <1>1, <1>2, <1>3, <1>4, <1>5

\* A frame passes: the timer and the transceiver move on together.
LEMMA BasicFrame ==
    ASSUME BasicInv, NEW sends \in BOOLEAN, Frame(sends)
    PROVE  BasicInv'
  <1>1. ClockTypeOK
    BY DEF BasicInv
  <1>2. trx' \in [on : BOOLEAN, fn : 0 .. Hyperframe - 1, next : 1 .. IndPeriod]
    <2>1. trx.fn \in Int /\ trx.next \in 1 .. IndPeriod /\ trx.on \in BOOLEAN
      BY <1>1, ClockTypes
    <2>2. Plus(trx.fn, 1) \in 0 .. Hyperframe - 1
      BY <2>1, PlusOne
    <2>3. trx' = [on |-> trx.on, fn |-> Plus(trx.fn, 1),
                  next |-> IF trx.next = 1 THEN IndPeriod ELSE trx.next - 1]
      BY <1>1, FrameFacts
    <2> QED
      BY <2>1, <2>2, <2>3, ClockNumbers
  <1>3. ind' \in Seq(0 .. Hyperframe - 1)
    <2>1. Plus(trx.fn, 1) \in 0 .. Hyperframe - 1 /\ ind \in Seq(0 .. Hyperframe - 1)
      <3>1. trx.fn \in Int
        BY <1>1, ClockTypes
      <3> QED
        BY <1>1, <3>1, PlusOne DEF ClockTypeOK
    <2>2. ind' = ind \/ ind' = Append(ind, Plus(trx.fn, 1))
      BY <1>1, FrameFacts
    <2> DEFINE F == 0 .. Hyperframe - 1
               g == Plus(trx.fn, 1)
    <2> HIDE DEF F, g
    <2>3. g \in F /\ ind \in Seq(F) /\ (ind' = ind \/ ind' = Append(ind, g))
      BY Zenon, <2>1, <2>2 DEF F, g
    <2>4. ind' \in Seq(F)
      BY <2>3
    <2> QED
      BY Zenon, <2>4 DEF F
  <1>4. /\ timer'.cb = timer.cb /\ timer'.due \in Nat /\ timer'.count \in Nat
        /\ timer' \in [cb : {"none", "start", "fn"}, due : Nat, count : Nat]
    BY <1>1, ClockTypes, FrameFacts DEF Ticked
  <1>5. lag' <= nfaults' /\ lag' \in 0 .. MaxFaults /\ nfaults' \in 0 .. MaxFaults
    <2>1. lag <= nfaults /\ lag \in Nat /\ nfaults \in 0 .. MaxFaults
      BY <1>1, ClockTypes DEF BasicInv, CountInv, ClockTypeOK
    <2> QED
      BY <1>1, <2>1, FrameFacts, ClockNumbers
  <1>6. age' \in 0 .. MaxFnSkew + 1
    <2>1. age' = IF age > MaxFnSkew THEN age ELSE age + 1
      BY Zenon, <1>1, FrameFacts
    <2>2. age \in Nat /\ age <= MaxFnSkew + 1
      BY <1>1, ClockTypes
    <2> QED
      BY <2>1, <2>2, ClockNumbers
  <1>7. faults' \subseteq {"lost", "silent", "jump", "wrap"}
    BY <1>1, FrameFacts DEF ClockTypeOK
  <1>8. UNCHANGED <<powered, last, without, alarm, synced>>
    BY <1>1, FrameFacts
  <1>9. ClockTypeOK'
    BY <1>1, <1>2, <1>3, <1>4, <1>5, <1>6, <1>7, <1>8 DEF ClockTypeOK
  <1>10. InStep'
    <2> SUFFICES ASSUME synced, powered, timer.cb = "fn", timer'.due > 0
                 PROVE  Plus(last, timer'.count + 1) = Plus(trx'.fn, timer'.due)
      BY <1>4, <1>8 DEF InStep
    <2>1. /\ trx'.fn = Plus(trx.fn, 1)
          /\ timer'.due = IF timer.due = 0 THEN 0 ELSE IF timer.due > 1 THEN timer.due - 1 ELSE 1
          /\ timer'.count = IF timer.due = 1 THEN timer.count + 1 ELSE timer.count
      <3>1. /\ trx' = [on |-> trx.on, fn |-> Plus(trx.fn, 1),
                        next |-> IF trx.next = 1 THEN IndPeriod ELSE trx.next - 1]
            /\ timer' = Ticked(timer)
        BY <1>1, FrameFacts
      <3>2. trx'.fn = Plus(trx.fn, 1)
        BY <3>1
      <3> QED
        BY <3>1, <3>2 DEF Ticked
    <2>2. PICK d \in Nat, c \in Nat, f \in Int, l \in Int, e \in Nat :
              d = timer.due /\ c = timer.count /\ f = trx.fn /\ l = last /\ e = timer'.due
      BY <1>1, <1>4, ClockTypes
    <2>7. e \in Int
      BY <2>2
    <2>3. d > 0 /\ Plus(l, c + 1) = Plus(f, d)
      BY <1>4, <2>1, <2>2 DEF BasicInv, InStep
    <2>4. Plus(trx'.fn, e) = Plus(f, 1 + e)
      <3>1. Plus(Plus(f, 1), e) = Plus(f, 1 + e)
        BY <2>7, PlusOne
      <3> QED
        BY <2>1, <2>2, <3>1
    <2>5. CASE d > 1
      <3>1. 1 + e = d /\ timer'.count = c
        BY <2>1, <2>2, <2>5
      <3> QED
        BY <2>2, <2>3, <2>4, <3>1
    <2>6. CASE d = 1
      <3>1. e = 1 /\ timer'.count = c + 1
        BY <2>1, <2>2, <2>6
      <3>2. Plus(Plus(l, c + 1), 1) = Plus(l, c + 1 + 1) /\ Plus(Plus(f, 1), 1) = Plus(f, 1 + 1)
        <4>1. c + 1 \in Int /\ 1 \in Int
          OBVIOUS
        <4> QED
          BY <4>1, PlusOne
      <3> QED
        BY <2>2, <2>3, <2>4, <2>6, <3>1, <3>2
    <2> QED
      BY <2>3, <2>5, <2>6
  <1>11. OffInv'
    BY <1>1, <1>8, FrameFacts DEF BasicInv, OffInv, Ticked, Closed
  <1>12. CountInv'
    <2>1. timer'.due > 0 \/ timer'.count > 0 => timer.due > 0 \/ timer.count > 0
      BY <1>1, ClockTypes, FrameFacts DEF Ticked
    <2> QED
      BY <1>4, <1>5, <1>8, <2>1 DEF BasicInv, CountInv
  <1> QED
    BY <1>9, <1>10, <1>11, <1>12 DEF BasicInv

\* The transceiver's frame number jumps, or it falls silent.
LEMMA BasicTrxFault ==
    ASSUME BasicInv, TrxFault
    PROVE  BasicInv'
  <1>1. ClockTypeOK /\ nfaults < MaxFaults /\ nfaults' = nfaults + 1
    BY DEF BasicInv, TrxFault
  <1>2. UNCHANGED <<ind, powered, timer, last, age, without, alarm, lag>>
    BY DEF TrxFault
  <1>3. nfaults' \in 0 .. MaxFaults /\ nfaults' >= nfaults
    BY <1>1, ClockTypes, ClockNumbers
  <1>4. faults' \subseteq {"lost", "silent", "jump", "wrap"}
    BY <1>1 DEF TrxFault, ClockTypeOK
  <1>5. CASE trx' = trx /\ synced' = synced
    <2>1. ClockTypeOK'
      BY Zenon, <1>1, <1>2, <1>3, <1>4, <1>5 DEF ClockTypeOK
    <2>2. OffInv' /\ InStep'
      BY <1>2, <1>5 DEF BasicInv, OffInv, InStep
    <2>3. CountInv'
      BY <1>1, <1>2, <1>3, ClockTypes DEF BasicInv, CountInv
    <2> QED
      BY <2>1, <2>2, <2>3 DEF BasicInv
  <1>6. CASE ~(trx' = trx /\ synced' = synced)
    <2>1. PICK d \in Jumps : trx' = [trx EXCEPT !.fn = Plus(@, d)]
      BY <1>6 DEF TrxFault
    <2>2. synced' = FALSE
      BY <1>6 DEF TrxFault
    <2>3. trx' = [on |-> trx.on, fn |-> Plus(trx.fn, d), next |-> trx.next]
      BY <1>1, <2>1, ClockTypes
    <2>4. Plus(trx.fn, d) \in 0 .. Hyperframe - 1
      <3>1. d \in Int /\ trx.fn \in Int
        BY <1>1, ClockTypes, SchedClockAssumption
      <3> QED
        BY <3>1, PlusPlus
    <2>5. /\ trx' \in [on : BOOLEAN, fn : 0 .. Hyperframe - 1, next : 1 .. IndPeriod]
          /\ trx'.on = trx.on
      BY <1>1, <2>3, <2>4, ClockTypes
    <2>6. ClockTypeOK'
      BY Zenon, <1>1, <1>2, <1>3, <1>4, <2>2, <2>5 DEF ClockTypeOK
    <2>7. OffInv' /\ InStep'
      BY <1>2, <2>2, <2>5 DEF BasicInv, OffInv, InStep
    <2>8. CountInv'
      BY <1>1, <1>2, <1>3, ClockTypes DEF BasicInv, CountInv
    <2> QED
      BY <2>6, <2>7, <2>8 DEF BasicInv
  <1> QED
    BY <1>5, <1>6

\* The power of the transceiver is confirmed or taken away.
LEMMA BasicStarted ==
    ASSUME BasicInv, trx_sched_clock_started
    PROVE  BasicInv'
  <1>1. ClockTypeOK /\ trx.on
    BY DEF BasicInv, trx_sched_clock_started
  <1>2. /\ powered' = TRUE /\ last' = 0 /\ without' = 0 /\ age' = MaxFnSkew + 1
        /\ timer' = [cb |-> "start", due |-> StartFrames, count |-> 0]
        /\ UNCHANGED <<trx, ind, alarm, faults, lag, nfaults, synced>>
    BY DEF trx_sched_clock_started
  <1>3. /\ last' \in 0 .. Hyperframe - 1 /\ age' \in 0 .. MaxFnSkew + 1
        /\ without' \in 0 .. TrxLossFrames + 1
        /\ timer' \in [cb : {"none", "start", "fn"}, due : Nat, count : Nat]
        /\ timer'.cb = "start"
    BY <1>2, Hyper, ClockNumbers
  <1>4. ClockTypeOK'
    BY Zenon, <1>1, <1>2, <1>3 DEF ClockTypeOK
  <1>5. OffInv' /\ InStep' /\ CountInv'
    BY Zenon, <1>1, <1>2, <1>3 DEF BasicInv, OffInv, InStep, CountInv
  <1> QED
    BY <1>4, <1>5 DEF BasicInv

LEMMA BasicStopped ==
    ASSUME BasicInv, trx_sched_clock_stopped
    PROVE  BasicInv'
  <1>1. ClockTypeOK
    BY DEF BasicInv
  <1>2. /\ powered' = FALSE /\ timer' = Closed /\ trx' = [trx EXCEPT !.on = FALSE] /\ ind' = <<>>
        /\ UNCHANGED <<last, age, without, alarm, faults, lag, synced>>
        /\ nfaults' = nfaults \/ (nfaults' = nfaults + 1 /\ nfaults < MaxFaults)
    BY DEF trx_sched_clock_stopped
  <1>3. nfaults' \in 0 .. MaxFaults /\ nfaults' >= nfaults
    <2>1. nfaults \in 0 .. MaxFaults
      BY Zenon, <1>1 DEF ClockTypeOK
    <2> QED
      BY <1>2, <2>1, ClockNumbers
  <1>4. trx' \in [on : BOOLEAN, fn : 0 .. Hyperframe - 1, next : 1 .. IndPeriod]
    <2>1. trx' = [on |-> FALSE, fn |-> trx.fn, next |-> trx.next]
      BY <1>1, <1>2, ClockTypes
    <2> QED
      BY <1>1, <2>1, ClockTypes
  <1>5. /\ timer' \in [cb : {"none", "start", "fn"}, due : Nat, count : Nat] /\ timer'.cb = "none"
        /\ ind' \in Seq(0 .. Hyperframe - 1) /\ powered' \in BOOLEAN
    <2>1. timer' \in [cb : {"none", "start", "fn"}, due : Nat, count : Nat] /\ timer'.cb = "none"
      BY <1>2 DEF Closed
    <2>2. ind' \in Seq(0 .. Hyperframe - 1)
      BY <1>2
    <2> QED
      BY Zenon, <1>2, <2>1, <2>2
  <1>6. ClockTypeOK'
    BY Zenon, <1>1, <1>2, <1>3, <1>4, <1>5 DEF ClockTypeOK
  <1>7. OffInv' /\ InStep'
    BY Zenon, <1>2 DEF OffInv, InStep
  <1>8. CountInv'
    BY <1>1, <1>2, <1>3, <1>5, ClockTypes DEF BasicInv, CountInv
  <1> QED
    BY <1>6, <1>7, <1>8 DEF BasicInv

\* The timers.
LEMMA AlarmType ==
    ASSUME alarm \in Alarms, NEW why \in {"start", "loss", "skew"}, RaiseAlarm(why)
    PROVE  alarm' \in Alarms
  BY Zenon DEF Alarms, RaiseAlarm

LEMMA BasicNoclockind ==
    ASSUME BasicInv, trx_start_noclockind_to_cb
    PROVE  BasicInv'
  <1>1. ClockTypeOK /\ timer' = Closed /\ RaiseAlarm("start") /\ timer.count > 0
    BY DEF BasicInv, trx_start_noclockind_to_cb
  <1>2. UNCHANGED <<trx, ind, powered, last, age, without, faults, lag, nfaults, synced>>
    BY DEF trx_start_noclockind_to_cb
  <1>3. timer' \in [cb : {"none", "start", "fn"}, due : Nat, count : Nat] /\ timer'.cb = "none"
    BY <1>1 DEF Closed
  <1>4. alarm' \in Alarms
    BY Zenon, <1>1, AlarmType DEF ClockTypeOK
  <1>5. ClockTypeOK'
    BY Zenon, <1>1, <1>2, <1>3, <1>4 DEF ClockTypeOK
  <1>6. OffInv' /\ InStep' /\ CountInv'
    BY Zenon, <1>1, <1>2, <1>3 DEF BasicInv, OffInv, InStep, CountInv
  <1> QED
    BY <1>5, <1>6 DEF BasicInv

\* The frame timer in scalars.
LEMMA TimerFacts ==
    ASSUME BasicInv, trx_fn_timer_cb
    PROVE  /\ timer.cb = "fn" /\ timer.count > 0 /\ without' = without + 1
           /\ UNCHANGED <<trx, ind, powered, faults, lag, nfaults, synced>>
           /\ \/ /\ without = TrxLossFrames \/ age > MaxFnSkew
                 /\ timer' = [cb |-> "fn", due |-> 0, count |-> 0]
                 /\ alarm' \in Alarms /\ last' = last /\ age' \in {0, age}
              \/ /\ without # TrxLossFrames /\ ~(age > MaxFnSkew)
                 /\ timer' = [cb |-> "fn", due |-> timer.due, count |-> 0]
                 /\ alarm' = alarm /\ last' = Plus(last, timer.count) /\ age' = 0
  <1>1. ClockTypeOK /\ timer.cb = "fn" /\ timer.count > 0 /\ without' = without + 1
    BY DEF BasicInv, trx_fn_timer_cb
  <1>2. UNCHANGED <<trx, ind, powered, faults, lag, nfaults, synced>>
    BY DEF trx_fn_timer_cb
  <1>3. timer = [cb |-> "fn", due |-> timer.due, count |-> timer.count]
    BY <1>1, ClockTypes
  <1>7. PICK d \in Nat, c \in Nat : timer = [cb |-> "fn", due |-> d, count |-> c]
    BY <1>1, <1>3, ClockTypes
  <1>4. CASE without = TrxLossFrames
    <2>1. /\ timer' = [timer EXCEPT !.due = 0, !.count = 0]
          /\ RaiseAlarm("loss") /\ last' = last /\ age' = age
      BY <1>4 DEF trx_fn_timer_cb
    <2>2. timer' = [cb |-> "fn", due |-> 0, count |-> 0]
      BY <1>7, <2>1
    <2>3. alarm' \in Alarms
      BY Zenon, <1>1, <2>1, AlarmType DEF ClockTypeOK
    <2> QED
      BY Zenon, <1>1, <1>2, <1>4, <2>1, <2>2, <2>3
  <1>5. CASE without # TrxLossFrames /\ age > MaxFnSkew
    <2>1. /\ timer' = [timer EXCEPT !.due = 0, !.count = 0]
          /\ RaiseAlarm("skew") /\ last' = last /\ age' = 0
      BY <1>5 DEF trx_fn_timer_cb
    <2>2. timer' = [cb |-> "fn", due |-> 0, count |-> 0]
      BY <1>7, <2>1
    <2>3. alarm' \in Alarms
      BY Zenon, <1>1, <2>1, AlarmType DEF ClockTypeOK
    <2> QED
      BY Zenon, <1>1, <1>2, <1>5, <2>1, <2>2, <2>3
  <1>6. CASE without # TrxLossFrames /\ ~(age > MaxFnSkew)
    <2>1. /\ timer' = [timer EXCEPT !.count = 0] /\ last' = Plus(last, timer.count)
          /\ age' = 0 /\ alarm' = alarm
      BY <1>6 DEF trx_fn_timer_cb
    <2>2. timer' = [cb |-> "fn", due |-> timer.due, count |-> 0]
      BY <1>3, <2>1
    <2> QED
      BY Zenon, <1>1, <1>2, <1>6, <2>1, <2>2
  <1> QED
    BY Zenon, <1>4, <1>5, <1>6

LEMMA BasicTimer ==
    ASSUME BasicInv, trx_fn_timer_cb
    PROVE  BasicInv'
  <1>1. ClockTypeOK /\ OffInv /\ CountInv /\ InStep
    BY DEF BasicInv
  <1>2. /\ timer.cb = "fn" /\ timer.count > 0 /\ without' = without + 1
        /\ UNCHANGED <<trx, ind, powered, faults, lag, nfaults, synced>>
    BY TimerFacts
  <1>3. PICK c \in Nat, d \in Nat, l \in Int, w \in Nat :
            /\ c = timer.count /\ d = timer.due /\ l = last /\ w = without /\ c > 0
            /\ last \in 0 .. Hyperframe - 1
    BY <1>1, <1>2, ClockTypes
  <1>4. without' \in 0 .. TrxLossFrames + 1
    <2>1. w <= TrxLossFrames
      BY <1>1, <1>2, <1>3 DEF CountInv
    <2> QED
      BY <1>2, <1>3, <2>1, ClockNumbers
  <1>5. CASE \/ without = TrxLossFrames \/ age > MaxFnSkew
    <2>1. /\ timer' = [cb |-> "fn", due |-> 0, count |-> 0]
          /\ alarm' \in Alarms /\ last' = last /\ age' \in {0, age}
      BY Zenon, <1>5, TimerFacts
    <2>2. /\ timer' \in [cb : {"none", "start", "fn"}, due : Nat, count : Nat]
          /\ timer'.due = 0 /\ timer'.count = 0 /\ timer'.cb = "fn"
      BY <2>1
    <2>3. age' \in 0 .. MaxFnSkew + 1
      BY <1>1, <2>1, ClockTypes, ClockNumbers
    <2>4. ClockTypeOK'
      BY Zenon, <1>1, <1>2, <1>4, <2>1, <2>2, <2>3 DEF ClockTypeOK
    <2>5. OffInv' /\ InStep'
      BY <1>1, <1>2, <2>2 DEF OffInv, InStep, Closed
    <2>6. CountInv'
      BY <1>1, <1>2, <2>2 DEF CountInv
    <2> QED
      BY <2>4, <2>5, <2>6 DEF BasicInv
  <1>6. CASE ~(without = TrxLossFrames \/ age > MaxFnSkew)
    <2>1. /\ timer' = [cb |-> "fn", due |-> timer.due, count |-> 0]
          /\ alarm' = alarm /\ last' = Plus(last, timer.count) /\ age' = 0
      BY Zenon, <1>6, TimerFacts
    <2>2. /\ timer' \in [cb : {"none", "start", "fn"}, due : Nat, count : Nat]
          /\ timer'.due = d /\ timer'.count = 0 /\ timer'.cb = "fn"
      BY <1>3, <2>1
    <2>3. age' \in 0 .. MaxFnSkew + 1
      BY <2>1, ClockNumbers
    <2>4. last' = Plus(l, c) /\ c \in Int
      BY <1>3, <2>1
    <2>5. Plus(l, c) \in 0 .. Hyperframe - 1 /\ Plus(Plus(l, c), 1) = Plus(l, c + 1)
      BY <2>4, PlusPlus, PlusOne
    <2>6. ClockTypeOK'
      BY Zenon, <1>1, <1>2, <1>4, <2>1, <2>2, <2>3, <2>4, <2>5 DEF ClockTypeOK
    <2>7. OffInv'
      <3>1. powered
        BY <1>1, <1>2 DEF OffInv, Closed
      <3> QED
        BY Zenon, <1>1, <1>2, <3>1 DEF OffInv
    <2>8. InStep'
      <3> SUFFICES ASSUME synced, powered, d > 0
                   PROVE  Plus(last', 0 + 1) = Plus(trx.fn, d)
        BY <1>2, <2>2 DEF InStep
      <3>1. Plus(l, c + 1) = Plus(trx.fn, d)
        BY <1>1, <1>2, <1>3 DEF InStep
      <3> QED
        BY <2>4, <2>5, <3>1
    <2>9. CountInv'
      <3>1. w # TrxLossFrames /\ w <= TrxLossFrames
        BY <1>1, <1>2, <1>3, <1>6 DEF CountInv
      <3> QED
        BY <1>1, <1>2, <1>3, <3>1, ClockNumbers DEF CountInv
    <2> QED
      BY <2>6, <2>7, <2>8, <2>9 DEF BasicInv
  <1> QED
    BY <1>5, <1>6

\* A clock indication in scalars: what it finds, and what it makes of the timer.
LEMMA IndicationFacts ==
    ASSUME BasicInv, trx_clk_read_cb
    PROVE  /\ ind # <<>> /\ ind' = Tail(ind) /\ Head(ind) \in 0 .. Hyperframe - 1
           /\ ind' \in Seq(0 .. Hyperframe - 1) /\ trx.on
           /\ UNCHANGED <<trx, powered, alarm, lag, nfaults>>
           /\ ~powered => UNCHANGED <<timer, last, age, without, faults, synced>>
           /\ powered => trx_sched_clock(Head(ind))
  <1>1. ind # <<>> /\ ind' = Tail(ind) /\ UNCHANGED <<trx, powered, alarm, lag, nfaults>>
    BY DEF trx_clk_read_cb
  <1>2. /\ ~powered => UNCHANGED <<timer, last, age, without, faults, synced>>
        /\ powered => trx_sched_clock(Head(ind))
    BY DEF trx_clk_read_cb
  <1>3. ind \in Seq(0 .. Hyperframe - 1) /\ trx.on
    BY <1>1 DEF BasicInv, ClockTypeOK, OffInv
  <1>4. Head(ind) \in 0 .. Hyperframe - 1 /\ ind' \in Seq(0 .. Hyperframe - 1)
    <2> DEFINE F == 0 .. Hyperframe - 1
    <2>1. ind \in Seq(F)
      BY <1>3
    <2> HIDE DEF F
    <2>2. Head(ind) \in F /\ ind' \in Seq(F)
      BY <1>1, <2>1
    <2> QED
      BY <2>2 DEF F
  <1> QED
    BY Zenon, <1>1, <1>2, <1>3, <1>4

LEMMA Rescheduled ==
    ASSUME NEW t \in [cb : {"none", "start", "fn"}, due : Nat, count : Nat],
           NEW k \in Nat, NEW u, u = [t EXCEPT !.due = k, !.count = 0]
    PROVE  u = [cb |-> t.cb, due |-> k, count |-> 0]
  OBVIOUS

LEMMA ClockFacts ==
    ASSUME ClockTypeOK, NEW fn \in 0 .. Hyperframe - 1, trx_sched_clock(fn),
           NEW e, e = compute_elapsed_fn(last, fn)
    PROVE  /\ e \in Int /\ without' = 0
           /\ \/ /\ e > MaxFnSkew \/ e < -MaxFnSkew
                 /\ timer' = [cb |-> "fn", due |-> 1, count |-> 0]
                 /\ last' = fn /\ age' = 0
              \/ /\ -MaxFnSkew <= e /\ e < 0 /\ last' = last /\ age' = age
                 /\ timer.cb = "none" => timer' = timer
                 /\ timer.cb # "none" => timer' = [cb |-> timer.cb, due |-> 1 - e, count |-> 0]
              \/ /\ 0 <= e /\ e <= MaxFnSkew /\ last' = fn /\ timer' = timer
                 /\ age' = IF fn # last THEN 0 ELSE age
           /\ synced' = (fn = trx.fn /\ timer'.count = 0 /\ (e < 0 \/ timer'.due = 1))
           /\ faults' = IF timer.cb = "start" /\ fn >= Hyperframe - MaxFnSkew
                        THEN faults \cup {"wrap"} ELSE faults
  <1>1. e \in Int
    BY ClockTypes, ElapsedLeads
  <1>2. /\ without' = 0
        /\ synced' = (fn = trx.fn /\ timer'.count = 0 /\ (e < 0 \/ timer'.due = 1))
        /\ faults' = IF timer.cb = "start" /\ fn >= Hyperframe - MaxFnSkew
                     THEN faults \cup {"wrap"} ELSE faults
    BY Zenon DEF trx_sched_clock
  <1>3. CASE e > MaxFnSkew \/ e < -MaxFnSkew
    <2>2. ~(e \in -MaxFnSkew .. -1)
      BY <1>1, <1>3, ClockNumbers
    <2>1. trx_setup_clock(fn)
      BY Zenon, <1>3, <2>2 DEF trx_sched_clock
    <2> QED
      BY Zenon, <1>1, <1>2, <1>3, <2>1 DEF trx_setup_clock
  <1>4. CASE -MaxFnSkew <= e /\ e < 0
    <2>1. e \in -MaxFnSkew .. -1 /\ ~(e > MaxFnSkew \/ e < -MaxFnSkew)
      BY <1>1, <1>4, ClockNumbers
    <2>2. timer' = Schedule(Pause(e)) /\ last' = last /\ age' = age
      BY Zenon, <2>1 DEF trx_sched_clock
    <2>3. timer.cb # "none" => timer' = [cb |-> timer.cb, due |-> 1 - e, count |-> 0]
      <3>1. PICK k \in Nat : k = 1 - e
        BY <1>1, <1>4
      <3>2. timer.cb # "none" => timer' = [timer EXCEPT !.due = k, !.count = 0]
        BY Zenon, <2>2, <3>1 DEF Schedule, Pause
      <3> QED
        BY Zenon, <3>1, <3>2, Rescheduled DEF ClockTypeOK
    <2>4. timer.cb = "none" => timer' = timer
      BY Zenon, <2>2 DEF Schedule
    <2> QED
      BY Zenon, <1>1, <1>2, <1>4, <2>2, <2>3, <2>4
  <1>5. CASE 0 <= e /\ e <= MaxFnSkew
    <2>1. ~(e \in -MaxFnSkew .. -1) /\ ~(e > MaxFnSkew \/ e < -MaxFnSkew)
      BY <1>1, <1>5, ClockNumbers
    <2>2. last' = fn /\ (age' = IF fn # last THEN 0 ELSE age) /\ timer' = timer
      BY Zenon, <2>1 DEF trx_sched_clock
    <2> QED
      BY Zenon, <1>1, <1>2, <1>5, <2>2
  <1>6. e > MaxFnSkew \/ e < -MaxFnSkew \/ (-MaxFnSkew <= e /\ e < 0) \/ (0 <= e /\ e <= MaxFnSkew)
    BY <1>1, ClockNumbers
  <1> QED
    BY Zenon, <1>3, <1>4, <1>5, <1>6

LEMMA BasicIndication ==
    ASSUME BasicInv, trx_clk_read_cb
    PROVE  BasicInv'
  <1>1. ClockTypeOK /\ OffInv /\ CountInv /\ InStep
    BY DEF BasicInv
  <1>2. /\ Head(ind) \in 0 .. Hyperframe - 1 /\ ind' \in Seq(0 .. Hyperframe - 1) /\ trx.on
        /\ UNCHANGED <<trx, powered, alarm, lag, nfaults>>
    BY Zenon, IndicationFacts
  <1>3. CASE ~powered
    <2>1. UNCHANGED <<timer, last, age, without, faults, synced>>
      BY Zenon, <1>3, IndicationFacts
    <2>2. ClockTypeOK'
      BY Zenon, <1>1, <1>2, <2>1 DEF ClockTypeOK
    <2>3. OffInv' /\ InStep' /\ CountInv'
      BY Zenon, <1>1, <1>2, <1>3, <2>1 DEF OffInv, InStep, CountInv
    <2> QED
      BY <2>2, <2>3 DEF BasicInv
  <1>4. CASE powered
    <2>1. PICK fn \in 0 .. Hyperframe - 1 : fn = Head(ind) /\ trx_sched_clock(fn)
      BY Zenon, <1>2, <1>4, IndicationFacts
    <2>2. PICK e : e = compute_elapsed_fn(last, fn)
      OBVIOUS
    <2>3. e \in Int /\ without' = 0 /\ last \in 0 .. Hyperframe - 1
      BY Zenon, <1>1, <2>1, <2>2, ClockFacts, ClockTypes
    <2>4. synced' = (fn = trx.fn /\ timer'.count = 0 /\ (e < 0 \/ timer'.due = 1))
      BY Zenon, <1>1, <2>1, <2>2, ClockFacts
    <2>5. faults' \subseteq {"lost", "silent", "jump", "wrap"}
      <3>1. faults' = faults \/ faults' = faults \cup {"wrap"}
        BY Zenon, <1>1, <2>1, <2>2, ClockFacts
      <3> QED
        BY Zenon, <1>1, <3>1 DEF ClockTypeOK
    <2>6. without' \in 0 .. TrxLossFrames + 1 /\ synced' \in BOOLEAN
      BY <2>3, <2>4, ClockNumbers
    <2>7. OffInv' /\ CountInv'
      <3>1. OffInv'
        BY Zenon, <1>1, <1>2, <1>4 DEF OffInv
      <3>2. CountInv'
        BY <1>1, <1>2, <2>3, ClockNumbers DEF CountInv
      <3> QED
        BY <3>1, <3>2
    <2>8. /\ timer' \in [cb : {"none", "start", "fn"}, due : Nat, count : Nat]
          /\ last' \in 0 .. Hyperframe - 1 /\ age' \in 0 .. MaxFnSkew + 1 /\ InStep'
      <3>1. CASE /\ timer' = [cb |-> "fn", due |-> 1, count |-> 0]
                 /\ last' = fn /\ age' = 0
        <4>1. /\ timer' \in [cb : {"none", "start", "fn"}, due : Nat, count : Nat]
              /\ timer'.due = 1 /\ timer'.count = 0
          BY <3>1
        <4>2. age' \in 0 .. MaxFnSkew + 1
          BY <3>1, ClockNumbers
        <4>3. InStep'
          <5> SUFFICES ASSUME synced' PROVE Plus(last', 0 + 1) = Plus(trx.fn, 1)
            BY <1>2, <4>1 DEF InStep
          <5>1. fn = trx.fn
            BY Zenon, <2>4
          <5> QED
            BY <3>1, <5>1
        <4> QED
          BY Zenon, <2>1, <3>1, <4>1, <4>2, <4>3
      <3>2. CASE /\ -MaxFnSkew <= e /\ e < 0 /\ last' = last /\ age' = age
                 /\ timer.cb = "none" => timer' = timer
                 /\ timer.cb # "none" => timer' = [cb |-> timer.cb, due |-> 1 - e, count |-> 0]
        <4>1. /\ timer.cb \in {"none", "start", "fn"}
              /\ timer \in [cb : {"none", "start", "fn"}, due : Nat, count : Nat]
          BY Zenon, <1>1, ClockTypes DEF ClockTypeOK
        <4>2. CASE timer.cb = "none"
          <5>1. timer'.cb = "none"
            BY Zenon, <3>2, <4>2
          <5>2. InStep'
            BY <5>1 DEF InStep
          <5> QED
            BY Zenon, <1>1, <3>2, <4>1, <4>2, <5>2 DEF ClockTypeOK
        <4>3. CASE timer.cb # "none"
          <5>1. timer' = [cb |-> timer.cb, due |-> 1 - e, count |-> 0] /\ 1 - e \in Nat
            BY <2>3, <3>2, <4>3
          <5>2. /\ timer' \in [cb : {"none", "start", "fn"}, due : Nat, count : Nat]
                /\ timer'.due = 1 - e /\ timer'.count = 0
            BY <4>1, <5>1
          <5>3. InStep'
            <6> SUFFICES ASSUME synced' PROVE Plus(last', 0 + 1) = Plus(trx.fn, 1 - e)
              BY <1>2, <5>2 DEF InStep
            <6>1. fn = trx.fn
              BY Zenon, <2>4
            <6>2. Plus(fn, 1 - e) = Plus(last, 1)
              BY <2>2, <2>3, ElapsedLeads
            <6> QED
              BY <3>2, <6>1, <6>2
          <5> QED
            BY Zenon, <1>1, <3>2, <5>2, <5>3 DEF ClockTypeOK
        <4> QED
          BY <4>2, <4>3
      <3>3. CASE /\ 0 <= e /\ e <= MaxFnSkew /\ last' = fn /\ timer' = timer
                 /\ age' = IF fn # last THEN 0 ELSE age
        <4>1. age' \in 0 .. MaxFnSkew + 1
          BY <1>1, <3>3, ClockNumbers DEF ClockTypeOK
        <4>2. InStep'
          <5> SUFFICES ASSUME synced' PROVE Plus(last', timer'.count + 1) = Plus(trx.fn, timer'.due)
            BY <1>2 DEF InStep
          <5>1. fn = trx.fn /\ timer'.count = 0 /\ timer'.due = 1
            <6>1. fn = trx.fn /\ timer'.count = 0 /\ (e < 0 \/ timer'.due = 1)
              BY Zenon, <2>4
            <6> QED
              BY <2>3, <3>3, <6>1
          <5> QED
            BY <3>3, <5>1
        <4> QED
          BY Zenon, <1>1, <2>1, <3>3, <4>1, <4>2 DEF ClockTypeOK
      <3> QED
        BY Zenon, <1>1, <2>1, <2>2, <3>1, <3>2, <3>3, ClockFacts
    <2>9. ClockTypeOK'
      BY Zenon, <1>1, <1>2, <2>5, <2>6, <2>8 DEF ClockTypeOK
    <2> QED
      BY <2>7, <2>8, <2>9 DEF BasicInv
  <1> QED
    BY <1>3, <1>4

LEMMA BasicNext == BasicInv /\ [ClockNext]_clkvars => BasicInv'
  <1> SUFFICES ASSUME BasicInv, [ClockNext]_clkvars PROVE BasicInv'
    OBVIOUS
  <1>1. CASE UNCHANGED clkvars
    BY Zenon, <1>1 DEF clkvars, BasicInv, ClockTypeOK, InStep, OffInv, CountInv
  <1>2. CASE \E sends \in BOOLEAN : Frame(sends)
    BY Zenon, <1>2, BasicFrame
  <1> QED
    BY Zenon, <1>1, <1>2, BasicPowerOn, BasicTrxFault, BasicStarted, BasicStopped,
       BasicNoclockind, BasicTimer, BasicIndication DEF ClockNext, ClockHandlers

\* The frames that the BTS schedules are those of the transceiver, whatever the length of
\* the hyperframe, the skew that is put up with and the faults of the transceiver.
THEOREM ClockInvHolds == ClockSpec => []ClockInv
  <1>1. BasicInv => ClockInv
    BY DEF BasicInv, ClockInv
  <1> QED
    BY <1>1, BasicInit, BasicNext, PTL DEF ClockSpec

-----------------------------------------------------------------------------
\* How long ago the last indication was sent; by how much the last one that was handled
\* is older; and how long the one in the socket has been waiting.
Since == IndPeriod - trx.next
Sent == IF ind = <<>> THEN 0 ELSE IndPeriod
Wait == IF ind = <<>> THEN 0 ELSE Since

\* Nothing but short stalls has gone wrong.
Calm == trx.on /\ faults = {} /\ lag < MaxFnSkew - 1

\* At most one indication waits, no longer than the process has been stalled.
Arrivals == ind = <<>> \/ (ind = <<Plus(trx.fn, 0 - Since)>> /\ Since <= lag)

\* The three seconds are not over: two indications come before, the second of which is
\* a period away from what the first one set.
Starting ==
    /\ timer.cb = "start" /\ timer.count = 0 /\ timer.due >= 1
    /\ \/ last = 0 /\ timer.due >= StartFrames - (Since + Sent)
       \/ /\ last = Plus(trx.fn, 0 - (Since + Sent))
          /\ timer.due >= StartFrames - IndPeriod - (Since + Sent)

\* The timer is x frames ahead of the transceiver, counting its expirations and what it
\* waits for; its last frame and a pause are no longer ago than the stalls explain.
Ahead(x) ==
    /\ last = Plus(trx.fn, x - timer.count - 1 + timer.due)
    /\ 0 - lag <= x /\ x + Wait <= 1 + lag
    /\ timer.due > 1 => timer.count = 0 /\ x <= 0
    /\ age + timer.due - timer.count + x + Wait <= 2 + lag

Running ==
    /\ timer.cb = "fn" /\ timer.due >= 1 /\ timer.count <= 1 + lag
    /\ without + (IF timer.count > 0 THEN 1 ELSE 0) <= 1 + (Since + Sent)
    /\ age + (IF timer.count = 0 THEN timer.due ELSE 0) <= 2 + lag
    /\ \E x \in Int : Ahead(x)

QuietInv ==
    /\ BasicInv /\ NoFalseAlarm
    /\ Calm => Arrivals /\ (powered => Starting \/ Running)

LEMMA Rates ==
    /\ MaxFnSkew \in Nat /\ IndPeriod \in Nat /\ StartFrames \in Nat /\ TrxLossFrames \in Nat
    /\ NegativeFrom \in Nat /\ Hyperframe \in Nat
    /\ MaxFnSkew >= 1 /\ MaxFnSkew < IndPeriod /\ IndPeriod < NegativeFrom
    /\ 2 * IndPeriod + MaxFnSkew <= StartFrames
    /\ IndPeriod + MaxFnSkew <= TrxLossFrames + 1
    /\ 2 * MaxFnSkew <= NegativeFrom /\ NegativeFrom + 2 * MaxFnSkew <= Hyperframe
  BY SchedClockAssumption, RatesAssumption

\* The numbers of a calm state.
LEMMA CalmNumbers ==
    ASSUME ClockTypeOK, Calm, Arrivals
    PROVE  /\ Since \in Nat /\ Sent \in Nat /\ Wait \in Nat /\ Since < IndPeriod
           /\ lag \in Nat /\ lag + 2 <= MaxFnSkew
           /\ Since + Sent + 2 <= IndPeriod + MaxFnSkew /\ Wait <= lag
           /\ ind = <<>> => Sent = 0 /\ Wait = 0
           /\ ind # <<>> => Since <= lag /\ Sent = IndPeriod /\ Wait = Since
  <1>1. trx.next \in 1 .. IndPeriod /\ lag \in Nat
    BY ClockTypes
  <1>2. Since \in Nat /\ Since < IndPeriod /\ lag + 2 <= MaxFnSkew
    BY <1>1, Rates DEF Since, Calm
  <1>3. CASE ind = <<>>
    <2>1. Sent = 0 /\ Wait = 0
      BY <1>3 DEF Sent, Wait
    <2> QED
      BY <1>1, <1>2, <1>3, <2>1, Rates
  <1>4. CASE ind # <<>>
    <2>1. Sent = IndPeriod /\ Wait = Since /\ Since <= lag
      BY <1>4 DEF Sent, Wait, Arrivals
    <2> QED
      BY <1>1, <1>2, <1>4, <2>1, Rates
  <1> QED
    BY <1>3, <1>4

\* A frame of a calm state.
LEMMA CalmFrame ==
    ASSUME QuietInv, BasicInv', NEW sends \in BOOLEAN, Frame(sends), Calm'
    PROVE  /\ Calm /\ Arrivals /\ Arrivals'
           /\ Since' + Sent' = Since + Sent + 1
           /\ Wait' + lag <= Wait + lag'
           /\ lag' = IF timer.count > 0 \/ ind # <<>> THEN lag + 1 ELSE lag
           /\ trx'.fn = Plus(trx.fn, 1)
           /\ timer' = Ticked(timer) /\ (age' = IF age > MaxFnSkew THEN age ELSE age + 1)
           /\ powered' = powered /\ last' = last /\ without' = without
  <1>1. ClockTypeOK /\ ClockTypeOK'
    BY DEF QuietInv, BasicInv
  <1>2. /\ trx.on /\ faults \subseteq faults'
        /\ trx' = [on |-> trx.on, fn |-> Plus(trx.fn, 1),
                   next |-> IF trx.next = 1 THEN IndPeriod ELSE trx.next - 1]
        /\ \/ ind' = ind /\ (trx.next = 1 => faults' # {})
           \/ ind' = Append(ind, Plus(trx.fn, 1)) /\ trx.next = 1
        /\ lag' = IF Ready THEN lag + 1 ELSE lag
        /\ timer' = Ticked(timer) /\ (age' = IF age > MaxFnSkew THEN age ELSE age + 1)
        /\ powered' = powered /\ last' = last /\ without' = without
    BY Zenon, <1>1, FrameFacts
  <1>3. /\ lag' = IF timer.count > 0 \/ ind # <<>> THEN lag + 1 ELSE lag
        /\ lag \in Nat /\ lag' \in Nat /\ lag <= lag'
    BY <1>1, <1>2, ClockTypes DEF Ready
  <1>4. Calm /\ faults' = {} /\ lag' < MaxFnSkew - 1
    <2>1. faults' = {} /\ lag' < MaxFnSkew - 1
      BY DEF Calm
    <2>2. faults = {}
      BY Zenon, <1>2, <2>1
    <2> QED
      BY <1>2, <1>3, <2>1, <2>2, Rates DEF Calm
  <1>5. Arrivals
    BY Zenon, <1>4 DEF QuietInv
  <1>6. PICK f \in Int, n \in Int, s \in Nat, o \in Int :
            /\ f = trx.fn /\ n = trx.next /\ s = Since /\ o = Sent /\ n \in 1 .. IndPeriod
            /\ s = IndPeriod - n /\ o = (IF ind = <<>> THEN 0 ELSE IndPeriod)
    <2>1. trx.fn \in Int /\ trx.next \in Int /\ trx.next \in 1 .. IndPeriod
      BY <1>1, ClockTypes
    <2>2. Since \in Nat /\ Sent \in Int
      BY <1>1, <1>4, <1>5, CalmNumbers
    <2> QED
      BY <2>1, <2>2 DEF Since, Sent
  <1>7. trx'.fn = Plus(f, 1) /\ trx'.next = IF n = 1 THEN IndPeriod ELSE n - 1
    BY <1>2, <1>6
  <1>8. CASE ind = <<>>
    <2>1. CASE n = 1
      <3>1. ind' = <<Plus(f, 1)>> /\ ind' # <<>>
        <4>1. ind' = Append(<<>>, Plus(f, 1))
          BY Zenon, <1>2, <1>4, <1>6, <1>8, <2>1
        <4>2. PICK g : g = Plus(f, 1)
          OBVIOUS
        <4>3. Append(<<>>, g) = <<g>> /\ <<g>> # <<>>
          OBVIOUS
        <4> QED
          BY Zenon, <4>1, <4>2, <4>3
      <3>2. Since' = 0 /\ Sent' = IndPeriod /\ Wait' = 0
        BY <1>7, <2>1, <3>1, Rates DEF Since, Sent, Wait
      <3>3. Plus(trx'.fn, 0) = Plus(f, 1)
        <4>1. Plus(f, 1) \in 0 .. Hyperframe - 1 /\ Plus(f, 1) \in Int
          BY PlusOne, Hyper
        <4>2. PICK g \in Int : g = Plus(f, 1) /\ g \in 0 .. Hyperframe - 1
          BY <4>1
        <4>3. Plus(g, 0) = g
          BY <4>2, PlusPlus
        <4> QED
          BY <1>7, <4>2, <4>3
      <3>4. Arrivals'
        <4>1. 0 - Since' = 0 /\ Since' <= lag'
          BY <1>3, <3>2
        <4> QED
          BY Zenon, <3>1, <3>3, <4>1 DEF Arrivals
      <3>5. Wait = 0 /\ Sent = 0
        BY <1>8 DEF Wait, Sent
      <3>6. Since' + Sent' = Since + Sent + 1 /\ Wait' + lag <= Wait + lag'
        <4>1. Since = s /\ s + 1 = IndPeriod
          BY <1>6, <2>1, Rates
        <4>2. 0 + IndPeriod = s + 0 + 1 /\ 0 + lag <= 0 + lag'
          BY <1>3, <4>1, Rates
        <4> QED
          BY Zenon, <3>2, <3>5, <4>1, <4>2
      <3> QED
        BY Zenon, <1>2, <1>3, <1>4, <1>5, <1>6, <1>7, <3>4, <3>6
    <2>2. CASE n # 1
      <3>1. ind' = <<>>
        BY <1>2, <1>6, <1>8, <2>2
      <3>2. Arrivals' /\ Sent' = 0 /\ Wait' = 0 /\ Sent = 0 /\ Wait = 0
        BY Zenon, <1>8, <3>1 DEF Arrivals, Sent, Wait
      <3>3. Since' = s + 1
        BY <1>6, <1>7, <2>2, Rates DEF Since
      <3>4. Since' + Sent' = Since + Sent + 1 /\ Wait' + lag <= Wait + lag'
        <4>1. Since = s
          BY <1>6
        <4>2. s + 1 + 0 = s + 0 + 1 /\ 0 + lag <= 0 + lag'
          BY <1>3
        <4> QED
          BY Zenon, <3>2, <3>3, <4>1, <4>2
      <3> QED
        BY Zenon, <1>2, <1>3, <1>4, <1>5, <1>6, <1>7, <3>2, <3>4
    <2> QED
      BY <2>1, <2>2
  <1>9. CASE ind # <<>>
    <2>1. s <= lag /\ lag' = lag + 1 /\ ind = <<Plus(f, 0 - s)>>
      <3>1. ind = <<Plus(trx.fn, 0 - Since)>> /\ Since <= lag
        BY Zenon, <1>5, <1>9 DEF Arrivals
      <3> QED
        BY <1>3, <1>6, <1>9, <3>1
    <2>2. n # 1
      BY <1>3, <1>4, <1>6, <2>1, Rates
    <2>3. ind' = ind
      BY <1>2, <1>6, <2>2
    <2>4. Since' = s + 1
      BY <1>6, <1>7, <2>2, Rates DEF Since
    <2>5. Plus(f, 0 - s) = Plus(Plus(f, 1), 0 - (s + 1))
      <3>1. PICK k \in Int : k = 0 - (s + 1)
        OBVIOUS
      <3>2. 1 + k = 0 - s
        BY <3>1
      <3> QED
        BY <3>1, <3>2, PlusOne
    <2>6. Arrivals'
      <3>1. s + 1 <= lag'
        BY <1>3, <2>1
      <3> QED
        BY Zenon, <1>7, <2>1, <2>3, <2>4, <2>5, <3>1 DEF Arrivals
    <2>7. Sent' = IndPeriod /\ Sent = IndPeriod /\ Wait' = s + 1 /\ Wait = s
      BY Zenon, <1>6, <1>9, <2>3, <2>4 DEF Sent, Wait
    <2>8. Since' + Sent' = Since + Sent + 1 /\ Wait' + lag <= Wait + lag'
      BY <1>3, <1>6, <2>1, <2>4, <2>7, Rates
    <2> QED
      BY Zenon, <1>2, <1>3, <1>4, <1>5, <1>6, <1>7, <2>6, <2>8
  <1> QED
    BY <1>8, <1>9

\* While the first indication is waited for, a frame brings the end of the wait closer, but
\* not to its end.
LEMMA StartingFrame ==
    ASSUME QuietInv, BasicInv', NEW sends \in BOOLEAN, Frame(sends), Calm', Starting
    PROVE  Starting'
  <1>1. ClockTypeOK
    BY DEF QuietInv, BasicInv
  <1>2. /\ Calm /\ Arrivals /\ trx'.fn = Plus(trx.fn, 1) /\ timer' = Ticked(timer)
        /\ Since' + Sent' = Since + Sent + 1 /\ last' = last
    BY Zenon, CalmFrame
  <1>3. PICK b \in Nat, d \in Nat, f \in Int, p \in Nat :
            b = Since + Sent /\ d = timer.due /\ f = trx.fn /\ p = StartFrames
    <2>1. Since \in Nat /\ Sent \in Nat
      BY Zenon, <1>1, <1>2, CalmNumbers
    <2>2. Since + Sent \in Nat
      BY <2>1
    <2> QED
      BY Zenon, <1>1, <2>2, ClockTypes, Rates
  <1>4. /\ timer.cb = "start" /\ timer.count = 0
        /\ \/ last = 0 /\ d >= p - b
           \/ last = Plus(f, 0 - b) /\ d >= p - IndPeriod - b
    BY Zenon, <1>3 DEF Starting
  <1>5. d > 1
    <2>1. b + 2 <= IndPeriod + MaxFnSkew
      BY <1>1, <1>2, <1>3, CalmNumbers
    <2> QED
      BY <1>3, <1>4, <2>1, Rates
  <1>6. timer'.cb = "start" /\ timer'.due = d - 1 /\ timer'.count = 0
    BY <1>2, <1>3, <1>4, <1>5 DEF Ticked
  <1>7. Since' + Sent' = b + 1
    BY <1>2, <1>3
  <1>8. Plus(Plus(f, 1), 0 - (b + 1)) = Plus(f, 0 - b)
    <2>1. PICK k \in Int : k = 0 - (b + 1)
      OBVIOUS
    <2>2. 1 + k = 0 - b
      BY <2>1
    <2> QED
      BY <2>1, <2>2, PlusOne
  <1>9. \/ last' = 0 /\ d - 1 >= p - (b + 1)
        \/ last' = Plus(trx'.fn, 0 - (b + 1)) /\ d - 1 >= p - IndPeriod - (b + 1)
    <2>1. /\ d >= p - b => d - 1 >= p - (b + 1)
          /\ d >= p - IndPeriod - b => d - 1 >= p - IndPeriod - (b + 1)
      BY Rates
    <2> QED
      BY Zenon, <1>2, <1>3, <1>4, <1>8, <2>1
  <1>10. d - 1 >= 1
    BY <1>5
  <1> QED
    BY Zenon, <1>3, <1>6, <1>7, <1>9, <1>10 DEF Starting

\* A frame of the running clock: whatever happens to it in time stays explained.
LEMMA RunningFrame ==
    ASSUME QuietInv, BasicInv', NEW sends \in BOOLEAN, Frame(sends), Calm', Running
    PROVE  Running'
  <1>1. ClockTypeOK
    BY DEF QuietInv, BasicInv
  <1>2. /\ Calm /\ Arrivals /\ Arrivals' /\ trx'.fn = Plus(trx.fn, 1) /\ timer' = Ticked(timer)
        /\ Since' + Sent' = Since + Sent + 1 /\ last' = last /\ without' = without
        /\ Wait' + lag <= Wait + lag' /\ (age' = IF age > MaxFnSkew THEN age ELSE age + 1)
        /\ lag' = IF timer.count > 0 \/ ind # <<>> THEN lag + 1 ELSE lag
    BY Zenon, CalmFrame
  <1>3. PICK b \in Nat, d \in Nat, c \in Nat, f \in Int, g \in Nat, w \in Nat, l \in Nat,
             v \in Nat :
            /\ b = Since + Sent /\ d = timer.due /\ c = timer.count /\ f = trx.fn /\ g = age
            /\ w = without /\ l = lag /\ v = Wait
    <2>1. Since \in Nat /\ Sent \in Nat /\ Wait \in Nat
      BY Zenon, <1>1, <1>2, CalmNumbers
    <2>2. Since + Sent \in Nat
      BY <2>1
    <2> QED
      BY Zenon, <1>1, <2>1, <2>2, ClockTypes
  <1>4. PICK m \in Nat, u \in Nat, h \in Nat : m = lag' /\ u = Wait' /\ h = age'
    <2>1. ClockTypeOK'
      BY DEF BasicInv
    <2>2. lag' \in Nat /\ Wait' \in Nat
      <3>1. trx'.next \in 1 .. IndPeriod /\ lag' \in Nat
        BY <2>1, ClockNumbers DEF ClockTypeOK
      <3>2. IndPeriod - trx'.next \in Nat
        BY <3>1, ClockNumbers
      <3> QED
        BY Zenon, <3>1, <3>2 DEF Wait, Since
    <2>3. age' \in Nat
      BY <2>1, ClockNumbers DEF ClockTypeOK
    <2> QED
      BY Zenon, <2>2, <2>3
  <1>5. PICK x \in Int : Ahead(x)
    BY DEF Running
  <1>6. /\ last = Plus(f, x - c - 1 + d) /\ 0 - l <= x /\ x + v <= 1 + l
        /\ d > 1 => c = 0 /\ x <= 0
        /\ g + d - c + x + v <= 2 + l
    BY Zenon, <1>3, <1>5 DEF Ahead
  <1>7. /\ timer.cb = "fn" /\ d >= 1 /\ c <= 1 + l
        /\ w + (IF c > 0 THEN 1 ELSE 0) <= 1 + b
        /\ g + (IF c = 0 THEN d ELSE 0) <= 2 + l
    BY Zenon, <1>3 DEF Running
  <1>8. u + l <= v + m /\ h <= g + 1 /\ l <= m /\ (c > 0 => m = l + 1)
    <2>1. u + l <= v + m /\ (h = g \/ h = g + 1) /\ (m = l \/ m = l + 1) /\ (c > 0 => m = l + 1)
      BY Zenon, <1>2, <1>3, <1>4
    <2> QED
      BY <2>1
  <1>9. Since' + Sent' = b + 1
    BY <1>2, <1>3
  <1>10. PICK e \in Nat, k \in Nat :
            /\ timer'.cb = "fn" /\ e = timer'.due /\ k = timer'.count
            /\ e >= 1 /\ k <= 1 + m
            /\ w + (IF k > 0 THEN 1 ELSE 0) <= 1 + (b + 1)
            /\ h + (IF k = 0 THEN e ELSE 0) <= 2 + m
            /\ e - k = d - c - 1 /\ (e > 1 => k = 0 /\ x <= 0)
    <2>1. CASE d = 1
      <3>1. timer'.cb = "fn" /\ timer'.due = 1 /\ timer'.count = c + 1
        BY <1>2, <1>3, <1>7, <2>1 DEF Ticked
      <3>2. /\ 1 >= 1 /\ c + 1 <= 1 + m
            /\ w + (IF c + 1 > 0 THEN 1 ELSE 0) <= 1 + (b + 1)
            /\ h + (IF c + 1 = 0 THEN 1 ELSE 0) <= 2 + m
            /\ 1 - (c + 1) = d - c - 1
        BY <1>7, <1>8, <2>1
      <3>3. 1 \in Nat /\ c + 1 \in Nat /\ ~(1 > 1)
        OBVIOUS
      <3> QED
        BY Zenon, <3>1, <3>2, <3>3
    <2>2. CASE d # 1
      <3>1. timer'.cb = "fn" /\ timer'.due = d - 1 /\ timer'.count = c
        <4>1. d > 1 /\ ~(d = 0) /\ ~(d = 1)
          BY <1>7, <2>2
        <4>2. /\ Ticked(timer).cb = timer.cb
              /\ Ticked(timer).due = d - 1 /\ Ticked(timer).count = c
          BY <1>3, <4>1 DEF Ticked
        <4> QED
          BY Zenon, <1>2, <1>7, <4>2
      <3>2. /\ d - 1 >= 1 /\ c <= 1 + m /\ c = 0 /\ x <= 0
            /\ w + (IF c > 0 THEN 1 ELSE 0) <= 1 + (b + 1)
            /\ h + (IF c = 0 THEN d - 1 ELSE 0) <= 2 + m
            /\ d - 1 - c = d - c - 1
        BY <1>6, <1>7, <1>8, <2>2
      <3>3. d - 1 \in Nat
        BY <1>7
      <3> QED
        BY Zenon, <3>1, <3>2, <3>3
    <2> QED
      BY <2>1, <2>2
  <1>11. last' = Plus(trx'.fn, x - k - 1 + e)
    <2>1. PICK j \in Int : j = x - k - 1 + e
      OBVIOUS
    <2>2. 1 + j = x - c - 1 + d
      BY <1>10, <2>1
    <2>3. Plus(Plus(f, 1), j) = Plus(f, 1 + j)
      BY PlusOne
    <2> QED
      BY Zenon, <1>2, <1>3, <1>6, <2>1, <2>2, <2>3
  <1>12. 0 - m <= x /\ x + u <= 1 + m /\ h + e - k + x + u <= 2 + m
    BY <1>6, <1>8, <1>10
  <1>13. Ahead(x)'
    BY Zenon, <1>4, <1>10, <1>11, <1>12 DEF Ahead
  <1> QED
    BY Zenon, <1>2, <1>3, <1>4, <1>9, <1>10, <1>13 DEF Running

LEMMA QuietFrame ==
    ASSUME QuietInv, BasicInv', NEW sends \in BOOLEAN, Frame(sends)
    PROVE  QuietInv'
  <1>1. ClockTypeOK /\ alarm' = alarm /\ faults \subseteq faults' /\ lag' \in Nat /\ lag \in Nat
        /\ lag <= lag'
    <2>1. ClockTypeOK /\ alarm' = alarm /\ faults \subseteq faults'
          /\ lag' = IF Ready THEN lag + 1 ELSE lag
      BY Zenon, FrameFacts DEF QuietInv, BasicInv
    <2> QED
      BY <2>1, ClockTypes
  <1>2. NoFalseAlarm'
    BY <1>1, Rates DEF QuietInv, NoFalseAlarm
  <1>3. Calm' => Arrivals' /\ (powered' => Starting' \/ Running')
    <2> SUFFICES ASSUME Calm' PROVE Arrivals' /\ (powered' => Starting' \/ Running')
      OBVIOUS
    <2>1. Calm /\ Arrivals' /\ powered' = powered
      BY Zenon, CalmFrame
    <2> QED
      BY Zenon, <2>1, StartingFrame, RunningFrame DEF QuietInv
  <1> QED
    BY Zenon, <1>2, <1>3 DEF QuietInv

\* An alarm of a state that is not calm is no false one.
LEMMA NotCalm ==
    ASSUME ClockTypeOK, trx.on, ~Calm
    PROVE  faults # {} \/ lag >= MaxFnSkew - 1
  BY ClockTypes, ClockNumbers DEF Calm

\* The timer comes round.
LEMMA QuietTimer ==
    ASSUME QuietInv, BasicInv', trx_fn_timer_cb
    PROVE  QuietInv'
  <1>1. ClockTypeOK /\ OffInv /\ BasicInv
    BY DEF QuietInv, BasicInv
  <1>2. /\ timer.cb = "fn" /\ timer.count > 0 /\ without' = without + 1
        /\ UNCHANGED <<trx, ind, powered, faults, lag, nfaults, synced>>
    BY Zenon, <1>1, TimerFacts
  <1>3. powered /\ trx.on
    BY <1>1, <1>2 DEF OffInv, Closed
  <1>4. /\ Since' = Since /\ Sent' = Sent /\ Wait' = Wait /\ (Calm' <=> Calm)
        /\ Arrivals' <=> Arrivals
    BY Zenon, <1>2 DEF Since, Sent, Wait, Calm, Arrivals
  <1>5. CASE ~Calm
    <2>1. NoFalseAlarm'
      BY Zenon, <1>1, <1>2, <1>3, <1>5, NotCalm DEF NoFalseAlarm
    <2> QED
      BY Zenon, <1>4, <1>5, <2>1 DEF QuietInv
  <1>6. CASE Calm
    <2>1. Arrivals /\ Running
      BY Zenon, <1>2, <1>3, <1>6 DEF QuietInv, Starting
    <2>2. PICK b \in Nat, d \in Nat, c \in Nat, f \in Int, g \in Nat, w \in Nat, l \in Nat,
               v \in Nat, o \in Int :
              /\ b = Since + Sent /\ d = timer.due /\ c = timer.count /\ f = trx.fn /\ g = age
              /\ w = without /\ l = lag /\ v = Wait /\ o = last
      <3>1. Since \in Nat /\ Sent \in Nat /\ Wait \in Nat
        BY Zenon, <1>1, <1>6, <2>1, CalmNumbers
      <3>2. Since + Sent \in Nat
        BY <3>1
      <3> QED
        BY Zenon, <1>1, <3>1, <3>2, ClockTypes
    <2>3. PICK x \in Int : Ahead(x)
      BY Zenon, <2>1 DEF Running
    <2>4. /\ o = Plus(f, x - c - 1 + d) /\ 0 - l <= x /\ x + v <= 1 + l
          /\ d > 1 => c = 0 /\ x <= 0
          /\ g + d - c + x + v <= 2 + l
      BY Zenon, <2>2, <2>3 DEF Ahead
    <2>5. /\ d >= 1 /\ c <= 1 + l
          /\ w + (IF c > 0 THEN 1 ELSE 0) <= 1 + b
          /\ g + (IF c = 0 THEN d ELSE 0) <= 2 + l
      BY Zenon, <2>1, <2>2 DEF Running
    <2>6. c > 0
      BY Zenon, <1>2, <2>2
    <2>7. d = 1 /\ w + 1 <= 1 + b
      BY <2>4, <2>5, <2>6
    <2>8. b + 2 <= IndPeriod + MaxFnSkew /\ l + 2 <= MaxFnSkew
      BY Zenon, <1>1, <1>6, <2>1, <2>2, CalmNumbers
    <2>9. without # TrxLossFrames /\ ~(age > MaxFnSkew)
      BY <2>2, <2>5, <2>6, <2>7, <2>8, Rates
    <2>10. /\ timer' = [cb |-> "fn", due |-> timer.due, count |-> 0]
           /\ alarm' = alarm /\ last' = Plus(last, timer.count) /\ age' = 0
      BY Zenon, <1>1, <2>9, TimerFacts
    <2>11. NoFalseAlarm'
      BY Zenon, <1>2, <2>10 DEF QuietInv, NoFalseAlarm
    <2>12. timer'.cb = "fn" /\ timer'.due = 1 /\ timer'.count = 0
      BY <2>2, <2>7, <2>10
    <2>13. Ahead(x)'
      <3>1. last' = Plus(f, x - 0 - 1 + 1)
        <4>1. PICK j \in Int : j = x - c - 1 + d
          OBVIOUS
        <4>2. j + c = x - 0 - 1 + 1
          BY <2>7, <4>1
        <4>3. Plus(Plus(f, j), c) = Plus(f, j + c)
          BY PlusPlus
        <4> QED
          BY Zenon, <2>2, <2>4, <2>10, <4>1, <4>2, <4>3
      <3>2. 0 + 1 - 0 + x + v <= 2 + l /\ ~(1 > 1)
        BY <2>4
      <3>3. Wait' = v /\ lag' = l /\ trx' = trx /\ age' = 0
        BY Zenon, <1>2, <1>4, <2>2, <2>10
      <3> QED
        BY Zenon, <2>2, <2>4, <2>12, <3>1, <3>2, <3>3 DEF Ahead
    <2>14. Running'
      <3>1. /\ 1 >= 1 /\ 0 <= 1 + l /\ 0 + (IF 0 = 0 THEN 1 ELSE 0) <= 2 + l
            /\ (w + 1) + (IF 0 > 0 THEN 1 ELSE 0) <= 1 + b
        BY <2>7
      <3>2. Since' + Sent' = b /\ lag' = l /\ without' = w + 1 /\ age' = 0
        BY Zenon, <1>2, <1>4, <2>2, <2>10
      <3> QED
        BY Zenon, <2>12, <2>13, <3>1, <3>2 DEF Running
    <2> QED
      BY Zenon, <1>4, <2>1, <2>11, <2>14 DEF QuietInv
  <1> QED
    BY <1>5, <1>6

\* The three seconds of the start are over.
LEMMA QuietNoclockind ==
    ASSUME QuietInv, BasicInv', trx_start_noclockind_to_cb
    PROVE  QuietInv'
  <1>1. ClockTypeOK /\ OffInv
    BY DEF QuietInv, BasicInv
  <1>2. /\ timer.cb = "start" /\ timer.count > 0
        /\ UNCHANGED <<trx, ind, powered, last, age, without, faults, lag, nfaults, synced>>
    BY DEF trx_start_noclockind_to_cb
  <1>3. powered /\ trx.on
    BY <1>1, <1>2 DEF OffInv, Closed
  <1>4. ~Calm
    <2> SUFFICES ASSUME Calm PROVE FALSE
      OBVIOUS
    <2>1. Starting \/ Running
      BY Zenon, <1>3 DEF QuietInv
    <2> QED
      BY <1>2, <2>1, ClockTypes DEF Starting, Running
  <1>5. ~Calm'
    BY Zenon, <1>2, <1>4 DEF Calm
  <1>6. NoFalseAlarm'
    BY Zenon, <1>1, <1>2, <1>3, <1>4, NotCalm DEF NoFalseAlarm
  <1> QED
    BY Zenon, <1>5, <1>6 DEF QuietInv

\* The steps around the clock.
LEMMA QuietPowerOn ==
    ASSUME QuietInv, BasicInv', PowerOn
    PROVE  QuietInv'
  <1>1. ~powered' /\ ind' = <<>> /\ alarm' = "none"
    BY Zenon DEF PowerOn, QuietInv, BasicInv, OffInv
  <1> QED
    BY Zenon, <1>1 DEF QuietInv, NoFalseAlarm, Arrivals

LEMMA QuietTrxFault ==
    ASSUME QuietInv, BasicInv', TrxFault
    PROVE  QuietInv'
  <1>1. faults' # {}
    BY Zenon DEF TrxFault
  <1> QED
    BY Zenon, <1>1 DEF QuietInv, NoFalseAlarm, Calm

LEMMA QuietStarted ==
    ASSUME QuietInv, BasicInv', trx_sched_clock_started
    PROVE  QuietInv'
  <1>1. /\ powered' = TRUE /\ last' = 0
        /\ timer' = [cb |-> "start", due |-> StartFrames, count |-> 0]
        /\ UNCHANGED <<trx, ind, alarm, faults, lag>>
    BY DEF trx_sched_clock_started
  <1>2. /\ Since' = Since /\ Sent' = Sent /\ (Calm' <=> Calm)
        /\ Arrivals' <=> Arrivals
    BY Zenon, <1>1 DEF Since, Sent, Calm, Arrivals
  <1>3. NoFalseAlarm'
    BY Zenon, <1>1 DEF QuietInv, NoFalseAlarm
  <1>4. Calm' => Starting'
    <2> SUFFICES ASSUME Calm PROVE Starting'
      BY Zenon, <1>2
    <2>1. Since \in Nat /\ Sent \in Nat
      BY Zenon, CalmNumbers DEF QuietInv, BasicInv
    <2>2. StartFrames >= StartFrames - (Since + Sent) /\ StartFrames >= 1
      BY <2>1, Rates
    <2>3. timer'.cb = "start" /\ timer'.due = StartFrames /\ timer'.count = 0
      BY <1>1
    <2> QED
      BY Zenon, <1>1, <1>2, <2>2, <2>3 DEF Starting
  <1> QED
    BY Zenon, <1>2, <1>3, <1>4 DEF QuietInv

LEMMA QuietStopped ==
    ASSUME QuietInv, BasicInv', trx_sched_clock_stopped
    PROVE  QuietInv'
  <1>1. trx'.on = FALSE /\ UNCHANGED <<alarm, faults, lag>>
    <2>1. trx' = [trx EXCEPT !.on = FALSE] /\ UNCHANGED <<alarm, faults, lag>>
      BY Zenon DEF trx_sched_clock_stopped
    <2>2. trx = [on |-> trx.on, fn |-> trx.fn, next |-> trx.next]
      BY Zenon, ClockTypes DEF QuietInv, BasicInv
    <2> QED
      BY <2>1, <2>2
  <1> QED
    BY Zenon, <1>1 DEF QuietInv, NoFalseAlarm, Calm

\* The frame timer starts with an indication, or is restarted by it.
LEMMA SetUpRuns ==
    ASSUME ClockTypeOK, Calm, Arrivals, ind # <<>>,
           ind' = <<>>, UNCHANGED <<trx, lag>>, without' = 0, age' = 0,
           timer' = [cb |-> "fn", due |-> 1, count |-> 0], last' = Plus(trx.fn, 0 - Since)
    PROVE  Running'
  <1>1. PICK s \in Nat, l \in Nat : s = Since /\ l = lag /\ s <= l
    BY Zenon, CalmNumbers
  <1>2. Since' = s /\ Sent' = 0 /\ Wait' = 0 /\ lag' = l /\ trx'.fn = trx.fn
    BY Zenon, <1>1 DEF Since, Sent, Wait
  <1>3. timer'.cb = "fn" /\ timer'.due = 1 /\ timer'.count = 0
    OBVIOUS
  <1>4. PICK x \in Int : x = 0 - s
    OBVIOUS
  <1>5. /\ x - 0 - 1 + 1 = 0 - s /\ 0 - l <= x /\ x + 0 <= 1 + l /\ ~(1 > 1)
        /\ 0 + 1 - 0 + x + 0 <= 2 + l
    BY <1>1, <1>4
  <1>6. Ahead(x)'
    BY Zenon, <1>1, <1>2, <1>3, <1>5 DEF Ahead
  <1>7. /\ 1 >= 1 /\ 0 <= 1 + l /\ 0 + (IF 0 > 0 THEN 1 ELSE 0) <= 1 + (s + 0)
        /\ 0 + (IF 0 = 0 THEN 1 ELSE 0) <= 2 + l
    OBVIOUS
  <1> QED
    BY Zenon, <1>2, <1>3, <1>6, <1>7 DEF Running

\* The difference that an indication finds between the timer and the transceiver.
LEMMA AheadBy ==
    ASSUME ClockTypeOK, Calm, Arrivals, Running, ind # <<>>, NEW x \in Int, Ahead(x)
    PROVE  /\ compute_elapsed_fn(last, Plus(trx.fn, 0 - Since))
                = 0 - Since - x + timer.count + 1 - timer.due
           /\ 0 - Since - x + timer.count + 1 - timer.due >= 0 - MaxFnSkew
  <1>1. PICK d \in Nat, c \in Nat, f \in Int, g \in Nat, l \in Nat, s \in Nat :
            /\ d = timer.due /\ c = timer.count /\ f = trx.fn /\ g = age /\ l = lag /\ s = Since
    BY Zenon, CalmNumbers, ClockTypes
  <1>2. s <= l /\ Wait = s /\ l + 2 <= MaxFnSkew
    BY Zenon, <1>1, CalmNumbers
  <1>3. /\ last = Plus(f, x - c - 1 + d) /\ 0 - l <= x /\ x + s <= 1 + l
        /\ d > 1 => c = 0 /\ x <= 0
        /\ g + d - c + x + s <= 2 + l
    BY Zenon, <1>1, <1>2 DEF Ahead
  <1>4. d >= 1 /\ c <= 1 + l
    BY Zenon, <1>1 DEF Running
  <1>5. PICK a \in Int, b \in Int : a = x - c - 1 + d /\ b = 0 - s
    OBVIOUS
  <1>6. b - a = 0 - s - x + c + 1 - d
    BY <1>5
  <1>7. b - a >= 0 - MaxFnSkew /\ b - a <= 1 + 2 * l
    BY <1>2, <1>3, <1>4, <1>6, Rates
  <1>8. NegativeFrom - Hyperframe <= b - a /\ b - a < NegativeFrom
    BY <1>2, <1>7, Rates
  <1>9. compute_elapsed_fn(Plus(f, a), Plus(f, b)) = b - a
    BY <1>8, ElapsedIs
  <1> QED
    BY Zenon, <1>1, <1>3, <1>5, <1>6, <1>7, <1>9

\* An indication of the running clock.
LEMMA RunningIndication ==
    ASSUME ClockTypeOK, Calm, Arrivals, Running, ind # <<>>, ind' = <<>>, UNCHANGED <<trx, lag>>,
           NEW fn \in 0 .. Hyperframe - 1, fn = Plus(trx.fn, 0 - Since), trx_sched_clock(fn)
    PROVE  Running'
  <1>1. PICK x \in Int : Ahead(x)
    BY Zenon DEF Running
  <1>2. PICK d \in Nat, c \in Nat, f \in Int, g \in Nat, l \in Nat, s \in Nat :
            /\ d = timer.due /\ c = timer.count /\ f = trx.fn /\ g = age /\ l = lag /\ s = Since
    BY Zenon, CalmNumbers, ClockTypes
  <1>3. s <= l /\ Wait = s /\ l + 2 <= MaxFnSkew
    BY Zenon, <1>2, CalmNumbers
  <1>4. /\ last = Plus(f, x - c - 1 + d) /\ 0 - l <= x /\ x + s <= 1 + l
        /\ d > 1 => c = 0 /\ x <= 0
        /\ g + d - c + x + s <= 2 + l
    BY Zenon, <1>1, <1>2, <1>3 DEF Ahead
  <1>5. /\ timer.cb = "fn" /\ d >= 1 /\ c <= 1 + l
        /\ g + (IF c = 0 THEN d ELSE 0) <= 2 + l
    BY Zenon, <1>2 DEF Running
  <1>6. PICK e : e = compute_elapsed_fn(last, fn)
    OBVIOUS
  <1>7. e = 0 - s - x + c + 1 - d /\ e >= 0 - MaxFnSkew
    BY Zenon, <1>1, <1>2, <1>6, AheadBy
  <1>8. e \in Int
    BY <1>7
  <1>9. Since' = s /\ Sent' = 0 /\ Wait' = 0 /\ lag' = l /\ trx'.fn = f
    BY Zenon, <1>2 DEF Since, Sent, Wait
  <1>10. without' = 0 /\ 0 + (IF 1 > 0 THEN 1 ELSE 0) <= 1 + (s + 0)
         /\ 0 + (IF 0 > 0 THEN 1 ELSE 0) <= 1 + (s + 0)
    <2>1. without' = 0
      BY Zenon, <1>6, ClockFacts
    <2> QED
      BY <2>1
  <1>11. CASE /\ timer' = [cb |-> "fn", due |-> 1, count |-> 0]
              /\ last' = fn /\ age' = 0
    BY Zenon, <1>10, <1>11, SetUpRuns
  <1>12. CASE /\ -MaxFnSkew <= e /\ e < 0 /\ last' = last /\ age' = age
              /\ timer.cb # "none" => timer' = [cb |-> timer.cb, due |-> 1 - e, count |-> 0]
    <2>1. PICK k \in Nat : k = 1 - e
      BY <1>8, <1>12
    <2>2. timer'.cb = "fn" /\ timer'.due = k /\ timer'.count = 0
      BY <1>5, <1>12, <2>1
    <2>3. PICK y \in Int : y = 0 - s
      OBVIOUS
    <2>4. /\ y - 0 - 1 + k = x - c - 1 + d /\ 0 - l <= y /\ y + 0 <= 1 + l /\ y <= 0
          /\ g + k - 0 + y + 0 <= 2 + l
          /\ k >= 1 /\ 0 <= 1 + l /\ g + (IF 0 = 0 THEN k ELSE 0) <= 2 + l
      BY <1>3, <1>4, <1>5, <1>7, <1>12, <2>1, <2>3
    <2>5. Ahead(y)'
      BY Zenon, <1>2, <1>4, <1>9, <1>12, <2>2, <2>4 DEF Ahead
    <2> QED
      BY Zenon, <1>2, <1>9, <1>10, <1>12, <2>2, <2>4, <2>5 DEF Running
  <1>13. CASE /\ 0 <= e /\ e <= MaxFnSkew /\ last' = fn /\ timer' = timer
              /\ age' = IF fn # last THEN 0 ELSE age
    <2>1. PICK y \in Int : y = x + e
      BY <1>8
    <2>2. PICK h \in Nat : h = age' /\ h <= g /\ (h = 0 \/ fn = last)
      BY <1>2, <1>13
    <2>3. fn = last => e = 0
      <3> SUFFICES ASSUME fn = last PROVE e = 0
        OBVIOUS
      <3>1. PICK z \in Int : z = 0
        OBVIOUS
      <3>2. last \in Int /\ Plus(last, z) = last
        BY <3>1, ClockTypes, PlusPlus
      <3>3. compute_elapsed_fn(Plus(last, z), Plus(last, z)) = z - z
        <4>1. NegativeFrom - Hyperframe <= z - z /\ z - z < NegativeFrom
          BY <3>1, Rates
        <4> QED
          BY <3>2, <4>1, ElapsedIs
      <3> QED
        BY <1>6, <3>1, <3>2, <3>3
    <2>4. /\ y - c - 1 + d = 0 - s /\ 0 - l <= y /\ y + 0 <= 1 + l
          /\ d > 1 => c = 0 /\ y <= 0
          /\ h + d - c + y + 0 <= 2 + l
          /\ h + (IF c = 0 THEN d ELSE 0) <= 2 + l
          /\ 0 + (IF c > 0 THEN 1 ELSE 0) <= 1 + (s + 0)
      <3>1. e >= 0 /\ e = 0 - s - x + c + 1 - d /\ (h = 0 \/ e = 0) /\ h <= g
        BY <1>7, <1>8, <1>13, <2>2, <2>3
      <3>2. /\ y - c - 1 + d = 0 - s /\ 0 - l <= y /\ y + 0 <= 1 + l
            /\ h + (IF c = 0 THEN d ELSE 0) <= 2 + l
        BY <1>3, <1>4, <1>5, <1>8, <2>1, <3>1
      <3>3. h + d - c + y + 0 <= 2 + l
        BY <1>3, <1>4, <1>5, <1>8, <2>1, <3>1
      <3>4. d > 1 => c = 0 /\ y <= 0
        BY <1>4, <1>8, <2>1, <3>1
      <3> QED
        BY <3>2, <3>3, <3>4
    <2>5. last' = Plus(f, 0 - s)
      BY Zenon, <1>2, <1>13
    <2>6. Ahead(y)'
      BY Zenon, <1>2, <1>9, <1>13, <2>2, <2>4, <2>5 DEF Ahead
    <2> QED
      BY Zenon, <1>2, <1>5, <1>9, <1>10, <1>13, <2>2, <2>4, <2>6 DEF Running
  <1> QED
    BY Zenon, <1>6, <1>11, <1>12, <1>13, ClockFacts

\* An indication while the first one is waited for.
LEMMA StartingIndication ==
    ASSUME ClockTypeOK, Calm, Arrivals, Starting, ind # <<>>, ind' = <<>>, UNCHANGED <<trx, lag>>,
           NEW fn \in 0 .. Hyperframe - 1, fn = Plus(trx.fn, 0 - Since), trx_sched_clock(fn),
           faults' = {}
    PROVE  Starting' \/ Running'
  <1>1. PICK d \in Nat, f \in Int, s \in Nat, p \in Nat, i \in Nat :
            d = timer.due /\ f = trx.fn /\ s = Since /\ p = StartFrames /\ i = IndPeriod
    BY Zenon, CalmNumbers, ClockTypes, Rates
  <1>2. Sent = i
    BY Zenon, <1>1, CalmNumbers
  <1>3. /\ timer.cb = "start" /\ timer.count = 0 /\ d >= 1
        /\ \/ last = 0 /\ d >= p - (s + i)
           \/ last = Plus(f, 0 - (s + i)) /\ d >= p - i - (s + i)
    BY Zenon, <1>1, <1>2 DEF Starting
  <1>4. PICK e : e = compute_elapsed_fn(last, fn)
    OBVIOUS
  <1>5. e \in Int /\ without' = 0
    BY Zenon, <1>4, ClockFacts
  <1>6. Since' = s /\ Sent' = 0 /\ lag' = lag /\ trx'.fn = f
    BY Zenon, <1>1 DEF Since, Sent
  <1>7. ~(fn >= Hyperframe - MaxFnSkew)
    <2>1. fn >= Hyperframe - MaxFnSkew => faults' = faults \cup {"wrap"}
      BY Zenon, <1>3, <1>4, ClockFacts
    <2> QED
      BY Zenon, <2>1
  <1>8. last = Plus(f, 0 - (s + i)) => e = i
    <2> SUFFICES ASSUME last = Plus(f, 0 - (s + i)) PROVE e = i
      OBVIOUS
    <2>1. PICK a \in Int, b \in Int : a = 0 - (s + i) /\ b = 0 - s
      OBVIOUS
    <2>2. b - a = i
      BY <2>1
    <2>3. NegativeFrom - Hyperframe <= b - a /\ b - a < NegativeFrom
      BY <1>1, <2>2, Rates
    <2>4. compute_elapsed_fn(Plus(f, a), Plus(f, b)) = b - a
      BY <2>3, ElapsedIs
    <2> QED
      BY Zenon, <1>1, <1>4, <2>1, <2>2, <2>4
  <1>9. CASE /\ timer' = [cb |-> "fn", due |-> 1, count |-> 0]
             /\ last' = fn /\ age' = 0
    BY Zenon, <1>5, <1>9, SetUpRuns
  <1>10. CASE -MaxFnSkew <= e /\ e < 0
    <2>1. last = 0
      BY <1>1, <1>3, <1>8, <1>10
    <2>2. e = IF fn >= NegativeFrom THEN fn - Hyperframe ELSE fn
      <3>1. PICK z \in Int : z = -last
        BY ClockTypes
      <3>2. z = 0
        <4>1. last \in Int
          BY ClockTypes
        <4>2. z + last = 0
          BY <3>1, <4>1
        <4> QED
          BY <2>1, <4>2
      <3>3. Plus(fn, -last) = fn
        <4>1. fn \in Int
          BY Hyper
        <4>2. Plus(fn, z) = fn
          BY <3>2, <4>1, PlusPlus
        <4> QED
          BY Zenon, <3>1, <4>2
      <3> QED
        BY Zenon, <1>4, <3>3 DEF compute_elapsed_fn
    <2> QED
      BY <1>7, <1>10, <2>2, Hyper, ClockNumbers
  <1>11. CASE /\ 0 <= e /\ e <= MaxFnSkew /\ last' = fn /\ timer' = timer
    <2>1. last # Plus(f, 0 - (s + i))
      BY <1>1, <1>5, <1>8, <1>11, Rates
    <2>2. d >= p - (s + i)
      BY Zenon, <1>3, <2>1
    <2>3. d >= p - i - (s + 0) /\ s + 0 = s
      BY <2>2
    <2> QED
      BY Zenon, <1>1, <1>3, <1>6, <1>11, <2>3 DEF Starting
  <1> QED
    BY Zenon, <1>4, <1>9, <1>10, <1>11, ClockFacts

LEMMA QuietIndication ==
    ASSUME QuietInv, BasicInv', trx_clk_read_cb
    PROVE  QuietInv'
  <1>1. ClockTypeOK /\ BasicInv
    BY DEF QuietInv, BasicInv
  <1>2. /\ ind # <<>> /\ ind' = Tail(ind) /\ Head(ind) \in 0 .. Hyperframe - 1 /\ trx.on
        /\ UNCHANGED <<trx, powered, alarm, lag, nfaults>>
        /\ ~powered => UNCHANGED <<timer, last, age, without, faults, synced>>
        /\ powered => trx_sched_clock(Head(ind))
    BY Zenon, <1>1, IndicationFacts
  <1>3. faults \subseteq faults'
    <2>1. CASE powered
      <3>1. PICK fn \in 0 .. Hyperframe - 1 : fn = Head(ind) /\ trx_sched_clock(fn)
        BY Zenon, <1>2, <2>1
      <3>2. PICK e : e = compute_elapsed_fn(last, fn)
        OBVIOUS
      <3> QED
        BY Zenon, <1>1, <3>1, <3>2, ClockFacts
    <2>2. CASE ~powered
      BY Zenon, <1>2, <2>2
    <2> QED
      BY <2>1, <2>2
  <1>4. NoFalseAlarm'
    BY Zenon, <1>2, <1>3 DEF QuietInv, NoFalseAlarm
  <1>5. Calm' => Arrivals' /\ (powered' => Starting' \/ Running')
    <2> SUFFICES ASSUME Calm' PROVE Arrivals' /\ (powered' => Starting' \/ Running')
      OBVIOUS
    <2>1. faults' = {}
      BY Zenon DEF Calm
    <2>2. Calm
      BY Zenon, <1>2, <1>3, <2>1 DEF Calm
    <2>3. Arrivals /\ (powered => Starting \/ Running)
      BY Zenon, <2>2 DEF QuietInv
    <2>4. PICK g : g = Plus(trx.fn, 0 - Since) /\ ind = <<g>>
      BY Zenon, <1>2, <2>3 DEF Arrivals
    <2>5. ind' = <<>> /\ Head(ind) = g
      BY <1>2, <2>4
    <2>6. Arrivals'
      BY Zenon, <2>5 DEF Arrivals
    <2>7. ASSUME powered PROVE Starting' \/ Running'
      <3>1. PICK fn \in 0 .. Hyperframe - 1 :
                fn = Plus(trx.fn, 0 - Since) /\ trx_sched_clock(fn)
        BY Zenon, <1>2, <2>4, <2>5, <2>7
      <3>2. UNCHANGED <<trx, lag>>
        BY Zenon, <1>2
      <3>3. CASE Starting
        BY Zenon, <1>1, <1>2, <2>1, <2>2, <2>3, <2>5, <3>1, <3>2, <3>3, StartingIndication
      <3>4. CASE Running
        BY Zenon, <1>1, <1>2, <2>1, <2>2, <2>3, <2>5, <3>1, <3>2, <3>4, RunningIndication
      <3> QED
        BY Zenon, <2>3, <2>7, <3>3, <3>4
    <2> QED
      BY Zenon, <1>2, <2>6, <2>7
  <1> QED
    BY Zenon, <1>4, <1>5 DEF QuietInv

LEMMA QuietInit == ClockInit => QuietInv
  <1> SUFFICES ASSUME ClockInit PROVE QuietInv
    OBVIOUS
  <1>1. ~Calm
    BY DEF ClockInit, Calm
  <1> QED
    BY Zenon, <1>1, BasicInit DEF QuietInv, NoFalseAlarm, ClockInit

LEMMA QuietNext == QuietInv /\ [ClockNext]_clkvars => QuietInv'
  <1> SUFFICES ASSUME QuietInv, [ClockNext]_clkvars PROVE QuietInv'
    OBVIOUS
  <1>1. BasicInv'
    BY Zenon, BasicNext DEF QuietInv
  <1>2. CASE UNCHANGED clkvars
    <2>1. Since' = Since /\ Sent' = Sent /\ Wait' = Wait
      BY Zenon, <1>2 DEF clkvars, Since, Sent, Wait
    <2>2. /\ Calm' = Calm /\ Arrivals' = Arrivals /\ Starting' = Starting
          /\ NoFalseAlarm' = NoFalseAlarm
      BY Zenon, <1>2, <2>1 DEF clkvars, Calm, Arrivals, Starting, NoFalseAlarm
    <2>3. Running => Running'
      BY Zenon, <1>2, <2>1 DEF clkvars, Running, Ahead
    <2>4. powered' = powered
      BY Zenon, <1>2 DEF clkvars
    <2> QED
      BY Zenon, <1>1, <2>2, <2>3, <2>4 DEF QuietInv
  <1>3. CASE \E sends \in BOOLEAN : Frame(sends)
    BY Zenon, <1>1, <1>3, QuietFrame
  <1> QED
    BY Zenon, <1>1, <1>2, <1>3, QuietPowerOn, QuietTrxFault, QuietStarted, QuietStopped,
       QuietNoclockind, QuietTimer, QuietIndication DEF ClockNext, ClockHandlers

\* A transceiver that keeps indicating its clock never has the BTS shut down, for all
\* rates of RatesAssumption and all stalls of less than MaxFnSkew - 1 frames in all.
THEOREM NoFalseAlarmHolds == ClockSpec => []NoFalseAlarm
  <1>1. QuietInv => NoFalseAlarm
    BY DEF QuietInv
  <1> QED
    BY <1>1, QuietInit, QuietNext, PTL DEF ClockSpec

-----------------------------------------------------------------------------
(***************************************************************************)
(* The downlink.  The frame of a block is compared modulo the hyperframe,  *)
(* so what the queue holds is described by how many frames ago each block  *)
(* was asked for (Aged); blocks given at once are in that order, later     *)
(* answers are behind younger ones (InOrder).                              *)
(***************************************************************************)
\* The state of a channel.
Lch == [active : BOOLEAN, gen : Nat, mask : BOOLEAN, burst : Blocks]

\* The block p was asked for in the k-th frame before f.
Aged(p, f, k) == p.fn = DlFn(f + RtsAdvance - k)

\* A block of era e was asked for in one of the frames a .. b before f.
Recent(p, e, f, a, b) == p.era = e => \E k \in a .. b : Aged(p, f, k)

\* Of two blocks of era e in the queue the first is the older one, if the second was
\* given at once.
InOrder(x, y, e, f, a, b) ==
    x.era = e /\ y.era = e /\ y.prompt
        => \E k, l \in a .. b : l <= k /\ Aged(x, f, k) /\ Aged(y, f, l)

\* What is said of each block that was asked for.
Sound(p, e, f, a, b) == p.era <= e /\ p.chan = ChanOf(p.fn) /\ Recent(p, e, f, a, b)

\* The queue q and the owed blocks o, with the frames counted from f.
Waiting(q, o, e, f, a, b) ==
    /\ \A p \in o : Sound(p, e, f, a, b) /\ ~p.prompt
    /\ \A i \in DOMAIN q : Sound(q[i], e, f, a, b)
    /\ \A i, j \in DOMAIN q : i < j => InOrder(q[i], q[j], e, f, a, b)

\* On the first timeslot, what was given at once for a channel is of its present activation.
Mine(q, ls, t) ==
    t = 0 => \A i \in DOMAIN q :
                q[i].prompt => ls[q[i].chan].active /\ q[i].gen = ls[q[i].chan].gen

\* The block b may be sent in frame f by a channel in state s.
InPlace(b, s, e, f, t) ==
    /\ b.era <= e
    /\ t = 0 /\ b.prompt => b.gen = s.gen
    /\ b.era = e => DlFn(b.fn + DlBid(f)) = f

\* The block that channel c in state s is in the middle of.
Sending(s, c, e, f, t) ==
    s.active /\ s.mask =>
        /\ s.burst.era <= e
        /\ t = 0 /\ s.burst.prompt => s.burst.gen = s.gen
        /\ c = ChanOf(f) /\ DlBid(f) > 0 => InPlace(s.burst, s, e, f, t)

DlIInv ==
    /\ DownlinkInv
    /\ Waiting(dl_prims, owed, era, dlfn, 1, nframes)
    /\ Mine(dl_prims, lchs, tn)
    /\ \A c \in Chans : Sending(lchs[c], c, era, dlfn, tn)
-----------------------------------------------------------------------------
\* The order of the natural numbers is well-founded.
LEMMA LessWellFounded == IsWellFoundedOn({ss \in Nat \X Nat : ss[1] < ss[2]}, Nat)
  BY NatLessThanWellFounded DEF OpToRel

\* Induction for a set of numbers.
LEMMA SetInduction ==
    ASSUME NEW S, 0 \in S, \A j \in S : j + 1 \in S
    PROVE  Nat \subseteq S
<1> DEFINE Rest == Nat \ S
<1>1. SUFFICES ASSUME Rest # {} PROVE FALSE
  OBVIOUS
<1>2. PICK x \in Rest : \A y \in Rest : ~ (<<y, x>> \in {ss \in Nat \X Nat : ss[1] < ss[2]})
  BY <1>1, LessWellFounded, WFMin, Zenon
<1>3. x \in Nat /\ x # 0 /\ x - 1 \in Nat
  OBVIOUS
<1>4. x - 1 \notin Rest
  <2>1. <<x - 1, x>> \in {ss \in Nat \X Nat : ss[1] < ss[2]}
    BY <1>3
  <2> QED
    BY <1>2, <2>1, Zenon
<1>5. x - 1 \in S /\ (x - 1) + 1 = x
  BY <1>3, <1>4
<1>6. x \in S
  BY <1>5
<1> QED
  BY <1>6

-----------------------------------------------------------------------------
(* Frame numbers of the downlink.                                          *)

\* What the constants of the downlink are.
LEMMA DlHyper ==
    /\ DlHyperframe \in Nat \ {0} /\ DlHyperframe % 8 = 0
    /\ RtsAdvance \in Nat /\ MaxAhead \in Nat /\ MaxDlFrames \in Nat /\ MaxDlEvents \in Nat
    /\ RtsAdvance <= MaxAhead /\ MaxDlFrames + MaxAhead < DlHyperframe
  BY SchedDlAssumption, ShortRun

\* DlFn() takes off whole hyperframes.
LEMMA DlFnSplit ==
    ASSUME NEW x \in Int
    PROVE  \E d \in Int : x = DlHyperframe * d + DlFn(x) /\ DlFn(x) \in 0 .. DlHyperframe - 1
<1>0. x + DlHyperframe \in Int
  BY DlHyper
<1>1. PICK q \in Int : \E r \in 0 .. DlHyperframe - 1 :
          x + DlHyperframe = DlHyperframe * q + r /\ r = (x + DlHyperframe) % DlHyperframe
  BY Zenon, <1>0, Division, DlHyper
<1>2. x + DlHyperframe = DlHyperframe * q + DlFn(x) /\ DlFn(x) \in 0 .. DlHyperframe - 1
  BY Zenon, <1>1 DEF DlFn
<1>3. x = DlHyperframe * (q - 1) + DlFn(x) /\ q - 1 \in Int
  BY <1>2, DlHyper
<1> QED
  BY <1>2, <1>3

\* It is the only number in range that differs by whole hyperframes.
LEMMA DlFnIs ==
    ASSUME NEW x \in Int, NEW d \in Int, NEW r \in 0 .. DlHyperframe - 1,
           x = DlHyperframe * d + r
    PROVE  DlFn(x) = r
<1>1. x + DlHyperframe = DlHyperframe * (d + 1) + r /\ d + 1 \in Int
  BY DlHyper
<1>2. (DlHyperframe * (d + 1) + r) % DlHyperframe = r
  BY Zenon, <1>1, DlHyper, Remainder
<1> QED
  BY Zenon, <1>1, <1>2 DEF DlFn

\* Adding in two steps is adding at once.
LEMMA DlFnAdd ==
    ASSUME NEW x \in Int, NEW y \in Int
    PROVE  DlFn(DlFn(x) + y) = DlFn(x + y)
<1>1. PICK d \in Int : x = DlHyperframe * d + DlFn(x) /\ DlFn(x) \in 0 .. DlHyperframe - 1
  BY DlFnSplit
<1>2. DlFn(x) + y \in Int
  BY <1>1, DlHyper
<1>3. PICK e \in Int : /\ DlFn(x) + y = DlHyperframe * e + DlFn(DlFn(x) + y)
                       /\ DlFn(DlFn(x) + y) \in 0 .. DlHyperframe - 1
  BY Zenon, <1>2, DlFnSplit
<1> DEFINE r == DlFn(DlFn(x) + y)
<1>4. r \in 0 .. DlHyperframe - 1 /\ DlFn(x) + y = DlHyperframe * e + r
  BY <1>3
<1> HIDE DEF r
<1>5. x + y = DlHyperframe * (d + e) + r /\ d + e \in Int /\ x + y \in Int
  BY <1>1, <1>4, DlHyper
<1>6. DlFn(x + y) = r
  BY Zenon, <1>4, <1>5, DlFnIs
<1> QED
  BY Zenon, <1>6 DEF r

\* Numbers less than a hyperframe apart are told apart.
LEMMA DlFnNear ==
    ASSUME NEW x \in Int, NEW y \in Int, DlFn(x) = DlFn(y),
           x - y < DlHyperframe, y - x < DlHyperframe
    PROVE  x = y
<1>1. PICK d \in Int : x = DlHyperframe * d + DlFn(x) /\ DlFn(x) \in 0 .. DlHyperframe - 1
  BY DlFnSplit
<1>2. PICK e \in Int : y = DlHyperframe * e + DlFn(y) /\ DlFn(y) \in 0 .. DlHyperframe - 1
  BY DlFnSplit
<1>3. x - y = DlHyperframe * (d - e)
  BY <1>1, <1>2, DlHyper
<1>4. d - e < 1 /\ e - d < 1
  <2>1. d - e >= 1 => DlHyperframe * (d - e) >= DlHyperframe
    BY DlHyper
  <2>2. e - d >= 1 => DlHyperframe * (e - d) >= DlHyperframe
    BY DlHyper
  <2>3. y - x = DlHyperframe * (e - d)
    BY <1>1, <1>2, DlHyper
  <2> QED
    BY <1>3, <2>1, <2>2, <2>3, DlHyper
<1> QED
  BY <1>1, <1>2, <1>4

\* The next frame.
LEMMA DlFnNext ==
    ASSUME NEW f \in 0 .. DlHyperframe - 1
    PROVE  /\ DlFn(f) = f
           /\ DlFn(f + 1) = IF f + 1 = DlHyperframe THEN 0 ELSE f + 1
<1>1. DlFn(f) = f
  <2>1. f \in Int /\ 0 \in Int /\ f = DlHyperframe * 0 + f
    BY DlHyper
  <2> QED
    BY Zenon, <2>1, DlFnIs
<1>2. CASE f + 1 = DlHyperframe
  <2>1. f + 1 \in Int /\ 1 \in Int /\ 0 \in 0 .. DlHyperframe - 1 /\ f + 1 = DlHyperframe * 1 + 0
    BY <1>2, DlHyper
  <2>2. DlFn(f + 1) = 0
    BY Zenon, <2>1, DlFnIs
  <2> QED
    BY <1>1, <1>2, <2>2
<1>3. CASE f + 1 # DlHyperframe
  <2>1. /\ f + 1 \in Int /\ 0 \in Int /\ f + 1 \in 0 .. DlHyperframe - 1
        /\ f + 1 = DlHyperframe * 0 + (f + 1)
    BY <1>3, DlHyper
  <2>2. DlFn(f + 1) = f + 1
    BY Zenon, <2>1, DlFnIs
  <2> QED
    BY <1>1, <1>3, <2>2
<1> QED
  BY <1>2, <1>3

\* Within a block the next frame is of the same channel, one burst on.
LEMMA NextBurst ==
    ASSUME NEW f \in 0 .. DlHyperframe - 1, DlBid(DlFn(f + 1)) > 0
    PROVE  /\ DlFn(f + 1) = f + 1 /\ ChanOf(DlFn(f + 1)) = ChanOf(f)
           /\ DlBid(DlFn(f + 1)) = DlBid(f) + 1 /\ DlBid(f) \in 0 .. 2
<1>1. f + 1 # DlHyperframe /\ DlFn(f + 1) = f + 1
  BY DlFnNext, DlHyper DEF DlBid
<1>2. (f + 1) % 4 > 0
  BY <1>1 DEF DlBid
<1> QED
  BY <1>1, <1>2, DlHyper DEF DlBid, ChanOf

\* What was asked for before a block of this frame is of this frame or too late.
LEMMA OlderIsLate ==
    ASSUME NEW f \in 0 .. DlHyperframe - 1, NEW k \in 0 .. MaxDlFrames, NEW l \in 0 .. MaxDlFrames,
           NEW x, NEW y, l <= k, Aged(x, f, k), Aged(y, f, l), y.fn = f
    PROVE  DlFn(x.fn - f) = 0 \/ DlFn(x.fn - f) > MaxAhead
<1>0. /\ f \in Int /\ f + RtsAdvance - l \in Int /\ f + RtsAdvance - k \in Int /\ -f \in Int
      /\ l \in Nat /\ k \in Nat /\ k <= MaxDlFrames /\ l <= MaxDlFrames
  BY DlHyper
<1>1. DlFn(f + RtsAdvance - l) = DlFn(f)
  BY DlFnNext DEF Aged
<1>2. l = RtsAdvance
  <2>1. f + RtsAdvance - l - f < DlHyperframe /\ f - (f + RtsAdvance - l) < DlHyperframe
    BY <1>0, DlHyper
  <2>2. f + RtsAdvance - l = f
    <3>1. PICK z \in Int : z = f + RtsAdvance - l
      BY <1>0
    <3>2. z - f < DlHyperframe /\ f - z < DlHyperframe /\ DlFn(z) = DlFn(f)
      <4>1. DlFn(z) = DlFn(f)
        BY Zenon, <1>1, <3>1
      <4>2. z - f < DlHyperframe /\ f - z < DlHyperframe
        BY <1>0, <2>1, <3>1, DlHyper
      <4> QED
        BY Zenon, <4>1, <4>2
    <3>3. z = f
      BY Zenon, <1>0, <3>2, DlFnNear
    <3> QED
      BY <3>1, <3>3
  <2> QED
    BY <2>2, <1>0, DlHyper
<1>3. DlFn(x.fn - f) = DlFn(RtsAdvance - k)
  <2>1. x.fn = DlFn(f + RtsAdvance - k)
    BY DEF Aged
  <2>2. DlFn(DlFn(f + RtsAdvance - k) + (-f)) = DlFn((f + RtsAdvance - k) + (-f))
    BY Zenon, <1>0, DlFnAdd
  <2>3. PICK z \in Int : z = DlFn(f + RtsAdvance - k)
    BY <1>0, DlFnSplit, DlHyper
  <2>4. z + (-f) = z - f /\ (f + RtsAdvance - k) + (-f) = RtsAdvance - k
    BY <1>0, DlHyper
  <2> QED
    BY Zenon, <2>1, <2>2, <2>3, <2>4
<1>4. CASE k = RtsAdvance
  <2>1. RtsAdvance - k = 0 /\ 0 \in 0 .. DlHyperframe - 1
    BY <1>4, DlHyper
  <2>2. PICK o \in 0 .. DlHyperframe - 1 : o = 0
    BY <2>1
  <2> QED
    BY <1>3, <2>1, <2>2, DlFnNext
<1>5. CASE k # RtsAdvance
  <2> DEFINE r == DlHyperframe + RtsAdvance - k
  <2>1. /\ r \in 0 .. DlHyperframe - 1 /\ -1 \in Int /\ RtsAdvance - k \in Int
        /\ RtsAdvance - k = DlHyperframe * (-1) + r /\ r > MaxAhead
    BY <1>0, <1>2, <1>5, DlHyper
  <2> HIDE DEF r
  <2>2. DlFn(RtsAdvance - k) = r
    BY Zenon, <2>1, DlFnIs
  <2> QED
    BY <1>3, <2>1, <2>2
<1> QED
  BY <1>4, <1>5

-----------------------------------------------------------------------------
(* The queue.                                                              *)

\* The blocks of r are blocks of q, in their order.
Kept(r, q) ==
    /\ r \in Seq(Blocks)
    /\ \A i \in DOMAIN r : \E m \in DOMAIN q : r[i] = q[m]
    /\ \A i, j \in DOMAIN r : i < j => \E m, n \in DOMAIN q : m < n /\ r[i] = q[m] /\ r[j] = q[n]

\* What is said of a queue is said of what is kept of it.
LEMMA KeptWaiting ==
    ASSUME NEW q, NEW r, Kept(r, q), NEW o, NEW e, NEW f, NEW a, NEW b, Waiting(q, o, e, f, a, b)
    PROVE  Waiting(r, o, e, f, a, b)
<1>1. ASSUME NEW i \in DOMAIN r PROVE Sound(r[i], e, f, a, b)
  BY DEF Kept, Waiting
<1>2. ASSUME NEW i \in DOMAIN r, NEW j \in DOMAIN r, i < j
      PROVE  InOrder(r[i], r[j], e, f, a, b)
  BY <1>2 DEF Kept, Waiting
<1> QED
  BY <1>1, <1>2 DEF Waiting

\* The same of the activations.
LEMMA KeptMine ==
    ASSUME NEW q, NEW r, Kept(r, q), NEW ls, NEW t, Mine(q, ls, t)
    PROVE  Mine(r, ls, t)
  BY DEF Kept, Mine

\* The end of a queue.
LEMMA SuffixKept ==
    ASSUME NEW q \in Seq(Blocks), NEW n \in 1 .. Len(q) + 1
    PROVE  Kept(SubSeq(q, n, Len(q)), q)
<1> DEFINE r == SubSeq(q, n, Len(q))
<1>1. r \in Seq(Blocks) /\ DOMAIN r = 1 .. (Len(q) + 1 - n)
  OBVIOUS
<1>2. \A i \in DOMAIN r : r[i] = q[n + i - 1] /\ n + i - 1 \in DOMAIN q
  BY <1>1
<1> HIDE DEF r
<1>3. ASSUME NEW i \in DOMAIN r, NEW j \in DOMAIN r, i < j
      PROVE  \E m, o \in DOMAIN q : m < o /\ r[i] = q[m] /\ r[j] = q[o]
  <2>1. n + i - 1 < n + j - 1
    BY <1>1, <1>3
  <2> QED
    BY <1>2, <2>1
<1> QED
  BY <1>1, <1>2, <1>3 DEF Kept, r

\* A set of numbers has a least one.
LEMMA MinIsLeast ==
    ASSUME NEW I, I \subseteq Nat, I # {}
    PROVE  Min(I) \in I /\ \A y \in I : Min(I) <= y
<1>1. PICK x \in I : \A y \in I : ~ (<<y, x>> \in {ss \in Nat \X Nat : ss[1] < ss[2]})
  BY LessWellFounded, WFMin, Zenon
<1>2. ASSUME NEW y \in I PROVE x <= y
  <2>1. y < x => <<y, x>> \in {ss \in Nat \X Nat : ss[1] < ss[2]}
    OBVIOUS
  <2>2. ~ (y < x) /\ x \in Nat /\ y \in Nat
    BY <1>1, <2>1, Zenon
  <2> QED
    BY <2>2
<1> QED
  BY <1>2, Zenon DEF Min

\* A set with at most one element as a sequence.
LEMMA EmptyToSeq == SetToSeq({}) = <<>>
<1> DEFINE P(g) == g \in [1 .. Cardinality({}) -> {}] /\ IsInjective(g)
<1>1. Cardinality({}) = 0
  BY FS_EmptySet
<1>2. P(<<>>)
  BY <1>1 DEF IsInjective
<1>3. P(SetToSeq({}))
  BY <1>2, Zenon DEF SetToSeq
<1> QED
  BY <1>1, <1>3

\* A singleton is a sequence of one.
LEMMA SingleToSeq ==
    ASSUME NEW x
    PROVE  SetToSeq({x}) = <<x>>
<1> DEFINE P(g) == g \in [1 .. Cardinality({x}) -> {x}] /\ IsInjective(g)
<1>1. Cardinality({x}) = 1
  BY FS_Singleton
<1>2. P(<<x>>)
  BY <1>1 DEF IsInjective
<1>3. P(SetToSeq({x}))
  BY <1>2, Zenon DEF SetToSeq
<1> QED
  BY <1>1, <1>3

\* How far the frame of p is ahead of f.
Lead(p, f) == DlFn(p.fn - f)

\* d is what _sched_dequeue_prim() makes of q if block n is the first that is not late.
Dequeued(d, q, f, n) ==
    \/ Lead(q[n], f) > 0 /\ d = [msg |-> {}, q |-> SubSeq(q, n, Len(q))]
    \/ /\ ~ (Lead(q[n], f) > 0)
       /\ d = [msg |-> {p \in {q[n]} : p.chan = ChanOf(f)}, q |-> SubSeq(q, n + 1, Len(q))]

\* _sched_dequeue_prim() finds the first block that is not late, or none.
LEMMA Dequeue ==
    ASSUME NEW q \in Seq(Blocks), NEW f
    PROVE  LET d == _sched_dequeue_prim(q, f) IN
           \/ d = [msg |-> {}, q |-> <<>>] /\ \A i \in 1 .. Len(q) : ~ (Lead(q[i], f) <= MaxAhead)
           \/ \E n \in 1 .. Len(q) :
                 /\ Lead(q[n], f) <= MaxAhead
                 /\ \A i \in 1 .. Len(q) : i < n => ~ (Lead(q[i], f) <= MaxAhead)
                 /\ Dequeued(d, q, f, n)
<1> DEFINE I == {i \in 1 .. Len(q) : DlFn(q[i].fn - f) <= MaxAhead}
           n == IF I # {} THEN Min(I) ELSE 0
           d == _sched_dequeue_prim(q, f)
<1>1. d = CASE n = 0 -> [msg |-> {}, q |-> <<>>]
            [] n > 0 /\ Lead(q[n], f) > 0 -> [msg |-> {}, q |-> SubSeq(q, n, Len(q))]
            [] OTHER -> [msg |-> {p \in {q[n]} : p.chan = ChanOf(f)}, q |-> SubSeq(q, n + 1, Len(q))]
  BY Zenon DEF _sched_dequeue_prim, SelectInSeq, Lead
<1> HIDE DEF d
<1>2. CASE I = {}
  <2>1. n = 0 /\ \A i \in 1 .. Len(q) : ~ (Lead(q[i], f) <= MaxAhead)
    BY <1>2 DEF Lead
  <2> HIDE DEF n
  <2>2. d = [msg |-> {}, q |-> <<>>]
    BY <1>1, <2>1
  <2> QED
    BY <2>1, <2>2, Zenon DEF d
<1>3. CASE I # {}
  <2>0. I \subseteq Nat
    OBVIOUS
  <2>1. n \in I /\ \A y \in I : n <= y
    <3> HIDE DEF I
    <3>1. Min(I) \in I /\ \A y \in I : Min(I) <= y
      BY <1>3, <2>0, MinIsLeast, Zenon
    <3> QED
      BY <1>3, <3>1, Zenon
  <2>2. n \in 1 .. Len(q) /\ Lead(q[n], f) <= MaxAhead /\ n # 0 /\ n > 0
    BY <2>1 DEF Lead
  <2>3. ASSUME NEW i \in 1 .. Len(q), i < n PROVE ~ (Lead(q[i], f) <= MaxAhead)
    BY <2>1, <2>2, <2>3, SMTT(30) DEF Lead
  <2> HIDE DEF n
  <2>4. Dequeued(d, q, f, n)
    <3>1. CASE Lead(q[n], f) > 0
      BY <1>1, <2>2, <3>1, Zenon DEF Dequeued
    <3>2. CASE ~ (Lead(q[n], f) > 0)
      BY <1>1, <2>2, <3>2, Zenon DEF Dequeued
    <3> QED
      BY <3>1, <3>2
  <2> QED
    BY <2>2, <2>3, <2>4, Zenon DEF d
<1> QED
  BY <1>2, <1>3

-----------------------------------------------------------------------------
(* The filter.                                                             *)

\* g is the course of the filter over the first m blocks of q.
Filtering(g, q, c, m) ==
    g = [n \in 0 .. m |-> CASE n = 0 -> <<>>
                           [] n > 0 /\ q[n].chan = c /\ tn = 0 -> g[n - 1]
                           [] OTHER -> Append(g[n - 1], q[n])]

\* The filter has a course over any number of blocks.
LEMMA FilteringExists ==
    ASSUME NEW q, NEW c, NEW m \in Nat
    PROVE  \E g : Filtering(g, q, c, m)
<1> DEFINE S == {k \in Nat : \E g : Filtering(g, q, c, k)}
<1>1. 0 \in S
  <2> DEFINE g == [n \in 0 .. 0 |-> <<>>]
  <2>1. Filtering(g, q, c, 0)
    BY DEF Filtering
  <2> QED
    BY <2>1
<1>2. ASSUME NEW k \in S PROVE k + 1 \in S
  <2>1. PICK g : Filtering(g, q, c, k)
    OBVIOUS
  <2> DEFINE h == [n \in 0 .. (k + 1) |->
                     IF n = k + 1 THEN (IF q[n].chan = c /\ tn = 0 THEN g[k] ELSE Append(g[k], q[n]))
                     ELSE g[n]]
  <2>2. ASSUME NEW n \in 0 .. (k + 1)
        PROVE  h[n] = CASE n = 0 -> <<>>
                        [] n > 0 /\ q[n].chan = c /\ tn = 0 -> h[n - 1]
                        [] OTHER -> Append(h[n - 1], q[n])
    <3>1. CASE n = k + 1
      <4>1. n - 1 = k /\ h[n - 1] = g[k] /\ n # 0 /\ n > 0
        BY <3>1
      <4>2. h[n] = IF q[n].chan = c /\ tn = 0 THEN g[k] ELSE Append(g[k], q[n])
        BY <3>1
      <4> HIDE DEF h
      <4> QED
        BY <4>1, <4>2
    <3>2. CASE n # k + 1
      <4>1. n \in 0 .. k /\ h[n] = g[n]
        BY <3>2
      <4>2. g[n] = CASE n = 0 -> <<>>
                     [] n > 0 /\ q[n].chan = c /\ tn = 0 -> g[n - 1]
                     [] OTHER -> Append(g[n - 1], q[n])
        BY <2>1, <4>1 DEF Filtering
      <4>3. n # 0 => h[n - 1] = g[n - 1]
        BY <4>1
      <4> HIDE DEF h
      <4> QED
        BY <4>1, <4>2, <4>3
    <3> QED
      BY <3>1, <3>2
  <2>3. Filtering(h, q, c, k + 1)
    BY <2>2 DEF Filtering
  <2> QED
    BY <2>3
<1> HIDE DEF S
<1>3. Nat \subseteq S
  BY <1>1, <1>2, SetInduction
<1> QED
  BY <1>3 DEF S

\* r is what is left of the first n blocks of q.
Left(r, q, c, n) ==
    /\ r \in Seq(Blocks)
    /\ \A i \in DOMAIN r : \E m \in 1 .. n : r[i] = q[m] /\ ~ (r[i].chan = c /\ tn = 0)
    /\ \A i, j \in DOMAIN r : i < j => \E m, o \in 1 .. n : m < o /\ r[i] = q[m] /\ r[j] = q[o]

\* One more block: it is dropped, or kept at the end.
LEMMA LeftAppend ==
    ASSUME NEW q \in Seq(Blocks), NEW c, NEW n \in Nat, n + 1 <= Len(q), NEW r, Left(r, q, c, n)
    PROVE  /\ Left(r, q, c, n + 1)
           /\ ~ (q[n + 1].chan = c /\ tn = 0) => Left(Append(r, q[n + 1]), q, c, n + 1)
<1>1. Left(r, q, c, n + 1)
  <2>1. 1 .. n \subseteq 1 .. (n + 1)
    OBVIOUS
  <2> QED
    BY <2>1 DEF Left
<1>2. ASSUME ~ (q[n + 1].chan = c /\ tn = 0)
      PROVE  Left(Append(r, q[n + 1]), q, c, n + 1)
  <2> DEFINE s == Append(r, q[n + 1])
  <2>1. q[n + 1] \in Blocks /\ n + 1 \in 1 .. (n + 1) /\ r \in Seq(Blocks)
    BY DEF Left
  <2>2. /\ s \in Seq(Blocks) /\ DOMAIN s = 1 .. (Len(r) + 1) /\ s[Len(r) + 1] = q[n + 1]
        /\ DOMAIN r = 1 .. Len(r) /\ Len(r) \in Nat
        /\ \A i \in 1 .. Len(r) : s[i] = r[i]
    BY <2>1
  <2> HIDE DEF s
  <2>3. ASSUME NEW i \in DOMAIN s
        PROVE  \E m \in 1 .. (n + 1) : s[i] = q[m] /\ ~ (s[i].chan = c /\ tn = 0)
    <3>1. CASE i = Len(r) + 1
      BY <1>2, <2>1, <2>2, <3>1
    <3>2. CASE i # Len(r) + 1
      <4>1. i \in DOMAIN r /\ s[i] = r[i]
        BY <2>2, <3>2
      <4> QED
        BY <1>1, <4>1 DEF Left
    <3> QED
      BY <3>1, <3>2
  <2>4. ASSUME NEW i \in DOMAIN s, NEW j \in DOMAIN s, i < j
        PROVE  \E m, o \in 1 .. (n + 1) : m < o /\ s[i] = q[m] /\ s[j] = q[o]
    <3>0. i \in DOMAIN r /\ s[i] = r[i]
      BY <2>2, <2>4
    <3>1. CASE j = Len(r) + 1
      <4>1. PICK m \in 1 .. n : r[i] = q[m]
        BY <3>0 DEF Left
      <4>2. m < n + 1 /\ m \in 1 .. (n + 1) /\ s[i] = q[m] /\ s[j] = q[n + 1]
        BY <2>2, <3>0, <3>1, <4>1
      <4> QED
        BY <2>1, <4>2
    <3>2. CASE j # Len(r) + 1
      <4>1. j \in DOMAIN r /\ s[j] = r[j]
        BY <2>2, <3>2
      <4> QED
        BY <1>1, <2>4, <3>0, <4>1 DEF Left
    <3> QED
      BY <3>1, <3>2
  <2> QED
    BY <2>2, <2>3, <2>4 DEF Left, s
<1> QED
  BY <1>1, <1>2

\* trx_sched_queue_filter() keeps order and content, and on the first timeslot nothing of
\* the channel.
LEMMA FilterKept ==
    ASSUME NEW q \in Seq(Blocks), NEW c
    PROVE  LET r == trx_sched_queue_filter(q, c) IN
           Kept(r, q) /\ (tn = 0 => \A i \in DOMAIN r : r[i].chan # c)
<1> DEFINE g == CHOOSE g : g = [n \in 0 .. Len(q) |->
                      CASE n = 0 -> <<>>
                        [] n > 0 /\ q[n].chan = c /\ tn = 0 -> g[n - 1]
                        [] OTHER -> Append(g[n - 1], q[n])]
<1>0. Len(q) \in Nat
  OBVIOUS
<1>1. Filtering(g, q, c, Len(q))
  <2>1. \E h : Filtering(h, q, c, Len(q))
    BY <1>0, FilteringExists
  <2> QED
    BY <2>1, Zenon DEF Filtering
<1>2. trx_sched_queue_filter(q, c) = g[Len(q)]
  BY DEF trx_sched_queue_filter
<1> HIDE DEF g
<1> DEFINE S == {n \in Nat : n <= Len(q) => Left(g[n], q, c, n)}
<1>3. 0 \in S
  <2>1. g[0] = <<>>
    BY <1>0, <1>1 DEF Filtering
  <2>2. PICK r : r = <<>>
    OBVIOUS
  <2>3. r \in Seq(Blocks) /\ DOMAIN r = {}
    BY <2>2
  <2>4. Left(r, q, c, 0)
    BY <2>3 DEF Left
  <2> QED
    BY <2>1, <2>2, <2>4
<1>4. ASSUME NEW n \in S PROVE n + 1 \in S
  <2>1. SUFFICES ASSUME n + 1 <= Len(q) PROVE Left(g[n + 1], q, c, n + 1)
    OBVIOUS
  <2>2. /\ Left(g[n], q, c, n) /\ n \in Nat /\ n + 1 \in 0 .. Len(q)
        /\ n + 1 # 0 /\ n + 1 > 0 /\ (n + 1) - 1 = n
    BY <2>1
  <2>3. g[n + 1] = IF q[n + 1].chan = c /\ tn = 0 THEN g[n] ELSE Append(g[n], q[n + 1])
    BY <2>2, <1>1 DEF Filtering
  <2> QED
    BY <2>1, <2>2, <2>3, LeftAppend
<1> HIDE DEF S
<1>5. Nat \subseteq S
  BY <1>3, <1>4, SetInduction
<1>6. Left(g[Len(q)], q, c, Len(q))
  BY <1>0, <1>5 DEF S
<1> QED
  BY <1>2, <1>6 DEF Left, Kept

-----------------------------------------------------------------------------
(* Blocks that are asked for and given.                                    *)

\* A block at the end of a queue of blocks.
LEMMA Appended ==
    ASSUME NEW q \in Seq(Blocks), NEW p \in Blocks
    PROVE  /\ Append(q, p) \in Seq(Blocks) /\ DOMAIN Append(q, p) = 1 .. (Len(q) + 1)
           /\ DOMAIN q = 1 .. Len(q) /\ Len(q) \in Nat
           /\ \A i \in DOMAIN q : Append(q, p)[i] = q[i]
           /\ Append(q, p)[Len(q) + 1] = p
  OBVIOUS

\* A sound block may join the queue when it is given late or the last that was asked for.
LEMMA AppendWaiting ==
    ASSUME NEW q \in Seq(Blocks), NEW o, NEW e, NEW f, NEW a, NEW b, Waiting(q, o, e, f, a, b),
           NEW p \in Blocks, Sound(p, e, f, a, b),
           \A i \in DOMAIN q : InOrder(q[i], p, e, f, a, b)
    PROVE  Waiting(Append(q, p), o, e, f, a, b)
<1> DEFINE s == Append(q, p)
<1>1. /\ DOMAIN s = 1 .. (Len(q) + 1) /\ DOMAIN q = 1 .. Len(q) /\ Len(q) \in Nat
      /\ \A i \in DOMAIN q : s[i] = q[i]
      /\ s[Len(q) + 1] = p
  BY Appended
<1> HIDE DEF s
<1>2. ASSUME NEW i \in DOMAIN s PROVE i = Len(q) + 1 \/ (i \in DOMAIN q /\ s[i] = q[i])
  BY <1>1
<1>3. ASSUME NEW i \in DOMAIN s PROVE Sound(s[i], e, f, a, b)
  BY <1>1, <1>2 DEF Waiting
<1>4. ASSUME NEW i \in DOMAIN s, NEW j \in DOMAIN s, i < j
      PROVE  InOrder(s[i], s[j], e, f, a, b)
  <2>1. i \in DOMAIN q /\ s[i] = q[i]
    BY <1>1, <1>4
  <2>2. CASE j = Len(q) + 1
    BY <1>1, <2>1, <2>2
  <2>3. CASE j \in DOMAIN q /\ s[j] = q[j]
    BY <1>4, <2>1, <2>3 DEF Waiting
  <2> QED
    BY <1>2, <2>2, <2>3
<1> QED
  BY <1>3, <1>4 DEF Waiting, s

\* What is asked for in this frame is the youngest block of all.
LEMMA YoungestLast ==
    ASSUME NEW x, NEW p, NEW e, NEW f, NEW b \in Nat, Sound(x, e, f, 0, b), Aged(p, f, 0)
    PROVE  InOrder(x, p, e, f, 0, b)
<1>1. PICK z \in 0 .. b : z = 0
  OBVIOUS
<1>2. \A k \in 0 .. b : z <= k
  BY <1>1
<1>3. Aged(p, f, z)
  BY <1>1
<1> QED
  BY <1>2, <1>3, Zenon DEF Sound, Recent, InOrder

\* Blocks that were asked for before this frame, and perhaps in it.
LEMMA WidenWaiting ==
    ASSUME NEW q, NEW o, NEW e, NEW f, NEW b \in Nat, Waiting(q, o, e, f, 1, b)
    PROVE  Waiting(q, o, e, f, 0, b)
<1>1. 1 .. b \subseteq 0 .. b
  OBVIOUS
<1>2. ASSUME NEW p, Sound(p, e, f, 1, b) PROVE Sound(p, e, f, 0, b)
  BY <1>1, <1>2 DEF Sound, Recent
<1>3. ASSUME NEW x, NEW y, InOrder(x, y, e, f, 1, b) PROVE InOrder(x, y, e, f, 0, b)
  BY <1>1, <1>3 DEF InOrder
<1> QED
  BY <1>2, <1>3, Zenon DEF Waiting

\* A frame later every block was asked for one frame earlier.
LEMMA AgedLater ==
    ASSUME NEW f \in 0 .. DlHyperframe - 1, NEW k \in Nat, NEW p, Aged(p, f, k)
    PROVE  Aged(p, DlFn(f + 1), k + 1)
<1>1. f + 1 \in Int /\ RtsAdvance - (k + 1) \in Int /\ f \in Int
  BY DlHyper
<1>2. DlFn(DlFn(f + 1) + (RtsAdvance - (k + 1))) = DlFn((f + 1) + (RtsAdvance - (k + 1)))
  BY Zenon, <1>1, DlFnAdd
<1>3. PICK z \in Int : z = DlFn(f + 1)
  BY <1>1, DlFnSplit, DlHyper
<1>4. /\ z + (RtsAdvance - (k + 1)) = z + RtsAdvance - (k + 1)
      /\ (f + 1) + (RtsAdvance - (k + 1)) = f + RtsAdvance - k
  BY <1>1, DlHyper
<1>5. DlFn(z + RtsAdvance - (k + 1)) = DlFn(f + RtsAdvance - k)
  BY Zenon, <1>2, <1>3, <1>4
<1> QED
  BY Zenon, <1>3, <1>5 DEF Aged

\* The whole queue a frame later.
LEMMA WaitingLater ==
    ASSUME NEW q, NEW o, NEW e, NEW f \in 0 .. DlHyperframe - 1, NEW b \in Nat,
           Waiting(q, o, e, f, 0, b)
    PROVE  Waiting(q, o, e, DlFn(f + 1), 1, b + 1)
<1> DEFINE g == DlFn(f + 1)
<1>1. ASSUME NEW k \in 0 .. b
      PROVE  k + 1 \in 1 .. (b + 1) /\ \A p : Aged(p, f, k) => Aged(p, g, k + 1)
  BY AgedLater
<1> HIDE DEF g
<1>2. ASSUME NEW p, Sound(p, e, f, 0, b) PROVE Sound(p, e, g, 1, b + 1)
  BY <1>1, <1>2, Zenon DEF Sound, Recent
<1>3. ASSUME NEW x, NEW y, InOrder(x, y, e, f, 0, b) PROVE InOrder(x, y, e, g, 1, b + 1)
  <2>1. SUFFICES ASSUME x.era = e, y.era = e, y.prompt
                 PROVE  \E k, l \in 1 .. (b + 1) : l <= k /\ Aged(x, g, k) /\ Aged(y, g, l)
    BY DEF InOrder
  <2>2. PICK k \in 0 .. b, l \in 0 .. b : l <= k /\ Aged(x, f, k) /\ Aged(y, f, l)
    BY <1>3, <2>1 DEF InOrder
  <2>3. l + 1 <= k + 1
    BY <2>2
  <2> QED
    BY <1>1, <2>2, <2>3, Zenon
<1> QED
  BY <1>2, <1>3, Zenon DEF Waiting, g

\* p is what is asked for in frame f of channels in the states ls.
AskedFor(p, ls, e, f) ==
    /\ p \in Blocks /\ p.prompt /\ p.era = e /\ p.chan = ChanOf(p.fn) /\ Aged(p, f, 0)
    /\ ls[p.chan].active /\ p.gen = ls[p.chan].gen

\* What bts_sched_fn() asks for.
LEMMA RtsFacts ==
    ASSUME DlTypeOK
    PROVE  LET rts == Rts(DlFn(dlfn + RtsAdvance)) IN
           rts = {} \/ \E p : AskedFor(p, lchs, era, dlfn) /\ rts = {p}
<1> DEFINE f == DlFn(dlfn + RtsAdvance)
           p == [chan |-> ChanOf(f), gen |-> lchs[ChanOf(f)].gen, fn |-> f, era |-> era, prompt |-> TRUE]
<1>1. dlfn + RtsAdvance \in Int /\ dlfn + RtsAdvance = dlfn + RtsAdvance - 0
  BY DlHyper DEF DlTypeOK
<1>2. f \in 0 .. DlHyperframe - 1
  BY <1>1, DlFnSplit
<1>3. Aged(p, dlfn, 0)
  BY <1>1, Zenon DEF Aged
<1>4. Rts(f) = IF DlBid(f) = 0 /\ lchs[ChanOf(f)].active THEN {p} ELSE {}
  BY DEF Rts
<1> HIDE DEF f
<1>5. ChanOf(f) \in Chans
  BY DEF ChanOf, Chans
<1>6. p \in Blocks
  BY <1>2, <1>5 DEF Blocks, DlTypeOK
<1>7. p.prompt /\ p.era = era /\ p.chan = ChanOf(p.fn) /\ p.chan = ChanOf(f) /\ p.gen = lchs[p.chan].gen
  OBVIOUS
<1> HIDE DEF p
<1> QED
  BY <1>3, <1>4, <1>6, <1>7, Zenon DEF AskedFor, f

\* The queue and the owed blocks when the upper layers have been asked.
LEMMA Asking ==
    ASSUME DlIInv, NEW answer \in {"now", "later"}
    PROVE  LET rts == Rts(DlFn(dlfn + RtsAdvance))
               q == IF answer = "now" THEN dl_prims \o SetToSeq(rts) ELSE dl_prims
               o == IF answer = "later" THEN owed \cup {[p EXCEPT !.prompt = FALSE] : p \in rts} ELSE owed
           IN  /\ q \in Seq(Blocks) /\ o \subseteq Blocks
               /\ Waiting(q, o, era, dlfn, 0, nframes) /\ Mine(q, lchs, tn)
<1> DEFINE rts == Rts(DlFn(dlfn + RtsAdvance))
<1>0. /\ dl_prims \in Seq(Blocks) /\ owed \subseteq Blocks /\ nframes \in Nat /\ era \in Nat
      /\ Mine(dl_prims, lchs, tn)
  BY DEF DlIInv, DownlinkInv, DlTypeOK
<1>1. Waiting(dl_prims, owed, era, dlfn, 0, nframes)
  BY <1>0, WidenWaiting DEF DlIInv
<1>2. CASE rts = {}
  <2>1. SetToSeq(rts) = <<>> /\ {[p EXCEPT !.prompt = FALSE] : p \in rts} = {}
    BY <1>2, EmptyToSeq
  <2> HIDE DEF rts
  <2>2. dl_prims \o SetToSeq(rts) = dl_prims
    BY <1>0, <2>1
  <2>3. owed \cup {[p EXCEPT !.prompt = FALSE] : p \in rts} = owed
    BY <2>1
  <2> QED
    BY <1>0, <1>1, <2>2, <2>3, Zenon DEF rts
<1>3. ASSUME NEW p, AskedFor(p, lchs, era, dlfn), rts = {p}
      PROVE  LET q == IF answer = "now" THEN dl_prims \o SetToSeq(rts) ELSE dl_prims
                 o == IF answer = "later" THEN owed \cup {[b EXCEPT !.prompt = FALSE] : b \in rts} ELSE owed
             IN  /\ q \in Seq(Blocks) /\ o \subseteq Blocks
                 /\ Waiting(q, o, era, dlfn, 0, nframes) /\ Mine(q, lchs, tn)
  <2> HIDE DEF rts
  <2>0. /\ p \in Blocks /\ p.prompt /\ p.era = era /\ p.chan = ChanOf(p.fn) /\ Aged(p, dlfn, 0)
        /\ lchs[p.chan].active /\ p.gen = lchs[p.chan].gen
    BY <1>3 DEF AskedFor
  <2>1. Sound(p, era, dlfn, 0, nframes)
    <3>1. PICK z \in 0 .. nframes : z = 0
      BY <1>0
    <3>2. Aged(p, dlfn, z) /\ p.era <= era
      BY <1>0, <2>0, <3>1
    <3> QED
      BY <2>0, <3>2, Zenon DEF Sound, Recent
  <2>2. CASE answer = "now"
    <3>1. dl_prims \o SetToSeq(rts) = Append(dl_prims, p)
      <4>1. SetToSeq(rts) = <<p>>
        BY <1>3, SingleToSeq
      <4> QED
        BY <1>0, <2>0, <4>1
    <3>2. \A i \in DOMAIN dl_prims : InOrder(dl_prims[i], p, era, dlfn, 0, nframes)
      BY <1>0, <1>1, <2>0, YoungestLast DEF Waiting
    <3>3. Waiting(Append(dl_prims, p), owed, era, dlfn, 0, nframes)
      BY <1>0, <1>1, <2>0, <2>1, <3>2, AppendWaiting
    <3>4. Mine(Append(dl_prims, p), lchs, tn) /\ Append(dl_prims, p) \in Seq(Blocks)
      BY <1>0, <2>0, Appended DEF Mine
    <3> QED
      BY <1>0, <2>2, <3>1, <3>3, <3>4
  <2>3. CASE answer = "later"
    <3> DEFINE d == [p EXCEPT !.prompt = FALSE]
    <3>1. /\ d \in Blocks /\ ~d.prompt /\ d.fn = p.fn /\ d.chan = p.chan /\ d.era = p.era
          /\ owed \cup {[b EXCEPT !.prompt = FALSE] : b \in rts} = owed \cup {d}
      BY <1>3, <2>0 DEF Blocks
    <3> HIDE DEF d
    <3>2. Sound(d, era, dlfn, 0, nframes)
      BY <2>1, <3>1, Zenon DEF Sound, Recent, Aged
    <3>3. Waiting(dl_prims, owed \cup {d}, era, dlfn, 0, nframes)
      BY <1>1, <3>1, <3>2 DEF Waiting
    <3> QED
      BY <1>0, <2>3, <3>1, <3>3
  <2> QED
    BY <2>2, <2>3
<1> QED
  BY <1>2, <1>3, RtsFacts DEF DlIInv, DownlinkInv

-----------------------------------------------------------------------------
(* The burst.                                                              *)

\* A block that is not ahead and not late is of this frame.
LEMMA LeadZero ==
    ASSUME NEW f \in 0 .. DlHyperframe - 1, NEW p \in Blocks
    PROVE  /\ Lead(p, f) \in Nat
           /\ Lead(p, f) = 0 <=> p.fn = f
<1>0. p.fn \in 0 .. DlHyperframe - 1 /\ p.fn - f \in Int
  BY DlHyper DEF Blocks
<1>1. Lead(p, f) \in Nat
  <2>1. DlFn(p.fn - f) \in 0 .. DlHyperframe - 1
    BY Zenon, <1>0, DlFnSplit
  <2> QED
    BY <2>1, DlHyper DEF Lead
<1>2. PICK z \in 0 .. DlHyperframe - 1 : z = 0
  BY DlHyper
<1>3. DlFn(z) = z /\ z \in Int
  BY <1>2, DlFnNext
<1>4. ASSUME Lead(p, f) = 0 PROVE p.fn = f
  <2>1. DlFn(p.fn - f) = DlFn(z)
    BY <1>2, <1>3, <1>4 DEF Lead
  <2>2. (p.fn - f) - z < DlHyperframe /\ z - (p.fn - f) < DlHyperframe
    BY <1>0, <1>2, DlHyper
  <2>3. p.fn - f = z
    BY Zenon, <1>0, <1>3, <2>1, <2>2, DlFnNear
  <2> QED
    BY <1>0, <1>2, <2>3, DlHyper
<1>5. ASSUME p.fn = f PROVE Lead(p, f) = 0
  <2>1. p.fn - f = z
    BY <1>0, <1>2, <1>5, DlHyper
  <2> QED
    BY <1>2, <1>3, <2>1 DEF Lead
<1> QED
  BY <1>1, <1>4, <1>5

\* What a channel in state s does in frame f is in order, if tx is the result.
SendsWell(tx, s, q, e, f, t) ==
    /\ tx.c \in Lch /\ tx.c.active /\ tx.c.gen = s.gen
    /\ Kept(tx.q, q)
    /\ tx.sent = IF tx.c.mask THEN {tx.c.burst} ELSE {}
    /\ tx.c.mask => InPlace(tx.c.burst, tx.c, e, f, t)

\* A block that is found is of this frame and this channel.
LEMMA FoundInPlace ==
    ASSUME NEW q \in Seq(Blocks), NEW f \in 0 .. DlHyperframe - 1, NEW ls, NEW t,
           NEW o, NEW e, NEW b, Waiting(q, o, e, f, 0, b), Mine(q, ls, t),
           NEW n \in 1 .. Len(q), Lead(q[n], f) = 0, q[n].chan = ChanOf(f), DlBid(f) = 0,
           NEW s, s.gen = ls[ChanOf(f)].gen
    PROVE  InPlace(q[n], s, e, f, t)
<1>1. q[n] \in Blocks /\ n \in DOMAIN q
  OBVIOUS
<1>2. q[n].fn = f
  BY <1>1, LeadZero
<1>3. q[n].era <= e
  BY <1>1 DEF Waiting, Sound
<1>4. DlFn(q[n].fn + DlBid(f)) = f
  <2>1. q[n].fn + DlBid(f) = f
    BY <1>2, DlHyper
  <2> QED
    BY <2>1, DlFnNext
<1>5. t = 0 /\ q[n].prompt => q[n].gen = s.gen
  BY <1>1 DEF Mine
<1> QED
  BY <1>3, <1>4, <1>5 DEF InPlace

\* tx_data_fn() sends well.
LEMMA TxFacts ==
    ASSUME NEW q \in Seq(Blocks), NEW f \in 0 .. DlHyperframe - 1, NEW ls, NEW t,
           NEW o, NEW e, NEW b, Waiting(q, o, e, f, 0, b), Mine(q, ls, t),
           NEW s \in Lch, s.active, s = ls[ChanOf(f)], Sending(s, ChanOf(f), e, f, t)
    PROVE  SendsWell(tx_data_fn(s, q, f), s, q, e, f, t)
<1> DEFINE d == _sched_dequeue_prim(q, f)
           tx == tx_data_fn(s, q, f)
<1>0. Len(q) \in Nat /\ DlBid(f) \in Nat /\ s.gen \in Nat /\ s.burst \in Blocks /\ s.mask \in BOOLEAN
  BY DlHyper DEF Lch, DlBid
<1>1. CASE DlBid(f) > 0
  <2>1. tx = [c |-> s, q |-> q, sent |-> IF s.mask THEN {s.burst} ELSE {}]
    BY <1>1 DEF tx_data_fn
  <2>2. Kept(q, q)
    <3>1. 1 \in 1 .. Len(q) + 1 /\ SubSeq(q, 1, Len(q)) = q
      BY <1>0
    <3>2. PICK z \in 1 .. Len(q) + 1 : z = 1
      BY <3>1
    <3>3. Kept(SubSeq(q, z, Len(q)), q)
      BY SuffixKept
    <3> QED
      BY <3>1, <3>2, <3>3
  <2>3. s.mask => InPlace(s.burst, s, e, f, t)
    BY <1>1 DEF Sending
  <2> QED
    BY <2>1, <2>2, <2>3 DEF SendsWell
<1>2. CASE ~ (DlBid(f) > 0)
  <2>0. DlBid(f) = 0
    BY <1>0, <1>2
  <2>1. ASSUME d.msg = {}, Kept(d.q, q) PROVE SendsWell(tx, s, q, e, f, t)
    <3>1. tx = [c |-> [s EXCEPT !.mask = FALSE], q |-> d.q, sent |-> {}]
      BY <2>0, <2>1 DEF tx_data_fn
    <3> HIDE DEF d, tx
    <3>2. [s EXCEPT !.mask = FALSE] \in Lch /\ [s EXCEPT !.mask = FALSE].gen = s.gen
          /\ [s EXCEPT !.mask = FALSE].active /\ ~[s EXCEPT !.mask = FALSE].mask
      BY DEF Lch
    <3> QED
      BY <2>1, <3>1, <3>2 DEF SendsWell
  <2>2. ASSUME NEW m \in Blocks, d.msg = {m}, Kept(d.q, q), InPlace(m, s, e, f, t)
        PROVE  SendsWell(tx, s, q, e, f, t)
    <3>1. (CHOOSE x \in d.msg : TRUE) = m /\ d.msg # {}
      BY <2>2
    <3>2. tx = [c |-> [s EXCEPT !.mask = TRUE, !.burst = m], q |-> d.q, sent |-> {m}]
      BY <1>2, <3>1, Zenon DEF tx_data_fn
    <3> DEFINE c == [s EXCEPT !.mask = TRUE, !.burst = m]
    <3>3. c \in Lch /\ c.gen = s.gen /\ c.active /\ c.mask /\ c.burst = m
      BY DEF Lch
    <3> HIDE DEF d, tx, c
    <3>4. InPlace(m, c, e, f, t)
      BY <2>2, <3>3 DEF InPlace
    <3> QED
      BY <2>2, <3>2, <3>3, <3>4 DEF SendsWell, c
  <2>3. CASE d = [msg |-> {}, q |-> <<>>]
    <3>1. Kept(<<>>, q)
      BY DEF Kept
    <3> QED
      BY <2>1, <2>3, <3>1
  <2>4. ASSUME NEW n \in 1 .. Len(q), Dequeued(d, q, f, n)
        PROVE  SendsWell(tx, s, q, e, f, t)
    <3>0. q[n] \in Blocks /\ n \in 1 .. Len(q) + 1 /\ n + 1 \in 1 .. Len(q) + 1
      BY <1>0
    <3>1. CASE Lead(q[n], f) > 0
      <4>1. d.msg = {} /\ d.q = SubSeq(q, n, Len(q))
        BY <2>4, <3>1 DEF Dequeued
      <4> QED
        BY <2>1, <3>0, <4>1, SuffixKept
    <3>2. CASE ~ (Lead(q[n], f) > 0)
      <4>1. d.msg = {p \in {q[n]} : p.chan = ChanOf(f)} /\ d.q = SubSeq(q, n + 1, Len(q))
        BY <2>4, <3>2 DEF Dequeued
      <4>2. Kept(d.q, q)
        BY <3>0, <4>1, SuffixKept
      <4>3. CASE q[n].chan = ChanOf(f)
        <5>1. Lead(q[n], f) = 0
          BY <3>0, <3>2, LeadZero
        <5>2. InPlace(q[n], s, e, f, t)
          BY <2>0, <4>3, <5>1, FoundInPlace
        <5>3. d.msg = {q[n]}
          BY <4>1, <4>3
        <5> QED
          BY <2>2, <3>0, <4>2, <5>2, <5>3
      <4>4. CASE q[n].chan # ChanOf(f)
        <5>1. d.msg = {}
          BY <4>1, <4>4
        <5> QED
          BY <2>1, <4>2, <5>1
      <4> QED
        BY <4>3, <4>4
    <3> QED
      BY <3>1, <3>2
  <2> QED
    BY <2>3, <2>4, Dequeue
<1> QED
  BY <1>1, <1>2

\* A block that was given at once for this frame and channel does not go unsent, unless a
\* block of another era is in the queue.
LEMMA PromptSent ==
    ASSUME NEW q \in Seq(Blocks), NEW f \in 0 .. DlHyperframe - 1, NEW o, NEW e,
           NEW b \in 0 .. MaxDlFrames, Waiting(q, o, e, f, 0, b), DlBid(f) = 0,
           NEW i \in DOMAIN q, q[i].prompt, q[i].fn = f, \A j \in DOMAIN q : q[j].era = e,
           NEW s
    PROVE  tx_data_fn(s, q, f).sent # {}
<1> DEFINE d == _sched_dequeue_prim(q, f)
<1>0. i \in 1 .. Len(q) /\ DOMAIN q = 1 .. Len(q) /\ Len(q) \in Nat /\ q[i] \in Blocks
  OBVIOUS
<1>1. Lead(q[i], f) = 0 /\ MaxAhead \in Nat
  BY <1>0, LeadZero, DlHyper
<1>2. ASSUME NEW n \in 1 .. Len(q), Lead(q[n], f) <= MaxAhead,
             \A j \in 1 .. Len(q) : j < n => ~ (Lead(q[j], f) <= MaxAhead), Dequeued(d, q, f, n)
      PROVE  d.msg # {}
  <2>0. q[n] \in Blocks /\ Lead(q[n], f) \in Nat /\ n \in Nat /\ i \in Nat
    BY <1>0, LeadZero
  <2>1. n <= i
    BY <1>0, <1>1, <1>2, <2>0
  <2>2. Lead(q[n], f) = 0
    <3>1. CASE n = i
      BY <1>1, <3>1
    <3>2. CASE n # i
      <4>1. n < i
        BY <2>0, <2>1, <3>2
      <4>2. InOrder(q[n], q[i], e, f, 0, b)
        BY <1>0, <4>1 DEF Waiting
      <4>3. PICK k \in 0 .. b, l \in 0 .. b : l <= k /\ Aged(q[n], f, k) /\ Aged(q[i], f, l)
        BY <1>0, <4>2 DEF InOrder
      <4>4. k \in 0 .. MaxDlFrames /\ l \in 0 .. MaxDlFrames
        BY DlHyper
      <4>5. DlFn(q[n].fn - f) = 0 \/ DlFn(q[n].fn - f) > MaxAhead
        BY <4>3, <4>4, OlderIsLate
      <4> QED
        BY <1>1, <1>2, <2>0, <4>5 DEF Lead
    <3> QED
      BY <3>1, <3>2
  <2>3. q[n].fn = f /\ q[n].chan = ChanOf(q[n].fn)
    BY <2>0, <2>2, LeadZero DEF Waiting, Sound
  <2>4. d.msg = {p \in {q[n]} : p.chan = ChanOf(f)}
    BY <1>2, <2>2 DEF Dequeued
  <2> QED
    BY <2>3, <2>4
<1>3. d.msg # {}
  BY <1>0, <1>1, <1>2, Dequeue
<1>4. tx_data_fn(s, q, f).sent = {CHOOSE m \in d.msg : TRUE}
  BY <1>3 DEF tx_data_fn
<1> QED
  BY <1>4

-----------------------------------------------------------------------------
(* The steps.                                                              *)

\* What a burst in place is for the next frame.
LEMMA SendingLater ==
    ASSUME NEW f \in 0 .. DlHyperframe - 1, NEW s \in Lch, NEW e, NEW t,
           s.mask => InPlace(s.burst, s, e, f, t)
    PROVE  Sending(s, ChanOf(f), e, DlFn(f + 1), t)
<1> DEFINE g == DlFn(f + 1)
<1>1. SUFFICES ASSUME s.active, s.mask
               PROVE  /\ s.burst.era <= e
                      /\ t = 0 /\ s.burst.prompt => s.burst.gen = s.gen
                      /\ ChanOf(f) = ChanOf(g) /\ DlBid(g) > 0 => InPlace(s.burst, s, e, g, t)
  BY DEF Sending
<1>2. /\ s.burst.era <= e
      /\ t = 0 /\ s.burst.prompt => s.burst.gen = s.gen
      /\ s.burst.era = e => DlFn(s.burst.fn + DlBid(f)) = f
  BY <1>1 DEF InPlace
<1>3. ASSUME DlBid(g) > 0, s.burst.era = e PROVE DlFn(s.burst.fn + DlBid(g)) = g
  <2>1. DlBid(g) = DlBid(f) + 1 /\ DlBid(f) \in Int /\ s.burst.fn \in Int
    BY <1>3, NextBurst, DlHyper DEF Lch, Blocks
  <2>2. PICK z \in Int : z = s.burst.fn + DlBid(f)
    BY <2>1
  <2>3. PICK u \in Int : u = 1
    OBVIOUS
  <2>4. DlFn(DlFn(z) + u) = DlFn(z + u)
    BY DlFnAdd
  <2>5. DlFn(z) = f
    BY <1>2, <1>3, <2>2
  <2>6. z + u = s.burst.fn + DlBid(g)
    BY <2>1, <2>2, <2>3
  <2>7. DlFn(s.burst.fn + DlBid(g)) = DlFn(f + u)
    BY Zenon, <2>4, <2>5, <2>6
  <2> QED
    BY Zenon, <2>3, <2>7
<1> QED
  BY <1>2, <1>3 DEF InPlace

\* The other channel is not in the middle of a block in the next frame.
LEMMA OtherLater ==
    ASSUME NEW f \in 0 .. DlHyperframe - 1, NEW s, NEW e, NEW t, NEW c, c # ChanOf(f),
           Sending(s, c, e, f, t)
    PROVE  Sending(s, c, e, DlFn(f + 1), t)
<1>1. ~ (c = ChanOf(DlFn(f + 1)) /\ DlBid(DlFn(f + 1)) > 0)
  BY NextBurst
<1> QED
  BY <1>1, Zenon DEF Sending

\* The channels after a frame.
LEMMA ChannelsLater ==
    ASSUME NEW f \in 0 .. DlHyperframe - 1, NEW e, NEW t, NEW ls \in [Chans -> Lch], NEW s \in Lch,
           s.mask => InPlace(s.burst, s, e, f, t),
           \A c \in Chans : Sending(ls[c], c, e, f, t)
    PROVE  \A c \in Chans : Sending([ls EXCEPT ![ChanOf(f)] = s][c], c, e, DlFn(f + 1), t)
<1> SUFFICES ASSUME NEW c \in Chans
             PROVE  Sending([ls EXCEPT ![ChanOf(f)] = s][c], c, e, DlFn(f + 1), t)
  OBVIOUS
<1>1. CASE c = ChanOf(f)
  BY <1>1, SendingLater
<1>2. CASE c # ChanOf(f)
  BY <1>2, OtherLater
<1> QED
  BY <1>1, <1>2

\* The blocks of a queue are for channels.
LEMMA ChansOf ==
    ASSUME NEW q \in Seq(Blocks)
    PROVE  \A i \in DOMAIN q : q[i].chan \in Chans
<1>1. \A i \in DOMAIN q : q[i] \in Blocks
  OBVIOUS
<1>2. \A p \in Blocks : p.chan \in Chans
  BY DEF Blocks
<1> QED
  BY <1>1, <1>2

\* A channel that stays as active as it was, in the same activation.
LEMMA MineSame ==
    ASSUME NEW q \in Seq(Blocks), NEW t, NEW ls \in [Chans -> Lch], NEW c \in Chans, NEW s \in Lch,
           s.active = ls[c].active, s.gen = ls[c].gen, Mine(q, ls, t)
    PROVE  Mine(q, [ls EXCEPT ![c] = s], t)
<1>1. ASSUME NEW x \in Chans
      PROVE  [ls EXCEPT ![c] = s][x].active = ls[x].active /\ [ls EXCEPT ![c] = s][x].gen = ls[x].gen
  OBVIOUS
<1>2. \A i \in DOMAIN q : q[i].chan \in Chans
  BY ChansOf
<1> QED
  BY <1>1, <1>2, Zenon DEF Mine

\* A frame: a block is asked for, and a burst is sent.
LEMMA BurstStep ==
    ASSUME DlIInv, NEW answer \in {"now", "later"}, bts_sched_fn(answer)
    PROVE  DlIInv'
<1> DEFINE fn == dlfn
           c == ChanOf(fn)
           rts == Rts(DlFn(fn + RtsAdvance))
           q == IF answer = "now" THEN dl_prims \o SetToSeq(rts) ELSE dl_prims
           o == IF answer = "later"
                THEN owed \cup {[p EXCEPT !.prompt = FALSE] : p \in rts} ELSE owed
           tx == tx_data_fn(lchs[c], q, fn)
           asked == /\ \E i \in DOMAIN q : q[i].prompt /\ q[i].chan = c /\ q[i].fn = fn
                    /\ \A i \in DOMAIN q : q[i].era = era
<1>1. /\ q \in Seq(Blocks) /\ o \subseteq Blocks
      /\ Waiting(q, o, era, fn, 0, nframes) /\ Mine(q, lchs, tn)
  BY Asking
<1>2. /\ owed' = o /\ dlfn' = DlFn(fn + 1) /\ nframes' = nframes + 1
      /\ UNCHANGED <<tn, era, ndlevents>> /\ nframes < MaxDlFrames
      /\ IF lchs[c].active THEN lchs' = [lchs EXCEPT ![c] = tx.c] /\ dl_prims' = tx.q
                           ELSE UNCHANGED lchs /\ dl_prims' = q
      /\ wrong' = IF ~lchs[c].active THEN wrong ELSE wrong
            \cup (IF \E b \in tx.sent : b.prompt /\ b.gen # lchs[c].gen THEN {"foreign"} ELSE {})
            \cup (IF \E b \in tx.sent : b.era = era /\ DlFn(b.fn + DlBid(fn)) # fn THEN {"offbeat"} ELSE {})
            \cup (IF DlBid(fn) = 0 /\ asked /\ tx.sent = {} THEN {"missed"} ELSE {})
  BY DEF bts_sched_fn
<1>3. /\ DlTypeOK /\ BurstsInTheirFrames /\ NoBlockOfOthers /\ PromptIsSent
      /\ \A x \in Chans : Sending(lchs[x], x, era, dlfn, tn)
  BY DEF DlIInv, DownlinkInv
<1> HIDE DEF o, rts, q
<1>4. /\ fn \in 0 .. DlHyperframe - 1 /\ c \in Chans /\ lchs \in [Chans -> Lch] /\ lchs[c] \in Lch
      /\ nframes \in 0 .. MaxDlFrames /\ nframes \in Nat /\ nframes + 1 \in 0 .. MaxDlFrames
      /\ DlFn(fn + 1) \in 0 .. DlHyperframe - 1
  <2>1. fn \in 0 .. DlHyperframe - 1 /\ fn + 1 \in Int
    BY <1>3, DlHyper DEF DlTypeOK
  <2>2. DlFn(fn + 1) \in 0 .. DlHyperframe - 1
    BY Zenon, <2>1, DlFnSplit
  <2> QED
    BY <1>2, <1>3, <2>1, <2>2, DlHyper DEF DlTypeOK, ChanOf, Chans, Lch
<1>5. CASE ~lchs[c].active
  <2>1. lchs' = lchs /\ dl_prims' = q /\ wrong' = wrong
    BY <1>2, <1>5
  <2>2. Waiting(q, o, era, DlFn(fn + 1), 1, nframes + 1)
    BY <1>1, <1>4, WaitingLater
  <2>3. ASSUME NEW x \in Chans PROVE Sending(lchs[x], x, era, DlFn(fn + 1), tn)
    <3>1. CASE x = c
      BY <1>5, <3>1 DEF Sending
    <3>2. CASE x # c
      BY <1>3, <1>4, <3>2, OtherLater
    <3> QED
      BY <3>1, <3>2
  <2>4. Waiting(dl_prims, owed, era, dlfn, 1, nframes)' /\ Mine(dl_prims, lchs, tn)'
    BY <1>1, <1>2, <2>1, <2>2
  <2>5. \A x \in Chans : Sending(lchs[x], x, era, dlfn, tn)'
    BY <1>2, <2>1, <2>3
  <2>6. DlTypeOK'
    BY <1>1, <1>2, <1>3, <1>4, <2>1 DEF DlTypeOK
  <2>7. BurstsInTheirFrames' /\ NoBlockOfOthers' /\ PromptIsSent'
    BY <1>2, <1>3, <2>1 DEF BurstsInTheirFrames, NoBlockOfOthers, PromptIsSent
  <2> QED
    BY <2>4, <2>5, <2>6, <2>7 DEF DlIInv, DownlinkInv
<1>6. CASE lchs[c].active
  <2>1. SendsWell(tx, lchs[c], q, era, fn, tn)
    BY <1>1, <1>3, <1>4, <1>6, TxFacts
  <2>2. asked /\ DlBid(fn) = 0 => tx.sent # {}
    BY <1>1, <1>4, PromptSent
  <2> HIDE DEF tx, asked
  <2>3. /\ tx.c \in Lch /\ tx.c.active /\ tx.c.gen = lchs[c].gen /\ Kept(tx.q, q)
        /\ tx.sent = (IF tx.c.mask THEN {tx.c.burst} ELSE {})
        /\ tx.c.mask => InPlace(tx.c.burst, tx.c, era, fn, tn)
    BY <2>1 DEF SendsWell
  <2>4. /\ Waiting(tx.q, o, era, fn, 0, nframes) /\ Mine(tx.q, lchs, tn) /\ tx.q \in Seq(Blocks)
    BY <1>1, <2>3, KeptWaiting, KeptMine DEF Kept
  <2>5. Waiting(tx.q, o, era, DlFn(fn + 1), 1, nframes + 1)
    BY <1>4, <2>4, WaitingLater
  <2>6. lchs' = [lchs EXCEPT ![c] = tx.c] /\ dl_prims' = tx.q
    BY <1>2, <1>6
  <2>7. tx.c.active = lchs[c].active
    BY <1>4, <1>6, <2>3 DEF Lch
  <2>8. Mine(tx.q, [lchs EXCEPT ![c] = tx.c], tn)
    BY <1>4, <2>3, <2>4, <2>7, MineSame
  <2>9. \A x \in Chans : Sending([lchs EXCEPT ![c] = tx.c][x], x, era, DlFn(fn + 1), tn)
    BY <1>3, <1>4, <2>3, ChannelsLater
  <2>10. /\ tn = 0 => ~ \E b \in tx.sent : b.prompt /\ b.gen # lchs[c].gen
         /\ ~ \E b \in tx.sent : b.era = era /\ DlFn(b.fn + DlBid(fn)) # fn
         /\ ~ (DlBid(fn) = 0 /\ asked /\ tx.sent = {})
    BY <2>2, <2>3 DEF InPlace
  <2>11. wrong' \subseteq {"foreign", "offbeat", "missed"}
    BY <1>2, <1>3 DEF DlTypeOK
  <2>12. BurstsInTheirFrames' /\ NoBlockOfOthers' /\ PromptIsSent'
    BY <1>2, <1>3, <1>6, <2>10 DEF BurstsInTheirFrames, NoBlockOfOthers, PromptIsSent
  <2>13. DlTypeOK'
    <3>1. [lchs EXCEPT ![c] = tx.c] \in [Chans -> Lch]
      BY <1>4, <2>3
    <3> QED
      BY <1>1, <1>2, <1>3, <1>4, <2>4, <2>6, <2>11, <3>1 DEF DlTypeOK, Lch
  <2>14. Waiting(dl_prims, owed, era, dlfn, 1, nframes)' /\ Mine(dl_prims, lchs, tn)'
    BY <1>2, <2>5, <2>6, <2>8
  <2>15. \A x \in Chans : Sending(lchs[x], x, era, dlfn, tn)'
    BY <1>2, <2>6, <2>9
  <2> QED
    BY <2>12, <2>13, <2>14, <2>15 DEF DlIInv, DownlinkInv
<1> QED
  BY <1>5, <1>6

\* A late answer comes into the queue.
LEMMA AnswerStep ==
    ASSUME DlIInv, trx_sched_ph_data_req
    PROVE  DlIInv'
<1>1. PICK p \in owed : owed' = owed \ {p} /\ dl_prims' = Append(dl_prims, p)
  BY DEF trx_sched_ph_data_req
<1>2. UNCHANGED <<tn, dlfn, nframes, lchs, era, ndlevents, wrong>>
  BY DEF trx_sched_ph_data_req
<1>3. /\ DlTypeOK /\ Waiting(dl_prims, owed, era, dlfn, 1, nframes) /\ Mine(dl_prims, lchs, tn)
      /\ p \in Blocks /\ dl_prims \in Seq(Blocks)
  BY DEF DlIInv, DownlinkInv, DlTypeOK
<1>4. Sound(p, era, dlfn, 1, nframes) /\ ~p.prompt
  BY <1>3 DEF Waiting
<1>5. \A i \in DOMAIN dl_prims : InOrder(dl_prims[i], p, era, dlfn, 1, nframes)
  BY <1>4 DEF InOrder
<1>6. Waiting(Append(dl_prims, p), owed, era, dlfn, 1, nframes)
  BY <1>3, <1>4, <1>5, AppendWaiting
<1>7. Waiting(Append(dl_prims, p), owed \ {p}, era, dlfn, 1, nframes)
  BY <1>6 DEF Waiting
<1>8. Mine(Append(dl_prims, p), lchs, tn) /\ Append(dl_prims, p) \in Seq(Blocks)
  BY <1>3, <1>4, Appended DEF Mine
<1>9. Waiting(dl_prims, owed, era, dlfn, 1, nframes)' /\ Mine(dl_prims, lchs, tn)'
  BY <1>1, <1>2, <1>7, <1>8
<1>10. DlTypeOK'
  BY <1>1, <1>2, <1>3, <1>8 DEF DlTypeOK
<1> QED
  BY <1>2, <1>9, <1>10
  DEF DlIInv, DownlinkInv, BurstsInTheirFrames, NoBlockOfOthers, PromptIsSent

\* A channel is released, or activated.
LEMMA SetLchanStep ==
    ASSUME DlIInv, DlSetLchan
    PROVE  DlIInv'
<1>0. /\ DlTypeOK /\ Waiting(dl_prims, owed, era, dlfn, 1, nframes) /\ Mine(dl_prims, lchs, tn)
      /\ dl_prims \in Seq(Blocks) /\ lchs \in [Chans -> Lch]
      /\ \A x \in Chans : Sending(lchs[x], x, era, dlfn, tn)
  BY DEF DlIInv, DownlinkInv, DlTypeOK, Lch
<1>1. UNCHANGED <<tn, dlfn, nframes, owed, era, wrong>> /\ ndlevents' \in 0 .. MaxDlEvents
  BY <1>0, DlHyper, SMTT(30) DEF DlSetLchan, DlTypeOK
<1>2. PICK c \in Chans :
         IF lchs[c].active
         THEN /\ lchs' = [lchs EXCEPT ![c].active = FALSE]
              /\ dl_prims' = trx_sched_queue_filter(dl_prims, c)
         ELSE /\ lchs' = [lchs EXCEPT ![c] = [active |-> TRUE, gen |-> @.gen + 1,
                                              mask |-> FALSE, burst |-> NoBlock]]
              /\ UNCHANGED dl_prims
  BY DEF DlSetLchan
<1>3. ASSUME lchs' \in [Chans -> Lch], dl_prims' \in Seq(Blocks),
             Waiting(dl_prims', owed, era, dlfn, 1, nframes), Mine(dl_prims', lchs', tn),
             \A x \in Chans : Sending(lchs'[x], x, era, dlfn, tn)
      PROVE  DlIInv'
  <2>1. Waiting(dl_prims, owed, era, dlfn, 1, nframes)' /\ Mine(dl_prims, lchs, tn)'
    BY <1>1, <1>3
  <2>2. \A x \in Chans : Sending(lchs[x], x, era, dlfn, tn)'
    BY <1>1, <1>3
  <2>3. DlTypeOK'
    BY <1>0, <1>1, <1>3 DEF DlTypeOK, Lch
  <2> QED
    BY <1>1, <2>1, <2>2, <2>3
    DEF DlIInv, DownlinkInv, BurstsInTheirFrames, NoBlockOfOthers, PromptIsSent
<1>4. CASE lchs[c].active
  <2> DEFINE r == trx_sched_queue_filter(dl_prims, c)
  <2>1. lchs' = [lchs EXCEPT ![c].active = FALSE] /\ dl_prims' = r
    BY <1>2, <1>4
  <2>2. Kept(r, dl_prims) /\ (tn = 0 => \A i \in DOMAIN r : r[i].chan # c)
    BY <1>0, FilterKept
  <2> HIDE DEF r
  <2>3. lchs' \in [Chans -> Lch] /\ ~lchs'[c].active /\ \A x \in Chans : x # c => lchs'[x] = lchs[x]
    BY <1>0, <2>1 DEF Lch
  <2>4. Waiting(r, owed, era, dlfn, 1, nframes) /\ Mine(r, lchs, tn) /\ r \in Seq(Blocks)
    BY <1>0, <2>2, KeptWaiting, KeptMine DEF Kept
  <2>5. Mine(r, lchs', tn)
    <3>1. \A i \in DOMAIN r : r[i].chan \in Chans
      BY <2>4, ChansOf
    <3> QED
      BY <2>2, <2>3, <2>4, <3>1, Zenon DEF Mine
  <2>6. \A x \in Chans : Sending(lchs'[x], x, era, dlfn, tn)
    BY <1>0, <2>3, Zenon DEF Sending
  <2> QED
    BY <1>3, <2>1, <2>3, <2>4, <2>5, <2>6
<1>5. CASE ~lchs[c].active
  <2> DEFINE s == [active |-> TRUE, gen |-> lchs[c].gen + 1, mask |-> FALSE, burst |-> NoBlock]
  <2>1. lchs' = [lchs EXCEPT ![c] = s] /\ dl_prims' = dl_prims
    BY <1>2, <1>5
  <2>2. s \in Lch /\ ~s.mask
    BY <1>0, DlHyper DEF Lch, NoBlock, Blocks, Chans
  <2> HIDE DEF s
  <2>3. lchs' \in [Chans -> Lch] /\ lchs'[c] = s /\ \A x \in Chans : x # c => lchs'[x] = lchs[x]
    BY <1>0, <2>1, <2>2
  <2>4. Mine(dl_prims, lchs', tn)
    <3>1. \A i \in DOMAIN dl_prims : dl_prims[i].chan \in Chans
      BY <1>0, ChansOf
    <3> QED
      BY <1>0, <1>5, <2>3, <3>1, Zenon DEF Mine
  <2>5. \A x \in Chans : Sending(lchs'[x], x, era, dlfn, tn)
    BY <1>0, <2>2, <2>3, Zenon DEF Sending
  <2> QED
    BY <1>0, <1>3, <2>1, <2>3, <2>4, <2>5
<1> QED
  BY <1>4, <1>5

\* The clock is restarted: all blocks are of an earlier era then.
LEMMA ResyncStep ==
    ASSUME DlIInv, Resync
    PROVE  DlIInv'
<1>0. /\ DlTypeOK /\ Waiting(dl_prims, owed, era, dlfn, 1, nframes) /\ Mine(dl_prims, lchs, tn)
      /\ \A x \in Chans : Sending(lchs[x], x, era, dlfn, tn)
  BY DEF DlIInv, DownlinkInv
<1>1. /\ UNCHANGED <<tn, nframes, lchs, dl_prims, owed, wrong>>
      /\ era' = era + 1 /\ ndlevents' \in 0 .. MaxDlEvents
  BY <1>0, DlHyper DEF Resync, DlTypeOK
<1>2. dlfn' \in 0 .. DlHyperframe - 1
  <2>1. PICK d \in Resyncs : dlfn' = DlFn(dlfn + d)
    BY DEF Resync
  <2>2. dlfn + d \in Int
    BY <1>0, SchedDlAssumption DEF DlTypeOK
  <2> QED
    BY <2>1, <2>2, DlFnSplit
<1>3. DlTypeOK'
  BY <1>0, <1>1, <1>2 DEF DlTypeOK
<1>4. ASSUME NEW p \in Blocks, p.era <= era PROVE p.era <= era' /\ p.era # era'
  <2>1. era \in Nat /\ p.era \in Nat
    BY <1>0 DEF DlTypeOK, Blocks
  <2> QED
    BY <1>1, <1>4, <2>1
<1>5. ASSUME NEW p \in Blocks, Sound(p, era, dlfn, 1, nframes)
      PROVE  Sound(p, era', dlfn', 1, nframes) /\ p.era # era'
  BY <1>4, <1>5, Zenon DEF Sound, Recent
<1>6. Waiting(dl_prims, owed, era', dlfn', 1, nframes)
  <2>1. owed \subseteq Blocks /\ \A i \in DOMAIN dl_prims : dl_prims[i] \in Blocks
    BY <1>0 DEF DlTypeOK
  <2>2. \A p \in owed : Sound(p, era', dlfn', 1, nframes) /\ ~p.prompt
    BY <1>0, <1>5, <2>1, Zenon DEF Waiting
  <2>3. \A i \in DOMAIN dl_prims : Sound(dl_prims[i], era', dlfn', 1, nframes) /\ dl_prims[i].era # era'
    BY <1>0, <1>5, <2>1, Zenon DEF Waiting
  <2> QED
    BY <2>2, <2>3, Zenon DEF Waiting, InOrder
<1>7. ASSUME NEW x \in Chans PROVE Sending(lchs[x], x, era', dlfn', tn)
  <2>1. SUFFICES ASSUME lchs[x].active, lchs[x].mask
                 PROVE  /\ lchs[x].burst.era <= era' /\ lchs[x].burst.era # era'
                        /\ tn = 0 /\ lchs[x].burst.prompt => lchs[x].burst.gen = lchs[x].gen
    BY Zenon DEF Sending, InPlace
  <2>2. lchs[x].burst \in Blocks
    BY <1>0 DEF DlTypeOK
  <2> QED
    BY <1>0, <1>4, <2>1, <2>2, Zenon DEF Sending
<1>8. Waiting(dl_prims, owed, era, dlfn, 1, nframes)' /\ Mine(dl_prims, lchs, tn)'
  BY <1>0, <1>1, <1>6
<1>9. \A x \in Chans : Sending(lchs[x], x, era, dlfn, tn)'
  BY <1>1, <1>7
<1> QED
  BY <1>0, <1>1, <1>3, <1>8, <1>9
  DEF DlIInv, DownlinkInv, BurstsInTheirFrames, NoBlockOfOthers, PromptIsSent

\* Nothing waits initially.
LEMMA DlIInit == DlInit => DlIInv
<1> SUFFICES ASSUME DlInit PROVE DlIInv
  OBVIOUS
<1>1. NoBlock \in Blocks
  BY DlHyper DEF NoBlock, Blocks, Chans
<1>2. 8 - RtsAdvance \in 0 .. DlHyperframe - 1
  BY SchedDlAssumption, DlHyper
<1>3. DlTypeOK
  BY <1>1, <1>2, DlHyper DEF DlInit, DlTypeOK
<1>4. Waiting(dl_prims, owed, era, dlfn, 1, nframes) /\ Mine(dl_prims, lchs, tn)
  BY DEF DlInit, Waiting, Mine
<1>5. \A c \in Chans : Sending(lchs[c], c, era, dlfn, tn)
  BY DEF DlInit, Sending
<1> QED
  BY <1>3, <1>4, <1>5
  DEF DlInit, DlIInv, DownlinkInv, BurstsInTheirFrames, NoBlockOfOthers, PromptIsSent

\* Every step keeps the invariant.
LEMMA DlIStep == DlIInv /\ [DlNext]_dlvars => DlIInv'
<1> SUFFICES ASSUME DlIInv, [DlNext]_dlvars PROVE DlIInv'
  OBVIOUS
<1>1. CASE UNCHANGED dlvars
  BY <1>1
  DEF dlvars, DlIInv, DownlinkInv, DlTypeOK, BurstsInTheirFrames, NoBlockOfOthers, PromptIsSent
<1>2. CASE DlNext
  BY <1>2, BurstStep, AnswerStep, SetLchanStep, ResyncStep DEF DlNext
<1> QED
  BY <1>1, <1>2

\* The downlink, for any hyperframe, any advance of the ready-to-send indications, answers
\* given at once, late or never, releases, activations and changes of the clock: no burst is
\* sent in another frame than its own, on the first timeslot none of an earlier activation
\* that was given at once, and what the upper layers give at once is sent.
THEOREM DownlinkInvHolds == DlSpec => []DownlinkInv
<1>1. DlIInv => DownlinkInv
  BY DEF DlIInv
<1> QED
  BY DlIInit, DlIStep, <1>1, PTL DEF DlSpec
-----------------------------------------------------------------------------
(***************************************************************************)
(* The uplink.                                                             *)
(***************************************************************************)
LEMMA UlTypes ==
    /\ UlHyperframe \in Nat \ {0} /\ Period \in Nat \ {0} /\ Period >= 4
    /\ UlHyperframe % Period = 0 /\ 2 * Period <= UlHyperframe
    /\ UlStarts \subseteq 0 .. UlHyperframe - 1
    /\ MaxFrames \in Nat /\ MaxDelay \in Nat /\ MaxUlEvents \in Nat
    /\ MaxDelay <= 3 /\ MaxDelay <= Period - 3 /\ 2 * MaxFrames + 8 <= UlHyperframe
  BY SchedUlAssumption, UlShortRun

\* The bursts of a block follow one another from its first frame on.
LEMMA Grid ==
    ASSUME NEW a \in Int
    PROVE  /\ Bid(a) \in 0 .. Period - 1
           /\ FirstOf(a) \in Int /\ FirstOf(a) + Bid(a) = a /\ Bid(FirstOf(a)) = 0
           /\ \A b \in 0 .. Period - 1 :
                 Bid(FirstOf(a) + b) = b /\ FirstOf(FirstOf(a) + b) = FirstOf(a)
  <1>1. PICK q \in Int : \E r \in 0 .. Period - 1 : a = Period * q + r /\ r = a % Period
    BY Division, UlTypes
  <1>2. PICK r \in 0 .. Period - 1 : a = Period * q + r /\ r = a % Period
    BY <1>1
  <1>3. r = Bid(a)
    BY <1>2 DEF Bid
  <1>4. PICK m \in Int : m = Period * q
    BY UlTypes
  <1>5. FirstOf(a) = m /\ a = m + r
    BY <1>2, <1>3, <1>4, UlTypes DEF FirstOf
  <1>6. \A b \in 0 .. Period - 1 : Bid(m + b) = b
    BY <1>4, Remainder, UlTypes DEF Bid
  <1>7. \A b \in 0 .. Period - 1 : FirstOf(m + b) = m
    BY <1>4, <1>6, UlTypes DEF FirstOf
  <1>8. 0 \in 0 .. Period - 1 /\ m + 0 = m
    BY <1>4, UlTypes
  <1> QED
    BY <1>3, <1>4, <1>5, <1>6, <1>7, <1>8

\* The first frame of another block.
LEMMA GridZero ==
    ASSUME NEW a \in Int, NEW x \in Int, Bid(x) = 0
    PROVE  /\ x <= a => x <= FirstOf(a)
           /\ x > FirstOf(a) => x >= FirstOf(a) + Period
  <1>1. PICK q \in Int : FirstOf(a) = Period * q /\ a >= FirstOf(a) /\ a < FirstOf(a) + Period
    <2>1. PICK q \in Int : \E r \in 0 .. Period - 1 : a = Period * q + r /\ r = a % Period
      BY Division, UlTypes
    <2> QED
      BY <2>1, UlTypes DEF FirstOf, Bid
  <1>2. PICK k \in Int : x = Period * k
    <2>1. PICK k \in Int : \E r \in 0 .. Period - 1 : x = Period * k + r /\ r = x % Period
      BY Division, UlTypes
    <2>2. PICK m \in Int : m = Period * k
      BY UlTypes
    <2> QED
      BY <2>1, <2>2, UlTypes DEF Bid
  <1>3. k > q => Period * k >= Period * q + Period
    <2>1. ASSUME NEW j \in Int, j >= 1, NEW n \in Nat PROVE n * j >= n
      BY <2>1, Z3
    <2>2. k > q => Period * (k - q) >= Period
      BY <2>1, UlTypes
    <2>3. Period * (k - q) = Period * k - Period * q
      BY UlTypes, Z3
    <2> QED
      BY <2>2, <2>3, UlTypes
  <1>4. k <= q => Period * k <= Period * q
    <2>1. ASSUME NEW j \in Nat, NEW n \in Nat PROVE n * j >= 0
      BY <2>1, Z3
    <2>2. k <= q => Period * (q - k) >= 0
      BY <2>1, UlTypes
    <2>3. Period * (q - k) = Period * q - Period * k
      BY UlTypes, Z3
    <2> QED
      BY <2>2, <2>3, UlTypes
  <1> HIDE UlTypes
  <1>5. PICK m \in Int, n \in Int, p \in Nat :
            m = Period * q /\ n = Period * k /\ p = Period /\ p >= 4
    BY UlTypes
  <1>6. /\ FirstOf(a) = m /\ x = n /\ a >= m /\ a < m + p
        /\ k > q => n >= m + p
        /\ k <= q => n <= m
    BY <1>1, <1>2, <1>3, <1>4, <1>5
  <1> QED
    BY <1>5, <1>6

LEMMA GridNext ==
    ASSUME NEW a \in Int
    PROVE  /\ Bid(a) = Period - 1 => Bid(a + 1) = 0 /\ FirstOf(a + 1) = a + 1
           /\ Bid(a) < Period - 1 => Bid(a + 1) = Bid(a) + 1 /\ FirstOf(a + 1) = FirstOf(a)
  <1>1. /\ Bid(a) \in 0 .. Period - 1 /\ FirstOf(a) \in Int /\ FirstOf(a) + Bid(a) = a
        /\ \A b \in 0 .. Period - 1 :
                 Bid(FirstOf(a) + b) = b /\ FirstOf(FirstOf(a) + b) = FirstOf(a)
    BY Grid
  <1>2. CASE Bid(a) < Period - 1
    <2>1. Bid(a) + 1 \in 0 .. Period - 1 /\ FirstOf(a) + (Bid(a) + 1) = a + 1
      BY <1>1, <1>2, UlTypes
    <2> QED
      BY <1>1, <1>2, <2>1, UlTypes
  <1>3. CASE Bid(a) = Period - 1
    <2>1. /\ Bid(a + 1) \in 0 .. Period - 1 /\ FirstOf(a + 1) \in Int
          /\ FirstOf(a + 1) + Bid(a + 1) = a + 1 /\ Bid(FirstOf(a + 1)) = 0
          /\ \A b \in 0 .. Period - 1 :
                FirstOf(FirstOf(a + 1) + b) = FirstOf(a + 1)
      BY Grid
    <2>2. CASE Bid(a + 1) = 0
      BY <1>3, <2>1, <2>2, UlTypes
    <2>3. CASE Bid(a + 1) # 0
      <3>1. Bid(a + 1) - 1 \in 0 .. Period - 1 /\ FirstOf(a + 1) + (Bid(a + 1) - 1) = a
        BY <2>1, <2>3, UlTypes
      <3>2. FirstOf(a) = FirstOf(a + 1)
        BY <2>1, <3>1
      <3> QED
        BY <1>1, <1>3, <2>1, <3>2, UlTypes
    <2> QED
      BY <2>2, <2>3
  <1> QED
    BY <1>1, <1>2, <1>3, UlTypes

\* Frame numbers are those of a hyperframe.
LEMMA UlFnOf ==
    ASSUME NEW a \in Int
    PROVE  /\ UlFn(a) \in 0 .. UlHyperframe - 1
           /\ \A k \in Int : UlFn(a + UlHyperframe * k) = UlFn(a)
           /\ \E q \in Int : a = UlFn(a) + UlHyperframe * q
           /\ a \in 0 .. UlHyperframe - 1 => UlFn(a) = a
  <1>1. PICK q \in Int : \E r \in 0 .. UlHyperframe - 1 : a = UlHyperframe * q + r /\ r = a % UlHyperframe
    BY Division, UlTypes
  <1>2. PICK r \in 0 .. UlHyperframe - 1 : a = UlHyperframe * q + r /\ r = a % UlHyperframe
    BY <1>1
  <1>3. UlFn(a) = r
    BY <1>2 DEF UlFn
  <1>4. \A k \in Int : UlFn(a + UlHyperframe * k) = UlFn(a)
    BY SameRemainder, UlTypes DEF UlFn
  <1>5. a = UlFn(a) + UlHyperframe * q
    BY <1>2, <1>3, UlTypes
  <1>6. a \in 0 .. UlHyperframe - 1 => UlFn(a) = a
    BY UlTypes DEF UlFn
  <1> QED
    BY <1>2, <1>3, <1>4, <1>5, <1>6

LEMMA UlFnAdds ==
    ASSUME NEW a \in Int, NEW x \in Int
    PROVE  UlFn(UlFn(a) + x) = UlFn(a + x)
  <1>1. PICK q \in Int : a = UlFn(a) + UlHyperframe * q
    BY UlFnOf
  <1>2. UlFn(a) \in Int
    BY UlFnOf, UlTypes
  <1>3. a + x = (UlFn(a) + x) + UlHyperframe * q
    BY <1>1, <1>2, UlTypes
  <1>4. UlFn((UlFn(a) + x) + UlHyperframe * q) = UlFn(UlFn(a) + x)
    <2>1. UlFn(a) + x \in Int
      BY <1>2
    <2> QED
      BY <2>1, UlFnOf
  <1> QED
    BY <1>3, <1>4

LEMMA UlFnInjective ==
    ASSUME NEW a \in Int, NEW b \in Int, UlFn(a) = UlFn(b), a - b < UlHyperframe, b - a < UlHyperframe
    PROVE  a = b
  <1>1. PICK q \in Int : a = UlFn(a) + UlHyperframe * q
    BY UlFnOf
  <1>2. PICK k \in Int : b = UlFn(b) + UlHyperframe * k
    BY UlFnOf
  <1>3. UlFn(a) \in Int
    BY UlFnOf, UlTypes
  <1>4. ASSUME NEW j \in Int, j >= 1, NEW n \in Nat PROVE n * j >= n
    BY <1>4, Z3
  <1>5. PICK m \in Int, n \in Int : m = UlHyperframe * q /\ n = UlHyperframe * k
    BY UlTypes
  <1>6. a - b = m - n
    BY <1>1, <1>2, <1>3, <1>5
  <1>7. q > k => m - n >= UlHyperframe
    <2>1. q > k => UlHyperframe * (q - k) >= UlHyperframe
      BY <1>4, UlTypes
    <2>2. UlHyperframe * (q - k) = UlHyperframe * q - UlHyperframe * k
      BY UlTypes, Z3
    <2> QED
      BY <1>5, <2>1, <2>2
  <1>8. k > q => n - m >= UlHyperframe
    <2>1. k > q => UlHyperframe * (k - q) >= UlHyperframe
      BY <1>4, UlTypes
    <2>2. UlHyperframe * (k - q) = UlHyperframe * k - UlHyperframe * q
      BY UlTypes, Z3
    <2> QED
      BY <1>5, <2>1, <2>2
  <1>9. q = k
    BY <1>6, <1>7, <1>8, UlTypes
  <1> QED
    BY <1>1, <1>2, <1>9

\* Frames that have passed, from the numbers of the first and the last.
LEMMA UlFnElapsed ==
    ASSUME NEW f \in Int, NEW l \in Int, f - l < UlHyperframe, l - f <= UlHyperframe
    PROVE  UlFn(UlFn(f) - UlFn(l) + UlHyperframe) = IF f >= l THEN f - l ELSE f - l + UlHyperframe
  <1>1. UlFn(f) \in Int /\ UlFn(l) \in Int /\ UlHyperframe \in Nat
    BY UlFnOf, UlTypes
  <1>2. PICK k \in Int : l = UlFn(l) + UlHyperframe * k
    BY UlFnOf
  <1>3. UlFn(UlFn(f) + (UlHyperframe - UlFn(l))) = UlFn(f + (UlHyperframe - UlFn(l)))
    BY <1>1, UlFnAdds
  <1>4. f + (UlHyperframe - UlFn(l)) = (f - l) + UlHyperframe * (k + 1)
    BY <1>1, <1>2, Z3
  <1>5. UlFn((f - l) + UlHyperframe * (k + 1)) = UlFn(f - l)
    BY UlFnOf
  <1>6. UlFn(f - l + UlHyperframe) = UlFn(f - l)
    <2>1. PICK x \in Int : x = f - l
      OBVIOUS
    <2>2. UlFn(x + UlHyperframe * 1) = UlFn(x)
      BY UlFnOf
    <2>3. UlHyperframe * 1 = UlHyperframe
      BY <1>1
    <2> QED
      BY <2>1, <2>2, <2>3
  <1>7. f >= l => UlFn(f - l) = f - l
    <2>1. PICK x \in Int : x = f - l
      OBVIOUS
    <2>2. f >= l => x \in 0 .. UlHyperframe - 1
      BY <1>1, <2>1
    <2> QED
      BY <2>1, <2>2, UlFnOf
  <1>8. f < l => UlFn(f - l + UlHyperframe) = f - l + UlHyperframe
    BY <1>1, UlFnOf
  <1>9. UlFn(f) + (UlHyperframe - UlFn(l)) = UlFn(f) - UlFn(l) + UlHyperframe
    BY <1>1
  <1> QED
    BY <1>3, <1>4, <1>5, <1>6, <1>7, <1>8, <1>9

\* A hyperframe is made of whole multiframes.
LEMMA UlFnGrid ==
    ASSUME NEW a \in Int
    PROVE  /\ Bid(UlFn(a)) = Bid(a)
           /\ \A b \in 0 .. Period - 1 : UlFn(FirstOf(a) + b) = UlFn(FirstOf(a)) + b
  <1>1. PICK m \in Int : UlHyperframe = Period * m
    <2>1. UlHyperframe \in Int /\ Period \in Nat \ {0} /\ UlHyperframe % Period = 0
      BY UlTypes
    <2>2. PICK q \in Int : \E r \in 0 .. Period - 1 : UlHyperframe = Period * q + r /\ r = UlHyperframe % Period
      BY <2>1, Division
    <2>3. PICK n \in Int : n = Period * q
      BY UlTypes
    <2>4. UlHyperframe = n
      BY <2>1, <2>2, <2>3
    <2> QED
      BY <2>3, <2>4
  <1>2. ASSUME NEW x \in Int PROVE Bid(UlFn(x)) = Bid(x)
    <2>1. PICK q \in Int : x = UlFn(x) + UlHyperframe * q
      BY UlFnOf
    <2>2. UlFn(x) \in Int /\ Period \in Nat \ {0}
      BY UlFnOf, UlTypes
    <2>3. UlHyperframe * q = Period * (m * q) /\ m * q \in Int
      BY <1>1, UlTypes, Z3
    <2>4. x = UlFn(x) + Period * (m * q)
      BY <2>1, <2>3
    <2>5. \A k \in Int : (UlFn(x) + Period * k) % Period = UlFn(x) % Period
      BY <2>2, SameRemainder
    <2>6. (UlFn(x) + Period * (m * q)) % Period = UlFn(x) % Period
      BY <2>3, <2>5
    <2> HIDE <2>5
    <2> QED
      BY <2>4, <2>6 DEF Bid
  <1> DEFINE x == UlFn(FirstOf(a))
  <1>3. x \in 0 .. UlHyperframe - 1 /\ Bid(x) = 0 /\ FirstOf(a) \in Int
    BY <1>2, UlFnOf, Grid
  <1>4. FirstOf(x) = x
    BY <1>3, UlTypes DEF FirstOf
  <1>5. Bid(UlHyperframe) = 0
    BY UlTypes DEF Bid
  <1>6. UlHyperframe >= x + Period
    BY <1>3, <1>4, <1>5, GridZero, UlTypes
  <1>7. ASSUME NEW b \in 0 .. Period - 1 PROVE UlFn(FirstOf(a) + b) = x + b
    <2>1. x + b \in 0 .. UlHyperframe - 1
      BY <1>3, <1>6, UlTypes
    <2>2. UlFn(x + b) = x + b
      BY <2>1, UlFnOf
    <2> QED
      BY <1>3, <2>2, UlFnAdds
  <1> QED
    BY <1>2, <1>7

Firsts == {g \in 0 .. UlHyperframe - 1 : Bid(g) = 0}

\* The channel's state, and the indications.
Channels ==
    [active : BOOLEAN, ho : BOOLEAN, started : BOOLEAN,
     last : 0 .. UlHyperframe - 1, mask : SUBSET (0 .. 3),
     first : 0 .. UlHyperframe - 1,
     buf : [0 .. 3 -> -1 .. UlHyperframe - 1], meas : Seq(0 .. UlHyperframe - 1),
     rough : BOOLEAN, since : 0 .. UlHyperframe - 1]

UlBlocks ==
    [first : 0 .. UlHyperframe - 1, buf : [0 .. 3 -> -1 .. UlHyperframe - 1],
     meas : Seq(0 .. UlHyperframe - 1), rough : BOOLEAN]

\* How often each block was indicated, with the indications inds.
Total(n, inds) ==
    [x \in Firsts |-> n[x] + Cardinality({i \in DOMAIN inds : inds[i].first = x})]

LEMMA TotalOfNone ==
    ASSUME NEW n \in [Firsts -> Nat]
    PROVE  Total(n, <<>>) = n
  <1>1. ASSUME NEW x \in Firsts PROVE {i \in DOMAIN <<>> : <<>>[i].first = x} = {}
    OBVIOUS
  <1>2. ASSUME NEW x \in Firsts
        PROVE  n[x] + Cardinality({i \in DOMAIN <<>> : <<>>[i].first = x}) = n[x]
    BY <1>1, FS_EmptySet
  <1>3. Total(n, <<>>) = [x \in Firsts |-> n[x]]
    BY <1>2 DEF Total
  <1> QED
    BY <1>3

LEMMA TotalOfMore ==
    ASSUME NEW n \in [Firsts -> Nat], NEW inds \in Seq(UlBlocks), NEW b \in UlBlocks
    PROVE  /\ Total(n, inds) \in [Firsts -> Nat]
           /\ Append(inds, b) \in Seq(UlBlocks)
           /\ Total(n, Append(inds, b)) =
                 [x \in Firsts |-> Total(n, inds)[x] + IF x = b.first THEN 1 ELSE 0]
  <1> DEFINE Of(x) == {i \in DOMAIN inds : inds[i].first = x}
             All == Append(inds, b)
             OfAll(x) == {i \in DOMAIN All : All[i].first = x}
  <1>1. Len(inds) \in Nat /\ DOMAIN inds = 1 .. Len(inds)
    OBVIOUS
  <1>2. DOMAIN All = 1 .. Len(inds) + 1 /\ All \in Seq(UlBlocks)
    OBVIOUS
  <1>3. All[Len(inds) + 1] = b /\ \A i \in 1 .. Len(inds) : All[i] = inds[i]
    OBVIOUS
  <1>4. ASSUME NEW x \in Firsts PROVE IsFiniteSet(Of(x)) /\ Cardinality(Of(x)) \in Nat
    <2>1. IsFiniteSet(1 .. Len(inds))
      BY <1>1, FS_Interval
    <2>2. Of(x) \subseteq 1 .. Len(inds)
      BY <1>1
    <2>3. IsFiniteSet(Of(x))
      BY <2>1, <2>2, FS_Subset
    <2> QED
      BY <2>3, FS_CardinalityType
  <1>5. ASSUME NEW x \in Firsts
        PROVE  Cardinality(OfAll(x)) = Cardinality(Of(x)) + IF x = b.first THEN 1 ELSE 0
    <2> HIDE DEF All
    <2>1. CASE x = b.first
      <3>1. OfAll(x) = Of(x) \cup {Len(inds) + 1} /\ Len(inds) + 1 \notin Of(x)
        BY <1>1, <1>2, <1>3, <2>1
      <3>2. Cardinality(Of(x) \cup {Len(inds) + 1}) = Cardinality(Of(x)) + 1
        <4> HIDE DEF Of
        <4> QED
          BY <1>4, <3>1, FS_AddElement
      <3> QED
        BY <2>1, <3>1, <3>2
    <2>2. CASE x # b.first
      <3>1. OfAll(x) = Of(x)
        BY <1>1, <1>2, <1>3, <2>2
      <3> HIDE DEF Of, OfAll
      <3> QED
        BY <2>2, <3>1, <1>4
    <2> QED
      BY <2>1, <2>2
  <1>6. Total(n, inds) \in [Firsts -> Nat] /\ \A x \in Firsts : Total(n, inds)[x] = n[x] + Cardinality(Of(x))
    <2> HIDE DEF Of
    <2>1. Total(n, inds) = [x \in Firsts |-> n[x] + Cardinality(Of(x))]
      BY DEF Total, Of
    <2> QED
      BY <1>4, <2>1
  <1>7. Total(n, All) = [x \in Firsts |-> n[x] + Cardinality(OfAll(x))]
    BY DEF Total
  <1> HIDE DEF Of, OfAll, All
  <1>8. ASSUME NEW x \in Firsts
        PROVE  n[x] + Cardinality(OfAll(x)) = Total(n, inds)[x] + IF x = b.first THEN 1 ELSE 0
    BY <1>4, <1>5, <1>6
  <1>9. Total(n, All) = [x \in Firsts |-> Total(n, inds)[x] + IF x = b.first THEN 1 ELSE 0]
    BY <1>7, <1>8
  <1> QED
    BY <1>2, <1>6, <1>9 DEF All

-----------------------------------------------------------------------------
(***************************************************************************)
(* How a channel c stands that has got up to the frame p, where h is the   *)
(* last frame of all it had, s is the frame it is followed from, st the    *)
(* first frame, and the blocks were indicated n times.                     *)
(***************************************************************************)

\* The block in the buffers was not indicated yet.
Held(c, n, h, st) ==
    0 \in c.mask => \E g \in st .. h : Bid(g) = 0 /\ c.first = UlFn(g) /\ n[c.first] = 0

\* Nor was any that may still begin.
Unbegun(n, h, st) == \A f \in h - 2 .. st + MaxFrames : Bid(f) = 0 => n[UlFn(f)] = 0

Once(n) == \A x \in Firsts : n[x] \in {0, 1}

\* Every block before that of h was indicated.
Done(n, h, s) == \A f \in s .. FirstOf(h) - 1 : Bid(f) = 0 => n[UlFn(f)] = 1

OfBlock(c, f) ==
    /\ c.first = UlFn(FirstOf(f))
    /\ \A b \in 0 .. 3 : c.buf[b] \in {Zero, c.first + b}

Over(c, n, h) == Bid(h) >= 3 /\ 0 \notin c.mask /\ n[UlFn(FirstOf(h))] = 1
Begun(c, h) == 0 \in c.mask /\ c.first = UlFn(FirstOf(h))

Stands(c, n, p, h, s, st) ==
    /\ p <= h /\ h <= p + 2 /\ FirstOf(p) = FirstOf(h) /\ (p < h => Bid(h) <= 3)
    /\ st <= h /\ h <= st + MaxFrames
    /\ Held(c, n, h, st) /\ Unbegun(n, h, st) /\ Once(n) /\ Done(n, h, s)
    /\ c.ho => c.rough
    /\ 0 \in c.mask /\ ~c.rough => OfBlock(c, h) /\ Bid(h) < 3
    /\ s <= FirstOf(h) => ~c.ho /\ (Over(c, n, h) \/ (Begun(c, h) /\ Bid(h) < 3))

\* The same before the frame f is handled, where k is the last frame with f.
UlReady(c, n, f, k, s, st) ==
    /\ f <= k /\ k <= f + 2 /\ FirstOf(f) = FirstOf(k) /\ Bid(f) <= 3 /\ Bid(k) <= 3
    /\ st <= f /\ k <= st + MaxFrames
    /\ Held(c, n, k, st) /\ Unbegun(n, k, st) /\ Once(n) /\ Done(n, k, s)
    /\ c.ho => c.rough
    /\ 0 \in c.mask /\ ~c.rough /\ Bid(f) # 0 => OfBlock(c, f) /\ (f = k \/ Bid(k) < 3)
    /\ s <= FirstOf(k) =>
          ~c.ho /\ (Bid(f) # 0 => Over(c, n, k) \/ (Begun(c, k) /\ (f = k \/ Bid(k) < 3)))

LEMMA GridFacts ==
    ASSUME NEW a \in Int
    PROVE  /\ Bid(a) \in Int /\ Bid(a) >= 0 /\ FirstOf(a) \in Int /\ FirstOf(a) + Bid(a) = a
           /\ Bid(FirstOf(a)) = 0
           /\ UlFn(a) \in 0 .. UlHyperframe - 1
           /\ Bid(a) = 0 => UlFn(a) \in Firsts
           /\ UlFn(FirstOf(a)) \in Firsts
           /\ Bid(a) <= 3 => UlFn(a) = UlFn(FirstOf(a)) + Bid(a)
  <1>1. /\ Bid(a) \in 0 .. Period - 1
        /\ FirstOf(a) \in Int /\ FirstOf(a) + Bid(a) = a /\ Bid(FirstOf(a)) = 0
    BY Grid
  <1>2. Bid(UlFn(a)) = Bid(a) /\ UlFn(a) \in 0 .. UlHyperframe - 1
    BY UlFnGrid, UlFnOf
  <1>3. Bid(UlFn(FirstOf(a))) = Bid(FirstOf(a)) /\ UlFn(FirstOf(a)) \in 0 .. UlHyperframe - 1
    BY <1>1, UlFnGrid, UlFnOf
  <1>4. UlFn(FirstOf(a) + Bid(a)) = UlFn(FirstOf(a)) + Bid(a)
    BY <1>1, UlFnGrid
  <1> QED
    BY <1>1, <1>2, <1>3, <1>4, UlTypes DEF Firsts

LEMMA StepIgnored ==
    ASSUME NEW st \in Nat, NEW c \in Channels, NEW n \in [Firsts -> Nat],
           NEW f \in Int, NEW k \in Int, NEW s \in Int, UlReady(c, n, f, k, s, st), c.ho
    PROVE  Stands(c, n, f, k, s, st)
  BY GridFacts, UlTypes DEF UlReady, Stands, Channels

LEMMA StepOpens ==
    ASSUME NEW st \in Nat, NEW c \in Channels, NEW n \in [Firsts -> Nat],
           NEW f \in Int, NEW k \in Int, NEW s \in Int, UlReady(c, n, f, k, s, st),
           Bid(f) = 0, NEW d \in Channels,
           d.mask = {0}, d.first = UlFn(f), d.ho = c.ho, d.rough = c.ho,
           \A b \in 0 .. 3 : d.buf[b] \in {Zero, UlFn(f) + b}
    PROVE  Stands(d, n, f, k, s, st)
  <1>0. c.ho \in BOOLEAN /\ c.rough \in BOOLEAN /\ c.mask \subseteq 0 .. 3
    BY DEF Channels
  <1>1. /\ Bid(f) \in Int /\ Bid(k) \in Int /\ FirstOf(f) \in Int /\ FirstOf(k) \in Int
        /\ FirstOf(f) + Bid(f) = f /\ FirstOf(k) + Bid(k) = k /\ MaxFrames \in Nat
    BY GridFacts, UlTypes
  <1>2. FirstOf(f) = f /\ FirstOf(k) = f /\ Bid(k) < 3
    BY <1>1 DEF UlReady
  <1>3. Held(d, n, k, st)
    <2>1. f \in k - 2 .. st + MaxFrames /\ f \in st .. k
      BY <1>1 DEF UlReady
    <2>2. n[UlFn(f)] = 0
      BY <2>1 DEF UlReady, Unbegun
    <2> QED
      BY <2>1, <2>2 DEF Held
  <1>4. OfBlock(d, k) /\ Begun(d, k)
    BY <1>2 DEF OfBlock, Begun
  <1> QED
    BY <1>0, <1>1, <1>2, <1>3, <1>4 DEF UlReady, Stands

LEMMA StepStores ==
    ASSUME NEW st \in Nat, NEW c \in Channels, NEW n \in [Firsts -> Nat],
           NEW f \in Int, NEW k \in Int, NEW s \in Int, UlReady(c, n, f, k, s, st),
           Bid(f) \in {1, 2}, NEW d \in Channels,
           d.mask = c.mask \cup {Bid(f)}, d.first = c.first, d.ho = c.ho, d.rough = c.rough,
           \A b \in 0 .. 3 : d.buf[b] = c.buf[b] \/ (b = Bid(f) /\ d.buf[b] \in {Zero, UlFn(f)})
    PROVE  Stands(d, n, f, k, s, st)
  <1>0. c.ho \in BOOLEAN /\ c.rough \in BOOLEAN /\ c.mask \subseteq 0 .. 3
    BY DEF Channels
  <1>1. /\ Bid(f) \in Int /\ Bid(k) \in Int /\ FirstOf(f) \in Int /\ FirstOf(k) \in Int
        /\ FirstOf(f) + Bid(f) = f /\ FirstOf(k) + Bid(k) = k /\ MaxFrames \in Nat
    BY GridFacts, UlTypes
  <1>11. UlFn(f) = UlFn(FirstOf(f)) + Bid(f)
    <2>1. Bid(f) <= 3
      BY DEF UlReady
    <2> QED
      BY <2>1, GridFacts
  <1>2. FirstOf(f) = FirstOf(k) /\ Bid(f) # 0
    BY <1>1 DEF UlReady
  <1>3. 0 \in d.mask <=> 0 \in c.mask
    BY <1>2
  <1>4. Held(d, n, k, st)
    BY <1>3 DEF Held, UlReady
  <1>5. OfBlock(c, f) => OfBlock(d, k)
    BY <1>1, <1>2, <1>11 DEF OfBlock
  <1>6. (Over(c, n, k) => Over(d, n, k)) /\ (Begun(c, k) => Begun(d, k))
    BY <1>3 DEF Over, Begun
  <1>7. f = k => Bid(k) < 3
    BY <1>1
  <1> QED
    BY <1>0, <1>1, <1>2, <1>3, <1>4, <1>5, <1>6, <1>7 DEF UlReady, Stands

OneMore(m, n, first) == \A x \in Firsts : m[x] = n[x] + IF x = first THEN 1 ELSE 0

LEMMA StepCloses ==
    ASSUME NEW st \in Nat, NEW c \in Channels, NEW n \in [Firsts -> Nat],
           NEW f \in Int, NEW k \in Int, NEW s \in Int, UlReady(c, n, f, k, s, st),
           Bid(f) = 3, NEW d \in Channels, NEW m \in [Firsts -> Nat],
           d.mask = {}, d.ho = c.ho, d.rough = c.rough,
           0 \notin c.mask => m = n,
           0 \in c.mask => OneMore(m, n, c.first)
    PROVE  /\ Stands(d, m, f, k, s, st)
           /\ 0 \in c.mask /\ ~c.rough => OfBlock(c, f)
  <1>0. c.ho \in BOOLEAN /\ c.rough \in BOOLEAN /\ c.mask \subseteq 0 .. 3
    BY DEF Channels
  <1>1. /\ Bid(f) \in Int /\ Bid(k) \in Int /\ FirstOf(f) \in Int /\ FirstOf(k) \in Int
        /\ FirstOf(f) + Bid(f) = f /\ FirstOf(k) + Bid(k) = k /\ MaxFrames \in Nat
        /\ UlFn(FirstOf(f)) \in Firsts
    BY GridFacts, UlTypes
  <1>2. f = k
    BY <1>1 DEF UlReady
  <1>3. CASE 0 \notin c.mask
    <2>1. Unbegun(m, k, st) /\ Once(m) /\ Done(m, k, s)
      BY <1>3 DEF UlReady
    <2>2. Over(c, n, k) => Over(d, m, k)
      BY <1>3 DEF Over
    <2>3. ~Begun(c, k) /\ Held(d, m, k, st)
      BY <1>3 DEF Begun, Held
    <2>20. /\ f <= k /\ k <= f + 2 /\ FirstOf(f) = FirstOf(k) /\ (f < k => Bid(k) <= 3)
           /\ st <= k /\ k <= st + MaxFrames
           /\ d.ho => d.rough
      BY <1>0, <1>1, <1>2 DEF UlReady
    <2>21. s <= FirstOf(k) => ~d.ho /\ Over(d, m, k)
      BY <1>0, <1>1, <1>2, <2>1, <2>2, <2>3 DEF UlReady
    <2>22. 0 \notin d.mask
      OBVIOUS
    <2> QED
      BY <1>3, <2>1, <2>2, <2>3, <2>20, <2>21, <2>22 DEF Stands
  <1>4. CASE 0 \in c.mask
    <2>1. PICK g \in st .. k : Bid(g) = 0 /\ c.first = UlFn(g) /\ n[c.first] = 0
      BY <1>4 DEF UlReady, Held
    <2>2. g \in Int /\ UlFn(g) \in Firsts /\ g <= FirstOf(f)
      BY <1>1, <1>2, <2>1, GridFacts, GridZero
    <2>3. \A x \in Firsts : m[x] = n[x] + IF x = c.first THEN 1 ELSE 0
      BY <1>4 DEF OneMore
    <2>4. m[c.first] = 1
      BY <2>1, <2>2, <2>3
    <2>5. \A x \in Firsts : x # c.first => m[x] = n[x]
      BY <2>3
    <2>6. Once(m)
      BY <2>4, <2>5 DEF Once, UlReady
    <2>7. Done(m, k, s)
      <3>1. ASSUME NEW a \in s .. FirstOf(k) - 1, Bid(a) = 0 PROVE m[UlFn(a)] = 1
        <4>1. n[UlFn(a)] = 1 /\ a \in Int
          BY <1>1, <3>1 DEF UlReady, Done
        <4>2. UlFn(a) \in Firsts /\ UlFn(a) # c.first
          BY <2>1, <3>1, <4>1, GridFacts
        <4> QED
          BY <2>5, <4>1, <4>2
      <3> QED
        BY <3>1 DEF Done
    <2>8. Unbegun(m, k, st)
      <3>1. ASSUME NEW a \in k - 2 .. st + MaxFrames, Bid(a) = 0 PROVE m[UlFn(a)] = 0
        <4>1. n[UlFn(a)] = 0 /\ a \in Int
          BY <1>1, <3>1 DEF UlReady, Unbegun
        <4>2. a > g /\ a - g < UlHyperframe
          BY <1>1, <1>2, <2>1, <2>2, <4>1, UlTypes
        <4>3. UlFn(a) # UlFn(g)
          BY <2>2, <4>1, <4>2, UlFnInjective, UlTypes
        <4>4. UlFn(a) \in Firsts
          BY <3>1, <4>1, GridFacts
        <4> QED
          BY <2>1, <2>5, <4>1, <4>3, <4>4
      <3> QED
        BY <3>1 DEF Unbegun
    <2>9. Begun(c, k) => Over(d, m, k)
      BY <1>1, <1>2, <2>4 DEF Begun, Over
    <2>10. ~Over(c, n, k) /\ Held(d, m, k, st)
      BY <1>4 DEF Over, Held
    <2>11. ~c.rough => OfBlock(c, f)
      BY <1>4 DEF UlReady
    <2>20. /\ f <= k /\ k <= f + 2 /\ FirstOf(f) = FirstOf(k) /\ (f < k => Bid(k) <= 3)
           /\ st <= k /\ k <= st + MaxFrames
           /\ d.ho => d.rough
      BY <1>0, <1>1, <1>2 DEF UlReady
    <2>21. s <= FirstOf(k) => ~d.ho /\ Over(d, m, k)
      BY <1>0, <1>1, <1>2, <2>9, <2>10, <2>11 DEF UlReady
    <2>22. 0 \notin d.mask
      OBVIOUS
    <2> QED
      BY <1>4, <2>6, <2>7, <2>8, <2>9, <2>10, <2>11, <2>20, <2>21, <2>22 DEF Stands
  <1> QED
    BY <1>3, <1>4

\* Nothing but these parts of a channel says how it stands.
Alike(c, d) ==
    /\ d.mask = c.mask /\ d.first = c.first /\ d.buf = c.buf /\ d.ho = c.ho

\* The next frame of the channel.
LEMMA ReadyNext ==
    ASSUME NEW st \in Nat, NEW c \in Channels, NEW n \in [Firsts -> Nat],
           NEW p \in Int, NEW h \in Int, NEW s \in Int, Stands(c, n, p, h, s, st),
           NEW d \in Channels, Alike(c, d), d.rough = c.rough,
           ~c.ho, Bid(p + 1) <= 3, st <= p + 1, p + 1 <= st + MaxFrames
    PROVE  UlReady(d, n, p + 1, IF h >= p + 1 THEN h ELSE p + 1, s, st)
  <1>0. c.rough \in BOOLEAN
    BY DEF Channels
  <1> DEFINE f == p + 1
  <1>1. /\ f \in Int
        /\ Bid(f) \in Int /\ Bid(h) \in Int /\ FirstOf(f) \in Int /\ FirstOf(h) \in Int
        /\ FirstOf(f) + Bid(f) = f /\ FirstOf(h) + Bid(h) = h /\ MaxFrames \in Nat
        /\ Bid(p) \in Int /\ FirstOf(p) + Bid(p) = p /\ Bid(f) >= 0 /\ Bid(p) >= 0
    BY GridFacts, UlTypes
  <1>2. /\ Bid(p) = Period - 1 => Bid(f) = 0 /\ FirstOf(f) = f
        /\ Bid(p) < Period - 1 => Bid(f) = Bid(p) + 1 /\ FirstOf(f) = FirstOf(p)
    BY GridNext
  <1>3. Bid(p) <= Period - 1 /\ Period >= 4 /\ Period \in Nat
    BY Grid, UlTypes
  <1> HIDE DEF f
  <1>f. f = p + 1
    BY DEF f
  <1>4. CASE h >= f
    <2>1. p < h /\ FirstOf(p) = FirstOf(h) /\ Bid(h) <= 3 /\ h <= p + 2
      BY <1>1, <1>4, <1>f DEF Stands
    <2>2. Bid(p) < 3 /\ Bid(f) = Bid(p) + 1 /\ FirstOf(f) = FirstOf(h)
      BY <1>1, <1>2, <1>3, <2>1
    <2>3. OfBlock(c, h) => OfBlock(d, f)
      BY <2>2 DEF OfBlock, Alike
    <2>4. Held(d, n, h, st)
      BY DEF Stands, Held, Alike
    <2>5. /\ Over(c, n, h) => Over(d, n, h)
          /\ Begun(c, h) => Begun(d, h)
      BY DEF Over, Begun, Alike
    <2>6. UlReady(d, n, f, h, s, st)
      BY <1>0, <1>1, <1>4, <1>f, <2>1, <2>2, <2>3, <2>4, <2>5 DEF UlReady, Stands, Alike
    <2> QED
      BY <1>4, <2>6 DEF f
  <1>5. CASE ~ h >= f
    <2>1. p = h /\ f = h + 1 /\ st <= f /\ f <= st + MaxFrames
      BY <1>1, <1>5, <1>f DEF Stands
    <2>2. Held(d, n, f, st)
      BY <2>1 DEF Stands, Held, Alike
    <2>3. Unbegun(n, f, st)
      BY <2>1 DEF Stands, Unbegun
    <2>4. CASE Bid(f) = 0
      <3>1. FirstOf(f) = f /\ Bid(h) >= 3
        BY <1>1, <1>2, <1>3, <2>1, <2>4
      <3>2. ASSUME NEW a \in s .. f - 1, Bid(a) = 0 PROVE n[UlFn(a)] = 1
        <4>1. a \in Int /\ a <= FirstOf(h)
          BY <1>1, <2>1, <3>2, GridZero
        <4>2. CASE a = FirstOf(h)
          <5>1. Over(c, n, h)
            BY <1>1, <3>1, <3>2, <4>2 DEF Stands
          <5> QED
            BY <4>2, <5>1 DEF Over
        <4>3. CASE a # FirstOf(h)
          <5>1. a \in s .. FirstOf(h) - 1
            BY <1>1, <3>2, <4>1, <4>3
          <5> QED
            BY <3>2, <5>1 DEF Stands, Done
        <4> QED
          BY <4>2, <4>3
      <3>3. Done(n, f, s)
        BY <3>1, <3>2 DEF Done
      <3>4. Once(n) /\ (d.ho => d.rough) /\ ~d.ho
        BY DEF Stands, Alike
      <3>5. UlReady(d, n, f, f, s, st)
        BY <1>1, <2>1, <2>2, <2>3, <2>4, <3>3, <3>4 DEF UlReady
      <3> QED
        BY <1>5, <3>5 DEF f
    <2>5. CASE Bid(f) # 0
      <3>1. FirstOf(f) = FirstOf(h) /\ Bid(h) < 3
        BY <1>1, <1>2, <1>3, <2>1, <2>5
      <3>2. OfBlock(c, h) => OfBlock(d, f)
        BY <3>1 DEF OfBlock, Alike
      <3>3. Done(n, f, s)
        BY <3>1 DEF Done, Stands
      <3>4. Begun(c, h) => Begun(d, f)
        BY <3>1 DEF Begun, Alike
      <3>5. ~Over(c, n, h)
        BY <1>1, <3>1 DEF Over
      <3>6. Once(n) /\ (d.ho => d.rough) /\ ~d.ho
        BY DEF Stands, Alike
      <3>7. s <= FirstOf(f) => Begun(d, f)
        BY <3>1, <3>4, <3>5 DEF Stands
      <3>8. 0 \in d.mask /\ ~d.rough => OfBlock(d, f)
        BY <3>2 DEF Stands, Alike
      <3>9. UlReady(d, n, f, f, s, st)
        BY <1>1, <2>1, <2>2, <2>3, <3>3, <3>6, <3>7, <3>8 DEF UlReady
      <3> QED
        BY <1>5, <3>9 DEF f
    <2> QED
      BY <2>4, <2>5
  <1> QED
    BY <1>4, <1>5

\* A frame of another channel.
LEMMA StandsNext ==
    ASSUME NEW st \in Nat, NEW c \in Channels, NEW n \in [Firsts -> Nat],
           NEW p \in Int, NEW h \in Int, NEW s \in Int, Stands(c, n, p, h, s, st),
           Bid(p + 1) > 3, p + 1 <= st + MaxFrames
    PROVE  /\ h = p
           /\ Stands(c, n, p + 1, p + 1, s, st)
  <1> DEFINE f == p + 1
  <1>1. /\ f \in Int
        /\ Bid(f) \in Int /\ Bid(h) \in Int /\ FirstOf(f) \in Int /\ FirstOf(h) \in Int
        /\ FirstOf(f) + Bid(f) = f /\ FirstOf(h) + Bid(h) = h /\ MaxFrames \in Nat
        /\ Bid(p) \in Int /\ FirstOf(p) + Bid(p) = p /\ Bid(f) >= 0 /\ Bid(p) >= 0
    BY GridFacts, UlTypes
  <1>2. /\ Bid(p) = Period - 1 => Bid(f) = 0
        /\ Bid(p) < Period - 1 => Bid(f) = Bid(p) + 1 /\ FirstOf(f) = FirstOf(p)
    BY GridNext
  <1>3. Bid(p) <= Period - 1 /\ Period \in Nat
    BY Grid, UlTypes
  <1> HIDE DEF f
  <1>f. f = p + 1 /\ Bid(f) > 3
    BY DEF f
  <1>4. Bid(f) = Bid(p) + 1 /\ FirstOf(f) = FirstOf(p) /\ Bid(p) >= 3
    BY <1>1, <1>2, <1>3, <1>f
  <1>5. h = p
    BY <1>1, <1>4 DEF Stands
  <1>6. Bid(h) >= 3 /\ FirstOf(f) = FirstOf(h) /\ f = h + 1
    BY <1>4, <1>5, <1>f
  <1>7. Held(c, n, f, st)
    BY <1>6 DEF Stands, Held
  <1>8. Unbegun(n, f, st)
    BY <1>6 DEF Stands, Unbegun
  <1>9. Done(n, f, s) /\ (Over(c, n, h) => Over(c, n, f))
    BY <1>1, <1>6, <1>f DEF Stands, Done, Over
  <1>10. Stands(c, n, f, f, s, st)
    <2>1. f <= f /\ f <= f + 2 /\ st <= f /\ f <= st + MaxFrames
      BY <1>1, <1>6, <1>f DEF Stands
    <2>2. s <= FirstOf(f) => ~c.ho /\ Over(c, n, f)
      BY <1>1, <1>6, <1>9 DEF Stands
    <2>3. ~ (0 \in c.mask /\ ~c.rough)
      BY <1>1, <1>6 DEF Stands
    <2> QED
      BY <1>1, <1>7, <1>8, <1>9, <2>1, <2>2, <2>3 DEF Stands
  <1> QED
    BY <1>5, <1>10 DEF f

\* A burst that was overtaken.
LEMMA ReadyLate ==
    ASSUME NEW st \in Nat, NEW c \in Channels, NEW n \in [Firsts -> Nat],
           NEW p \in Int, NEW h \in Int, NEW s \in Int, Stands(c, n, p, h, s, st),
           NEW d \in Channels, Alike(c, d), d.rough = c.rough,
           NEW f \in Int, NEW t \in Int, st <= f, h - 2 <= f, f <= h, FirstOf(f) = FirstOf(h),
           Bid(f) <= 3, Bid(h) <= 3, (t = s /\ ~c.ho) \/ t = f + 1
    PROVE  UlReady(d, n, f, h, t, st)
  <1>0. c.rough \in BOOLEAN
    BY DEF Channels
  <1>1. /\ Bid(f) \in Int /\ Bid(h) \in Int /\ FirstOf(f) \in Int /\ FirstOf(h) \in Int
        /\ FirstOf(f) + Bid(f) = f /\ FirstOf(h) + Bid(h) = h /\ MaxFrames \in Nat
        /\ Bid(f) >= 0 /\ Bid(h) >= 0
    BY GridFacts, UlTypes
  <1>2. OfBlock(c, h) => OfBlock(d, f)
    BY <1>1 DEF OfBlock, Alike
  <1>3. Held(d, n, h, st)
    BY DEF Stands, Held, Alike
  <1>4. /\ Over(c, n, h) => Over(d, n, h)
        /\ Begun(c, h) => Begun(d, h)
    BY DEF Over, Begun, Alike
  <1>5. t <= FirstOf(h) => t = s /\ ~c.ho
    BY <1>1
  <1>6. t <= FirstOf(h) => ~d.ho /\ (Over(d, n, h) \/ (Begun(d, h) /\ Bid(h) < 3))
    BY <1>4, <1>5 DEF Stands, Alike
  <1>7. Done(n, h, t)
    <2>1. ASSUME NEW a \in t .. FirstOf(h) - 1, Bid(a) = 0 PROVE n[UlFn(a)] = 1
      <3>1. t <= FirstOf(h)
        BY <1>1, <2>1
      <3> QED
        BY <1>5, <2>1, <3>1 DEF Stands, Done
    <2> QED
      BY <2>1 DEF Done
  <1>8. 0 \in d.mask /\ ~d.rough => OfBlock(d, f) /\ Bid(h) < 3
    BY <1>2 DEF Stands, Alike
  <1>9. Once(n) /\ Unbegun(n, h, st) /\ (d.ho => d.rough) /\ h <= st + MaxFrames
    BY DEF Stands, Alike
  <1> QED
    BY <1>1, <1>3, <1>6, <1>7, <1>8, <1>9 DEF UlReady

\* A burst after more than a multiframe without one, or during handover detection.
LEMMA ReadyFar ==
    ASSUME NEW st \in Nat, NEW c \in Channels, NEW n \in [Firsts -> Nat],
           NEW p \in Int, NEW h \in Int, NEW s \in Int, Stands(c, n, p, h, s, st),
           NEW d \in Channels, Alike(c, d), d.rough,
           NEW f \in Int, NEW t \in Int, h < f, f <= st + MaxFrames, Bid(f) <= 3,
           (t = f /\ ~c.ho) \/ t = f + 1
    PROVE  UlReady(d, n, f, f, t, st)
  <1>1. /\ Bid(f) \in Int /\ FirstOf(f) \in Int
        /\ FirstOf(f) + Bid(f) = f /\ Bid(f) >= 0
    BY GridFacts
  <1>2. Held(d, n, f, st)
    BY DEF Stands, Held, Alike
  <1>3. Unbegun(n, f, st)
    BY DEF Stands, Unbegun
  <1>4. Done(n, f, t)
    BY <1>1 DEF Done
  <1>5. st <= f /\ Once(n)
    BY DEF Stands
  <1>6. t <= FirstOf(f) => ~d.ho /\ Bid(f) = 0
    BY <1>1 DEF Alike
  <1> QED
    BY <1>1, <1>2, <1>3, <1>4, <1>5, <1>6 DEF UlReady

\* The first burst.
LEMMA ReadyFirst ==
    ASSUME NEW st \in Nat, NEW d \in Channels, NEW n \in [Firsts -> Nat],
           d.mask = {}, d.ho => d.rough, \A x \in Firsts : n[x] = 0,
           NEW f \in Int, NEW t \in Int, st <= f, f <= st + MaxFrames, Bid(f) <= 3,
           (t = f /\ ~d.ho) \/ t = f + 1
    PROVE  UlReady(d, n, f, f, t, st)
  <1>1. /\ Bid(f) \in Int /\ FirstOf(f) \in Int
        /\ FirstOf(f) + Bid(f) = f /\ Bid(f) >= 0
    BY GridFacts
  <1>2. Held(d, n, f, st)
    BY DEF Held
  <1>3. Unbegun(n, f, st)
    <2>1. ASSUME NEW a \in f - 2 .. st + MaxFrames, Bid(a) = 0 PROVE n[UlFn(a)] = 0
      <3>1. a \in Int
        BY <2>1, UlTypes
      <3> QED
        BY <2>1, <3>1, GridFacts
    <2> QED
      BY <2>1 DEF Unbegun
  <1>4. Done(n, f, t)
    BY <1>1 DEF Done
  <1>5. t <= FirstOf(f) => ~d.ho /\ Bid(f) = 0
    BY <1>1
  <1> QED
    BY <1>1, <1>2, <1>3, <1>4, <1>5 DEF UlReady, Once

-----------------------------------------------------------------------------
\* The last four measurements.
LastFour(m, v) == IF Len(Append(m, v)) > 4 THEN Tail(Append(m, v)) ELSE Append(m, v)

\* The last k measurements are those of the frames from x on.
MeasuredFrom(m, k, x) == Len(m) >= k /\ \A i \in 1 .. k : m[Len(m) - k + i] = x + i - 1

LEMMA KeptFacts ==
    ASSUME NEW S, NEW m \in Seq(S), NEW v \in S, Len(m) <= 4
    PROVE  /\ LastFour(m, v) \in Seq(S) /\ Len(LastFour(m, v)) <= 4
           /\ \A x \in Int : \A k \in 0 .. 3 :
                 MeasuredFrom(m, k, x) /\ v = x + k => MeasuredFrom(LastFour(m, v), k + 1, x)
  <1> DEFINE a == Append(m, v)
  <1>1. /\ a \in Seq(S) /\ Len(a) = Len(m) + 1 /\ Len(m) \in Nat
        /\ a[Len(m) + 1] = v /\ \A i \in 1 .. Len(m) : a[i] = m[i]
    OBVIOUS
  <1>2. CASE Len(m) < 4
    <2>1. LastFour(m, v) = a
      BY <1>1, <1>2 DEF LastFour
    <2> HIDE DEF a
    <2>2. ASSUME NEW x \in Int, NEW k \in 0 .. 3, MeasuredFrom(m, k, x), v = x + k
          PROVE  MeasuredFrom(a, k + 1, x)
      <3>1. ASSUME NEW i \in 1 .. k + 1 PROVE a[Len(a) - (k + 1) + i] = x + i - 1
        <4>1. Len(a) - (k + 1) + i = Len(m) - k + i
          BY <1>1
        <4>2. CASE i = k + 1
          BY <1>1, <2>2, <4>1, <4>2
        <4>3. CASE i # k + 1
          <5>1. i \in 1 .. k /\ Len(m) - k + i \in 1 .. Len(m)
            BY <1>1, <2>2, <4>3 DEF MeasuredFrom
          <5> QED
            BY <1>1, <2>2, <4>1, <5>1 DEF MeasuredFrom
        <4> QED
          BY <4>2, <4>3
      <3>2. Len(a) >= k + 1
        BY <1>1, <2>2 DEF MeasuredFrom
      <3> QED
        BY <3>1, <3>2 DEF MeasuredFrom
    <2> QED
      BY <1>1, <1>2, <2>1, <2>2
  <1>3. CASE Len(m) >= 4
    <2>0. Len(m) = 4
      <3>1. PICK j \in Nat : j = Len(m)
        BY <1>1
      <3>2. j <= 4 /\ j >= 4
        BY <1>3, <3>1
      <3> QED
        BY <3>1, <3>2
    <2>1. LastFour(m, v) = Tail(a)
      BY <1>1, <2>0 DEF LastFour
    <2> DEFINE t == Tail(a)
    <2>2. t \in Seq(S) /\ Len(t) = Len(m) /\ \A i \in 1 .. Len(m) : t[i] = a[i + 1]
      BY <1>1, <2>0
    <2> HIDE DEF a, t
    <2>3. ASSUME NEW x \in Int, NEW k \in 0 .. 3, MeasuredFrom(m, k, x), v = x + k
          PROVE  MeasuredFrom(t, k + 1, x)
      <3>1. ASSUME NEW i \in 1 .. k + 1 PROVE t[Len(t) - (k + 1) + i] = x + i - 1
        <4>1. Len(t) - (k + 1) + i = 3 - k + i /\ 3 - k + i \in 1 .. Len(m)
          BY <2>0, <2>2
        <4>2. t[Len(t) - (k + 1) + i] = a[4 - k + i]
          BY <2>2, <4>1
        <4>3. CASE i = k + 1
          <5>1. 4 - k + i = Len(m) + 1 /\ x + i - 1 = v
            BY <2>0, <2>3, <4>3
          <5> QED
            BY <1>1, <4>2, <5>1
        <4>4. CASE i # k + 1
          <5>1. i \in 1 .. k /\ 4 - k + i \in 1 .. Len(m) /\ 4 - k + i = Len(m) - k + i
            BY <2>0, <4>4
          <5>2. a[4 - k + i] = m[Len(m) - k + i]
            BY <1>1, <5>1
          <5>3. m[Len(m) - k + i] = x + i - 1
            BY <2>3, <5>1 DEF MeasuredFrom
          <5> QED
            BY <4>2, <5>2, <5>3
        <4> QED
          BY <4>3, <4>4
      <3>2. Len(t) >= k + 1
        BY <2>0, <2>2
      <3> QED
        BY <3>1, <3>2 DEF MeasuredFrom
    <2>4. t = LastFour(m, v)
      BY <2>1 DEF t
    <2> QED
      BY <2>0, <2>2, <2>3, <2>4
  <1> QED
    BY <1>1, <1>2, <1>3

\* What a burst does not change.
SameUse(c, d) ==
    /\ d.active = c.active /\ d.ho = c.ho /\ d.started = c.started
    /\ d.last = c.last /\ d.since = c.since

LEMMA OpenedIs ==
    ASSUME NEW c \in Channels, NEW f \in Int
    PROVE  LET d == Opened(c, UlFn(f)) IN
           /\ d \in Channels /\ SameUse(c, d) /\ d.meas = c.meas
           /\ Bid(f) # 0 => d = c
           /\ Bid(f) = 0 => /\ d.mask = {} /\ d.first = UlFn(f) /\ d.rough = c.ho
                            /\ \A b \in 0 .. 3 : d.buf[b] = Zero
  <1>1. Bid(UlFn(f)) = Bid(f) /\ UlFn(f) \in 0 .. UlHyperframe - 1
    BY UlFnGrid, UlFnOf
  <1>2. CASE Bid(f) # 0
    <2>1. Opened(c, UlFn(f)) = c
      BY <1>1, <1>2 DEF Opened
    <2> QED
      BY <1>2, <2>1 DEF SameUse
  <1>3. CASE Bid(f) = 0
    <2> DEFINE d == [c EXCEPT !.buf = [b \in 0 .. 3 |-> Zero], !.mask = {}, !.first = UlFn(f), !.rough = c.ho]
    <2>1. Opened(c, UlFn(f)) = d
      BY <1>1, <1>3 DEF Opened
    <2>2. [b \in 0 .. 3 |-> Zero] \in [0 .. 3 -> -1 .. UlHyperframe - 1]
      BY UlTypes DEF Zero
    <2>3. d \in Channels
      BY <1>1, <2>2 DEF Channels
    <2>4. /\ SameUse(c, d) /\ d.meas = c.meas
          /\ d.mask = {} /\ d.first = UlFn(f) /\ d.rough = c.ho /\ d.buf = [b \in 0 .. 3 |-> Zero]
      BY DEF Channels, SameUse
    <2> QED
      BY <1>3, <2>1, <2>3, <2>4
  <1> QED
    BY <1>2, <1>3

Whats == {"data", "nope", "blank"}

LEMMA StoredIs ==
    ASSUME NEW c \in Channels, NEW f \in Int, Bid(f) <= 3, NEW what \in Whats, Len(c.meas) <= 4
    PROVE  LET d == Stored(c, UlFn(f), what) IN
           /\ d \in Channels /\ SameUse(c, d) /\ d.meas = LastFour(c.meas, UlFn(f))
           /\ d.mask = c.mask \cup {Bid(f)} /\ d.first = c.first /\ d.rough = c.rough
           /\ \A b \in 0 .. 3 : \/ d.buf[b] = c.buf[b]
                                \/ b = Bid(f) /\ d.buf[b] \in {Zero, UlFn(f)}
  <1>1. Bid(UlFn(f)) = Bid(f) /\ UlFn(f) \in 0 .. UlHyperframe - 1 /\ Bid(f) \in 0 .. 3
    <2>1. Bid(f) \in Int /\ Bid(f) >= 0
      BY GridFacts
    <2>2. Bid(UlFn(f)) = Bid(f) /\ UlFn(f) \in 0 .. UlHyperframe - 1
      BY UlFnGrid, UlFnOf
    <2> QED
      BY <2>1, <2>2
  <1> DEFINE buf == CASE what = "data" -> [c.buf EXCEPT ![Bid(f)] = UlFn(f)]
                      [] what = "nope" -> c.buf
                      [] what = "blank" -> [c.buf EXCEPT ![Bid(f)] = Zero]
             d == [c EXCEPT !.mask = c.mask \cup {Bid(f)}, !.buf = buf, !.meas = LastFour(c.meas, UlFn(f))]
  <1>2. Stored(c, UlFn(f), what) = d
    BY <1>1 DEF Stored, LastFour
  <1>3. /\ c.buf \in [0 .. 3 -> -1 .. UlHyperframe - 1] /\ c.meas \in Seq(0 .. UlHyperframe - 1)
        /\ c.mask \subseteq 0 .. 3
    BY DEF Channels
  <1>4. /\ buf \in [0 .. 3 -> -1 .. UlHyperframe - 1]
        /\ \A b \in 0 .. 3 : buf[b] = c.buf[b] \/ (b = Bid(f) /\ buf[b] \in {Zero, UlFn(f)})
    <2>1. CASE what = "data"
      <3>1. buf = [c.buf EXCEPT ![Bid(f)] = UlFn(f)]
        BY <2>1
      <3> HIDE DEF buf
      <3>2. UlFn(f) \in -1 .. UlHyperframe - 1
        BY <1>1, UlTypes
      <3> QED
        BY <1>1, <1>3, <3>1, <3>2
    <2>2. CASE what = "nope"
      <3>1. buf = c.buf
        BY <2>2
      <3> HIDE DEF buf
      <3> QED
        BY <1>3, <3>1
    <2>3. CASE what = "blank"
      <3>1. buf = [c.buf EXCEPT ![Bid(f)] = Zero]
        BY <2>3
      <3> HIDE DEF buf
      <3> QED
        BY <1>1, <1>3, <3>1, UlTypes, SMTT(30) DEF Zero
    <2> QED
      BY <2>1, <2>2, <2>3 DEF Whats
  <1>5. LastFour(c.meas, UlFn(f)) \in Seq(0 .. UlHyperframe - 1)
    BY <1>1, <1>3, KeptFacts
  <1> HIDE DEF buf
  <1>6. d \in Channels
    BY <1>1, <1>3, <1>4, <1>5 DEF Channels
  <1>7. /\ SameUse(c, d) /\ d.meas = LastFour(c.meas, UlFn(f))
        /\ d.mask = c.mask \cup {Bid(f)} /\ d.first = c.first /\ d.rough = c.rough /\ d.buf = buf
    BY DEF Channels, SameUse
  <1> HIDE DEF d
  <1> QED
    BY <1>2, <1>4, <1>6, <1>7

LEMMA TotalType ==
    ASSUME NEW n \in [Firsts -> Nat], NEW inds \in Seq(UlBlocks)
    PROVE  Total(n, inds) \in [Firsts -> Nat]
  <1> DEFINE b == [first |-> 0, buf |-> [i \in 0 .. 3 |-> 0], meas |-> <<>>, rough |-> TRUE]
  <1>1. b \in UlBlocks
    BY UlTypes DEF UlBlocks
  <1> HIDE DEF b
  <1> QED
    BY <1>1, TotalOfMore

AllWhole(inds) == \A i \in DOMAIN inds : ~inds[i].rough => Whole(inds[i])
AllMeasured(inds) == \A i \in DOMAIN inds : ~inds[i].rough => Measured(inds[i])

\* The measurements are those of the block in the buffers, up to the frame p; before f.
UlInOrder(c, p) == 0 \in c.mask /\ ~c.rough => MeasuredFrom(c.meas, Bid(p) + 1, c.first)
UlInOrderBefore(c, f) ==
    0 \in c.mask /\ ~c.rough /\ Bid(f) # 0 => MeasuredFrom(c.meas, Bid(f), c.first)

\* What comes of the channel c that has done n and inds, when f has been handled.
Comes(c, n, inds, r, f, k, s, st) ==
    /\ r.chan \in Channels /\ r.inds \in Seq(UlBlocks)
    /\ SameUse(c, r.chan) /\ Len(r.chan.meas) <= 4
    /\ Stands(r.chan, Total(n, r.inds), f, k, s, st)
    /\ AllWhole(inds) => AllWhole(r.inds)
    /\ UlInOrderBefore(c, f) => UlInOrder(r.chan, f) /\ (AllMeasured(inds) => AllMeasured(r.inds))

LEMMA RxFields ==
    ASSUME NEW c, NEW inds
    PROVE  Rx(c, inds).chan = c /\ Rx(c, inds).inds = inds
  BY DEF Rx

LEMMA AppendAll ==
    ASSUME NEW inds \in Seq(UlBlocks), NEW b \in UlBlocks
    PROVE  /\ AllWhole(inds) /\ (~b.rough => Whole(b)) => AllWhole(Append(inds, b))
           /\ AllMeasured(inds) /\ (~b.rough => Measured(b)) => AllMeasured(Append(inds, b))
  <1> DEFINE a == Append(inds, b)
  <1>1. /\ Len(inds) \in Nat /\ DOMAIN inds = 1 .. Len(inds) /\ DOMAIN a = 1 .. Len(inds) + 1
        /\ a[Len(inds) + 1] = b /\ \A i \in 1 .. Len(inds) : a[i] = inds[i]
    OBVIOUS
  <1> HIDE DEF a
  <1>2. \A i \in DOMAIN a : (i \in DOMAIN inds /\ a[i] = inds[i]) \/ a[i] = b
    BY <1>1
  <1>3. AllWhole(inds) /\ (~b.rough => Whole(b)) => AllWhole(a)
    BY <1>2, Zenon DEF AllWhole
  <1>4. AllMeasured(inds) /\ (~b.rough => Measured(b)) => AllMeasured(a)
    BY <1>2, Zenon DEF AllMeasured
  <1> QED
    BY <1>3, <1>4 DEF a

LEMMA Handled ==
    ASSUME NEW st \in Nat, NEW c \in Channels, NEW n \in [Firsts -> Nat],
           NEW inds \in Seq(UlBlocks), NEW what \in Whats,
           NEW f \in Int, NEW k \in Int, NEW s \in Int, Len(c.meas) <= 4,
           UlReady(c, Total(n, inds), f, k, s, st)
    PROVE  Comes(c, n, inds, rx_data_fn(Rx(c, inds), UlFn(f), what), f, k, s, st)
  <1> DEFINE r == rx_data_fn(Rx(c, inds), UlFn(f), what)
             o == Opened(c, UlFn(f))
             d == Stored(o, UlFn(f), what)
             t == Total(n, inds)
  <1>1. Bid(f) \in 0 .. 3 /\ Bid(UlFn(f)) = Bid(f) /\ t \in [Firsts -> Nat]
    <2>1. Bid(f) \in Int /\ Bid(f) >= 0 /\ Bid(f) <= 3
      BY GridFacts DEF UlReady
    <2>2. Bid(UlFn(f)) = Bid(f)
      BY UlFnGrid
    <2>3. t \in [Firsts -> Nat]
      BY TotalType
    <2> QED
      BY <2>1, <2>2, <2>3
  <1>11. Bid(f) <= 3
    BY DEF UlReady
  <1>2. /\ c.meas \in Seq(0 .. UlHyperframe - 1) /\ UlFn(f) \in 0 .. UlHyperframe - 1
        /\ c.mask \subseteq 0 .. 3 /\ c.ho \in BOOLEAN /\ c.rough \in BOOLEAN
        /\ UlFn(f) \in Int
    BY UlFnOf, UlTypes DEF Channels
  <1>3. /\ o \in Channels /\ SameUse(c, o) /\ o.meas = c.meas
        /\ Bid(f) # 0 => o = c
        /\ Bid(f) = 0 => /\ o.mask = {} /\ o.first = UlFn(f) /\ o.rough = c.ho
                         /\ \A b \in 0 .. 3 : o.buf[b] = Zero
    BY OpenedIs
  <1> HIDE DEF o
  <1>4. /\ d \in Channels /\ SameUse(o, d) /\ d.meas = LastFour(o.meas, UlFn(f))
        /\ d.mask = o.mask \cup {Bid(f)} /\ d.first = o.first /\ d.rough = o.rough
        /\ \A b \in 0 .. 3 : \/ d.buf[b] = o.buf[b]
                             \/ b = Bid(f) /\ d.buf[b] \in {Zero, UlFn(f)}
    <2>1. Bid(f) <= 3 /\ Len(o.meas) <= 4
      BY <1>1, <1>3
    <2> QED
      BY <1>3, <2>1, StoredIs
  <1> HIDE DEF d
  <1>5. /\ d.meas = LastFour(c.meas, UlFn(f)) /\ Len(d.meas) <= 4 /\ SameUse(c, d) /\ d.ho = c.ho
        /\ \A x \in Int : \A j \in 0 .. 3 :
                 MeasuredFrom(c.meas, j, x) /\ UlFn(f) = x + j => MeasuredFrom(d.meas, j + 1, x)
    <2>1. d.meas = LastFour(c.meas, UlFn(f)) /\ SameUse(c, d) /\ d.ho = c.ho
      BY <1>3, <1>4 DEF SameUse
    <2> QED
      BY <1>2, <2>1, KeptFacts
  <1> HIDE DEF t
  <1>6. UlReady(c, t, f, k, s, st)
    BY DEF t
  <1>7. r = IF c.ho /\ what = "data" THEN Rx(c, inds)
            ELSE IF Bid(f) # 3 THEN Rx(d, inds)
            ELSE Rx([d EXCEPT !.mask = {}],
                    IF 0 \in d.mask THEN Append(inds, Block(d)) ELSE inds)
    BY <1>1, RxFields, ZenonT(30) DEF rx_data_fn, d, o
  <1> HIDE DEF r
  <1>8. CASE c.ho /\ what = "data"
    <2>1. r.chan = c /\ r.inds = inds
      BY <1>7, <1>8, RxFields
    <2>2. Stands(c, t, f, k, s, st)
      BY <1>1, <1>6, <1>8, StepIgnored
    <2>3. c.rough
      BY <1>8 DEF UlReady
    <2>4. SameUse(c, c) /\ UlInOrder(c, f)
      BY <2>3 DEF SameUse, UlInOrder
    <2> QED
      BY <2>1, <2>2, <2>4 DEF Comes, r, t
  <1>9. CASE ~ (c.ho /\ what = "data") /\ Bid(f) # 3
    <2>1. r.chan = d /\ r.inds = inds
      BY <1>7, <1>9, RxFields
    <2>2. Stands(d, t, f, k, s, st)
      <3>1. CASE Bid(f) = 0
        <4>1. /\ d.mask = {0} /\ d.first = UlFn(f) /\ d.rough = c.ho
              /\ \A b \in 0 .. 3 : d.buf[b] \in {Zero, UlFn(f) + b}
          BY <1>2, <1>3, <1>4, <3>1, SMTT(30)
        <4> QED
          BY <1>1, <1>4, <1>5, <1>6, <3>1, <4>1, StepOpens
      <3>2. CASE Bid(f) # 0
        <4>1. o = c /\ Bid(f) \in {1, 2}
          BY <1>1, <1>3, <1>9, <3>2
        <4>2. /\ d.mask = c.mask \cup {Bid(f)} /\ d.first = c.first /\ d.rough = c.rough
              /\ \A b \in 0 .. 3 : d.buf[b] = c.buf[b] \/ (b = Bid(f) /\ d.buf[b] \in {Zero, UlFn(f)})
          BY <1>4, <4>1
        <4> QED
          BY <1>1, <1>4, <1>5, <1>6, <4>1, <4>2, StepStores
      <3> QED
        BY <3>1, <3>2
    <2>3. ASSUME UlInOrderBefore(c, f) PROVE UlInOrder(d, f)
      <3>1. SUFFICES ASSUME 0 \in d.mask, ~d.rough PROVE MeasuredFrom(d.meas, Bid(f) + 1, d.first)
        BY DEF UlInOrder
      <3>2. CASE Bid(f) = 0
        <4>1. MeasuredFrom(c.meas, 0, UlFn(f))
          <5>1. Len(c.meas) >= 0 /\ 1 .. 0 = {}
            BY <1>2
          <5> QED
            BY <5>1 DEF MeasuredFrom
        <4>2. UlFn(f) = UlFn(f) + 0 /\ 0 \in 0 .. 3
          BY <1>2
        <4>3. MeasuredFrom(d.meas, 0 + 1, UlFn(f))
          BY <1>2, <1>5, <4>1, <4>2
        <4> QED
          BY <1>3, <1>4, <3>2, <4>3
      <3>3. CASE Bid(f) # 0
        <4>1. o = c /\ d.first = c.first /\ d.rough = c.rough /\ 0 \in c.mask
          BY <1>3, <1>4, <3>1, <3>3
        <4>2. MeasuredFrom(c.meas, Bid(f), c.first)
          BY <2>3, <3>1, <3>3, <4>1 DEF UlInOrderBefore
        <4>3. OfBlock(c, f)
          BY <3>1, <3>3, <4>1 DEF UlReady
        <4>4. UlFn(f) = c.first + Bid(f) /\ c.first \in Int
          <5>1. UlFn(f) = UlFn(FirstOf(f)) + Bid(f) /\ UlFn(FirstOf(f)) \in Firsts
            BY <1>11, GridFacts
          <5> QED
            BY <4>3, <5>1 DEF OfBlock, Firsts
        <4> QED
          BY <1>1, <1>5, <4>1, <4>2, <4>4
      <3> QED
        BY <3>2, <3>3
    <2> QED
      BY <1>4, <1>5, <2>1, <2>2, <2>3 DEF Comes, r, t
  <1>10. CASE ~ (c.ho /\ what = "data") /\ Bid(f) = 3
    <2> DEFINE e == [d EXCEPT !.mask = {}]
               b == Block(d)
               all == IF 0 \in d.mask THEN Append(inds, b) ELSE inds
    <2>1. r.chan = e /\ r.inds = all
      BY <1>7, <1>10, RxFields
    <2>2. /\ e \in Channels /\ e.mask = {} /\ e.first = d.first /\ e.rough = d.rough
          /\ e.meas = d.meas /\ e.ho = c.ho /\ SameUse(c, e)
      BY <1>4, <1>5 DEF Channels, SameUse
    <2>3. /\ b \in UlBlocks /\ b.first = d.first /\ b.buf = d.buf /\ b.meas = d.meas
          /\ b.rough = d.rough
      BY <1>4 DEF Channels, UlBlocks, Block
    <2>4. /\ o = c /\ d.first = c.first /\ d.rough = c.rough
          /\ 0 \in d.mask <=> 0 \in c.mask
      BY <1>3, <1>4, <1>10
    <2> HIDE DEF e, b
    <2>5. /\ all \in Seq(UlBlocks)
          /\ 0 \notin c.mask => Total(n, all) = t
          /\ 0 \in c.mask => Total(n, all) = [x \in Firsts |-> t[x] + IF x = c.first THEN 1 ELSE 0]
      <3>1. CASE 0 \in c.mask
        <4>1. all = Append(inds, b)
          BY <2>4, <3>1
        <4>2. Append(inds, b) \in Seq(UlBlocks)
          BY <2>3
        <4>3. Total(n, Append(inds, b)) = [x \in Firsts |-> t[x] + IF x = b.first THEN 1 ELSE 0]
          BY <2>3, TotalOfMore DEF t
        <4> HIDE DEF all
        <4> QED
          BY <2>3, <2>4, <3>1, <4>1, <4>2, <4>3
      <3>2. CASE 0 \notin c.mask
        <4>1. all = inds
          BY <2>4, <3>2
        <4> HIDE DEF all
        <4> QED
          BY <3>2, <4>1 DEF t
      <3> QED
        BY <3>1, <3>2
    <2>6. Total(n, all) \in [Firsts -> Nat]
      BY <2>5, TotalType
    <2>7. /\ Stands(e, Total(n, all), f, k, s, st)
          /\ 0 \in c.mask /\ ~c.rough => OfBlock(c, f)
      <3> HIDE DEF all
      <3>1. Bid(f) = 3 /\ e.rough = c.rough
        BY <1>10, <2>2, <2>4
      <3>2. PICK m \in [Firsts -> Nat] : m = Total(n, all)
        BY <2>6
      <3>3. /\ 0 \notin c.mask => m = t
            /\ 0 \in c.mask => OneMore(m, t, c.first)
        BY <2>5, <3>2 DEF OneMore
      <3>4. t \in [Firsts -> Nat] /\ e \in Channels /\ e.mask = {} /\ e.ho = c.ho
        BY <1>1, <2>2
      <3>5. /\ Stands(e, m, f, k, s, st)
            /\ 0 \in c.mask /\ ~c.rough => OfBlock(c, f)
        BY <1>6, <3>1, <3>3, <3>4, StepCloses, Zenon
      <3> QED
        BY <3>2, <3>5
    <2>8. UlFn(f) = UlFn(FirstOf(f)) + 3 /\ UlFn(FirstOf(f)) \in Int
      <3>1. UlFn(f) = UlFn(FirstOf(f)) + Bid(f) /\ UlFn(FirstOf(f)) \in Firsts
        BY <1>11, GridFacts
      <3> QED
        BY <1>10, <3>1 DEF Firsts
    <2>9. AllWhole(inds) => AllWhole(all)
      <3>1. CASE 0 \in c.mask
        <4>1. ~b.rough => Whole(b)
          <5>1. SUFFICES ASSUME ~b.rough PROVE Whole(b)
            OBVIOUS
          <5>2. OfBlock(c, f)
            BY <2>3, <2>4, <2>7, <3>1, <5>1
          <5>3. ASSUME NEW i \in 0 .. 3 PROVE d.buf[i] \in {Zero, c.first + i}
            <6>1. d.buf[i] = c.buf[i] \/ (i = 3 /\ d.buf[i] \in {Zero, UlFn(f)})
              BY <1>4, <1>10, <2>4
            <6> QED
              BY <2>8, <5>2, <6>1 DEF OfBlock
          <5> QED
            BY <2>3, <2>4, <5>3 DEF Whole
        <4> QED
          BY <2>3, <2>4, <3>1, <4>1, AppendAll
      <3>2. CASE 0 \notin c.mask
        BY <2>4, <3>2
      <3> QED
        BY <3>1, <3>2
    <2>10. ASSUME UlInOrderBefore(c, f), AllMeasured(inds) PROVE AllMeasured(all)
      <3>1. CASE 0 \in c.mask
        <4>1. ~b.rough => Measured(b)
          <5>1. SUFFICES ASSUME ~b.rough PROVE Measured(b)
            OBVIOUS
          <5>2. ~c.rough /\ OfBlock(c, f)
            BY <2>3, <2>4, <2>7, <3>1, <5>1
          <5>3. MeasuredFrom(c.meas, 3, c.first)
            BY <1>10, <2>10, <3>1, <5>2 DEF UlInOrderBefore
          <5>4. UlFn(f) = c.first + 3 /\ c.first \in Int
            BY <2>8, <5>2 DEF OfBlock
          <5>5. MeasuredFrom(d.meas, 3 + 1, c.first)
            BY <1>5, <5>3, <5>4
          <5>6. d.meas \in Seq(0 .. UlHyperframe - 1) /\ Len(d.meas) <= 4
            BY <1>4, <1>5 DEF Channels
          <5>7. Len(d.meas) = 4
            <6>1. PICK j \in Nat : j = Len(d.meas)
              BY <5>6
            <6>2. j <= 4 /\ j >= 3 + 1
              BY <5>5, <5>6, <6>1 DEF MeasuredFrom
            <6>3. j = 4
              BY <6>2
            <6> QED
              BY <6>1, <6>3, Zenon
          <5>8. \A i \in 1 .. 4 : d.meas[i] = c.first + i - 1
            <6>1. \A i \in 1 .. 4 : d.meas[4 - 4 + i] = c.first + i - 1
              BY <5>5, <5>7 DEF MeasuredFrom
            <6> QED
              BY <6>1
          <5>9. d.meas = [i \in 1 .. 4 |-> c.first + i - 1]
            <6>1. DOMAIN d.meas = 1 .. 4 /\ d.meas = [i \in DOMAIN d.meas |-> d.meas[i]]
              BY <5>6, <5>7
            <6> QED
              BY <5>8, <6>1
          <5> QED
            BY <2>3, <2>4, <5>9, Zenon DEF Measured
        <4> QED
          BY <2>3, <2>4, <2>10, <3>1, <4>1, AppendAll
      <3>2. CASE 0 \notin c.mask
        BY <2>4, <2>10, <3>2
      <3> QED
        BY <3>1, <3>2
    <2>11. UlInOrder(e, f)
      BY <2>2 DEF UlInOrder
    <2>12. Len(e.meas) <= 4
      BY <1>5, <2>2
    <2> HIDE DEF all
    <2> QED
      BY <2>1, <2>2, <2>5, <2>7, <2>9, <2>10, <2>11, <2>12 DEF Comes, r
  <1> QED
    BY <1>8, <1>9, <1>10

-----------------------------------------------------------------------------
\* g is the course of trx_sched_calc_frame_loss() over m frames.
Substituting(g, c, fn, m) ==
    g = [i \in 0 .. m |->
           IF i = 0 THEN Rx(c, <<>>)
           ELSE LET f == UlFn(c.last + i)
                IN  IF i < Elapsed(c, fn) /\ Ours(f) THEN rx_data_fn(g[i - 1], f, "blank")
                                                     ELSE g[i - 1]]

\* There is a course over any number of frames.
LEMMA SubstitutingExists ==
    ASSUME NEW c, NEW fn, NEW m \in Nat
    PROVE  \E g : Substituting(g, c, fn, m)
  <1> DEFINE S == {k \in Nat : \E g : Substituting(g, c, fn, k)}
             After(x, i) == LET f == UlFn(c.last + i)
                            IN  IF i < Elapsed(c, fn) /\ Ours(f) THEN rx_data_fn(x, f, "blank") ELSE x
  <1>1. 0 \in S
    <2> DEFINE g == [i \in 0 .. 0 |-> Rx(c, <<>>)]
    <2>1. g = [i \in 0 .. 0 |-> IF i = 0 THEN Rx(c, <<>>) ELSE After(g[i - 1], i)]
      <3> HIDE DEF After
      <3> QED
        OBVIOUS
    <2>2. Substituting(g, c, fn, 0)
      BY <2>1 DEF Substituting
    <2> QED
      BY <2>2
  <1>2. ASSUME NEW k \in S PROVE k + 1 \in S
    <2>1. PICK g : Substituting(g, c, fn, k)
      OBVIOUS
    <2> DEFINE h == [i \in 0 .. (k + 1) |-> IF i = k + 1 THEN After(g[k], i) ELSE g[i]]
    <2>2. g = [i \in 0 .. k |-> IF i = 0 THEN Rx(c, <<>>) ELSE After(g[i - 1], i)]
      BY <2>1 DEF Substituting
    <2> HIDE DEF After
    <2>3. ASSUME NEW i \in 0 .. (k + 1)
          PROVE  h[i] = IF i = 0 THEN Rx(c, <<>>) ELSE After(h[i - 1], i)
      <3>1. CASE i = k + 1
        <4>1. i - 1 = k /\ h[i - 1] = g[k] /\ i # 0
          BY <3>1
        <4>2. h[i] = After(g[k], i)
          BY <3>1
        <4> HIDE DEF h
        <4> QED
          BY <4>1, <4>2
      <3>2. CASE i # k + 1
        <4>1. i \in 0 .. k /\ h[i] = g[i]
          BY <3>2
        <4>2. g[i] = IF i = 0 THEN Rx(c, <<>>) ELSE After(g[i - 1], i)
          BY <2>2, <4>1
        <4>3. i # 0 => h[i - 1] = g[i - 1]
          BY <4>1
        <4> HIDE DEF h
        <4> QED
          BY <4>1, <4>2, <4>3
      <3> QED
        BY <3>1, <3>2
    <2>4. h = [i \in 0 .. (k + 1) |-> IF i = 0 THEN Rx(c, <<>>) ELSE After(h[i - 1], i)]
      BY <2>3
    <2>5. Substituting(h, c, fn, k + 1)
      <3> HIDE DEF h
      <3> QED
        BY <2>4 DEF After, Substituting
    <2> QED
      BY <2>5
  <1> HIDE DEF S
  <1>3. Nat \subseteq S
    BY <1>1, <1>2, SetInduction
  <1> QED
    BY <1>3 DEF S

LEMMA SubstitutingSteps ==
    ASSUME NEW c, NEW fn, c.started, ~c.ho, ~TooMany(c, fn)
    PROVE  \E g : /\ trx_sched_calc_frame_loss(c, fn) = g[Period]
                  /\ g[0] = Rx(c, <<>>)
                  /\ \A i \in 1 .. Period :
                        g[i] = IF i < Elapsed(c, fn) /\ Ours(UlFn(c.last + i))
                               THEN rx_data_fn(g[i - 1], UlFn(c.last + i), "blank") ELSE g[i - 1]
  <1> DEFINE g == CHOOSE g : g = [i \in 0 .. Period |->
                     IF i = 0 THEN Rx(c, <<>>)
                     ELSE LET f == UlFn(c.last + i)
                          IN  IF i < Elapsed(c, fn) /\ Ours(f) THEN rx_data_fn(g[i - 1], f, "blank")
                                                               ELSE g[i - 1]]
  <1>0. Period \in Nat
    BY UlTypes
  <1>1. Substituting(g, c, fn, Period)
    <2>1. \E h : Substituting(h, c, fn, Period)
      BY <1>0, SubstitutingExists
    <2> QED
      BY <2>1, Zenon DEF Substituting
  <1>2. trx_sched_calc_frame_loss(c, fn) = g[Period]
    BY DEF trx_sched_calc_frame_loss
  <1> HIDE DEF g
  <1>3. g[0] = Rx(c, <<>>)
    BY <1>0, <1>1 DEF Substituting
  <1>4. ASSUME NEW i \in 1 .. Period
        PROVE  g[i] = IF i < Elapsed(c, fn) /\ Ours(UlFn(c.last + i))
                      THEN rx_data_fn(g[i - 1], UlFn(c.last + i), "blank") ELSE g[i - 1]
    <2>1. i \in 0 .. Period /\ i # 0
      BY <1>0
    <2> QED
      BY <1>1, <2>1, Zenon DEF Substituting
  <1> QED
    BY <1>2, <1>3, <1>4

\* The last frame of all, with f.
Later(h, f) == IF h >= f THEN h ELSE f

\* What comes of the channel c, that had got up to p, when the frames up to q are made up.
MadeUp(c, n, r, p, q, h, s, st) ==
    /\ r.chan \in Channels /\ r.inds \in Seq(UlBlocks)
    /\ SameUse(c, r.chan) /\ Len(r.chan.meas) <= 4
    /\ Stands(r.chan, Total(n, r.inds), q, Later(h, q), s, st)
    /\ AllWhole(r.inds)
    /\ UlInOrder(c, p) => UlInOrder(r.chan, q) /\ AllMeasured(r.inds)

LEMMA BlankStep ==
    ASSUME NEW st \in Nat, NEW c \in Channels, NEW n \in [Firsts -> Nat],
           NEW p \in Int, NEW q \in Int, NEW h \in Int, NEW s \in Int,
           NEW r, MadeUp(c, n, r, p, q, h, s, st), ~c.ho,
           st <= q, q + 1 <= st + MaxFrames
    PROVE  /\ Bid(q + 1) <= 3 =>
                 MadeUp(c, n, rx_data_fn(r, UlFn(q + 1), "blank"), p, q + 1, h, s, st)
           /\ Bid(q + 1) > 3 => MadeUp(c, n, r, p, q + 1, h, s, st)
  <1> DEFINE t == Total(n, r.inds)
             k == Later(h, q)
  <1>1. /\ r.chan \in Channels /\ r.inds \in Seq(UlBlocks) /\ ~r.chan.ho /\ Len(r.chan.meas) <= 4
        /\ SameUse(c, r.chan) /\ Stands(r.chan, t, q, k, s, st)
        /\ t \in [Firsts -> Nat] /\ k \in Int
    BY TotalType DEF MadeUp, SameUse, Later
  <1>2. Later(h, q + 1) = IF k >= q + 1 THEN k ELSE q + 1
    BY DEF Later
  <1>3. q + 1 \in Int /\ Later(h, q + 1) \in Int
    BY DEF Later
  <1> HIDE DEF t, k
  <1>4. CASE Bid(q + 1) <= 3
    <2> DEFINE o == rx_data_fn(Rx(r.chan, r.inds), UlFn(q + 1), "blank")
    <2>1. rx_data_fn(r, UlFn(q + 1), "blank") = o
      BY RxFields, SMTT(30) DEF rx_data_fn
    <2>2. UlReady(r.chan, t, q + 1, Later(h, q + 1), s, st)
      <3>1. Alike(r.chan, r.chan) /\ st <= q + 1
        BY DEF Alike
      <3> QED
        BY <1>1, <1>2, <1>4, <3>1, ReadyNext
    <2>3. Comes(r.chan, n, r.inds, o, q + 1, Later(h, q + 1), s, st)
      <3>1. "blank" \in Whats
        BY DEF Whats
      <3> QED
        BY <1>1, <1>3, <2>2, <3>1, Handled DEF t
    <2> HIDE DEF o
    <2>4. SameUse(c, o.chan)
      BY <1>1, <2>3 DEF Comes, SameUse
    <2>5. UlInOrder(r.chan, q) => UlInOrderBefore(r.chan, q + 1)
      <3>1. Bid(q) <= Period - 1 /\ Period >= 4 /\ Period \in Int /\ Bid(q) \in Int
        BY Grid, UlTypes
      <3>2. Bid(q + 1) # 0 => Bid(q + 1) = Bid(q) + 1
        BY <3>1, GridNext
      <3> QED
        BY <3>2 DEF UlInOrder, UlInOrderBefore
    <2>6. MadeUp(c, n, o, p, q + 1, h, s, st)
      BY <2>3, <2>4, <2>5 DEF MadeUp, Comes
    <2> QED
      BY <1>3, <1>4, <2>1, <2>6, GridFacts
  <1>5. CASE Bid(q + 1) > 3
    <2>1. k = q /\ Stands(r.chan, t, q + 1, q + 1, s, st)
      BY <1>1, <1>5, StandsNext
    <2>2. Later(h, q + 1) = q + 1
      BY <1>2, <2>1
    <2>3. Stands(r.chan, t, q + 1, Later(h, q + 1), s, st)
      BY <2>1, <2>2
    <2>4. UlInOrder(r.chan, q + 1)
      <3>1. Bid(q + 1) \in Int
        BY <1>3, GridFacts
      <3> QED
        BY <1>5, <2>1, <3>1 DEF Stands, UlInOrder
    <2>5. MadeUp(c, n, r, p, q + 1, h, s, st)
      BY <2>3, <2>4 DEF MadeUp, t
    <2> QED
      BY <1>3, <1>5, <2>5, GridFacts
  <1>6. Bid(q + 1) \in Int
    BY <1>3, GridFacts
  <1> QED
    BY <1>4, <1>5, <1>6

\* The frames between the last one and the one that arrives, which is no more than a
\* multiframe later.
LEMMA Substituted ==
    ASSUME NEW st \in Nat, NEW c \in Channels, NEW n \in [Firsts -> Nat],
           NEW p \in Int, NEW h \in Int, NEW s \in Int, Stands(c, n, p, h, s, st),
           c.started, ~c.ho, c.last = UlFn(p), Len(c.meas) <= 4,
           NEW f \in Int, p < f, f - p <= Period, st <= p, f <= st + MaxFrames,
           Elapsed(c, UlFn(f)) = f - p
    PROVE  MadeUp(c, n, trx_sched_calc_frame_loss(c, UlFn(f)), p, f - 1, h, s, st)
  <1>1. ~TooMany(c, UlFn(f)) /\ Period \in Nat \ {0} /\ MaxFrames \in Nat
    BY UlTypes DEF TooMany
  <1>2. PICK g : /\ trx_sched_calc_frame_loss(c, UlFn(f)) = g[Period]
                 /\ g[0] = Rx(c, <<>>)
                 /\ \A i \in 1 .. Period :
                        g[i] = IF i < Elapsed(c, UlFn(f)) /\ Ours(UlFn(c.last + i))
                               THEN rx_data_fn(g[i - 1], UlFn(c.last + i), "blank") ELSE g[i - 1]
    BY <1>1, SubstitutingSteps
  <1>3. ASSUME NEW i \in Nat, i < f - p
        PROVE  /\ UlFn(c.last + i) = UlFn(p + i)
               /\ Ours(UlFn(c.last + i)) <=> Bid(p + i) <= 3
    <2>1. UlFn(c.last + i) = UlFn(p + i)
      BY UlFnAdds
    <2>2. PICK a \in Int : a = p + i
      OBVIOUS
    <2>3. Bid(UlFn(a)) = Bid(a) /\ Bid(a) \in Int /\ Bid(a) >= 0
      <3>1. Bid(UlFn(a)) = Bid(a)
        BY UlFnGrid
      <3> QED
        BY <3>1, GridFacts
    <2>4. Ours(UlFn(a)) <=> Bid(a) <= 3
      <3>1. Ours(UlFn(a)) <=> Bid(UlFn(a)) \in 0 .. 3
        BY DEF Ours, Bid
      <3> QED
        BY <2>3, <3>1
    <2> QED
      BY <2>1, <2>2, <2>4
  <1> DEFINE S == {i \in Nat : i < f - p => MadeUp(c, n, g[i], p, p + i, h, s, st)}
             T == {i \in Nat : f - p - 1 + i <= Period => g[f - p - 1 + i] = g[f - p - 1]}
  <1>4. 0 \in S
    <2>1. /\ g[0].chan = c /\ g[0].inds = <<>>
      BY <1>2, RxFields
    <2>2. Total(n, <<>>) = n
      BY TotalOfNone
    <2>3. Later(h, p) = h
      BY DEF Later, Stands
    <2>4. PICK q : q = <<>>
      OBVIOUS
    <2>5. q \in Seq(UlBlocks) /\ AllWhole(q) /\ AllMeasured(q)
      BY <2>4 DEF AllWhole, AllMeasured
    <2>6. SameUse(c, c)
      BY DEF SameUse
    <2>7. MadeUp(c, n, g[0], p, p, h, s, st)
      BY <2>1, <2>2, <2>3, <2>4, <2>5, <2>6 DEF MadeUp
    <2>8. p + 0 = p
      OBVIOUS
    <2> QED
      BY <2>7, <2>8
  <1>5. ASSUME NEW i \in S PROVE i + 1 \in S
    <2>1. SUFFICES ASSUME i + 1 < f - p PROVE MadeUp(c, n, g[i + 1], p, p + (i + 1), h, s, st)
      OBVIOUS
    <2>2. PICK q \in Int : q = p + i
      OBVIOUS
    <2>3. /\ MadeUp(c, n, g[i], p, q, h, s, st) /\ st <= q /\ q + 1 <= st + MaxFrames
          /\ q + 1 = p + (i + 1) /\ i + 1 \in 1 .. Period /\ (i + 1) - 1 = i /\ i + 1 \in Nat
      BY <1>1, <2>1, <2>2
    <2>4. g[i + 1] = IF Bid(q + 1) <= 3 THEN rx_data_fn(g[i], UlFn(q + 1), "blank") ELSE g[i]
      <3>1. /\ UlFn(c.last + (i + 1)) = UlFn(q + 1)
            /\ Ours(UlFn(c.last + (i + 1))) <=> Bid(q + 1) <= 3
        BY <1>3, <2>1, <2>3
      <3>2. i + 1 < Elapsed(c, UlFn(f))
        BY <2>1
      <3>3. g[i + 1] = IF i + 1 < Elapsed(c, UlFn(f)) /\ Ours(UlFn(c.last + (i + 1)))
                       THEN rx_data_fn(g[(i + 1) - 1], UlFn(c.last + (i + 1)), "blank")
                       ELSE g[(i + 1) - 1]
        BY <1>2, <2>3
      <3> QED
        BY <2>3, <3>1, <3>2, <3>3, Zenon
    <2>5. /\ Bid(q + 1) <= 3 =>
                MadeUp(c, n, rx_data_fn(g[i], UlFn(q + 1), "blank"), p, q + 1, h, s, st)
          /\ ~ Bid(q + 1) <= 3 => MadeUp(c, n, g[i], p, q + 1, h, s, st)
      <3>1. Bid(q + 1) \in Int
        BY GridFacts
      <3>2. Bid(q + 1) > 3 <=> ~ Bid(q + 1) <= 3
        BY <3>1
      <3> QED
        BY <2>3, <3>2, BlankStep
    <2>6. MadeUp(c, n, g[i + 1], p, q + 1, h, s, st)
      BY <2>4, <2>5
    <2> QED
      BY <2>3, <2>6
  <1>6. 0 \in T
    OBVIOUS
  <1>7. ASSUME NEW i \in T PROVE i + 1 \in T
    <2>1. SUFFICES ASSUME f - p - 1 + (i + 1) <= Period PROVE g[f - p - 1 + (i + 1)] = g[f - p - 1]
      OBVIOUS
    <2>2. PICK j \in Nat : j = f - p - 1 + (i + 1)
      OBVIOUS
    <2>3. j \in 1 .. Period /\ ~ (j < Elapsed(c, UlFn(f))) /\ j - 1 = f - p - 1 + i /\ j - 1 <= Period
      BY <1>1, <2>1, <2>2
    <2>4. g[j] = g[j - 1]
      BY <1>2, <2>3
    <2>5. g[f - p - 1 + i] = g[f - p - 1]
      BY <2>3
    <2> QED
      BY <2>2, <2>3, <2>4, <2>5
  <1> HIDE DEF S, T
  <1>8. Nat \subseteq S /\ Nat \subseteq T
    BY <1>4, <1>5, <1>6, <1>7, SetInduction
  <1>9. g[Period] = g[f - p - 1]
    <2>1. PICK i \in Nat : i = Period - (f - p - 1)
      BY <1>1
    <2>2. f - p - 1 + i = Period /\ f - p - 1 + i <= Period
      BY <1>1, <2>1
    <2>3. g[f - p - 1 + i] = g[f - p - 1]
      BY <1>8, <2>2 DEF T
    <2> QED
      BY <2>2, <2>3
  <1>10. MadeUp(c, n, g[f - p - 1], p, f - 1, h, s, st)
    <2>1. PICK i \in Nat : i = f - p - 1
      OBVIOUS
    <2>2. i < f - p /\ p + i = f - 1
      BY <2>1
    <2>3. MadeUp(c, n, g[i], p, p + i, h, s, st)
      BY <1>8, <2>2 DEF S
    <2> QED
      BY <2>1, <2>2, <2>3
  <1> QED
    BY <1>2, <1>9, <1>10

-----------------------------------------------------------------------------
\* The channel when a burst is handled, where m is what the lost frames have made of it.
Arrived(m, c, fn) ==
    [m EXCEPT !.last = fn, !.started = TRUE, !.rough = m.rough \/ Gap(c, fn), !.since = FollowedSince(c, fn)]

ArrivedFrom(m, c, f, d) ==
    /\ d \in Channels /\ Alike(m, d) /\ d.meas = m.meas /\ d.active = m.active
    /\ d.started = TRUE /\ d.last = UlFn(f)
    /\ d.rough = (m.rough \/ Gap(c, UlFn(f))) /\ d.since = FollowedSince(c, UlFn(f))
    /\ c.ho => d.since = UlFn(f + 1)
    /\ ~c.ho /\ (Gap(c, UlFn(f)) \/ ~c.started) => d.since = UlFn(f)
    /\ ~c.ho /\ ~Gap(c, UlFn(f)) /\ c.started => d.since = c.since

LEMMA ArrivedIs ==
    ASSUME NEW m \in Channels, NEW c \in Channels, NEW f \in Int
    PROVE  ArrivedFrom(m, c, f, Arrived(m, c, UlFn(f)))
  <1>1. UlFn(f) \in 0 .. UlHyperframe - 1 /\ UlFn(f + 1) \in 0 .. UlHyperframe - 1
    <2>1. f + 1 \in Int
      OBVIOUS
    <2> QED
      BY <2>1, UlFnOf
  <1>2. UlFn(UlFn(f) + 1) = UlFn(f + 1)
    BY UlFnAdds
  <1>3. /\ c.ho => FollowedSince(c, UlFn(f)) = UlFn(f + 1)
        /\ ~c.ho /\ (Gap(c, UlFn(f)) \/ ~c.started) => FollowedSince(c, UlFn(f)) = UlFn(f)
        /\ ~c.ho /\ ~Gap(c, UlFn(f)) /\ c.started => FollowedSince(c, UlFn(f)) = c.since
    BY <1>2 DEF FollowedSince
  <1>4. c.since \in 0 .. UlHyperframe - 1
    BY DEF Channels
  <1>5. FollowedSince(c, UlFn(f)) \in 0 .. UlHyperframe - 1
    BY <1>1, <1>3, <1>4
  <1>6. PICK v \in 0 .. UlHyperframe - 1, w \in 0 .. UlHyperframe - 1, g \in BOOLEAN :
            v = UlFn(f) /\ w = FollowedSince(c, UlFn(f)) /\ g = (m.rough \/ Gap(c, UlFn(f)))
    <2>1. (m.rough \/ Gap(c, UlFn(f))) \in BOOLEAN
      OBVIOUS
    <2> QED
      BY <1>1, <1>5, <2>1
  <1> DEFINE d == [m EXCEPT !.last = v, !.started = TRUE, !.rough = g, !.since = w]
  <1>7. Arrived(m, c, UlFn(f)) = d
    BY <1>6 DEF Arrived
  <1>8. d \in Channels
    BY DEF Channels
  <1>9. /\ Alike(m, d) /\ d.meas = m.meas /\ d.active = m.active
        /\ d.started = TRUE /\ d.last = v /\ d.rough = g /\ d.since = w
    BY DEF Channels, Alike
  <1> HIDE DEF d
  <1>10. ArrivedFrom(m, c, f, d)
    BY <1>3, <1>6, <1>8, <1>9 DEF ArrivedFrom
  <1> QED
    BY <1>7, <1>10

LEMMA ReceivedIs ==
    ASSUME NEW c, NEW fn, NEW what
    PROVE  LET m == trx_sched_calc_frame_loss(c, fn) IN
           Received(c, fn, what) = rx_data_fn(Rx(Arrived(m.chan, c, fn), m.inds), fn, what)
  BY DEF Received, Arrived

\* A frame that was handled already.
LEMMA NothingSubstituted ==
    ASSUME NEW c, NEW fn, ~c.started \/ c.ho \/ TooMany(c, fn) \/ Elapsed(c, fn) = 0
    PROVE  trx_sched_calc_frame_loss(c, fn) = Rx(c, <<>>)
  <1>1. CASE ~c.started \/ c.ho \/ TooMany(c, fn)
    BY <1>1 DEF trx_sched_calc_frame_loss
  <1>2. CASE c.started /\ ~c.ho /\ ~TooMany(c, fn) /\ Elapsed(c, fn) = 0
    <2>1. PICK g : /\ trx_sched_calc_frame_loss(c, fn) = g[Period]
                   /\ g[0] = Rx(c, <<>>)
                   /\ \A i \in 1 .. Period :
                        g[i] = IF i < Elapsed(c, fn) /\ Ours(UlFn(c.last + i))
                               THEN rx_data_fn(g[i - 1], UlFn(c.last + i), "blank") ELSE g[i - 1]
      BY <1>2, SubstitutingSteps
    <2>2. \A i \in 1 .. Period : g[i] = g[i - 1]
      <3>1. \A i \in 1 .. Period : ~ (i < 0)
        BY UlTypes
      <3> QED
        BY <1>2, <2>1, <3>1
    <2> DEFINE S == {i \in Nat : i <= Period => g[i] = g[0]}
    <2>3. 0 \in S
      OBVIOUS
    <2>4. ASSUME NEW i \in S PROVE i + 1 \in S
      <3>1. SUFFICES ASSUME i + 1 <= Period PROVE g[i + 1] = g[0]
        OBVIOUS
      <3>2. i + 1 \in 1 .. Period /\ (i + 1) - 1 = i /\ i <= Period
        BY <3>1, UlTypes
      <3>3. g[i + 1] = g[(i + 1) - 1]
        BY <2>2, <3>2
      <3> QED
        BY <3>2, <3>3
    <2> HIDE DEF S
    <2>5. Nat \subseteq S
      BY <2>3, <2>4, SetInduction
    <2>6. g[Period] = g[0]
      BY <2>5, UlTypes DEF S
    <2> QED
      BY <2>1, <2>6
  <1> QED
    BY <1>1, <1>2

\* A channel ready for the frame f, when what is lost has been made up.
Prepared(c, n, f, k, t, st, inorder) ==
    LET m == trx_sched_calc_frame_loss(c, UlFn(f))
        d == Arrived(m.chan, c, UlFn(f))
    IN  /\ m.chan \in Channels /\ m.inds \in Seq(UlBlocks) /\ d \in Channels
        /\ UlReady(d, Total(n, m.inds), f, k, t, st)
        /\ d.since = UlFn(t) /\ d.last = UlFn(f) /\ d.started /\ d.active = c.active
        /\ AllWhole(m.inds) /\ Len(d.meas) <= 4
        /\ inorder => UlInOrderBefore(d, f) /\ AllMeasured(m.inds)

\* Where nothing is made up.
LEMMA PreparedBare ==
    ASSUME NEW st \in Nat, NEW c \in Channels, NEW n \in [Firsts -> Nat], Len(c.meas) <= 4,
           NEW f \in Int, NEW k \in Int, NEW t \in Int, NEW inorder \in BOOLEAN,
           trx_sched_calc_frame_loss(c, UlFn(f)) = Rx(c, <<>>),
           UlReady(Arrived(c, c, UlFn(f)), n, f, k, t, st),
           FollowedSince(c, UlFn(f)) = UlFn(t),
           inorder => UlInOrderBefore(Arrived(c, c, UlFn(f)), f)
    PROVE  Prepared(c, n, f, k, t, st, inorder)
  <1> DEFINE d == Arrived(c, c, UlFn(f))
             m == trx_sched_calc_frame_loss(c, UlFn(f))
  <1>1. PICK q : q = <<>>
    OBVIOUS
  <1>2. m.chan = c /\ m.inds = q
    BY <1>1, RxFields
  <1>3. q \in Seq(UlBlocks) /\ AllWhole(q) /\ AllMeasured(q)
    BY <1>1 DEF AllWhole, AllMeasured
  <1>4. Total(n, q) = n
    BY <1>1, TotalOfNone
  <1>5. /\ d \in Channels /\ d.meas = c.meas /\ d.active = c.active
        /\ d.started = TRUE /\ d.last = UlFn(f) /\ d.since = FollowedSince(c, UlFn(f))
    <2>1. ArrivedFrom(c, c, f, d)
      BY ArrivedIs
    <2> HIDE DEF d
    <2> QED
      BY <2>1 DEF ArrivedFrom
  <1>6. UlReady(d, n, f, k, t, st) /\ (inorder => UlInOrderBefore(d, f))
    OBVIOUS
  <1> HIDE DEF d, m
  <1>7. d = Arrived(m.chan, c, UlFn(f))
    BY <1>2 DEF d
  <1> QED
    BY <1>2, <1>3, <1>4, <1>5, <1>6, <1>7 DEF Prepared, m

NoneDone(n) == \A x \in Firsts : n[x] = 0

LEMMA PreparedFirst ==
    ASSUME NEW st \in Nat, NEW c \in Channels, NEW n \in [Firsts -> Nat], Len(c.meas) <= 4,
           NEW f \in Int, st <= f, f <= st + MaxFrames, Bid(f) <= 3,
           ~c.started, c.ho => c.rough, c.mask = {}, NoneDone(n)
    PROVE  \E t \in {f, f + 1} : Prepared(c, n, f, f, t, st, TRUE)
  <1> DEFINE d == Arrived(c, c, UlFn(f))
             t == IF c.ho THEN f + 1 ELSE f
  <1>1. ~Gap(c, UlFn(f)) /\ trx_sched_calc_frame_loss(c, UlFn(f)) = Rx(c, <<>>)
    BY NothingSubstituted DEF Gap
  <1>2. /\ d \in Channels /\ Alike(c, d) /\ d.since = FollowedSince(c, UlFn(f))
        /\ d.rough = (c.rough \/ Gap(c, UlFn(f)))
        /\ c.ho => d.since = UlFn(f + 1)
        /\ ~c.ho /\ (Gap(c, UlFn(f)) \/ ~c.started) => d.since = UlFn(f)
    <2>1. ArrivedFrom(c, c, f, d)
      BY ArrivedIs
    <2> HIDE DEF d
    <2> QED
      BY <2>1 DEF ArrivedFrom
  <1>3. t \in {f, f + 1} /\ t \in Int /\ FollowedSince(c, UlFn(f)) = UlFn(t)
    BY <1>2
  <1> HIDE DEF d
  <1>4. d.mask = {} /\ (d.ho => d.rough) /\ ((t = f /\ ~d.ho) \/ t = f + 1)
    BY <1>2 DEF Alike
  <1> HIDE DEF t
  <1>5. UlReady(d, n, f, f, t, st)
    BY <1>2, <1>3, <1>4, ReadyFirst DEF NoneDone
  <1>6. UlInOrderBefore(d, f)
    BY <1>4 DEF UlInOrderBefore
  <1>7. Prepared(c, n, f, f, t, st, TRUE)
    BY <1>1, <1>3, <1>5, <1>6, PreparedBare DEF d
  <1> QED
    BY <1>3, <1>7

\* Arithmetic of frame numbers, apart from the state.
LEMMA WithinHyperframe ==
    ASSUME NEW u \in Nat, NEW mf \in Nat, 2 * mf + 8 <= u,
           NEW st \in Nat, NEW l \in Int, NEW h \in Int, NEW f \in Int,
           l <= h, h <= st + mf, st <= l, st <= f, f + 1 <= st + mf
    PROVE  f - l < u /\ l - f <= u
  OBVIOUS

LEMMA AheadInt ==
    ASSUME NEW u \in Nat, NEW l \in Int, NEW f \in Int,
           NEW e, e = IF f >= l THEN f - l ELSE f - l + u
    PROVE  e \in Int
  OBVIOUS

LEMMA HalfRange ==
    ASSUME NEW p \in Nat, NEW u \in Nat, NEW v \in Int
    PROVE  v \in p + 1 .. u \div 2 <=> p < v /\ 2 * v <= u
  OBVIOUS

LEMMA PreparedNext ==
    ASSUME NEW st \in Nat, NEW c \in Channels, NEW n \in [Firsts -> Nat], Len(c.meas) <= 4,
           NEW l \in Int, NEW h \in Int, NEW s \in Int, Stands(c, n, l, h, s, st), Bid(h) <= 3,
           c.started, c.last = UlFn(l), c.since = UlFn(s), st <= l,
           NEW f \in Int, st <= f, f + 1 <= st + MaxFrames, Bid(f) <= 3,
           h - 2 <= f, FirstOf(h) <= FirstOf(f)
    PROVE  \E t \in {s, f, f + 1} :
              Prepared(c, n, f, Later(h, f), t, st, h < f /\ l = h /\ UlInOrder(c, l))
  <1> DEFINE d == Arrived(c, c, UlFn(f))
             inorder == h < f /\ l = h /\ UlInOrder(c, l)
             e == Elapsed(c, UlFn(f))
  <1>1. /\ MaxFrames \in Nat /\ Period \in Nat /\ Period >= 4 /\ UlHyperframe \in Nat
        /\ 2 * MaxFrames + 8 <= UlHyperframe /\ 2 * Period <= UlHyperframe
    BY UlTypes
  <1>2. /\ l <= h /\ h <= l + 2 /\ h <= st + MaxFrames /\ c.rough \in BOOLEAN /\ c.ho \in BOOLEAN
        /\ c.ho => c.rough
    BY DEF Stands, Channels
  <1>3. e = IF f >= l THEN f - l ELSE f - l + UlHyperframe
    <2>1. e = UlFn(UlFn(f) - UlFn(l) + UlHyperframe)
      BY DEF Elapsed
    <2> HIDE DEF d, inorder, e
    <2>2. f - l < UlHyperframe /\ l - f <= UlHyperframe
      BY <1>1, <1>2, WithinHyperframe
    <2> QED
      BY <2>1, <2>2, UlFnElapsed
  <1>4. /\ d \in Channels /\ Alike(c, d) /\ d.since = FollowedSince(c, UlFn(f))
        /\ d.rough = (c.rough \/ Gap(c, UlFn(f)))
        /\ c.ho => d.since = UlFn(f + 1)
        /\ ~c.ho /\ (Gap(c, UlFn(f)) \/ ~c.started) => d.since = UlFn(f)
        /\ ~c.ho /\ ~Gap(c, UlFn(f)) /\ c.started => d.since = c.since
    <2>1. ArrivedFrom(c, c, f, d)
      BY ArrivedIs
    <2> HIDE DEF d
    <2> QED
      BY <2>1 DEF ArrivedFrom
  <1>5. f <= h => FirstOf(f) = FirstOf(h)
    <2>1. /\ FirstOf(f) \in Int /\ FirstOf(h) \in Int /\ FirstOf(f) + Bid(f) = f
          /\ Bid(f) \in Int /\ Bid(f) >= 0 /\ Bid(FirstOf(f)) = 0
      BY GridFacts
    <2>2. f <= h => FirstOf(f) <= FirstOf(h)
      BY <2>1, GridZero
    <2> QED
      BY <2>1, <2>2
  <1>6. inorder \in BOOLEAN /\ Later(h, f) \in Int
    BY DEF Later
  <1> HIDE DEF d, e
  <1>7. Gap(c, UlFn(f)) <=> Period < e /\ 2 * e <= UlHyperframe
    <2>0. e \in Int
      BY <1>1, <1>3, AheadInt
    <2>1. PICK v \in Int : v = e
      BY <2>0
    <2>2. v \in Period + 1 .. UlHyperframe \div 2 <=> Period < v /\ 2 * v <= UlHyperframe
      BY <1>1, HalfRange
    <2> QED
      BY <2>1, <2>2 DEF Gap, e
  <1>8. CASE c.ho
    <2>1. trx_sched_calc_frame_loss(c, UlFn(f)) = Rx(c, <<>>) /\ FollowedSince(c, UlFn(f)) = UlFn(f + 1)
      BY <1>4, <1>8, NothingSubstituted
    <2>2. d.rough /\ d.rough = c.rough
      BY <1>2, <1>4, <1>8
    <2>3. UlReady(d, n, f, Later(h, f), f + 1, st)
      <3>1. CASE h >= f
        <4>1. UlReady(d, n, f, h, f + 1, st)
          BY <1>4, <1>5, <2>2, <3>1, ReadyLate
        <4> QED
          BY <3>1, <4>1 DEF Later
      <3>2. CASE h < f
        <4>1. UlReady(d, n, f, f, f + 1, st)
          BY <1>1, <1>4, <2>2, <3>2, ReadyFar, SMTT(30)
        <4> QED
          BY <3>2, <4>1 DEF Later
      <3> QED
        BY <3>1, <3>2
    <2>4. UlInOrderBefore(d, f)
      BY <2>2 DEF UlInOrderBefore
    <2> HIDE DEF inorder
    <2>5. Prepared(c, n, f, Later(h, f), f + 1, st, inorder)
      <3>1. f + 1 \in Int
        OBVIOUS
      <3> QED
        BY <1>6, <2>1, <2>3, <2>4, <3>1, PreparedBare, SMTT(30) DEF d
    <2> QED
      BY <2>5 DEF inorder
  <1>9. CASE ~c.ho /\ f <= l
    <2>1. /\ ~Gap(c, UlFn(f)) /\ (TooMany(c, UlFn(f)) \/ Elapsed(c, UlFn(f)) = 0)
          /\ f <= h
      <3>1. CASE f = l
        <4>1. e = 0
          BY <1>3, <3>1
        <4> QED
          BY <1>1, <1>2, <1>7, <3>1, <4>1 DEF e
      <3>2. CASE f # l
        <4>1. e = f - l + UlHyperframe /\ f < l
          BY <1>3, <1>9, <3>2
        <4>2. e > Period /\ ~ (2 * e <= UlHyperframe) /\ f <= h
          BY <1>1, <1>2, <4>1
        <4> QED
          BY <1>7, <4>2 DEF e, TooMany
      <3> QED
        BY <3>1, <3>2
    <2>2. trx_sched_calc_frame_loss(c, UlFn(f)) = Rx(c, <<>>) /\ FollowedSince(c, UlFn(f)) = UlFn(s)
      BY <1>4, <1>9, <2>1, NothingSubstituted
    <2>3. d.rough = c.rough
      BY <1>2, <1>4, <2>1
    <2>4. UlReady(d, n, f, Later(h, f), s, st)
      <3>1. UlReady(d, n, f, h, s, st)
        BY <1>4, <1>5, <1>9, <2>1, <2>3, ReadyLate
      <3> QED
        BY <2>1, <3>1 DEF Later
    <2>5. ~inorder
      BY <2>1
    <2> HIDE DEF inorder
    <2>6. Prepared(c, n, f, Later(h, f), s, st, inorder)
      BY <1>6, <2>2, <2>4, <2>5, PreparedBare DEF d
    <2> QED
      BY <2>6 DEF inorder
  <1>10. CASE ~c.ho /\ f > l /\ f - l > Period
    <2>1. e = f - l /\ h < f
      BY <1>1, <1>2, <1>3, <1>10
    <2>2. Gap(c, UlFn(f)) /\ TooMany(c, UlFn(f))
      <3>1. Period < e /\ 2 * e <= UlHyperframe
        <4>1. PICK v \in Int : v = f - l
          OBVIOUS
        <4>2. Period < v /\ 2 * v <= UlHyperframe
          BY <1>1, <1>10, <4>1
        <4> QED
          BY <2>1, <4>1, <4>2
      <3> QED
        BY <1>7, <3>1 DEF e, TooMany
    <2>3. trx_sched_calc_frame_loss(c, UlFn(f)) = Rx(c, <<>>) /\ FollowedSince(c, UlFn(f)) = UlFn(f)
      BY <1>4, <1>10, <2>2, NothingSubstituted
    <2>4. d.rough
      BY <1>4, <2>2
    <2>5. UlReady(d, n, f, Later(h, f), f, st)
      <3>1. f <= st + MaxFrames
        BY <1>1
      <3>2. UlReady(d, n, f, f, f, st)
        BY <1>4, <1>10, <2>1, <2>4, <3>1, ReadyFar
      <3> QED
        BY <2>1, <3>2 DEF Later
    <2>6. UlInOrderBefore(d, f)
      BY <2>4 DEF UlInOrderBefore
    <2> HIDE DEF inorder
    <2>7. Prepared(c, n, f, Later(h, f), f, st, inorder)
      BY <1>6, <2>3, <2>5, <2>6, PreparedBare DEF d
    <2> QED
      BY <2>7 DEF inorder
  <1>11. CASE ~c.ho /\ f > l /\ f - l <= Period
    <2> DEFINE m == trx_sched_calc_frame_loss(c, UlFn(f))
               a == Arrived(m.chan, c, UlFn(f))
               t == Total(n, m.inds)
    <2>1. e = f - l /\ ~Gap(c, UlFn(f))
      <3>1. e = f - l
        BY <1>3, <1>11
      <3> QED
        BY <1>1, <1>7, <1>11, <3>1, SMTT(30)
    <2>2. MadeUp(c, n, m, l, f - 1, h, s, st)
      <3>1. Elapsed(c, UlFn(f)) = f - l /\ f <= st + MaxFrames
        BY <1>1, <2>1 DEF e
      <3> QED
        BY <1>11, <3>1, Substituted
    <2> HIDE DEF m
    <2>3. /\ m.chan \in Channels /\ m.inds \in Seq(UlBlocks) /\ SameUse(c, m.chan)
          /\ Len(m.chan.meas) <= 4 /\ AllWhole(m.inds) /\ t \in [Firsts -> Nat]
          /\ Stands(m.chan, t, f - 1, Later(h, f - 1), s, st)
          /\ UlInOrder(c, l) => UlInOrder(m.chan, f - 1) /\ AllMeasured(m.inds)
      BY <2>2, TotalType DEF MadeUp
    <2>4. /\ a \in Channels /\ Alike(m.chan, a) /\ a.meas = m.chan.meas /\ a.active = m.chan.active
          /\ a.started = TRUE /\ a.last = UlFn(f)
          /\ a.rough = (m.chan.rough \/ Gap(c, UlFn(f)))
          /\ a.since = UlFn(s)
      <3>1. c.started /\ ~c.ho /\ c.since = UlFn(s)
        BY <1>11
      <3>2. ArrivedFrom(m.chan, c, f, a)
        BY <2>3, ArrivedIs
      <3> HIDE DEF a
      <3> QED
        BY <2>1, <3>1, <3>2 DEF ArrivedFrom
    <2> HIDE DEF a, t
    <2>5. ~m.chan.ho /\ a.rough = m.chan.rough /\ a.active = c.active
      BY <1>11, <2>1, <2>3, <2>4 DEF SameUse, Channels
    <2>6. UlReady(a, t, f, Later(h, f), s, st)
      <3>1. PICK p \in Int : p = f - 1
        OBVIOUS
      <3>2. p + 1 = f /\ st <= p + 1 /\ p + 1 <= st + MaxFrames /\ Bid(p + 1) <= 3
        BY <1>1, <3>1
      <3>3. Later(h, p) \in Int /\ Later(h, f) = IF Later(h, p) >= p + 1 THEN Later(h, p) ELSE p + 1
        BY <3>1 DEF Later
      <3>4. Stands(m.chan, t, p, Later(h, p), s, st)
        BY <2>3, <3>1
      <3>5. UlReady(a, t, p + 1, IF Later(h, p) >= p + 1 THEN Later(h, p) ELSE p + 1, s, st)
        BY <2>3, <2>4, <2>5, <3>2, <3>3, <3>4, ReadyNext
      <3> QED
        BY <3>2, <3>3, <3>5
    <2>7. inorder => UlInOrderBefore(a, f) /\ AllMeasured(m.inds)
      <3>1. SUFFICES ASSUME UlInOrder(m.chan, f - 1) PROVE UlInOrderBefore(a, f)
        BY <2>3
      <3>2. PICK p \in Int : p = f - 1 /\ f = p + 1
        OBVIOUS
      <3>3. Bid(p) <= Period - 1 /\ Bid(p) \in Int
        <4>1. Bid(p) \in 0 .. Period - 1
          BY Grid
        <4> QED
          BY <1>1, <4>1
      <3>4. Bid(f) # 0 => Bid(f) = Bid(p) + 1
        BY <1>1, <3>2, <3>3, GridNext
      <3>5. a.mask = m.chan.mask /\ a.first = m.chan.first
        BY <2>4 DEF Alike
      <3> QED
        BY <2>4, <2>5, <3>1, <3>2, <3>4, <3>5 DEF UlInOrder, UlInOrderBefore
    <2> HIDE DEF inorder
    <2>8. Prepared(c, n, f, Later(h, f), s, st, inorder)
      BY <2>3, <2>4, <2>5, <2>6, <2>7 DEF Prepared, m, a, t
    <2> QED
      BY <2>8 DEF inorder
  <1>12. c.ho \/ (~c.ho /\ f <= l) \/ (~c.ho /\ f > l /\ f - l > Period)
            \/ (~c.ho /\ f > l /\ f - l <= Period)
    <2>1. f <= l \/ f > l
      OBVIOUS
    <2>2. f - l > Period \/ f - l <= Period
      BY <1>1
    <2> QED
      BY <2>1, <2>2, Zenon
  <1> QED
    BY <1>8, <1>9, <1>10, <1>11, <1>12, Zenon

\* What is left when the frame f has been handled.
After(c, n, r, f, k, t, st, inorder) ==
    /\ r.chan \in Channels /\ r.inds \in Seq(UlBlocks) /\ Len(r.chan.meas) <= 4
    /\ r.chan.last = UlFn(f) /\ r.chan.since = UlFn(t)
    /\ r.chan.started /\ r.chan.active = c.active
    /\ Stands(r.chan, Total(n, r.inds), f, k, t, st)
    /\ AllWhole(r.inds)
    /\ inorder => UlInOrder(r.chan, f) /\ AllMeasured(r.inds)

LEMMA BurstHandled ==
    ASSUME NEW st \in Nat, NEW c \in Channels, NEW n \in [Firsts -> Nat],
           NEW f \in Int, NEW k \in Int, NEW t \in Int, NEW inorder \in BOOLEAN,
           NEW what \in Whats, Prepared(c, n, f, k, t, st, inorder)
    PROVE  After(c, n, Received(c, UlFn(f), what), f, k, t, st, inorder)
  <1> DEFINE m == trx_sched_calc_frame_loss(c, UlFn(f))
             d == Arrived(m.chan, c, UlFn(f))
             r == rx_data_fn(Rx(d, m.inds), UlFn(f), what)
  <1>1. Received(c, UlFn(f), what) = r
    BY ReceivedIs
  <1>2. /\ m.chan \in Channels /\ m.inds \in Seq(UlBlocks) /\ d \in Channels
        /\ UlReady(d, Total(n, m.inds), f, k, t, st)
        /\ d.since = UlFn(t) /\ d.last = UlFn(f) /\ d.started /\ d.active = c.active
        /\ AllWhole(m.inds) /\ Len(d.meas) <= 4
        /\ inorder => UlInOrderBefore(d, f) /\ AllMeasured(m.inds)
    BY DEF Prepared
  <1> HIDE DEF d, m
  <1>3. Comes(d, n, m.inds, r, f, k, t, st)
    BY <1>2, Handled
  <1> HIDE DEF r
  <1>4. After(c, n, r, f, k, t, st, inorder)
    BY <1>2, <1>3 DEF Comes, SameUse, After
  <1> QED
    BY <1>1, <1>4

-----------------------------------------------------------------------------
(***************************************************************************)
(* The inductive invariant.                                                *)
(***************************************************************************)

\* The channel, of which l was the last frame, h the last of all, and s the first it is
\* followed from.
Followed(l, h, s) ==
    /\ l < start + now /\ h < start + now
    /\ chan.last = UlFn(l) /\ chan.since = UlFn(s) /\ Bid(l) <= 3 /\ Bid(h) <= 3
    /\ Stands(chan, blocks, l, h, s, start)
    /\ ~late => l = h /\ UlInOrder(chan, l) /\ \A b \in net : start + b.t > h

UlTyped ==
    /\ start \in UlStarts /\ now \in 0 .. MaxFrames
    /\ net \subseteq [t : 0 .. MaxFrames, nope : BOOLEAN]
    /\ chan \in Channels /\ Len(chan.meas) <= 4
    /\ nevents \in 0 .. MaxUlEvents
    /\ blocks \in [Firsts -> Nat]
    /\ whole \in BOOLEAN /\ measured \in BOOLEAN /\ late \in BOOLEAN

\* No burst is on its way for longer than it takes three frames, or a block of another
\* multiframe, to be sent.
Underway ==
    /\ \A b \in net : /\ b.t < now /\ now - b.t <= 3 /\ now - b.t <= Period - 3
                      /\ Bid(start + b.t) <= 3
    /\ \A b, o \in net : b.t = o.t => b = o

UlIInv ==
    /\ UlTyped /\ Underway
    /\ whole /\ (~late => measured)
    /\ ~chan.active => NoneDone(blocks)
    /\ chan.active /\ ~chan.started => NoneDone(blocks) /\ (chan.ho => chan.rough) /\ chan.mask = {}
    /\ chan.active /\ chan.started =>
          \E l \in start .. start + now : \E h \in start .. start + now :
             \E s \in start .. start + now : Followed(l, h, s)

LEMMA FirstBlocks == Firsts = {g \in 0 .. UlHyperframe - 1 : g % Period = 0}
  BY DEF Firsts, Bid

LEMMA NewChanIs ==
    ASSUME NEW ho \in BOOLEAN
    PROVE  LET d == NewChan(ho) IN
           /\ d \in Channels /\ Len(d.meas) <= 4 /\ d.mask = {} /\ ~d.started /\ d.active
           /\ d.ho => d.rough
  <1>1. [b \in 0 .. 3 |-> Zero] \in [0 .. 3 -> -1 .. UlHyperframe - 1]
    BY UlTypes DEF Zero
  <1>2. 0 \in 0 .. UlHyperframe - 1
    BY UlTypes
  <1>3. PICK q : q = <<>>
    OBVIOUS
  <1>5. q \in Seq(0 .. UlHyperframe - 1) /\ Len(q) <= 4
    BY <1>3
  <1>4. NewChan(ho) = [active |-> TRUE, ho |-> ho, started |-> FALSE, last |-> 0, mask |-> {}, first |-> 0,
     buf |-> [b \in 0 .. 3 |-> Zero], meas |-> q, rough |-> ho, since |-> 0]
    BY <1>3 DEF NewChan
  <1> QED
    BY <1>1, <1>2, <1>4, <1>5 DEF Channels

LEMMA UlStart == ASSUME UlInit PROVE UlIInv
  <1>1. PICK ho \in BOOLEAN : chan = NewChan(ho)
    BY DEF UlInit
  <1>2. /\ chan \in Channels /\ Len(chan.meas) <= 4 /\ chan.mask = {} /\ ~chan.started /\ chan.active
        /\ chan.ho => chan.rough
    BY <1>1, NewChanIs
  <1>3. blocks = [f \in Firsts |-> 0]
    BY FirstBlocks DEF UlInit
  <1>4. UlTyped
    <2>1. 0 \in 0 .. MaxFrames /\ 0 \in 0 .. MaxUlEvents
      BY UlTypes
    <2>2. blocks \in [Firsts -> Nat]
      BY <1>3
    <2> QED
      BY <1>2, <2>1, <2>2 DEF UlInit, UlTyped
  <1>5. Underway
    BY DEF UlInit, Underway
  <1>6. NoneDone(blocks)
    BY <1>3 DEF NoneDone
  <1> QED
    BY <1>2, <1>4, <1>5, <1>6 DEF UlInit, UlIInv

LEMMA UlFrameStep ==
    ASSUME UlIInv, UlFrame
    PROVE  UlIInv'
  <1>1. /\ start \in UlStarts /\ start \in Nat /\ now \in Nat /\ now < MaxFrames /\ MaxFrames \in Nat
        /\ now' = now + 1 /\ now' \in 0 .. MaxFrames
        /\ Period \in Nat /\ Period >= 4 /\ MaxDelay \in Nat /\ MaxDelay <= 3 /\ MaxDelay <= Period - 3
    <2>1. UlStarts \subseteq Nat
      BY UlTypes
    <2> QED
      BY <2>1, UlTypes DEF UlIInv, UlTyped, UlFrame
  <1>2. /\ start' = start /\ chan' = chan /\ nevents' = nevents /\ blocks' = blocks
        /\ whole' = whole /\ measured' = measured /\ late' = late
    BY DEF UlFrame
  <1>3. \A b \in net' : b \in net \/ (b.t = now /\ b \in [t : 0 .. MaxFrames, nope : BOOLEAN]
                                      /\ Bid(start + b.t) <= 3)
    <2>1. CASE Ours(Fn(now))
      <3>1. PICK nope \in BOOLEAN : net' = net \cup {[t |-> now, nope |-> nope]}
        BY <2>1 DEF UlFrame
      <3>2. PICK a \in Int : a = start + now
        BY <1>1
      <3>3. Bid(a) <= 3
        <4>1. Bid(UlFn(a)) = Bid(a)
          BY UlFnGrid
        <4>2. Bid(UlFn(a)) \in 0 .. 3
          BY <2>1, <3>2 DEF Ours, Fn, Bid
        <4> QED
          BY <4>1, <4>2
      <3>4. now \in 0 .. MaxFrames
        BY <1>1
      <3> QED
        BY <3>1, <3>2, <3>3, <3>4
    <2>2. CASE ~Ours(Fn(now))
      BY <2>2 DEF UlFrame
    <2> QED
      BY <2>1, <2>2
  <1>4. \A b \in net' : b.t \in Nat
    BY <1>1, <1>3 DEF UlIInv, UlTyped
  <1>5. UlTyped'
    BY <1>1, <1>2, <1>3 DEF UlIInv, UlTyped
  <1>6. Underway'
    <2>1. ASSUME NEW b \in net'
          PROVE  b.t < now + 1 /\ now + 1 - b.t <= 3 /\ now + 1 - b.t <= Period - 3
                 /\ Bid(start + b.t) <= 3
      <3>1. CASE b \in net
        <4>1. b.t < now /\ now - b.t < MaxDelay /\ Bid(start + b.t) <= 3 /\ b.t \in Nat
          BY <1>4, <3>1 DEF UlIInv, Underway, UlFrame
        <4> QED
          BY <1>1, <4>1
      <3>2. CASE b \notin net
        <4>1. b.t = now /\ Bid(start + b.t) <= 3
          BY <1>3, <3>2
        <4> QED
          BY <1>1, <4>1
      <3> QED
        BY <3>1, <3>2
    <2>2. ASSUME NEW b \in net', NEW o \in net', b.t = o.t PROVE b = o
      <3>1. \A x \in net : x.t < now
        BY DEF UlIInv, Underway
      <3>2. CASE b \in net /\ o \in net
        BY <2>2, <3>2 DEF UlIInv, Underway
      <3>3. CASE b \notin net \/ o \notin net
        <4>1. b.t = now /\ o.t = now
          BY <1>3, <2>2, <3>3
        <4>2. b \notin net /\ o \notin net
          BY <1>1, <3>1, <4>1
        <4>3. PICK nope \in BOOLEAN : net' \subseteq net \cup {[t |-> now, nope |-> nope]}
          BY DEF UlFrame
        <4> QED
          BY <4>2, <4>3
      <3> QED
        BY <3>2, <3>3
    <2>3. start' = start /\ now' = now + 1
      BY <1>1, <1>2
    <2>4. ASSUME NEW b \in net'
          PROVE  b.t < now' /\ now' - b.t <= 3 /\ now' - b.t <= Period - 3
                 /\ Bid(start' + b.t) <= 3
      <3>1. b.t < now + 1 /\ now + 1 - b.t <= 3 /\ now + 1 - b.t <= Period - 3
                 /\ Bid(start + b.t) <= 3
        BY <2>1
      <3>2. b.t \in Nat
        BY <1>4
      <3>3. b.t < now' /\ now' - b.t <= 3 /\ now' - b.t <= Period - 3
        BY <1>1, <3>1, <3>2
      <3> QED
        BY <2>3, <3>1, <3>3
    <2> QED
      BY <2>2, <2>4, Zenon DEF Underway
  <1>7. ASSUME chan.active, chan.started
        PROVE  (\E l \in start .. start + now : \E h \in start .. start + now :
                   \E s \in start .. start + now : Followed(l, h, s))'
    <2>1. PICK l \in start .. start + now, h \in start .. start + now, s \in start .. start + now :
             Followed(l, h, s)
      BY <1>7 DEF UlIInv
    <2>2. ~late => \A b \in net' : start + b.t > h
      <3>1. h < start + now /\ h \in Int
        BY <1>1, <2>1 DEF Followed
      <3>2. \A b \in net' : b \notin net => start + b.t > h
        BY <1>1, <1>3, <3>1
      <3> QED
        BY <2>1, <3>2 DEF Followed
    <2>3. Followed(l, h, s)'
      <3>1. l < start + now' /\ h < start + now'
        BY <1>1, <2>1 DEF Followed
      <3> QED
        BY <1>2, <2>1, <2>2, <3>1 DEF Followed
    <2>4. l \in start' .. start' + now' /\ h \in start' .. start' + now' /\ s \in start' .. start' + now'
      BY <1>1, <1>2
    <2> QED
      BY <2>3, <2>4
  <1> QED
    BY <1>2, <1>5, <1>6, <1>7 DEF UlIInv, NoneDone

LEMMA LoseBurstStep ==
    ASSUME UlIInv, LoseBurst
    PROVE  UlIInv'
  <1>1. /\ net' \subseteq net /\ start' = start /\ now' = now /\ chan' = chan /\ nevents' = nevents
        /\ blocks' = blocks /\ whole' = whole /\ measured' = measured /\ late' = late
    BY DEF LoseBurst
  <1>2. UlTyped'
    BY <1>1 DEF UlIInv, UlTyped
  <1>3. Underway'
    BY <1>1 DEF UlIInv, Underway
  <1>4. ASSUME NEW l, NEW h, NEW s, Followed(l, h, s) PROVE Followed(l, h, s)'
    BY <1>1, <1>4 DEF Followed
  <1> QED
    BY <1>1, <1>2, <1>3, <1>4 DEF UlIInv, NoneDone

LEMMA UlSetLchanStep ==
    ASSUME UlIInv, _trx_sched_set_lchan
    PROVE  UlIInv'
  <1>1. /\ start' = start /\ now' = now /\ net' = net /\ late' = late /\ whole' = TRUE /\ measured' = TRUE
        /\ blocks' = [f \in Firsts |-> 0] /\ nevents' \in 0 .. MaxUlEvents
    <2>1. DOMAIN blocks = Firsts /\ nevents \in 0 .. MaxUlEvents
      BY DEF UlIInv, UlTyped
    <2>2. nevents < MaxUlEvents /\ nevents' = nevents + 1
      BY DEF _trx_sched_set_lchan
    <2>3. nevents' \in 0 .. MaxUlEvents
      BY <2>1, <2>2, UlTypes
    <2> QED
      BY <2>1, <2>3, Zenon DEF _trx_sched_set_lchan
  <1>2. /\ chan' \in Channels /\ Len(chan'.meas) <= 4
        /\ chan'.active => ~chan'.started /\ (chan'.ho => chan'.rough) /\ chan'.mask = {}
    <2>1. CASE chan' = [chan EXCEPT !.active = FALSE, !.ho = FALSE]
      <3>1. chan \in Channels /\ Len(chan.meas) <= 4
        BY DEF UlIInv, UlTyped
      <3>2. chan' \in Channels /\ chan'.meas = chan.meas /\ ~chan'.active
        BY <2>1, <3>1 DEF Channels
      <3> QED
        BY <3>1, <3>2
    <2>2. CASE \E ho \in BOOLEAN : chan' = NewChan(ho)
      BY <2>2, NewChanIs
    <2> QED
      BY <2>1, <2>2 DEF _trx_sched_set_lchan
  <1>3. blocks' \in [Firsts -> Nat] /\ \A x \in Firsts : blocks'[x] = 0
    BY <1>1
  <1>4. UlTyped'
    BY <1>1, <1>2, <1>3 DEF UlIInv, UlTyped
  <1>5. Underway'
    BY <1>1 DEF UlIInv, Underway
  <1> QED
    BY <1>1, <1>2, <1>3, <1>4, <1>5 DEF UlIInv, NoneDone

LEMMA UlAccessStep ==
    ASSUME UlIInv, trx_sched_set_ul_access
    PROVE  UlIInv'
  <1>1. /\ start' = start /\ now' = now /\ net' = net /\ late' = late /\ whole' = whole
        /\ measured' = measured /\ blocks' = blocks /\ nevents' = nevents
        /\ chan \in Channels /\ Len(chan.meas) <= 4
        /\ chan' = [chan EXCEPT !.ho = FALSE]
    BY DEF trx_sched_set_ul_access, UlIInv, UlTyped
  <1>2. /\ chan' \in Channels /\ chan'.mask = chan.mask /\ chan'.first = chan.first
        /\ chan'.buf = chan.buf /\ chan'.rough = chan.rough /\ chan'.meas = chan.meas
        /\ chan'.active = chan.active /\ chan'.started = chan.started /\ chan'.last = chan.last
        /\ chan'.since = chan.since /\ ~chan'.ho
    BY <1>1 DEF Channels
  <1>3. UlTyped'
    BY <1>1, <1>2 DEF UlIInv, UlTyped
  <1>4. Underway'
    BY <1>1 DEF UlIInv, Underway
  <1>5. ASSUME NEW l, NEW h, NEW s, Followed(l, h, s) PROVE Followed(l, h, s)'
    <2>1. Stands(chan, blocks, l, h, s, start)
      BY <1>5 DEF Followed
    <2>2. Stands(chan', blocks, l, h, s, start)
      BY <1>2, <2>1 DEF Stands, Held, OfBlock, Over, Begun
    <2>3. UlInOrder(chan, l) => UlInOrder(chan', l)
      BY <1>2 DEF UlInOrder
    <2> QED
      BY <1>1, <1>2, <1>5, <2>2, <2>3 DEF Followed
  <1> QED
    BY <1>1, <1>2, <1>3, <1>4, <1>5 DEF UlIInv, NoneDone

\* A burst on its way, for a channel that has received some.
LEMMA BurstInPlace ==
    ASSUME UlIInv, NEW b \in net, NEW h \in Int, h < start + now, Bid(h) <= 3
    PROVE  LET f == start + b.t IN
           /\ f \in Int /\ start <= f /\ f < start + now /\ f + 1 <= start + MaxFrames /\ Bid(f) <= 3
           /\ h - 2 <= f /\ FirstOf(h) <= FirstOf(f)
  <1> DEFINE f == start + b.t
  <1>1. /\ start \in Nat /\ now \in Nat /\ now <= MaxFrames /\ MaxFrames \in Nat /\ b.t \in Nat
        /\ Period \in Nat
    <2>1. UlStarts \subseteq Nat
      BY UlTypes
    <2> QED
      BY <2>1, UlTypes DEF UlIInv, UlTyped
  <1>2. /\ b.t < now /\ now - b.t <= 3 /\ now - b.t <= Period - 3 /\ Bid(start + b.t) <= 3
    BY DEF UlIInv, Underway
  <1>3. /\ f \in Int /\ start <= f /\ f < start + now /\ f + 1 <= start + MaxFrames /\ Bid(f) <= 3
        /\ h - 2 <= f /\ h - f <= Period - 4
    BY <1>1, <1>2
  <1> HIDE DEF f
  <1>4. /\ FirstOf(f) \in Int /\ FirstOf(h) \in Int /\ FirstOf(f) + Bid(f) = f
        /\ FirstOf(h) + Bid(h) = h /\ Bid(h) \in Int /\ Bid(h) >= 0
        /\ Bid(f) \in Int /\ Bid(f) >= 0 /\ Bid(FirstOf(h)) = 0
    BY <1>3, GridFacts
  <1>5. FirstOf(h) > FirstOf(f) => FirstOf(h) >= FirstOf(f) + Period
    BY <1>3, <1>4, GridZero
  <1>6. FirstOf(h) <= FirstOf(f)
    BY <1>1, <1>3, <1>4, <1>5
  <1> QED
    BY <1>3, <1>6 DEF f

\* What the burst comes to, in either case.
LEMMA BurstComes ==
    ASSUME UlIInv, chan.active, NEW b \in net, NEW what \in Whats
    PROVE  LET f == start + b.t IN
           \E k \in Int : \E t \in start .. start + now :
              \E inorder \in BOOLEAN :
                 /\ k < start + now /\ Bid(k) <= 3
                 /\ After(chan, blocks, Received(chan, UlFn(f), what), f, k, t, start, inorder)
                 /\ ~late /\ (\A o \in net : o.t >= b.t) => inorder /\ k = f
  <1> DEFINE f == start + b.t
  <1>1. /\ start \in Nat /\ now \in Nat /\ MaxFrames \in Nat /\ chan \in Channels /\ Len(chan.meas) <= 4
        /\ blocks \in [Firsts -> Nat]
    <2>1. UlStarts \subseteq Nat
      BY UlTypes
    <2> QED
      BY <2>1, UlTypes DEF UlIInv, UlTyped
  <1>2. CASE ~chan.started
    <2>1. PICK h \in Int : h = start + b.t
      <3>1. b.t \in Nat
        BY DEF UlIInv, UlTyped
      <3> QED
        BY <1>1, <3>1
    <2>2. h < start + now /\ Bid(h) <= 3
      <3>1. b.t < now /\ Bid(start + b.t) <= 3 /\ b.t \in Nat
        BY DEF UlIInv, Underway, UlTyped
      <3> QED
        BY <1>1, <2>1, <3>1
    <2>3. /\ f \in Int /\ start <= f /\ f < start + now /\ f + 1 <= start + MaxFrames /\ Bid(f) <= 3
      BY <2>2, BurstInPlace
    <2>4. /\ \A x \in Firsts : blocks[x] = 0
          /\ chan.ho => chan.rough
          /\ chan.mask = {}
      BY <1>2 DEF UlIInv, NoneDone
    <2> HIDE DEF f
    <2>5. PICK t \in {f, f + 1} : Prepared(chan, blocks, f, f, t, start, TRUE)
      <3>1. f <= start + MaxFrames
        BY <1>1, <2>3
      <3>2. NoneDone(blocks)
        BY <2>4 DEF NoneDone
      <3>3. chan.mask = {} /\ (chan.ho => chan.rough)
        BY <2>4
      <3> QED
        BY <1>1, <1>2, <2>3, <3>1, <3>2, <3>3, PreparedFirst, ZenonT(30)
    <2>6. t \in Int /\ t \in start .. start + now
      BY <1>1, <2>3
    <2>7. After(chan, blocks, Received(chan, UlFn(f), what), f, f, t, start, TRUE)
      BY <1>1, <2>3, <2>5, <2>6, BurstHandled
    <2>8. \E k \in Int : \E u \in start .. start + now : \E inorder \in BOOLEAN :
                 /\ k < start + now /\ Bid(k) <= 3
                 /\ After(chan, blocks, Received(chan, UlFn(f), what), f, k, u, start, inorder)
                 /\ ~late /\ (\A o \in net : o.t >= b.t) => inorder /\ k = f
      BY <2>3, <2>6, <2>7
    <2> QED
      BY <2>8 DEF f
  <1>3. CASE chan.started
    <2>1. PICK l \in start .. start + now, h \in start .. start + now, s \in start .. start + now :
             Followed(l, h, s)
      BY <1>3 DEF UlIInv
    <2>2. /\ l \in Int /\ h \in Int /\ s \in Int /\ start <= l
          /\ l < start + now /\ h < start + now
          /\ chan.last = UlFn(l) /\ chan.since = UlFn(s) /\ Bid(l) <= 3 /\ Bid(h) <= 3
          /\ Stands(chan, blocks, l, h, s, start)
          /\ ~late => l = h /\ UlInOrder(chan, l) /\ start + b.t > h
      BY <1>1, <2>1 DEF Followed
    <2> DEFINE inorder == h < f /\ l = h /\ UlInOrder(chan, l)
               k == Later(h, f)
    <2>3. /\ f \in Int /\ start <= f /\ f < start + now /\ f + 1 <= start + MaxFrames /\ Bid(f) <= 3
          /\ h - 2 <= f /\ FirstOf(h) <= FirstOf(f)
      BY <2>2, BurstInPlace
    <2>4. ~late => inorder /\ k = f
      BY <2>2, <2>3 DEF Later
    <2> HIDE DEF f
    <2>5. PICK t \in {s, f, f + 1} : Prepared(chan, blocks, f, k, t, start, inorder)
      BY <1>1, <1>3, <2>2, <2>3, PreparedNext
    <2>6. t \in Int /\ t \in start .. start + now
      BY <1>1, <2>1, <2>3
    <2>7. k \in Int /\ k < start + now /\ Bid(k) <= 3 /\ inorder \in BOOLEAN
      BY <2>2, <2>3 DEF Later
    <2> HIDE DEF inorder, k
    <2>8. After(chan, blocks, Received(chan, UlFn(f), what), f, k, t, start, inorder)
      BY <1>1, <2>3, <2>5, <2>6, <2>7, BurstHandled
    <2>9. \E j \in Int : \E u \in start .. start + now : \E i \in BOOLEAN :
                 /\ j < start + now /\ Bid(j) <= 3
                 /\ After(chan, blocks, Received(chan, UlFn(f), what), f, j, u, start, i)
                 /\ ~late /\ (\A o \in net : o.t >= b.t) => i /\ j = f
      BY <2>4, <2>6, <2>7, <2>8
    <2> QED
      BY <2>9 DEF f
  <1> QED
    BY <1>2, <1>3

LEMMA UlBurstStep ==
    ASSUME UlIInv, trx_sched_ul_burst
    PROVE  UlIInv'
  <1> DEFINE What(b) == IF b.nope THEN "nope" ELSE "data"
             R(b) == Received(chan, Fn(b.t), What(b))
             Smooth(r) == {block \in {r.inds[i] : i \in DOMAIN r.inds} : ~block.rough}
             Handles(b, r) ==
                  /\ net' = net \ {b}
                  /\ late' = (late \/ \E o \in net : o.t < b.t)
                  /\ IF ~chan.active THEN UNCHANGED <<chan, blocks, whole, measured>>
                     ELSE /\ chan' = r.chan
                          /\ blocks' = [f \in DOMAIN blocks |->
                                 blocks[f] + Cardinality({i \in DOMAIN r.inds : r.inds[i].first = f})]
                          /\ whole' = (whole /\ \A block \in Smooth(r) : Whole(block))
                          /\ measured' = (measured /\ \A block \in Smooth(r) : Measured(block))
                  /\ UNCHANGED <<start, now, nevents>>
  <1>1. PICK b \in net : Handles(b, R(b))
    BY DEF trx_sched_ul_burst
  <1>2. PICK r : r = R(b)
    OBVIOUS
  <1>3. Handles(b, r)
    <2> HIDE DEF Handles, R
    <2> QED
      BY <1>1, <1>2
  <1>4. /\ start' = start /\ now' = now /\ nevents' = nevents /\ net' = net \ {b}
        /\ late' = (late \/ \E o \in net : o.t < b.t) /\ late' \in BOOLEAN
    BY <1>3
  <1>5. Underway'
    BY <1>4 DEF UlIInv, Underway
  <1>6. \A o \in net' : o \in net /\ o.t # b.t
    BY <1>4 DEF UlIInv, Underway
  <1>7. CASE ~chan.active
    <2>1. chan' = chan /\ blocks' = blocks /\ whole' = whole /\ measured' = measured
      BY <1>3, <1>7
    <2>2. UlTyped'
      BY <1>4, <2>1 DEF UlIInv, UlTyped
    <2> QED
      BY <1>4, <1>5, <1>7, <2>1, <2>2 DEF UlIInv, NoneDone
  <1>8. CASE chan.active
    <2>0. PICK f : f = start + b.t
      OBVIOUS
    <2>1. /\ chan' = r.chan
          /\ blocks' = [x \in DOMAIN blocks |->
                           blocks[x] + Cardinality({i \in DOMAIN r.inds : r.inds[i].first = x})]
          /\ whole' = (whole /\ \A block \in Smooth(r) : Whole(block))
          /\ measured' = (measured /\ \A block \in Smooth(r) : Measured(block))
      BY <1>3, <1>8
    <2>2. blocks' = Total(blocks, r.inds)
      <3>1. DOMAIN blocks = Firsts
        BY DEF UlIInv, UlTyped
      <3> QED
        BY <2>1, <3>1 DEF Total
    <2>3. What(b) \in Whats
      BY DEF Whats
    <2>4. r = Received(chan, UlFn(f), What(b))
      BY <1>2, <2>0 DEF Fn
    <2>5. PICK k \in Int, t \in start .. start + now, inorder \in BOOLEAN :
              /\ k < start + now /\ Bid(k) <= 3
              /\ After(chan, blocks, r, f, k, t, start, inorder)
              /\ ~late /\ (\A o \in net : o.t >= b.t) => inorder /\ k = f
      <3> HIDE DEF What, R
      <3>1. \E k \in Int : \E t \in start .. start + now : \E inorder \in BOOLEAN :
              /\ k < start + now /\ Bid(k) <= 3
              /\ After(chan, blocks, Received(chan, UlFn(f), What(b)), f, k, t, start, inorder)
              /\ ~late /\ (\A o \in net : o.t >= b.t) => inorder /\ k = f
        BY <1>8, <2>0, <2>3, BurstComes
      <3> QED
        BY <2>4, <3>1
    <2>6. /\ chan' \in Channels /\ r.inds \in Seq(UlBlocks) /\ Len(chan'.meas) <= 4
          /\ chan'.last = UlFn(f) /\ chan'.since = UlFn(t)
          /\ chan'.started /\ chan'.active
          /\ Stands(chan', blocks', f, k, t, start)
          /\ AllWhole(r.inds)
          /\ inorder => UlInOrder(chan', f) /\ AllMeasured(r.inds)
      BY <1>8, <2>1, <2>2, <2>5 DEF After
    <2>7. blocks' \in [Firsts -> Nat]
      BY <2>2, <2>6, TotalType DEF UlIInv, UlTyped
    <2>8. /\ whole' /\ whole' \in BOOLEAN /\ measured' \in BOOLEAN
          /\ measured /\ AllMeasured(r.inds) => measured'
      BY <2>1, <2>6 DEF AllWhole, AllMeasured, UlIInv
    <2>9. UlTyped'
      BY <1>4, <2>6, <2>7, <2>8 DEF UlIInv, UlTyped
    <2>10. /\ start \in Nat /\ now \in Nat /\ b.t \in Nat /\ \A o \in net : o.t \in Nat
      <3>1. UlStarts \subseteq Nat
        BY UlTypes
      <3> QED
        BY <3>1 DEF UlIInv, UlTyped
    <2>11. f \in start .. start + now /\ f < start + now /\ Bid(f) <= 3 /\ f <= k
      <3>1. b.t < now /\ Bid(start + b.t) <= 3
        BY DEF UlIInv, Underway
      <3> QED
        BY <2>0, <2>6, <2>10, <3>1, SMTT(30) DEF Stands
    <2>12. ~late' => ~late /\ inorder /\ k = f /\ (\A o \in net' : start + o.t > k)
      <3>1. ~late' => ~late /\ \A o \in net : o.t >= b.t
        <4>1. ~late' => ~late /\ \A o \in net : ~ (o.t < b.t)
          BY <1>4
        <4>2. \A o \in net : ~ (o.t < b.t) => o.t >= b.t
          BY <2>10
        <4> QED
          BY <4>1, <4>2
      <3>2. ~late' => \A o \in net' : start + o.t > f
        BY <1>6, <2>0, <2>10, <3>1
      <3> QED
        BY <2>5, <3>1, <3>2
    <2>13. ~late' => measured'
      BY <2>6, <2>8, <2>12 DEF UlIInv
    <2>14. k \in start .. start + now
      BY <2>5, <2>10, <2>11
    <2>15. Followed(f, k, t)'
      <3>1. ~late' => f = k /\ UlInOrder(chan', f) /\ \A o \in net' : start + o.t > k
        BY <2>6, <2>12
      <3>2. /\ f < start' + now' /\ k < start' + now'
        BY <1>4, <2>5, <2>11
      <3> QED
        BY <1>4, <2>5, <2>6, <2>11, <3>1, <3>2 DEF Followed
    <2>16. f \in start' .. start' + now' /\ k \in start' .. start' + now' /\ t \in start' .. start' + now'
      BY <1>4, <2>11, <2>14
    <2> QED
      BY <1>5, <2>6, <2>8, <2>9, <2>13, <2>15, <2>16 DEF UlIInv
  <1> QED
    BY <1>7, <1>8

\* The blocks that are over were indicated.
LEMMA IndicatedOnce ==
    ASSUME UlIInv
    PROVE  EveryBlockIndicated
  <1> DEFINE Passed(x) == UlFn(x - chan.since + UlHyperframe)
  <1>1. /\ start \in Nat /\ now \in Nat /\ now <= MaxFrames /\ MaxFrames \in Nat
        /\ UlHyperframe \in Nat /\ 2 * MaxFrames + 8 <= UlHyperframe
        /\ blocks \in [Firsts -> Nat]
    <2>1. UlStarts \subseteq Nat
      BY UlTypes
    <2> QED
      BY <2>1, UlTypes DEF UlIInv, UlTyped
  <1>2. CASE ~ (chan.active /\ chan.started)
    <2>1. NoneDone(blocks)
      BY <1>2 DEF UlIInv
    <2>2. \A x \in DOMAIN blocks : blocks[x] <= 1
      BY <1>1, <2>1 DEF NoneDone
    <2> QED
      BY <1>2, <2>2 DEF EveryBlockIndicated
  <1>3. CASE chan.active /\ chan.started
    <2>1. PICK l \in start .. start + now, h \in start .. start + now, s \in start .. start + now :
             Followed(l, h, s)
      BY <1>3 DEF UlIInv
    <2>2. /\ l \in Int /\ h \in Int /\ s \in Int
          /\ l - s < UlHyperframe /\ s - l <= MaxFrames /\ s - l <= UlHyperframe
          /\ h - l < UlHyperframe
          /\ chan.last = UlFn(l) /\ chan.since = UlFn(s)
          /\ Stands(chan, blocks, l, h, s, start)
      BY <1>1, <2>1 DEF Followed
    <2>3. \A x \in DOMAIN blocks : blocks[x] <= 1
      BY <1>1, <2>2 DEF Stands, Once
    <2>4. ASSUME Passed(chan.last) < UlHyperframe \div 2, NEW x \in DOMAIN blocks,
                 Passed(x) + 3 <= Passed(chan.last)
          PROVE  blocks[x] = 1
      <3>1. Passed(chan.last) = IF l >= s THEN l - s ELSE l - s + UlHyperframe
        BY <2>2, UlFnElapsed
      <3>2. l >= s /\ Passed(chan.last) = l - s
        <4>1. PICK v \in Int : v = Passed(chan.last)
          BY <1>1, <2>2, <3>1
        <4>2. 2 * v < UlHyperframe
          BY <1>1, <2>4, <4>1
        <4>3. v = IF l >= s THEN l - s ELSE l - s + UlHyperframe
          BY <3>1, <4>1
        <4>4. l >= s
          <5>1. SUFFICES ASSUME l < s PROVE FALSE
            BY <2>2
          <5>2. v = l - s + UlHyperframe
            BY <2>2, <4>3, <5>1
          <5> QED
            BY <1>1, <2>2, <4>2, <5>2
        <4> QED
          BY <3>1, <4>4
      <3>3. x \in Firsts /\ x \in 0 .. UlHyperframe - 1
        BY <1>1, <2>4 DEF Firsts
      <3>4. Passed(x) \in 0 .. UlHyperframe - 1
        <4>1. x - UlFn(s) + UlHyperframe \in Int
          <5>1. UlFn(s) \in Int /\ x \in Int
            BY <1>1, <2>2, <3>3, UlFnOf
          <5> QED
            BY <1>1, <5>1
        <4>2. UlFn(x - UlFn(s) + UlHyperframe) \in 0 .. UlHyperframe - 1
          BY <4>1, UlFnOf
        <4> QED
          BY <2>2, <4>2
      <3>5. PICK a \in Int : a = s + Passed(x)
        BY <1>1, <2>2, <3>4
      <3>6. UlFn(a) = x
        <4>1. PICK k \in Int : s = UlFn(s) + UlHyperframe * k
          BY <2>2, UlFnOf
        <4>2. PICK d \in Int : d = x - UlFn(s) + UlHyperframe
          <5>1. UlFn(s) \in Int /\ x \in Int
            BY <1>1, <2>2, <3>3, UlFnOf
          <5> QED
            BY <1>1, <5>1
        <4>3. UlFn(UlFn(d) + s) = UlFn(d + s)
          BY <2>2, UlFnAdds
        <4>4. d + s = x + UlHyperframe * (k + 1)
          <5>1. UlFn(s) \in Int /\ x \in Int
            BY <1>1, <2>2, <3>3, UlFnOf
          <5>2. PICK u \in Int, y \in Int : u = UlFn(s) /\ y = x
            BY <5>1
          <5>3. d + s = y + UlHyperframe * (k + 1)
            <6>1. s = u + UlHyperframe * k /\ d = y - u + UlHyperframe
              BY <4>1, <4>2, <5>2
            <6> QED
              BY <1>1, <2>2, <6>1, Z3
          <5> QED
            BY <5>2, <5>3
        <4>5. UlFn(x + UlHyperframe * (k + 1)) = UlFn(x) /\ UlFn(x) = x
          <5>1. x \in Int /\ k + 1 \in Int
            BY <1>1, <3>3
          <5> QED
            BY <3>3, <5>1, UlFnOf
        <4>6. Passed(x) = UlFn(d)
          BY <2>2, <4>2
        <4>7. UlFn(d) \in Int /\ a = UlFn(d) + s
          BY <1>1, <2>2, <3>4, <3>5, <4>6
        <4> QED
          BY <4>3, <4>4, <4>5, <4>7
      <3>7. a >= s /\ a <= l - 3
        <4>1. PICK v \in Int : v = Passed(x)
          BY <3>4
        <4>2. a = s + v /\ v >= 0 /\ v + 3 <= l - s
          BY <2>4, <3>2, <3>4, <3>5, <4>1
        <4> QED
          BY <2>2, <4>2
      <3>8. Bid(a) = 0
        <4>1. Bid(UlFn(a)) = Bid(a)
          BY UlFnGrid
        <4> QED
          BY <3>3, <3>6, <4>1 DEF Firsts
      <3>9. /\ FirstOf(l) = FirstOf(h) /\ FirstOf(h) \in Int /\ FirstOf(l) + Bid(l) = l
            /\ FirstOf(h) + Bid(h) = h /\ Bid(h) \in Int /\ Bid(l) \in Int /\ l <= h
            /\ a <= FirstOf(h)
        <4>1. FirstOf(l) = FirstOf(h) /\ l <= h
          BY <2>2 DEF Stands
        <4>2. a <= l
          BY <2>2, <3>7
        <4>3. a <= FirstOf(l)
          BY <2>2, <3>8, <4>2, GridZero
        <4> QED
          BY <2>2, <4>1, <4>3, GridFacts
      <3>10. CASE a < FirstOf(h)
        <4>1. a \in s .. FirstOf(h) - 1
          BY <2>2, <3>7, <3>9, <3>10
        <4>2. blocks[UlFn(a)] = 1
          BY <2>2, <3>8, <4>1 DEF Stands, Done
        <4> QED
          BY <3>6, <4>2
      <3>11. CASE a = FirstOf(h)
        <4>1. s <= FirstOf(h) /\ Bid(h) >= 3
          BY <2>2, <3>7, <3>9, <3>11
        <4>2. Over(chan, blocks, h)
          BY <3>9, <4>1, <2>2 DEF Stands
        <4> QED
          BY <3>6, <3>11, <4>2 DEF Over
      <3> QED
        BY <3>9, <3>10, <3>11
    <2> QED
      BY <2>3, <2>4 DEF EveryBlockIndicated
  <1> QED
    BY <1>2, <1>3

\* What goes up is what was received: the blocks that trx_sched_ul_burst() and
\* rx_data_fn() indicate are made of their own bursts, with the measurements of these, and
\* each block is indicated once.
THEOREM UplinkInvHolds == UlSpec => []UplinkInv
  <1>1. UlInit => UlIInv
    BY UlStart
  <1>2. UlIInv /\ [UlNext]_ulvars => UlIInv'
    <2> SUFFICES ASSUME UlIInv, [UlNext]_ulvars PROVE UlIInv'
      OBVIOUS
    <2>1. CASE UlFrame
      BY <2>1, UlFrameStep
    <2>2. CASE LoseBurst
      BY <2>2, LoseBurstStep
    <2>3. CASE trx_sched_ul_burst
      BY <2>3, UlBurstStep
    <2>4. CASE _trx_sched_set_lchan
      BY <2>4, UlSetLchanStep
    <2>5. CASE trx_sched_set_ul_access
      BY <2>5, UlAccessStep
    <2>6. CASE UNCHANGED ulvars
      <3>1. /\ net' = net /\ start' = start /\ now' = now /\ chan' = chan /\ nevents' = nevents
            /\ blocks' = blocks /\ whole' = whole /\ measured' = measured /\ late' = late
        BY <2>6 DEF ulvars
      <3>2. UlTyped' /\ Underway'
        BY <3>1 DEF UlIInv, UlTyped, Underway
      <3>3. ASSUME NEW l, NEW h, NEW s, Followed(l, h, s) PROVE Followed(l, h, s)'
        BY <3>1, <3>3 DEF Followed
      <3> QED
        BY <3>1, <3>2, <3>3 DEF UlIInv
    <2> QED
      BY <2>1, <2>2, <2>3, <2>4, <2>5, <2>6 DEF UlNext
  <1>3. UlIInv => UplinkInv
    <2> SUFFICES ASSUME UlIInv PROVE UplinkInv
      OBVIOUS
    <2>1. UlTypeOK
      BY DEF UlIInv, UlTyped, UlTypeOK, Channels
    <2>2. WholeBlocks /\ BlocksMeasured
      BY DEF UlIInv, WholeBlocks, BlocksMeasured
    <2> QED
      BY <2>1, <2>2, IndicatedOnce DEF UplinkInv
  <1> QED
    BY <1>1, <1>2, <1>3, PTL DEF UlSpec
=============================================================================
