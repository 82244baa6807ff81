----------------------------- MODULE BtsShutdown -----------------------------
(***************************************************************************)
(* The shutdown of the whole BTS (common/bts_shutdown_fsm.c): ramp the     *)
(* power of all operational TRXs down, mute and close all TRXs, wait for   *)
(* their close callbacks, then leave the process or go back to idle.       *)
(*                                                                         *)
(* Each TRX has its own ramp (PowerRamp) and its own phy link, which is    *)
(*   "closed"                                                              *)
(*   "opening"  provisioned or waiting for it; closing takes effect at     *)
(*              once, within bts_model_trx_close()                         *)
(*   "up"       powered on; closing sends POWEROFF                         *)
(*   "closing"  waiting for the confirmation of POWEROFF                   *)
(* as in osmo-bts-trx with one TRX per phy link (l1_if.c and the close     *)
(* paths of trx_provision_fsm.c).  The TRXs are numbered from 1.           *)
(***************************************************************************)
EXTENDS PowerRamp

CONSTANTS
    NumTrx,     \* number of TRXs
    TxLevels,   \* powers a TRX may be transmitting with
    MaxStarts   \* bound: shutdowns that are started

Target == -10000     \* to_mdB(BTS_SHUTDOWN_POWER_RAMP_TGT)
RampTgt == -10       \* BTS_SHUTDOWN_POWER_RAMP_TGT

ASSUME ShutdownAssumption ==
    /\ NumTrx \in Nat \ {0}
    /\ TxLevels \subseteq Int /\ TxLevels # {}
    /\ MaxStarts \in Nat

Trx == 1 .. NumTrx

VARIABLES
    st,        \* the state of the shutdown FSM
    exitProc,  \* shutdown_fi_exit_proc
    skip,      \* shutdown_fi_skip_power_ramp
    ramp,      \* ramp[t]: power_params, see PowerRamp
    op,        \* op[t]: is the radio carrier of t operational (NM_OPSTATE_ENABLED)?
    phy,       \* phy[t]: the phy link of t
    exited,    \* has the process ended?
    quit,      \* has SIGINT been handled?
    starts     \* how often a shutdown was started

vars == <<st, exitProc, skip, ramp, op, phy, exited, quit, starts>>

States == {"NONE", "WAIT_RAMP_DOWN_COMPL", "WAIT_TRX_CLOSED"}

\* The type of the state; EXIT is left as soon as it is entered.
TypeOK ==
    /\ st \in States
    /\ exitProc \in BOOLEAN
    /\ skip \in BOOLEAN
    /\ ramp \in [Trx -> RampState({"none", "ramp_down_compl_cb"})]
    /\ op \in [Trx -> BOOLEAN]
    /\ phy \in [Trx -> {"closed", "opening", "up", "closing"}]
    /\ exited \in BOOLEAN
    /\ quit \in BOOLEAN
    /\ starts \in 0 .. MaxStarts

Init ==
    /\ st = "NONE"
    /\ exitProc = FALSE
    /\ skip = FALSE
    /\ ramp \in [Trx -> {AtRest(p) : p \in TxLevels}]
    /\ phy \in [Trx -> {"opening", "up"}]
    /\ op = [t \in Trx |-> phy[t] = "up"]
    /\ exited = FALSE
    /\ quit = FALSE
    /\ starts = 0
-----------------------------------------------------------------------------
(* The entry into WAIT_TRX_CLOSED and EXIT.                                *)

Operational(o) == {t \in Trx : o[t]}

\* What these functions read and change, as a record.
Now(rs, ex) ==
    [st |-> st, op |-> op, phy |-> phy, ramp |-> rs, exit |-> ex, exited |-> FALSE]
Become(s) ==
    st' = s.st /\ op' = s.op /\ phy' = s.phy /\ ramp' = s.ramp /\ exited' = s.exited

\* The TRX_CLOSED event.  When no TRX is operational any more the FSM runs through
\* EXIT, which ends the process or goes to NONE.
MutStaysInExit(s) ==
    IF s.st # "WAIT_TRX_CLOSED" \/ Operational(s.op) # {} THEN s
    ELSE [s EXCEPT !.st = "EXIT", !.exited = s.exit]
st_wait_trx_closed(s) ==
    IF s.st # "WAIT_TRX_CLOSED" \/ Operational(s.op) # {} THEN s
    ELSE [s EXCEPT !.st = "NONE", !.exited = s.exit]

\* The phy link of t is closed: unanswered commands are dropped, the carrier goes
\* down, and bts_model_trx_close_cb() reports it.
trx_prov_fsm_apply_close(s, t) ==
    st_wait_trx_closed([s EXCEPT !.phy[t] = "closed", !.op[t] = FALSE,
                                 !.ramp[t].req = 0])

\* bts_model_trx_close(t): the provisioning FSM closes an opening phy at once or asks
\* a running one to power off; then the carrier is disabled.  Nothing happens any
\* more once an earlier TRX's close has ended the process.
bts_model_trx_close(s, t) ==
    LET c == CASE s.phy[t] = "opening" -> trx_prov_fsm_apply_close(s, t)
               [] s.phy[t] = "up" -> [s EXCEPT !.phy[t] = "closing"]
               [] OTHER -> s
    IN
    IF s.exited \/ c.exited THEN (IF s.exited THEN s ELSE c)
    ELSE [c EXCEPT !.op[t] = FALSE]

\* The on-enter function closes the TRXs in reverse order (muting them before):
\* after[n] is the state when n of them are closed.
EnterWaitTrxClosed(s) ==
    LET after[n \in 0 .. NumTrx] ==
            IF n = 0 THEN [s EXCEPT !.st = "WAIT_TRX_CLOSED"]
            ELSE bts_model_trx_close(after[n - 1], NumTrx + 1 - n)
    IN after[NumTrx]
-----------------------------------------------------------------------------
(* Events.                                                                 *)

\* BTS_SHUTDOWN_EV_START in NONE: ramp the operational TRXs down, or skip that when
\* there is none.
st_none(toExit, toSkip) ==
    /\ starts < MaxStarts
    /\ starts' = starts + 1
    /\ IF Operational(op) # {}
       THEN /\ st' = "WAIT_RAMP_DOWN_COMPL"
            /\ ramp' = [t \in Trx |->
                          IF op[t] THEN power_ramp_start(ramp[t], Target,
                                                         "ramp_down_compl_cb", toSkip)
                          ELSE ramp[t]]
            /\ UNCHANGED <<op, phy, exited>>
       ELSE Become(EnterWaitTrxClosed(Now(ramp, toExit)))

\* bts_shutdown_ext(): start, or tell a shutdown in progress that it is to end the
\* process.
MutForgetsExit(toExit, toSkip) ==
    \/ /\ st # "NONE"
       /\ UNCHANGED <<st, exitProc, skip, ramp, op, phy, exited, starts>>
    \/ /\ st = "NONE"
       /\ exitProc' = toExit
       /\ skip' = toSkip
       /\ st_none(toExit, toSkip)
bts_shutdown_ext(toExit, toSkip) ==
    \/ /\ st # "NONE"
       /\ exitProc' = (exitProc \/ toExit)
       /\ UNCHANGED <<st, skip, ramp, op, phy, exited, starts>>
    \/ /\ st = "NONE"
       /\ exitProc' = toExit
       /\ skip' = toSkip
       /\ st_none(toExit, toSkip)

\* The callers: signal_handler(), bts_shutdown() after a fatal error, and
\* bts_model_abis_close().
signal_handler ==
    /\ ~exited /\ ~quit
    /\ quit' = TRUE
    /\ bts_shutdown_ext(TRUE, FALSE)

bts_shutdown ==
    /\ ~exited
    /\ bts_shutdown_ext(TRUE, TRUE)
    /\ UNCHANGED quit

bts_model_abis_close ==
    /\ ~exited
    /\ bts_shutdown_ext(FALSE, TRUE)
    /\ UNCHANGED quit

\* power_ramp_timer_cb() of TRX t.
RampTimer(t) ==
    /\ ~exited
    /\ ramp[t].timer
    /\ ramp' = [ramp EXCEPT ![t] = power_ramp_timer_cb(@)]
    /\ UNCHANGED <<st, exitProc, skip, op, phy, exited, quit, starts>>

\* BTS_SHUTDOWN_EV_TRX_RAMP_COMPL with the ramps rs: when no operational TRX is above
\* the target, end all ramps and close.
MutIgnoresRemaining(rs) == {}
TrxRemaining(rs) == {t \in Trx : op[t] /\ rs[t].cur > RampTgt}
st_wait_ramp_down_compl(rs) ==
    IF TrxRemaining(rs) # {}
    THEN ramp' = rs /\ UNCHANGED <<st, op, phy, exited>>
    ELSE Become(EnterWaitTrxClosed(Now([t \in Trx |-> power_ramp_abort(rs[t])], exitProc)))

\* power_trx_change_compl() of TRX t; a completed ramp calls ramp_down_compl_cb().
PowerChanged(t) ==
    /\ ~exited
    /\ ramp[t].req > 0
    /\ LET rs == [ramp EXCEPT ![t] = power_trx_change_compl(@)] IN
       IF IsComplete(ramp[t]) /\ ramp[t].cb = "ramp_down_compl_cb"
          /\ st = "WAIT_RAMP_DOWN_COMPL"
       THEN st_wait_ramp_down_compl(rs)
       ELSE ramp' = rs /\ UNCHANGED <<st, op, phy, exited>>
    /\ UNCHANGED <<exitProc, skip, quit, starts>>

\* POWEROFF of TRX t is confirmed: its phy link closes and bts_model_trx_close_cb()
\* dispatches TRX_CLOSED.
bts_model_trx_close_cb(t) ==
    /\ ~exited
    /\ phy[t] = "closing"
    /\ Become(trx_prov_fsm_apply_close(Now(ramp, exitProc), t))
    /\ UNCHANGED <<exitProc, skip, quit, starts>>

\* bts_shutdown_fsm_timer_cb(): T-1 or T-2 has expired.
MutNoT2 ==
    /\ ~exited
    /\ st = "WAIT_RAMP_DOWN_COMPL"
    /\ Become(EnterWaitTrxClosed(Now(ramp, exitProc)))
    /\ UNCHANGED <<exitProc, skip, quit, starts>>
bts_shutdown_fsm_timer_cb ==
    /\ ~exited
    /\ \/ /\ st = "WAIT_RAMP_DOWN_COMPL"
          /\ Become(EnterWaitTrxClosed(Now(ramp, exitProc)))
       \/ /\ st = "WAIT_TRX_CLOSED"
          /\ st' = "NONE"
          /\ exited' = exitProc
          /\ UNCHANGED <<op, phy, ramp>>
    /\ UNCHANGED <<exitProc, skip, quit, starts>>

\* The rest of the BTS: a phy link is opened again; it comes up, and the carrier is
\* operational and ramps up; the carrier is disabled because its RSL link is lost.
PhyOpens(t) ==
    /\ ~exited /\ st = "NONE" /\ phy[t] = "closed"
    /\ phy' = [phy EXCEPT ![t] = "opening"]
    /\ UNCHANGED <<st, exitProc, skip, ramp, op, exited, quit, starts>>

PhyComesUp(t) ==
    /\ ~exited /\ phy[t] = "opening"
    /\ phy' = [phy EXCEPT ![t] = "up"]
    /\ op' = [op EXCEPT ![t] = TRUE]
    /\ \E p \in TxLevels : ramp' = [ramp EXCEPT ![t] = power_ramp_start(@, p, "none", FALSE)]
    /\ UNCHANGED <<st, exitProc, skip, exited, quit, starts>>

CarrierDown(t) ==
    /\ ~exited /\ op[t]
    /\ op' = [op EXCEPT ![t] = FALSE]
    /\ UNCHANGED <<st, exitProc, skip, ramp, phy, exited, quit, starts>>

Next ==
    \/ signal_handler
    \/ bts_shutdown
    \/ bts_model_abis_close
    \/ bts_shutdown_fsm_timer_cb
    \/ \E t \in Trx : \/ RampTimer(t)
                      \/ PowerChanged(t)
                      \/ bts_model_trx_close_cb(t)
                      \/ PhyOpens(t)
                      \/ PhyComesUp(t)
                      \/ CarrierDown(t)

Spec == Init /\ [][Next]_vars

\* T-1 and T-2 expire unless their state is left before.
FairSpec == Spec /\ WF_vars(bts_shutdown_fsm_timer_cb)
-----------------------------------------------------------------------------
\* SIGINT ends the process, also when it comes in the middle of a shutdown that was
\* started because the Abis link was lost.
SignalEndsProcess == quit ~> exited

\* The FSM with its ramps, closing TRXs and timers is a shutdown as the rest of the BTS
\* sees it: requests that overlap are merged, a request to end the process is never
\* lost or made up, and every shutdown comes to its end.
Abstract == INSTANCE Shutdown WITH
    inProgress <- st # "NONE", exit <- exitProc,
    process <- IF exited THEN "exited" ELSE "running"
ImplementsShutdown == Abstract!Spec /\ Abstract!Ends

\* Closing begins when the ramps are complete or T-1 has expired: unless the timer
\* forces it, no operational TRX starts to close at more than the compared level.
ClosesOnlyRampedDown ==
    [][st = "WAIT_RAMP_DOWN_COMPL" /\ st' # st
        => bts_shutdown_fsm_timer_cb \/ \A t \in Trx : op[t] => ramp[t].cur <= RampTgt]_vars
=============================================================================
