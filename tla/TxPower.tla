------------------------------- MODULE TxPower -------------------------------
(***************************************************************************)
(* Everything that drives the transmit power of one running TRX of         *)
(* osmo-bts-trx: changes of the administrative state by the BSC            *)
(* (bts_model_chg_adm_state() and its ramp callback), the carrier getting  *)
(* enabled, new attributes and maximum powers, the operator's              *)
(* tx-attenuation and thermal-attenuation commands, the ramp's timer, and  *)
(* layer 1 (osmo-bts-trx/l1_if.c, common/oml.c,                            *)
(* common/bts_ctrl_commands.c).                                            *)
(***************************************************************************)
EXTENDS PowerRamp

CONSTANTS
    MaxPowers,   \* trx_p_max_out_mdBm values: the maximum output powers the TRX may get
    Reductions,  \* reductions that OML or the operator may ask for, in mdB
    MaxPending   \* bound: unanswered power requests

RFDisabled == -10000   \* RF_DISABLED_mdB
NotForced == -1        \* "osmotrx tx-attenuation oml"

ASSUME TxPowerAssumption ==
    /\ MaxPowers \subseteq Int /\ MaxPowers # {}
    /\ Reductions \subseteq Nat /\ Reductions # {}
    /\ MaxPending \in Nat \ {0}

VARIABLES
    ramp,     \* power_params: see PowerRamp
    maxout,   \* what get_p_max_out_mdBm() returns
    red,      \* max_power_red, set by OML
    forced,   \* forced_max_power_red, set by the operator, or NotForced
    enabled,  \* is the carrier's operational state ENABLED?
    admin,    \* mo.nm_state.administrative
    pending,  \* mo.procedure_pending
    muted,    \* what the transceiver was told with RFMUTE
    meddled   \* what others have done to the ramp since the BSC last locked or unlocked
              \* the TRX (see below); the code has no such state

vars == <<ramp, maxout, red, forced, enabled, admin, pending, muted, meddled>>

Callbacks == {"none", "adm"}

\* Meddling: a ramp to full power was started again, which makes up for whatever was
\* done before ("restart"); the ramp was redirected to the present power ("therm"); the
\* full power of an unlocked TRX changed and no ramp was started: with a new maximum
\* power ("nominal"), a reduction that is kept but refused ("attr"), or since the carrier
\* is not enabled yet ("off").
Meddling == {"restart", "therm", "nominal", "attr", "off"}

\* The type of the state.
TypeOK ==
    /\ ramp \in RampState(Callbacks)
    /\ maxout \in MaxPowers
    /\ red \in Reductions
    /\ forced \in Reductions \cup {NotForced}
    /\ enabled \in BOOLEAN
    /\ admin \in {"LOCKED", "UNLOCKED"}
    /\ pending \in BOOLEAN
    /\ muted \in BOOLEAN
    /\ meddled \subseteq Meddling

\* The TRX has just been powered on, muted unless it is unlocked, at the power the last
\* shutdown left it with or at 0 dBm.
Init ==
    /\ ramp \in {AtRest(0), AtRest(RFDisabled)}
    /\ maxout \in MaxPowers
    /\ red \in Reductions
    /\ forced \in Reductions \cup {NotForced}
    /\ enabled = FALSE
    /\ admin \in {"LOCKED", "UNLOCKED"}
    /\ pending = FALSE
    /\ muted = (admin = "LOCKED")
    /\ meddled = {"off"}
-----------------------------------------------------------------------------
\* get_p_nominal_mdBm(): the maximum power less the reduction by OML.
Nominal == maxout - red

\* What l1if_trx_start_power_ramp() ramps to with maximum power p, reduction r by OML and
\* the operator's setting f: a forced attenuation takes the place of OML's, and bypasses
\* the limit to the nominal power.
FullPower(p, r, f) == p - (IF f = NotForced THEN r ELSE f)

Start(p, cb) == ramp.req < MaxPending /\ ramp' = power_ramp_start(ramp, p, cb, FALSE)

\* bts_model_chg_adm_state() to LOCKED: ramp down, the callback mutes at the end.
MutLockWithoutCallback ==
    /\ admin # "LOCKED"
    /\ pending' = TRUE
    /\ Start(RFDisabled, "none")
    /\ admin' = "LOCKED"
    /\ meddled' = {}
    /\ UNCHANGED <<maxout, red, forced, enabled, muted>>
Lock ==
    /\ admin # "LOCKED"
    /\ pending' = TRUE
    /\ Start(RFDisabled, "adm")
    /\ admin' = "LOCKED"
    /\ meddled' = {}
    /\ UNCHANGED <<maxout, red, forced, enabled, muted>>

\* ... to UNLOCKED: unmute, unless the ramp down that would have muted is still
\* going on, and ramp up.
MutUnlockNeverUnmutes ==
    /\ admin # "UNLOCKED"
    /\ pending' = TRUE
    /\ Start(FullPower(maxout, red, forced), "adm")
    /\ admin' = "UNLOCKED"
    /\ meddled' = {}
    /\ UNCHANGED <<maxout, red, forced, enabled, muted>>
Unlock ==
    /\ admin # "UNLOCKED"
    /\ muted' = IF pending THEN muted ELSE FALSE
    /\ pending' = TRUE
    /\ Start(FullPower(maxout, red, forced), "adm")
    /\ admin' = "UNLOCKED"
    /\ meddled' = {}
    /\ UNCHANGED <<maxout, red, forced, enabled>>

\* trx_prov_fsm_signal_cb(): the carrier becomes operational.
CarrierEnabled ==
    /\ ~enabled
    /\ enabled' = TRUE
    /\ Start(FullPower(maxout, red, forced), "none")
    /\ meddled' = {"restart"}
    /\ UNCHANGED <<maxout, red, forced, admin, pending, muted>>

\* trx_set_trx() with reduction r: ramp an unlocked TRX unless its attenuation is forced.
MutRampsWhenForced(r) ==
    IF admin = "UNLOCKED"
    THEN Start(maxout - r, "none") /\ meddled' = {"restart"}
    ELSE UNCHANGED <<ramp, meddled>>
trx_set_trx(r) ==
    IF admin = "UNLOCKED" /\ forced = NotForced
    THEN Start(maxout - r, "none") /\ meddled' = {"restart"}
    ELSE UNCHANGED <<ramp, meddled>>

\* oml_rx_set_radio_attr() with reduction r, which is stored first.  The attributes get to
\* trx_set_trx() only while the carrier is not enabled, and when their ARFCN is accepted.
oml_rx_set_radio_attr(r) ==
    /\ red' = r
    /\ \/ ~enabled /\ trx_set_trx(r)
       \/ /\ UNCHANGED ramp
          /\ meddled' = meddled \cup (IF admin = "UNLOCKED" THEN {"attr"} ELSE {})
    /\ UNCHANGED <<maxout, forced, enabled, admin, pending, muted>>

\* cfg_phyinst_tx_atten(): the operator forces attenuation f or leaves it to OML, and an
\* enabled carrier ramps to its new full power.
cfg_phyinst_tx_atten(f) ==
    /\ forced' = f
    /\ IF enabled
       THEN Start(FullPower(maxout, red, f), "none") /\ meddled' = {"restart"}
       ELSE /\ UNCHANGED ramp
            /\ meddled' = meddled \cup (IF admin = "UNLOCKED" THEN {"off"} ELSE {})
    /\ UNCHANGED <<maxout, red, enabled, admin, pending, muted>>

\* l1if_trx_set_nominal_power(): the maximum power of the powered TRX changes, or its
\* ramp is beyond it.  Only a locked one ramps to its new full power.
l1if_trx_set_nominal_power(p) ==
    /\ p # maxout \/ ramp.cur > p
    /\ maxout' = p
    /\ LET lowered == [ramp EXCEPT !.cur = IF @ <= p THEN @ ELSE p] IN
       IF p # maxout /\ admin # "UNLOCKED"
       THEN /\ ramp.req < MaxPending
            /\ ramp' = power_ramp_start(lowered, FullPower(p, red, forced), "none", FALSE)
            /\ meddled' = {"restart"}
       ELSE ramp' = lowered /\ meddled' = meddled \cup {"nominal"}
    /\ UNCHANGED <<red, forced, enabled, admin, pending, muted>>

\* set_therm_att(): the control interface asks for the present power again, which is
\* refused when it exceeds the nominal power.
set_therm_att ==
    /\ ramp.cur <= Nominal
    /\ Start(ramp.cur, "none")
    /\ meddled' = meddled \cup {"therm"}
    /\ UNCHANGED <<maxout, red, forced, enabled, admin, pending, muted>>

\* The ramp's timer.
RampTimer ==
    /\ ramp.timer
    /\ ramp.req < MaxPending
    /\ ramp' = power_ramp_timer_cb(ramp)
    /\ UNCHANGED <<maxout, red, forced, enabled, admin, pending, muted, meddled>>

\* l1if_setpower_att_cb(): layer 1 has applied a power.  A completed ramp runs its
\* callback, bts_model_chg_adm_state_ramp_compl_cb() or none.
l1if_setpower_att_cb ==
    /\ ramp.req > 0
    /\ ramp' = power_trx_change_compl(ramp)
    /\ IF IsComplete(ramp) /\ ramp.cb = "adm"
       THEN pending' = FALSE /\ muted' = (muted \/ admin = "LOCKED")
       ELSE UNCHANGED <<pending, muted>>
    /\ UNCHANGED <<maxout, red, forced, enabled, admin, meddled>>

Next ==
    \/ Lock
    \/ Unlock
    \/ CarrierEnabled
    \/ \E r \in Reductions : oml_rx_set_radio_attr(r)
    \/ \E f \in Reductions \cup {NotForced} : cfg_phyinst_tx_atten(f)
    \/ \E p \in MaxPowers : l1if_trx_set_nominal_power(p)
    \/ set_therm_att
    \/ RampTimer
    \/ l1if_setpower_att_cb

Spec == Init /\ [][Next]_vars

\* The timer wheel runs and the transceiver answers SETPOWER.
FairSpec == Spec /\ WF_vars(RampTimer) /\ WF_vars(l1if_setpower_att_cb)
-----------------------------------------------------------------------------
\* However restarts, late answers of layer 1 and the ramp's timer interleave, the
\* ramp never asks for a power beyond its target, unless the maximum power of the
\* running TRX has been changed under it and no ramp was started since.
RampOnCourse == "nominal" \notin meddled => OnCourse(ramp)

\* Whoever starts ramps, one stops short only at its target: once neither the timer
\* nor an answer of layer 1 is awaited, layer 1 was given the target power.
RestsAtTarget == RampIdle(ramp) => ramp.att = 0 /\ ramp.out = ramp.tgt

\* An unlocked TRX is not muted, whatever lock was under way before.  Once its ramp has
\* ended it transmits at full power, the one that OML's reduction or else the operator's
\* forced attenuation leaves, unless its ramp was redirected or left out since.
UnlockedTransmits ==
    admin = "UNLOCKED" =>
        /\ ~muted
        /\ RampIdle(ramp) /\ meddled \subseteq {"restart"}
           => ramp.out = FullPower(maxout, red, forced)

\* The power of a TRX, whoever starts ramps and whatever answers are late: on course,
\* at rest only at the target, and that is the full power of an unlocked TRX.
PowerInv == TypeOK /\ RampOnCourse /\ RestsAtTarget /\ UnlockedTransmits

\* A TRX that the BSC has locked ends up muted, unless it is unlocked before or
\* somebody else restarts its ramp meanwhile, which loses the callback that mutes.
LockedGetsMuted == (admin = "LOCKED") ~> (muted \/ admin = "UNLOCKED" \/ meddled # {})
=============================================================================
