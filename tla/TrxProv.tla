------------------------------- MODULE TrxProv -------------------------------
(***************************************************************************)
(* The provisioning of the TRXs of one phy link (osmo-bts-trx,             *)
(* trx_provision_fsm.c): each TRX has an FSM that sends its configuration  *)
(* to the transceiver as it arrives from the BSC; TRX 0 powers the         *)
(* transceiver on for all of them and off again, and closes the link.      *)
(*                                                                         *)
(* The TRXC queue of a TRX (module TrxCtrl) is a reliable FIFO here: the   *)
(* transceiver executes its head and the answer is handled, in one step.   *)
(* SETTSC stands for SETBSIC too, one timeslot for eight, and the commands *)
(* that follow SETSLOT's pattern (SETRXGAIN, SETMAXDLY, SETMAXDLYNB) are   *)
(* left out.  NM events that are sent on the way are inputs of NmTree.     *)
(***************************************************************************)
EXTENDS Naturals, Sequences, SequencesExt, FiniteSets

CONSTANTS
    NumTrx,        \* phy instances of the link, numbered from 0
    Setups         \* the setups to look at, see Setup

None == "none"

\* A setup: what is configured, what the transceiver can do, and the bounds.
Setup ==
    [arfcns : SUBSET STRING,   \* ARFCNs the BSC may assign
     slotTypes : SUBSET STRING, \* timeslot configurations the BSC may assign
     verMax : Nat,             \* trxd_pdu_ver_max, the highest TRXD version of the BTS
     trxVer : Nat,             \* the highest version of the transceiver
     byVty : BOOLEAN,          \* nominal_power_set_by_vty
     maxSlots : Nat,           \* bound: timeslot configurations in all
     maxRejects : Nat,         \* bound: how often the transceiver rejects POWERON
     maxChanges : Nat]         \* bound: shutdowns and second ARFCNs in a connection, together

ASSUME ProvAssumption ==
    /\ NumTrx \in Nat \ {0}
    /\ \A s \in Setups : s \in Setup /\ None \notin s.slotTypes \cup s.arfcns

Trx == 0 .. NumTrx - 1

VARIABLES
    setup,    \* the setup, which never changes
    prov,     \* prov[t]: state and configuration of the FSM of t
    q,        \* q[t]: unanswered TRXC commands
    plink,    \* the phy link: its state, osmotrx.powered and osmotrx.poweroff_sent
    phase,    \* the BTS above: "idle" without Abis link, "up", "closing" during a shutdown
    dev,      \* the transceiver: powered on?, and what each TRX was told
    used,     \* what the bounds count
    odd       \* what has happened that the properties make exceptions for

vars == <<setup, prov, q, plink, phase, dev, used, odd>>

Arfcns == setup.arfcns
PduVerMax == setup.verMax
TrxPduVer == setup.trxVer

ProvStates == {"CLOSED", "OPEN_POWEROFF", "OPEN_WAIT_POWERON_CNF", "OPEN_POWERON",
               "OPEN_WAIT_POWEROFF_CNF"}

\* The configuration commands that must be confirmed before POWERON.
Steps == {"RXTUNE", "TXTUNE", "NOMTXPOWER", "SETTSC", "SETFORMAT"}

Prov ==
    [st : ProvStates,
     enabled : BOOLEAN,
     arfcn : Arfcns \cup {None},    \* arfcn and arfcn_valid
     tsc : BOOLEAN,                 \* tsc_valid; the BSC has one BSIC
     verReq : 0 .. PduVerMax,       \* trxd_pdu_ver_req
     verUse : 0 .. PduVerMax,       \* trxd_pdu_ver_use
     sent : SUBSET Steps,           \* the .._sent flags
     acked : SUBSET Steps,          \* the .._acked flags
     slot : setup.slotTypes \cup {None},  \* setslot and setslot_valid
     slotSent : BOOLEAN]            \* setslot_sent

\* The type of the state.
TypeOK ==
    /\ setup \in Setups
    /\ prov \in [Trx -> Prov]
    /\ \A t \in Trx : \A i \in 1 .. Len(q[t]) : DOMAIN q[t][i] = {"cmd", "arg"}
    /\ plink \in [state : {"SHUTDOWN", "CONNECTING", "CONNECTED"},
                  powered : BOOLEAN, offSent : BOOLEAN]
    /\ phase \in {"idle", "up", "closing"}
    /\ dev.power \in BOOLEAN
    /\ used \in [slots : 0 .. setup.maxSlots, rejects : 0 .. setup.maxRejects, changes : 0 .. setup.maxChanges]
    /\ odd \subseteq {"rejected", "retuned", "late"}
-----------------------------------------------------------------------------
(* What the handlers read and change is a record w of the first four       *)
(* variables; a handler maps such records to such records.                 *)

Now == [prov |-> prov, q |-> q, plink |-> plink, phase |-> phase]
Become(w) == prov' = w.prov /\ q' = w.q /\ plink' = w.plink /\ phase' = w.phase

Msg(c, a) == [cmd |-> c, arg |-> a]

\* trx_ctrl_cmd_cb(): a command that repeats the last one of the queue is dropped.
Put(s, m) == IF s # <<>> /\ Last(s) = m THEN s ELSE Append(s, m)
Send(w, t, m) == [w EXCEPT !.q[t] = Put(@, m)]

\* trx_provision_reset().
MutResetKeepsAcks(p) ==
    [p EXCEPT !.enabled = FALSE, !.arfcn = None, !.tsc = FALSE, !.verReq = PduVerMax,
              !.verUse = 0, !.sent = {}, !.slot = None, !.slotSent = FALSE]
trx_provision_reset(p) ==
    [p EXCEPT !.enabled = FALSE, !.arfcn = None, !.tsc = FALSE, !.verReq = PduVerMax,
              !.verUse = 0, !.sent = {}, !.acked = {}, !.slot = None, !.slotSent = FALSE]

\* TRX_PROV_EV_OPEN, in CLOSED: st_closed() and st_open_poweroff_on_enter().
st_closed(w, t) ==
    IF w.prov[t].st # "CLOSED" THEN w
    ELSE LET p == trx_provision_reset(w.prov[t])
             off == IF t = 0 THEN Send(w, t, Msg("POWEROFF_NOCB", None)) ELSE w
         IN  Send([off EXCEPT !.prov[t] = [p EXCEPT !.st = "OPEN_POWEROFF"]],
                  t, Msg("RFMUTE", None))

\* l1if_provision_transceiver_trx(): the commands that are due, in the order in which
\* the code sends them.
ToTune(p) == IF p.arfcn = None THEN {} ELSE {"RXTUNE", "TXTUNE"} \ p.sent
Due(p) ==
    ToTune(p)
    \cup (IF p.arfcn # None /\ "TXTUNE" \in p.acked \ ToTune(p) /\ ~setup.byVty
          THEN {"NOMTXPOWER"} \ p.sent ELSE {})
    \cup (IF p.tsc THEN {"SETTSC"} \ p.sent ELSE {})
    \cup ({"SETFORMAT"} \ p.sent)

l1if_provision_transceiver_trx(w, t) ==
    LET p == w.prov[t]
        due == Due(p)
        arg == [c \in Steps |-> CASE c \in {"RXTUNE", "TXTUNE"} -> p.arfcn
                                  [] c = "SETFORMAT" -> p.verReq
                                  [] OTHER -> None]
        quiet == IF PduVerMax = 0 THEN {"SETFORMAT"} ELSE {}  \* nothing to negotiate
        Cmd(s, c) == IF c \in due \ quiet THEN Put(s, Msg(c, arg[c])) ELSE s
        sent == Cmd(Cmd(Cmd(Cmd(Cmd(w.q[t], "RXTUNE"), "TXTUNE"), "NOMTXPOWER"),
                        "SETTSC"), "SETFORMAT")
    IN
    IF w.plink.state = "SHUTDOWN" THEN w
    ELSE [w EXCEPT !.prov[t] = [p EXCEPT !.sent = @ \cup due,
                                         !.acked = (@ \ due) \cup (due \cap quiet)],
                   !.q[t] = sent]

trx_is_provisioned(p) ==
    (IF setup.byVty THEN Steps \ {"NOMTXPOWER"} ELSE Steps) \subseteq p.acked

trx_other_trx0_ready(w) == \A t \in Trx \ {0} : trx_is_provisioned(w.prov[t])

\* st_open_poweron_on_enter(): send what the transceiver gets after POWERON.
EnterOpenPoweron(w, t) ==
    LET p == w.prov[t]
        on == [w EXCEPT !.prov[t].st = "OPEN_POWERON"]
    IN
    IF p.slot # None /\ ~p.slotSent
    THEN Send([on EXCEPT !.prov[t].slotSent = TRUE], t, Msg("SETSLOT", p.slot))
    ELSE on

\* st_open_wait_power_cnf_on_enter().
EnterWaitPoweronCnf(w) ==
    Send([w EXCEPT !.prov[0].st = "OPEN_WAIT_POWERON_CNF"], 0, Msg("POWERON", None))

\* The end of st_open_poweroff() for TRX 0: provision, and power on when this TRX is
\* enabled and all are provisioned.
OpenPoweroff0(w) ==
    LET w1 == l1if_provision_transceiver_trx(w, 0)
        p == w1.prov[0]
    IN
    IF p.enabled /\ trx_is_provisioned(p) /\ trx_other_trx0_ready(w1)
    THEN EnterWaitPoweronCnf(w1) ELSE w1

\* trx_signal_ready_trx0(): TRX_PROV_EV_OTHER_TRX_READY.
MutSignalsNobody(w) == w
trx_signal_ready_trx0(w) == IF w.prov[0].st = "OPEN_POWEROFF" THEN OpenPoweroff0(w) ELSE w

\* st_open_poweroff() of TRX t, whose event has changed its configuration to p.
st_open_poweroff(w, t, p) ==
    LET was_ready == trx_is_provisioned(w.prov[t])
        w1 == [w EXCEPT !.prov[t] = p]
        w2 == l1if_provision_transceiver_trx(w1, t)
        w3 == IF ~was_ready /\ trx_is_provisioned(w2.prov[t])
              THEN trx_signal_ready_trx0(w2) ELSE w2
    IN
    IF t = 0 THEN OpenPoweroff0(w1)
    ELSE IF w3.prov[t].enabled /\ trx_is_provisioned(w3.prov[t])
    THEN EnterOpenPoweron(w3, t) ELSE w3

\* osmo_fsm_inst_state_chg() to CLOSED, which two states do not permit.
ToClosed(p) ==
    IF p.st \in {"OPEN_WAIT_POWERON_CNF", "OPEN_POWERON"} THEN p
    ELSE [p EXCEPT !.st = "CLOSED"]

\* trx_prov_fsm_apply_close(): nothing if the link is down; else close it, drop the
\* commands, close all TRXs and report it, which ends a shutdown (see BtsShutdown).
MutCloseForgetsOthers(w) ==
    IF w.plink.state = "SHUTDOWN" THEN w
    ELSE [prov |-> [w.prov EXCEPT ![0] = ToClosed(@)],
          q |-> [t \in Trx |-> <<>>],
          plink |-> [w.plink EXCEPT !.state = "SHUTDOWN"],
          phase |-> IF w.phase = "closing" THEN "idle" ELSE w.phase]
trx_prov_fsm_apply_close(w) ==
    IF w.plink.state = "SHUTDOWN" THEN w
    ELSE [prov |-> [t \in Trx |-> ToClosed(w.prov[t])],
          q |-> [t \in Trx |-> <<>>],
          plink |-> [w.plink EXCEPT !.state = "SHUTDOWN"],
          phase |-> IF w.phase = "closing" THEN "idle" ELSE w.phase]

\* TRX_PROV_EV_CLOSE.
Poweroff(w) ==
    IF w.plink.offSent THEN w
    ELSE Send([w EXCEPT !.plink.offSent = TRUE], 0, Msg("POWEROFF", None))
MutCloseNeedsPower(w, t) ==
    LET off == IF t = 0 /\ w.plink.powered THEN Poweroff(w) ELSE w
        wait == [off EXCEPT !.prov[t].st = "OPEN_WAIT_POWEROFF_CNF"]
    IN
    CASE w.prov[t].st = "OPEN_POWEROFF" -> IF t = 0 THEN trx_prov_fsm_apply_close(w) ELSE w
      [] w.prov[t].st = "OPEN_WAIT_POWERON_CNF" -> wait
      [] w.prov[t].st = "OPEN_POWERON" -> wait
      [] OTHER -> w
EvClose(w, t) ==
    LET wait(w1) == [w1 EXCEPT !.prov[t].st = "OPEN_WAIT_POWEROFF_CNF"] IN
    CASE w.prov[t].st = "OPEN_POWEROFF" -> IF t = 0 THEN trx_prov_fsm_apply_close(w) ELSE w
      [] w.prov[t].st = "OPEN_WAIT_POWERON_CNF" -> wait(IF t = 0 THEN Poweroff(w) ELSE w)
      [] w.prov[t].st = "OPEN_POWERON" ->
             wait(IF t = 0 /\ w.plink.powered THEN Poweroff(w) ELSE w)
      [] OTHER -> w
-----------------------------------------------------------------------------
(* Actions.                                                                *)

\* bts_model_phy_link_open(): the sockets are opened and every TRX gets EV_OPEN, which
\* changes nothing of the others.
bts_model_phy_link_open(w) ==
    [w EXCEPT !.plink.state = "CONNECTING",
              !.prov = [t \in Trx |-> st_closed(w, t).prov[t]],
              !.q = [t \in Trx |-> st_closed(w, t).q[t]]]

\* The process has started and phy_links_open() has opened the link.
Init ==
    /\ setup \in Setups
    /\ LET closed == trx_provision_reset([st |-> "CLOSED", acked |-> {}, enabled |-> FALSE,
                        arfcn |-> None, tsc |-> FALSE, verReq |-> 0, verUse |-> 0,
                        sent |-> {}, slot |-> None, slotSent |-> FALSE])
           w == bts_model_phy_link_open(
                  [prov |-> [t \in Trx |-> closed], q |-> [t \in Trx |-> <<>>],
                   plink |-> [state |-> "SHUTDOWN", powered |-> FALSE, offSent |-> FALSE],
                   phase |-> "idle"])
       IN  prov = w.prov /\ q = w.q /\ plink = w.plink /\ phase = w.phase
    /\ dev \in [power : BOOLEAN, rx : {[t \in Trx |-> None]}, tx : {[t \in Trx |-> None]},
                slot : {[t \in Trx |-> None]}]
    /\ used = [slots |-> 0, rejects |-> 0, changes |-> 0]
    /\ odd = {}

\* The Abis link comes up: nm_bts_fsm reopens a phy link that is down.
OmlUp ==
    /\ phase = "idle"
    /\ LET w == [Now EXCEPT !.phase = "up"] IN
       Become(IF plink.state = "SHUTDOWN" THEN bts_model_phy_link_open(w) ELSE w)
    /\ UNCHANGED <<dev, used, odd>>

\* The configuration the BSC sends; only OPEN_POWEROFF takes it.
Configure(t, p) ==
    /\ phase = "up"
    /\ prov[t].st = "OPEN_POWEROFF"
    /\ Become(st_open_poweroff(Now, t, p))
    /\ UNCHANGED dev

CfgEnable(t) ==
    /\ ~prov[t].enabled
    /\ Configure(t, [prov[t] EXCEPT !.enabled = TRUE])
    /\ UNCHANGED <<used, odd>>

CfgBsic(t) ==
    /\ ~prov[t].tsc
    /\ Configure(t, [prov[t] EXCEPT !.tsc = TRUE, !.sent = @ \ {"SETTSC"}])
    /\ UNCHANGED <<used, odd>>

CfgArfcn(t, a) ==
    /\ prov[t].arfcn # a
    /\ Configure(t, [prov[t] EXCEPT !.arfcn = a,
                                    !.sent = @ \ {"RXTUNE", "TXTUNE", "NOMTXPOWER"}])
    /\ \/ prov[t].arfcn = None /\ UNCHANGED <<used, odd>>
       \/ /\ prov[t].arfcn # None /\ used.changes < setup.maxChanges
          /\ used' = [used EXCEPT !.changes = @ + 1]
          /\ odd' = odd \cup {"retuned"}

\* TRX_PROV_EV_CFG_TS; while powered on SETSLOT is sent at once.
update_ts_data(p, s) == [p EXCEPT !.slot = s, !.slotSent = FALSE]
CfgTs(t, s) ==
    /\ phase = "up"
    /\ used.slots < setup.maxSlots
    /\ used' = [used EXCEPT !.slots = @ + 1]
    /\ prov[t].slot # s
    /\ \/ /\ prov[t].st = "OPEN_POWEROFF"
          /\ Become(st_open_poweroff(Now, t, update_ts_data(prov[t], s)))
       \/ /\ prov[t].st = "OPEN_WAIT_POWERON_CNF"
          /\ Become([Now EXCEPT !.prov[t] = update_ts_data(@, s)])
       \/ /\ prov[t].st = "OPEN_POWERON"
          /\ Become(EnterOpenPoweron([Now EXCEPT !.prov[t] = update_ts_data(@, s)], t))
    /\ UNCHANGED <<dev, odd>>

\* A shutdown, because of a lost Abis link: the TRXs are closed in reverse order, TRX 0
\* as the last one; the others change nothing but themselves.
CloseAll(w) ==
    EvClose([w EXCEPT !.prov = [t \in Trx |-> IF t = 0 THEN @[0] ELSE EvClose(w, t).prov[t]]], 0)
Shutdown ==
    /\ phase = "up"
    /\ used.changes < setup.maxChanges
    /\ Become(CloseAll([Now EXCEPT !.phase = "closing"]))
    /\ used' = [used EXCEPT !.changes = @ + 1]
    /\ UNCHANGED <<dev, odd>>

\* ... and T-2 expires before it has ended.
ShutdownTimeout ==
    /\ phase = "closing"
    /\ phase' = "idle"
    /\ odd' = odd \cup {"late"}
    /\ UNCHANGED <<prov, q, plink, dev, used>>

\* The answer to the configuration command c of TRX t: its _CNF event.  A SETFORMAT
\* answer with another version than the requested one is asked for next.
Confirm(p, m) ==
    IF m.cmd # "SETFORMAT" THEN [p EXCEPT !.acked = @ \cup ({m.cmd} \cap p.sent)]
    ELSE LET version == IF m.arg <= TrxPduVer THEN m.arg ELSE TrxPduVer IN
         IF version = p.verReq THEN [p EXCEPT !.verUse = version, !.acked = @ \cup {"SETFORMAT"}]
         ELSE [p EXCEPT !.verReq = version, !.sent = @ \ {"SETFORMAT"}]
CnfStep(w, t, m) ==
    IF w.prov[t].st = "OPEN_POWEROFF"
    THEN st_open_poweroff(w, t, Confirm(w.prov[t], m)) ELSE w

\* l1if_poweronoff_cb() and the FSM of TRX 0: POWERON was accepted or not, POWEROFF
\* is confirmed.
CnfPoweron(w, ok) ==
    LET w1 == [w EXCEPT !.plink.powered = TRUE] IN
    IF w1.prov[0].st # "OPEN_WAIT_POWERON_CNF" THEN w1
    ELSE IF ~ok THEN [w1 EXCEPT !.plink.state = "SHUTDOWN"]
    ELSE IF w1.plink.state = "CONNECTED" THEN w1
    ELSE EnterOpenPoweron([w1 EXCEPT !.plink.state = "CONNECTED"], 0)
CnfPoweroff(w) ==
    LET w1 == [w EXCEPT !.plink.powered = FALSE, !.plink.offSent = FALSE] IN
    IF w1.prov[0].st = "OPEN_WAIT_POWEROFF_CNF" THEN trx_prov_fsm_apply_close(w1) ELSE w1

\* The transceiver executes the first command of TRX t and the answer is handled.
Execute(t, m) ==
    dev' = CASE m.cmd = "RXTUNE" -> [dev EXCEPT !.rx[t] = m.arg]
             [] m.cmd = "TXTUNE" -> [dev EXCEPT !.tx[t] = m.arg]
             [] m.cmd = "SETSLOT" -> [dev EXCEPT !.slot[t] = m.arg]
             [] m.cmd = "POWERON" -> [dev EXCEPT !.power = TRUE]
             [] m.cmd \in {"POWEROFF", "POWEROFF_NOCB"} -> [dev EXCEPT !.power = FALSE]
             [] OTHER -> dev

Transceiver(t) ==
    /\ q[t] # <<>>
    /\ LET m == Head(q[t])
           w == [Now EXCEPT !.q[t] = Tail(@)]
       IN
       /\ Execute(t, m)
       /\ Become(CASE m.cmd \in Steps -> CnfStep(w, t, m)
                   [] m.cmd = "POWERON" -> CnfPoweron(w, TRUE)
                   [] m.cmd = "POWEROFF" -> CnfPoweroff(w)
                   [] OTHER -> w)
    /\ UNCHANGED <<used, odd>>

\* POWERON is rejected; the command stays in the queue and is repeated.
RejectPoweron ==
    /\ used.rejects < setup.maxRejects
    /\ q[0] # <<>> /\ Head(q[0]).cmd = "POWERON"
    /\ Become(CnfPoweron(Now, FALSE))
    /\ used' = [used EXCEPT !.rejects = @ + 1]
    /\ odd' = odd \cup {"rejected"}
    /\ UNCHANGED dev

Next ==
    /\ \/ OmlUp
       \/ Shutdown
       \/ ShutdownTimeout
       \/ RejectPoweron
       \/ \E t \in Trx :
            \/ CfgEnable(t)
            \/ CfgBsic(t)
            \/ \E a \in Arfcns : CfgArfcn(t, a)
            \/ \E s \in setup.slotTypes : CfgTs(t, s)
            \/ Transceiver(t)
    /\ UNCHANGED setup

Spec == Init /\ [][Next]_vars

\* The transceiver answers, the Abis link comes back, and the BSC sends every TRX its
\* configuration.  With finitely many commands (the bounds) this is weak fairness of
\* Transceiver(t), OmlUp and the Cfg actions, stated on states.
Configured(p) == p.enabled /\ p.tsc /\ p.arfcn # None
FairSpec ==
    /\ Spec
    /\ []<>(phase # "idle")
    /\ \A t \in Trx :
         /\ []<>(q[t] = <<>>)
         /\ []<>(phase = "up" /\ prov[t].st = "OPEN_POWEROFF" => Configured(prov[t]))
-----------------------------------------------------------------------------
\* The transceiver is powered on for a cell only when every TRX of it is tuned, in both
\* directions, to the ARFCN the BSC has assigned, also after earlier connections.
\* (Excepted is a second ARFCN within a connection: the answers to the first tuning
\* count for it, and POWERON may be on its way already.)
Tuned(t) == prov[t].arfcn # None /\ dev.rx[t] = prov[t].arfcn /\ dev.tx[t] = prov[t].arfcn
PoweronTuned ==
    [][~dev.power /\ dev'.power /\ "retuned" \notin odd => \A t \in Trx : Tuned(t)]_vars

\* TRXD bursts are exchanged with the highest version that both sides know.
FormatAgreed ==
    \A t \in Trx : prov[t].st = "OPEN_POWERON" =>
        prov[t].verUse = IF PduVerMax <= TrxPduVer THEN PduVerMax ELSE TrxPduVer

\* A TRX in operation that has nothing left to send runs the timeslot configuration
\* the BSC sent last, whenever it came.  (Excepted are the closing of a link under the next
\* connection, after T-2, and of one with a TRX that was tuned again: the TRX comes into
\* operation while the link is being closed, and its SETSLOT is dropped.)
SlotApplied ==
    odd \cap {"late", "retuned"} = {} =>
        \A t \in Trx : prov[t].st = "OPEN_POWERON" /\ q[t] = <<>> /\ prov[t].slot # None
                         => dev.slot[t] = prov[t].slot

\* A closed link has all its TRXs closed, ready to be opened again.
ClosedTogether ==
    plink.state = "SHUTDOWN" /\ odd = {} => \A t \in Trx : prov[t].st = "CLOSED"

\* What the TRXs of a link run is what was agreed and configured last, and they close
\* together.
ProvInv == TypeOK /\ FormatAgreed /\ SlotApplied /\ ClosedTogether

\* A shutdown closes the link, also when POWEROFF is confirmed after T-2.  (Excepted is
\* a rejected POWERON, after which the link counts as closed already.)
ShutdownCloses ==
    (phase = "closing") ~> \/ plink.state = "SHUTDOWN" /\ prov[0].st = "CLOSED"
                           \/ "rejected" \in odd

\* As long as the BSC stays connected, all TRXs come into operation, also after the link
\* was lost and found again.  (Excepted is a POWEROFF confirmed after T-2, which closes
\* the link under the next connection.)
AllComeUp ==
    (phase = "up") ~> \/ \A t \in Trx : prov[t].st = "OPEN_POWERON"
                      \/ phase # "up"
                      \/ "late" \in odd
=============================================================================
