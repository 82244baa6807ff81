# A formal model of OsmoBTS

OsmoBTS is a GSM base transceiver station: it connects to a BSC over A-bis (OML for
management, RSL for the radio channels), drives a physical layer (a transceiver
program over UDP in `osmo-bts-trx`, DSPs in the other variants), and keeps the state
in between. It is one single-threaded process around `select()`; what makes it hard
is not threads but the **order of callbacks**: sockets, timers, signals, and events
that finite state machines dispatch into each other, sometimes into a machine that is
in the middle of a transition.

This directory holds TLA+ modules for the control of the program, TLC
configurations that check them on small instances, and TLAPS proofs for every
value of the constants. `PROJECT.json` lists the runs, the mutants that show that each
property can fail, the source lines behind every definition, the hazards the
properties are for, and the disagreements between code and comments that were met.

Paths below are relative to `src/src/` unless they begin with `src/`.

## 1. Inventory

### Modelled

| Component | State | Operations | What makes it correct |
|---|---|---|---|
| TRXC control connection (`osmo-bts-trx/trx_if.c`) | list of unanswered commands, retransmission timer, last answered command, sockets | issue, send, retransmit, match a response, callback, flush, open, close | at most one command on the wire; execution in issue order; an answer belongs to its command; no command waits forever; a duplicate harms nobody |
| Transmit power ramp (`common/tx_power.c`) | current power, target, attenuation, requests at layer 1, timer, completion callback | start, abort, step, answer of layer 1 | ends at the target, never beyond it, and gradually |
| Power and admin state of a TRX (`osmo-bts-trx/l1_if.c`, `common/oml.c`, `common/bts_ctrl_commands.c`, `osmo-bts-trx/trx_vty.c`) | administrative and operational state, RF mute, maximum power, reduction by OML, attenuation forced by the operator | lock, unlock, enabling, attributes, forced attenuation, thermal attenuation, new maximum power | a locked TRX falls silent; an unlocked one is not muted and transmits at the power that OML or the operator asks for |
| TDMA scheduler (`osmo-bts-trx/scheduler_trx.c`, `common/scheduler.c`, `osmo-bts-trx/sched_lchan_xcch.c`) | frame timer and last frame number; per channel burst buffers, mask, last frame, measurements; per timeslot queue of downlink blocks | frame timer, clock indication, start and stop; uplink burst, substitution of lost ones; ready-to-send, downlink burst, activation and release | frames are those of the transceiver; a dead transceiver is noticed, a living one never blamed; blocks whole, once each; nothing sent late or to the wrong user |
| BTS shutdown FSM (`common/bts_shutdown_fsm.c`) | FSM state, exit and skip-ramp flags, timers T-1 and T-2; reads ramps, carriers, phy links | start (SIGINT, VTY, lost A-bis), ramp complete, TRX closed, timeouts | ends; SIGINT ends the process; TRXs are ramped down and closed before it ends |
| A-bis link FSM (`common/abis.c`, `common/vty.c`) | FSM state, list of BSCs, current BSC, reconnect flag, OML and RSL links | connect, links up and down, reconnect timer, add and remove a BSC | no stale link, no connection in the middle of a shutdown, every BSC is tried |
| TRX provisioning FSM (`osmo-bts-trx/trx_provision_fsm.c`) | per TRX: FSM state, configuration and its acknowledgements; per phy link: power flags | configuration events, confirmations, POWERON of TRX 0 for all, close | POWERON only when all TRXs are tuned; common TRXD version; slots applied; TRXs close together and come back |
| Network management FSMs (`common/nm_*_fsm.c`) | operational and availability state, attributes, Opstart, per managed object | software activation, SetAttr, Opstart, links, shutdown, parent enabled/disabled | the tree of dependencies holds: no timeslot in service without its parents, none that waits although its parents are up |
| Paging (`common/paging.c`) and AGCH (`common/bts.c`), fed by `common/rsl.c` and `common/pcu_sock.c` | a queue per paging group, count, priority, ETWS pages; AGCH queue with its limits | page, MAC block, ETWS, assignment, rejection, limits, a block of PCH or AGCH | nothing is lost or counted wrong, messages fit, queues and priority drain |
| Dynamic timeslots (`common/rsl.c`, `common/lchan.c`, `common/pcu_sock.c`, `osmo-bts-trx/l1_if.c`) | channel states, switch flags, pending activation, state of the PCU | CHAN ACTIV, RF CHAN REL, PDCH ACT/DEACT, ACT.req of the PCU, confirmations of layer 1, loss of PCU or BSC | a channel is used only for what was asked for, assertions hold, PCU and BTS agree, requests are answered |
| Dedicated channels (`common/rsl.c`, `lchan.c`, `handover.c`, `asci.c`, `l1sap.c`) | channel state, handover state and T3105, talker and listener state and T3115, early assignment | activation, release, access burst, frame, timers, uplink messages of group calls, A-bis loss | timers belong to the present use, nothing is left over from the last one, a handover is decided, a group uplink reopens |
| Cell broadcast (`common/cbch.c`) | queue, default message, message and block in transmission, load counters | SMS BC COMMAND in all its kinds, a CBCH block, reset | memory is freed once, a period carries one message, dropping is announced |
| Notification of group calls (`common/notification.c`) | list with a position, list number, new-call marks | add, remove, a block of the NCH, reset | the list number says that all has been heard; new calls first |
| DTX of AMR (`common/dtx_dl_amr_fsm.c`, `common/msg_utils.c`, `osmo-bts-sysmo/l1_if.c`, `tch.c`) | FSM state, cached SID and FACCH, age of the last update | requests of layer 1 for signalling and for speech, RTP frames, release | silence is refreshed, speech and FACCH get through, nothing stale is repeated |
| MS and BS power, timing advance (`common/power_control.c`, `ta_control.c`, `measurement.c`, `rsl.c`, `bts.c`) | orders, limits, averages, interval counters, BCCH reduction | an uplink SACCH block, activation, MS/BS POWER CONTROL, reduction of the BCCH carrier | limits are honoured, the loops settle |

### How they interact

    BSC --OML/RSL-- A-bis link FSM --lost--> BTS shutdown FSM --ramp down--> power ramp
      |                |                        |   ^ ramp complete, TRX closed
      |              links up                 close |
      |                v                        v   |
      |            NM object FSMs --cfg--> TRX provisioning FSM --commands--> TRXC connection -- transceiver
      |                ^                        |                                   |               |
      |                +------ phy link state --+------ SETPOWER, RFMUTE answers ---+--> power ramp  |
      |                                                                                              |
      +--RSL--> channels, dynamic timeslots <--PCU socket--> PCU                                     |
      +--RSL--> paging, AGCH, cell broadcast, notification                                           |
                     ^ blocks asked for, blocks received                                             |
                  scheduler <------------- clock indications, bursts ---------------------------------+
                     |
                  measurements --> power control, timing advance

All arrows are direct calls or FSM events handled before the caller continues, except
those to the BSC, to the PCU, to the transceiver and through timers.
`bts_model_trx_close()`, for example, may dispatch TRX_CLOSED into the shutdown FSM from
within the shutdown FSM's own on-enter function.

### Hard behaviours

* Loss, duplication by retransmission, and late answers on the TRXC connection; lost and
  overtaken bursts; lost clock indications and a process that the system does not run.
* A ramp that is restarted while answers to its old requests are outstanding.
* Re-entrant FSM events (shutdown), and events that the FSM table silently refuses
  (provisioning).
* Operator commands that edit what a machine points at (list of BSCs).
* Objects that come up in any order and go down together (management tree).
* Timeouts that let one component go on while another is still busy (T-2 and
  POWEROFF; T3105 and T3115 against release).
* A timeslot that BSC and PCU switch with messages that cross, while layer 1 answers late.
* State of one use of a channel found by the next one (handover, group calls, early
  assignment, power limits, cached speech, queued blocks).
* Queues at their limits (paging, AGCH, cell broadcast, write queue to the DSP).
* Control loops whose orders come back in reports periods later.

### Not modelled

| Component | Why |
|---|---|
| GPRS management FSMs | they follow the pattern of `NmTree`, with the version of the PCU interface as one more condition |
| Ciphering, MODE MODIFY, SACCH filling, RLL forwarding, ip.access RTP connections (`rsl.c`) | message handling without much state; MODE MODIFY is named below where it would matter |
| Handlers of TCH, PDTCH and RACH bursts, hopping, VAMOS, interference (`scheduler`) | signal processing; their control is that of the SDCCH handlers with other burst counts |
| Assignment of frames to measurement periods (`measurement.c`) | tables; their use, a SACCH block at a time, is in `LinkCtrl` |
| Load indication | a periodic report of counters on which nothing depends |
| Osmux | circuit identifiers are chosen by the BSC and the batching is in a library |
| System information, RTP input, CSD | formatting and stateless conversion |
| DSP interfaces of the other variants | proprietary layer 1; their late answers to Opstart are in `NmTree`, their speech path in `DtxDlAmr` |
| OML parsing, attribute reports, phy configuration, start-up | parsing and setting up; what they trigger is an input of the modules |
| Logging, most of VTY and control interface | no behaviour of their own |

Most of the repository's lines are in this table: coding tables, DSP primitives, parsing of
messages, the VTY and tests. `PROJECT.json` lists all components.

## 2. Modules

The actions carry the names of the C functions they stand for. An action is a whole
handler: nested calls, including re-entrant events and trailing updates, happen in it.

**`TrxCtrl`** models one control connection with the transceiver and the datagrams in
between. `queue` is `trx_ctrl_list` and its head is on the wire; `lastAcked` is
`last_acked`. `trx_ctrl_read_cb` matches a response against head and `lastAcked` as the
code does, by name and, for SETSLOT and SETFORMAT, by parameters, and then runs the
handler of the response, whose callback may queue another command or close the
connection. The transceiver carries out what it receives and answers; datagrams get
lost and retransmission produces duplicates. Each command carries the
number under which it was issued; the code has none, the properties compare it. `smooth`
is true until anything was lost, refused or closed, so that one instance checks both what
holds always and what holds on a good connection. `MCTrxCtrl` gives the kinds of command.

**`PowerRamp`** holds the ramp as operators on a record: starting it (which aborts the
old one, and refuses targets out of range), one step, the completion handler that every
answer of layer 1 runs. **`TxPower`** is one powered TRX around it: administrative state,
muting, and every function that starts a ramp of a powered TRX or leaves it out. `FullPower` is
what `l1if_trx_start_power_ramp()` ramps to: the maximum power less the reduction of OML or, with
"osmotrx tx-attenuation N", less that attenuation, which also keeps `trx_set_trx()` from ramping.
`meddled` remembers what others have done to the ramp since the BSC last locked or unlocked the
TRX; a ramp to full power clears all of it but the fact that the ramp was restarted. The code has no
such state, the properties name it in their exceptions. Powers are millidecibel as in the code.

**`SchedClock`** is the frame clock: `timer` is the timerfd with its callback and
expirations, `last` is `last_fn_timer.fn`, `age` how long ago it was set. Time passes in
frames; the process runs between two frames unless it is stalled, and a timer and an
indication that are both ready are handled in either order. **`SchedUl`** is the uplink of one
channel: bursts that get lost or overtake one another, `trx_sched_calc_frame_loss` with
its substitutes, `rx_data_fn` with its mask and buffers (each buffer holds the number of the frame
it came from). Its fields `rough` and `since` are history: which blocks the properties except, and
from which burst on they count. **`SchedDl`** is the downlink of a timeslot with two channels and the queue
they share: ready-to-send ahead of time, answers at once or late, `_sched_dequeue_prim`
and `tx_data_fn`; a block carries its activation, frame and the clock it was asked under, none of which but
the frame is in the code. **`MCTrxL1`** takes these and `TxPower` one at a time: they share no
state.

**`BtsShutdown`** is the shutdown FSM over several TRXs, with a `PowerRamp` for each, the
carriers and phy links it reads and the close callbacks. The loop of
`st_wait_trx_closed_on_enter()` is a recursion over the TRXs so that an event dispatched
from inside it is seen in the middle. **`Shutdown`** is the abstract specification: one shutdown is
in progress or not, another request can only turn it into one that ends the process, and
it ends. `BtsShutdown` implements it, and so does the shutdown as `AbisLink` pictures it,
which is what makes that picture right.

**`AbisLink`** is the A-bis link FSM with its list of BSCs and the two VTY commands that
edit it. Host objects are numbered, so that a pointer to a freed one can be told. The
shutdown is reduced to "in progress" and "ends the process". `AbisCloseExits` selects
whether `bts_model_abis_close()` of the variant leaves the process.

**`TrxProv`** is the provisioning FSM of all TRXs of a phy link with their unanswered
commands. The TRXC connection appears as the reliable queue it should be (its failures
are `TrxCtrl`'s subject). `dev` is what the transceiver was really told; the properties
compare it with what the FSM believes. `odd` remembers the events for which properties make
an exception (a second ARFCN, a rejected POWERON, an expired T-2). **`MCTrxProv`** has four
setups: version negotiation, timeslots at any time, and closing and reopening without and with
timeslots.

**`NmTree`** holds the managed objects: site manager, BTS, and per TRX the radio carrier,
baseband transceiver and channels, with OML, RSL and phy links. `Models` are the kinds of
layer 1: whether it answers Opstart later (as the DSP variants do) and whether timeslots
depend on the carrier too. A BSC may start a timeslot before it is offered; `ahead` holds
the timeslots that got into service so.

**`Paging`** has the groups' queues, limits, expiry, MAC blocks, ETWS and the message made for
one block; **`Ccch`** adds the AGCH queue with merging and dropping, and layer 1, which asks for
blocks. Records and references are numbered, to be followed until they are sent.

**`DynTs`** is a dynamic timeslot, Osmocom or ip.access style, with its channels, the BSC, the PCU
(its queue of INFO.ind included) and layer 1's confirmations. Handlers map a record of
the state to the next one, as they are nested deeply in the code. `odd` names the rare events that the properties
except ("died", "refused", ...).

**`Lchan`** is one dedicated channel of osmo-bts-trx or osmo-bts-virtual: assignment,
handover, group call, the timers, radio link timeout, and an immediate assignment that is
kept until the channel is active. `UplinkAccess` says whether layer 1 can open and close uplink
access, which osmo-bts-virtual cannot: the error paths of `asci.c` are taken there.

**`Cbch`** numbers messages by allocation, so that `live` tells what is leaked or freed twice.
**`Notification`** is the list of group calls. **`Broadcast`** composes two CBCHs and the
notifications with the reset they share; **`MCBroadcast`** gives the limits.

**`DtxDlAmr`** is the downlink of an AMR call in osmo-bts-sysmo: the FSM, what LAPDm and RTP
deliver, the write queue to the DSP, and the age of the last update in blocks.
**`LinkCtrl`** is the control loops of a call with a phone that follows orders and a radio with
path loss, delay and interference. **`MCCall`** takes the two one at a time.

`*_proofs` modules extend these with theorems.

## 3. Runs

A run checks a component, or several that share no state, on one instance. Its invariants
and properties are **conjunctions of named parts** (`ConnectionInv` is `TypeOK`,
`TimerNeedsCommand` and `StopAndWait`, and so on): each part has its own definition and
comment in the module, and the names in the sections below are those of the parts. Every
bound is a named constant or a small set.

| Run | Instance | Shows |
|---|---|---|
| `trxctrl` | 3 commands of 6 kinds, 3 datagrams in flight, loss, refusal, close and reopen, fair | stop-and-wait, the timer's assertion, execution in order; an answered critical command was carried out; while nothing is lost, duplicates do not stop the BTS and every command is answered |
| `trx_l1` | one after the other: the ramp with every function that starts one; the frame clock; uplink and downlink of a timeslot; fair | the ramp stays on course and rests only at its target; an unlocked TRX is not muted and ends at full power, a locked one gets muted; the clock is in step, a silent transceiver is noticed and a living one not blamed; uplink blocks are whole, measured and indicated; downlink blocks are of this frame and this user, and a prompt answer is sent |
| `shutdown_two` | 2 TRXs, 2 shutdowns, fair | SIGINT ends the process, closing only after ramp-down or T-1, and the abstract shutdown is implemented, which includes that it ends |
| `abis_link` | up to 4 BSC objects, added and removed, fair | links only below a connection, none during a shutdown from which the BTS comes back; each configured BSC is tried again and again; the shutdown it pictures is the abstract one |
| `prov` | 2 TRXs; version negotiation, then slots at any time, then closing and reopening; fair | POWERON finds all tuned; highest common version; the last slot configuration is applied; TRXs close together, a shutdown closes the link, and all come up again |
| `nm` | 1 TRX, 2 timeslots, osmo-bts-trx and a layer 1 that answers late, a BSC that may start early | dependencies hold both ways; carriers in service are ready; objects of a TRX are installed together |
| `ccch` | 2 paging groups, 4 temporary and 2 permanent identities, 5 commands, fair | counts are right, messages fit, an ETWS page is there when it is sent, nothing is lost or sent twice; AGCH stays in its limits; queues drain and priority ends |
| `dynts` | both kinds of dynamic timeslot, 2 losses, 1 A-bis reset, fair | channels are used for what was asked for, assertions hold, PCU and BTS agree at rest, requests are answered |
| `lchan` | 3 activations, NY1, NY2 and the radio link timeout at 2, fair | timers belong to the present use; nothing left over; a handover is decided; a group uplink reopens or, on osmo-bts-virtual, the BSC is told that it does not; an immediate assignment is the present one |
| `broadcast` | 2 CBCHs, 3 messages, 3 group calls, a missed block, fair | nothing leaked or freed twice; one message per period; dropping is announced; queued messages go out; a list number says that all calls have been heard, new ones first |
| `call` | AMR call with signalling; control loops with one disturbance; fair | silence refreshed, no stale repetition, speech and FACCH get through; power limits honoured, loops settle, bursts arrive in time |

`dynts_back` expects a violation: a comment says that the BSC can always switch a dynamic
timeslot back, but a PCU that dies while the release of a PDCH is pending leaves it unanswered
for good. `findings` quotes the line.

Why the bounds are enough to be interesting:

* three commands let a duplicate answer to the first meet a head that is neither the
  first nor the last of the list; three datagrams in flight allow two retransmissions of
  one command besides its original;
* maximum powers of 6 and 11 dBm less 0 or 5 dB, by OML or forced, are full powers of 1, 6 and
  11 dBm: with steps of 4 dB the last step is shorter in both directions, and forcing an
  attenuation may raise the power above the one OML asks for or lower it; two requests pending
  are the ramp's own and a late one of a ramp that was aborted (three were explored once);
* the hyperframe has 20 frames and the tolerated skew 4, so that the clock wraps within
  an instance; two faults (stall, lost or stale indication) are one more than the code
  can tell apart (four were explored once: 2.7 million states, no violation). 13 uplink frames are
  three blocks, 15 downlink frames three blocks and a re-activation (16 and 24 were
  explored once);
* two TRXs are the least for which "all" differs from "the one that reported"; TRX 0 is
  the special one of provisioning, so the second stands for every other;
* a second shutdown meets the leftovers of the first;
* four BSC objects allow removal of the first, of the last and of the current one and a
  new one after each;
* two timeslots are enough to see one served and one forgotten; TRXs of the management
  tree do not interact except through the objects above them, and the proofs cover any
  number;
* four temporary identities fill one paging message, and with two permanent ones every
  form of the message is made; a limit of one makes the AGCH overflow;
* two losses of the PCU let the second hit what the first left; with `MaxMsgs` 1 two messages may be on
  their way to and from the PCU and cross;
* repetitions of two tell the first from the last; three activations let state survive one
  use unnoticed;
* three messages fill queue, default and transmission; two events on a call were
  explored once (1.1 million states).

`CHECK_DEADLOCK FALSE` stands where the bounded instance, or the program, may really
stop: all bounded commands are used, the process has ended, the BSC has nothing more to
configure.

### Fairness

Safety needs none. `FairSpec` adds only what the event loop and the peers provide:

* `TrxCtrl`: what arrived is read, and the transceiver answers what it receives. The
  retransmission timer needs no fairness where nothing is lost. Nothing forces new
  commands.
* `TxPower`: the ramp's timer fires and SETPOWER is answered (`TrxCtrl` retransmits it).
* `SchedClock`: frames pass and the process handles what is ready between two of them.
* `BtsShutdown`: T-1 and T-2 expire. Neither the ramps nor the transceivers need to do
  anything: the shutdown ends without them.
* `AbisLink`: the reconnect timer expires, a shutdown ends (checked of `BtsShutdown` by its
  run), and a TCP connection comes up or fails.
* `TrxProv`: commands are answered in the end, the A-bis link comes back, and the BSC
  configures a TRX it has connected to. These are assumptions about the peers and are
  stated as such (`[]<>`), not as fairness of the BTS.
* `Ccch`: layer 1 asks for PCH blocks and time passes.
* `DynTs`: layer 1 confirms, and a connected PCU answers.
* `Lchan`: T3105, T3115 and the delay of an early assignment expire.
* `Broadcast`: layer 1 asks for CBCH blocks, of which at most `MaxSkips` are missed.
* `LinkCtrl`: a SACCH block with a report arrives every 480 ms.

### Exceptions

The following were met while the properties were stated; TLC shows each when the
exception is taken out of the property that names it, or, where no property does, when
the comment quoted is stated as one. They are kept here so that a change of the
code can take the exception out.

*Connection, power, shutdown, A-bis and provisioning*

* `AckMeansExecuted` allows an earlier command of the same name: a duplicate response to
  one RXTUNE counts for the next (`trx_if.c:708`, "RSP from a retransmission, skip it").
  A duplicate RSP ERR, which carries no name, is not recognized either and stops the BTS
  when a critical command is at the head; `NoSpuriousShutdown` is about connections without
  a refusal.
* A duplicate response deletes the timer of the command at the head (`trx_if.c:690`). If the datagram of
  that command, or its answer, is then lost, the queue waits forever.
* `UnlockedTransmits` claims full power unless, since the last ramp to it: the maximum power of the
  unlocked TRX has changed (`l1if_trx_set_nominal_power()` ramps locked TRXs and not unlocked
  ones, `l1_if.c:140`); a reduction was stored without a ramp, because attributes are refused
  once the carrier is enabled or have a wrong ARFCN (`common/oml.c:1150`); the operator set an attenuation
  before the carrier was enabled (`trx_vty.c:446`); or the thermal attenuation was set.
  That the unlocked TRX is not muted has no exception here. `Init` is without a procedure pending:
  a lock that a shutdown interrupted leaves `procedure_pending` set, and the next unlock would skip
  unmuting (`l1_if.c:644`).
* `LockedGetsMuted` excepts everybody but the BSC: a restarted ramp loses the callback that mutes
  (`bts_ctrl_commands.c:60`).
* A late answer to a request of an aborted ramp makes its successor step at once, so that
  two requests may differ by more than a step (`tx_power.c:206`).
* The ramp's result is compared with -10 mdBm instead of -10 dBm, so that TRXs may be
  closed above the target (`bts_shutdown_fsm.c:113`); `ClosesOnlyRampedDown` states what is kept.
* The wait for closing TRXs counts operational carriers, which `bts_model_trx_close()`
  disables at once: the first close callback ends it, also when it is dispatched from
  within the loop that tells the TRXs to close (`bts_shutdown_fsm.c:139`, `:154`).
* Removing the only BSC after a lost connection and adding one fails the assertion of
  `pick_next_bsc()` (`abis.c:128`). Removing the current one keeps the pointer to the
  freed object (`abis.c:127`); what follows is a free choice in the model. A link that fails leaves
  osmo-bts-trx running without one (`abis.c:265`).
* `PoweronTuned` excepts a second ARFCN, whose tuning the answers to the first confirm
  (`trx_provision_fsm.c:445`). `ClosedTogether` excepts all odd events, because the FSM table refuses
  to close a TRX in OPEN_POWERON (`:320`). `ShutdownCloses` excepts a rejected POWERON, after which
  the link counts as closed (`:313`). `AllComeUp` excepts T-2 before the confirmation of
  POWEROFF, which then closes the link of the new connection (`l1_if.c:204`).
* `SlotApplied` excepts a link that is closed after T-2 or with a TRX tuned again: a TRX then comes into
  operation while the link is being closed, and the command list is flushed with its SETSLOT in it.
* TRXs other than TRX 0 send SETSLOT as soon as they are provisioned, which may be
  before POWERON (`trx_provision_fsm.c:508`).

*Scheduler*

* `trx_sched_clock_started()` leaves `last_fn_timer.fn` at 0: a first indication with a number
  up to 50 does not set up the frame timer (the next one does), and one in the last 50 frames
  of the hyperframe arms the start timer again (`scheduler_trx.c:584`). `FirstFrames` leaves it out.
  `NoFalseAlarm` excepts stalls of `MaxFnSkew` - 1 frames, which a tolerated skew turns into "PC clock skew" (`:448`).
* An indication handled before expirations that are pending makes the clock run ahead until the next one; a
  stale one makes it lag. `InStep` is about indications handled in time.
* A first burst overtaken by three frames makes a block be indicated twice; a loss of
  more than a multiframe mixes two blocks; an overtaken burst overwrites a received
  one with blank bits, and the measurements are then not the block's. `MaxDelay` of two frames, and the
  exceptions of `WholeBlocks`, `BlocksMeasured` and `EveryBlockIndicated`, are these cases.
* `trx_sched_queue_filter()` gets a channel number without timeslot number, so that nothing is
  removed for timeslots other than 0 ("Remove pending Tx prims belonging to this lchan",
  `scheduler.c`): a quick re-activation may send the previous user's block. After a
  backward resynchronisation old blocks hold up newer ones for up to 100 frames.

*Common channels*

* Temporary identities are sent ahead of a permanent one at the head of a queue.
  `etws.pni` toggles (`rsl.c:988`), but `paging.c` always sends 0. `paging_reset()` is never called.
  MAC blocks are not counted. With `paging queue-size 1` the priority never ends. A merged rejection
  of the PCU loses its confirmation.
* A message whose last block is never asked for is leaked (`cbch.c:310`); a drop by
  overflow sends no load indication; limits below target and hysteresis drop silently.

*Dynamic timeslots and channels*

* A PCU that dies while the release of a PDCH is pending wedges the timeslot
  (`dynts_back`). An RF CHAN REL of a channel whose activation is pending is acknowledged although the
  activation goes on, and a second CHAN ACTIV meets an assertion (`rsl.c:1972`). `pending_chan_activ`
  and `ts->flags` survive `gsm_ts_release()`. A negative acknowledgement is dropped
  while `rel_act_kind` is still that of the PCU. The BSC may release a PDCH before the PCU activated
  it, and BTS and PCU then disagree. `odd` names these in `DynTs`.
* A handover activation that is refused late (`rsl.c:2021`) leaves detection enabled, and the
  next activation is deaf. A lost A-bis link sets the state to NONE before
  `gsm_lchan_release()`, which then returns early: handover, talker, listener and timers survive. NY2
  (`asci.c:86`) ends the talker without reopening the uplink. `vgcs_lchan_react()` waits for a frame
  without T3115. `bts_model_l1sap_down()` of osmo-bts-virtual has no case for uplink access
  and answers with an error (`osmo-bts-virtual/l1_if.c:434`). Activation of a group channel, an
  access burst of a talker, reactivation and release of the talker then end in CONN FAIL: an access burst leaves
  no talker behind, reactivation leaves one waiting, and the search that the
  activation began never ends. `NotDeaf` and `UplinkOpen` say so of it, with the failure reported in
  the present use; that the channel is decoded meanwhile is `Decoded`, as only osmo-bts-trx reads
  `ho_rach_detect`. (Group channels for speech are refused there before, `bts.c:824`,
  those for signalling are not. Which access bursts reach them is up to libosmocore,
  `Lchan` lets them come.) On osmo-bts-trx a group channel's detection is switched off by its own activation
  (`l1_if.c:475`). A refused activation keeps its early immediate assignment (`rsl.c:1416`).

*Calls*

* In `ST_FACCH` the payload is not copied although the comment says "keep payload" (sent blank, `osmo-bts-sysmo/l1_if.c:446`).
  A full write queue in a recursive state makes `ph_data_req()` call itself without end (`:473`); the model
  stops there. `dtx.dot` has a transition from SID_F1 to F1_INH_F that the FSM's mask refuses. After an overflow in
  ONSET_V a later request sends a stale FACCH. The cache is not cleared on activation. A SID
  UPDATE straight after speech sends no FIRST.
* The first power order without an MS Power element is the previous call's limit (`rsl.c:1982`).
  MS POWER CONTROL with parameters that cannot be parsed sets the limit, stops the loop and leaves the order (`:2571`).
  A BCCH reduction that is lowered later does not lower limits of running calls; a CHAN ACTIV without
  BS Power but with parameters allows 30 dB on C0 (`:1987`). `MaxHonoured` and `CarrierKept` except these.
* Thresholds for C/I that contradict those for the level make the loops oscillate
  (`BandsAgree` excludes them). Timing advance may alternate between two acceptable values.

## 4. Proofs

TLAPS checks forty-one theorems; each holds for every value of the constants that meets the
module's `ASSUME`s, which bound the constants as the code does.

**`TrxCtrl_proofs`**: `ConnectionInv` (`TypeOK`, `TimerNeedsCommand`, `StopAndWait`) and the action
property `ExecutionOrder`, for any commands, losses and bounds. None but the first part is inductive. The
invariant `Good` is stated on the list and the two directions of the network:
the list and the datagrams are ordered by issue number (`InOrder`), a datagram in flight
is not newer than the head (`Unseen`: what is behind the head is unknown to network and
transceiver), and all numbers were issued (`Listed`, `Issued`). Each list operation
(append, remove the head, flush, lose, execute) has a lemma that it preserves `Good`, and
each action cites the lemmas of the operations it is made of. `ExecutionOrder` follows
because what the transceiver receives is never older than what it executed.

`AnswersMatched` needs `MatchInv`. `Tied`: numbers in flight stand for the commands issued
under them, an answer of success for one that was carried out, and none is younger than a
command on the list. `Earned`: what was acknowledged was carried out, or an earlier command of its
name was. The second half of the property, that a good connection never meets a response it
takes for a fatal one, rests on `Crossing`: every datagram in flight is of the command answered last or
of the head of the list, and those of the head come behind. It survives a retransmission, which
puts a copy of the head at the end, and the answer, which makes the head the command answered last.

**`TrxL1_proofs`** proves the parts of `MCTrxL1` apart. Of `TxPower`, `PowerInv`: `TypeOK` and `RestsAtTarget` for all powers, step sizes and
starters of ramps; `RampOnCourse` until the maximum power of the running TRX is changed; `UnlockedTransmits`, for forced
attenuations as for reductions of OML, with the exceptions above. They are part of
the properties, the theorems have no further assumption. The
invariant `Driven` says that a ramp short of its target has its timer armed or a request
pending; `UnlockInv` has two parts: a TRX that is unlocked, or whose lock is still pending, is not muted
(`Heard`), and the ramp of an unlocked one goes to full power unless it was left out or redirected (`ToFullPower`). The difficult case is an answer to a request of an aborted ramp.

Of `SchedClock`, `ClockInv` (its part `InStep`: the frames that are scheduled are those of the transceiver once an
indication was handled in time) is proved for every hyperframe, rate and fault. `BasicInv` adds what a
clock that is off keeps (`OffInv`) and the bounds of the counters (`CountInv`); the work is in
the lemmas on frame numbers, which are equal only modulo the hyperframe and compared with the
code's signed difference. `NoFalseAlarm` needs `QuietInv`, which says what a transceiver without
faults makes of the state: at most one indication waits, no longer than the process was
stalled (`Arrivals`); before the second indication the three seconds are not over
(`Starting`); afterwards the timer is `x` frames ahead of the transceiver for an `x` that the stalls so far
explain (`Ahead`). `RatesAssumption` is what the code's constants owe to each other: indications come more
rarely than the skew that is tolerated and often enough for both supervisions, that is every 51
to 300 frames with the numbers of the code (osmo-trx sends one per 216).

Of `SchedDl`, `DownlinkInv`: for every hyperframe, advance and number of activations, what is sent is of its
frame and its activation, and a block given in time is sent. `DlIInv` says what the queue holds: each block of the present clock
was asked for some frames ago (`Aged`), a block given at once
is not older than those ahead of it (`InOrder`), so that what `_sched_dequeue_prim()` stops at is not behind a block of this
frame; on the first timeslot it is of the present activation (`Mine`), and so is the block a
channel is in the middle of (`Sending`). Two assumptions relate the run to the hyperframe: it is longer than 8 frames
(`SchedDlAssumption`), and no run is as long as a hyperframe less `MaxAhead` frames (`ShortRun`). The second one
says that no block waits in a queue for a hyperframe, 3.5 hours; one that did would be taken for
a block of its frame. The filter of the queue is a recursion, followed by induction over its length.

Of `SchedUl`, `UplinkInv`: for every hyperframe and multiframe, any losses, activations, releases and handover
detection, what is indicated is made of bursts of its own block, with its own measurements, and no block
is missed or indicated twice. The code compares frame numbers that wrap; the invariant `UlIInv`
names the frames without wrapping, `l` for the burst handled last, `h` for the latest one and `s` for the first one
followed, and says (`Followed`) that the blocks indicated once are those that are over between `s` and `h`, and no others.
`Stands` says how the channel stands in the middle of a block: the mask has the places up to `l`, the buffers
hold the bursts of this block or none, the measurements are those of the last frames of the channel. A frame of the
channel, arrived or made up, opens a block, stores a burst, closes the block or is not the channel's; each has
a lemma (`StepOpens`, `StepStores`, `StepCloses`, `StepIgnored`). The substitutes are a recursive function
whose existence is `SubstitutingExists`; `Substituted` follows it over the frames lost. A burst that was overtaken finds more than a
multiframe elapsed, because the number wraps, and is stored in the block it belongs to, which is still open. This is where the
assumptions come in: a hyperframe is at least two multiframes (`SchedUlAssumption`; it is 26 and more), and, of the run
(`UlShortRun`), that no burst is overtaken by three frames or by one of another block, and that a channel is
not followed for half a hyperframe, an hour and three quarters, after which the code's
comparisons say nothing about the order of frames.

**`Link_proofs`**, of `AbisLink`: `LinksOnlyWhenConnected` and `NoLinkDuringShutdown`, for any number of
TRXs and BSCs, both inductive as they stand; and `ImplementsShutdown`: the shutdown that
`AbisLink` pictures implements the abstract one of `Shutdown`. Each step maps to a step
of `Shutdown` or leaves its state alone; the types of the mapped variables (`ShutdownTypes`) are
the invariant that this needs.
The rest of `AbisInv` is `TypeOK`, whose part on the list of BSCs (no host twice) needs
`ListInv`: a host that is on the list has been allocated, so a new one is not on it.

Of `Lchan`: `LchanInv` (`TypeOK`, `TimersMatch`, `NotDeaf`, `UplinkOpen`) and the action property
`UsesApart` (`NothingLeftOver`, `IaIsFresh`), for both BTS models, of which osmo-bts-virtual refuses
every uplink access, and all values of NY1, NY2 and the radio link timeout. The invariant adds what an inactive channel keeps (`Clean`), the agreement of channel
and BSC on the use (`Agreed`), that a talker is one of a group call (`TalkerInGroup`), and that a kept
immediate assignment is of the present request (`IaCurrent`). Handlers are operators on the
record of the channel; each has a lemma.

**`Power_proofs`**, of `LinkCtrl`: `LinkInv`, for any configuration, radio and sequence of messages. Inductive with
the range of the averages (`Averaged`: the rounded average moves towards the measurement and
never beyond), that of the powers (`PowerState`), and `LoopWithinCap`: the loop of a channel on the BCCH
carrier does not keep a maximum above what its timeslot is allowed.

Of `BtsShutdown`: `TypeOK`, the action property `ClosesOnlyRampedDown` and `ImplementsShutdown`, for any
number of TRXs, powers and shutdowns. The difficulty is the loop of `st_wait_trx_closed_on_enter()`: the
event it dispatches for one TRX may end the state in which it was begun, and the loop goes on. The
lemma `LoopKeeps` shows, by induction over the TRXs, that each round leaves the FSM in a state of
`Closing`: in WAIT_TRX_CLOSED, or back in NONE with the process ended if that was asked for, never in EXIT.
The loop is entered when the operational TRXs are down to the level compared, or by T-1: that is
`ClosesOnlyRampedDown`. The types of the mapped variables are what the refinement needs.

**`TrxProv_proofs`**: `ProvInv` (`TypeOK`, `FormatAgreed`, `SlotApplied`, `ClosedTogether`) and the action property
`PoweronTuned`, for any number of TRXs, any versions and timeslot configurations. None of the parts
is inductive: what the transceiver has was put on the way long before it is needed. `WorldInv` therefore
speaks of the queues too. Of each TRX: the tuning on its way and the one acknowledged are to the
ARFCN assigned (`TunedInv`), one TRXD version at a time is asked for, and an acknowledged one is
that of both sides (`FormatInv`), the last SETSLOT on the way is the configuration assigned, or the transceiver has
it (`SlotInv`). Of all TRXs: power is asked for by TRX 0 only (`FirstPower`), when all are
provisioned, and they stay so (`ReadyInv`); none but TRX 0 waits, and none stays behind when it
is provisioned (`OtherInv`); they are closed together with the link (`ClosedInv`, `DownInv`), and while TRX 0
waits for POWEROFF no other is in operation or comes into it (`ClosingInv`). Handlers map the record `w` of
`prov`, `q`, `plink` and `phase`; each has a lemma that it preserves the invariant, stated on records
so that the lemmas chain as the handlers call one another. The loops over the TRXs (open, close,
signal) change each TRX on its own, and TRX 0 last; the model says so with functions
over the TRXs, which the provers can reason about, and not with folds, which they cannot.

**`NmTree_proofs`**: `ObjectsInv` (`TypeOK`, `CarrierReady`, `InstalledTogether`) and `DependenciesHold`
(`ChannelHasParents`, `NoMissedWakeup`), for any number of TRXs and timeslots, any layer 1
and any BSC. `ChannelHasParents` excepts the timeslots put into service `ahead` of their
parents. The invariant is
a statement about one TRX (`TrxInv`: its objects are installed together, no channel
sleeps while its parents are enabled, an enabled carrier was configured and started) and the
links an enabled carrier needs. Every operator on a TRX has a lemma that it preserves
`TrxInv`; the actions lift the lemmas to the function of TRXs.

**`Broadcast_proofs`**: `BroadcastInv` and the action properties `DropsAnnounced` and `CallsHeard`, for any
calls, messages and settings. Notifications (`NchInv`): the count is that of the list, no call is on it
twice, the calls announced since the list changed are its last ones (`HeardLast`), those never
announced its first (`FreshFirst`). Cell broadcast (`CbchInv`): the queue, the current, next and default message
of a channel are different or meant to be the same (`Good`), the channels share none
(`Apart`), all are allocated and nothing else is (`Memory`); a message is in transmission only within its
period (`InTime`), what was aired in it is of that message (`OfCurrent`) and complete so far
(`Complete`); and a queue beyond target and hysteresis has been reported (`LoadTold`).

Of `Ccch`: `CcchInv` and the action property `NothingLost`, for any number of paging groups,
identities, MAC blocks and references and any settings of the queues. The invariant `CcchIInv`
adds that no page is next when there is no ETWS notification, and that the places of the
identities in all queues are finitely many. A paging message is proved about with
`Delivers`, of one queue: the records are those that are sent or in the queue that is left,
the identities left are those there were less those freed, and temporary identities come first
(`MacDelivered`, `IdentitiesDelivered`); `CountGroup` lifts the count to all queues. The
access grants rest on `Answers(q, o)`: the messages of q have the references o between them,
each in one message. `MergeKeeps` shows it of two messages, whatever their repetitions, and
`EnqueueKeeps`, `CompactKeeps` and `DequeueKeeps` of the queue.

**`DynTs_proofs`**: `DynInv` (`DynTypeOK`, `ActiveAsAsked`, `AssertionsHold`, `PcuInStep`), for both kinds of
dynamic timeslot and any number of lost PCUs, lost A-bis links and messages on their way. None of
its parts is inductive: whether a channel may be active depends on the SETSLOT under way, the
answer the BSC waits for and what the PCU will do. The invariant `DynIInv` therefore lists the
phases of a switch, and says of each what channels, timeslot, transceiver and BSC look
like. `OSMO_DYN`: `OsmoUnconnected`, `OsmoSwitching` (SETSLOT under way, activations put off),
`OsmoConnected` (voice), `OsmoPdch`, `OsmoReleasing` (the PCU was asked to release). ip.access:
`IpVoice`, `IpActivating`, `IpPdch`, `IpDeactivating`; and `Off`. `PcuPart` relates the PCU to the phase: there is
nothing on the way to or from one that is gone (`GoneOf`), nothing that gives it a timeslot
which is not enabled (`QuietOf`), the last INFO.ind on its way says what the timeslot is (`ToldOf`), and the last
ACT.req asks for what the PCU was told, or the channel is what it was told (`DoneOf`), unless
its loss is on the way. TLC found `DynIInv` inductive on a small instance before it was proved.
Handlers map the record `w` and nest deeply; a lemma per handler says what the next record is, so that
a step's proof only compares phases. Two theorems: `DynIInvHolds` and `DynInvHolds`.

Induction over numbers is available (`SetInduction`, from the well-foundedness of their order in the library); a
recursion over a list is written as a function of the positions, with a lemma of its own that the function exists
(`TakingExists` for `Selected`, which filters a queue; `SubstitutingExists` for the substitutes of lost bursts). What
`RECURSIVE`, `SelectSeq` or a fold computes is not accessible to the provers.

Only model-checked:
- the liveness properties, which need fairness and ENABLED and are out of the prover's reach;
- `DtxDlAmr`, which has no constants, so that the run covers every case.

## 5. Plan

1. The GPRS objects in `NmTree`, with the version of the PCU interface.
2. Handlers of TCH bursts in `SchedUl` and `SchedDl`, with stolen frames; MODE MODIFY in `Lchan`
   and `DtxDlAmr`.
3. Measurement periods and paging groups as functions, against reference definitions.
4. A reliable command queue that `TrxCtrl` implements when nothing is lost and that
   `TrxProv` uses.
