------------------------------ MODULE LinkCtrl ------------------------------
(***************************************************************************)
(* The control loops of a dedicated channel: MS power and BS power         *)
(* (power_control.c), timing advance (ta_control.c), run by measurement.c  *)
(* on every uplink SACCH block, and the RSL messages that give them their  *)
(* limits (rsl.c), the BCCH carrier's power reduction (bts.c) included.    *)
(*                                                                         *)
(* The radio and the phone are the environment: a path loss, a delay in    *)
(* 1/256 symbols, interference, and a phone that follows orders.  An order *)
(* goes out with the next downlink SACCH block, holds from the period      *)
(* after that, and is reported in the period after that: three blocks.  An *)
(* attenuation holds at once, so that a report shows it one block later.   *)
(*                                                                         *)
(* Power levels are those of GSM 900; thresholds and step sizes are the    *)
(* defaults of power_ctrl_params_def.  The averages and intervals vary.    *)
(***************************************************************************)
EXTENDS Integers, Sequences, FiniteSets

CONSTANTS
  Configs,     \* parameters that vary, see ConfigType
  Losses,      \* path losses, in dB
  Delays,      \* delays of the phone's bursts, in 1/256 symbols
  MsLimits,    \* MS power levels the BSC allows
  BsLimits,    \* BS power reductions the BSC allows, in dB
  C0Limits,    \* BCCH carrier power reductions the BSC asks for
  MaxEvents    \* bound: changes of the radio and messages of the BSC

ConfigType == [alpha : 0..100, itv : 0..31, noise : -110..0, c0 : BOOLEAN, ts7 : BOOLEAN]

ASSUME LinkAssumption ==
  /\ Configs \subseteq ConfigType
  /\ Losses \subseteq 0..150
  /\ Delays \subseteq 0..(63 * 256)
  /\ MsLimits \subseteq 0..19
  /\ BsLimits \subseteq 0..30
  /\ C0Limits \subseteq Nat
  /\ MaxEvents \in Nat

VARIABLES
  cfg,      \* alpha: EWMA factor (0: no averaging); itv: ctrl_interval;
            \* noise: interference in dBm (0: C/I is not used); c0: the channel
            \* is on the BCCH carrier, ts7: in its last timeslot
  ms,       \* lchan->ms_power_ctrl
  bs,       \* lchan->bs_power_ctrl
  ta,       \* lchan->ta_ctrl
  c0red,    \* ts->c0_power_red_db
  radio,    \* loss and delay
  phone,    \* pwr, ta: of the last three periods, oldest first; att: of one
  n,        \* events so far
  lax,      \* no limit has been applied to the phone's power yet
  cap       \* the largest c0red since the BSC last limited the channel

lvars == <<cfg, ms, bs, ta, c0red, radio, phone, n, lax, cap>>

----------------------------------------------------------------------------
(* Levels, averages and the interval between decisions.                    *)

Absent == -1
NoAvg == -1000

Clamp(x, lo, hi) == IF x < lo THEN lo ELSE IF x > hi THEN hi ELSE x

\* ms_pwr_dbm() and ms_pwr_ctl_lvl() for GSM 900.
Dbm(lvl) == IF lvl < 2 THEN 39 ELSE IF lvl < 20 THEN 43 - 2 * lvl ELSE 5

Lvl(dbm) == IF dbm >= 39 THEN 0 ELSE IF dbm < 5 THEN 19 ELSE 2 + (39 - dbm) \div 2

Rxlev(dbm) == Clamp(dbm + 110, 0, 63)

LowerThresh == 32
UpperThresh == 38
IncStep == 4
RedStep == 2
CiLower == 13
CiUpper == 17
RxqualLower == 3
RxqualUpper == 0

\* Avg100 and the value after one more measurement.
do_avg_algo(avg100, val) ==
  CASE cfg.alpha = 0 -> [avg |-> avg100, val |-> val]
    [] cfg.alpha > 0 /\ avg100 = NoAvg -> [avg |-> 100 * val, val |-> val]
    [] OTHER -> LET a == avg100 + cfg.alpha * (val - (avg100 + 50) \div 100)
                IN  [avg |-> a, val |-> (a + 50) \div 100]

calc_delta_rxlev(rxlev) ==
  IF rxlev \in LowerThresh .. UpperThresh THEN 0
  ELSE Clamp((LowerThresh + UpperThresh) \div 2 - rxlev, -RedStep, IncStep)

Reload == 2 * cfg.itv - 1

----------------------------------------------------------------------------
(* The loops.  Each returns the new state of its record.                   *)

MutIgnoresNothing(msDbm, newDbm, current) == FALSE

\* "Keeping MS power": the phone's level is good, but above what it was asked for.
IgnoreMs(msDbm, newDbm, current) == msDbm = newDbm /\ msDbm > Dbm(current)

lchan_ms_pwr_ctrl(s, lvl, rx) ==
  IF ~s.dpc THEN s
  ELSE IF s.skip > 0 THEN [s EXCEPT !.skip = @ - 1]
  ELSE
    LET m == do_avg_algo(s.avg, Rxlev(rx))
        ciOn == cfg.noise # 0
        ci == rx - cfg.noise
        asked == Dbm(lvl) + (IF ciOn /\ ci < CiLower THEN IncStep
                             ELSE IF ciOn /\ ci > CiUpper THEN -RedStep
                             ELSE calc_delta_rxlev(m.val))
        new == Clamp(asked, 0, Dbm(s.max))
    IN [s EXCEPT !.skip = Reload, !.avg = m.avg,
                 !.current = IF IgnoreMs(Dbm(lvl), new, @) THEN @ ELSE Lvl(new)]

lchan_bs_pwr_ctrl(s, rxlev, rxqual) ==
  IF ~s.dpc THEN s
  ELSE IF s.skip > 0 THEN [s EXCEPT !.skip = @ - 1]
  ELSE
    LET m == do_avg_algo(s.avg, rxlev)
        att == IF rxqual > RxqualLower THEN s.current - IncStep
               ELSE IF rxqual < RxqualUpper THEN s.current + RedStep
               ELSE s.current - calc_delta_rxlev(m.val)
    IN [s EXCEPT !.skip = Reload, !.avg = m.avg, !.current = Clamp(att, 0, s.max)]

\* C division: towards zero.
DeltaTa(toa256) ==
  LET whole == IF toa256 >= 0 THEN toa256 \div 256 ELSE -((-toa256) \div 256)
      rest == toa256 - 256 * whole
  IN Clamp(IF rest > 192 THEN whole + 1 ELSE IF rest < -192 THEN whole - 1 ELSE whole, -2, 2)

lchan_ms_ta_ctrl(s, msTa, toa256) ==
  IF s.skip > 0 THEN [s EXCEPT !.skip = @ - 1]
  ELSE [skip |-> Reload, current |-> Clamp(msTa + DeltaTa(toa256), 0, 63)]

----------------------------------------------------------------------------
(* The environment: a phone of 2 W (level 5 is its highest), and the       *)
(* quality it sees, which is bad only far below the wanted level.          *)

Applied(lvl) == IF lvl < 5 THEN 5 ELSE lvl

Uplink(lvl) == Dbm(lvl) - radio.loss

BtsDbm == 43
Downlink(att) == Rxlev(BtsDbm - att - radio.loss)
Quality(rxlev) == IF rxlev < 20 THEN 5 ELSE 0

Toa(t) == radio.delay - 256 * t

NewPhone(lvl, t, att) == [pwr |-> <<Applied(lvl), Applied(lvl), Applied(lvl)>>,
                          ta |-> <<t, t, t>>, att |-> att]

----------------------------------------------------------------------------
(* One uplink SACCH block: a measurement report, another message, or one   *)
(* that could not be decoded, for which the phone is taken to use what it  *)
(* was last ordered.                                                       *)
lchan_meas_handle_sacch(kind) ==
  /\ kind # "report" => n < MaxEvents
  /\ n' = IF kind = "report" THEN n ELSE n + 1
  /\ LET lvl == IF kind = "bad" THEN ms.current ELSE phone.pwr[1]
         msTa == IF kind = "bad" THEN ta.current ELSE phone.ta[1]
         rxlev == Downlink(phone.att)
     IN /\ ta' = lchan_ms_ta_ctrl(ta, msTa, Toa(phone.ta[1]))
        /\ ms' = lchan_ms_pwr_ctrl(ms, lvl, Uplink(phone.pwr[1]))
        /\ bs' = IF kind = "report" THEN lchan_bs_pwr_ctrl(bs, rxlev, Quality(rxlev)) ELSE bs
  /\ phone' = [pwr |-> Append(Tail(phone.pwr), Applied(ms'.current)),
               ta |-> Append(Tail(phone.ta), ta'.current),
               att |-> bs.current]
  /\ lax' = (lax /\ ~(ms.dpc /\ ms.skip <= 0))
  /\ UNCHANGED <<cfg, c0red, radio, cap>>

----------------------------------------------------------------------------
(* RSL.                                                                    *)

Event == n < MaxEvents /\ n' = n + 1

\* On the BCCH carrier a channel may be attenuated as its timeslot may.
C0Min(red) == IF cfg.c0 /\ c0red < red THEN c0red ELSE red

\* CHANNEL ACTIVATION: the defaults, then what the message has.  The first
\* level ordered without an MS Power IE is the limit of the previous call.
rsl_rx_chan_activ(msPow, msDpc, bsPow, bsDpc, t) ==
  LET red == C0Min(bsPow)
      max == IF msPow = Absent THEN Lvl(0) ELSE msPow
      cur == IF msPow = Absent THEN ms.max ELSE msPow
  IN /\ Event
     /\ ms' = [max |-> max, current |-> cur, dpc |-> msDpc, skip |-> 0, avg |-> NoAvg]
     /\ bs' = [max |-> IF bsPow = Absent THEN 30 ELSE red,
               current |-> IF bsPow = Absent \/ bsDpc THEN 0 ELSE red,
               dpc |-> bsDpc, skip |-> 0, avg |-> NoAvg]
     /\ ta' = IF t = Absent THEN ta ELSE [ta EXCEPT !.current = t]
     /\ phone' = NewPhone(cur, ta'.current, bs'.current)
     /\ lax' = (msPow = Absent)
     /\ cap' = IF bsPow = Absent THEN 30 ELSE c0red
     /\ UNCHANGED <<cfg, c0red, radio>>

MutKeepsCurrent(lvl, par) ==
  /\ Event
  /\ ms' = [ms EXCEPT !.max = lvl, !.dpc = (par = "given"),
                      !.current = IF par = "none" THEN lvl ELSE @]
  /\ lax' = (par = "bad")
  /\ UNCHANGED <<cfg, bs, ta, c0red, radio, phone, cap>>

\* MS POWER CONTROL; par: the MS Power Parameters IE, "bad" if it cannot be parsed.
rsl_rx_ms_pwr_ctrl(lvl, par) ==
  LET s == [ms EXCEPT !.max = lvl, !.dpc = (par = "given")]
  IN /\ Event
     /\ ms' = IF par = "bad" THEN s
              ELSE IF par = "none" \/ Dbm(ms.current) > Dbm(lvl) THEN [s EXCEPT !.current = lvl]
              ELSE s
     /\ lax' = (par = "bad")
     /\ UNCHANGED <<cfg, bs, ta, c0red, radio, phone, cap>>

\* BS POWER CONTROL; an IE that cannot be parsed leaves everything as it was.
rsl_rx_bs_pwr_ctrl(pow, par) ==
  LET new == C0Min(pow)
  IN /\ Event
     /\ bs' = IF par THEN [bs EXCEPT !.current = 0, !.max = new, !.dpc = TRUE]
              ELSE [bs EXCEPT !.current = new, !.dpc = FALSE]
     /\ cap' = c0red
     /\ UNCHANGED <<cfg, ms, ta, c0red, radio, phone, lax>>

\* BS POWER CONTROL for the BCCH: the reduction of this timeslot.
C0Accepted(red) == red <= 6 /\ red % 2 = 0
C0Red(red) == IF cfg.ts7 /\ red > 0 THEN 2 ELSE red

bts_set_c0_pwr_red(red) ==
  /\ Event
  /\ cfg.c0
  /\ C0Accepted(red)
  /\ c0red' = C0Red(red)
  /\ cap' = IF c0red' > cap THEN c0red' ELSE cap
  /\ UNCHANGED <<cfg, ms, bs, ta, radio, phone, lax>>

\* Handover access: rach() of handover.c.
handover_rach(accDelay) ==
  /\ Event
  /\ ta' = [ta EXCEPT !.current = accDelay]
  /\ phone' = NewPhone(ms.current, accDelay, bs.current)
  /\ UNCHANGED <<cfg, ms, bs, c0red, radio, lax, cap>>

\* Talker detection on a group channel: the loops go on with another phone.
vgcs_rach(accDelay) ==
  /\ Event
  /\ ta' = [ta EXCEPT !.current = accDelay]
  /\ ms' = [ms EXCEPT !.current = ms.max]
  /\ phone' = NewPhone(ms.max, accDelay, bs.current)
  /\ lax' = FALSE
  /\ UNCHANGED <<cfg, bs, c0red, radio, cap>>

Move(loss, delay) ==
  /\ Event
  /\ radio' = [loss |-> loss, delay |-> delay]
  /\ UNCHANGED <<cfg, ms, bs, ta, c0red, phone, lax, cap>>

----------------------------------------------------------------------------
\* A call with both loops running.
LinkInit ==
  /\ cfg \in Configs
  /\ c0red \in IF cfg.c0 THEN {C0Red(r) : r \in {x \in C0Limits : C0Accepted(x)}} ELSE {0}
  /\ \E lim \in MsLimits :
       ms = [max |-> lim, current |-> lim, dpc |-> TRUE, skip |-> 0, avg |-> NoAvg]
  /\ \E lim \in BsLimits :
       bs = [max |-> C0Min(lim), current |-> 0, dpc |-> TRUE, skip |-> 0, avg |-> NoAvg]
  /\ \E l \in Losses, dl \in Delays : radio = [loss |-> l, delay |-> dl]
  /\ ta = [current |-> 0, skip |-> 0]
  /\ phone = NewPhone(ms.current, 0, 0)
  /\ n = 0
  /\ lax = FALSE
  /\ cap = c0red

LinkNext ==
  \/ \E kind \in {"report", "other", "bad"} : lchan_meas_handle_sacch(kind)
  \/ \E msPow \in MsLimits \cup {Absent}, bsPow \in BsLimits \cup {Absent},
       msDpc, bsDpc \in BOOLEAN, t \in {0, Absent} :
       rsl_rx_chan_activ(msPow, msDpc, bsPow, bsDpc, t)
  \/ \E lvl \in MsLimits, par \in {"none", "given", "bad"} : rsl_rx_ms_pwr_ctrl(lvl, par)
  \/ \E pow \in BsLimits, par \in BOOLEAN : rsl_rx_bs_pwr_ctrl(pow, par)
  \/ \E red \in C0Limits : bts_set_c0_pwr_red(red)
  \/ \E dl \in Delays : handover_rach(dl \div 256) \/ vgcs_rach(dl \div 256)
  \/ \E l \in Losses, dl \in Delays : Move(l, dl)

\* SACCH blocks come every 480 ms for as long as the call lasts.
LinkFairness == WF_lvars(lchan_meas_handle_sacch("report"))

LinkSpec == LinkInit /\ [][LinkNext]_lvars /\ LinkFairness

----------------------------------------------------------------------------
(* The types; an average never leaves the values it averages (it would     *)
(* wrap around in the code's unsigned bytes).                              *)
LinkTypeOK ==
  /\ cfg \in Configs
  /\ ms.max \in 0..19 /\ ms.current \in 0..19 /\ ms.skip \in -1..61
  /\ bs.max \in 0..30 /\ bs.current \in 0..30 /\ bs.skip \in -1..61
  /\ \A a \in {ms.avg, bs.avg} : a = NoAvg \/ (a + 50) \div 100 \in 0..63
  /\ ta.current \in 0..63 /\ ta.skip \in -1..61
  /\ c0red \in 0..6 /\ cap \in 0..30
  /\ \A i \in 1..3 : phone.pwr[i] \in 5..19 /\ phone.ta[i] \in 0..63
  /\ phone.att \in 0..30
  /\ n \in 0..MaxEvents /\ lax \in BOOLEAN

\* The phone is not ordered to send above the limit the BSC last set, except
\* before any limit was applied to it: an activation without MS Power starts at
\* the limit of the previous call, an MS POWER CONTROL with unreadable
\* parameters sets the limit and stops the loop but leaves the order.
MaxHonoured == lax \/ Dbm(ms.current) <= Dbm(ms.max)

\* On the BCCH carrier no channel is attenuated beyond what its timeslot was
\* allowed at some time since the BSC limited the channel.
CarrierKept == cfg.c0 => bs.current <= cap

\* The orders stay within what the BSC allows.
LinkInv == LinkTypeOK /\ MaxHonoured /\ CarrierKept

\* The phone has a choice of two levels at which level and C/I are both wanted.
Good(lvl) == /\ Rxlev(Uplink(lvl)) \in LowerThresh .. UpperThresh
             /\ cfg.noise # 0 => Uplink(lvl) - cfg.noise \in CiLower .. CiUpper
BandsAgree ==
  cfg.noise # 0 =>
    Cardinality({x \in -110..-47 : /\ Rxlev(x) \in LowerThresh .. UpperThresh
                                   /\ x - cfg.noise \in CiLower .. CiUpper}) >= 4

\* Once the radio and the BSC leave a call alone, the phone's power comes to
\* rest, no two levels taking turns, at a level that is wanted or at a limit.
\* Excepted: C/I thresholds that contradict the level thresholds.
PowerSettles ==
  <>[](ms.dpc /\ BandsAgree =>
         /\ \A i \in 1..3 : phone.pwr[i] = Applied(ms.current)
         /\ \/ Good(phone.pwr[1])
            \/ Dbm(ms.current) >= Dbm(Applied(ms.max))
            \/ ms.current = 19)

\* Likewise the attenuation.
AttenuationSettles ==
  <>[](bs.dpc => /\ phone.att = bs.current
                 /\ \/ Downlink(bs.current) \in LowerThresh .. UpperThresh
                    \/ Downlink(bs.current) < LowerThresh /\ bs.current = 0
                    \/ Downlink(bs.current) > UpperThresh /\ bs.current = bs.max)

\* Likewise the phone's bursts come to arrive within three quarters of a symbol
\* of where they should (two timing advances may take turns).
BurstsArriveInTime == <>[](\A i \in 1..3 : Toa(phone.ta[i]) \in -192..192)

\* All three loops come to rest where they should.
LoopsSettle == PowerSettles /\ AttenuationSettles /\ BurstsArriveInTime
=============================================================================
