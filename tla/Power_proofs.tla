---------------------------- MODULE Power_proofs ----------------------------
(***************************************************************************)
(* Proofs about the power on both ends of the radio link.  About LinkCtrl, *)
(* the control loops: their orders stay within what the BSC allows, for    *)
(* every configuration, radio and sequence of messages.  About BtsShutdown,*)
(* which ramps the power of all TRXs down and closes them: it is what the  *)
(* rest of the BTS takes a shutdown for, for any number of TRXs.           *)
(***************************************************************************)
EXTENDS LinkCtrl, BtsShutdown, WellFoundedInduction, TLAPS
-----------------------------------------------------------------------------
(***************************************************************************)
(* The radio link.                                                         *)
(***************************************************************************)
Averaged(a) == a = NoAvg \/ (a + 50) \div 100 \in 0..63

PowerState(top) == [max : 0..top, current : 0..top, dpc : BOOLEAN, skip : -1..61, avg : Int]

\* The loops may not work with a limit of the carrier that has been withdrawn.
LoopWithinCap == cfg.c0 /\ bs.dpc => bs.max <= cap

Types ==
  /\ cfg \in Configs
  /\ ms \in PowerState(19) /\ Averaged(ms.avg)
  /\ bs \in PowerState(30) /\ Averaged(bs.avg)
  /\ ta \in [current : 0..63, skip : -1..61]
  /\ c0red \in 0..6 /\ cap \in 0..30
  /\ radio \in [loss : Losses, delay : Delays]
  /\ phone \in [pwr : Seq(5..19), ta : Seq(0..63), att : 0..30]
  /\ Len(phone.pwr) = 3 /\ Len(phone.ta) = 3
  /\ n \in 0..MaxEvents /\ lax \in BOOLEAN

Inv == Types /\ MaxHonoured /\ CarrierKept /\ LoopWithinCap

-----------------------------------------------------------------------------
(* Levels and averages.                                                    *)

\* The order for a power never stands for more than a power that is a level's.
LEMMA LvlBounds ==
  ASSUME NEW m \in 0..19, NEW x \in Int, x <= Dbm(m)
  PROVE  Lvl(x) \in 0..19 /\ Dbm(Lvl(x)) <= Dbm(m)
  BY DEF Lvl, Dbm

LEMMA DbmBounds ==
  ASSUME NEW m \in 0..19
  PROVE  Dbm(m) \in 5..39
  BY DEF Dbm

\* The rounded average moves towards the measurement and not beyond it.
LEMMA Towards ==
  ASSUME NEW a \in Int, NEW q \in 0..63, q = (a + 50) \div 100,
         NEW v \in 0..63, NEW alpha \in 0..100
  PROVE  (a + alpha * (v - q) + 50) \div 100 \in 0..63
  <1>1. 100 * q <= a + 50 /\ a + 50 < 100 * q + 100
    OBVIOUS
  <1> DEFINE k == alpha * (v - q)
  <1>2. k \in Int
    OBVIOUS
  <1>3. \/ v >= q /\ 0 <= k /\ k <= 100 * (v - q)
        \/ v < q /\ k <= 0 /\ 100 * (v - q) <= k
    OBVIOUS
  <1> HIDE DEF k
  <1>4. 0 <= a + k + 50 /\ a + k + 50 < 6400
    BY <1>1, <1>2, <1>3
  <1>5. (a + k + 50) \div 100 \in 0..63
    BY <1>2, <1>4
  <1> QED
    BY <1>5 DEF k

LEMMA AverageBounds ==
  ASSUME cfg \in ConfigType, NEW a \in Int, Averaged(a), NEW v \in 0..63
  PROVE  /\ do_avg_algo(a, v).avg \in Int /\ Averaged(do_avg_algo(a, v).avg)
         /\ do_avg_algo(a, v).val \in 0..63
  <1> DEFINE alpha == cfg.alpha
             q == (a + 50) \div 100
             b == a + alpha * (v - q)
  <1>1. alpha \in 0..100
    BY DEF ConfigType
  <1>2. CASE alpha = 0
    BY <1>2 DEF do_avg_algo
  <1>3. CASE alpha > 0 /\ a = NoAvg
    BY <1>3 DEF do_avg_algo, Averaged
  <1>4. CASE alpha > 0 /\ a # NoAvg
    <2>0. cfg.alpha # 0 /\ cfg.alpha > 0 /\ ~(cfg.alpha > 0 /\ a = NoAvg)
      BY <1>4
    <2>1. q \in 0..63 /\ q = (a + 50) \div 100
      BY <1>4 DEF Averaged
    <2>2. do_avg_algo(a, v) = [avg |-> b, val |-> (b + 50) \div 100]
      BY <1>1, <1>4, <2>0, ZenonT(60) DEF do_avg_algo
    <2> HIDE DEF alpha, q
    <2>3. (b + 50) \div 100 \in 0..63
      BY <1>1, <2>1, Towards, ZenonT(60)
    <2>4. b \in Int
      BY <1>1, <2>1
    <2> HIDE DEF b
    <2> QED
      BY <2>2, <2>3, <2>4 DEF Averaged
  <1> QED
    BY <1>1, <1>2, <1>3, <1>4

LEMMA DeltaBounds ==
  ASSUME NEW v \in 0..63
  PROVE  calc_delta_rxlev(v) \in -2..4
  BY DEF calc_delta_rxlev, Clamp, LowerThresh, UpperThresh, RedStep, IncStep

LEMMA RxlevBounds ==
  ASSUME NEW x \in Int
  PROVE  Rxlev(x) \in 0..63
  BY DEF Rxlev, Clamp

-----------------------------------------------------------------------------
(* The loops.                                                              *)

LEMMA ReloadBounds ==
  ASSUME cfg \in ConfigType
  PROVE  Reload \in -1..61
  BY DEF ConfigType, Reload

Decide(s, k, a, c) == [s EXCEPT !.skip = k, !.avg = a, !.current = c]

\* What a block may do to the state s of the MS power loop.
MsDecided(s, t) ==
  /\ t \in PowerState(19) /\ Averaged(t.avg)
  /\ t.max = s.max
  /\ IF s.dpc /\ s.skip <= 0 THEN Dbm(t.current) <= Dbm(t.max) ELSE t.current = s.current

\* Likewise of the BS power loop.
BsDecided(s, t) ==
  /\ t \in PowerState(30) /\ Averaged(t.avg)
  /\ t.max = s.max /\ t.dpc = s.dpc
  /\ t.current = s.current \/ (s.dpc /\ t.current <= s.max)

LEMMA MsLoop ==
  ASSUME cfg \in ConfigType, NEW s \in PowerState(19), Averaged(s.avg), NEW lvl \in 0..19,
         NEW rx \in Int
  PROVE  MsDecided(s, lchan_ms_pwr_ctrl(s, lvl, rx))
  <1>0. PICK t : t = lchan_ms_pwr_ctrl(s, lvl, rx)
    OBVIOUS
  <1> SUFFICES MsDecided(s, t)
    BY <1>0
  <1>1. CASE ~s.dpc
    BY <1>0, <1>1 DEF lchan_ms_pwr_ctrl, MsDecided
  <1>2. CASE s.dpc /\ s.skip > 0
    <2>1. PICK k \in -1..61 : k = s.skip - 1
      BY <1>2 DEF PowerState
    <2>2. t = [s EXCEPT !.skip = k]
      BY <1>0, <1>2, <2>1 DEF lchan_ms_pwr_ctrl
    <2>3. t = [max |-> s.max, current |-> s.current, dpc |-> s.dpc, skip |-> k, avg |-> s.avg]
      BY <2>2 DEF PowerState
    <2> QED
      BY <1>2, <2>3 DEF PowerState, MsDecided
  <1>3. CASE s.dpc /\ s.skip <= 0
    <2>0. s.dpc /\ ~(s.skip > 0)
      BY <1>3 DEF PowerState
    <2>1. PICK v : v = Rxlev(rx)
      OBVIOUS
    <2>2. v \in 0..63
      BY <2>1, RxlevBounds
    <2>3. PICK m : m = do_avg_algo(s.avg, v)
      OBVIOUS
    <2>4. m.avg \in Int /\ Averaged(m.avg) /\ m.val \in 0..63
      BY <2>2, <2>3, AverageBounds DEF PowerState
    <2>5. PICK delta : delta = IF cfg.noise # 0 /\ rx - cfg.noise < CiLower THEN IncStep
                               ELSE IF cfg.noise # 0 /\ rx - cfg.noise > CiUpper THEN -RedStep
                               ELSE calc_delta_rxlev(m.val)
      OBVIOUS
    <2>6. delta \in -2..4
      BY <2>4, <2>5, DeltaBounds DEF IncStep, RedStep
    <2>7. Dbm(lvl) \in 5..39 /\ Dbm(s.max) \in 5..39 /\ Dbm(s.current) \in 5..39
      BY DbmBounds DEF PowerState
    <2>8. PICK new : new = Clamp(Dbm(lvl) + delta, 0, Dbm(s.max))
      OBVIOUS
    <2>9. new \in 0..Dbm(s.max)
      BY <2>6, <2>7, <2>8 DEF Clamp
    <2>10. Lvl(new) \in 0..19 /\ Dbm(Lvl(new)) <= Dbm(s.max)
      BY <2>7, <2>9, LvlBounds DEF PowerState
    <2>11. PICK c : c = IF IgnoreMs(Dbm(lvl), new, s.current) THEN s.current ELSE Lvl(new)
      OBVIOUS
    <2>12. c \in 0..19 /\ Dbm(c) <= Dbm(s.max)
      BY <2>7, <2>9, <2>10, <2>11 DEF IgnoreMs, PowerState
    <2>13. t = Decide(s, Reload, m.avg, c)
      BY <1>0, <2>0, <2>1, <2>3, <2>5, <2>8, <2>11, Zenon DEF lchan_ms_pwr_ctrl, Decide
    <2>14. /\ t \in PowerState(19) /\ t.avg = m.avg /\ t.max = s.max /\ t.dpc = s.dpc
           /\ t.current = c
      <3>1. PICK k \in -1..61 : k = Reload
        BY ReloadBounds
      <3>2. PICK a \in Int : a = m.avg
        BY <2>4
      <3>3. /\ t = [max |-> s.max, current |-> c, dpc |-> s.dpc, skip |-> k, avg |-> a]
            /\ c \in 0..19
        BY <2>12, <2>13, <3>1, <3>2 DEF Decide, PowerState
      <3> QED
        BY <3>1, <3>2, <3>3 DEF PowerState
    <2> QED
      BY <1>3, <2>4, <2>12, <2>14 DEF MsDecided
  <1> QED
    BY <1>1, <1>2, <1>3 DEF PowerState

LEMMA BsLoop ==
  ASSUME cfg \in ConfigType, NEW s \in PowerState(30), Averaged(s.avg), NEW rxlev \in 0..63,
         NEW rxqual \in Int
  PROVE  BsDecided(s, lchan_bs_pwr_ctrl(s, rxlev, rxqual))
  <1>0. PICK t : t = lchan_bs_pwr_ctrl(s, rxlev, rxqual)
    OBVIOUS
  <1> SUFFICES BsDecided(s, t)
    BY <1>0
  <1>1. CASE ~s.dpc
    BY <1>0, <1>1 DEF lchan_bs_pwr_ctrl, BsDecided
  <1>2. CASE s.dpc /\ s.skip > 0
    <2>1. PICK k \in -1..61 : k = s.skip - 1
      BY <1>2 DEF PowerState
    <2>2. t = [s EXCEPT !.skip = k]
      BY <1>0, <1>2, <2>1 DEF lchan_bs_pwr_ctrl
    <2>3. t = [max |-> s.max, current |-> s.current, dpc |-> s.dpc, skip |-> k, avg |-> s.avg]
      BY <2>2 DEF PowerState
    <2> QED
      BY <1>2, <2>3 DEF PowerState, BsDecided
  <1>3. CASE s.dpc /\ s.skip <= 0
    <2>0. s.dpc /\ ~(s.skip > 0)
      BY <1>3 DEF PowerState
    <2>1. PICK m : m = do_avg_algo(s.avg, rxlev)
      OBVIOUS
    <2>2. m.avg \in Int /\ Averaged(m.avg) /\ m.val \in 0..63
      BY <2>1, AverageBounds DEF PowerState
    <2>3. PICK att : att = IF rxqual > RxqualLower THEN s.current - IncStep
                           ELSE IF rxqual < RxqualUpper THEN s.current + RedStep
                           ELSE s.current - calc_delta_rxlev(m.val)
      OBVIOUS
    <2>4. att \in Int
      BY <2>2, <2>3, DeltaBounds DEF IncStep, RedStep, PowerState
    <2>5. PICK new : new = Clamp(att, 0, s.max)
      OBVIOUS
    <2>6. new \in 0..s.max
      BY <2>4, <2>5 DEF PowerState, Clamp
    <2>7. t = Decide(s, Reload, m.avg, new)
      BY <1>0, <2>0, <2>1, <2>3, <2>5, Zenon DEF lchan_bs_pwr_ctrl, Decide
    <2>8. new \in 0..30
      BY <2>6 DEF PowerState
    <2>9. /\ t \in PowerState(30) /\ t.avg = m.avg /\ t.max = s.max /\ t.dpc = s.dpc
          /\ t.current = new
      <3>1. PICK k \in -1..61 : k = Reload
        BY ReloadBounds
      <3>2. PICK a \in Int : a = m.avg
        BY <2>2
      <3>3. /\ t = [max |-> s.max, current |-> new, dpc |-> s.dpc, skip |-> k, avg |-> a]
            /\ new \in 0..30
        BY <2>8, <2>7, <3>1, <3>2 DEF Decide, PowerState
      <3> QED
        BY <3>1, <3>2, <3>3 DEF PowerState
    <2> QED
      BY <1>3, <2>2, <2>6, <2>9 DEF BsDecided
  <1> QED
    BY <1>1, <1>2, <1>3 DEF PowerState

LEMMA TaLoop ==
  ASSUME cfg \in ConfigType, NEW s \in [current : 0..63, skip : -1..61], NEW msTa \in 0..63,
         NEW toa \in Int, NEW t, t = lchan_ms_ta_ctrl(s, msTa, toa)
  PROVE  t \in [current : 0..63, skip : -1..61]
  <1>1. CASE s.skip > 0
    <2>1. t = [s EXCEPT !.skip = s.skip - 1]
      BY <1>1 DEF lchan_ms_ta_ctrl
    <2> QED
      BY <1>1, <2>1
  <1>2. CASE ~(s.skip > 0)
    <2>1. PICK x : x = DeltaTa(toa)
      OBVIOUS
    <2>2. x \in Int
      <3>1. PICK whole : whole = IF toa >= 0 THEN toa \div 256 ELSE -((-toa) \div 256)
        OBVIOUS
      <3>2. whole \in Int
        BY <3>1
      <3> QED
        BY <2>1, <3>1, <3>2 DEF DeltaTa, Clamp
    <2>3. Clamp(msTa + x, 0, 63) \in 0..63
      BY <2>2 DEF Clamp
    <2>4. t = [skip |-> Reload, current |-> Clamp(msTa + x, 0, 63)]
      BY <1>2, <2>1 DEF lchan_ms_ta_ctrl
    <2> QED
      BY <2>3, <2>4, ReloadBounds
  <1> QED
    BY <1>1, <1>2

-----------------------------------------------------------------------------
(* The steps.                                                              *)

LEMMA ConfigFacts ==
  ASSUME Types
  PROVE  cfg \in ConfigType
  BY LinkAssumption DEF Types

LEMMA PhonePowers ==
  ASSUME NEW lvl \in 0..19
  PROVE  Applied(lvl) \in 5..19
  BY DEF Applied

LEMMA FreshPhone ==
  ASSUME NEW lvl \in 0..19, NEW t \in 0..63, NEW att \in 0..30, NEW p, p = NewPhone(lvl, t, att)
  PROVE  /\ p \in [pwr : Seq(5..19), ta : Seq(0..63), att : 0..30]
         /\ Len(p.pwr) = 3 /\ Len(p.ta) = 3
  <1>1. PICK a \in 5..19 : a = Applied(lvl)
    BY PhonePowers
  <1>2. p = [pwr |-> <<a, a, a>>, ta |-> <<t, t, t>>, att |-> att]
    BY <1>1 DEF NewPhone
  <1>3. <<a, a, a>> \in Seq(5..19) /\ <<t, t, t>> \in Seq(0..63)
    OBVIOUS
  <1> QED
    BY <1>2, <1>3

LEMMA NextPeriod ==
  ASSUME NEW S, NEW p \in Seq(S), Len(p) = 3, NEW x \in S
  PROVE  Append(Tail(p), x) \in Seq(S) /\ Len(Append(Tail(p), x)) = 3
  OBVIOUS

LEMMA SacchStep ==
  ASSUME Inv, NEW kind \in {"report", "other", "bad"}, lchan_meas_handle_sacch(kind)
  PROVE  Inv'
  <1>0. cfg \in ConfigType
    BY ConfigFacts DEF Inv
  <1>1. /\ ms \in PowerState(19) /\ Averaged(ms.avg)
        /\ bs \in PowerState(30) /\ Averaged(bs.avg)
        /\ ta \in [current : 0..63, skip : -1..61]
    BY DEF Inv, Types
  <1>2. phone.pwr[1] \in 5..19 /\ phone.ta[1] \in 0..63 /\ phone.att \in 0..30
    <2>1. /\ phone.pwr \in Seq(5..19) /\ Len(phone.pwr) = 3
          /\ phone.ta \in Seq(0..63) /\ Len(phone.ta) = 3 /\ phone.att \in 0..30
      BY DEF Inv, Types
    <2>2. \A S : \A p \in Seq(S) : Len(p) = 3 => p[1] \in S
      OBVIOUS
    <2> QED
      BY <2>1, <2>2, Zenon
  <1>3. radio.loss \in Int /\ radio.delay \in Int
    <2>1. radio.loss \in Losses /\ radio.delay \in Delays
      BY DEF Inv, Types
    <2>2. Losses \subseteq Int
      BY LinkAssumption
    <2>3. Delays \subseteq Int
      BY LinkAssumption
    <2> QED
      BY <2>1, <2>2, <2>3
  <1>4. PICK lvl \in 0..19 : lvl = IF kind = "bad" THEN ms.current ELSE phone.pwr[1]
    BY <1>1, <1>2 DEF PowerState
  <1>5. PICK msTa \in 0..63 : msTa = IF kind = "bad" THEN ta.current ELSE phone.ta[1]
    BY <1>1, <1>2
  <1>6. PICK rx \in Int : rx = Uplink(phone.pwr[1])
    BY <1>2, <1>3, DbmBounds DEF Uplink
  <1>7. PICK toa \in Int : toa = Toa(phone.ta[1])
    BY <1>2, <1>3 DEF Toa
  <1>8. PICK rxlev \in 0..63 : rxlev = Downlink(phone.att)
    BY <1>2, <1>3, RxlevBounds DEF Downlink, BtsDbm
  <1>9. PICK q \in Int : q = Quality(rxlev)
    BY DEF Quality
  <1>10. /\ ms' = lchan_ms_pwr_ctrl(ms, lvl, rx)
         /\ ta' = lchan_ms_ta_ctrl(ta, msTa, toa)
         /\ bs' = IF kind = "report" THEN lchan_bs_pwr_ctrl(bs, rxlev, q) ELSE bs
    BY <1>4, <1>5, <1>6, <1>7, <1>8, <1>9 DEF lchan_meas_handle_sacch
  <1>11. MsDecided(ms, ms')
    BY <1>0, <1>1, <1>10, MsLoop
  <1>12. BsDecided(bs, bs')
    <2>1. CASE kind = "report"
      BY <1>0, <1>1, <1>10, <2>1, BsLoop
    <2>2. CASE kind # "report"
      BY <1>1, <1>10, <2>2 DEF BsDecided
    <2> QED
      BY <2>1, <2>2
  <1>13. ta' \in [current : 0..63, skip : -1..61]
    BY <1>0, <1>1, <1>10, TaLoop
  <1>14. UNCHANGED <<cfg, c0red, radio, cap>> /\ lax' = (lax /\ ~(ms.dpc /\ ms.skip <= 0))
    BY DEF lchan_meas_handle_sacch
  <1>15. n' \in 0..MaxEvents
    BY LinkAssumption DEF lchan_meas_handle_sacch, Inv, Types
  <1>16. /\ phone' \in [pwr : Seq(5..19), ta : Seq(0..63), att : 0..30]
         /\ Len(phone'.pwr) = 3 /\ Len(phone'.ta) = 3
    <2>1. PICK a \in 5..19 : a = Applied(ms'.current)
      BY <1>11, PhonePowers DEF MsDecided, PowerState
    <2>2. PICK t \in 0..63 : t = ta'.current
      BY <1>13
    <2>3. PICK p : p = Append(Tail(phone.pwr), a)
      OBVIOUS
    <2>4. PICK r : r = Append(Tail(phone.ta), t)
      OBVIOUS
    <2>5. p \in Seq(5..19) /\ Len(p) = 3 /\ r \in Seq(0..63) /\ Len(r) = 3
      BY <2>3, <2>4, NextPeriod DEF Inv, Types
    <2>6. phone' = [pwr |-> p, ta |-> r, att |-> bs.current]
      BY <2>1, <2>2, <2>3, <2>4 DEF lchan_meas_handle_sacch
    <2>7. bs.current \in 0..30
      BY DEF Inv, Types, PowerState
    <2> QED
      BY <2>5, <2>6, <2>7
  <1>17. Types'
    BY <1>11, <1>12, <1>13, <1>14, <1>15, <1>16 DEF MsDecided, BsDecided, Inv, Types
  <1>18. MaxHonoured'
    BY <1>11, <1>14 DEF MsDecided, Inv, MaxHonoured
  <1>19. CarrierKept' /\ LoopWithinCap'
    <2>1. bs.max \in Int /\ bs.current \in Int /\ bs'.current \in Int
      BY <1>12, <1>1 DEF BsDecided, PowerState
    <2>2. cap \in Int
      BY DEF Inv, Types
    <2> QED
      BY <1>12, <1>14, <2>1, <2>2 DEF BsDecided, Inv, CarrierKept, LoopWithinCap
  <1> QED
    BY <1>17, <1>18, <1>19 DEF Inv

LEMMA EventStep ==
  ASSUME Types, Event
  PROVE  n' \in 0..MaxEvents
  BY LinkAssumption DEF Types, Event

LEMMA OrderFacts ==
  ASSUME Inv
  PROVE  ms.current \in 0..19 /\ ms.max \in 0..19 /\ bs.current \in 0..30
  <1>1. ms \in PowerState(19) /\ bs \in PowerState(30)
    BY DEF Inv, Types
  <1> QED
    BY <1>1 DEF PowerState

LEMMA C0MinBounds ==
  ASSUME Types, NEW red \in 0..30
  PROVE  C0Min(red) \in 0..30 /\ (cfg.c0 => C0Min(red) <= c0red)
  BY DEF C0Min, Types

LEMMA ActivStep ==
  ASSUME Inv, NEW msPow \in MsLimits \cup {Absent}, NEW bsPow \in BsLimits \cup {Absent},
         NEW msDpc \in BOOLEAN, NEW bsDpc \in BOOLEAN, NEW t \in {0, Absent},
         rsl_rx_chan_activ(msPow, msDpc, bsPow, bsDpc, t)
  PROVE  Inv'
  <1>1. PICK max : max = IF msPow = Absent THEN Lvl(0) ELSE msPow
    OBVIOUS
  <1>2. PICK lev : lev = IF msPow = Absent THEN ms.max ELSE msPow
    OBVIOUS
  <1>3. max \in 0..19 /\ lev \in 0..19 /\ (msPow # Absent => lev = max)
    <2>1. ms \in PowerState(19) /\ MsLimits \subseteq 0..19
      BY LinkAssumption DEF Inv, Types
    <2>2. Lvl(0) = 19
      BY DEF Lvl
    <2>3. ms.max \in 0..19
      BY <2>1 DEF PowerState
    <2> QED
      BY <1>1, <1>2, <2>1, <2>2, <2>3
  <1>4. PICK lim : lim = IF bsPow = Absent THEN 30 ELSE C0Min(bsPow)
    OBVIOUS
  <1>5. PICK att : att = IF bsPow = Absent \/ bsDpc THEN 0 ELSE C0Min(bsPow)
    OBVIOUS
  <1>6. bsPow # Absent => C0Min(bsPow) \in 0..30 /\ (cfg.c0 => C0Min(bsPow) <= c0red)
    BY LinkAssumption, C0MinBounds DEF Inv
  <1>7. lim \in 0..30 /\ att \in 0..30
    BY <1>4, <1>5, <1>6
  <1>8. /\ ms' = [max |-> max, current |-> lev, dpc |-> msDpc, skip |-> 0, avg |-> NoAvg]
        /\ bs' = [max |-> lim, current |-> att, dpc |-> bsDpc, skip |-> 0, avg |-> NoAvg]
        /\ ta' = IF t = Absent THEN ta ELSE [ta EXCEPT !.current = t]
        /\ phone' = NewPhone(lev, ta'.current, bs'.current)
        /\ lax' = (msPow = Absent)
        /\ cap' = IF bsPow = Absent THEN 30 ELSE c0red
        /\ UNCHANGED <<cfg, c0red, radio>> /\ Event
    BY <1>1, <1>2, <1>4, <1>5, Zenon DEF rsl_rx_chan_activ
  <1>9. ms' \in PowerState(19) /\ bs' \in PowerState(30)
    BY <1>3, <1>7, <1>8 DEF PowerState, NoAvg
  <1>10. ms'.avg = NoAvg /\ bs'.avg = NoAvg /\ ms'.max = max /\ ms'.current = lev
         /\ bs'.max = lim /\ bs'.current = att /\ bs'.dpc = bsDpc
    BY <1>8
  <1>11. ta' \in [current : 0..63, skip : -1..61]
    <2>1. ta \in [current : 0..63, skip : -1..61]
      BY DEF Inv, Types
    <2>2. t = Absent \/ t = 0
      OBVIOUS
    <2> QED
      BY <1>8, <2>1, <2>2
  <1>12. /\ phone' \in [pwr : Seq(5..19), ta : Seq(0..63), att : 0..30]
         /\ Len(phone'.pwr) = 3 /\ Len(phone'.ta) = 3
    <2>1. PICK x \in 0..63 : x = ta'.current
      BY <1>11
    <2>2. PICK y \in 0..30 : y = att
      BY <1>7
    <2>3. PICK z \in 0..19 : z = lev
      BY <1>3
    <2>4. phone' = NewPhone(z, x, y)
      BY <1>8, <1>10, <2>1, <2>2, <2>3
    <2> QED
      BY <2>4, FreshPhone
  <1>13. n' \in 0..MaxEvents
    BY <1>8, EventStep DEF Inv
  <1>14. cap' \in 0..30 /\ lax' \in BOOLEAN
    BY <1>8 DEF Inv, Types
  <1>15. Types'
    BY <1>8, <1>9, <1>10, <1>11, <1>12, <1>13, <1>14 DEF Inv, Types, Averaged
  <1>16. MaxHonoured'
    <2>1. Dbm(max) \in Int
      BY <1>3, DbmBounds
    <2>2. msPow # Absent => Dbm(lev) <= Dbm(max)
      BY <1>3, <2>1
    <2> QED
      BY <1>8, <1>10, <2>2 DEF MaxHonoured
  <1>17. CarrierKept' /\ LoopWithinCap'
    <2>1. c0red \in 0..6
      BY DEF Inv, Types
    <2> QED
      BY <1>4, <1>5, <1>6, <1>8, <1>10, <2>1 DEF CarrierKept, LoopWithinCap
  <1> QED
    BY <1>15, <1>16, <1>17 DEF Inv

LEMMA MsPowerStep ==
  ASSUME Inv, NEW lvl \in MsLimits, NEW par \in {"none", "given", "bad"},
         rsl_rx_ms_pwr_ctrl(lvl, par)
  PROVE  Inv'
  <1>1. lvl \in 0..19
    BY LinkAssumption
  <1>2. PICK c : c = IF par # "bad" /\ (par = "none" \/ Dbm(ms.current) > Dbm(lvl)) THEN lvl
                     ELSE ms.current
    OBVIOUS
  <1>3. ms \in PowerState(19) /\ Averaged(ms.avg)
    BY DEF Inv, Types
  <1>4. c \in 0..19
    BY <1>1, <1>2, <1>3 DEF PowerState
  <1>5. ms' = [max |-> lvl, current |-> c, dpc |-> (par = "given"), skip |-> ms.skip,
               avg |-> ms.avg]
    BY <1>2, <1>3 DEF rsl_rx_ms_pwr_ctrl, PowerState
  <1>6. ms' \in PowerState(19) /\ ms'.avg = ms.avg /\ ms'.max = lvl /\ ms'.current = c
    BY <1>1, <1>3, <1>4, <1>5 DEF PowerState
  <1>7. UNCHANGED <<cfg, bs, ta, c0red, radio, phone, cap>> /\ Event /\ lax' = (par = "bad")
    BY DEF rsl_rx_ms_pwr_ctrl
  <1>8. n' \in 0..MaxEvents
    BY <1>7, EventStep DEF Inv
  <1>9. Types'
    BY <1>3, <1>6, <1>7, <1>8 DEF Inv, Types
  <1>10. MaxHonoured'
    <2>1. Dbm(lvl) \in Int /\ Dbm(ms.current) \in Int
      BY <1>1, <1>3, DbmBounds DEF PowerState
    <2>2. par # "bad" => Dbm(c) <= Dbm(lvl)
      BY <1>2, <2>1
    <2> QED
      BY <1>2, <1>6, <1>7, <2>2 DEF MaxHonoured
  <1>11. CarrierKept' /\ LoopWithinCap'
    BY <1>7 DEF Inv, CarrierKept, LoopWithinCap
  <1> QED
    BY <1>9, <1>10, <1>11 DEF Inv

LEMMA BsPowerStep ==
  ASSUME Inv, NEW pow \in BsLimits, NEW par \in BOOLEAN, rsl_rx_bs_pwr_ctrl(pow, par)
  PROVE  Inv'
  <1>1. PICK new : new = C0Min(pow)
    OBVIOUS
  <1>2. new \in 0..30 /\ (cfg.c0 => new <= c0red)
    <2>1. PICK p \in 0..30 : p = pow
      BY LinkAssumption
    <2> QED
      BY <1>1, <2>1, C0MinBounds DEF Inv
  <1>3. bs \in PowerState(30) /\ Averaged(bs.avg)
    BY DEF Inv, Types
  <1>4. PICK lim : lim = IF par THEN new ELSE bs.max
    OBVIOUS
  <1>5. PICK att : att = IF par THEN 0 ELSE new
    OBVIOUS
  <1>6. bs' = [max |-> lim, current |-> att, dpc |-> par, skip |-> bs.skip, avg |-> bs.avg]
    BY <1>1, <1>3, <1>4, <1>5 DEF rsl_rx_bs_pwr_ctrl, PowerState
  <1>7. lim \in 0..30 /\ att \in 0..30
    BY <1>2, <1>3, <1>4, <1>5 DEF PowerState
  <1>8. /\ bs' \in PowerState(30) /\ bs'.avg = bs.avg /\ bs'.max = lim /\ bs'.current = att
        /\ bs'.dpc = par
    BY <1>3, <1>6, <1>7 DEF PowerState
  <1>9. UNCHANGED <<cfg, ms, ta, c0red, radio, phone, lax>> /\ Event /\ cap' = c0red
    BY DEF rsl_rx_bs_pwr_ctrl
  <1>10. n' \in 0..MaxEvents
    BY <1>9, EventStep DEF Inv
  <1>11. c0red \in 0..6 /\ cap' \in 0..30
    BY <1>9 DEF Inv, Types
  <1>12. Types'
    BY <1>3, <1>8, <1>9, <1>10, <1>11 DEF Inv, Types
  <1>13. MaxHonoured'
    BY <1>9 DEF Inv, MaxHonoured
  <1>14. CarrierKept' /\ LoopWithinCap'
    BY <1>2, <1>4, <1>5, <1>8, <1>9, <1>11 DEF CarrierKept, LoopWithinCap
  <1> QED
    BY <1>12, <1>13, <1>14 DEF Inv

LEMMA CarrierStep ==
  ASSUME Inv, NEW red \in C0Limits, bts_set_c0_pwr_red(red)
  PROVE  Inv'
  <1>1. red \in Nat
    BY LinkAssumption
  <1>2. c0red' \in 0..6
    BY <1>1 DEF bts_set_c0_pwr_red, C0Accepted, C0Red
  <1>3. cap' \in 0..30 /\ cap <= cap'
    <2>1. cap \in 0..30
      BY DEF Inv, Types
    <2>2. cap' = IF c0red' > cap THEN c0red' ELSE cap
      BY DEF bts_set_c0_pwr_red
    <2> QED
      BY <1>2, <2>1, <2>2
  <1>4. UNCHANGED <<cfg, ms, bs, ta, radio, phone, lax>> /\ n' \in 0..MaxEvents
    BY EventStep DEF bts_set_c0_pwr_red, Inv
  <1>5. Types'
    BY <1>2, <1>3, <1>4 DEF Inv, Types
  <1>6. MaxHonoured'
    BY <1>4 DEF Inv, MaxHonoured
  <1>7. CarrierKept' /\ LoopWithinCap'
    <2>1. cap \in Int /\ cap' \in Int /\ bs \in PowerState(30)
      BY <1>3 DEF Inv, Types
    <2>2. bs.current \in Int /\ bs.max \in Int
      BY <2>1 DEF PowerState
    <2> QED
      BY <1>3, <1>4, <2>1, <2>2 DEF Inv, CarrierKept, LoopWithinCap
  <1> QED
    BY <1>5, <1>6, <1>7 DEF Inv

LEMMA AccessDelay ==
  ASSUME NEW dl \in Delays
  PROVE  dl \div 256 \in 0..63
  <1>1. dl \in 0..(63 * 256)
    BY LinkAssumption
  <1>2. dl \in Int /\ 0 <= dl /\ dl <= 16128
    BY <1>1
  <1> QED
    BY <1>2

LEMMA HandoverStep ==
  ASSUME Inv, NEW dl \in Delays, handover_rach(dl \div 256)
  PROVE  Inv'
  <1>1. PICK t \in 0..63 : t = dl \div 256
    BY AccessDelay
  <1>2. /\ ta' = [ta EXCEPT !.current = t] /\ phone' = NewPhone(ms.current, t, bs.current)
        /\ UNCHANGED <<cfg, ms, bs, c0red, radio, lax, cap>> /\ Event
    BY <1>1 DEF handover_rach
  <1>3. PICK lvl \in 0..19 : lvl = ms.current
    BY OrderFacts
  <1>4. PICK att \in 0..30 : att = bs.current
    BY OrderFacts
  <1>5. /\ phone' \in [pwr : Seq(5..19), ta : Seq(0..63), att : 0..30]
        /\ Len(phone'.pwr) = 3 /\ Len(phone'.ta) = 3
    BY <1>2, <1>3, <1>4, FreshPhone
  <1>6. ta' \in [current : 0..63, skip : -1..61]
    BY <1>2 DEF Inv, Types
  <1>7. n' \in 0..MaxEvents
    BY <1>2, EventStep DEF Inv
  <1> QED
    BY <1>2, <1>5, <1>6, <1>7 DEF Inv, Types, MaxHonoured, CarrierKept, LoopWithinCap

LEMMA TalkerStep ==
  ASSUME Inv, NEW dl \in Delays, vgcs_rach(dl \div 256)
  PROVE  Inv'
  <1>1. PICK t \in 0..63 : t = dl \div 256
    BY AccessDelay
  <1>2. /\ ta' = [ta EXCEPT !.current = t] /\ phone' = NewPhone(ms.max, t, bs.current)
        /\ ms' = [ms EXCEPT !.current = ms.max] /\ lax' = FALSE
        /\ UNCHANGED <<cfg, bs, c0red, radio, cap>> /\ Event
    BY <1>1 DEF vgcs_rach
  <1>3. PICK lvl \in 0..19 : lvl = ms.max
    BY OrderFacts
  <1>4. PICK att \in 0..30 : att = bs.current
    BY OrderFacts
  <1>5. /\ phone' \in [pwr : Seq(5..19), ta : Seq(0..63), att : 0..30]
        /\ Len(phone'.pwr) = 3 /\ Len(phone'.ta) = 3
    BY <1>2, <1>3, <1>4, FreshPhone
  <1>6. ta' \in [current : 0..63, skip : -1..61]
    BY <1>2 DEF Inv, Types
  <1>7. n' \in 0..MaxEvents
    BY <1>2, EventStep DEF Inv
  <1>8. ms \in PowerState(19) /\ Averaged(ms.avg)
    BY DEF Inv, Types
  <1>9. /\ ms' \in PowerState(19) /\ ms'.avg = ms.avg
        /\ ms'.current = lvl /\ ms'.max = lvl
    BY <1>2, <1>3, <1>8 DEF PowerState
  <1>10. MaxHonoured'
    BY <1>9, DbmBounds DEF MaxHonoured
  <1>11. Types'
    BY <1>2, <1>5, <1>6, <1>7, <1>8, <1>9 DEF Inv, Types
  <1>12. CarrierKept' /\ LoopWithinCap'
    BY <1>2 DEF Inv, CarrierKept, LoopWithinCap
  <1> QED
    BY <1>10, <1>11, <1>12 DEF Inv

LEMMA MoveStep ==
  ASSUME Inv, NEW l \in Losses, NEW dl \in Delays, Move(l, dl)
  PROVE  Inv'
  <1>1. n' \in 0..MaxEvents
    BY EventStep DEF Inv, Move
  <1> QED
    BY <1>1 DEF Move, Inv, Types, MaxHonoured, CarrierKept, LoopWithinCap

-----------------------------------------------------------------------------
(* The specification.                                                      *)

LEMMA InvInit == LinkInit => Inv
  <1> SUFFICES ASSUME LinkInit PROVE Inv
    OBVIOUS
  <1>1. cfg \in Configs /\ n = 0 /\ lax = FALSE /\ cap = c0red
    BY DEF LinkInit
  <1>2. c0red \in 0..6
    <2>1. CASE cfg.c0
      <3>1. PICK r \in C0Limits : C0Accepted(r) /\ c0red = C0Red(r)
        BY <2>1 DEF LinkInit
      <3>2. r \in Nat
        BY LinkAssumption
      <3> QED
        BY <3>1, <3>2 DEF C0Accepted, C0Red
    <2>2. CASE ~cfg.c0
      BY <2>2 DEF LinkInit
    <2> QED
      BY <2>1, <2>2
  <1>3. PICK lim \in MsLimits :
          ms = [max |-> lim, current |-> lim, dpc |-> TRUE, skip |-> 0, avg |-> NoAvg]
    BY DEF LinkInit
  <1>4. lim \in 0..19
    BY LinkAssumption
  <1>5. ms \in PowerState(19) /\ ms.avg = NoAvg /\ ms.max = lim /\ ms.current = lim
    BY <1>3, <1>4 DEF PowerState, NoAvg
  <1>6. PICK b \in BsLimits :
          bs = [max |-> C0Min(b), current |-> 0, dpc |-> TRUE, skip |-> 0, avg |-> NoAvg]
    BY DEF LinkInit
  <1>7. PICK x \in 0..30 : x = C0Min(b) /\ (cfg.c0 => x <= c0red)
    <2>1. b \in 0..30
      BY LinkAssumption
    <2> QED
      BY <1>2, <2>1 DEF C0Min
  <1>8. bs \in PowerState(30) /\ bs.avg = NoAvg /\ bs.max = x /\ bs.current = 0
    BY <1>6, <1>7 DEF PowerState, NoAvg
  <1>9. radio \in [loss : Losses, delay : Delays]
    BY DEF LinkInit
  <1>10. ta \in [current : 0..63, skip : -1..61]
    BY DEF LinkInit
  <1>11. /\ phone \in [pwr : Seq(5..19), ta : Seq(0..63), att : 0..30]
         /\ Len(phone.pwr) = 3 /\ Len(phone.ta) = 3
    <2>1. phone = NewPhone(ms.current, 0, 0) /\ ms.current \in 0..19
      BY <1>4, <1>5 DEF LinkInit
    <2>2. PICK y \in 0..19 : y = ms.current
      BY <2>1
    <2>3. PICK z \in 0..63 : z = 0
      OBVIOUS
    <2>4. PICK a \in 0..30 : a = 0
      OBVIOUS
    <2> QED
      BY <2>1, <2>2, <2>3, <2>4, FreshPhone
  <1>12. Types
    <2>1. n \in 0..MaxEvents
      BY <1>1, LinkAssumption
    <2>2. cap \in 0..30
      BY <1>1, <1>2
    <2>3. lax \in BOOLEAN
      BY <1>1, Zenon
    <2> QED
      BY <1>1, <1>2, <1>5, <1>8, <1>9, <1>10, <1>11, <2>1, <2>2, <2>3 DEF Types, Averaged
  <1>13. MaxHonoured
    BY <1>4, <1>5, DbmBounds DEF MaxHonoured
  <1>14. CarrierKept /\ LoopWithinCap
    BY <1>1, <1>2, <1>7, <1>8 DEF CarrierKept, LoopWithinCap
  <1> QED
    BY <1>12, <1>13, <1>14 DEF Inv

LEMMA InvStep == Inv /\ [LinkNext]_lvars => Inv'
  <1> SUFFICES ASSUME Inv, [LinkNext]_lvars PROVE Inv'
    OBVIOUS
  <1>1. CASE UNCHANGED lvars
    BY <1>1 DEF lvars, Inv, Types, MaxHonoured, CarrierKept, LoopWithinCap
  <1>2. CASE LinkNext
    BY <1>2, SacchStep, ActivStep, MsPowerStep, BsPowerStep, CarrierStep, HandoverStep, TalkerStep,
       MoveStep DEF LinkNext
  <1> QED
    BY <1>1, <1>2

LEMMA InvHolds == LinkSpec => []Inv
  BY InvInit, InvStep, PTL DEF LinkSpec

\* For all configurations and averaging factors, radio conditions and messages of the BSC
\* (power_control.c, ta_control.c, rsl.c): the levels, reductions, timing advances and averages
\* stay in their ranges, the phone is not ordered above the limit that was applied to it, and no
\* channel of the BCCH carrier is attenuated beyond what its timeslot was allowed.
THEOREM LinkInvHolds == LinkSpec => []LinkInv
  <1> SUFFICES ASSUME Inv PROVE LinkInv
    BY InvHolds, PTL
  <1>1. ms \in PowerState(19) /\ bs \in PowerState(30) /\ Averaged(ms.avg) /\ Averaged(bs.avg)
    BY DEF Inv, Types
  <1>2. /\ phone.pwr \in Seq(5..19) /\ Len(phone.pwr) = 3
        /\ phone.ta \in Seq(0..63) /\ Len(phone.ta) = 3 /\ phone.att \in 0..30
    BY DEF Inv, Types
  <1>3. \A S : \A p \in Seq(S) : Len(p) = 3 => \A i \in 1..3 : p[i] \in S
    OBVIOUS
  <1>4. \A i \in 1..3 : phone.pwr[i] \in 5..19 /\ phone.ta[i] \in 0..63
    BY <1>2, <1>3, Zenon
  <1>5. /\ ms.max \in 0..19 /\ ms.current \in 0..19 /\ ms.skip \in -1..61
        /\ bs.max \in 0..30 /\ bs.current \in 0..30 /\ bs.skip \in -1..61
    BY <1>1 DEF PowerState
  <1>6. LinkTypeOK
    BY <1>1, <1>2, <1>4, <1>5 DEF Inv, Types, LinkTypeOK, Averaged
  <1> QED
    BY <1>6 DEF Inv, LinkInv

-----------------------------------------------------------------------------
(***************************************************************************)
(* The shutdown of the BTS.  Its on-enter function is a loop over the TRXs;*)
(* a property that every turn keeps holds at the end of the loop, which is *)
(* proved from the well-foundedness of the natural numbers.                *)
(***************************************************************************)
\* The order of the natural numbers is well-founded.
LEMMA LessWellFounded == IsWellFoundedOn({ss \in Nat \X Nat : ss[1] < ss[2]}, Nat)
  BY NatLessThanWellFounded DEF OpToRel

\* Induction for a set of numbers.
LEMMA SetInduction ==
    ASSUME NEW S, 0 \in S, \A j \in S : j + 1 \in S
    PROVE  Nat \subseteq S
<1> DEFINE Rest == Nat \ S
<1>1. SUFFICES ASSUME Rest # {} PROVE FALSE
  OBVIOUS
<1>2. PICK x \in Rest : \A y \in Rest : ~ (<<y, x>> \in {ss \in Nat \X Nat : ss[1] < ss[2]})
  BY <1>1, LessWellFounded, WFMin, Zenon
<1>3. x \in Nat /\ x # 0 /\ x - 1 \in Nat
  OBVIOUS
<1>4. x - 1 \notin Rest
  <2>1. <<x - 1, x>> \in {ss \in Nat \X Nat : ss[1] < ss[2]}
    BY <1>3
  <2> QED
    BY <1>2, <2>1, Zenon
<1>5. x - 1 \in S /\ (x - 1) + 1 = x
  BY <1>3, <1>4
<1>6. x \in S
  BY <1>5
<1> QED
  BY <1>6

-----------------------------------------------------------------------------
(* The loop that closes the TRXs.                                          *)

\* The state the loop begins with.
Begin(s) == [s EXCEPT !.st = "WAIT_TRX_CLOSED"]

\* g is the course of the loop from s over its first m TRXs.
Course(g, s, m) ==
    g = [j \in 0 .. m |-> IF j = 0 THEN Begin(s)
                          ELSE bts_model_trx_close(g[j - 1], NumTrx + 1 - j)]

\* A course can be prolonged by a TRX.
LEMMA CourseStep ==
    ASSUME NEW s, NEW m \in Nat, NEW g, Course(g, s, m)
    PROVE  \E h : Course(h, s, m + 1)
<1> DEFINE h == [j \in 0 .. (m + 1) |-> IF j = m + 1
                                       THEN bts_model_trx_close(g[m], NumTrx + 1 - j) ELSE g[j]]
<1>1. ASSUME NEW j \in 0 .. (m + 1)
      PROVE  h[j] = IF j = 0 THEN Begin(s)
                    ELSE bts_model_trx_close(h[j - 1], NumTrx + 1 - j)
  <2>1. CASE j = m + 1
    <3>1. j - 1 = m /\ h[j - 1] = g[m] /\ j # 0
      BY <2>1
    <3> QED
      BY <3>1, <2>1
  <2>2. CASE j # m + 1
    <3>1. j \in 0 .. m /\ h[j] = g[j]
      BY <2>2
    <3>2. g[j] = IF j = 0 THEN Begin(s)
                 ELSE bts_model_trx_close(g[j - 1], NumTrx + 1 - j)
      BY <3>1 DEF Course
    <3>3. j # 0 => h[j - 1] = g[j - 1]
      BY <3>1
    <3> QED
      BY <3>1, <3>2, <3>3
  <2> QED
    BY <2>1, <2>2
<1>2. Course(h, s, m + 1)
  BY <1>1 DEF Course
<1> QED
  BY <1>2

\* There is a course over any number of TRXs.
LEMMA CourseExists ==
    ASSUME NEW s, NEW m \in Nat
    PROVE  \E g : Course(g, s, m)
<1> DEFINE S == {k \in Nat : \E g : Course(g, s, k)}
<1>1. 0 \in S
  <2> DEFINE g == [j \in 0 .. 0 |-> Begin(s)]
  <2>1. Course(g, s, 0)
    BY DEF Course
  <2> QED
    BY <2>1
<1>2. ASSUME NEW k \in S PROVE k + 1 \in S
  BY CourseStep
<1> HIDE DEF S
<1>3. Nat \subseteq S
  BY <1>1, <1>2, SetInduction
<1> QED
  BY <1>3 DEF S

\* What holds when the loop begins and is kept by every close holds when it ends.
LEMMA LoopKeeps ==
    ASSUME NEW s, NEW P, Begin(s) \in P,
           \A c \in P : \A t \in Trx : bts_model_trx_close(c, t) \in P
    PROVE  EnterWaitTrxClosed(s) \in P
<1> DEFINE g == CHOOSE g : g = [j \in 0 .. NumTrx |->
                      IF j = 0 THEN Begin(s)
                      ELSE bts_model_trx_close(g[j - 1], NumTrx + 1 - j)]
<1>0. NumTrx \in Nat
  BY ShutdownAssumption
<1>1. Course(g, s, NumTrx)
  <2>1. \E h : Course(h, s, NumTrx)
    BY <1>0, CourseExists
  <2> QED
    BY <2>1, Zenon DEF Course
<1>2. EnterWaitTrxClosed(s) = g[NumTrx]
  BY Zenon DEF EnterWaitTrxClosed, Begin
<1> HIDE DEF g
<1> DEFINE S == {j \in Nat : j <= NumTrx => g[j] \in P}
<1>3. 0 \in S
  BY <1>0, <1>1 DEF Course
<1>4. ASSUME NEW j \in S PROVE j + 1 \in S
  <2>1. SUFFICES ASSUME j + 1 <= NumTrx PROVE g[j + 1] \in P
    OBVIOUS
  <2>2. g[j] \in P /\ j + 1 \in 0 .. NumTrx /\ j + 1 # 0 /\ (j + 1) - 1 = j
    BY <2>1, <1>0
  <2>3. g[j + 1] = bts_model_trx_close(g[j], NumTrx + 1 - (j + 1))
    BY <2>2, <1>1 DEF Course
  <2>4. NumTrx + 1 - (j + 1) \in Trx
    BY <2>1, <1>0 DEF Trx
  <2> QED
    BY <2>2, <2>3, <2>4
<1> HIDE DEF S
<1>5. Nat \subseteq S
  BY <1>3, <1>4, SetInduction
<1> QED
  BY <1>0, <1>2, <1>5 DEF S

-----------------------------------------------------------------------------
(* The states the functions work on.                                       *)

Ramps == RampState({"none", "ramp_down_compl_cb"})

\* The records of Now.
Records ==
    [st : States, op : [Trx -> BOOLEAN],
     phy : [Trx -> {"closed", "opening", "up", "closing"}], ramp : [Trx -> Ramps],
     exit : BOOLEAN, exited : BOOLEAN]

\* The records of a shutdown that closes TRXs or is over, and ended the process if asked to.
Closing(toExit) ==
    {s \in Records : /\ s.st \in {"WAIT_TRX_CLOSED", "NONE"}
                     /\ s.exit = toExit
                     /\ s.exited = (s.st = "NONE" /\ s.exit)}

\* The FSM handles TRX_CLOSED within the states of Closing.
LEMMA ClosedKeeps ==
    ASSUME NEW toExit \in BOOLEAN, NEW s \in Closing(toExit)
    PROVE  st_wait_trx_closed(s) \in Closing(toExit)
  BY DEF Closing, Records, States, st_wait_trx_closed

\* A phy link that closes leaves a record of the same kind.
LEMMA SetClosed ==
    ASSUME NEW s \in Records, NEW t \in Trx
    PROVE  LET c == [s EXCEPT !.phy[t] = "closed", !.op[t] = FALSE, !.ramp[t].req = 0]
           IN  /\ c \in Records
               /\ c.st = s.st /\ c.exit = s.exit /\ c.exited = s.exited
<1>1. s.ramp[t] \in Ramps /\ [s.ramp[t] EXCEPT !.req = 0] \in Ramps
  BY DEF Records, Ramps, RampState
<1> QED
  BY <1>1 DEF Records

\* So does the closing itself, which reports TRX_CLOSED.
LEMMA ApplyCloseKeeps ==
    ASSUME NEW toExit \in BOOLEAN, NEW s \in Closing(toExit), NEW t \in Trx
    PROVE  trx_prov_fsm_apply_close(s, t) \in Closing(toExit)
<1> DEFINE c == [s EXCEPT !.phy[t] = "closed", !.op[t] = FALSE, !.ramp[t].req = 0]
<1>1. s \in Records
  BY DEF Closing
<1>2. c \in Records /\ c.st = s.st /\ c.exit = s.exit /\ c.exited = s.exited
  BY <1>1, SetClosed
<1>3. trx_prov_fsm_apply_close(s, t) = st_wait_trx_closed(c)
  BY DEF trx_prov_fsm_apply_close
<1> HIDE DEF c
<1>4. c \in Closing(toExit)
  BY <1>2 DEF Closing
<1> QED
  BY <1>3, <1>4, ClosedKeeps

\* Closing one TRX keeps the shutdown one that closes or is over.
LEMMA CloseKeeps ==
    ASSUME NEW toExit \in BOOLEAN, NEW s \in Closing(toExit), NEW t \in Trx
    PROVE  bts_model_trx_close(s, t) \in Closing(toExit)
<1> DEFINE c == CASE s.phy[t] = "opening" -> trx_prov_fsm_apply_close(s, t)
                  [] s.phy[t] = "up" -> [s EXCEPT !.phy[t] = "closing"]
                  [] OTHER -> s
<1>1. c \in Closing(toExit)
  <2>1. CASE s.phy[t] = "opening"
    BY <2>1, ApplyCloseKeeps
  <2>2. CASE s.phy[t] = "up"
    <3>1. [s EXCEPT !.phy[t] = "closing"] \in Closing(toExit)
      BY DEF Closing, Records
    <3> QED
      BY <2>2, <3>1
  <2>3. CASE s.phy[t] \notin {"opening", "up"}
    BY <2>3
  <2> QED
    BY <2>1, <2>2, <2>3
<1>2. bts_model_trx_close(s, t) =
        IF s.exited \/ c.exited THEN (IF s.exited THEN s ELSE c) ELSE [c EXCEPT !.op[t] = FALSE]
  BY DEF bts_model_trx_close
<1> HIDE DEF c
<1>3. [c EXCEPT !.op[t] = FALSE] \in Closing(toExit)
  BY <1>1 DEF Closing, Records
<1> QED
  BY <1>1, <1>2, <1>3

\* After the on-enter function the TRXs are closing or the shutdown is over.
LEMMA EnterCloses ==
    ASSUME NEW s \in Records, s.exited = FALSE
    PROVE  EnterWaitTrxClosed(s) \in Closing(s.exit)
<1>1. s.exit \in BOOLEAN
  BY DEF Records
<1>2. Begin(s) \in Closing(s.exit)
  BY DEF Begin, Closing, Records, States
<1> QED
  BY <1>1, <1>2, CloseKeeps, LoopKeeps

-----------------------------------------------------------------------------
(* The power ramp.                                                         *)

\* The steps of a ramp that no answer is needed for.
LEMMA TimerKeeps ==
    ASSUME NEW r \in Ramps
    PROVE  power_ramp_timer_cb(r) \in Ramps /\ power_ramp_abort(r) \in Ramps /\ DoStep(r) \in Ramps
<1>1. StepSize \in Int
  BY RampAssumption
<1>2. power_ramp_abort(r) \in Ramps
  BY DEF Ramps, RampState, power_ramp_abort
<1>3. power_ramp_timer_cb(r) \in Ramps
  <2>1. r.tgt - r.att \in Int /\ r.req + 1 \in Nat
    BY DEF Ramps, RampState
  <2> QED
    BY <2>1 DEF Ramps, RampState, power_ramp_timer_cb
<1>4. DoStep(r) \in Ramps
  <2> DEFINE v == IF we_are_ramping_up(r)
                  THEN IF r.att - StepSize <= 0 THEN 0 ELSE r.att - StepSize
                  ELSE IF r.att + StepSize >= 0 THEN 0 ELSE r.att + StepSize
  <2>1. v \in Int
    BY <1>1 DEF Ramps, RampState
  <2>2. DoStep(r) = [r EXCEPT !.att = v, !.timer = TRUE]
    BY Zenon DEF DoStep
  <2> HIDE DEF v
  <2> QED
    BY <2>1, <2>2 DEF Ramps, RampState
<1> QED
  BY <1>2, <1>3, <1>4

\* An answer of layer 1 to a request that is open.
LEMMA AnswerKeeps ==
    ASSUME NEW r \in Ramps, r.req > 0
    PROVE  power_trx_change_compl(r) \in Ramps
<1> DEFINE a == [r EXCEPT !.req = @ - 1]
<1>1. a \in Ramps
  BY DEF Ramps, RampState
<1> QED
  BY <1>1, TimerKeeps DEF power_trx_change_compl

\* A ramp that is started.
LEMMA StartKeeps ==
    ASSUME NEW r \in Ramps, NEW p \in Int, NEW cb \in {"none", "ramp_down_compl_cb"},
           NEW skp \in BOOLEAN
    PROVE  power_ramp_start(r, p, cb, skp) \in Ramps
<1> DEFINE new == [power_ramp_abort(r) EXCEPT !.tgt = p, !.cb = cb]
           from == IF we_are_ramping_up(new) /\ new.cur + StepSize < MaxInitial
                   THEN MaxInitial - StepSize ELSE new.cur
<1>1. new \in Ramps
  BY TimerKeeps DEF Ramps, RampState
<1>2. power_ramp_start(r, p, cb, skp) =
        IF skp \/ (we_are_ramping_up(new) /\ p <= MaxInitial)
        THEN power_ramp_timer_cb([new EXCEPT !.cur = p, !.att = 0])
        ELSE DoStep([new EXCEPT !.cur = from, !.att = p - from])
  BY DEF power_ramp_start
<1> HIDE DEF new
<1>3. from \in Int
  BY <1>1, RampAssumption DEF Ramps, RampState
<1> HIDE DEF from
<1>5. p - from \in Int
  BY <1>3
<1>4. /\ [new EXCEPT !.cur = p, !.att = 0] \in Ramps
      /\ [new EXCEPT !.cur = from, !.att = p - from] \in Ramps
  <2>1. ASSUME NEW x \in Int, NEW y \in Int PROVE [new EXCEPT !.cur = x, !.att = y] \in Ramps
    BY <1>1 DEF Ramps, RampState
  <2>2. 0 \in Int
    OBVIOUS
  <2> QED
    BY <1>3, <1>5, <2>1, <2>2, Zenon
<1> QED
  BY <1>2, <1>4, TimerKeeps

-----------------------------------------------------------------------------
(* The steps.                                                              *)

\* What the functions are called with.
LEMMA NowType ==
    ASSUME TypeOK, NEW rs \in [Trx -> Ramps], NEW ex \in BOOLEAN
    PROVE  Now(rs, ex) \in Records /\ Now(rs, ex).exited = FALSE /\ Now(rs, ex).exit = ex
  BY DEF TypeOK, Now, Records, Ramps

\* A step that closes all TRXs.
Closes(toExit) ==
    /\ st' \in {"WAIT_TRX_CLOSED", "NONE"}
    /\ exited' = (st' = "NONE" /\ toExit)

\* The step with which the on-enter function ends, for a shutdown with the ramps rs.
LEMMA EnterStep ==
    ASSUME TypeOK, NEW rs \in [Trx -> Ramps], NEW ex \in BOOLEAN,
           Become(EnterWaitTrxClosed(Now(rs, ex)))
    PROVE  /\ Closes(ex)
           /\ op' \in [Trx -> BOOLEAN] /\ ramp' \in [Trx -> Ramps]
           /\ phy' \in [Trx -> {"closed", "opening", "up", "closing"}]
<1>1. EnterWaitTrxClosed(Now(rs, ex)) \in Closing(ex)
  BY NowType, EnterCloses
<1> QED
  BY <1>1 DEF Become, Closing, Records, Closes

\* A shutdown is asked for.
LEMMA ExtStep ==
    ASSUME TypeOK, ~exited, NEW toExit \in BOOLEAN, NEW toSkip \in BOOLEAN,
           bts_shutdown_ext(toExit, toSkip), quit' \in BOOLEAN
    PROVE  /\ TypeOK'
           /\ exitProc' = (toExit \/ (st # "NONE" /\ exitProc))
           /\ \/ st' # "NONE" /\ ~exited'
              \/ st = "NONE" /\ st' = "NONE" /\ exited' = toExit
           /\ st # "NONE" => st' = st
<1>1. CASE st # "NONE"
  BY <1>1 DEF bts_shutdown_ext, TypeOK
<1>2. CASE st = "NONE"
  <2>0. /\ exitProc' = toExit /\ skip' = toSkip /\ st_none(toExit, toSkip)
    BY <1>2 DEF bts_shutdown_ext
  <2>1. starts' \in 0 .. MaxStarts
    BY <2>0, ShutdownAssumption DEF st_none, TypeOK
  <2>2. CASE Operational(op) # {}
    <3>1. /\ st' = "WAIT_RAMP_DOWN_COMPL" /\ UNCHANGED <<op, phy, exited>>
          /\ ramp' = [t \in Trx |-> IF op[t] THEN power_ramp_start(ramp[t], Target,
                                                         "ramp_down_compl_cb", toSkip)
                                    ELSE ramp[t]]
      BY <2>0, <2>2 DEF st_none
    <3>2. ASSUME NEW t \in Trx
          PROVE  /\ power_ramp_start(ramp[t], Target, "ramp_down_compl_cb", toSkip) \in Ramps
                 /\ ramp[t] \in Ramps
      <4>1. ramp[t] \in Ramps /\ Target \in Int
        BY DEF TypeOK, Ramps, Target
      <4> QED
        BY <4>1, StartKeeps
    <3>3. ramp' \in [Trx -> Ramps]
      BY <3>1, <3>2
    <3> QED
      BY <1>2, <2>0, <2>1, <3>1, <3>3 DEF TypeOK, States, Ramps
  <2>3. CASE Operational(op) = {}
    <3>1. Become(EnterWaitTrxClosed(Now(ramp, toExit))) /\ ramp \in [Trx -> Ramps]
      BY <2>0, <2>3 DEF st_none, TypeOK, Ramps
    <3>2. /\ Closes(toExit)
          /\ op' \in [Trx -> BOOLEAN] /\ ramp' \in [Trx -> Ramps]
          /\ phy' \in [Trx -> {"closed", "opening", "up", "closing"}]
      BY <3>1, EnterStep
    <3> QED
      BY <1>2, <2>0, <2>1, <3>2 DEF TypeOK, States, Ramps, Closes
  <2> QED
    BY <2>2, <2>3
<1> QED
  BY <1>1, <1>2

\* A step of the shutdown that is going on: it stays or comes to its end.
Proceeds ==
    /\ UNCHANGED exitProc
    /\ \/ UNCHANGED <<st, exited>>
       \/ st # "NONE" /\ Closes(exitProc)

\* T-1 and T-2.
LEMMA TimerStep ==
    ASSUME TypeOK, bts_shutdown_fsm_timer_cb
    PROVE  TypeOK' /\ Proceeds
<1>1. CASE /\ st = "WAIT_RAMP_DOWN_COMPL"
           /\ Become(EnterWaitTrxClosed(Now(ramp, exitProc)))
  <2>1. ramp \in [Trx -> Ramps] /\ exitProc \in BOOLEAN
    BY DEF TypeOK, Ramps
  <2>2. /\ Closes(exitProc)
        /\ op' \in [Trx -> BOOLEAN] /\ ramp' \in [Trx -> Ramps]
        /\ phy' \in [Trx -> {"closed", "opening", "up", "closing"}]
    BY <1>1, <2>1, EnterStep
  <2> QED
    BY <1>1, <2>2 DEF TypeOK, States, Ramps, Proceeds, Closes, bts_shutdown_fsm_timer_cb
<1>2. CASE st = "WAIT_TRX_CLOSED" /\ st' = "NONE"
  BY <1>2 DEF TypeOK, States, Proceeds, Closes, bts_shutdown_fsm_timer_cb
<1> QED
  BY <1>1, <1>2 DEF bts_shutdown_fsm_timer_cb

\* An answer of layer 1; a ramp that it completes may begin the closing.
LEMMA ChangedStep ==
    ASSUME TypeOK, NEW t \in Trx, PowerChanged(t)
    PROVE  /\ TypeOK' /\ Proceeds
           /\ st = "WAIT_RAMP_DOWN_COMPL" /\ st' # st
                 => \A u \in Trx : op[u] => ramp[u].cur <= RampTgt
<1> DEFINE rs == [ramp EXCEPT ![t] = power_trx_change_compl(@)]
<1>0. ramp \in [Trx -> Ramps] /\ ramp[t] \in Ramps /\ ramp[t].req > 0 /\ exitProc \in BOOLEAN
  BY DEF TypeOK, Ramps, PowerChanged
<1>1. power_trx_change_compl(ramp[t]) \in Ramps
  BY <1>0, AnswerKeeps
<1>2. rs \in [Trx -> Ramps]
  BY <1>0, <1>1
<1>3. CASE ramp' = rs /\ UNCHANGED <<st, op, phy, exited>>
  BY <1>2, <1>3 DEF PowerChanged, TypeOK, Ramps, Proceeds
<1>4. CASE /\ IsComplete(ramp[t]) /\ st = "WAIT_RAMP_DOWN_COMPL" /\ TrxRemaining(rs) = {}
           /\ Become(EnterWaitTrxClosed(Now([u \in Trx |-> power_ramp_abort(rs[u])], exitProc)))
  <2>1. [u \in Trx |-> power_ramp_abort(rs[u])] \in [Trx -> Ramps]
    BY <1>2, TimerKeeps
  <2>2. /\ Closes(exitProc)
        /\ op' \in [Trx -> BOOLEAN] /\ ramp' \in [Trx -> Ramps]
        /\ phy' \in [Trx -> {"closed", "opening", "up", "closing"}]
    BY <1>0, <1>4, <2>1, EnterStep
  <2>3. TypeOK' /\ Proceeds
    BY <1>4, <2>2 DEF TypeOK, States, Ramps, Proceeds, Closes, PowerChanged
  <2>4. ASSUME NEW u \in Trx, op[u] PROVE ramp[u].cur <= RampTgt
    <3>1. rs[u].cur \in Int /\ ~ (rs[u].cur > RampTgt)
      BY <1>2, <1>4, <2>4 DEF TrxRemaining, Ramps, RampState
    <3>2. power_trx_change_compl(ramp[t]).cur = ramp[t].cur
      BY <1>0, <1>4 DEF power_trx_change_compl, Ramps, RampState
    <3>3. rs[u].cur = ramp[u].cur
      BY <1>0, <3>2
    <3> QED
      BY <3>1, <3>3 DEF RampTgt
  <2> QED
    BY <2>3, <2>4
<1>5. CASE ~ (ramp' = rs /\ UNCHANGED <<st, op, phy, exited>>)
  BY <1>4, <1>5 DEF PowerChanged, st_wait_ramp_down_compl
<1> QED
  BY <1>3, <1>5

\* A confirmed POWEROFF.
LEMMA CloseCbStep ==
    ASSUME TypeOK, NEW t \in Trx, bts_model_trx_close_cb(t)
    PROVE  TypeOK' /\ Proceeds /\ (st = "WAIT_RAMP_DOWN_COMPL" => st' = st)
<1> DEFINE j == Now(ramp, exitProc)
           c == [j EXCEPT !.phy[t] = "closed", !.op[t] = FALSE, !.ramp[t].req = 0]
<1>1. j \in Records /\ j.st = st /\ j.exited = FALSE /\ j.exit = exitProc
  BY NowType DEF TypeOK, Ramps, Now
<1>2. Become(st_wait_trx_closed(c))
  BY DEF bts_model_trx_close_cb, trx_prov_fsm_apply_close
<1> HIDE DEF j
<1>3. c \in Records /\ c.st = st /\ c.exit = exitProc /\ c.exited = FALSE
  BY <1>1, SetClosed
<1> HIDE DEF c
<1> DEFINE d == st_wait_trx_closed(c)
<1>4. /\ d \in Records
      /\ \/ d.st = st /\ d.exited = FALSE
         \/ st = "WAIT_TRX_CLOSED" /\ d.st = "NONE" /\ d.exited = exitProc
  BY <1>3 DEF st_wait_trx_closed, Records, States
<1> HIDE DEF d
<1>5. ~exited /\ UNCHANGED <<exitProc, skip, quit, starts>>
  BY DEF bts_model_trx_close_cb
<1>6. st' = d.st /\ op' = d.op /\ phy' = d.phy /\ ramp' = d.ramp /\ exited' = d.exited
  BY <1>2 DEF Become, d
<1>7. TypeOK'
  BY <1>4, <1>5, <1>6 DEF TypeOK, Records, Ramps
<1>8. exited = FALSE /\ exitProc \in BOOLEAN
  BY <1>5 DEF TypeOK
<1>9. \/ st' = st /\ exited' = exited
      \/ st = "WAIT_TRX_CLOSED" /\ st' = "NONE" /\ exited' = exitProc
  BY <1>4, <1>6, <1>8
<1> QED
  BY <1>5, <1>7, <1>8, <1>9 DEF Proceeds, Closes

\* The ramps' timers and the rest of the BTS.
LEMMA OtherStep ==
    ASSUME TypeOK, NEW t \in Trx,
           RampTimer(t) \/ PhyOpens(t) \/ PhyComesUp(t) \/ CarrierDown(t)
    PROVE  TypeOK' /\ UNCHANGED <<st, exitProc, exited>>
<1>0. ramp \in [Trx -> Ramps] /\ ramp[t] \in Ramps
  BY DEF TypeOK, Ramps
<1>1. CASE RampTimer(t)
  <2>1. [ramp EXCEPT ![t] = power_ramp_timer_cb(@)] \in [Trx -> Ramps]
    BY <1>0, TimerKeeps
  <2> QED
    BY <1>1, <2>1 DEF RampTimer, TypeOK, Ramps
<1>2. CASE PhyOpens(t)
  BY <1>2 DEF PhyOpens, TypeOK
<1>3. CASE PhyComesUp(t)
  <2>1. PICK p \in TxLevels : ramp' = [ramp EXCEPT ![t] = power_ramp_start(@, p, "none", FALSE)]
    BY <1>3 DEF PhyComesUp
  <2>2. power_ramp_start(ramp[t], p, "none", FALSE) \in Ramps
    BY <1>0, StartKeeps, ShutdownAssumption
  <2>3. ramp' \in [Trx -> Ramps]
    BY <1>0, <2>1, <2>2
  <2> QED
    BY <1>3, <2>3 DEF PhyComesUp, TypeOK, Ramps
<1>4. CASE CarrierDown(t)
  BY <1>4 DEF CarrierDown, TypeOK
<1> QED
  BY <1>1, <1>2, <1>3, <1>4

-----------------------------------------------------------------------------
(* The specification.                                                      *)

\* The initial states have the types.
LEMMA TypeInit == Init => TypeOK
<1> SUFFICES ASSUME Init PROVE TypeOK
  OBVIOUS
<1>1. \A p \in TxLevels : AtRest(p) \in Ramps
  BY ShutdownAssumption DEF AtRest, Ramps, RampState
<1>2. ramp \in [Trx -> Ramps]
  BY <1>1 DEF Init
<1>3. op \in [Trx -> BOOLEAN]
  BY DEF Init
<1>4. phy \in [Trx -> {"closed", "opening", "up", "closing"}]
  BY DEF Init
<1>5. starts \in 0 .. MaxStarts
  BY ShutdownAssumption DEF Init
<1> QED
  BY <1>2, <1>3, <1>4, <1>5 DEF Init, TypeOK, States, Ramps

\* What a step does to the process and its shutdown.
Progress ==
    \/ \E toExit \in BOOLEAN :
          /\ ~exited
          /\ exitProc' = (toExit \/ (st # "NONE" /\ exitProc))
          /\ \/ st' # "NONE" /\ ~exited'
             \/ st = "NONE" /\ st' = "NONE" /\ exited' = toExit
    \/ ~exited /\ Proceeds
    \/ UNCHANGED <<st, exitProc, exited>>

\* When closing begins.
RampedDown ==
    st = "WAIT_RAMP_DOWN_COMPL" /\ st' # st
      => bts_shutdown_fsm_timer_cb \/ \A t \in Trx : op[t] => ramp[t].cur <= RampTgt

\* Every step keeps the types, proceeds with the shutdown or asks for one, and begins to
\* close as it should.
LEMMA ShutdownStep ==
    ASSUME TypeOK, [Next]_vars
    PROVE  TypeOK' /\ Progress /\ RampedDown
<1>1. CASE UNCHANGED vars
  BY <1>1 DEF vars, TypeOK, Progress, RampedDown
<1>2. CASE signal_handler
  <2>1. ~exited /\ quit' \in BOOLEAN /\ bts_shutdown_ext(TRUE, FALSE)
    BY <1>2 DEF signal_handler
  <2> QED
    BY <2>1, ExtStep DEF Progress, RampedDown
<1>3. CASE bts_shutdown
  <2>1. ~exited /\ quit' \in BOOLEAN /\ bts_shutdown_ext(TRUE, TRUE)
    BY <1>3 DEF bts_shutdown, TypeOK
  <2> QED
    BY <2>1, ExtStep DEF Progress, RampedDown
<1>4. CASE bts_model_abis_close
  <2>1. ~exited /\ quit' \in BOOLEAN /\ bts_shutdown_ext(FALSE, TRUE)
    BY <1>4 DEF bts_model_abis_close, TypeOK
  <2> QED
    BY <2>1, ExtStep DEF Progress, RampedDown
<1>5. CASE bts_shutdown_fsm_timer_cb
  BY <1>5, TimerStep DEF Progress, RampedDown, bts_shutdown_fsm_timer_cb
<1>6. ASSUME NEW t \in Trx, PowerChanged(t) PROVE TypeOK' /\ Progress /\ RampedDown
  BY <1>6, ChangedStep DEF Progress, RampedDown, PowerChanged
<1>7. ASSUME NEW t \in Trx, bts_model_trx_close_cb(t) PROVE TypeOK' /\ Progress /\ RampedDown
  BY <1>7, CloseCbStep DEF Progress, RampedDown, bts_model_trx_close_cb
<1>8. ASSUME NEW t \in Trx, RampTimer(t) \/ PhyOpens(t) \/ PhyComesUp(t) \/ CarrierDown(t)
      PROVE  TypeOK' /\ Progress /\ RampedDown
  BY <1>8, OtherStep DEF Progress, RampedDown
<1> QED
  BY <1>1, <1>2, <1>3, <1>4, <1>5, <1>6, <1>7, <1>8 DEF Next

\* The types of the shutdown's state, for any number of TRXs, any powers, steps and any
\* number of shutdowns: the loop over the TRXs never leaves the FSM in EXIT.
THEOREM ShutdownType == Spec => []TypeOK
<1>1. TypeOK /\ [Next]_vars => TypeOK'
  BY ShutdownStep
<1> QED
  BY TypeInit, <1>1, PTL DEF Spec

\* Unless T-1 forces it, closing begins only when every operational TRX is down to the
\* compared level (st_wait_ramp_down_compl() of bts_shutdown_fsm.c).
THEOREM ShutdownClosesRampedDown == Spec => ClosesOnlyRampedDown
<1>1. TypeOK /\ [Next]_vars => [RampedDown]_vars
  BY ShutdownStep
<1> QED
  BY ShutdownType, <1>1, PTL DEF Spec, ClosesOnlyRampedDown, RampedDown

\* The FSM with all its TRXs, ramps and timers is the shutdown that the rest of the BTS
\* relies on: overlapping requests are merged, none to end the process is lost or made up.
THEOREM ShutdownRefines == Spec => Abstract!Spec
<1>1. Init => Abstract!Init
  BY DEF Init, Abstract!Init
<1>2. TypeOK /\ [Next]_vars => [Abstract!Next]_Abstract!vars
  <2> SUFFICES ASSUME TypeOK, [Next]_vars PROVE [Abstract!Next]_Abstract!vars
    OBVIOUS
  <2>0. exited \in BOOLEAN /\ exited' \in BOOLEAN /\ exitProc \in BOOLEAN /\ exitProc' \in BOOLEAN
    BY ShutdownStep DEF TypeOK
  <2>1. CASE UNCHANGED <<st, exitProc, exited>>
    BY <2>1 DEF Abstract!vars
  <2>2. CASE ~exited /\ Proceeds
    BY <2>0, <2>2 DEF Proceeds, Closes, Abstract!Next, Abstract!End, Abstract!vars
  <2>3. ASSUME NEW toExit \in BOOLEAN, ~exited,
               exitProc' = (toExit \/ (st # "NONE" /\ exitProc)),
               \/ st' # "NONE" /\ ~exited'
               \/ st = "NONE" /\ st' = "NONE" /\ exited' = toExit
        PROVE  Abstract!Next
    <3>1. Abstract!Ask(toExit)
      BY <2>0, <2>3 DEF Abstract!Ask
    <3> QED
      BY <3>1 DEF Abstract!Next
  <2> QED
    BY <2>1, <2>2, <2>3, ShutdownStep DEF Progress
<1> QED
  BY ShutdownType, <1>1, <1>2, PTL DEF Spec, Abstract!Spec
=============================================================================
