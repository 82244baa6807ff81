---------------------------- MODULE NmTree_proofs ----------------------------
(***************************************************************************)
(* Proofs about NmTree for all sets of TRXs and timeslots and for every    *)
(* setting of its flags.  A handler maps the objects of one TRX to the     *)
(* next; the lemmas of the first part say what each handler preserves of   *)
(* them, the second part lifts this to the steps of the specification.     *)
(***************************************************************************)
EXTENDS NmTree, TLAPS

\* The properties of the objects T of one TRX.
Awake(T) == \A n \in Tn : T.ch[n].st = "DEPENDENCY" => ~ts_can_be_enabled(T.model, T.bb, T.rc)
Parents(T) ==
    \A n \in Tn : T.ch[n].st \in {"OFFLINE", "ENABLED"} /\ n \notin T.ahead =>
                     ts_can_be_enabled(T.model, T.bb, T.rc)
Together(T) ==
    \A n \in Tn : /\ T.rc.st = "NOTINSTALLED" <=> T.bb.st = "NOTINSTALLED"
                  /\ T.bb.st = "NOTINSTALLED" <=> T.ch[n].st = "NOTINSTALLED"
Started(T) == T.rc.st = "ENABLED" => T.rc.attr = TRUE /\ T.rc.op = TRUE

TrxInv(T) == T \in TrxMo /\ Awake(T) /\ Parents(T) /\ Together(T) /\ Started(T)

-----------------------------------------------------------------------------
(* Entering a state.                                                       *)

\* Entering a state of a parent object yields such an object.
LEMMA EnterTypes ==
    ASSUME NEW m \in Mo(ParentStates)
    PROVE  /\ NotInstalled \in Mo(ParentStates)
           /\ Offline(m) \in Mo(ParentStates)
           /\ Enabled(m) \in Mo(ParentStates)
           /\ Announce(m) \in Mo(ParentStates)
           /\ Announce(m).st = m.st /\ Announce(m).attr = m.attr /\ Announce(m).op = m.op
  BY DEF Mo, ParentStates, NotInstalled, Offline, Enabled, Announce

\* ... and so for a timeslot.
LEMMA ChEnterTypes ==
    ASSUME NEW c \in Mo(ChanStates)
    PROVE  /\ NotInstalled \in Mo(ChanStates)
           /\ ChDependency(c) \in Mo(ChanStates)
           /\ ChOffline(c) \in Mo(ChanStates)
           /\ Announce(c) \in Mo(ChanStates)
           /\ Announce(c).st = c.st
           /\ Enabled([c EXCEPT !.op = TRUE]) \in Mo(ChanStates)
  BY DEF Mo, ChanStates, ParentStates, NotInstalled, Enabled, ChDependency, ChOffline,
         Announce

\* RcCheck() wakes the timeslots of the carrier that it enables.
LEMMA RcCheckInv ==
    ASSUME NEW T, TrxInv(T), NEW up \in BOOLEAN
    PROVE  /\ TrxInv(RcCheck(T, up))
           /\ RcCheck(T, up).rc.st = "ENABLED" => T.rc.st = "ENABLED" \/ up
  <1>1. CASE ~(T.rc.st = "OFFLINE" /\ up /\ T.rc.attr /\ T.rc.op)
    BY <1>1 DEF RcCheck
  <1>2. CASE T.rc.st = "OFFLINE" /\ up /\ T.rc.attr /\ T.rc.op
    <2> DEFINE ch == ChParentEnabled(T.ch, T.model, T.bb, Enabled(T.rc))
               U == [T EXCEPT !.rc = Enabled(T.rc), !.ch = ch]
    <2>1. RcCheck(T, up) = U
      BY <1>2 DEF RcCheck
    <2>2. /\ T.rc \in Mo(ParentStates) /\ T.bb \in Mo(ParentStates)
          /\ T.ch \in [Tn -> Mo(ChanStates)]
      BY DEF TrxInv, TrxMo
    <2>3. Enabled(T.rc) \in Mo(ParentStates)
      BY <2>2, EnterTypes
    <2>4. ch \in [Tn -> Mo(ChanStates)]
      BY <2>2, ChEnterTypes DEF ChParentEnabled
    <2>3a. /\ U.rc = Enabled(T.rc) /\ U.bb = T.bb /\ U.ch = ch
          /\ U.model = T.model /\ U.ahead = T.ahead
      BY DEF TrxInv, TrxMo
    <2>5. U \in TrxMo
      BY <2>2, <2>3, <2>4 DEF TrxMo, TrxInv
    <2> HIDE DEF U
    <2>6. Awake(U)
      BY <2>3a DEF Awake, ChParentEnabled, ChOffline
    <2>7. Together(U)
      BY <1>2, <2>3a, <2>2 DEF Together, TrxInv, ChParentEnabled, ChOffline, Enabled
    <2>8. Started(U)
      BY <1>2, <2>3a, <2>2 DEF Started, Enabled, Mo
    <2>9. Parents(U)
      BY <1>2, <2>2, <2>3a
      DEF TrxInv, Parents, ChParentEnabled, ChOffline, ts_can_be_enabled, Enabled
    <2> QED
      BY <1>2, <2>1, <2>3a, <2>5, <2>6, <2>7, <2>8, <2>9 DEF TrxInv
  <1> QED
    BY <1>1, <1>2

\* BbCheck() likewise for the baseband transceiver; the carrier stays as it is.
LEMMA BbCheckInv ==
    ASSUME NEW T, TrxInv(T), NEW up \in BOOLEAN
    PROVE  /\ TrxInv(BbCheck(T, up))
           /\ BbCheck(T, up).rc = T.rc
  <1>1. CASE ~(T.bb.st = "OFFLINE" /\ up /\ T.bb.op)
    BY <1>1 DEF BbCheck
  <1>2. CASE T.bb.st = "OFFLINE" /\ up /\ T.bb.op
    <2> DEFINE ch == ChParentEnabled(T.ch, T.model, Enabled(T.bb), T.rc)
               U == [T EXCEPT !.bb = Enabled(T.bb), !.ch = ch]
    <2>1. BbCheck(T, up) = U
      BY <1>2 DEF BbCheck
    <2>2. /\ T.rc \in Mo(ParentStates) /\ T.bb \in Mo(ParentStates)
          /\ T.ch \in [Tn -> Mo(ChanStates)]
      BY DEF TrxInv, TrxMo
    <2>3. Enabled(T.bb) \in Mo(ParentStates)
      BY <2>2, EnterTypes
    <2>4. ch \in [Tn -> Mo(ChanStates)]
      BY <2>2, ChEnterTypes DEF ChParentEnabled
    <2>3a. /\ U.rc = T.rc /\ U.bb = Enabled(T.bb) /\ U.ch = ch
          /\ U.model = T.model /\ U.ahead = T.ahead
      BY DEF TrxInv, TrxMo
    <2>5. U \in TrxMo
      BY <2>2, <2>3, <2>4 DEF TrxMo, TrxInv
    <2> HIDE DEF U
    <2>6. Awake(U)
      BY <2>3a DEF Awake, ChParentEnabled, ChOffline
    <2>7. Together(U)
      BY <1>2, <2>3a, <2>2 DEF Together, TrxInv, ChParentEnabled, ChOffline, Enabled
    <2>8. Started(U)
      BY <2>3a DEF Started, TrxInv
    <2>9. Parents(U)
      BY <1>2, <2>2, <2>3a
      DEF TrxInv, Parents, ChParentEnabled, ChOffline, ts_can_be_enabled, Enabled
    <2> QED
      BY <2>1, <2>3a, <2>5, <2>6, <2>7, <2>8, <2>9 DEF TrxInv
  <1> QED
    BY <1>1, <1>2

\* Disabling a carrier sends the timeslots that need it back to Dependency, and leaves
\* no enabled carrier.
LEMMA RcDisableInv ==
    ASSUME NEW T, TrxInv(T)
    PROVE  /\ TrxInv(RcDisable(T))
           /\ RcDisable(T).rc.st # "ENABLED"
  <1>1. CASE T.rc.st # "ENABLED"
    BY <1>1 DEF RcDisable
  <1>2. CASE T.rc.st = "ENABLED"
    <2> DEFINE ch == ChParentDisabled(T.ch, T.model, T.bb, Offline(T.rc))
               U == [T EXCEPT !.rc = Offline(T.rc), !.ch = ch]
    <2>1. RcDisable(T) = U
      BY <1>2 DEF RcDisable
    <2>2. /\ T.rc \in Mo(ParentStates) /\ T.bb \in Mo(ParentStates)
          /\ T.ch \in [Tn -> Mo(ChanStates)]
      BY DEF TrxInv, TrxMo
    <2>3. Offline(T.rc) \in Mo(ParentStates)
      BY <2>2, EnterTypes
    <2>4. ch \in [Tn -> Mo(ChanStates)]
      BY <2>2, ChEnterTypes DEF ChParentDisabled
    <2>3a. /\ U.rc = Offline(T.rc) /\ U.bb = T.bb /\ U.ch = ch
          /\ U.model = T.model /\ U.ahead = T.ahead
      BY DEF TrxInv, TrxMo
    <2>5. U \in TrxMo
      BY <2>2, <2>3, <2>4 DEF TrxMo, TrxInv
    <2> HIDE DEF U
    <2>6. Awake(U)
      BY <1>2, <2>3a DEF TrxInv, Awake, ChParentDisabled, ChDependency, ts_can_be_enabled, Offline
    <2>7. Together(U)
      BY <1>2, <2>3a, <2>2 DEF Together, TrxInv, ChParentDisabled, ChDependency, Offline
    <2>8. Started(U) /\ U.rc.st # "ENABLED"
      BY <2>3a DEF Started, Offline
    <2>9. Parents(U)
      BY <2>3a DEF Parents, ChParentDisabled, ChDependency
    <2> QED
      BY <2>1, <2>3a, <2>5, <2>6, <2>7, <2>8, <2>9 DEF TrxInv
  <1> QED
    BY <1>1, <1>2

\* ... and so does disabling the baseband transceiver.
LEMMA BbDisableInv ==
    ASSUME NEW T, TrxInv(T)
    PROVE  /\ TrxInv(BbDisable(T))
           /\ BbDisable(T).rc = T.rc
  <1>1. CASE T.bb.st # "ENABLED"
    BY <1>1 DEF BbDisable
  <1>2. CASE T.bb.st = "ENABLED"
    <2> DEFINE ch == ChParentDisabled(T.ch, T.model, Offline(T.bb), T.rc)
               U == [T EXCEPT !.bb = Offline(T.bb), !.ch = ch]
    <2>1. BbDisable(T) = U
      BY <1>2 DEF BbDisable
    <2>2. /\ T.rc \in Mo(ParentStates) /\ T.bb \in Mo(ParentStates)
          /\ T.ch \in [Tn -> Mo(ChanStates)]
      BY DEF TrxInv, TrxMo
    <2>3. Offline(T.bb) \in Mo(ParentStates)
      BY <2>2, EnterTypes
    <2>4. ch \in [Tn -> Mo(ChanStates)]
      BY <2>2, ChEnterTypes DEF ChParentDisabled
    <2>3a. /\ U.rc = T.rc /\ U.bb = Offline(T.bb) /\ U.ch = ch
          /\ U.model = T.model /\ U.ahead = T.ahead
      BY DEF TrxInv, TrxMo
    <2>5. U \in TrxMo
      BY <2>2, <2>3, <2>4 DEF TrxMo, TrxInv
    <2> HIDE DEF U
    <2>6. Awake(U)
      BY <2>3a DEF Awake, ts_can_be_enabled, Offline
    <2>7. Together(U)
      BY <1>2, <2>3a, <2>2 DEF Together, TrxInv, ChParentDisabled, ChDependency, Offline
    <2>8. Started(U)
      BY <2>3a DEF Started, TrxInv
    <2>9. Parents(U)
      BY <2>3a DEF Parents, ChParentDisabled, ChDependency
    <2> QED
      BY <2>1, <2>3a, <2>5, <2>6, <2>7, <2>8, <2>9 DEF TrxInv
  <1> QED
    BY <1>1, <1>2

\* DISABLE or PHYLINK_DOWN to both.
LEMMA DisableInv ==
    ASSUME NEW T, TrxInv(T)
    PROVE  /\ TrxInv(Disable(T))
           /\ Disable(T).rc.st # "ENABLED"
  BY RcDisableInv, BbDisableInv DEF Disable

\* SW_ACT takes the objects of a TRX that is not installed to Offline and Dependency.
LEMMA SwActInv ==
    ASSUME NEW T, TrxInv(T)
    PROVE  /\ TrxInv(SwAct(T))
           /\ SwAct(T).rc.st = "ENABLED" => T.rc.st = "ENABLED"
  <1> DEFINE r == IF T.rc.st = "NOTINSTALLED" THEN Offline(T.rc) ELSE T.rc
             b == IF T.bb.st = "NOTINSTALLED" THEN Offline(T.bb) ELSE T.bb
             ch == IF T.bb.st = "NOTINSTALLED" THEN ChSwAct(T.ch, T.model, b, r) ELSE T.ch
             U == [T EXCEPT !.rc = r, !.bb = b, !.ch = ch]
  <1>1. SwAct(T) = U
    BY DEF SwAct
  <1>2. /\ T.rc \in Mo(ParentStates) /\ T.bb \in Mo(ParentStates)
        /\ T.ch \in [Tn -> Mo(ChanStates)]
    BY DEF TrxInv, TrxMo
  <1>3. r \in Mo(ParentStates) /\ b \in Mo(ParentStates)
    BY <1>2, EnterTypes
  <1>4. ch \in [Tn -> Mo(ChanStates)]
    BY <1>2, ChEnterTypes DEF ChSwAct
  <1>3a. /\ U.rc = r /\ U.bb = b /\ U.ch = ch
        /\ U.model = T.model /\ U.ahead = T.ahead
    BY DEF TrxInv, TrxMo
  <1>5. U \in TrxMo
    BY <1>3, <1>4 DEF TrxMo, TrxInv
  <1> HIDE DEF U
  <1>6. Awake(U)
    <2>1. CASE T.bb.st = "NOTINSTALLED"
      BY <1>3a, <2>1 DEF Awake, ts_can_be_enabled, Offline
    <2>2. CASE T.bb.st # "NOTINSTALLED"
      BY <1>3a, <2>2 DEF TrxInv, Awake, ts_can_be_enabled, Offline
    <2> QED
      BY <2>1, <2>2
  <1>7. Together(U)
    BY <1>2, <1>3a DEF TrxInv, Together, ChSwAct, ChOffline, ChDependency, Offline
  <1>8. Started(U)
    BY <1>3a DEF TrxInv, Started, Offline
  <1>9. Parents(U)
    BY <1>3a DEF TrxInv, Together, Parents, ChSwAct, ChOffline, ChDependency, ts_can_be_enabled,
           Offline
  <1> QED
    BY <1>1, <1>3a, <1>5, <1>6, <1>7, <1>8, <1>9 DEF TrxInv, Offline

\* SHUTDOWN_START only marks the objects; SHUTDOWN_FINISH removes them all.
LEMMA ShutdownInv ==
    ASSUME NEW T
    PROVE  /\ TrxInv(T) => /\ TrxInv(StartShutdown(T))
                           /\ StartShutdown(T).rc.st = T.rc.st
           /\ \A m \in Models : TrxInv(Removed(m)) /\ Removed(m).rc.st # "ENABLED"
           /\ FinishShutdown(T) = Removed(T.model)
           /\ TrxInv(T) => T.model \in Models
  <1>1. \A m \in Models : TrxInv(Removed(m))
    BY DEF Removed, NotInstalled, TrxInv, TrxMo, Mo, ParentStates, ChanStates, Awake,
           Parents, Together, Started
  <1>2. /\ \A m \in Models : Removed(m).rc.st # "ENABLED"
        /\ FinishShutdown(T) = Removed(T.model)
        /\ TrxInv(T) => T.model \in Models
    BY DEF Removed, NotInstalled, FinishShutdown, TrxInv, TrxMo
  <1>3. ASSUME TrxInv(T)
        PROVE  /\ TrxInv(StartShutdown(T))
               /\ StartShutdown(T).rc.st = T.rc.st
    <2> DEFINE U == [T EXCEPT !.rc = Announce(T.rc), !.bb = Announce(T.bb),
                              !.ch = [n \in Tn |-> Announce(T.ch[n])]]
    <2>1. StartShutdown(T) = U
      BY DEF StartShutdown
    <2>2. /\ T.rc \in Mo(ParentStates) /\ T.bb \in Mo(ParentStates)
          /\ \A n \in Tn : T.ch[n] \in Mo(ChanStates)
      BY <1>3 DEF TrxInv, TrxMo
    <2>2a. /\ U.rc = Announce(T.rc) /\ U.bb = Announce(T.bb)
           /\ U.ch = [n \in Tn |-> Announce(T.ch[n])]
           /\ U.model = T.model /\ U.ahead = T.ahead
      BY <1>3 DEF TrxInv, TrxMo
    <2>3. /\ U.rc \in Mo(ParentStates) /\ U.rc.st = T.rc.st
          /\ U.rc.attr = T.rc.attr /\ U.rc.op = T.rc.op
          /\ U.bb \in Mo(ParentStates) /\ U.bb.st = T.bb.st
      BY <2>2, <2>2a, EnterTypes
    <2>4. \A n \in Tn : U.ch[n] \in Mo(ChanStates) /\ U.ch[n].st = T.ch[n].st
      <3> SUFFICES ASSUME NEW n \in Tn PROVE U.ch[n] \in Mo(ChanStates) /\ U.ch[n].st = T.ch[n].st
        OBVIOUS
      <3>1. U.ch[n] = Announce(T.ch[n])
        BY <2>2a
      <3> QED
        BY <2>2, <3>1, ChEnterTypes
    <2>5. U \in TrxMo
      BY <1>3, <2>2, EnterTypes, ChEnterTypes DEF TrxMo, TrxInv
    <2> HIDE DEF U
    <2>6. Awake(U) /\ Parents(U) /\ Together(U) /\ Started(U)
      BY <1>3, <2>2a, <2>3, <2>4
      DEF TrxInv, Awake, Together, Started, Parents, ts_can_be_enabled
    <2> QED
      BY <2>1, <2>3, <2>5, <2>6 DEF TrxInv
  <1> QED
    BY <1>1, <1>2, <1>3

\* SetAttr and Opstart answers: attributes and success flags of an object that is not in
\* service.
LEMMA FlagsInv ==
    ASSUME NEW T, TrxInv(T), NEW ok \in BOOLEAN
    PROVE  /\ T.rc.st = "OFFLINE" =>
                /\ TrxInv([T EXCEPT !.rc.attr = ok])
                /\ [T EXCEPT !.rc.attr = ok].rc.st = "OFFLINE"
                /\ TrxInv([T EXCEPT !.rc.op = ok])
                /\ [T EXCEPT !.rc.op = ok].rc.st = "OFFLINE"
           /\ TrxInv([T EXCEPT !.bb.attr = ok])
           /\ [T EXCEPT !.bb.attr = ok].rc = T.rc
           /\ TrxInv([T EXCEPT !.bb.op = ok])
           /\ [T EXCEPT !.bb.op = ok].rc = T.rc
  <1>1. T \in TrxMo
    BY DEF TrxInv
  <1>2. ASSUME T.rc.st = "OFFLINE"
        PROVE  /\ TrxInv([T EXCEPT !.rc.attr = ok])
               /\ [T EXCEPT !.rc.attr = ok].rc.st = "OFFLINE"
    BY <1>1, <1>2
    DEF TrxInv, TrxMo, Mo, Awake, Together, Started, Parents, ts_can_be_enabled
  <1>3. ASSUME T.rc.st = "OFFLINE"
        PROVE  /\ TrxInv([T EXCEPT !.rc.op = ok])
               /\ [T EXCEPT !.rc.op = ok].rc.st = "OFFLINE"
    BY <1>1, <1>3
    DEF TrxInv, TrxMo, Mo, Awake, Together, Started, Parents, ts_can_be_enabled
  <1>4. /\ TrxInv([T EXCEPT !.bb.attr = ok])
        /\ [T EXCEPT !.bb.attr = ok].rc = T.rc
    BY <1>1
    DEF TrxInv, TrxMo, Mo, Awake, Together, Started, Parents, ts_can_be_enabled
  <1>5. /\ TrxInv([T EXCEPT !.bb.op = ok])
        /\ [T EXCEPT !.bb.op = ok].rc = T.rc
    BY <1>1
    DEF TrxInv, TrxMo, Mo, Awake, Together, Started, Parents, ts_can_be_enabled
  <1> QED
    BY <1>2, <1>3, <1>4, <1>5

\* A flag of a timeslot.
LEMMA ChFlagsInv ==
    ASSUME NEW T, TrxInv(T), NEW n \in Tn, NEW ok \in BOOLEAN
    PROVE  /\ TrxInv([T EXCEPT !.ch[n].attr = ok])
           /\ [T EXCEPT !.ch[n].attr = ok].rc = T.rc
           /\ TrxInv(ChNack(T, n))
           /\ ChNack(T, n).rc = T.rc
  <1>1. T \in TrxMo
    BY DEF TrxInv
  <1>2. /\ TrxInv([T EXCEPT !.ch[n].attr = ok])
        /\ [T EXCEPT !.ch[n].attr = ok].rc = T.rc
    BY <1>1 DEF TrxInv, TrxMo, Mo, Awake, Together, Started, Parents, ts_can_be_enabled
  <1>3. /\ TrxInv(ChNack(T, n))
        /\ ChNack(T, n).rc = T.rc
    BY <1>1
    DEF ChNack, TrxInv, TrxMo, Mo, Awake, Together, Started, Parents, ts_can_be_enabled
  <1> QED
    BY <1>2, <1>3

\* OPSTART_ACK puts a timeslot into service, which is noted when its parents are not.
LEMMA ChAckInv ==
    ASSUME NEW T, TrxInv(T), NEW n \in Tn
    PROVE  /\ TrxInv(ChAck(T, n))
           /\ ChAck(T, n).rc = T.rc
  <1>1. T \in TrxMo /\ T.ch[n] \in Mo(ChanStates)
    BY DEF TrxInv, TrxMo
  <1> DEFINE c == Enabled([T.ch[n] EXCEPT !.op = TRUE])
             a == IF ts_can_be_enabled(T.model, T.bb, T.rc) THEN T.ahead ELSE T.ahead \cup {n}
             U == [T EXCEPT !.ch[n] = c, !.ahead = a]
  <1>2. c \in Mo(ChanStates) /\ c.st = "ENABLED"
    BY <1>1, ChEnterTypes DEF Enabled
  <1>3. ChAck(T, n) = IF T.ch[n].st \in {"DEPENDENCY", "OFFLINE"}
                      THEN U ELSE T
    BY DEF ChAck
  <1>3a. a \in SUBSET Tn /\ (n \notin a => ts_can_be_enabled(T.model, T.bb, T.rc))
         /\ T.ahead \subseteq a
    BY <1>1 DEF TrxMo
  <1> HIDE DEF c, a
  <1>4. CASE T.ch[n].st \in {"DEPENDENCY", "OFFLINE"}
    <2>1. U \in TrxMo
      BY <1>1, <1>2, <1>3a DEF TrxMo
    <2>2. /\ U.rc = T.rc /\ U.bb = T.bb /\ U.ch = [T.ch EXCEPT ![n] = c]
          /\ U.model = T.model /\ U.ahead = a
      BY <1>1 DEF TrxMo
    <2>3. T.ch \in [Tn -> Mo(ChanStates)]
      BY <1>1 DEF TrxMo
    <2> HIDE DEF U
    <2> QED
      BY <1>2, <1>3, <1>3a, <1>4, <2>1, <2>2, <2>3
      DEF TrxInv, Awake, Together, Started, Parents
  <1> QED
    BY <1>3, <1>4

\* The answers to the Opstart of a carrier.
LEMMA RcAnswerInv ==
    ASSUME NEW T, TrxInv(T), NEW up \in BOOLEAN
    PROVE  /\ TrxInv(RcAck(T, up))
           /\ RcAck(T, up).rc.st = "ENABLED" => T.rc.st = "ENABLED" \/ up
           /\ TrxInv(RcNack(T))
           /\ RcNack(T).rc.st = "ENABLED" => T.rc.st = "ENABLED"
  <1>1. /\ TrxInv(RcNack(T))
        /\ RcNack(T).rc.st = "ENABLED" => T.rc.st = "ENABLED"
    BY FlagsInv DEF RcNack
  <1>2. CASE T.rc.st # "OFFLINE"
    BY <1>1, <1>2 DEF RcAck
  <1>3. CASE T.rc.st = "OFFLINE"
    <2> DEFINE U == [T EXCEPT !.rc.op = TRUE]
    <2>1. TrxInv(U) /\ U.rc.st = "OFFLINE"
      BY <1>3, FlagsInv
    <2>2. RcAck(T, up) = RcCheck(U, up)
      BY <1>3 DEF RcAck
    <2> HIDE DEF U
    <2> QED
      BY <1>1, <2>1, <2>2, RcCheckInv
  <1> QED
    BY <1>2, <1>3
-----------------------------------------------------------------------------
(* The steps of the specification.                                         *)

\* What the initial objects of a TRX, and each step, must keep: the types, the invariant
\* of each TRX, and the links of each carrier in service.
Linked(t) == link = "CONNECTED" /\ (rsl[t] = "up" \/ shutdown # "none")

Inv ==
    /\ TypeOK
    /\ \A t \in Trx : TrxInv(trx[t])
    /\ \A t \in Trx : trx[t].rc.st = "ENABLED" => Linked(t)

\* The invariant implies the properties.
LEMMA InvImplies ==
    Inv => /\ TypeOK /\ ChannelHasParents /\ NoMissedWakeup /\ CarrierReady
           /\ InstalledTogether
  BY DEF Inv, TrxInv, Awake, Parents, Together, Started, Linked, ChannelHasParents,
         NoMissedWakeup, CarrierReady, InstalledTogether

\* The objects of all TRXs, each of which fulfils its invariant.
LEMMA TrxType ==
    ASSUME NEW f, f = [t \in Trx |-> f[t]], \A t \in Trx : TrxInv(f[t])
    PROVE  f \in [Trx -> TrxMo]
  BY DEF TrxInv

\* The process starts with the TRXs installed and out of service.
LEMMA InvInit == Init => Inv
  <1> SUFFICES ASSUME Init PROVE Inv
    OBVIOUS
  <1>1. PICK m \in Models : trx = [t \in Trx |-> SwAct(Removed(m))]
    BY DEF Init
  <1>1a. TrxInv(SwAct(Removed(m))) /\ SwAct(Removed(m)).rc.st # "ENABLED"
    BY ShutdownInv, SwActInv
  <1>2. \A t \in Trx : TrxInv(trx[t]) /\ trx[t].rc.st # "ENABLED"
    BY <1>1, <1>1a
  <1>3. trx \in [Trx -> TrxMo]
    BY <1>1, <1>1a DEF TrxInv
  <1>4. TypeOK
    BY <1>3 DEF Init, TypeOK, NotInstalled, Mo, ParentStates
  <1> QED
    BY <1>2, <1>4 DEF Inv

\* A step that changes the objects of one TRX t0 to U: it keeps the invariant if U does
\* and an enabled carrier of U was enabled before or is linked.
LEMMA OneTrxStep ==
    ASSUME Inv, NEW t0 \in Trx, NEW U,
           trx' = [trx EXCEPT ![t0] = U],
           TrxInv(U),
           U.rc.st = "ENABLED" => trx[t0].rc.st = "ENABLED" \/ Linked(t0)',
           \A t \in Trx : Linked(t) => Linked(t)'
    PROVE  /\ trx' \in [Trx -> TrxMo]
           /\ \A t \in Trx : TrxInv(trx'[t])
           /\ \A t \in Trx : trx'[t].rc.st = "ENABLED" => Linked(t)'
  <1>1. trx \in [Trx -> TrxMo] /\ U \in TrxMo
    BY DEF Inv, TypeOK, TrxInv
  <1>2. trx' \in [Trx -> TrxMo]
    BY <1>1
  <1>3. ASSUME NEW t \in Trx
        PROVE  TrxInv(trx'[t]) /\ (trx'[t].rc.st = "ENABLED" => Linked(t)')
    <2>1. CASE t = t0
      <3>1. trx'[t] = U
        BY <1>1, <2>1
      <3> QED
        BY <2>1, <3>1 DEF Inv
    <2>2. CASE t # t0
      <3>1. trx'[t] = trx[t]
        BY <1>1, <2>2
      <3> QED
        BY <3>1 DEF Inv
    <2> QED
      BY <2>1, <2>2
  <1> QED
    BY <1>2, <1>3

\* The steps that move the objects of all TRXs: links and shutdown.
LEMMA InvLinkSteps ==
    ASSUME Inv,
           \/ OmlUp \/ PhyUp \/ PhyDown
           \/ AbisLost \/ ShutdownStart \/ TrxClose \/ ShutdownFinish
    PROVE  Inv'
  <1>0. \A t \in Trx : TrxInv(trx[t]) /\ (trx[t].rc.st = "ENABLED" => Linked(t))
    BY DEF Inv
  <1>1. CASE OmlUp
    <2>1. sm' \in Mo(ParentStates) /\ bts' \in Mo(ParentStates)
      BY <1>1, EnterTypes DEF OmlUp, Inv, TypeOK
    <2>2. CASE UNCHANGED <<link, trx>>
      BY <1>0, <1>1, <2>1, <2>2 DEF OmlUp, Inv, TypeOK, Linked
    <2>3. CASE link' = "CONNECTING" /\ trx' = [t \in Trx |-> SwAct(Disable(trx[t]))]
      <3>1. \A t \in Trx : TrxInv(trx'[t]) /\ trx'[t].rc.st # "ENABLED"
        BY <1>0, <2>3, DisableInv, SwActInv
      <3>2. trx' \in [Trx -> TrxMo]
        BY <2>3, <3>1, TrxType
      <3> QED
        BY <1>1, <2>1, <2>3, <3>1, <3>2 DEF OmlUp, Inv, TypeOK
    <2> QED
      BY <1>1, <2>2, <2>3 DEF OmlUp
  <1>2. CASE PhyUp
    <2> DEFINE up(t) == rsl[t] = "up"
               f == [t \in Trx |-> BbCheck(RcCheck(trx[t], up(t)), up(t))]
    <2>1. ASSUME NEW t \in Trx
          PROVE  TrxInv(f[t]) /\ (f[t].rc.st = "ENABLED" => trx[t].rc.st = "ENABLED" \/ up(t))
      <3>1. up(t) \in BOOLEAN
        OBVIOUS
      <3>2. /\ TrxInv(RcCheck(trx[t], up(t)))
            /\ RcCheck(trx[t], up(t)).rc.st = "ENABLED" => trx[t].rc.st = "ENABLED" \/ up(t)
        BY <1>0, <3>1, RcCheckInv
      <3> QED
        BY <3>1, <3>2, BbCheckInv
    <2>2. trx' = f
      BY <1>2 DEF PhyUp
    <2>3. trx' \in [Trx -> TrxMo]
      BY <2>1, <2>2, TrxType
    <2>4. \A t \in Trx : TrxInv(trx'[t]) /\ (trx'[t].rc.st = "ENABLED" => Linked(t)')
      BY <1>0, <1>2, <2>1, <2>2 DEF PhyUp, Linked
    <2> QED
      BY <1>2, <2>3, <2>4 DEF PhyUp, Inv, TypeOK
  <1>3. CASE PhyDown \/ TrxClose
    <2>1. trx' = [t \in Trx |-> Disable(trx[t])]
      BY <1>3 DEF PhyDown, TrxClose
    <2>2. \A t \in Trx : TrxInv(trx'[t]) /\ trx'[t].rc.st # "ENABLED"
      BY <1>0, <2>1, DisableInv
    <2>3. trx' \in [Trx -> TrxMo]
      BY <2>1, <2>2, TrxType
    <2> QED
      BY <1>3, <2>2, <2>3 DEF PhyDown, TrxClose, Inv, TypeOK
  <1>4. CASE ShutdownFinish
    <2>1. \A t \in Trx : TrxInv(trx'[t]) /\ trx'[t].rc.st # "ENABLED"
      BY <1>0, <1>4, ShutdownInv DEF ShutdownFinish
    <2>2. trx' \in [Trx -> TrxMo]
      BY <1>4, <2>1, TrxType DEF ShutdownFinish
    <2>3. sm' \in Mo(ParentStates) /\ bts' \in Mo(ParentStates)
      BY <1>4, EnterTypes DEF ShutdownFinish, Inv, TypeOK
    <2> QED
      BY <1>4, <2>1, <2>2, <2>3 DEF ShutdownFinish, Inv, TypeOK
  <1>5. ASSUME StartsShutdown
        PROVE  /\ sm' \in Mo(ParentStates) /\ bts' \in Mo(ParentStates)
               /\ shutdown' = "ramping"
               /\ trx' \in [Trx -> TrxMo]
               /\ \A t \in Trx : TrxInv(trx'[t]) /\ trx'[t].rc.st = trx[t].rc.st
    <2>1. \A t \in Trx : TrxInv(trx'[t]) /\ trx'[t].rc.st = trx[t].rc.st
      BY <1>0, <1>5, ShutdownInv DEF StartsShutdown
    <2>2. trx' \in [Trx -> TrxMo]
      BY <1>5, <2>1, TrxType DEF StartsShutdown
    <2> QED
      BY <1>5, <2>1, <2>2, EnterTypes DEF StartsShutdown, Inv, TypeOK
  <1>6. CASE ShutdownStart
    BY <1>0, <1>5, <1>6 DEF ShutdownStart, Inv, TypeOK, Linked
  <1>7. CASE AbisLost
    <2>1. CASE StartsShutdown
      BY <1>0, <1>5, <1>7, <2>1 DEF AbisLost, Inv, TypeOK, Linked
    <2>2. CASE shutdown # "none" /\ UNCHANGED <<sm, bts, trx, shutdown>>
      BY <1>0, <1>7, <2>2 DEF AbisLost, Inv, TypeOK, Linked
    <2> QED
      BY <1>7, <2>1, <2>2 DEF AbisLost
  <1> QED
    BY <1>1, <1>2, <1>3, <1>4, <1>6, <1>7

\* The steps of the BSC on the objects above the TRXs.
LEMMA InvTopSteps ==
    ASSUME Inv, SetAttrTop \/ OpstartTop
    PROVE  Inv'
  <1>1. sm \in Mo(ParentStates) /\ bts \in Mo(ParentStates)
    BY DEF Inv, TypeOK
  <1>2. \A m \in Mo(ParentStates) : \A ok \in BOOLEAN :
            /\ [m EXCEPT !.attr = ok] \in Mo(ParentStates)
            /\ Enabled([m EXCEPT !.op = TRUE]) \in Mo(ParentStates)
    BY DEF Mo, ParentStates, Enabled
  <1>3. sm' \in Mo(ParentStates) /\ bts' \in Mo(ParentStates)
    <2>1. CASE SetAttrTop
      BY <1>1, <1>2, <2>1 DEF SetAttrTop
    <2>2. CASE OpstartTop
      BY <1>1, <1>2, <2>2 DEF OpstartTop
    <2> QED
      BY <2>1, <2>2
  <1>4. UNCHANGED <<trx, pend, link, rsl, oml, shutdown>>
    BY DEF SetAttrTop, OpstartTop
  <1> QED
    BY <1>3, <1>4 DEF Inv, TypeOK, Linked

\* The steps on one TRX: its RSL link comes up, the BSC configures and starts its
\* objects, layer 1 answers.
LEMMA InvTrxSteps ==
    ASSUME Inv, NEW t0 \in Trx,
           \/ RslUp(t0)
           \/ \E ok \in BOOLEAN : SetAttr(t0, ok)
           \/ OpstartRc(t0) \/ OpstartBb(t0)
           \/ \E n \in Tn : OpstartCh(t0, n)
           \/ \E p \in pend : p[1] = t0 /\ OpstartAnswer(p)
    PROVE  Inv'
  <1> DEFINE T == trx[t0]
             Target(U) == /\ trx' = [trx EXCEPT ![t0] = U]
                          /\ TrxInv(U)
                          /\ U.rc.st = "ENABLED" => T.rc.st = "ENABLED" \/ Linked(t0)'
  <1>1. TrxInv(T) /\ Ready(t0) \in BOOLEAN /\ (link = "CONNECTED") \in BOOLEAN
    BY DEF Inv, Ready
  <1>2. CASE RslUp(t0)
    <2> DEFINE up == link = "CONNECTED"
    <2>1. TrxInv(RcCheck(T, up)) /\ (RcCheck(T, up).rc.st = "ENABLED" => T.rc.st = "ENABLED" \/ up)
      BY <1>1, RcCheckInv
    <2>2. TrxInv(BbCheck(RcCheck(T, up), up)) /\ BbCheck(RcCheck(T, up), up).rc = RcCheck(T, up).rc
      BY <1>1, <2>1, BbCheckInv
    <2>3. up => Linked(t0)'
      BY <1>2 DEF RslUp, Linked, Inv, TypeOK
    <2>4. Target(BbCheck(RcCheck(T, up), up))
      BY <1>2, <2>1, <2>2, <2>3 DEF RslUp
    <2>5. \A t \in Trx : Linked(t) => Linked(t)'
      BY <1>2 DEF RslUp, Linked, Inv, TypeOK
    <2>6. /\ trx' \in [Trx -> TrxMo]
          /\ \A t \in Trx : TrxInv(trx'[t])
          /\ \A t \in Trx : trx'[t].rc.st = "ENABLED" => Linked(t)'
      BY <2>4, <2>5, OneTrxStep
    <2> QED
      BY <1>2, <2>6 DEF RslUp, Inv, TypeOK
  <1>3. CASE OpstartBb(t0)
    <2> DEFINE U == [T EXCEPT !.bb.op = TRUE]
    <2>1. TrxInv(U) /\ U.rc = T.rc
      BY <1>1, FlagsInv
    <2>2. TrxInv(BbCheck(U, Ready(t0))) /\ BbCheck(U, Ready(t0)).rc = T.rc
      BY <1>1, <2>1, BbCheckInv
    <2>3. Target(BbCheck(U, Ready(t0)))
      BY <1>3, <2>2 DEF OpstartBb
    <2>4. \A t \in Trx : Linked(t) => Linked(t)'
      BY <1>3 DEF OpstartBb, Linked, Inv, TypeOK
    <2>5. /\ trx' \in [Trx -> TrxMo]
          /\ \A t \in Trx : TrxInv(trx'[t])
          /\ \A t \in Trx : trx'[t].rc.st = "ENABLED" => Linked(t)'
      BY <2>3, <2>4, OneTrxStep
    <2>6. rsl' \in [Trx -> {"none", "connecting", "up"}]
      BY <1>3 DEF OpstartBb, Inv, TypeOK
    <2> QED
      BY <1>3, <2>5, <2>6 DEF OpstartBb, Inv, TypeOK
  <1>4. ASSUME UNCHANGED <<sm, bts, link, rsl, oml, shutdown>>,
               pend' \subseteq (Trx \X {"rc"}) \cup (Trx \X Tn),
               trx' = trx \/ \E U : Target(U)
        PROVE  Inv'
    <2>1. \A t \in Trx : Linked(t)' <=> Linked(t)
      BY <1>4 DEF Linked
    <2>2. CASE trx' = trx
      BY <1>4, <2>1, <2>2 DEF Inv, TypeOK
    <2>3. CASE \E U : Target(U)
      <3>1. /\ trx' \in [Trx -> TrxMo]
            /\ \A t \in Trx : TrxInv(trx'[t])
            /\ \A t \in Trx : trx'[t].rc.st = "ENABLED" => Linked(t)'
        BY <2>1, <2>3, OneTrxStep
      <3> QED
        BY <1>4, <3>1 DEF Inv, TypeOK
    <2> QED
      BY <1>4, <2>2, <2>3
  <1>5. UNCHANGED <<link, rsl, shutdown>> /\ Ready(t0) => Linked(t0)'
    BY DEF Ready, Linked
  <1>6. ASSUME NEW ok \in BOOLEAN, SetAttr(t0, ok)
        PROVE  Inv'
    <2>1. CASE T.rc.st = "OFFLINE" /\ trx' = [trx EXCEPT ![t0] = RcCheck([T EXCEPT !.rc.attr = ok], Ready(t0))]
      <3> DEFINE U == [T EXCEPT !.rc.attr = ok]
      <3>1. TrxInv(U) /\ U.rc.st = "OFFLINE"
        BY <1>1, <2>1, FlagsInv
      <3>2. TrxInv(RcCheck(U, Ready(t0))) /\ (RcCheck(U, Ready(t0)).rc.st = "ENABLED" => Ready(t0))
        BY <1>1, <3>1, RcCheckInv
      <3>3. Target(RcCheck(U, Ready(t0)))
        BY <1>5, <1>6, <2>1, <3>2 DEF SetAttr
      <3> QED
        BY <1>4, <1>6, <3>3 DEF SetAttr, Inv, TypeOK
    <2>2. CASE trx' = [trx EXCEPT ![t0] = [T EXCEPT !.bb.attr = ok]]
      <3>1. Target([T EXCEPT !.bb.attr = ok])
        BY <1>1, <2>2, FlagsInv
      <3> QED
        BY <1>4, <1>6, <3>1 DEF SetAttr, Inv, TypeOK
    <2>3. ASSUME NEW n \in Tn, trx' = [trx EXCEPT ![t0] = [T EXCEPT !.ch[n].attr = ok]]
          PROVE  Inv'
      <3>1. Target([T EXCEPT !.ch[n].attr = ok])
        BY <1>1, <2>3, ChFlagsInv
      <3> QED
        BY <1>4, <1>6, <3>1 DEF SetAttr, Inv, TypeOK
    <2> QED
      BY <1>6, <2>1, <2>2, <2>3 DEF SetAttr
  <1>7. ASSUME UNCHANGED <<link, rsl, shutdown>>,
               trx' = [trx EXCEPT ![t0] = RcAck(T, Ready(t0))]
        PROVE  Target(RcAck(T, Ready(t0)))
    BY <1>1, <1>5, <1>7, RcAnswerInv
  <1>8. ASSUME trx' = [trx EXCEPT ![t0] = RcNack(T)]
        PROVE  Target(RcNack(T))
    BY <1>1, <1>8, RcAnswerInv
  <1>9. ASSUME NEW n \in Tn, trx' = [trx EXCEPT ![t0] = ChAck(T, n)]
        PROVE  Target(ChAck(T, n))
    BY <1>1, <1>9, ChAckInv
  <1>10. ASSUME NEW n \in Tn, trx' = [trx EXCEPT ![t0] = ChNack(T, n)]
         PROVE  Target(ChNack(T, n))
    BY <1>1, <1>10, ChFlagsInv
  <1> HIDE DEF Target
  <1>11. pend \subseteq (Trx \X {"rc"}) \cup (Trx \X Tn)
    BY DEF Inv, TypeOK
  <1>12. CASE OpstartRc(t0)
    <2>1. pend' \subseteq (Trx \X {"rc"}) \cup (Trx \X Tn)
      BY <1>11, <1>12 DEF OpstartRc
    <2> QED
      BY <1>4, <1>7, <1>8, <1>12, <2>1 DEF OpstartRc
  <1>13. ASSUME NEW n \in Tn, OpstartCh(t0, n)
         PROVE  Inv'
    <2>1. pend' \subseteq (Trx \X {"rc"}) \cup (Trx \X Tn)
      BY <1>11, <1>13 DEF OpstartCh
    <2> QED
      BY <1>4, <1>9, <1>13, <2>1 DEF OpstartCh
  <1>14. ASSUME NEW p \in pend, p[1] = t0, OpstartAnswer(p)
         PROVE  Inv'
    <2>1. pend' \subseteq (Trx \X {"rc"}) \cup (Trx \X Tn)
      BY <1>11, <1>14 DEF OpstartAnswer
    <2> QED
      BY <1>4, <1>7, <1>8, <1>9, <1>10, <1>14, <2>1 DEF OpstartAnswer
  <1> QED
    BY <1>2, <1>3, <1>6, <1>12, <1>13, <1>14

\* The invariant is inductive.
LEMMA InvNext == Inv /\ [Next]_vars => Inv'
  <1> SUFFICES ASSUME Inv, [Next]_vars PROVE Inv'
    OBVIOUS
  <1>1. CASE UNCHANGED vars
    BY <1>1 DEF vars, Inv, TypeOK, Linked
  <1>2. ASSUME NEW p \in pend, OpstartAnswer(p)
        PROVE  Inv'
    <2>1. p[1] \in Trx
      BY DEF Inv, TypeOK
    <2> QED
      BY <1>2, <2>1, InvTrxSteps
  <1> QED
    BY <1>1, <1>2, InvLinkSteps, InvTopSteps, InvTrxSteps DEF Next
-----------------------------------------------------------------------------
(* The theorems.                                                           *)

\* The invariant holds in every reachable state.
LEMMA InvHolds == Spec => []Inv
  BY InvInit, InvNext, PTL DEF Spec

\* The handlers of the NM FSMs keep the type of their state.
THEOREM TypeCorrect == Spec => []TypeOK
  BY InvHolds, InvImplies, PTL

\* However the Opstarts of carrier and baseband transceiver, the RSL and the phy link
\* interleave, no timeslot is left waiting for parents that are already in service.
THEOREM NoMissedWakeupHolds == Spec => []NoMissedWakeup
  BY InvHolds, InvImplies, PTL

\* A carrier is in service only with its links up, configured and started.
THEOREM CarrierReadyHolds == Spec => []CarrierReady
  BY InvHolds, InvImplies, PTL

\* Carrier, baseband transceiver and timeslots of a TRX are installed and removed
\* together.
THEOREM InstalledTogetherHolds == Spec => []InstalledTogether
  BY InvHolds, InvImplies, PTL

\* A timeslot is offered or in service only while its parents are, unless it was put into
\* service ahead of them.
THEOREM ChannelHasParentsHolds == Spec => []ChannelHasParents
  BY InvHolds, InvImplies, PTL

\* The objects of a TRX (nm_*_fsm.c) are installed and removed together, and its carrier
\* is in service only when it is ready.
THEOREM ObjectsInvHolds == Spec => []ObjectsInv
  BY TypeCorrect, CarrierReadyHolds, InstalledTogetherHolds, PTL DEF ObjectsInv

\* Timeslots depend on their parents both ways (nm_channel_fsm.c): none in service without
\* them, none left waiting once they are there.
THEOREM DependenciesAlwaysHold == Spec => []DependenciesHold
  BY ChannelHasParentsHolds, NoMissedWakeupHolds, PTL DEF DependenciesHold

=============================================================================
