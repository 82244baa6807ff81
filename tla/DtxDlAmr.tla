------------------------------ MODULE DtxDlAmr ------------------------------
(***************************************************************************)
(* Discontinuous transmission on the downlink of an AMR traffic channel:   *)
(* the FSM of dtx_dl_amr_fsm.c, the functions of msg_utils.c that drive it *)
(* and the requests of osmo-bts-sysmo's l1_if.c and tch.c that it decides  *)
(* about (osmo-bts-lc15 and osmo-bts-oc2g have the same code).             *)
(*                                                                         *)
(* Layer 1 asks, block after block, first for signalling (PH-DATA) and     *)
(* then for traffic (PH-TCH); each request takes what LAPDm or the RTP     *)
(* stream has and puts one or two primitives into the write queue to the   *)
(* DSP, which may be full.  On TCH/H a FACCH message takes two blocks, so  *)
(* that every other traffic request has no signalling request before it.   *)
(* SACCH requests come in between, and the channel may be released and     *)
(* activated again, for AMR speech with DTX as before.                     *)
(*                                                                         *)
(* Time is counted in blocks: dtx.fn is the number of traffic requests     *)
(* since the frame it names, up to the longest time compared with (eight); *)
(* the frame number's return to zero after a hyperframe is left out.       *)
(***************************************************************************)
EXTENDS Naturals, Sequences

VARIABLES
  d,        \* lchan->tch.dtx and its FSM, see Dtx
  half,     \* TCH/H rather than TCH/F
  turn,     \* the request layer 1 makes next: "data", "tch", "tch2"
  last,     \* the last request: a signalling kind or an RTP frame
  sent,     \* the primitives it put into the write queue
  alive,    \* FALSE: recursing without end
  dirty,    \* a request found the queue full since the last traffic request
  quiet,    \* traffic requests of the silence since something was sent
  muted,    \* consecutive speech frames not sent
  resume    \* traffic requests since FACCH interrupted the silence

vars == <<d, half, turn, last, sent, alive, dirty, quiet, muted, resume>>

----------------------------------------------------------------------------
(* The FSM: what each state's handler does with the events it permits, and *)
(* the states osmo_fsm_inst_state_chg() accepts from it.  A change the     *)
(* handler asks for that out_state_mask does not allow is refused.         *)

Handler ==
  [VOICE |-> [VOICE |-> "VOICE", FACCH |-> "VOICE", SID_F |-> "SID_F1",
              SID_U |-> "U_NOINH", INHIB |-> "F1_INH_V"],
   SID_F1 |-> [SID_F |-> "SID_F1", SID_U |-> "U_NOINH", FACCH |-> "F1_INH_F",
               FIRST |-> "SID_F2", ONSET |-> "ONSET_V"],
   SID_F2 |-> [COMPL |-> "U_NOINH", FACCH |-> "ONSET_F", ONSET |-> "ONSET_V"],
   F1_INH_V |-> [COMPL |-> "F1_INH_V_REC"],
   F1_INH_F |-> [COMPL |-> "F1_INH_F_REC"],
   U_INH_V |-> [COMPL |-> "U_INH_V_REC"],
   U_INH_F |-> [COMPL |-> "U_INH_F_REC"],
   U_NOINH |-> [FACCH |-> "ONSET_F", VOICE |-> "VOICE", COMPL |-> "SID_U",
                SID_U |-> "U_NOINH", SID_F |-> "U_NOINH", ONSET |-> "ONSET_V"],
   F1_INH_V_REC |-> [VOICE |-> "VOICE", COMPL |-> "VOICE"],
   F1_INH_F_REC |-> [FACCH |-> "FACCH", COMPL |-> "FACCH"],
   U_INH_V_REC |-> [VOICE |-> "VOICE", COMPL |-> "VOICE"],
   U_INH_F_REC |-> [FACCH |-> "FACCH", COMPL |-> "FACCH"],
   SID_U |-> [FACCH |-> "U_INH_F", VOICE |-> "VOICE", INHIB |-> "U_INH_V",
              SID_U |-> "U_NOINH", SID_F |-> "U_NOINH"],
   ONSET_V |-> [COMPL |-> "ONSET_V_REC"],
   ONSET_F |-> [COMPL |-> "ONSET_F_REC"],
   ONSET_V_REC |-> [COMPL |-> "VOICE"],
   ONSET_F_REC |-> [COMPL |-> "FACCH"],
   FACCH |-> [SID_U |-> "FACCH", SID_F |-> "FACCH", FACCH |-> "FACCH",
              VOICE |-> "VOICE", COMPL |-> "SID_F1"]]

States == DOMAIN Handler

OutStateMask ==
  [VOICE |-> {"SID_F1", "U_NOINH", "F1_INH_V"},
   SID_F1 |-> {"U_NOINH", "ONSET_F", "SID_F2", "ONSET_V"},
   SID_F2 |-> {"U_NOINH", "ONSET_F", "ONSET_V"},
   F1_INH_V |-> {"F1_INH_V_REC"},
   F1_INH_F |-> {"F1_INH_F_REC"},
   U_INH_V |-> {"U_INH_V_REC"},
   U_INH_F |-> {"U_INH_F_REC"},
   U_NOINH |-> {"ONSET_F", "VOICE", "SID_U", "ONSET_V"},
   F1_INH_V_REC |-> {"VOICE"},
   F1_INH_F_REC |-> {"FACCH"},
   U_INH_V_REC |-> {"VOICE"},
   U_INH_F_REC |-> {"FACCH"},
   SID_U |-> {"ONSET_F", "VOICE", "U_INH_V", "U_INH_F", "U_NOINH"},
   ONSET_V |-> {"ONSET_V_REC"},
   ONSET_F |-> {"ONSET_F_REC"},
   ONSET_V_REC |-> {"VOICE"},
   ONSET_F_REC |-> {"FACCH"},
   FACCH |-> {"VOICE", "SID_F1"}]

(* The value of a deterministic step, computed once and named by a bound   *)
(* variable: Only({... v ... : v \in {step}}).                             *)
Only(S) == CHOOSE v \in S : TRUE

Permitted(x, e) == e \in DOMAIN Handler[x.st]

Dispatch(x, e) ==
  IF Permitted(x, e) /\ Handler[x.st][e] \in OutStateMask[x.st]
  THEN [x EXCEPT !.st = Handler[x.st][e]]
  ELSE x

----------------------------------------------------------------------------
(* lchan->tch.dtx.  The cache holds a SID frame with its STI bit ("first", *)
(* "update") or a speech frame; old: it was filled before the channel was  *)
(* last activated.  facch: the FACCH message kept until its announcement   *)
(* is sent.  fn may be one of the two marks, which compare like a frame    *)
(* long ago.                                                               *)

LongestWait == 8
LCHAN_FN_WAIT == LongestWait + 1
LCHAN_FN_DUMMY == LongestWait + 2

Dtx == [st : States, cache : {"none", "first", "update", "speech"},
        old : BOOLEAN, upd : BOOLEAN, fn : 0..LCHAN_FN_DUMMY,
        facch : {"new", "stale"}]

dtx_is_update(x) == x.st \in {"SID_U", "U_NOINH"}

dtx_is_first_p1(x, h) == h /\ x.st = "SID_F1"

dtx_recursion(x) ==
  x.st \in {"U_INH_V", "U_INH_F", "U_INH_V_REC", "U_INH_F_REC",
            "F1_INH_V", "F1_INH_F", "F1_INH_V_REC", "F1_INH_F_REC",
            "ONSET_F", "ONSET_V", "ONSET_F_REC", "ONSET_V_REC"}

dtx_int_signal(x, h) ==
  IF dtx_is_first_p1(x, h) \/ dtx_recursion(x) THEN Dispatch(x, "COMPL") ELSE x

MutAlwaysNewFn(x, frame, first) ==
  [x EXCEPT !.cache = frame,
            !.old = FALSE,
            !.upd = IF first THEN FALSE ELSE @,
            !.fn = IF first THEN 0 ELSE @]

dtx_cache_payload(x, frame, first) ==
  [x EXCEPT !.cache = frame,
            !.old = FALSE,
            !.upd = IF first THEN FALSE ELSE @,
            !.fn = IF first /\ ~dtx_is_update(x) THEN 0 ELSE @]

(* dtx_sti_set() and dtx_sti_unset() on what is a SID frame *)
SetSti(x, kind) ==
  IF x.cache \in {"first", "update"} THEN [x EXCEPT !.cache = kind] ELSE x

----------------------------------------------------------------------------
(* RTP frames.  "none": the queue of the channel is empty. *)

Frames == [ft : {"speech", "nodata"}, marker : BOOLEAN]
            \cup [ft : {"first", "update", "none"}, marker : {FALSE}]

IsSid(f) == f.ft \in {"first", "update"}

SpeechEvent(x, f, h) ==
  IF f.marker /\ (x.st = "VOICE" \/ (h /\ x.st = "SID_U")) THEN "INHIB"
  ELSE IF f.marker /\ x.st \in {"SID_F1", "SID_F2", "U_NOINH"} THEN "ONSET"
  ELSE "VOICE"

SidEvent(x, f) ==
  IF x.st = "SID_F2" THEN "COMPL"
  ELSE IF f.ft = "update" THEN "SID_U" ELSE "SID_F"

(* What dtx_dl_amr_fsm_step() makes of a frame, and whether it fails. *)
dtx_dl_amr_fsm_step(x, f, h) ==
  CASE f.ft = "speech" ->
         [x |-> Dispatch(x, SpeechEvent(x, f, h)),
          ok |-> Permitted(x, SpeechEvent(x, f, h))]
    [] IsSid(f) ->
         LET kept == IF x.st = "FACCH" THEN x
                     ELSE dtx_cache_payload(x, f.ft, x.st = "VOICE" \/ f.ft = "first")
         IN  [x |-> Dispatch(kept, SidEvent(x, f)),
              ok |-> Permitted(x, SidEvent(x, f))]
    [] f.ft = "nodata" ->
         [x |-> IF f.marker THEN Dispatch(x, "VOICE") ELSE x, ok |-> TRUE]
    [] OTHER -> [x |-> x, ok |-> FALSE]

(* Whether the comfort noise may be left out of this block, and the        *)
(* context afterwards: in FACCH the blocks of the message pass, then the   *)
(* silence begins again.                                                   *)
dtx_amr_sid_optional(x, h) ==
  IF x.st = "FACCH"
  THEN LET first == [SetSti(x, "first") EXCEPT !.upd = FALSE]
       IN  IF x.fn \notin (IF h THEN {LCHAN_FN_DUMMY, LCHAN_FN_WAIT} ELSE {LCHAN_FN_DUMMY})
           THEN [x |-> Dispatch(first, "COMPL"), skip |-> FALSE]
           ELSE [x |-> [first EXCEPT !.fn = IF h /\ @ = LCHAN_FN_DUMMY
                                          THEN LCHAN_FN_WAIT ELSE 0],
                 skip |-> TRUE]
  ELSE [x |-> x,
        skip |-> \/ x.st = "VOICE"
                 \/ x.fn < (IF x.upd THEN LongestWait ELSE 3)]

(* repeat_last_sid(): what is sent, and the context afterwards.  A cached  *)
(* frame that is no comfort noise of this call is an "echo".               *)
Refreshed(x, h) ==
  IF x.st = (IF h THEN "SID_F2" ELSE "SID_F1")
  THEN SetSti(Dispatch(x, "SID_U"), "first")
  ELSE IF dtx_is_update(x)
  THEN [SetSti(IF h /\ x.st = "U_NOINH" THEN Dispatch(x, "COMPL") ELSE x, "update")
          EXCEPT !.upd = TRUE]
  ELSE x

repeat_last_sid(x, h) ==
  Only({IF o.skip \/ o.x.cache = "none"
        THEN [x |-> o.x, out |-> "empty"]
        ELSE Only({[x |-> [y EXCEPT !.fn = 0],
                    out |-> IF y.old \/ y.cache = "speech" THEN "echo" ELSE y.cache] :
                   y \in {Refreshed(o.x, h)}}) :
        o \in {dtx_amr_sid_optional(x, h)}})

(* gen_empty_tch_msg(): nothing came from RTP, or nothing of use. *)
gen_empty_tch_msg(x, h) ==
  IF h /\ x.st = "SID_F2"
  THEN [x |-> Dispatch(x, "COMPL"), out |-> "firstP2"]
  ELSE repeat_last_sid(IF h /\ x.st = "SID_U" THEN Dispatch(x, "SID_U") ELSE x, h)

(* l1if_tch_encode() and, where it encodes nothing, gen_empty_tch_msg(). *)
l1if_tch_encode(x, f, h, use_cache) ==
  LET Encoded(s) ==
        LET kept == dtx_cache_payload(s.x, "speech", TRUE)
            plain == IF f.ft = "nodata" THEN "empty" ELSE f.ft
        IN  CASE s.ok /\ s.x.st = "ONSET_V" -> [x |-> kept, out |-> "onset"]
              [] s.ok /\ s.x.st = "F1_INH_V" -> [x |-> kept, out |-> "firstInh"]
              [] s.ok /\ s.x.st = "U_INH_V" -> [x |-> kept, out |-> "updateInh"]
              [] s.ok /\ s.x.st \in {"VOICE", "SID_F1", "SID_F2"} ->
                   [x |-> s.x,
                    out |-> IF dtx_is_first_p1(s.x, h) /\ IsSid(f) THEN "firstP1" ELSE plain]
              [] OTHER -> gen_empty_tch_msg(s.x, h)
  IN  IF use_cache /\ f.ft # "none"
      THEN [x |-> x, out |-> IF x.old THEN "echo" ELSE x.cache]
      ELSE Only({Encoded(s) : s \in {dtx_dl_amr_fsm_step(x, f, h)}})

----------------------------------------------------------------------------
(* Requests.  Each pass ends with one primitive for the write queue; the   *)
(* signals that follow, and the second pass of a recursive state, come     *)
(* only when the queue had room for it.  Two passes are the most there     *)
(* are: the COMPL of the second leads out of the recursive states.         *)

TchSignal(x, h) ==
  IF dtx_is_first_p1(x, h) THEN Dispatch(x, "FIRST") ELSE dtx_int_signal(x, h)

(* One pass of ph_tch_req(): x before the signals, next after them *)
TchPass(x, f, h, use_cache) ==
  Only({[x |-> p.x, out |-> p.out, next |-> TchSignal(p.x, h)] :
        p \in {l1if_tch_encode(x, f, h, use_cache)}})

(* ph_tch_req(); room: how many primitives the queue takes *)
ph_tch_req(x, f, h, room) ==
  LET Request(p1) ==
        LET p2 == TchPass(p1.next, f, h, TRUE)
        IN  CASE room = 0 -> [x |-> p1.x, sent |-> <<>>, full |-> TRUE]
              [] room > 0 /\ ~dtx_recursion(p1.next) ->
                   [x |-> p1.next, sent |-> <<p1.out>>, full |-> FALSE]
              [] room = 1 /\ dtx_recursion(p1.next) ->
                   [x |-> p2.x, sent |-> <<p1.out>>, full |-> TRUE]
              [] OTHER ->
                   [x |-> p2.next, sent |-> <<p1.out, p2.out>>, full |-> FALSE]
  IN  Only({Request(p1) : p1 \in {TchPass(x, f, h, FALSE)}})

(* One pass of ph_data_req() for a FACCH or SACCH message, or for none: a  *)
(* FACCH message that interrupts the silence is kept and announced first.  *)
(* In FACCH the payload is not copied.                                     *)
DataPass(x, kind, use_cache) ==
  CASE kind = "idle" -> [x |-> x, out |-> "empty"]
    [] kind # "idle" /\ use_cache ->
         [x |-> [x EXCEPT !.facch = "stale"],
          out |-> IF x.facch = "new" THEN "facch" ELSE "stale"]
    [] kind = "facch" /\ ~use_cache /\ x.st \in {"ONSET_F", "U_INH_F", "F1_INH_F"} ->
         [x |-> [x EXCEPT !.facch = "new", !.fn = LCHAN_FN_DUMMY],
          out |-> CASE x.st = "ONSET_F" -> "onset"
                    [] x.st = "U_INH_F" -> "updateInh"
                    [] OTHER -> "firstInh"]
    [] kind = "sacch" /\ ~use_cache /\ x.st \in {"ONSET_F", "U_INH_F", "F1_INH_F"} ->
         [x |-> x, out |-> "blank"]
    [] kind # "idle" /\ ~use_cache /\ x.st = "FACCH" ->
         [x |-> [x EXCEPT !.fn = LCHAN_FN_DUMMY], out |-> "blank"]
    [] OTHER -> [x |-> x, out |-> kind]

(* A pass and the signal that follows it when there was room *)
DataPassSignal(x, kind, use_cache, h, room) ==
  Only({[out |-> p.out, next |-> IF room > 0 THEN dtx_int_signal(p.x, h) ELSE p.x] :
        p \in {DataPass(x, kind, use_cache)}})

(* What follows the first pass of ph_data_req(): a full queue leaves a     *)
(* recursive state as it is, and the function calls itself again, without  *)
(* end.                                                                    *)
DataRest(p1, kind, h, room) ==
  LET p2 == DataPassSignal(p1.next, kind, TRUE, h, room)
  IN  IF dtx_recursion(p1.next)
      THEN IF room > 1
           THEN [x |-> p2.next, sent |-> <<p1.out, p2.out>>, ends |-> TRUE]
           ELSE [x |-> p1.next, sent |-> <<>>, ends |-> FALSE]
      ELSE [x |-> p1.next, sent |-> IF room > 0 THEN <<p1.out>> ELSE <<>>, ends |-> TRUE]

MutSendsCacheAtOnce(x, kind, h, room) ==
  Only({DataRest(p1, kind, h, room) :
        p1 \in {DataPassSignal(x, kind, dtx_recursion(x), h, room)}})

ph_data_req(x, kind, h, room) ==
  Only({DataRest(p1, kind, h, room) :
        p1 \in {DataPassSignal(x, kind, FALSE, h, room)}})

----------------------------------------------------------------------------
Rooms == 0..2

Init ==
  /\ d = [st |-> "VOICE", cache |-> "none", old |-> FALSE, upd |-> FALSE,
          fn |-> LongestWait, facch |-> "stale"]
  /\ half \in BOOLEAN
  /\ turn = "data"
  /\ last = "activate"
  /\ sent = <<>>
  /\ alive = TRUE
  /\ dirty = FALSE
  /\ quiet = 0
  /\ muted = 0
  /\ resume = 0

Silent(x) == x.st \in {"SID_F1", "SID_F2", "U_NOINH", "SID_U"}

(* History only: a NO_DATA frame that is answered with an empty frame      *)
(* before the silence has got as far as its updates                        *)
HeldBack(x, f) == f.ft = "nodata" /\ x.st \in {"SID_F1", "SID_F2"}

(* PH-RTS.ind: l1sap_ph_rts_ind() takes the message LAPDm has and tells    *)
(* the FSM of a FACCH message before it passes it down.                    *)
DataRequest(kind, room) ==
  /\ alive
  /\ turn = "data" \/ kind = "sacch"
  /\ LET r == ph_data_req(IF kind = "facch" THEN Dispatch(d, "FACCH") ELSE d,
                          kind, half, room)
     IN  /\ d' = r.x
         /\ alive' = r.ends
         /\ sent' = r.sent
  /\ turn' = IF kind = "sacch" THEN turn ELSE "tch"
  /\ last' = kind
  /\ dirty' = (dirty \/ sent' = <<>>)
  /\ resume' = IF kind = "idle" THEN resume ELSE 0
  /\ UNCHANGED <<half, quiet, muted>>

(* TCH-RTS.ind: l1sap_tch_rts_ind() takes the next RTP frame.  A block has *)
(* passed.                                                                 *)
TchRequest(f, room) ==
  /\ alive
  /\ turn \in {"tch", "tch2"}
  /\ LET older == [d EXCEPT !.fn = IF @ < LongestWait THEN @ + 1 ELSE @]
         r == ph_tch_req(older, f, half, room)
     IN  /\ d' = r.x
         /\ sent' = r.sent
         /\ dirty' = r.full
         /\ quiet' = IF r.sent = <<"empty">> /\ ~r.full /\ Silent(d) /\ Silent(r.x)
                     THEN IF quiet <= LongestWait /\ ~HeldBack(d, f) THEN quiet + 1 ELSE quiet
                     ELSE 0
         /\ muted' = IF f.ft = "speech" /\ ~r.full /\ \A i \in DOMAIN r.sent : r.sent[i] # "speech"
                     THEN IF muted <= LongestWait THEN muted + 1 ELSE muted
                     ELSE 0
         /\ resume' = IF d.st = "FACCH" /\ resume <= LongestWait THEN resume + 1 ELSE 0
  /\ turn' = IF half /\ turn = "tch" THEN "tch2" ELSE "data"
  /\ last' = f.ft
  /\ UNCHANGED <<half, alive>>

(* l1sap_chan_rel() frees the FSM and l1sap_chan_act() makes a new one;    *)
(* the rest of lchan->tch.dtx stays as the previous call left it.  The     *)
(* channel may come back with the other rate.                              *)
Reactivate ==
  /\ alive
  /\ d' = [d EXCEPT !.st = "VOICE", !.old = (d.cache # "none"), !.facch = "stale"]
  /\ half' \in BOOLEAN
  /\ turn' = "data"
  /\ last' = "activate"
  /\ sent' = <<>>
  /\ dirty' = FALSE
  /\ quiet' = 0
  /\ muted' = 0
  /\ resume' = 0
  /\ UNCHANGED alive

Next ==
  \/ \E kind \in {"facch", "sacch", "idle"}, room \in Rooms : DataRequest(kind, room)
  \/ \E f \in Frames, room \in Rooms : TchRequest(f, room)
  \/ Reactivate

Spec == Init /\ [][Next]_vars

----------------------------------------------------------------------------
(* The types, and what the states rely on: the frame kept during a silence *)
(* is a SID frame of this call.                                            *)
TypeOK ==
  /\ d \in Dtx
  /\ half \in BOOLEAN
  /\ turn \in {"data", "tch", "tch2"}
  /\ Silent(d) \/ d.st = "FACCH" => d.cache \in {"first", "update"} /\ ~d.old

(* Between two requests the FSM is in a state it can wait in: what layer 1 *)
(* was asked for in two parts (ONSET or inhibition and the frame it        *)
(* announces, ph_tch_req() and ph_data_req()) is complete, and on TCH/H    *)
(* the first half of SID-FIRST has been followed up.  After a full queue   *)
(* this is so again with the next traffic request it has room for.         *)
Settled ==
  ~dirty => d.st \in {"VOICE", "SID_F2", "U_NOINH", "SID_U", "FACCH"}
                       \cup (IF half THEN {} ELSE {"SID_F1"})

(* The cache of repeat_last_sid() also serves to keep a speech frame until *)
(* its announcement is sent, and survives the release of the channel: what *)
(* is repeated as comfort noise is nevertheless always a SID frame, and    *)
(* nothing of an earlier call is ever sent.                                *)
NoEcho == \A i \in DOMAIN sent : sent[i] # "echo"

(* During a silence the phone gets comfort noise at least in every eighth  *)
(* block, whatever SID frames arrive meanwhile (3GPP TS 26.093, as         *)
(* dtx_amr_sid_optional() computes it), unless the queue is full.          *)
(* Exception: NO_DATA frames between SID-FIRST and the first update.       *)
SilenceRefreshed == quiet < LongestWait

(* When the RTP marker of the first speech frame after a silence is lost,  *)
(* speech is heard again after at most three frames: dtx_fsm_sid_f1() and  *)
(* dtx_fsm_sid_f2() do not take E_VOICE, but a speech frame they refuse    *)
(* still lets gen_empty_tch_msg() advance the FSM.                         *)
SpeechHeard == muted <= 3

(* FACCH ends: after the blocks of the message, two on TCH/F and three on  *)
(* TCH/H, the silence begins again or speech goes on; ST_FACCH does not    *)
(* last longer whatever arrives from RTP.                                  *)
FacchOver == d.st = "FACCH" => resume <= (IF half THEN 2 ELSE 1)

(* The speech path between two requests: complete, never an echo, refreshed *)
(* in silence, heard again after it, and free of FACCH that is over.        *)
DtxInv ==
  TypeOK /\ Settled /\ NoEcho /\ SilenceRefreshed /\ SpeechHeard /\ FacchOver

(* A FACCH message that LAPDm hands over goes out once, and one that ends  *)
(* a silence after ONSET or the inhibition of the SID-UPDATE, the message  *)
(* being kept in dtx.facch meanwhile.  Exceptions: in ST_FACCH its payload *)
(* is not copied (l1_if.c:446), and in SID-FIRST no announcement precedes  *)
(* it, as the FSM refuses the change to ST_F1_INH_F.                       *)
FacchDelivered ==
  [][last' = "facch" /\ turn' # turn /\ ~dirty' =>
       \/ d.st = "FACCH"
       \/ d.st \in {"VOICE", "SID_F1"} /\ sent' = <<"facch">>
       \/ d.st = "SID_U" /\ sent' = <<"updateInh", "facch">>
       \/ d.st \in {"SID_F2", "U_NOINH"} /\ sent' = <<"onset", "facch">>]_vars

============================================================================
