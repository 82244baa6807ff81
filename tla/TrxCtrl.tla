------------------------------- MODULE TrxCtrl -------------------------------
(***************************************************************************)
(* The TRXC control connection of one transceiver of osmo-bts-trx          *)
(* (osmo-bts-trx/trx_if.c): a stop-and-wait command queue over UDP.        *)
(*                                                                         *)
(* The BTS keeps the commands that wait for their response in a list; the  *)
(* head is the one on the wire.  A timer retransmits it.  A response is    *)
(* matched against the head by its command name (and, for SETSLOT and      *)
(* SETFORMAT, by its parameters); one that matches the command answered    *)
(* last is taken for the answer to a retransmission and skipped.           *)
(*                                                                         *)
(* A command is a record [name, par, crit, cb]: its name and parameters,   *)
(* whether its rejection is fatal, and whether a callback waits for the    *)
(* response.  Every queued command also carries the serial number under    *)
(* which it was issued; the code has no such number, the properties do.    *)
(* The datagrams keep their order; any of them may be lost.                *)
(***************************************************************************)
EXTENDS Naturals, Sequences, FiniteSets, SequencesExt

CONSTANTS
    Cmds,         \* the commands the BTS issues
    Unsupported,  \* names the transceiver answers with RSP ERR
    Rejectable,   \* names the transceiver may answer with a nonzero status
    MaxCmds,      \* bound: commands issued in a behaviour
    MaxInFlight   \* bound: datagrams in flight when a retransmission is sent

CmdNames == {"POWERON", "POWEROFF", "SETSLOT", "SETFORMAT", "RXTUNE", "TXTUNE",
             "NOMTXPOWER", "SETPOWER", "RFMUTE"}

ASSUME CmdsAssumption ==
    /\ Cmds \subseteq [name : CmdNames, par : Nat, crit : BOOLEAN, cb : BOOLEAN]
    /\ Unsupported \subseteq CmdNames
    /\ Rejectable \subseteq CmdNames
ASSUME BoundsAssumption ==
    /\ MaxCmds \in Nat
    /\ MaxInFlight \in Nat

VARIABLES
    queue,     \* trx_ctrl_list: the commands without a response, oldest first
    timer,     \* is trx_ctrl_timer armed?
    lastAcked, \* last_acked: <<>> or <<the command answered last>>
    open,      \* is the control socket open?
    shutdown,  \* has a response made the BTS shut down?
    cmdNet,    \* CMD datagrams on their way to the transceiver
    rspNet,    \* RSP datagrams on their way to the BTS
    history,   \* history[i]: the command issued under number i
    acked,     \* the numbers of the commands taken off the list as answered
    executed,  \* the numbers of the commands the transceiver carried out
    lastExec,  \* the number of the one it carried out last
    smooth     \* has nothing been lost, refused or closed so far?

vars == <<queue, timer, lastAcked, open, shutdown, cmdNet, rspNet, history,
          acked, executed, lastExec, smooth>>

Ids == 1 .. MaxCmds
Entry == [id : Ids, c : Cmds]
Rsp == [id : Ids, name : CmdNames \cup {"ERR"}, par : Nat, ok : BOOLEAN]

\* The type of the state.
TypeOK ==
    /\ queue \in Seq(Entry)
    /\ timer \in BOOLEAN
    /\ lastAcked \in {<<>>} \cup {<<e>> : e \in Entry}
    /\ open \in BOOLEAN
    /\ shutdown \in BOOLEAN
    /\ cmdNet \in Seq(Entry)
    /\ rspNet \in Seq(Rsp)
    /\ history \in Seq(Cmds)
    /\ Len(history) <= MaxCmds
    /\ acked \subseteq Ids
    /\ executed \subseteq Ids
    /\ lastExec \in 0 .. MaxCmds
    /\ smooth \in BOOLEAN

\* trx_if_init() and trx_if_open(): an empty list, the timer off, the sockets open.
Init ==
    /\ queue = <<>>
    /\ timer = FALSE
    /\ lastAcked = <<>>
    /\ open = TRUE
    /\ shutdown = FALSE
    /\ cmdNet = <<>>
    /\ rspNet = <<>>
    /\ history = <<>>
    /\ acked = {}
    /\ executed = {}
    /\ lastExec = 0
    /\ smooth = TRUE
-----------------------------------------------------------------------------
(* Sending.                                                                *)

\* trx_ctrl_send(): transmit the head of the list q and arm the timer.  With
\* the sockets closed send() fails, which is only logged.
trx_ctrl_send(q, isOpen) ==
    /\ cmdNet' = IF q # <<>> /\ isOpen THEN Append(cmdNet, Head(q)) ELSE cmdNet
    /\ timer' = (q # <<>>)

\* The part of trx_ctrl_cmd_cb() that puts c on the list q: a command equal to the
\* one it would follow is dropped, its callback with it.
SameCmd(c, d) == c.name = d.name /\ c.par = d.par
MutAddsAtHead(q, c) ==
    IF q # <<>> /\ SameCmd(Last(q).c, c) THEN q
    ELSE <<[id |-> Len(history) + 1, c |-> c]>> \o q
Enqueue(q, c) ==
    IF q # <<>> /\ SameCmd(Last(q).c, c) THEN q
    ELSE Append(q, [id |-> Len(history) + 1, c |-> c])

Issue(c) == Len(history) < MaxCmds /\ history' = Append(history, c)

\* trx_ctrl_cmd_cb() called outside of a response callback: queue the command
\* and, if no other one waits, send it.
MutAlwaysSends(c) ==
    /\ Issue(c)
    /\ queue' = Enqueue(queue, c)
    /\ cmdNet' = IF open THEN Append(cmdNet, Last(queue')) ELSE cmdNet
    /\ timer' = TRUE
    /\ UNCHANGED <<lastAcked, open, shutdown, rspNet, acked, executed, lastExec,
                   smooth>>
MutNeverSends(c) ==
    /\ Issue(c)
    /\ queue' = Enqueue(queue, c)
    /\ UNCHANGED <<cmdNet, timer, lastAcked, open, shutdown, rspNet, acked, executed,
                   lastExec, smooth>>
trx_ctrl_cmd_cb(c) ==
    /\ Issue(c)
    /\ queue' = Enqueue(queue, c)
    /\ IF queue = <<>> THEN trx_ctrl_send(queue', open) ELSE UNCHANGED <<cmdNet, timer>>
    /\ UNCHANGED <<lastAcked, open, shutdown, rspNet, acked, executed, lastExec, smooth>>

\* trx_ctrl_timer_cb(): no satisfactory response, send the head again.
trx_ctrl_timer_cb ==
    /\ timer
    /\ queue # <<>>
    /\ Len(cmdNet) + Len(rspNet) < MaxInFlight
    /\ trx_ctrl_send(queue, open)
    /\ UNCHANGED <<queue, lastAcked, open, shutdown, rspNet, history, acked,
                   executed, lastExec, smooth>>
-----------------------------------------------------------------------------
(* Receiving.                                                              *)

\* cmd_matches_rsp(): is r a response to the command c?
cmd_matches_rsp(c, r) ==
    /\ c.name = r.name
    /\ c.name \in {"SETSLOT", "SETFORMAT"} => c.par = r.par

SkipAsRetransmission(r) == lastAcked # <<>> /\ cmd_matches_rsp(lastAcked[1].c, r)

\* trx_ctrl_rx_rsp(): what becomes of the command c whose response is r.  "done"
\* takes it off the list, "retry" sends it again later, "fatal" stops the BTS.
\* A response picks its handler by its own name first, then by the command's.
trx_ctrl_rx_rsp(r, c) ==
    CASE r.name = "POWERON"                 -> IF r.ok THEN "done" ELSE "retry"
      [] r.name \in {"POWEROFF", "SETSLOT"} -> IF r.ok THEN "done" ELSE "fatal"
      [] r.name \notin {"POWERON", "POWEROFF", "SETSLOT"} /\ c.name = "SETFORMAT" ->
            IF r.ok \/ r.name # "SETFORMAT" THEN "done" ELSE "fatal"
      [] r.name \notin {"POWERON", "POWEROFF", "SETSLOT"}
            /\ c.name \in {"NOMTXPOWER", "SETPOWER"} -> "done"
      [] OTHER -> IF ~r.ok /\ c.crit THEN "fatal" ELSE "done"

\* Does trx_ctrl_rx_rsp() call the command's callback?
CallsBack(r, c) ==
    /\ c.cb
    /\ r.name \in {"POWEROFF", "SETFORMAT"} => r.ok

\* The answered command replaces the one that was answered before it.
MutForgetsLastAcked(tcm) == <<>>
SaveLastAcked(tcm) == <<tcm>>

\* The end of trx_ctrl_read_cb() once the callback has run and left the list q:
\* unless the callback flushed the list, take the answered command off it and
\* remember it, then send the next one; or wait some seconds and try again; or
\* stop the BTS, the command kept.  The callback ran with sending disabled.
Conclude(r, tcm, q, flushed, isOpen) ==
    LET rc == trx_ctrl_rx_rsp(r, tcm.c)
        rest == IF flushed \/ rc # "done" THEN q ELSE Tail(q)
    IN
    /\ queue' = rest
    /\ lastAcked' = IF flushed THEN <<>>
                    ELSE IF rc = "done" THEN SaveLastAcked(tcm) ELSE lastAcked
    /\ IF rc = "done"
       THEN trx_ctrl_send(rest, isOpen)
       ELSE timer' = (rc = "retry" /\ q # <<>>) /\ UNCHANGED cmdNet
    /\ acked' = IF rc = "done" THEN acked \cup {tcm.id} ELSE acked
    /\ shutdown' = (shutdown \/ rc = "fatal")

\* trx_ctrl_read_cb() for a response that no command waits for, or one from a
\* retransmission.  The timer is gone already.
IgnoreRsp(r) ==
    /\ queue # <<>> =>
          ~cmd_matches_rsp(Head(queue).c, r) /\ SkipAsRetransmission(r)
    /\ timer' = FALSE
    /\ rspNet' = Tail(rspNet)
    /\ UNCHANGED <<queue, lastAcked, open, shutdown, cmdNet, history, acked>>

\* ... for one that matches neither the head, a critical command, nor last_acked.
MismatchRsp(r) ==
    /\ queue # <<>>
    /\ ~cmd_matches_rsp(Head(queue).c, r)
    /\ ~SkipAsRetransmission(r)
    /\ Head(queue).c.crit
    /\ timer' = FALSE
    /\ shutdown' = TRUE
    /\ rspNet' = Tail(rspNet)
    /\ UNCHANGED <<queue, lastAcked, open, cmdNet, history, acked>>

\* ... for the response taken as the head's.  Any response will do for a head that
\* is not critical: the transceiver answers what it does not know with RSP ERR.
TakenForHead(r) ==
    /\ queue # <<>>
    /\ \/ cmd_matches_rsp(Head(queue).c, r)
       \/ ~SkipAsRetransmission(r) /\ ~Head(queue).c.crit

\* The callback, if there is one, leaves the list alone ...
HandleRsp(r) ==
    /\ TakenForHead(r)
    /\ Conclude(r, Head(queue), queue, FALSE, open)
    /\ rspNet' = Tail(rspNet)
    /\ UNCHANGED <<open, history>>

\* ... or queues another command (NOMTXPOWER's starts the power ramp) ...
HandleRspQueueing(r, c) ==
    /\ TakenForHead(r)
    /\ CallsBack(r, Head(queue).c)
    /\ Issue(c)
    /\ Conclude(r, Head(queue), Enqueue(queue, c), FALSE, open)
    /\ rspNet' = Tail(rspNet)
    /\ UNCHANGED open

\* ... or, that of a confirmed POWEROFF, closes the connection and with it the list.
HandleRspClosing(r) ==
    /\ TakenForHead(r)
    /\ CallsBack(r, Head(queue).c)
    /\ r.name = "POWEROFF"
    /\ Conclude(r, Head(queue), <<>>, TRUE, FALSE)
    /\ open' = FALSE
    /\ rspNet' = <<>>
    /\ UNCHANGED history

\* One RSP datagram is read.
trx_ctrl_read_cb ==
    /\ open
    /\ rspNet # <<>>
    /\ \/ IgnoreRsp(Head(rspNet))
       \/ MismatchRsp(Head(rspNet))
       \/ HandleRsp(Head(rspNet))
       \/ \E c \in Cmds : HandleRspQueueing(Head(rspNet), c)
       \/ HandleRspClosing(Head(rspNet))
    /\ smooth' = (smooth /\ open')
    /\ UNCHANGED <<executed, lastExec>>
-----------------------------------------------------------------------------
(* Opening and closing.                                                    *)

\* trx_if_flush() outside of a response callback.
trx_if_flush == queue' = <<>> /\ lastAcked' = <<>> /\ timer' = FALSE

\* trx_if_close(): flush the list and close the sockets; unread responses are gone.
trx_if_close ==
    /\ open
    /\ trx_if_flush
    /\ open' = FALSE
    /\ rspNet' = <<>>
    /\ smooth' = FALSE
    /\ UNCHANGED <<shutdown, cmdNet, history, acked, executed, lastExec>>

\* trx_if_open(): the sockets are opened again, with the list as it is.
trx_if_open ==
    /\ ~open
    /\ open' = TRUE
    /\ UNCHANGED <<queue, timer, lastAcked, shutdown, cmdNet, rspNet, history, acked,
                   executed, lastExec, smooth>>
-----------------------------------------------------------------------------
(* The transceiver and the network.                                        *)

\* The transceiver takes the next CMD, carries it out or not, and answers.
RspTo(e, good) ==
    [id   |-> e.id,
     name |-> IF e.c.name \in Unsupported THEN "ERR" ELSE e.c.name,
     par  |-> IF e.c.name \in Unsupported THEN 0 ELSE e.c.par,
     ok   |-> good]

Transceiver ==
    /\ cmdNet # <<>>
    /\ cmdNet' = Tail(cmdNet)
    /\ LET e == Head(cmdNet) IN
       \E good \in BOOLEAN :
          /\ good => e.c.name \notin Unsupported
          /\ ~good => e.c.name \in Unsupported \cup Rejectable
          /\ executed' = IF good THEN executed \cup {e.id} ELSE executed
          /\ lastExec' = IF good THEN e.id ELSE lastExec
          /\ rspNet' = IF open THEN Append(rspNet, RspTo(e, good)) ELSE rspNet
          /\ smooth' = (smooth /\ good)
    /\ UNCHANGED <<queue, timer, lastAcked, open, shutdown, history, acked>>

LoseCmd ==
    /\ cmdNet # <<>>
    /\ cmdNet' = Tail(cmdNet)
    /\ smooth' = FALSE
    /\ UNCHANGED <<queue, timer, lastAcked, open, shutdown, rspNet, history, acked,
                   executed, lastExec>>

LoseRsp ==
    /\ rspNet # <<>>
    /\ rspNet' = Tail(rspNet)
    /\ smooth' = FALSE
    /\ UNCHANGED <<queue, timer, lastAcked, open, shutdown, cmdNet, history, acked,
                   executed, lastExec>>

Next ==
    \/ \E c \in Cmds : trx_ctrl_cmd_cb(c)
    \/ trx_ctrl_timer_cb
    \/ trx_ctrl_read_cb
    \/ trx_if_close
    \/ trx_if_open
    \/ Transceiver
    \/ LoseCmd
    \/ LoseRsp

Spec == Init /\ [][Next]_vars

\* The event loop reads what has arrived, and the transceiver answers what it gets.
FairSpec == Spec /\ WF_vars(trx_ctrl_read_cb) /\ WF_vars(Transceiver)
-----------------------------------------------------------------------------
(* Properties.                                                             *)

\* trx_ctrl_timer_cb() asserts that the list is not empty when the timer fires:
\* whatever order flushes, responses and new commands come in, the timer is armed
\* only while a command waits.
TimerNeedsCommand == timer => queue # <<>>

\* Stop-and-wait: a CMD that waits behind the head has never been sent, so neither
\* the wire nor the transceiver has seen it.
StopAndWait ==
    \A k \in 2 .. Len(queue) :
        /\ queue[k].id \notin executed
        /\ \A i \in DOMAIN cmdNet : cmdNet[i].id # queue[k].id
        /\ \A i \in DOMAIN rspNet : rspNet[i].id # queue[k].id

\* The connection in any order of commands, responses, timeouts and flushes: its types,
\* a timer only for a command that waits, and one command on the wire at a time.
ConnectionInv == TypeOK /\ TimerNeedsCommand /\ StopAndWait

\* Retransmissions never make the transceiver go back to an older command: it
\* carries commands out in the order in which the BTS issued them.
ExecutionOrder == [][lastExec' >= lastExec]_vars

\* The commands whose rejection is fatal or retried; a refused NOMTXPOWER or SETPOWER
\* is only logged, although the former is sent as a critical one.
MustSucceed(i) == history[i].crit /\ history[i].name \notin {"NOMTXPOWER", "SETPOWER"}

\* A critical command that left the list as answered was carried out, unless an
\* earlier command of the same name was (a late duplicate of its response is then
\* mistaken for the answer).
AckMeansExecuted ==
    \A i \in acked :
        MustSucceed(i) =>
            \/ i \in executed
            \/ \E j \in executed : j < i /\ history[j].name = history[i].name

\* As long as the transceiver refuses nothing and the network loses nothing, no number
\* of retransmissions and duplicate responses is taken for a fatal mismatch.
NoSpuriousShutdown == smooth => ~shutdown

\* Responses are matched with the right commands, as far as their names tell.
AnswersMatched == AckMeansExecuted /\ NoSpuriousShutdown

\* Unless something is lost every command gets its answer, however often it and its
\* duplicate responses cross on the way: the list drains.
EventuallyAnswered == queue # <<>> ~> ~smooth \/ queue = <<>>
=============================================================================
