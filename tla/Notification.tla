----------------------------- MODULE Notification -----------------------------
(***************************************************************************)
(* The notifications of group calls (common/notification.c): the calls     *)
(* that are announced on the NCH in turn, one per block, and the list      *)
(* number NLN by which a phone knows that it has heard of all of them.     *)
(***************************************************************************)
EXTENDS Integers, Sequences, SequencesExt, Functions

CONSTANT Calls   \* the group call references

VARIABLES
    notifications,        \* the list of calls
    notification_entries, \* the number of entries in it
    notification_count,   \* counts the entries that were announced
    nln,                  \* the list number (its status, a bit that paging messages
                          \* carry and a deletion toggles, is left out)
    nch,                  \* the last message on the NCH: [nln, call]
    heard,                \* the calls announced since the list changed or NLN was sent
    fresh                 \* the calls never announced

nchVars == <<notifications, notification_entries, notification_count, nln, nch, heard, fresh>>

NoCall == "none"

\* The type of the state.
NchTypeOK ==
    /\ notifications \in Seq(Calls)
    /\ notification_entries \in Nat /\ notification_count \in Nat
    /\ nln \in 0 .. 3
    /\ nch \in [nln : -1 .. 3, call : Calls \cup {NoCall}]
    /\ heard \subseteq Calls /\ fresh \subseteq Calls

NchInit ==
    /\ notifications = <<>> /\ notification_entries = 0 /\ notification_count = 0
    /\ nln = 0
    /\ nch = [nln |-> -1, call |-> NoCall]
    /\ heard = {} /\ fresh = {}

\* A new call goes to the head of the list; one that is there already is refused.
bts_asci_notification_add(call) ==
    /\ call \notin Range(notifications)
    /\ notifications' = <<call>> \o notifications
    /\ notification_entries' = notification_entries + 1
    /\ notification_count' = 0
    /\ nln' = (nln + 1) % 4
    /\ heard' = {} /\ fresh' = fresh \cup {call}
    /\ UNCHANGED nch

MutDelKeepsCount(call) ==
    /\ \E i \in DOMAIN notifications :
          notifications[i] = call /\ notifications' = RemoveAt(notifications, i)
    /\ notification_entries' = notification_entries - 1
    /\ heard' = {} /\ fresh' = fresh \ {call}
    /\ UNCHANGED <<notification_count, nln, nch>>
bts_asci_notification_del(call) ==
    /\ \E i \in DOMAIN notifications :
          notifications[i] = call /\ notifications' = RemoveAt(notifications, i)
    /\ notification_entries' = notification_entries - 1
    /\ notification_count' = 0
    /\ heard' = {} /\ fresh' = fresh \ {call}
    /\ UNCHANGED <<nln, nch>>

bts_asci_notification_reset ==
    /\ notifications' = <<>>
    /\ notification_entries' = 0 /\ notification_count' = 0
    /\ heard' = {} /\ fresh' = {}
    /\ UNCHANGED <<nln, nch>>

\* rsl_rx_notification_cmd(): start one, stop one, or stop all.
rsl_rx_notification_cmd ==
    \/ \E call \in Calls : bts_asci_notification_add(call) \/ bts_asci_notification_del(call)
    \/ bts_asci_notification_reset

\* bts_asci_notification_get_next(): the call at the head of the list, which moves to
\* its end.
bts_asci_notification_get_next(call) ==
    \/ notifications = <<>> /\ call = NoCall /\ UNCHANGED notifications
    \/ /\ notifications # <<>> /\ call = Head(notifications)
       /\ notifications' = Append(Tail(notifications), call)

\* bts_asci_notify_nch_gen_msg(): the next call, with NLN if it is the last of the round.
bts_asci_notify_nch_gen_msg ==
  \E call \in Calls \cup {NoCall} :
    LET last == notification_count >= notification_entries - 1 IN
    /\ bts_asci_notification_get_next(call)
    /\ nch' = [nln |-> IF last THEN nln ELSE -1, call |-> call]
    /\ notification_count' = IF notification_count + 1 >= notification_entries THEN 0
                             ELSE notification_count + 1
    /\ heard' = IF last THEN {} ELSE heard \cup {call}
    /\ fresh' = fresh \ {call}
    /\ UNCHANGED <<notification_entries, nln>>

NchNext == rsl_rx_notification_cmd \/ bts_asci_notify_nch_gen_msg
-----------------------------------------------------------------------------
\* "When the phone receives two NLN with the same value, it knows that all notifications
\* has been received": NLN is sent with the last of the calls in the list, when each of
\* them has been announced since the list changed or NLN was sent, and not before.
NlnMeansComplete ==
    [][bts_asci_notify_nch_gen_msg =>
        (nch'.nln >= 0 <=> Range(notifications) \subseteq heard \cup {nch'.call})]_nchVars

\* New calls are announced before others are repeated, however many are added in a row.
NewCallFirst ==
    [][bts_asci_notify_nch_gen_msg /\ fresh # {} => nch'.call \in fresh]_nchVars

\* Phones get to hear of every call, of new ones first, and know when they have.
CallsHeard == NlnMeansComplete /\ NewCallFirst
=============================================================================
