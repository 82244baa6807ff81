------------------------------ MODULE AbisLink ------------------------------
(***************************************************************************)
(* The Abis link FSM (common/abis.c) with the signalling links it manages  *)
(* and the list of BSC addresses the VTY edits (common/vty.c).             *)
(*                                                                         *)
(* A configured BSC is a heap object; the objects are numbered in the order*)
(* of their allocation, 0 is the null pointer.  The TCP connection below   *)
(* the links belongs to libosmo-abis, the shutdown to BtsShutdown: here it *)
(* is in progress or not, and ends by itself.                              *)
(***************************************************************************)
EXTENDS Naturals, Sequences, SequencesExt, Functions

CONSTANTS
    Trx,             \* the TRXs, each with its RSL link
    MaxHosts,        \* bound: bsc_oml_host objects that are allocated
    AbisCloseExits   \* does bts_model_abis_close() end the process? FALSE for osmo-bts-trx

ASSUME AbisAssumption ==
    /\ MaxHosts \in Nat \ {0}
    /\ AbisCloseExits \in BOOLEAN

Hosts == 1 .. MaxHosts

VARIABLES
    st,         \* the state of the FSM
    hosts,      \* bts->bsc_oml_hosts
    made,       \* number of host objects allocated so far
    cur,        \* priv->current_bsc
    reconnect,  \* priv->reconnect_to_current_bsc
    oml,        \* is bts->oml_link set?
    rsl,        \* the TRXs whose bb_transc.rsl.link is set
    shutdown,   \* bts_shutdown_in_progress()
    exitProc,   \* shutdown_fi_exit_proc
    process     \* "running", "exited", "aborted" by an OSMO_ASSERT, or "crashed"

links == <<oml, rsl>>
vars == <<st, hosts, made, cur, reconnect, oml, rsl, shutdown, exitProc, process>>

\* The type of the state.
TypeOK ==
    /\ st \in {"WAIT_RECONNECT", "CONNECTING", "CONNECTED", "FAILED"}
    /\ hosts \in Seq(Hosts)
    /\ made \in Hosts
    /\ cur \in 0 .. MaxHosts
    /\ reconnect \in BOOLEAN
    /\ oml \in BOOLEAN
    /\ rsl \subseteq Trx
    /\ shutdown \in BOOLEAN
    /\ exitProc \in BOOLEAN
    /\ process \in {"running", "exited", "aborted", "crashed"}
    /\ IsInjective(hosts)

\* abis_open() with one BSC configured: the first connection attempt.
Init ==
    /\ st = "CONNECTING"
    /\ hosts = <<1>>
    /\ made = 1
    /\ cur = 1
    /\ reconnect = FALSE
    /\ oml = FALSE
    /\ rsl = {}
    /\ shutdown = FALSE
    /\ exitProc = FALSE
    /\ process = "running"
-----------------------------------------------------------------------------
Successor(h) == hosts[CHOOSE i \in 2 .. Len(hosts) : hosts[i - 1] = h]

\* pick_next_bsc(): the BSC after the current one, if that is a configured one.
MutSticksToCurrent == IF cur = 0 THEN Head(hosts) ELSE cur
NextBsc == IF cur = 0 \/ cur = Last(hosts) THEN Head(hosts) ELSE Successor(cur)

\* It fails on an empty list; else it keeps the current BSC once after a lost
\* connection, which it asserts there is, or advances.  Behind a freed object there is
\* no telling what the list pointer leads to.
pick_next_bsc ==
    /\ hosts # <<>>
    /\ \/ /\ reconnect
          /\ reconnect' = (cur = 0)
          /\ process' = IF cur = 0 THEN "aborted" ELSE process
          /\ UNCHANGED cur
       \/ /\ ~reconnect /\ (cur = 0 \/ cur \in Range(hosts))
          /\ cur' = NextBsc
          /\ UNCHANGED <<reconnect, process>>
       \/ /\ ~reconnect /\ cur # 0 /\ cur \notin Range(hosts)
          /\ cur' \in Range(hosts)
          /\ process' \in {process, "crashed"}
          /\ UNCHANGED reconnect

\* bts_model_abis_close(): start a shutdown, or make the one in progress exit.
MutForgetsExit ==
    /\ shutdown' = TRUE
    /\ exitProc' = AbisCloseExits
bts_model_abis_close ==
    /\ shutdown' = TRUE
    /\ exitProc' = IF shutdown THEN exitProc \/ AbisCloseExits ELSE AbisCloseExits

\* The reconnect timer: abis_link_connecting_onenter().  Delay it during a shutdown,
\* fail without a BSC or when the line cannot be opened, else connect.
MutIgnoresShutdown ==
    /\ process = "running"
    /\ st = "WAIT_RECONNECT"
    /\ pick_next_bsc
    /\ st' = "CONNECTING"
    /\ UNCHANGED <<hosts, made, links, shutdown, exitProc>>
abis_link_connecting_onenter ==
    /\ process = "running"
    /\ st = "WAIT_RECONNECT"
    /\ ~shutdown
    /\ \/ /\ hosts = <<>>
          /\ st' = "FAILED"
          /\ bts_model_abis_close
          /\ UNCHANGED <<cur, reconnect, process>>
       \/ /\ pick_next_bsc
          /\ \/ st' = "CONNECTING" /\ UNCHANGED <<shutdown, exitProc>>
             \/ /\ st' = "FAILED"   \* e1inp_line_update() < 0
                /\ process' = process
                /\ bts_model_abis_close
    /\ UNCHANGED <<hosts, made, links>>

\* sign_link_up() for the OML link.
OmlUp ==
    /\ process = "running"
    /\ st = "CONNECTING"
    /\ st' = "CONNECTED"
    /\ oml' = TRUE
    /\ UNCHANGED <<hosts, made, cur, reconnect, rsl, shutdown, exitProc, process>>

\* sign_link_up() for the RSL link of t, which the BSC has asked for over OML.
RslUp(t) ==
    /\ process = "running"
    /\ st = "CONNECTED"
    /\ rsl' = rsl \cup {t}
    /\ UNCHANGED <<st, hosts, made, cur, reconnect, oml, shutdown, exitProc, process>>

\* SIGN_LINK_DOWN while connecting: try again later, with the next BSC.
ConnectFails ==
    /\ process = "running"
    /\ st = "CONNECTING"
    /\ st' = "WAIT_RECONNECT"
    /\ oml' = FALSE
    /\ UNCHANGED <<hosts, made, cur, reconnect, rsl, shutdown, exitProc, process>>

\* SIGN_LINK_DOWN while connected: drop all links, close the TRXs, and come back to
\* the same BSC first.
abis_link_connected ==
    /\ process = "running"
    /\ st = "CONNECTED"
    /\ st' = "WAIT_RECONNECT"
    /\ oml' = FALSE
    /\ rsl' = {}
    /\ bts_model_abis_close
    /\ reconnect' = TRUE
    /\ UNCHANGED <<hosts, made, cur, process>>

\* "oml remote-ip".
cfg_bts_oml_ip ==
    /\ process = "running"
    /\ made < MaxHosts
    /\ made' = made + 1
    /\ hosts' = Append(hosts, made + 1)
    /\ UNCHANGED <<st, cur, reconnect, links, shutdown, exitProc, process>>

\* "no oml remote-ip": abis_link_allstate() moves away from the object h, which is
\* then taken off the list and freed.
cfg_bts_no_oml_ip(h) ==
    /\ process = "running"
    /\ \E i \in DOMAIN hosts : hosts[i] = h /\ hosts' = RemoveAt(hosts, i)
    /\ IF cur # h THEN UNCHANGED <<cur, reconnect, process>>
       ELSE IF Len(hosts) = 1 THEN cur' = 0 /\ UNCHANGED <<reconnect, process>>
       ELSE pick_next_bsc
    /\ UNCHANGED <<st, made, links, shutdown, exitProc>>

\* A shutdown for another reason, a signal or a fatal error, which ends the process.
OtherShutdown ==
    /\ process = "running"
    /\ ~exitProc
    /\ shutdown' = TRUE
    /\ exitProc' = TRUE
    /\ UNCHANGED <<st, hosts, made, cur, reconnect, links, process>>

ShutdownDone ==
    /\ process = "running"
    /\ shutdown
    /\ shutdown' = FALSE
    /\ process' = IF exitProc THEN "exited" ELSE process
    /\ UNCHANGED <<st, hosts, made, cur, reconnect, links, exitProc>>

Next ==
    \/ abis_link_connecting_onenter
    \/ OmlUp
    \/ \E t \in Trx : RslUp(t)
    \/ ConnectFails
    \/ abis_link_connected
    \/ cfg_bts_oml_ip
    \/ \E h \in Hosts : cfg_bts_no_oml_ip(h)
    \/ OtherShutdown
    \/ ShutdownDone

Spec == Init /\ [][Next]_vars

\* The reconnect timer fires, a shutdown ends (see BtsShutdown), and a TCP connection
\* that is being set up comes up or fails.
FairSpec ==
    /\ Spec
    /\ WF_vars(abis_link_connecting_onenter)
    /\ WF_vars(ShutdownDone)
    /\ WF_vars(OmlUp \/ ConnectFails)
-----------------------------------------------------------------------------
\* Signalling links exist only below an established connection: nothing of the lost
\* connection is left when the BTS waits for the next one.
LinksOnlyWhenConnected == st # "CONNECTED" => ~oml /\ rsl = {}

\* The BTS does not talk to a BSC in the middle of a shutdown from which it will come
\* back: the TRXs are closed and reopened before the next connection.
NoLinkDuringShutdown == st \in {"CONNECTING", "CONNECTED"} /\ shutdown => exitProc

\* The links, the list of BSCs and the shutdown fit together.
AbisInv == TypeOK /\ LinksOnlyWhenConnected /\ NoLinkDuringShutdown

\* Failover: as long as no BSC answers, every one that stays configured is tried again
\* and again, whatever the operator adds and removes meanwhile.
Trying == process = "running" /\ st \in {"WAIT_RECONNECT", "CONNECTING"}
Tries(h) == st = "CONNECTING" /\ cur = h
EveryBscTried ==
    <>[]Trying => \A h \in Hosts : (h \in Range(hosts)) ~> (Tries(h) \/ h \notin Range(hosts))

\* The picture this module has of a shutdown is the one that BtsShutdown implements: a
\* lost link in the middle of a shutdown that is to end the process does not keep it alive.
Abstract == INSTANCE Shutdown WITH
    inProgress <- shutdown, exit <- exitProc,
    process <- IF process \in {"aborted", "crashed"} THEN "failed" ELSE process
ImplementsShutdown == Abstract!Spec
=============================================================================
