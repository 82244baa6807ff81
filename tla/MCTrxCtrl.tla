------------------------------ MODULE MCTrxCtrl ------------------------------
(* An instance of TrxCtrl with the kinds of command that trx_if.c tells apart: a     *)
(* retried one, the one whose callback closes the connection, one matched by its     *)
(* parameters, an optional one the transceiver does not know, and two tunings that   *)
(* only differ in parameters which a response is not compared with.                  *)
EXTENDS TrxCtrl

Cmd(n, p, crit, cb) == [name |-> n, par |-> p, crit |-> crit, cb |-> cb]

MCCmds == {Cmd("POWERON", 0, TRUE, TRUE), Cmd("POWEROFF", 0, TRUE, TRUE),
           Cmd("SETSLOT", 1, TRUE, FALSE), Cmd("SETFORMAT", 1, FALSE, FALSE),
           Cmd("RXTUNE", 1, TRUE, FALSE), Cmd("RXTUNE", 2, TRUE, FALSE)}
MCRejectable == {"POWERON", "SETSLOT"}
MCUnsupported == {"SETFORMAT"}
=============================================================================
