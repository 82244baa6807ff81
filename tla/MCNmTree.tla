------------------------------- MODULE MCNmTree -------------------------------
(* The BTS models: osmo-bts-trx; osmo-bts-sysmo, -lc15 and -oc2g.          *)
EXTENDS NmTree
MCModels == {[dep |-> FALSE, late |-> FALSE], [dep |-> TRUE, late |-> TRUE]}
=============================================================================
