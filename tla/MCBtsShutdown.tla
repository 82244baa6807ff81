---------------------------- MODULE MCBtsShutdown ----------------------------
(* Instances of BtsShutdown.                                                  *)
EXTENDS BtsShutdown
MCOneLevel == {4000}
=============================================================================
