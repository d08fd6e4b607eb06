---------------------------- MODULE MCQueryServer ----------------------------
(* QueryServer for TLC; its constants are numbers and are set in the cfg.     *)
EXTENDS QueryServer
=============================================================================
