---------------------------- MODULE MCRoughtime ----------------------------
(* Values for Roughtime: two servers, one of them a falseticker.            *)
EXTENDS Roughtime

=============================================================================
