------------------------------- MODULE MCEsp32 -------------------------------
(* Values for Esp32: three servers, two of which have to agree.               *)
EXTENDS Esp32

MCErrors == {-1, 0, 2}
=============================================================================
