--------------------------- MODULE MCSerialRxFifo ---------------------------
(* SerialRxFifo for TLC: two byte values and a ring of a few cells; the     *)
(* driver's rings have 64 and 128.                                          *)
EXTENDS SerialRxFifo
=============================================================================
