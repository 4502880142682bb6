---------------------------- MODULE MCBleParser ----------------------------
(* BleParser alone for TLC: lines of up to four characters and a buffer of  *)
(* two, so that lines that fit, just fit and do not fit all occur.          *)
EXTENDS BleParser
=============================================================================
