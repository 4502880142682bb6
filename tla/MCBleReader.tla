---------------------------- MODULE MCBleReader ----------------------------
(* BleReader for TLC: a queue of two bytes and a semaphore that saturates   *)
(* at 2, so that both limits are reached.                                   *)
EXTENDS BleReader
=============================================================================
