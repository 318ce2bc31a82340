-------------------------- MODULE MCWaveformDriver --------------------------
(* WaveformDriver for TLC: one process runs commands, reads and closes. *)
EXTENDS WaveformDriver, TLC

CONSTANTS t1, f1

ReaderFile == t1 :> f1
ReaderUses == t1 :> {"cmd", "read", "cancel", "close"}

=============================================================================
