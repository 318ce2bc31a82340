----------------------------- MODULE MCCfcDriver -----------------------------
(* CfcDriver for TLC: three ways to share a subdevice between threads. *)
EXTENDS CfcDriver, TLC

CONSTANTS t1, t2, t3, f1, f2

\* t1 runs commands on its file and t3, which shares the file, may cancel them;
\* t2 has a file of its own, locks, issues instructions, triggers and closes.
OneUserFile == t1 :> f1 @@ t2 :> f2 @@ t3 :> f1
OneUserUses ==
  t1 :> {"cmd", "read", "write", "poll", "bufinfo", "insn", "lock", "cancel",
         "close"}
  @@ t2 :> {"lock", "inttrig", "insn", "cancel", "bufinfo", "close"}
  @@ t3 :> {"cancel"}

\* Two processes, each with its own file, both run commands and read.
TwoUsersFile == t1 :> f1 @@ t2 :> f2
TwoUsersUses == [t \in {t1, t2} |-> {"cmd", "read"}]

\* One process reads.
ReaderFile == t1 :> f1
ReaderUses == t1 :> {"cmd", "read"}

=============================================================================
