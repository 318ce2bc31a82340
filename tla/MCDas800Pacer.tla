--------------------------- MODULE MCDas800Pacer ---------------------------
(***************************************************************************)
(* Das800Pacer with counters of at most 16 ticks of 4 ns and an unsigned   *)
(* of 0 .. 255: every period is asked for, while other files test the       *)
(* shortest one, one in the middle and one no pair of counters reaches.    *)
(***************************************************************************)
EXTENDS Das800Pacer

MCRequests == 1 .. (Modulus - 1)
MCOthers == {Speed, Half, Modulus - 1}

=============================================================================
