---------------------------- MODULE MCPwmDriver -----------------------------
(***************************************************************************)
(* PwmDriver for TLC: the processes may be exchanged; one moves one  *)
(* wheel back, one the other, with a duty of 0 among the sizes.            *)
(***************************************************************************)
EXTENDS PwmDriver, TLC

MCPairs == {<<50, -30>>, <<-100, 0>>}

Symmetry == Permutations(Procs)
=============================================================================
