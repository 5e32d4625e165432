-------------------------- MODULE MCConsoleSessions -------------------------
(* Small instances of ConsoleSessions for TLC. *)
EXTENDS ConsoleInvariant, TLC

Symmetry == Permutations(Calls) \cup Permutations(Keys) \cup Permutations(Tokens)
=============================================================================
