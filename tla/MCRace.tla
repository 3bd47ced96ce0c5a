------------------------------- MODULE MCRace -------------------------------
(* Two names for DisconnectRace. *)
EXTENDS DisconnectRace, TLC

CONSTANTS n1, n2

TwoNames == {n1, n2}
Symmetry == Permutations(TwoNames)
=============================================================================
