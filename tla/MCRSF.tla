------------------------------- MODULE MCRSF -------------------------------
(* Values of the constants of RSF for TLC. *)
EXTENDS RSFImplements, TLC

CONSTANTS c1, c2, a, b, d

NoCopies == {}
OneCopy == {<<0, a>>}
Symmetry == Permutations(CopyId)
SymmetryBut_a == Permutations(CopyId \ {a})
Params == [c \in Client |-> IF c = c1 THEN {1} ELSE {5}]
ParamsTwo == [c \in Client |-> {1, 2}]
=============================================================================
