---------------------------- MODULE MCMmuSystem ----------------------------
EXTENDS MmuSystem, TLC

CONSTANTS p1, p2

\* Processes are interchangeable.
PidSymmetry == Permutations(Pids)

FiveEach == [p \in Pids |-> 5]
ThreeEach == [p \in Pids |-> 3]
TwoAndFour == (p1 :> 2) @@ (p2 :> 4)

FirstPageOfP2 == {<<p2, 0>>}
=============================================================================
