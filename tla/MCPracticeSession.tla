------------------------- MODULE MCPracticeSession -------------------------
(* Instances of PracticeSession for TLC. *)
EXTENDS PracticeSession, TLC

CONSTANTS u1, dev, r1, r2, s1, s2, p1, p2, p3, arrays, graphs

ByTopic == [p \in Problems |-> IF p = p3 THEN graphs ELSE arrays]
SessionSymmetry == Permutations(Sessions)
RequestSymmetry == Permutations(Requests)
RaceSymmetry == SessionSymmetry \cup RequestSymmetry
=============================================================================
