---------------------------- MODULE MCFederation ----------------------------
EXTENDS Federation, TLC

CONSTANTS s1, s2, alice
MCNameOf == [s \in {s1, s2} |-> alice]
MCNameOf1 == [s \in {s1} |-> alice]

MCSymmetry == Permutations(Requests) \cup Permutations(Flows) \cup Permutations(Answers) \cup Permutations(Handles)
              \cup Permutations(Interactions)
============================================================================
