----------------------- MODULE MCFederatedIdentities -----------------------
(* Two subjects whose profiles carry one login name, and a name of nobody. *)
EXTENDS FederatedIdentities, TLC

CONSTANTS s1, s2, alice
MCNameOf == [s \in {s1, s2} |-> alice]
============================================================================
