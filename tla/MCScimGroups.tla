---------------------------- MODULE MCScimGroups ----------------------------
(* Instances of ScimGroups for TLC.                                        *)
EXTENDS ScimGroups, TLC

CONSTANT Scenarios

\* Accounts, groups and requests differ only in their names.
Symmetry == Permutations(Accounts) \cup Permutations(Groups) \cup Permutations(Requests)

\* "etags": two requests at once on one group.  "serial": two groups and one request
\* at a time.  "sync": two requests at once on two groups.
VARIABLE scenario

OneGroup ==
  \A g, h \in Groups : state'[g] # "fresh" /\ g # h =>
    state'[h] = "fresh" /\ \A t \in Requests : request'[t].group # h
OneRequest == Cardinality({t \in Requests : request'[t] # NoRequest}) <= 1

MCInit == ScimInit /\ scenario \in Scenarios

MCNext ==
  /\ ScimNext /\ UNCHANGED scenario
  /\ scenario = "etags" => OneGroup
  /\ scenario = "serial" => OneRequest /\ \A g \in Groups : version'[g] <= 3

MCSpec == MCInit /\ [][MCNext]_<<scimVars, scenario>>
============================================================================
