----------------------------- MODULE MCConsole -----------------------------
EXTENDS Console, TLC

CONSTANTS ann, bob, r1, r2
\* Ann administers both realms, bob reads and changes only the first.
MCGranted ==
  [a \in {ann, bob} |-> [r \in {r1, r2} |->
     IF a = ann THEN Kinds ELSE IF r = r1 THEN Kinds ELSE {}]]
\* Only safety is checked, and no definition tells these apart.
Interchangeable ==
  Permutations(Tabs) \cup Permutations(Values) \cup Permutations(Transactions)
============================================================================
