----------------------------- MODULE MCPasskeys -----------------------------
EXTENDS Passkeys, TLC

CONSTANTS u1, u2

\* The second account has challenges and keys, and stays as it is.
MCNext == Next /\ standing'[u2] = "enabled" /\ u2 \notin locked'
MCSpec == Init /\ [][MCNext]_vars

MCSymmetry == Permutations(Requests) \cup Permutations(Challenges) \cup Permutations(Copies)
              \cup Permutations(Interactions)
============================================================================
