--------------------------- MODULE MCOidcRecords ---------------------------
(* An instance of OidcRecords for TLC.                                     *)
EXTENDS OidcRecords, TLC

CONSTANTS u1, u2, g1, a1, s1, s2, t1, t2

OneModel == {{a1}}
Owner == (g1 :> u1)

\* Four parts of one instance.  "saves": two saves and one transaction of two accounts.
\* "changes": one save and two transactions of two accounts.  "versions": two saves while
\* one account changes twice.  In these nothing expires.  "expiry": one save, deletions
\* of its account, replay proofs and the clock.
VARIABLE scenario

NothingExpires == now' = now /\ \A k \in Keys : rows'[k] # NoRow => rows'[k].exp = None
GrantsAreNotConsumed == rows'[g1] # NoRow => ~rows'[g1].consumed
NoProofs == \A p \in Proofs : rows'[p] = NoRow
OneUser == standing'[u2] = "fresh" /\ \A s \in Savers : save'[s].acct # u2
OneTx == tx'[t2] = NoTx
OneChange == \A t \in Txs : tx[t] = NoTx /\ tx'[t] # NoTx => version[tx'[t].user] = 0
Reenabled == \A t \in Txs : tx'[t] # NoTx => tx'[t].target = "enabled"
Deletions == \A t \in Txs : tx'[t] # NoTx => tx'[t].target = "deleted"
OneSave == save'[s2] = NoSave

MCInit == Init /\ scenario \in {"saves", "changes", "versions", "expiry"}

MCNext ==
  /\ Next /\ UNCHANGED scenario /\ GrantsAreNotConsumed
  /\ scenario = "saves" => NothingExpires /\ NoProofs /\ OneTx /\ OneChange /\ Reenabled
  /\ scenario = "changes" => NothingExpires /\ NoProofs /\ OneSave /\ OneChange
  /\ scenario = "versions" => NothingExpires /\ NoProofs /\ OneUser /\ OneTx
  /\ scenario = "expiry" => OneUser /\ OneTx /\ OneSave /\ Deletions

MCSpec == MCInit /\ [][MCNext]_<<vars, scenario>> /\ Fairness
============================================================================
