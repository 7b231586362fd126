---------------------------- MODULE MCDeployment ----------------------------
EXTENDS Deployment

CONSTANTS old, new, fork
Migration(n) == [name |-> n, sum |-> n]
\* An upgrade, and a release that went another way.
MCManifest ==
  [r \in {old, new, fork} |->
     CASE r = old -> <<Migration(1)>>
       [] r = new -> <<Migration(1), Migration(2)>>
       [] r = fork -> <<Migration(1), Migration(3)>>]
============================================================================
