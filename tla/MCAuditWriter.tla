---------------------------- MODULE MCAuditWriter --------------------------
(* An instance of AuditWriter for TLC.                                     *)
EXTENDS AuditWriter, TLC

CONSTANTS p1, p2, p3, p4, e1, e2, e3, k1, k2

Plain == <<p1, p2, p3, p4>>
Keys == [e \in Range(Plain) |-> Undefined] @@ (e1 :> k1) @@ (e2 :> k1) @@ (e3 :> k2)

\* "queue": four events that are not sampled, in any order, with flushes and the
\* shutdown.  "sampling": three of them, in their order, before the first of three
\* events of two keys, with the clock, in a writer that is not closed.
VARIABLE scenario

Emitted(e) == stage'[e] # "new"

MCInit == WriterInit /\ scenario \in {"queue", "sampling"}

MCNext ==
  /\ WriterNext /\ UNCHANGED scenario
  /\ scenario = "queue" => now' = now /\ ~\E e \in {e1, e2, e3} : Emitted(e)
  /\ scenario = "sampling" =>
       /\ accepting' /\ \A w \in Flushers : flusher'[w].at = "out"
       /\ Emitted(p2) => Emitted(p1)
       /\ Emitted(p3) => Emitted(p2)
       /\ ~Emitted(p4)
       /\ (\E e \in {e1, e2, e3} : Emitted(e)) => Emitted(p3)
       /\ Emitted(e2) => Emitted(e1)
       /\ now' > 0 => Emitted(e1)

MCSpec == MCInit /\ [][MCNext]_<<writerVars, scenario>> /\ Fairness
============================================================================
