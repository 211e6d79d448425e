-------------------------- MODULE DurabilityHistory --------------------------
(***************************************************************************)
(* Durability with a history of the committed batches, to say what a torn  *)
(* batch is even when the log no longer has its frame.                     *)
(***************************************************************************)
EXTENDS Durability

VARIABLE batches  \* the mutations of every frame whose COMMIT was appended

NoteBatch ==
  batches' = IF pc = "stage" /\ pc' = "apply" THEN batches \cup {unit.ops} ELSE batches

HistorySpec ==
  /\ Init /\ batches = {}
  /\ [][Next /\ NoteBatch]_<<vars, batches>>

\* "Recovery replays a frame only when it sees the COMMIT, so the pair lands
\* together or not at all" (engine.rs, apply_atomic): if a restart brings back
\* one entry of a batch, it brings back (or a later write replaced) all of them.
BatchAtomic ==
  \A b \in batches :
     (\E r \in b : Recovered[r.key] = r.val) => \A r \in b : Recovered[r.key] >= r.val
=============================================================================
