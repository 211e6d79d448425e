------------------------------ MODULE MCFaults ------------------------------
(***************************************************************************)
(* Durability under failing appends, power loss and rotations that lose    *)
(* the handle, together.  What its main instance shows does not all hold   *)
(* here; these properties say what is left of it.                          *)
(***************************************************************************)
EXTENDS Durability

\* The store as the clients know it whose writes went to the named file.
NamedStore == INSTANCE DurableStore
                WITH store <- Recovered,
                     staged <- IF pc = "stage" THEN Writes(unit.ops) ELSE {},
                     acked <- Writes({a \in acked : a.val \notin stray})

\* commit.rs, transaction.rs: while the handle has its name, what a restart brings
\* back changes only as DurableStore says, by whole batches, though appends fail
\* and frames are abandoned; but for a power loss, which may drop unsynced ones.
\* The acknowledged writes are those appended to a file that had its name.
StoreUnlessPowerLoss == [][~orphan => NamedStore!Next \/ PowerLoss]_(NamedStore!vars)
=============================================================================
