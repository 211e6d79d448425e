---------------------------- MODULE DurableStore ----------------------------
(***************************************************************************)
(* What the durability core promises its clients.  store is the state a    *)
(* restart would bring back.  A batch enters it whole and at one instant,  *)
(* or never; nothing else ever changes it: not applying the batch to the   *)
(* trees, not a checkpoint or any part of one, not rotating the log, not a *)
(* crash, not a recovery.  A write is acknowledged only once store has it. *)
(***************************************************************************)
EXTENDS Naturals

CONSTANTS Keys, MaxWrite

VARIABLES store, staged, acked

vars == <<store, staged, acked>>

Writes == [key : Keys, val : 1 .. MaxWrite]

\* The entries after the writes W, where the newest write of a key wins.
Overlay(W, base) ==
  [k \in Keys |->
     IF \E w \in W : w.key = k
       THEN CHOOSE v \in {w.val : w \in {x \in W : x.key = k}} :
              \A w \in W : w.key = k => w.val <= v
       ELSE base[k]]

Init == store = [k \in Keys |-> 0] /\ staged = {} /\ acked = {}

Stage ==
  /\ \E w \in Writes : staged' = staged \cup {w}
  /\ UNCHANGED <<store, acked>>

Discard ==
  /\ staged' = {}
  /\ UNCHANGED <<store, acked>>

Commit ==
  /\ staged # {}
  /\ store' = Overlay(staged, store)
  /\ staged' = {}
  /\ UNCHANGED acked

WriteOne ==
  /\ staged = {}
  /\ \E w \in Writes : store' = Overlay({w}, store)
  /\ UNCHANGED <<staged, acked>>

Acknowledge ==
  /\ acked' \subseteq {w \in Writes : w.val <= store[w.key]}
  /\ acked \subseteq acked'
  /\ UNCHANGED <<store, staged>>

Next == Stage \/ Discard \/ Commit \/ WriteOne \/ Acknowledge

Spec == Init /\ [][Next]_vars
=============================================================================
