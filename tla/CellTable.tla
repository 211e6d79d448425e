----------------------------- MODULE CellTable -----------------------------
(***************************************************************************)
(* CellTable of metrics.rs: the lock-free, fixed table that charges reads  *)
(* and writes to coordinates.  Every load, compare-and-exchange and add is *)
(* a step of its own.  Reads and writes claim slots alike and differ only  *)
(* in the counter they add to, so one counter stands for both pairs.       *)
(***************************************************************************)
EXTENDS Integers, FiniteSets, Functions

CONSTANTS
  Threads, Coordinates,
  Home(_),        \* the slot a coordinate hashes to
  CellSlots,      \* CELL_SLOTS
  CellProbes,     \* CELL_PROBES
  MaxCharges,
  Free            \* the key of a slot nobody has claimed

Slots == 0 .. CellSlots - 1

CellBounds ==
  /\ CellSlots \in Nat \ {0} /\ CellProbes \in 1 .. CellSlots
  /\ Free \notin Coordinates
  /\ \A k \in Coordinates : Home(k) \in Slots

VARIABLES
  keys,           \* which coordinate holds a slot
  counts,         \* what has been charged to it
  overflow,       \* overflow_reads, overflow_writes
  at,             \* the step of each thread
  key, index, probes,
  charged,        \* history: completed charges of each coordinate
  spilled         \* history: those of them that went to the overflow

vars == <<keys, counts, overflow, at, key, index, probes, charged, spilled>>

Total == SumFunction(charged)

\* record_read, record_write.
Begin(t, k) ==
  /\ at[t] = "idle"
  /\ Total + Cardinality({u \in Threads : at[u] # "idle"}) < MaxCharges
  /\ at' = [at EXCEPT ![t] = "load"]
  /\ key' = [key EXCEPT ![t] = k]
  /\ index' = [index EXCEPT ![t] = Home(k)]
  /\ probes' = [probes EXCEPT ![t] = CellProbes]
  /\ UNCHANGED <<keys, counts, overflow, charged, spilled>>

\* The slot is not ours: the next one, or none.
Advance(t) ==
  /\ index' = [index EXCEPT ![t] = (@ + 1) % CellSlots]
  /\ probes' = [probes EXCEPT ![t] = @ - 1]
  /\ at' = [at EXCEPT ![t] = IF probes[t] = 1 THEN "spill" ELSE "load"]

Load(t) ==
  LET current == keys[index[t]] IN
  /\ at[t] = "load"
  /\ \/ /\ current = key[t]
        /\ at' = [at EXCEPT ![t] = "add"]
        /\ UNCHANGED <<index, probes>>
     \/ /\ current = Free
        /\ at' = [at EXCEPT ![t] = "claim"]
        /\ UNCHANGED <<index, probes>>
     \/ /\ current \notin {Free, key[t]}
        /\ Advance(t)
  /\ UNCHANGED <<keys, counts, overflow, key, charged, spilled>>

Found(t) == at' = [at EXCEPT ![t] = "add"] /\ UNCHANGED <<index, probes>>

\* The claim without the compare.
ClaimBlind(t) ==
  /\ at[t] = "claim"
  /\ keys' = [keys EXCEPT ![index[t]] = key[t]]
  /\ Found(t)
  /\ UNCHANGED <<counts, overflow, key, charged, spilled>>

\* The claim without the arm for a race both wanted to win.
ClaimMoves(t) ==
  /\ at[t] = "claim"
  /\ IF keys[index[t]] = Free
       THEN keys' = [keys EXCEPT ![index[t]] = key[t]] /\ Found(t)
       ELSE Advance(t) /\ UNCHANGED keys
  /\ UNCHANGED <<counts, overflow, key, charged, spilled>>

\* compare_exchange(0, key).  A race lost to the same coordinate is won as well.
Claim(t) ==
  LET actual == keys[index[t]] IN
  /\ at[t] = "claim"
  /\ \/ /\ actual = Free
        /\ keys' = [keys EXCEPT ![index[t]] = key[t]]
        /\ Found(t)
     \/ actual = key[t] /\ Found(t) /\ UNCHANGED keys
     \/ actual \notin {Free, key[t]} /\ Advance(t) /\ UNCHANGED keys
  /\ UNCHANGED <<counts, overflow, key, charged, spilled>>

Done(t) ==
  /\ at' = [at EXCEPT ![t] = "idle"]
  /\ charged' = [charged EXCEPT ![key[t]] = @ + 1]
  /\ UNCHANGED <<keys, key, index, probes>>

\* Some(index): fetch_add on the slot.
Add(t) ==
  /\ at[t] = "add"
  /\ counts' = [counts EXCEPT ![index[t]] = @ + 1]
  /\ Done(t)
  /\ UNCHANGED <<overflow, spilled>>

\* None: fetch_add on the overflow.
Spill(t) ==
  /\ at[t] = "spill"
  /\ overflow' = overflow + 1
  /\ spilled' = [spilled EXCEPT ![key[t]] = @ + 1]
  /\ Done(t)
  /\ UNCHANGED counts

Init ==
  /\ keys = [s \in Slots |-> Free] /\ counts = [s \in Slots |-> 0] /\ overflow = 0
  /\ at = [t \in Threads |-> "idle"] /\ key = [t \in Threads |-> Free]
  /\ index = [t \in Threads |-> 0] /\ probes = [t \in Threads |-> 0]
  /\ charged = [k \in Coordinates |-> 0] /\ spilled = [k \in Coordinates |-> 0]

Next ==
  \E t \in Threads :
    \/ \E k \in Coordinates : Begin(t, k)
    \/ Load(t) \/ Claim(t) \/ Add(t) \/ Spill(t)

Spec == Init /\ [][Next]_vars

-----------------------------------------------------------------------------
(* Properties.                                                             *)

\* Threads that meet a coordinate for the first time together still give it one
\* slot, so snapshot lists no coordinate twice: the compare_exchange of slot.
OneCellPerCoordinate ==
  \A s, r \in Slots : keys[s] = keys[r] /\ keys[s] # Free => s = r

\* snapshot: what the occupied slots say of a coordinate.
Attributed(k) == SumFunctionOnSet(counts, {s \in Slots : keys[s] = k})

\* The breakdown is complete but for what the overflow counts, for each coordinate,
\* whatever races for the slots: CellTable admits how much it is missing.
AttributionAddsUp ==
  /\ \A k \in Coordinates : Attributed(k) + spilled[k] = charged[k]
  /\ SumFunction(spilled) = overflow
=============================================================================
