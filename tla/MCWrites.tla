------------------------------ MODULE MCWrites ------------------------------
(***************************************************************************)
(* The write path on small instances: how a batch is lowered against the   *)
(* declared references and indexes, and the handlers of the HTTP API that  *)
(* race each other. Each behaviour is one scenario, picked in the initial  *)
(* state: one component with one choice of its constants. The variables of *)
(* the component that does not run keep a fixed value; a name that both    *)
(* use is one variable here.                                               *)
(***************************************************************************)
EXTENDS Integers, Sequences

CONSTANTS n1, n2, q, alice, root, None, Everyone, Untouched

VARIABLES
  scenario,
  nodes, edges, refs, ixs, staged, stagedEdges, lowered, size, refused,  \* Batches
  tasks, left, feed, changed, consumer, claims, steps, blocks  \* Handlers

batchVars == <<nodes, edges, refs, ixs, staged, stagedEdges, lowered, size,
               refused>>
handlerVars == <<nodes, edges, tasks, left, feed, changed, consumer, claims,
                 steps, blocks>>
vars == <<scenario, batchVars, handlerVars>>

\* The nodes that batches write, the references and indexes declared over them.
Shape(k, v, r) == [kind |-> k, own |-> "o", val |-> v, ref |-> r]
Index(k, f, u) == [kind |-> k, field |-> f, unique |-> u]
Reference(i, k, p, y, act) ==
  [name |-> i, kind |-> k, parent |-> p, by |-> y, act |-> act]

\* Nodes that reference each other, or a parent, by address.
TreeShapes == {Shape("c", 0, r) : r \in {None, 1, 2}}
              \cup {Shape("p", 0, None), [Shape("p", 0, None) EXCEPT !.own = "q"]}
TreeIndexes == {Index("c", "ref", FALSE)}
TreeDefs == {Reference(1, "c", "c", "address", "cascade"),
             Reference(2, "c", "p", "address", "restrict")}

\* Children that reference a parent by a unique field.
FieldShapes == {Shape("p", v, None) : v \in {11, 12}}
               \cup {Shape("c", 11, r) : r \in {None, 11, 12}}
FieldIndexes == {Index("c", "ref", FALSE), Index("p", "val", TRUE)}
FieldDefs == {Reference(1, "c", "p", "val", "set_null"),
              Reference(2, "c", "p", "val", "cascade")}

\* Requests.
Ask == [do |-> "", addr |-> n1, edge |-> <<n1, n2>>, edges |-> {}, pub |-> FALSE,
        data |-> 0, if_absent |-> FALSE, expect |-> 0, ops |-> <<>>, owner |-> None,
        claimed_by |-> None]
CreateAbsent(x) == [Ask EXCEPT !.do = "create", !.addr = x, !.if_absent = TRUE]
CreateLinked(x, e) == [Ask EXCEPT !.do = "create", !.addr = x, !.edges = {e}]
DeleteOf(x) == [Ask EXCEPT !.do = "delete", !.addr = x]
UpdateOf(x) == [Ask EXCEPT !.do = "update", !.addr = x, !.data = 1]
ClaimOf(x) == [Ask EXCEPT !.do = "claim", !.addr = x]
EdgeOf(e) == [Ask EXCEPT !.do = "edge", !.edge = e]
UnedgeOf(e) == [Ask EXCEPT !.do = "unedge", !.edge = e]
NextOf(n) == [Ask EXCEPT !.do = "next", !.addr = q, !.data = n]
InsertOf(x) == [Ask EXCEPT !.do = "insert", !.addr = x]
InsertLeased(x) == [InsertOf(x) EXCEPT !.owner = alice, !.claimed_by = root]
SetIfOf(x, v) == [Ask EXCEPT !.do = "set_if", !.addr = x, !.expect = v, !.data = v + 1]
ClearAll == [Ask EXCEPT !.do = "clear"]
Batch(s) == [Ask EXCEPT !.do = "transaction", !.ops = s]

Private(who) == [own |-> who, pub |-> FALSE, data |-> 0, lease |-> None]
Having(S) == [x \in {n1, n2, q} |-> IF x \in S THEN Private(alice) ELSE None]

\* Claims and conditional writes.
Contended ==
  {ClaimOf(n1), DeleteOf(n1), CreateAbsent(n1), Batch(<<SetIfOf(n1, 0)>>),
   Batch(<<SetIfOf(n1, 1)>>), Batch(<<InsertOf(n1), SetIfOf(n1, 0)>>),
   Batch(<<ClearAll, InsertOf(n1)>>), Batch(<<InsertLeased(n1)>>)}

\* Edges and sequences.
Unlink == [UnedgeOf(<<n1, n2>>) EXCEPT !.addr = n1]
Links ==
  {EdgeOf(<<n1, n2>>), UnedgeOf(<<n1, n2>>), CreateLinked(n1, <<n1, n2>>), DeleteOf(n2),
   Batch(<<[EdgeOf(<<n1, n2>>) EXCEPT !.addr = n1], Unlink>>), Batch(<<Unlink>>),
   NextOf(1), NextOf(2), NextOf(3), ClaimOf(q), UpdateOf(n1)}

-----------------------------------------------------------------------------
(* The scenarios.                                                          *)

\* Cascades and restrictions along references by address.
Trees == INSTANCE Batches
  WITH Addrs <- 1 .. 3, Shapes <- TreeShapes, IndexDefs <- TreeIndexes,
       Defs <- TreeDefs, Callers <- {"o", "q"}, EdgeIds <- {}, MaxBatch <- 2,
       MaxOps <- 5, Rewrites <- FALSE

\* References by a unique field, whose values batches move around.
Fields == INSTANCE Batches
  WITH Addrs <- 1 .. 3, Shapes <- FieldShapes, IndexDefs <- FieldIndexes,
       Defs <- FieldDefs, Callers <- {"o"}, EdgeIds <- {}, MaxBatch <- 2,
       MaxOps <- 6, Rewrites <- FALSE

\* An edge whose ends come and go in the same batch.
Edges == INSTANCE Batches
  WITH Addrs <- 1 .. 2, Shapes <- TreeShapes, IndexDefs <- TreeIndexes,
       Defs <- TreeDefs, Callers <- {"o", "q"}, EdgeIds <- {<<1, 2>>},
       MaxBatch <- 2, MaxOps <- 6, Rewrites <- FALSE

\* Two threads that claim, delete and conditionally write one node.
Claims == INSTANCE Handlers
  WITH Addrs <- {n1, n2, q}, SeqAddr <- q, EdgeIds <- {},
       Clients <- {alice, root}, Admins <- {root}, Tasks <- {1, 2},
       Requests <- Contended, Initial <- Having({n1}), Kids <- {},
       MaxRequests <- 4, SeqMax <- 6, MaxBlock <- 2, Following <- FALSE

\* Two threads that link two nodes and draw from one sequence.
Linking == INSTANCE Handlers
  WITH Addrs <- {n1, n2, q}, SeqAddr <- q, EdgeIds <- {<<n1, n2>>},
       Clients <- {alice, root}, Admins <- {root}, Tasks <- {1, 2},
       Requests <- Links, Initial <- Having({n1, n2}), Kids <- {},
       MaxRequests <- 3, SeqMax <- 6, MaxBlock <- 2, Following <- FALSE

ASSUME ConstantsSensible == Trees!BatchBounds /\ Fields!BatchBounds /\ Edges!BatchBounds

\* What a scenario of Batches leaves alone.
notBatch == <<tasks, left, feed, changed, consumer, claims, steps, blocks>>
OnlyBatch ==
  /\ tasks = 0 /\ left = 0 /\ feed = 0 /\ changed = 0 /\ consumer = 0
  /\ claims = 0 /\ steps = 0 /\ blocks = 0

\* What a scenario of Handlers leaves alone.
notHandler == <<refs, ixs, staged, stagedEdges, lowered, size, refused>>
OnlyHandler ==
  /\ refs = 0 /\ ixs = 0 /\ staged = 0 /\ stagedEdges = 0 /\ lowered = 0
  /\ size = 0 /\ refused = 0

Init ==
  \/ /\ OnlyBatch
     /\ \/ scenario = "trees" /\ Trees!Init
        \/ scenario = "fields" /\ Fields!Init
        \/ scenario = "edges" /\ Edges!Init
  \/ /\ OnlyHandler
     /\ \/ scenario = "claims" /\ Claims!Init
        \/ scenario = "links" /\ Linking!Init

Next ==
  \/ scenario = "trees" /\ Trees!Next /\ UNCHANGED <<scenario, notBatch>>
  \/ scenario = "fields" /\ Fields!Next /\ UNCHANGED <<scenario, notBatch>>
  \/ scenario = "edges" /\ Edges!Next /\ UNCHANGED <<scenario, notBatch>>
  \/ scenario = "claims" /\ Claims!Next /\ UNCHANGED <<scenario, notHandler>>
  \/ scenario = "links" /\ Linking!Next /\ UNCHANGED <<scenario, notHandler>>

Spec == Init /\ [][Next]_vars

-----------------------------------------------------------------------------
(* What is checked, in which scenario. The formulas are the components'.   *)

\* engine.rs, lower_delete_closure, check_references, check_unique, drop_index: a
\* committed state keeps the declared rules. No reference dangles, no two nodes
\* share the value of a unique index, and the indexes a reference needs exist.
RulesHold ==
  /\ scenario = "trees" => Trees!ReferencesHold
  /\ scenario = "fields" => /\ Fields!ReferencesHold /\ Fields!UniqueHolds
                            /\ Fields!ReferencesEnforceable

\* engine.rs, lower_transaction and apply_transaction: the overlay an operation is
\* judged against is what its mutations will produce, each archive holds the state
\* that the mutation after it supersedes, and the apply pass meets the nodes and
\* edges that lowering counted on.
LoweredIsApplied ==
  /\ scenario = "trees" => Trees!StagedIsWhatApplies /\ Trees!ArchivesWhatIsSuperseded
  /\ scenario = "fields" => Fields!StagedIsWhatApplies
  /\ scenario = "edges" => Edges!ApplyMeetsWhatWasLowered

\* engine.rs, claim, set_if_next and sequence_next: a look and the write that
\* depends on it are one step.  Of racing claims one is granted, of racing
\* conditional increments none is lost, and no two callers get the same number of a
\* sequence.
ChecksAreAtomic ==
  /\ scenario = "claims" => Claims!ClaimGrantedOnce /\ Claims!NoLostIncrement
  /\ scenario = "links" => Linking!BlocksDisjoint

=============================================================================
