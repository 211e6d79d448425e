------------------------------ MODULE Handlers ------------------------------
(***************************************************************************)
(* The request handlers of api/routes.rs that change data, run by several  *)
(* blocking threads at once.  Database::with_engine_mut moves a handler to *)
(* a blocking thread and takes no lock; each call of the engine that       *)
(* writes takes the writer mutex for its own length.  So a handler is a    *)
(* sequence of steps (reads, one engine call, the event) between which     *)
(* other handlers run.                                                     *)
(*                                                                         *)
(* A consumer with an admin's token keeps a copy of the nodes: it          *)
(* subscribes to the events, scans the changes, and fetches again each     *)
(* address that either of them names.                                      *)
(*                                                                         *)
(* data is a number: the value of the field a set_if compares, and of the  *)
(* field next of a sequence's node, 0 when the field is absent.  Reads and *)
(* writes of the storage succeed here; Durability.tla, GroupCommit.tla and *)
(* Segments.tla are about the ones that do not.                            *)
(***************************************************************************)
EXTENDS Integers, Sequences, FiniteSets

CONSTANTS
  Addrs, SeqAddr,   \* addresses; the address of the one sequence
  EdgeIds,          \* pairs <<from, to>>
  Clients, Admins,  \* identities
  Tasks,            \* blocking threads
  Requests,         \* what clients ask
  Initial,          \* the nodes at the beginning
  Kids,             \* <<child, parent>>: declared references that cascade
  MaxRequests,      \* requests in a behaviour
  SeqMax,           \* u64::MAX
  MaxBlock,         \* MAX_SEQUENCE_BLOCK
  Following,        \* whether the consumer is there
  None, Everyone

VARIABLES
  nodes, edges,     \* committed nodes and edges (the owner of the edge)
  tasks,            \* what each thread is doing
  left,             \* requests still to come
  feed,             \* events, in the order of their positions
  changed,          \* addresses with a record in the log
  consumer,         \* the consumer and its copy
  claims,           \* history: grants of the lease since the last overwrite
  steps,            \* history: successful set_ifs since the last overwrite
  blocks            \* history: blocks handed out by the sequence

vars == <<nodes, edges, tasks, left, feed, changed, consumer, claims, steps, blocks>>
store == <<nodes, edges, changed, claims, steps, blocks>>

CanWrite(who, n) == who \in Admins \/ n.own = who
CanRead(who, n) == who \in Admins \/ n.pub \/ n.own = who
ForNode(n) == IF n.pub THEN Everyone ELSE n.own

Idle == [at |-> "idle", who |-> None, req |-> None, node |-> None, aud |-> None,
         todo |-> <<>>, touched |-> {}]

-----------------------------------------------------------------------------
(* The steps of a thread.                                                  *)

Arrives(t, r) == tasks[t] = Idle /\ left > 0 /\ left' = left - 1
Task(at, who, r, n, aud) ==
  [Idle EXCEPT !.at = at, !.who = who, !.req = r, !.node = n, !.aud = aud]
Goes(t, task) == tasks' = [tasks EXCEPT ![t] = task]
Refuse(t) == Goes(t, Idle) /\ UNCHANGED store
Reads == UNCHANGED <<store, feed, consumer>>

\* The node a POST /node writes.
NewNode(who, r) == [own |-> who, pub |-> r.pub, data |-> r.data, lease |-> None]

\* create_node: the look at the address, outside the lock.
create_node(t, who, r) ==
  /\ r.do = "create" /\ Arrives(t, r) /\ Reads
  /\ IF r.if_absent /\ nodes[r.addr] # None THEN Goes(t, Idle)
     ELSE Goes(t, Task("write", who, r, NewNode(who, r), ForNode(NewNode(who, r))))

\* update_node: the copy of the node it will write.
update_node(t, who, r) ==
  /\ r.do = "update" /\ Arrives(t, r) /\ Reads
  /\ LET old == nodes[r.addr]
         new == [old EXCEPT !.data = r.data, !.pub = r.pub]
     IN IF old = None THEN Goes(t, Idle)
        ELSE IF ~CanWrite(who, old) THEN Goes(t, Idle)
        ELSE Goes(t, Task("write", who, r, new, ForNode(new)))

delete_node(t, who, r) ==
  /\ r.do = "delete" /\ Arrives(t, r) /\ Reads
  /\ LET old == nodes[r.addr]
     IN IF old = None THEN Goes(t, Idle)
        ELSE IF ~CanWrite(who, old) THEN Goes(t, Idle)
        ELSE Goes(t, Task("write", who, r, old, ForNode(old)))

\* claim_node: an absent node is left to the engine to refuse.
claim_node(t, who, r) ==
  /\ r.do = "claim" /\ Arrives(t, r) /\ Reads
  /\ LET old == nodes[r.addr]
     IN IF old = None THEN Goes(t, Task("write", who, r, None, who))
        ELSE IF ~CanWrite(who, old) THEN Goes(t, Idle)
        ELSE Goes(t, Task("write", who, r, old, ForNode(old)))

authorize_edge(who, e) ==
  who \notin Admins =>
    /\ nodes[e[1]] # None => (CanRead(who, nodes[e[1]]) /\ CanWrite(who, nodes[e[1]]))
    /\ nodes[e[2]] # None => CanRead(who, nodes[e[2]])

create_edge(t, who, r) ==
  /\ r.do = "edge" /\ Arrives(t, r) /\ Reads
  /\ IF authorize_edge(who, r.edge) THEN Goes(t, Task("endpoints", who, r, None, who))
     ELSE Goes(t, Idle)

\* The fallback audience is the owner of the edge.
delete_edge(t, who, r) ==
  /\ r.do = "unedge" /\ Arrives(t, r) /\ Reads
  /\ IF edges[r.edge] = None THEN Goes(t, Idle)
     ELSE IF who \notin Admins /\ edges[r.edge] # who THEN Goes(t, Idle)
     ELSE Goes(t, Task("endpoints", who, r, None, edges[r.edge]))

public_endpoints(e) ==
  \A a \in {e[1], e[2]} : IF nodes[a] = None THEN FALSE ELSE nodes[a].pub
resolve_audience(t) ==
  LET task == tasks[t]
  IN /\ task.at = "endpoints" /\ Reads /\ UNCHANGED left
     /\ Goes(t, [task EXCEPT !.at = "write",
                             !.aud = IF public_endpoints(task.req.edge) THEN Everyone
                                     ELSE @])

-----------------------------------------------------------------------------
(* execute_transaction.  Its operations are examined one by one, outside   *)
(* the lock: that finds refusals and the addresses the event will name.    *)

execute_transaction(t, who, r) ==
  /\ r.do = "transaction" /\ Arrives(t, r) /\ Reads
  /\ Goes(t, [Task("examine", who, r, None, who) EXCEPT !.todo = r.ops])

\* selection_matches, without a predicate.
Selected(ns, who) ==
  {a \in Addrs \ {SeqAddr} : IF ns[a] = None THEN FALSE ELSE CanWrite(who, ns[a])}

\* The addresses of set_if are left to its caller to know.
TouchesNoSetIf(who, op) ==
  CASE op.do = "insert" -> {op.addr} [] op.do = "delete" -> {op.addr}
    [] op.do = "clear" -> Selected(nodes, who) [] OTHER -> {}

Touches(who, op) ==
  CASE op.do \in {"insert", "delete", "set_if"} -> {op.addr}
    [] op.do = "clear" -> Selected(nodes, who)
    [] OTHER -> {}

Admissible(who, op) ==
  CASE op.do = "insert" -> who \in Admins \/ (op.owner = None /\ op.claimed_by = None)
    [] op.do = "edge" -> authorize_edge(who, op.edge)
    [] op.do = "unedge" -> who \in Admins \/ edges[op.edge] = who
    [] op.do = "delete" -> \/ who \in Admins
                           \/ IF nodes[op.addr] = None THEN FALSE
                              ELSE CanWrite(who, nodes[op.addr])
    [] OTHER -> TRUE

examine(t) ==
  LET task == tasks[t]
      op == Head(task.todo)
  IN /\ task.at = "examine" /\ Reads /\ UNCHANGED left
     /\ IF task.todo = <<>> THEN Goes(t, [task EXCEPT !.at = "write"])
        ELSE IF Admissible(task.who, op)
        THEN Goes(t, [task EXCEPT !.todo = Tail(@),
                                  !.touched = @ \cup Touches(task.who, op)])
        ELSE Goes(t, Idle)

-----------------------------------------------------------------------------
(* The engine's calls, each under the writer mutex to its end.             *)

\* What is committed: the nodes, the edges, the addresses written, and the
\* ones among them whose grants start again.
Commit(t, ns, es, written, overwritten) ==
  /\ nodes' = ns /\ edges' = es /\ changed' = changed \cup written
  /\ claims' = [a \in Addrs |-> IF a \in overwritten THEN 0 ELSE claims[a]]
  /\ steps' = [a \in Addrs |-> IF a \in overwritten THEN 0 ELSE steps[a]]
  /\ UNCHANGED blocks
  /\ Goes(t, [tasks[t] EXCEPT !.at = "publish"])

Writes(t, do) == tasks[t].at = "write" /\ tasks[t].req.do = do
                 /\ UNCHANGED <<left, feed, consumer>>

\* lower_delete_closure, for references that cascade (Batches.tla has all).
RECURSIVE Closure(_, _)
Closure(ns, S) ==
  LET more == {a \in Addrs \ S : ns[a] # None /\ \E p \in S : <<a, p>> \in Kids}
  IN IF more = {} THEN S ELSE Closure(ns, S \cup more)
Without(ns, S) == [a \in Addrs |-> IF a \in S THEN None ELSE ns[a]]

insert_with_edges(t) ==
  LET r == tasks[t].req
      old == nodes[r.addr]
      new == tasks[t].node
      es == {e \in EdgeIds : e \in r.edges}
  IN /\ Writes(t, "create")
     /\ IF IF old = None THEN FALSE ELSE ~CanWrite(tasks[t].who, old) THEN Refuse(t)
        ELSE IF \E e \in es : e[2] # r.addr /\ nodes[e[2]] = None THEN Refuse(t)
        ELSE Commit(t, [nodes EXCEPT ![r.addr] = new],
                    [e \in EdgeIds |-> IF e \in es THEN tasks[t].who ELSE edges[e]],
                    {r.addr}, {r.addr})

\* insert: the caller's copy, whatever is at the address now.
insert(t) ==
  /\ Writes(t, "update")
  /\ LET a == tasks[t].req.addr
     IN Commit(t, [nodes EXCEPT ![a] = tasks[t].node], edges, {a}, {})

delete(t) ==
  /\ Writes(t, "delete")
  /\ LET a == tasks[t].req.addr
         gone == IF nodes[a] = None THEN {a} ELSE Closure(nodes, {a})
     IN Commit(t, Without(nodes, gone), edges, gone, gone)

\* The check on the copy read before the lock.
claimUnlocked(t) ==
  /\ Writes(t, "claim")
  /\ LET a == tasks[t].req.addr
         n == tasks[t].node
     IN IF n = None THEN Refuse(t)
        ELSE IF n.lease # None THEN Refuse(t)
        ELSE /\ nodes' = [nodes EXCEPT ![a] = [n EXCEPT !.lease = tasks[t].who]]
             /\ claims' = [claims EXCEPT ![a] = @ + 1]
             /\ changed' = changed \cup {a}
             /\ Goes(t, [tasks[t] EXCEPT !.at = "publish"])
             /\ UNCHANGED <<edges, steps, blocks>>

claim(t) ==
  /\ Writes(t, "claim")
  /\ LET a == tasks[t].req.addr
         n == nodes[a]
     IN IF n = None THEN Refuse(t)
        ELSE IF n.lease # None THEN Refuse(t)
        ELSE /\ nodes' = [nodes EXCEPT ![a] = [n EXCEPT !.lease = tasks[t].who]]
             /\ claims' = [claims EXCEPT ![a] = @ + 1]
             /\ changed' = changed \cup {a}
             /\ Goes(t, [tasks[t] EXCEPT !.at = "publish"])
             /\ UNCHANGED <<edges, steps, blocks>>

insert_edge(t) ==
  /\ Writes(t, "edge")
  /\ LET e == tasks[t].req.edge
     IN IF \/ nodes[e[1]] = None \/ nodes[e[2]] = None
           \/ edges[e] \notin {None, tasks[t].who}
        THEN Refuse(t)
        ELSE Commit(t, nodes, [edges EXCEPT ![e] = tasks[t].who], {}, {})

remove_edge(t) ==
  /\ Writes(t, "unedge")
  /\ LET e == tasks[t].req.edge
     IN IF edges[e] = None THEN Refuse(t)
        ELSE Commit(t, nodes, [edges EXCEPT ![e] = None], {}, {})

\* expect_le where expect_eq was asked.
HoldsAtMost(n, op) == n.data <= op.expect
\* The condition of a set_if (expect_eq).
Holds(n, op) == n.data = op.expect

\* The node an insert_node writes: an admin may name its owner and its lease.
Inserted(who, op) ==
  [NewNode(IF op.owner = None THEN who ELSE op.owner, op) EXCEPT !.lease = op.claimed_by]

\* One operation of a batch on the nodes and edges as the batch has left
\* them (b); ok is FALSE when the batch is refused.
LowerOp(b, who, op) ==
  LET n == b.nodes[op.addr]
      mine == IF n = None THEN FALSE ELSE CanWrite(who, n)
      removed(S) == [b EXCEPT !.nodes = Without(b.nodes, Closure(b.nodes, S)),
                              !.written = @ \cup Closure(b.nodes, S),
                              !.fresh = @ \cup Closure(b.nodes, S)]
  IN CASE ~b.ok -> b
       [] op.do = "insert" ->
            [b EXCEPT !.ok = IF n = None THEN TRUE ELSE n.own = Inserted(who, op).own,
                      !.nodes[op.addr] = Inserted(who, op),
                      !.written = @ \cup {op.addr}, !.fresh = @ \cup {op.addr}]
       [] op.do = "delete" ->
            IF n = None THEN [b EXCEPT !.ok = op.addr \in b.written]
            ELSE removed({op.addr})
       [] op.do = "clear" -> removed(Selected(b.nodes, who))
       [] op.do = "set_if" ->
            IF ~mine THEN [b EXCEPT !.ok = FALSE]
            ELSE IF ~Holds(n, op) THEN [b EXCEPT !.ok = FALSE]
            ELSE [b EXCEPT !.nodes[op.addr].data = op.data,
                           !.written = @ \cup {op.addr}, !.set = Append(@, op.addr)]
       [] op.do = "edge" ->
            [b EXCEPT !.ok = b.nodes[op.edge[1]] # None /\ b.nodes[op.edge[2]] # None,
                      !.edges[op.edge] = who, !.cut = @ \ {op.edge}]
       [] op.do = "unedge" /\ op.edge \in b.cut -> b
       [] op.do = "unedge" /\ op.edge \notin b.cut ->
            [b EXCEPT !.ok = \/ b.edges[op.edge] = who
                             \/ who \in Admins /\ b.edges[op.edge] # None,
                      !.edges[op.edge] = None, !.cut = @ \cup {op.edge}]

RECURSIVE Lower(_, _, _)
Lower(b, who, ops) == IF ops = <<>> THEN b ELSE Lower(LowerOp(b, who, Head(ops)), who, Tail(ops))

apply_transaction(t) ==
  LET b == Lower([ok |-> TRUE, nodes |-> nodes, edges |-> edges, written |-> {},
                  fresh |-> {}, cut |-> {}, set |-> <<>>], tasks[t].who, tasks[t].req.ops)
      sets(a) == Cardinality({i \in DOMAIN b.set : b.set[i] = a})
  IN /\ Writes(t, "transaction")
     /\ IF ~b.ok THEN Refuse(t)
        ELSE /\ nodes' = b.nodes /\ edges' = b.edges /\ changed' = changed \cup b.written
             /\ claims' = [a \in Addrs |-> IF a \in b.fresh THEN 0 ELSE claims[a]]
             /\ steps' = [a \in Addrs |-> sets(a) + IF a \in b.fresh THEN 0 ELSE steps[a]]
             /\ Goes(t, [tasks[t] EXCEPT !.at = "publish"]) /\ UNCHANGED blocks

\* The value after the block is its last.
sequenceNextInclusive(t, who, r) ==
  LET old == nodes[SeqAddr]
      start == IF old = None THEN 1 ELSE IF old.data = 0 THEN 1 ELSE old.data
      owner == IF old = None THEN who ELSE old.own
      mine == IF old = None THEN TRUE ELSE CanWrite(who, old)
  IN /\ r.do = "next" /\ Arrives(t, r) /\ UNCHANGED <<tasks, feed, consumer>>
     /\ IF mine /\ r.data \in 1 .. MaxBlock /\ start + r.data <= SeqMax
        THEN /\ nodes' = [nodes EXCEPT ![SeqAddr] =
                 [own |-> owner, pub |-> FALSE, data |-> start + r.data - 1, lease |-> None]]
             /\ blocks' = Append(blocks, [first |-> start, count |-> r.data])
             /\ changed' = changed \cup {SeqAddr}
             /\ UNCHANGED <<edges, claims, steps>>
        ELSE UNCHANGED store

\* sequence_next, which publishes nothing.  A node without a number in next
\* starts again at 1; the last block ends at u64::MAX.
sequence_next(t, who, r) ==
  LET old == nodes[SeqAddr]
      start == IF old = None THEN 1 ELSE IF old.data = 0 THEN 1 ELSE old.data
      owner == IF old = None THEN who ELSE old.own
      mine == IF old = None THEN TRUE ELSE CanWrite(who, old)
  IN /\ r.do = "next" /\ Arrives(t, r) /\ UNCHANGED <<tasks, feed, consumer>>
     /\ IF mine /\ r.data \in 1 .. MaxBlock /\ start + r.data <= SeqMax
        THEN /\ nodes' = [nodes EXCEPT ![SeqAddr] =
                 [own |-> owner, pub |-> FALSE, data |-> start + r.data, lease |-> None]]
             /\ blocks' = Append(blocks, [first |-> start, count |-> r.data])
             /\ changed' = changed \cup {SeqAddr}
             /\ UNCHANGED <<edges, claims, steps>>
        ELSE UNCHANGED store

-----------------------------------------------------------------------------
(* The event, after the engine's call has returned.                        *)

EventOf(task) ==
  LET r == task.req
  IN [what |-> r.do, aud |-> task.aud, edge |-> r.edge,
      addrs |-> CASE r.do = "transaction" -> task.touched
                  [] r.do \in {"edge", "unedge"} -> {}
                  [] OTHER -> {r.addr}]

publish(t) ==
  /\ tasks[t].at = "publish"
  /\ feed' = Append(feed, EventOf(tasks[t]))
  /\ Goes(t, Idle) /\ UNCHANGED <<store, left, consumer>>

-----------------------------------------------------------------------------
(* The consumer: subscribe, scan, then follow.                             *)

Follows(c) == consumer' = c /\ UNCHANGED <<store, tasks, left, feed>>

Subscribe ==
  /\ Following /\ consumer.at = "start"
  /\ Follows([consumer EXCEPT !.at = "subscribed", !.pos = Len(feed)])

Scan ==
  /\ consumer.at = "subscribed"
  /\ Follows([consumer EXCEPT !.at = "following", !.stale = changed])

Receive ==
  /\ consumer.at = "following" /\ consumer.pos < Len(feed)
  /\ Follows([consumer EXCEPT !.pos = @ + 1, !.stale = @ \cup feed[consumer.pos + 1].addrs])

\* multiget_nodes reads the addresses one after the other; one is enough.
Fetch(a) ==
  /\ consumer.at = "following" /\ a \in consumer.stale
  /\ Follows([consumer EXCEPT !.stale = @ \ {a}, !.copy[a] = nodes[a]])

-----------------------------------------------------------------------------
Init ==
  /\ nodes = Initial /\ edges = [e \in EdgeIds |-> None]
  /\ tasks = [t \in Tasks |-> Idle] /\ left = MaxRequests /\ feed = <<>> /\ changed = {}
  /\ consumer = [at |-> "start", pos |-> 0, stale |-> {}, copy |-> Initial]
  /\ claims = [a \in Addrs |-> 0] /\ steps = [a \in Addrs |-> 0] /\ blocks = <<>>

Arrival(t, who, r) ==
  \/ create_node(t, who, r) \/ update_node(t, who, r) \/ delete_node(t, who, r)
  \/ claim_node(t, who, r) \/ create_edge(t, who, r) \/ delete_edge(t, who, r)
  \/ execute_transaction(t, who, r) \/ sequence_next(t, who, r)

Serve(t) ==
  \/ resolve_audience(t) \/ examine(t)
  \/ insert_with_edges(t) \/ insert(t) \/ delete(t) \/ claim(t)
  \/ insert_edge(t) \/ remove_edge(t) \/ apply_transaction(t) \/ publish(t)

Follow == Subscribe \/ Scan \/ Receive \/ \E a \in Addrs : Fetch(a)

Next == \/ \E t \in Tasks, who \in Clients, r \in Requests : Arrival(t, who, r)
        \/ \E t \in Tasks : Serve(t)
        \/ Follow

\* A blocking thread runs to the end of its handler; the consumer goes on.
\* Requests need not come.
Fairness == (\A t \in Tasks : WF_vars(Serve(t))) /\ WF_vars(Follow)
Spec == Init /\ [][Next]_vars /\ Fairness

-----------------------------------------------------------------------------
(* Properties.                                                             *)

\* A consumer that subscribes first, then scans, and fetches again each
\* address it is told of, ends with a copy of the nodes: no write falls
\* between the scan and the subscription ("In that order there is no gap",
\* routes.rs, scan_changes).  It holds of requests whose events name all they
\* write: not of sequence_next nor of a delete that cascades.
CopyConverges == <>[](Following => consumer.copy = nodes)

\* The lease is granted once: two POST /claim that race, or repeat, are not
\* both answered 200 unless the node was overwritten or deleted in between.
ClaimGrantedOnce ==
  \A a \in Addrs :
    /\ claims[a] <= 1
    /\ nodes[a] # None /\ claims[a] = 1 => nodes[a].lease # None

\* No increment is lost: with each client writing v + 1 on the condition
\* that the field is v, the field counts the set_ifs that were answered 200.
NoLostIncrement == \A a \in Addrs : nodes[a] # None => nodes[a].data = steps[a]

\* The blocks handed out by POST /sequence are disjoint and ascend.
BlocksDisjoint ==
  \A i, j \in DOMAIN blocks :
    i < j => blocks[i].first + blocks[i].count <= blocks[j].first

\* POST /node with if_absent does not replace a node ("fail with 409 instead
\* of overwriting").
IfAbsentNeverOverwrites ==
  [][\A t \in Tasks :
       (tasks[t].at = "write" /\ tasks'[t].at = "publish" /\ tasks[t].req.do = "create")
         => (tasks[t].req.if_absent => nodes[tasks[t].req.addr] = None)]_vars

\* PUT rewrites data and visibility, and nothing else of the node.
UpdateKeepsTheRest ==
  [][\A t \in Tasks :
       (tasks[t].at = "write" /\ tasks'[t].at = "publish" /\ tasks[t].req.do = "update")
         => LET a == tasks[t].req.addr
            IN nodes'[a] = [nodes[a] EXCEPT !.data = nodes'[a].data,
                                            !.pub = nodes'[a].pub]]_vars

\* The event of a transaction that clears a kind names what it removed.
ClearNamesWhatItRemoves ==
  [][\A t \in Tasks :
       (tasks[t].at = "write" /\ tasks'[t].at = "publish" /\ tasks[t].req.do = "transaction")
         => {a \in Addrs : nodes[a] # None /\ nodes'[a] = None} \subseteq tasks[t].touched]_vars

\* The retraction of an edge reaches the subscribers its creation reached.
RetractionReachesTheSame ==
  \A i, j \in DOMAIN feed :
    (/\ i < j /\ feed[i].what = "edge" /\ feed[j].what = "unedge"
     /\ feed[i].edge = feed[j].edge
     /\ \A k \in i + 1 .. j - 1 : feed[k].edge # feed[j].edge)
      => feed[j].aud = feed[i].aud
=============================================================================
