----------------------------- MODULE MCProgress -----------------------------
(***************************************************************************)
(* What must eventually happen, on small instances: a request gives its    *)
(* permit back, a process asked to stop stops, paging ends, a consumer's   *)
(* copy converges. Each behaviour is one scenario, picked in the initial   *)
(* state: one component with one choice of its constants. The variables of *)
(* the components that do not run keep their first value.                  *)
(***************************************************************************)
EXTENDS Predicate

CONSTANTS c1, c2, c3, n1, n2, seq, alice, root, None, Everyone, NoRow

VARIABLES
  scenario,
  phase, conn, held, awaits, jobs, sent, tail, settled, expired, cut, starved,  \* Serving
  rows, declared, q, walk, cursor, seen, status, touched, writes,  \* Query
  nodes, edges, tasks, left, feed, changed, consumer, claims, steps, blocks  \* Handlers

servingVars == <<phase, conn, held, awaits, jobs, sent, tail, settled,
                 expired, cut, starved>>
queryVars == <<rows, declared, q, walk, cursor, seen, status, touched,
               writes>>
handlerVars == <<nodes, edges, tasks, left, feed, changed, consumer, claims,
                 steps, blocks>>
vars == <<scenario, servingVars, queryVars, handlerVars>>

\* The connections, numbered.
Conn == <<c1, c2, c3>>

-----------------------------------------------------------------------------
(* Query: three rows of one kind, an index on the field they are ordered by. *)

Row(f) == [kind |-> "k", own |-> "u", pub |-> TRUE, f |-> Number(FALSE, f), g |-> Text(<<1, 2>>)]
EndShapes == {Row(1), Row(2)}
DataF == [name |-> 1, type |-> "data", kind |-> "k", field |-> "f"]
Ask(pred, order, desc) ==
  [kind |-> "k", own |-> "unset", req |-> "unset", pred |-> pred, order |-> order,
   desc |-> desc, limit |-> 1, offset |-> 0, list |-> FALSE]
EndQueries == {Ask(Lit(Bool(TRUE)), "f", FALSE),
               Ask(Bin("==", Get("f"), Lit(Number(FALSE, 1))), "none", TRUE)}

-----------------------------------------------------------------------------
(* Handlers: writes whose events overtake each other.                      *)

Request == [do |-> "", addr |-> n1, edge |-> <<n1, n2>>, edges |-> {}, pub |-> FALSE,
            data |-> 0, if_absent |-> FALSE, expect |-> 0, ops |-> <<>>, owner |-> None,
            claimed_by |-> None]
Do(what, x) == [Request EXCEPT !.do = what, !.addr = x]
Batch(s) == [Request EXCEPT !.do = "transaction", !.ops = s]
Publishing ==
  {Do("delete", n1), Do("claim", n1), [Do("update", n1) EXCEPT !.data = 2],
   Batch(<<[Do("set_if", n1) EXCEPT !.data = 1]>>),
   Batch(<<Do("insert", n1), Do("insert", n2)>>)}
OneNode ==
  [x \in {n1, n2, seq} |->
     IF x = n1 THEN [own |-> alice, pub |-> FALSE, data |-> 0, lease |-> None] ELSE None]

-----------------------------------------------------------------------------
(* The scenarios.                                                          *)

\* Plain HTTP, where a job need not end.
Http == INSTANCE Serving
  WITH Conns <- {c1, c2}, Tls <- FALSE, MaxConnections <- 2,
       MaxConcurrent <- 1, MaxSubscribers <- 1, PoolSize <- 1,
       Kinds <- {"write", "stats", "events"}, MaxRequests <- 3

\* Plain HTTP, where a job that has started ends.
Stopping == INSTANCE Serving
  WITH Conns <- {c1, c2}, Tls <- FALSE, MaxConnections <- 2,
       MaxConcurrent <- 1, MaxSubscribers <- 1, PoolSize <- 1,
       Kinds <- {"write", "events"}, MaxRequests <- 2

\* The TLS accept loop, with a connection more than permits.
Https == INSTANCE Serving
  WITH Conns <- {c1, c2, c3}, Tls <- TRUE, MaxConnections <- 2,
       MaxConcurrent <- 1, MaxSubscribers <- 1, PoolSize <- 1,
       Kinds <- {"write", "events"}, MaxRequests <- 2

\* A client that follows cursors beside a writer that rewrites rows and
\* declares an index.
Paging == INSTANCE Query
  WITH Addrs <- 1 .. 3, Shapes <- EndShapes,
       StartRows <- {<<Row(1), Row(1), Row(1)>>, <<Row(2), Row(1), Row(2)>>},
       Queries <- EndQueries, Definitions <- {DataF}, MaxScanRows <- 3,
       MaxOffset <- 2, SeedGrams <- 2, SeedEnough <- 1, ProbeGrams <- 2,
       ProbeFloor <- 1, MaxWrites <- 1, Rewrites <- TRUE, Declares <- TRUE

\* A consumer that copies the nodes while two threads serve writes.
Copy == INSTANCE Handlers
  WITH Addrs <- {n1, n2, seq}, SeqAddr <- seq, EdgeIds <- {},
       Clients <- {alice}, Admins <- {root}, Tasks <- {1, 2},
       Requests <- Publishing, Initial <- OneNode, Kids <- {},
       MaxRequests <- 3, SeqMax <- 6, MaxBlock <- 2, Following <- TRUE

ASSUME ConstantsSensible ==
  /\ Http!ServingBounds /\ Stopping!ServingBounds /\ Https!ServingBounds /\ Paging!AddrsInt

\* What a scenario of Serving leaves alone.
notServing == <<rows, declared, q, walk, cursor, seen, status, touched,
                writes, nodes, edges, tasks, left, feed, changed, consumer,
                claims, steps, blocks>>
OnlyServing ==
  /\ Copy!Init
  /\ rows = 0 /\ declared = 0 /\ q = 0 /\ walk = 0 /\ cursor = 0
  /\ seen = 0 /\ status = "asking" /\ touched = 0 /\ writes = 0

\* What a scenario of Query leaves alone.
notQuery == <<phase, conn, held, awaits, jobs, sent, tail, settled, expired,
              cut, starved, nodes, edges, tasks, left, feed, changed,
              consumer, claims, steps, blocks>>
OnlyQuery ==
  Http!Init /\ Copy!Init

\* What a scenario of Handlers leaves alone.
notHandler == <<phase, conn, held, awaits, jobs, sent, tail, settled, expired,
                cut, starved, rows, declared, q, walk, cursor, seen, status,
                touched, writes>>
OnlyHandler ==
  /\ Http!Init
  /\ rows = 0 /\ declared = 0 /\ q = 0 /\ walk = 0 /\ cursor = 0
  /\ seen = 0 /\ status = "asking" /\ touched = 0 /\ writes = 0

Init ==
  \/ /\ OnlyServing
     /\ \/ scenario = "serving" /\ Http!Init
        \/ scenario = "stopping" /\ Stopping!Init
        \/ scenario = "tls" /\ Https!Init
  \/ /\ OnlyQuery
     /\ \/ scenario = "paging" /\ Paging!Init
  \/ /\ OnlyHandler
     /\ \/ scenario = "copy" /\ Copy!Init

Next ==
  \/ scenario = "serving" /\ Http!Next /\ UNCHANGED <<scenario, notServing>>
  \/ scenario = "stopping" /\ Stopping!Next /\ UNCHANGED <<scenario, notServing>>
  \/ scenario = "tls" /\ Https!Next /\ UNCHANGED <<scenario, notServing>>
  \/ scenario = "paging" /\ Paging!Next /\ UNCHANGED <<scenario, notQuery>>
  \/ scenario = "copy" /\ Copy!Next /\ UNCHANGED <<scenario, notHandler>>

\* What makes progress.  The timers of requests and the main thread do in every
\* serving scenario, the jobs only in those about stopping; so do the thread that
\* serves a page, the threads of the handlers, and the consumer.
Step(A, others) == A /\ UNCHANGED <<scenario, others>>

Actor(i) ==
  \/ scenario = "serving" /\ i <= 2 /\ Step(Http!Timeout(Conn[i]), notServing)
  \/ scenario = "stopping" /\ i <= 2 /\ Step(Stopping!Timeout(Conn[i]), notServing)
  \/ scenario = "tls" /\ Step(Https!Timeout(Conn[i]), notServing)
  \/ scenario = "paging" /\ i = 1 /\ Step(Paging!Serve, notQuery)
  \/ scenario = "copy" /\ i <= 2 /\ Step(Copy!Serve(i), notHandler)
  \/ scenario = "copy" /\ i = 3 /\ Step(Copy!Follow, notHandler)

Job(n) ==
  \/ scenario = "stopping" /\ Step(Stopping!Finish(n), notServing)
  \/ scenario = "tls" /\ Step(Https!Finish(n), notServing)

Main ==
  \/ scenario = "serving" /\ Step(Http!MainGoesOn, notServing)
  \/ scenario = "stopping" /\ Step(Stopping!MainGoesOn, notServing)
  \/ scenario = "tls" /\ Step(Https!MainGoesOn, notServing)

Fairness ==
  /\ \A i \in 1 .. 3 : WF_vars(Actor(i))
  /\ \A n \in 1 .. 2 : WF_vars(Job(n))
  /\ WF_vars(Main)

Spec == Init /\ [][Next]_vars /\ Fairness

-----------------------------------------------------------------------------
(* What is checked, in which scenario. The formulas are the components'.   *)

\* routes.rs, the permit inside the event stream, and tls_server.rs, the permit of
\* the connection task: no more streams and connections than permits.
LongLivesAreBounded ==
  /\ scenario = "serving" => Http!LongLivesAreBounded
  /\ scenario = "tls" => Https!LongLivesAreBounded

\* main.rs, with_graceful_shutdown: a request in flight is finished before
\* the process ends, unless the drain ran into its deadline.
InFlightFinish ==
  /\ scenario = "serving" => Http!InFlightFinish
  /\ scenario = "stopping" => Stopping!InFlightFinish

\* limits.rs, request_timeout_layer inside concurrency: the permit of a
\* request comes back, though the job it awaits may never end.
PermitComesBack == scenario = "serving" => Http!PermitComesBack

\* main.rs, the drain and its deadline: a process asked to stop stops,
\* whatever its clients do, on both accept loops.
StopsWhenAsked ==
  scenario \in {"stopping", "tls"} => (phase = "draining") ~> (phase = "gone")

\* engine.rs, query_where with a cursor: a client that follows cursors comes to the
\* last page although rows are rewritten and indexes declared meanwhile.
PagingEnds == scenario = "paging" => Paging!PagingEnds

\* routes.rs, scan_changes: whatever updates, claims, deletes and batches race
\* it, a consumer that subscribes, scans and fetches what it is told of ends
\* with a copy of the nodes, where no reference cascades and no sequence is drawn
\* from (neither the removed children nor sequence_next's node are published).
CopyConverges == scenario = "copy" => Copy!CopyConverges

=============================================================================
