--------------------------- MODULE MCIndexRecovery ---------------------------
(* Model-checking instances of IndexRecovery: contents that differ from one  *)
(* another in kind, in owner and in the indexed value.                       *)
EXTENDS IndexRecovery

MCContents == {[kind |-> "k1", owner |-> "o1", value |-> 1],
               [kind |-> "k1", owner |-> "o2", value |-> 2],
               [kind |-> "k2", owner |-> "o1", value |-> 1]}
=============================================================================
