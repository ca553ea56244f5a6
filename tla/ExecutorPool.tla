---------------------------- MODULE ExecutorPool ----------------------------
(***************************************************************************)
(* What ExecutorFactory promises its ExportDataSources, without the list,  *)
(* the reference counts, the partition map and the round-robin cursor:    *)
(* a source that asks gets an executor; every source of a partition that  *)
(* holds one holds the same one; no more executors are in use than the    *)
(* limit fixed by the first request; and an executor is shut down exactly *)
(* when the last source holding it gives it back, never while one holds   *)
(* it.  Which executor a request gets is left open.                       *)
(***************************************************************************)
EXTENDS Naturals, FiniteSets

CONSTANTS
    Partitions,     \* partition ids of the export data sources
    Tables,         \* stream names of the export data sources
    Execs,          \* executor identities
    NoExec,         \* no executor
    Limits          \* the thread limits the first request may fix

VARIABLES
    limit,          \* the thread limit, 0 before the first request
    held,           \* held[s]: the executor source s runs on, or NoExec
    shutdown        \* the executors that have been shut down

poolVars == <<limit, held, shutdown>>

Streams == Partitions \X Tables

(* The executors some source runs on, when h says what each runs on. *)
InUseOf(h) == {h[s] : s \in {x \in Streams : h[x] # NoExec}}

PoolInit ==
    /\ limit = 0
    /\ held = [s \in Streams |-> NoExec]
    /\ shutdown = {}

(* Source s asks for an executor: it gets its partition's executor if a  *)
(* source of that partition runs on one, and otherwise any executor that *)
(* keeps the number in use within the limit, which the first request    *)
(* fixes.  A fresh executor is not shut down.                            *)
Acquire(s) ==
    /\ held[s] = NoExec
    /\ limit' \in IF limit = 0 THEN Limits ELSE {limit}
    /\ \E e \in Execs :
          /\ \A x \in Streams : x[1] = s[1] /\ held[x] # NoExec => held[x] = e
          /\ held' = [held EXCEPT ![s] = e]
          /\ Cardinality(InUseOf(held')) <= limit'
          /\ shutdown' = shutdown \ {e}

(* Source s gives its executor back; the executor is shut down when no   *)
(* source runs on it any more.                                           *)
Release(s) ==
    /\ held[s] # NoExec
    /\ held' = [held EXCEPT ![s] = NoExec]
    /\ shutdown' = IF held[s] \in InUseOf(held') THEN shutdown
                   ELSE shutdown \cup {held[s]}
    /\ UNCHANGED limit

PoolNext == \E s \in Streams : Acquire(s) \/ Release(s)

PoolSpec == PoolInit /\ [][PoolNext]_poolVars
=============================================================================
