--------------------------- MODULE ExecutorFactory ---------------------------
(***************************************************************************)
(* ExecutorFactory (src/frontend/org/voltdb/export/ExecutorFactory.java): *)
(* the singleton handing single-threaded executors to ExportDataSources,  *)
(* at most m_maxThreads of them, all sources of a partition on the same   *)
(* executor, reference counted so that the last free shuts one down.      *)
(* Both public operations are synchronized, so each is one atomic step;   *)
(* the sources calling them from any thread interleave arbitrarily.       *)
(*                                                                         *)
(* A source is a pair <<partition, table>>.  holder[s] is the executor    *)
(* source s obtained and has not freed (NoExec if none).  Executors are   *)
(* identities from Execs; an identity no one refers to any more may stand *)
(* for a newly created executor.  A thrown exception is recorded in       *)
(* error and ends the behaviour.                                          *)
(***************************************************************************)
EXTENDS Integers, Sequences, FiniteSets

CONSTANTS
    Partitions,     \* partition ids of the export data sources
    Tables,         \* stream names of the export data sources
    Execs,          \* identities of ListeningExecutorService objects
    NoExec,         \* null: no executor
    MinThreads,     \* getMinThreads(): max(2, availableProcessors / 4)
    ConfigValues,   \* values Integer.getInteger(MAX_EXPORT_THREADS) may return
    SitesCounts,    \* values getLocalSitesCount() may return (0: unknown)
    CallersMayOverRelease  \* a source may call freeExecutor without holding one

ASSUME ConstantsAssumption ==
    /\ NoExec \notin Execs
    /\ MinThreads \in Nat /\ MinThreads >= 2
    /\ ConfigValues \subseteq Int /\ ConfigValues # {}
    /\ SitesCounts \subseteq Nat /\ SitesCounts # {}
    /\ CallersMayOverRelease \in BOOLEAN
    /\ IsFiniteSet(Partitions) /\ IsFiniteSet(Tables)

Sources == Partitions \X Tables

(* m_maxThreads is null before initialize(); it is at least 1 after. *)
Null == 0

Errors == {"none", "free_uninitialized", "free_unallocated",
           "invalid_refcount", "null_refcount", "index_out_of_bounds"}

VARIABLES
    maxThreads,   \* m_maxThreads (Null before initialize)
    nextAlloc,    \* m_nextAlloc
    executors,    \* m_executors, an ArrayList
    refCounts,    \* m_refCounts: a function whose domain is the map's keys
    pid2exec,     \* m_pid2execMap: partition -> executor, NoExec if unmapped
    shutdown,     \* executors les.shutdown() was called on
    holder,       \* holder[s]: the executor source s is running on
    error,        \* the exception thrown, or "none"
    answer        \* what the last getMaxThreadCount/getCurrentThreadCount returned

vars == <<maxThreads, nextAlloc, executors, refCounts, pid2exec, shutdown,
          holder, error, answer>>

(* A query's result: the int it returns, or the NullPointerException it *)
(* throws (thrown).                                                     *)
NoAnswer == [op |-> "none", thrown |-> FALSE, value |-> 0]

IsInitialized == maxThreads # Null

RangeOf(s) == {s[k] : k \in DOMAIN s}

(* s with its k-th element removed (ArrayList.remove shifts the tail). *)
RemoveAt(s, k) == [j \in 1..(Len(s) - 1) |-> IF j < k THEN s[j] ELSE s[j + 1]]

(* An executor identity referred to by nothing: a new object may take it. *)
Unreferenced(e) ==
    /\ e \notin RangeOf(executors)
    /\ e \notin DOMAIN refCounts
    /\ \A p \in Partitions : pid2exec[p] # e
    /\ \A s \in Sources : holder[s] # e

InitialMaxThreadsUnchecked(cfg, sites) ==
    IF sites = 0 THEN MinThreads
    ELSE IF cfg > sites THEN sites
    ELSE cfg

(* The value initialize() settles m_maxThreads on, from the configured   *)
(* value cfg and the local sites count sites, in the order of its checks. *)
InitialMaxThreads(cfg, sites) ==
    IF cfg < 1 THEN MinThreads
    ELSE IF sites = 0 THEN MinThreads
    ELSE IF cfg > sites THEN sites
    ELSE cfg

Init ==
    /\ maxThreads = Null
    /\ nextAlloc = 0
    /\ executors = << >>
    /\ refCounts = [e \in {} |-> 0]
    /\ pid2exec = [p \in Partitions |-> NoExec]
    /\ shutdown = {}
    /\ holder = [s \in Sources |-> NoExec]
    /\ error = "none"
    /\ answer = NoAnswer

-----------------------------------------------------------------------------
(* allocate(partitionId, tableName) once initialize() has set max to m.   *)
(* The three branches: the partition's executor, a new executor, or the   *)
(* round-robin choice among the existing ones.                            *)

AllocateExisting(s) ==
    LET les == pid2exec[s[1]]
    IN  /\ les # NoExec
        /\ IF les \in DOMAIN refCounts
           THEN /\ refCounts' = [refCounts EXCEPT ![les] = @ + 1]
                /\ holder' = [holder EXCEPT ![s] = les]
                /\ UNCHANGED error
           ELSE /\ error' = "null_refcount"
                /\ UNCHANGED <<refCounts, holder>>
        /\ UNCHANGED <<nextAlloc, executors, pid2exec, shutdown, answer>>

MapPartitionNoPut(p, les) == pid2exec

(* m_pid2execMap.put(partitionId, les) *)
MapPartition(p, les) == [pid2exec EXCEPT ![p] = les]

AllocateNew(s, m) ==
    /\ pid2exec[s[1]] = NoExec
    /\ Len(executors) < m
    /\ \E les \in Execs :
          /\ Unreferenced(les)
          /\ executors' = Append(executors, les)
          /\ refCounts' = [e \in DOMAIN refCounts \cup {les} |->
                                 IF e = les THEN 1 ELSE refCounts[e]]
          /\ pid2exec' = MapPartition(s[1], les)
          /\ shutdown' = shutdown \ {les}
          /\ holder' = [holder EXCEPT ![s] = les]
    /\ UNCHANGED <<nextAlloc, error, answer>>

(* The index into m_executors the round-robin branch takes: m_nextAlloc, *)
(* or 0 once it has run off the end.                                     *)
RoundRobinIndex(n) == IF n >= Len(executors) THEN 0 ELSE n

AllocateShared(s, m) ==
    LET k   == RoundRobinIndex(nextAlloc)
        les == executors[k + 1]
    IN  /\ pid2exec[s[1]] = NoExec
        /\ ~(Len(executors) < m)
        /\ IF k < Len(executors)
           THEN /\ refCounts' = [refCounts EXCEPT ![les] = @ + 1]
                /\ pid2exec' = MapPartition(s[1], les)
                /\ holder' = [holder EXCEPT ![s] = les]
                /\ nextAlloc' = k + 1
                /\ UNCHANGED error
           ELSE /\ error' = "index_out_of_bounds"
                /\ UNCHANGED <<refCounts, pid2exec, holder, nextAlloc>>
        /\ UNCHANGED <<executors, shutdown, answer>>

(* getExecutor(partitionId, tableName): the ExportDataSource s is built  *)
(* and asks for its executor; initialize() runs first if it has not.     *)
GetExecutor(s) ==
    /\ error = "none"
    /\ holder[s] = NoExec
    /\ \E m \in IF IsInitialized THEN {maxThreads}
                ELSE {InitialMaxThreads(c, n) : c \in ConfigValues,
                                                n \in SitesCounts} :
          /\ maxThreads' = m
          /\ \/ AllocateExisting(s)
             \/ AllocateNew(s, m)
             \/ AllocateShared(s, m)

-----------------------------------------------------------------------------
(* release(partitionId, tableName) when the partition is mapped to les   *)
(* whose count drops to rc.                                              *)

UnmapAllNone(les) == pid2exec

(* m_pid2execMap after removeIf(v -> v == les). *)
UnmapAll(les) == [p \in Partitions |-> IF pid2exec[p] = les THEN NoExec
                                       ELSE pid2exec[p]]

ReleaseLast(les) ==
    LET k     == CHOOSE i \in DOMAIN executors :
                     /\ executors[i] = les
                     /\ \A j \in 1..(i - 1) : executors[j] # les
        execs == IF les \in RangeOf(executors) THEN RemoveAt(executors, k)
                 ELSE executors
    IN  /\ executors' = execs
        /\ refCounts' = [e \in DOMAIN refCounts \ {les} |-> refCounts[e]]
        /\ pid2exec' = UnmapAll(les)
        /\ nextAlloc' = IF nextAlloc > Len(execs) THEN 0 ELSE nextAlloc
        /\ shutdown' = shutdown \cup {les}

IsLastReferenceOffByOne(rc) == rc <= 1

(* release() shuts the executor down when the decremented count is 0. *)
IsLastReference(rc) == rc = 0

(* The sources that may call freeExecutor: those holding an executor, or *)
(* any source when callers may over-release.                            *)
FreeCallers ==
    IF CallersMayOverRelease THEN Sources
    ELSE {s \in Sources : holder[s] # NoExec}

(* freeExecutor(partitionId, tableName): the source s is closed. *)
FreeExecutor(s) ==
    LET les == pid2exec[s[1]]
        rc  == refCounts[les] - 1
    IN
    /\ error = "none"
    /\ s \in FreeCallers
    /\ error' = CASE ~IsInitialized                  -> "free_uninitialized"
                  [] les = NoExec                    -> "free_unallocated"
                  [] les \notin DOMAIN refCounts     -> "null_refcount"
                  [] rc < 0                          -> "invalid_refcount"
                  [] OTHER                           -> "none"
    /\ IF error' # "none"
       THEN UNCHANGED <<nextAlloc, executors, refCounts, pid2exec, shutdown,
                        holder>>
       ELSE /\ holder' = [holder EXCEPT ![s] = NoExec]
            /\ IF IsLastReference(rc)
               THEN ReleaseLast(les)
               ELSE /\ refCounts' = [refCounts EXCEPT ![les] = rc]
                    /\ UNCHANGED <<nextAlloc, executors, pid2exec, shutdown>>
    /\ UNCHANGED <<maxThreads, answer>>

-----------------------------------------------------------------------------
(* The synchronized queries.  Before initialize() m_maxThreads and       *)
(* m_executors are null: unboxing the one and calling size() on the      *)
(* other throw to the caller and leave the factory as it was.            *)

(* getMaxThreadCount(): return m_maxThreads (auto-unboxed). *)
GetMaxThreadCount ==
    /\ error = "none"
    /\ answer' = [op |-> "max", thrown |-> ~IsInitialized, value |-> maxThreads]
    /\ UNCHANGED <<maxThreads, nextAlloc, executors, refCounts, pid2exec,
                   shutdown, holder, error>>

(* getCurrentThreadCount(): return m_executors.size(). *)
GetCurrentThreadCount ==
    /\ error = "none"
    /\ answer' = [op |-> "current", thrown |-> ~IsInitialized,
                  value |-> Len(executors)]
    /\ UNCHANGED <<maxThreads, nextAlloc, executors, refCounts, pid2exec,
                   shutdown, holder, error>>

Next ==
    \/ \E s \in Sources : GetExecutor(s) \/ FreeExecutor(s)
    \/ GetMaxThreadCount
    \/ GetCurrentThreadCount

Spec == Init /\ [][Next]_vars

-----------------------------------------------------------------------------
(* Properties *)

TypeOK ==
    /\ maxThreads \in Nat
    /\ nextAlloc \in Nat
    /\ executors \in Seq(Execs)
    /\ DOMAIN refCounts \subseteq Execs
    /\ refCounts \in [DOMAIN refCounts -> Nat]
    /\ pid2exec \in [Partitions -> Execs \cup {NoExec}]
    /\ shutdown \subseteq Execs
    /\ holder \in [Sources -> Execs \cup {NoExec}]
    /\ error \in Errors
    /\ answer \in {NoAnswer} \cup
                  [op : {"max", "current"}, thrown : BOOLEAN, value : Nat]

(* The sources running on executor e. *)
Users(e) == {s \in Sources : holder[s] = e}

(* m_refCounts counts, for each executor in m_executors, exactly the     *)
(* sources that obtained it and have not freed it, whichever partitions   *)
(* they belong to and in whichever order gets and frees interleaved; the  *)
(* keys of m_refCounts are the executors of m_executors, each once.       *)
RefCountsMatchUsers ==
    /\ DOMAIN refCounts = RangeOf(executors)
    /\ \A i, j \in DOMAIN executors : executors[i] = executors[j] => i = j
    /\ \A e \in Execs :
          Cardinality(Users(e)) = IF e \in DOMAIN refCounts THEN refCounts[e]
                                  ELSE 0

(* No ExportDataSource keeps running on an executor that release() has  *)
(* shut down: the executor of every source that has not freed it is one *)
(* of m_executors and has not been shut down.                            *)
NoSourceOnShutdownExecutor ==
    \A s \in Sources :
        holder[s] # NoExec =>
            /\ holder[s] \in RangeOf(executors)
            /\ holder[s] \notin shutdown

(* All the sources of a partition run on one executor, the one           *)
(* m_pid2execMap gives the partition, as the class comment promises.     *)
PartitionAffinity ==
    \A s \in Sources :
        holder[s] # NoExec => holder[s] = pid2exec[s[1]]

(* A source that keeps the contract (freeExecutor once, after           *)
(* getExecutor) never meets an exception of the factory, and the pool    *)
(* stays within m_maxThreads with m_nextAlloc at most its size.          *)
NoFactoryException ==
    /\ error = "none"
    /\ IsInitialized => /\ Len(executors) <= maxThreads
                        /\ nextAlloc <= Len(executors)

(* getMaxThreadCount returns the max thread count the factory operates   *)
(* upon, or 0 if uninitialized, as its javadoc says.                     *)
MaxThreadCountAsDocumented ==
    answer.op = "max" =>
        /\ ~answer.thrown
        /\ answer.value = IF IsInitialized THEN maxThreads ELSE 0
-----------------------------------------------------------------------------
(* The factory as the pool of ExecutorPool: the holders and the shut-down *)
(* executors are the pool's, m_maxThreads is its limit, and the limits    *)
(* the first request may fix are the values initialize() can settle on.  *)
ThreadLimits == {InitialMaxThreads(c, n) : c \in ConfigValues, n \in SitesCounts}

INSTANCE ExecutorPool
    WITH limit <- maxThreads, held <- holder, Limits <- ThreadLimits

(* Every behaviour of the factory (getExecutor, freeExecutor and the     *)
(* queries, interleaved in any order) is a behaviour of the pool: the    *)
(* reference counts shut an executor down exactly when its last holder   *)
(* frees it, and the list bounded by m_maxThreads bounds the executors   *)
(* in use.                                                               *)
PoolRefinement == PoolSpec
=============================================================================
