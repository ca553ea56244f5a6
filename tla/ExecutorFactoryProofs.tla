------------------------ MODULE ExecutorFactoryProofs ------------------------
(***************************************************************************)
(* The ExecutorFactory invariants for every set of partitions, streams and *)
(* executor identities and every thread configuration, while callers keep *)
(* the contract (a stream frees only the executor it holds).  They rest on *)
(* one inductive invariant, FInv: the reference count of every executor is *)
(* the number of streams running on it, the partition map only names live *)
(* executors, and every stream runs on its partition's executor.  The      *)
(* counting needs the finiteness of the streams; the removal from the      *)
(* ArrayList needs m_executors to hold each executor once.                 *)
(***************************************************************************)
EXTENDS ExecutorFactory, FiniteSetTheorems, SequenceTheorems, TLAPS

-----------------------------------------------------------------------------
(* Lemmas about the helpers. *)

(* Equal intervals 1..a and 1..b have the same length. *)
LEMMA IntervalLength ==
    ASSUME NEW a \in Nat, NEW b \in Nat, 1..a = 1..b
    PROVE  a = b
<1>1. ~(a < b)
    <2>1. SUFFICES ASSUME a < b PROVE FALSE
        OBVIOUS
    <2>2. b \in 1..b /\ b \notin 1..a
        BY <2>1
    <2>3. QED
        BY <2>2
<1>2. ~(b < a)
    <2>1. SUFFICES ASSUME b < a PROVE FALSE
        OBVIOUS
    <2>2. a \in 1..a /\ a \notin 1..b
        BY <2>1
    <2>3. QED
        BY <2>2
<1>3. QED
    BY <1>1, <1>2

(* ArrayList.remove(k) on a list without duplicates: one element shorter, *)
(* without that element, and still without duplicates.                   *)
LEMMA RemoveAtFacts ==
    ASSUME NEW S, NEW s \in Seq(S), NEW k \in 1..Len(s),
           \A i, j \in DOMAIN s : s[i] = s[j] => i = j
    PROVE  LET r == RemoveAt(s, k)
           IN  /\ r \in Seq(S)
               /\ Len(r) = Len(s) - 1
               /\ RangeOf(r) = RangeOf(s) \ {s[k]}
               /\ \A i, j \in DOMAIN r : r[i] = r[j] => i = j
<1> DEFINE r == RemoveAt(s, k)
           n == Len(s) - 1
           at(j) == IF j < k THEN j ELSE j + 1
<1>1. /\ Len(s) \in Nat
      /\ s \in [1..Len(s) -> S]
      /\ DOMAIN s = 1..Len(s)
      /\ n \in Nat
    BY LenProperties
<1>2. \A j \in 1..n : at(j) \in 1..Len(s) /\ at(j) # k /\ r[j] = s[at(j)]
    BY <1>1 DEF RemoveAt
<1>3. r \in [1..n -> S]
    BY <1>1, <1>2 DEF RemoveAt
<1>4. r \in Seq(S)
    <2>1. [1..n -> S] \in {[1..m -> S] : m \in Nat}
        BY <1>1
    <2>2. r \in UNION {[1..m -> S] : m \in Nat}
        BY <1>3, <2>1
    <2>3. QED
        BY <2>2, SeqDef
<1>5. Len(r) = n
    <2>1. DOMAIN r = 1..Len(r) /\ Len(r) \in Nat
        BY <1>4, LenProperties
    <2>2. DOMAIN r = 1..n
        BY <1>3
    <2>3. 1..Len(r) = 1..n
        BY <2>1, <2>2
    <2>4. QED
        BY <1>1, <2>1, <2>3, IntervalLength
<1>6. RangeOf(r) \subseteq RangeOf(s) \ {s[k]}
    BY <1>1, <1>2, <1>3 DEF RangeOf
<1>7. RangeOf(s) \ {s[k]} \subseteq RangeOf(r)
    <2> SUFFICES ASSUME NEW i \in 1..Len(s), i # k
                 PROVE  s[i] \in RangeOf(r)
        BY <1>1 DEF RangeOf
    <2>1. CASE i < k
        <3>1. i \in 1..n /\ at(i) = i
            BY <2>1, <1>1
        <3>2. QED
            BY <1>2, <1>3, <3>1 DEF RangeOf
    <2>2. CASE i > k
        <3>1. i - 1 \in 1..n /\ at(i - 1) = i
            BY <2>2, <1>1
        <3>2. QED
            BY <1>2, <1>3, <3>1, ZenonT(40) DEF RangeOf
    <2>3. QED
        BY <2>1, <2>2, <1>1
<1>8. ASSUME NEW i \in DOMAIN r, NEW j \in DOMAIN r, r[i] = r[j]
      PROVE  i = j
    <2>1. i \in 1..n /\ j \in 1..n
        BY <1>3
    <2>2. s[at(i)] = s[at(j)]
        BY <1>2, <1>8, <2>1
    <2>3. at(i) = at(j)
        BY <1>1, <1>2, <2>1, <2>2
    <2>4. QED
        BY <2>1, <2>3
<1>9. QED
    BY <1>4, <1>5, <1>6, <1>7, <1>8

(* The index ReleaseLast removes is a position of les in m_executors. *)
LEMMA FirstIndexOf ==
    ASSUME NEW s \in Seq(Execs), NEW les \in RangeOf(s),
           \A i, j \in DOMAIN s : s[i] = s[j] => i = j
    PROVE  LET k == CHOOSE i \in DOMAIN s :
                        /\ s[i] = les
                        /\ \A j \in 1..(i - 1) : s[j] # les
           IN  k \in 1..Len(s) /\ s[k] = les
<1>1. PICK i \in DOMAIN s : s[i] = les
    BY DEF RangeOf
<1>2. DOMAIN s = 1..Len(s) /\ Len(s) \in Nat
    BY LenProperties
<1>3. \A j \in 1..(i - 1) : s[j] # les
    BY <1>1, <1>2
<1>4. QED
    BY <1>1, <1>2, <1>3

(* The streams running on executor e when the holders are h. *)
UsersOf(h, e) == {x \in Sources : h[x] = e}

LEMMA UsersFinite ==
    ASSUME NEW h, NEW e
    PROVE  IsFiniteSet(UsersOf(h, e))
<1>1. IsFiniteSet(Sources)
    BY ConstantsAssumption, FS_Product DEF Sources
<1>2. QED
    BY <1>1, FS_Subset DEF UsersOf

(* getExecutor gives stream s, which held nothing, executor v: v gains *)
(* one user and every other executor keeps its users.                 *)
LEMMA CountAfterGet ==
    ASSUME NEW h \in [Sources -> Execs \cup {NoExec}], NEW s \in Sources,
           h[s] = NoExec, NEW v \in Execs, NEW e \in Execs
    PROVE  Cardinality(UsersOf([h EXCEPT ![s] = v], e)) =
               IF e = v THEN Cardinality(UsersOf(h, e)) + 1
               ELSE Cardinality(UsersOf(h, e))
<1>1. NoExec \notin Execs
    BY ConstantsAssumption
<1>2. CASE e = v
    <2>1. UsersOf([h EXCEPT ![s] = v], e) = UsersOf(h, e) \cup {s}
        BY <1>2 DEF UsersOf
    <2>2. s \notin UsersOf(h, e)
        BY <1>1, <1>2 DEF UsersOf
    <2>3. IsFiniteSet(UsersOf(h, e))
        BY UsersFinite
    <2>4. Cardinality(UsersOf(h, e) \cup {s}) = Cardinality(UsersOf(h, e)) + 1
        BY <2>2, <2>3, FS_AddElement
    <2>5. QED
        BY <1>2, <2>1, <2>4
<1>3. CASE e # v
    <2>1. UsersOf([h EXCEPT ![s] = v], e) = UsersOf(h, e)
        BY <1>1, <1>3 DEF UsersOf
    <2>2. QED
        BY <1>3, <2>1
<1>4. QED
    BY <1>2, <1>3

(* freeExecutor takes stream s off its executor h[s]: that executor    *)
(* loses one user and every other executor keeps its users.           *)
LEMMA CountAfterFree ==
    ASSUME NEW h \in [Sources -> Execs \cup {NoExec}], NEW s \in Sources,
           h[s] \in Execs, NEW e \in Execs
    PROVE  Cardinality(UsersOf([h EXCEPT ![s] = NoExec], e)) =
               IF e = h[s] THEN Cardinality(UsersOf(h, e)) - 1
               ELSE Cardinality(UsersOf(h, e))
<1>1. NoExec \notin Execs
    BY ConstantsAssumption
<1>2. CASE e = h[s]
    <2>1. UsersOf([h EXCEPT ![s] = NoExec], e) = UsersOf(h, e) \ {s}
        BY <1>1, <1>2 DEF UsersOf
    <2>2. s \in UsersOf(h, e)
        BY <1>2 DEF UsersOf
    <2>3. IsFiniteSet(UsersOf(h, e))
        BY UsersFinite
    <2>4. Cardinality(UsersOf(h, e) \ {s}) = Cardinality(UsersOf(h, e)) - 1
        BY <2>2, <2>3, FS_RemoveElement
    <2>5. QED
        BY <1>2, <2>1, <2>4
<1>3. CASE e # h[s]
    <2>1. UsersOf([h EXCEPT ![s] = NoExec], e) = UsersOf(h, e)
        BY <1>1, <1>3 DEF UsersOf
    <2>2. QED
        BY <1>3, <2>1
<1>4. QED
    BY <1>2, <1>3

(* initialize() settles on a positive thread limit. *)
LEMMA InitialMaxThreadsPositive ==
    ASSUME NEW c \in ConfigValues, NEW n \in SitesCounts
    PROVE  InitialMaxThreads(c, n) \in Nat \ {0}
BY ConstantsAssumption DEF InitialMaxThreads

(* The elements of a sequence over S are in S. *)
LEMMA RangeInSet ==
    ASSUME NEW S, NEW s \in Seq(S)
    PROVE  RangeOf(s) \subseteq S
BY LenProperties DEF RangeOf

-----------------------------------------------------------------------------
(* The inductive invariant. *)

(* Users is UsersOf the current holders. *)
LEMMA UsersIsUsersOf ==
    ASSUME NEW e
    PROVE  Users(e) = UsersOf(holder, e)
BY DEF Users, UsersOf

(* m_executors and the thread limit: the list never outgrows the limit  *)
(* (0 before initialize) and the round-robin cursor never passes its end. *)
Bounds ==
    /\ Len(executors) <= maxThreads
    /\ nextAlloc <= Len(executors)

(* Every partition mapped in m_pid2execMap is mapped to a live executor. *)
MappedLive ==
    \A p \in Partitions : pid2exec[p] # NoExec => pid2exec[p] \in RangeOf(executors)

(* No executor of m_executors has been shut down. *)
LiveNotShutdown == \A e \in RangeOf(executors) : e \notin shutdown

(* Every count in m_refCounts is at least 1: release() removes the entry *)
(* of an executor whose count drops to 0.                                 *)
RefCountsPositive == \A e \in DOMAIN refCounts : refCounts[e] >= 1

FInv ==
    /\ TypeOK
    /\ Bounds
    /\ error = "none"
    /\ RefCountsMatchUsers
    /\ MappedLive
    /\ PartitionAffinity
    /\ LiveNotShutdown
    /\ RefCountsPositive

LEMMA InitFInv == Init => FInv
<1> SUFFICES ASSUME Init PROVE FInv
    OBVIOUS
<1>1. TypeOK
    BY ConstantsAssumption DEF Init, TypeOK, Null, Errors, NoAnswer
<1>2. RefCountsMatchUsers
    <2>1. \A e \in Execs : Users(e) = {}
        BY ConstantsAssumption DEF Init, Users
    <2>2. DOMAIN refCounts = {} /\ RangeOf(executors) = {} /\ DOMAIN executors = {}
        BY DEF Init, RangeOf
    <2>3. \A e \in Execs : Cardinality(Users(e)) = 0
        BY <2>1, FS_EmptySet
    <2>4. QED
        BY <2>2, <2>3 DEF RefCountsMatchUsers
<1>3. QED
    BY <1>1, <1>2
    DEF Init, FInv, Bounds, MappedLive, PartitionAffinity, LiveNotShutdown,
        RefCountsPositive, RangeOf, Null

(* The limit a getExecutor works with: positive, and no smaller than the *)
(* list, whether initialize() has just set it or had set it before.     *)
LEMMA GetLimit ==
    ASSUME FInv, NEW s \in Sources, GetExecutor(s)
    PROVE  /\ maxThreads' \in Nat \ {0}
           /\ Len(executors) <= maxThreads'
           /\ \/ AllocateExisting(s)
              \/ AllocateNew(s, maxThreads')
              \/ AllocateShared(s, maxThreads')
<1>1. PICK m \in IF IsInitialized THEN {maxThreads}
                 ELSE {InitialMaxThreads(c, n) : c \in ConfigValues,
                                                 n \in SitesCounts} :
          /\ maxThreads' = m
          /\ \/ AllocateExisting(s)
             \/ AllocateNew(s, m)
             \/ AllocateShared(s, m)
    BY DEF GetExecutor
<1>2. Len(executors) \in Nat /\ Len(executors) <= maxThreads /\ maxThreads \in Nat
    BY LenProperties DEF FInv, TypeOK, Bounds
<1>3. CASE IsInitialized
    BY <1>1, <1>2, <1>3 DEF IsInitialized, Null
<1>4. CASE ~IsInitialized
    <2>1. m \in Nat \ {0}
        BY <1>1, <1>4, InitialMaxThreadsPositive
    <2>2. Len(executors) = 0
        BY <1>2, <1>4 DEF IsInitialized, Null
    <2>3. QED
        BY <1>1, <2>1, <2>2
<1>5. QED
    BY <1>3, <1>4

(* getExecutor for a stream whose partition already has an executor. *)
LEMMA AllocateExistingFInv ==
    ASSUME FInv, NEW s \in Sources, holder[s] = NoExec,
           maxThreads' \in Nat \ {0}, Len(executors) <= maxThreads',
           AllocateExisting(s)
    PROVE  FInv'
<1> DEFINE les == pid2exec[s[1]]
<1>1. /\ les # NoExec
      /\ les \in RangeOf(executors)
      /\ les \in DOMAIN refCounts
      /\ les \in Execs
    <2>1. les # NoExec
        BY DEF AllocateExisting
    <2>2. s[1] \in Partitions
        BY DEF Sources
    <2>3. les \in RangeOf(executors)
        BY <2>1, <2>2 DEF FInv, MappedLive
    <2>4. les \in DOMAIN refCounts
        BY <2>3 DEF FInv, RefCountsMatchUsers
    <2>5. les \in Execs
        BY <2>3, RangeInSet DEF FInv, TypeOK
    <2>6. QED
        BY <2>1, <2>3, <2>4, <2>5
<1>2. /\ refCounts' = [refCounts EXCEPT ![les] = @ + 1]
      /\ holder' = [holder EXCEPT ![s] = les]
      /\ UNCHANGED <<error, nextAlloc, executors, pid2exec, shutdown, answer>>
    BY <1>1 DEF AllocateExisting
<1>3. TypeOK'
    BY <1>1, <1>2 DEF FInv, TypeOK
<1>4. RefCountsMatchUsers'
    <2>1. ASSUME NEW e \in Execs
          PROVE  Cardinality(Users(e))' = IF e \in DOMAIN refCounts'
                                          THEN refCounts'[e] ELSE 0
        <3>1. Cardinality(Users(e))' =
                  IF e = les THEN Cardinality(Users(e)) + 1
                  ELSE Cardinality(Users(e))
            <4>1. /\ Users(e)' = UsersOf([holder EXCEPT ![s] = les], e)
                  /\ Users(e) = UsersOf(holder, e)
                BY <1>2 DEF Users, UsersOf
            <4>2. holder \in [Sources -> Execs \cup {NoExec}]
                BY DEF FInv, TypeOK
            <4>3. Cardinality(UsersOf([holder EXCEPT ![s] = les], e)) =
                      IF e = les THEN Cardinality(UsersOf(holder, e)) + 1
                      ELSE Cardinality(UsersOf(holder, e))
                BY <1>1, <4>2, CountAfterGet, ZenonT(60)
            <4>4. QED
                BY <4>1, <4>3
        <3>2. QED
            BY <1>1, <1>2, <3>1 DEF FInv, RefCountsMatchUsers
    <2>2. QED
        BY <1>2, <2>1 DEF FInv, RefCountsMatchUsers
<1>5. PartitionAffinity'
    BY <1>2 DEF FInv, PartitionAffinity, TypeOK
<1>6. RefCountsPositive'
    BY <1>1, <1>2 DEF FInv, RefCountsPositive, TypeOK
<1>7. QED
    BY <1>2, <1>3, <1>4, <1>5, <1>6
    DEF FInv, Bounds, MappedLive, LiveNotShutdown

(* getExecutor that creates a new executor for an unmapped partition. *)
LEMMA AllocateNewFInv ==
    ASSUME FInv, NEW s \in Sources, holder[s] = NoExec,
           maxThreads' \in Nat \ {0}, AllocateNew(s, maxThreads')
    PROVE  FInv'
<1>1. PICK les \in Execs :
          /\ Unreferenced(les)
          /\ executors' = Append(executors, les)
          /\ refCounts' = [e \in DOMAIN refCounts \cup {les} |->
                                 IF e = les THEN 1 ELSE refCounts[e]]
          /\ pid2exec' = MapPartition(s[1], les)
          /\ shutdown' = shutdown \ {les}
          /\ holder' = [holder EXCEPT ![s] = les]
    BY DEF AllocateNew
<1>2. /\ pid2exec[s[1]] = NoExec
      /\ Len(executors) < maxThreads'
      /\ UNCHANGED <<nextAlloc, error, answer>>
      /\ s[1] \in Partitions
    BY DEF AllocateNew, Sources
<1>3. /\ les \notin RangeOf(executors)
      /\ les \notin DOMAIN refCounts
      /\ \A x \in Sources : holder[x] # les
      /\ NoExec \notin Execs
    BY <1>1, ConstantsAssumption DEF Unreferenced
<1>4. /\ executors' \in Seq(Execs)
      /\ Len(executors') = Len(executors) + 1
      /\ RangeOf(executors') = RangeOf(executors) \cup {les}
      /\ \A i, j \in DOMAIN executors' : executors'[i] = executors'[j] => i = j
    <2>1. executors \in Seq(Execs)
        BY DEF FInv, TypeOK
    <2>2. /\ executors' \in Seq(Execs)
          /\ Len(executors') = Len(executors) + 1
          /\ \A i \in 1..Len(executors) : executors'[i] = executors[i]
          /\ executors'[Len(executors) + 1] = les
        BY <1>1, <2>1, AppendProperties
    <2>3. /\ DOMAIN executors' = 1..(Len(executors) + 1)
          /\ DOMAIN executors = 1..Len(executors)
          /\ Len(executors) \in Nat
        BY <2>1, <2>2, LenProperties
    <2>4. RangeOf(executors') = RangeOf(executors) \cup {les}
        BY <2>2, <2>3 DEF RangeOf
    <2>5. \A i, j \in DOMAIN executors' : executors'[i] = executors'[j] => i = j
        BY <1>3, <2>2, <2>3 DEF FInv, RefCountsMatchUsers, RangeOf
    <2>6. QED
        BY <2>2, <2>4, <2>5
<1>5. TypeOK'
    <2>1. pid2exec' \in [Partitions -> Execs \cup {NoExec}]
        BY <1>1 DEF MapPartition, FInv, TypeOK
    <2>2. refCounts' \in [DOMAIN refCounts' -> Nat] /\ DOMAIN refCounts' \subseteq Execs
        BY <1>1 DEF FInv, TypeOK
    <2>3. QED
        BY <1>1, <1>2, <1>4, <2>1, <2>2 DEF FInv, TypeOK
<1>6. Bounds'
    <2>1. Len(executors) \in Nat /\ nextAlloc \in Nat
        BY LenProperties DEF FInv, TypeOK
    <2>2. QED
        BY <1>2, <1>4, <2>1 DEF FInv, Bounds
<1>7. RefCountsMatchUsers'
    <2>1. DOMAIN refCounts' = RangeOf(executors')
        BY <1>1, <1>4 DEF FInv, RefCountsMatchUsers
    <2>2. ASSUME NEW e \in Execs
          PROVE  Cardinality(Users(e))' = IF e \in DOMAIN refCounts'
                                          THEN refCounts'[e] ELSE 0
        <3>1. /\ Users(e)' = UsersOf([holder EXCEPT ![s] = les], e)
              /\ Users(e) = UsersOf(holder, e)
            BY <1>1 DEF Users, UsersOf
        <3>2. holder \in [Sources -> Execs \cup {NoExec}]
            BY DEF FInv, TypeOK
        <3>3. Cardinality(UsersOf([holder EXCEPT ![s] = les], e)) =
                  IF e = les THEN Cardinality(UsersOf(holder, e)) + 1
                  ELSE Cardinality(UsersOf(holder, e))
            BY <3>2, CountAfterGet, ZenonT(60)
        <3>4. CASE e = les
            <4>1. Users(e) = {}
                BY <1>3, <3>4 DEF Users
            <4>2. Cardinality(Users(e)) = 0
                BY <4>1, FS_EmptySet
            <4>3. QED
                BY <1>1, <3>1, <3>3, <3>4, <4>2
        <3>5. CASE e # les
            BY <1>1, <3>1, <3>3, <3>5 DEF FInv, RefCountsMatchUsers
        <3>6. QED
            BY <3>4, <3>5
    <2>3. QED
        BY <1>4, <2>1, <2>2 DEF RefCountsMatchUsers
<1>8. MappedLive'
    BY <1>1, <1>4 DEF MapPartition, FInv, MappedLive
<1>9. PartitionAffinity'
    <2> SUFFICES ASSUME NEW x \in Sources, holder'[x] # NoExec
                 PROVE  holder'[x] = pid2exec'[x[1]]
        BY DEF PartitionAffinity
    <2>1. x[1] \in Partitions
        BY DEF Sources
    <2>2. CASE x = s
        BY <1>1, <1>2, <2>2 DEF MapPartition, FInv, TypeOK
    <2>3. CASE x # s
        <3>1. holder'[x] = holder[x] /\ holder[x] = pid2exec[x[1]]
            BY <1>1, <2>3 DEF FInv, PartitionAffinity, TypeOK
        <3>2. x[1] # s[1]
            BY <1>2, <3>1
        <3>3. QED
            BY <1>1, <2>1, <3>1, <3>2 DEF MapPartition, FInv, TypeOK
    <2>4. QED
        BY <2>2, <2>3
<1>10. LiveNotShutdown'
    BY <1>1, <1>4 DEF FInv, LiveNotShutdown
<1>11. RefCountsPositive'
    BY <1>1 DEF FInv, RefCountsPositive
<1>12. QED
    BY <1>2, <1>5, <1>6, <1>7, <1>8, <1>9, <1>10, <1>11 DEF FInv

(* getExecutor that shares an existing executor round-robin once the     *)
(* list has reached the limit: the cursor always points into the list.   *)
LEMMA AllocateSharedFInv ==
    ASSUME FInv, NEW s \in Sources, holder[s] = NoExec,
           maxThreads' \in Nat \ {0}, Len(executors) <= maxThreads',
           AllocateShared(s, maxThreads')
    PROVE  FInv'
<1> DEFINE k   == RoundRobinIndex(nextAlloc)
           les == executors[k + 1]
<1>1. /\ Len(executors) \in Nat \ {0}
      /\ k \in Nat
      /\ k < Len(executors)
      /\ s[1] \in Partitions
      /\ pid2exec[s[1]] = NoExec
    <2>1. Len(executors) \in Nat /\ nextAlloc \in Nat /\ nextAlloc <= Len(executors)
        BY LenProperties DEF FInv, TypeOK, Bounds
    <2>2. ~(Len(executors) < maxThreads')
        BY DEF AllocateShared
    <2>3. QED
        BY <2>1, <2>2 DEF RoundRobinIndex, AllocateShared, Sources
<1>2. /\ les \in RangeOf(executors)
      /\ les \in Execs
      /\ les \in DOMAIN refCounts
    <2>1. (k + 1) \in DOMAIN executors
        BY <1>1, LenProperties DEF FInv, TypeOK
    <2>2. les \in RangeOf(executors)
        BY <2>1 DEF RangeOf
    <2>3. QED
        BY <2>2, RangeInSet DEF FInv, TypeOK, RefCountsMatchUsers
<1>3. /\ refCounts' = [refCounts EXCEPT ![les] = @ + 1]
      /\ pid2exec' = [pid2exec EXCEPT ![s[1]] = les]
      /\ holder' = [holder EXCEPT ![s] = les]
      /\ nextAlloc' = k + 1
      /\ UNCHANGED <<error, executors, shutdown, answer>>
    BY <1>1 DEF AllocateShared, MapPartition
<1>4. TypeOK'
    BY <1>1, <1>2, <1>3 DEF FInv, TypeOK
<1>5. Bounds'
    BY <1>1, <1>3 DEF FInv, Bounds
<1>6. RefCountsMatchUsers'
    <2>1. ASSUME NEW e \in Execs
          PROVE  Cardinality(Users(e))' = IF e \in DOMAIN refCounts'
                                          THEN refCounts'[e] ELSE 0
        <3>1. /\ Users(e)' = UsersOf([holder EXCEPT ![s] = les], e)
              /\ Users(e) = UsersOf(holder, e)
            BY <1>3 DEF Users, UsersOf
        <3>2. holder \in [Sources -> Execs \cup {NoExec}]
            BY DEF FInv, TypeOK
        <3>3. Cardinality(UsersOf([holder EXCEPT ![s] = les], e)) =
                  IF e = les THEN Cardinality(UsersOf(holder, e)) + 1
                  ELSE Cardinality(UsersOf(holder, e))
            BY <1>2, <3>2, CountAfterGet, ZenonT(60)
        <3>4. QED
            BY <1>2, <1>3, <3>1, <3>3 DEF FInv, RefCountsMatchUsers
    <2>2. QED
        BY <1>3, <2>1 DEF FInv, RefCountsMatchUsers
<1>7. MappedLive'
    BY <1>2, <1>3 DEF FInv, MappedLive, TypeOK
<1>8. PartitionAffinity'
    <2> SUFFICES ASSUME NEW x \in Sources, holder'[x] # NoExec
                 PROVE  holder'[x] = pid2exec'[x[1]]
        BY DEF PartitionAffinity
    <2>1. x[1] \in Partitions
        BY DEF Sources
    <2>2. CASE x = s
        BY <1>1, <1>3, <2>2 DEF FInv, TypeOK
    <2>3. CASE x # s
        <3>1. holder'[x] = holder[x] /\ holder[x] = pid2exec[x[1]]
            BY <1>3, <2>3 DEF FInv, PartitionAffinity, TypeOK
        <3>2. x[1] # s[1]
            BY <1>1, <3>1
        <3>3. QED
            BY <1>3, <2>1, <3>1, <3>2 DEF FInv, TypeOK
    <2>4. QED
        BY <2>2, <2>3
<1>9. RefCountsPositive'
    BY <1>2, <1>3 DEF FInv, RefCountsPositive, TypeOK
<1>10. QED
    BY <1>3, <1>4, <1>5, <1>6, <1>7, <1>8, <1>9 DEF FInv, LiveNotShutdown

(* freeExecutor by a source that holds an executor: the count it drops   *)
(* is the number of holders, so it never goes below 0, and when it       *)
(* reaches 0 no source holds the executor that is shut down.             *)
LEMMA FreeExecutorFInv ==
    ASSUME FInv, ~CallersMayOverRelease, NEW s \in Sources, FreeExecutor(s)
    PROVE  FInv'
<1> DEFINE les == pid2exec[s[1]]
           rc  == refCounts[les] - 1
<1>1. /\ holder[s] # NoExec
      /\ les = holder[s]
      /\ les \in RangeOf(executors)
      /\ les \in Execs
      /\ les \in DOMAIN refCounts
      /\ les # NoExec
    <2>1. holder[s] # NoExec
        BY DEF FreeExecutor, FreeCallers
    <2>2. les = holder[s]
        BY <2>1 DEF FInv, PartitionAffinity
    <2>3. s[1] \in Partitions
        BY DEF Sources
    <2>4. les \in RangeOf(executors)
        BY <2>1, <2>2, <2>3 DEF FInv, MappedLive
    <2>5. QED
        BY <2>1, <2>2, <2>4, RangeInSet DEF FInv, TypeOK, RefCountsMatchUsers
<1>2. IsInitialized
    <2>1. Len(executors) \in Nat /\ Len(executors) # 0
        BY <1>1, LenProperties DEF FInv, TypeOK, RangeOf
    <2>2. QED
        BY <2>1 DEF FInv, Bounds, TypeOK, IsInitialized, Null
<1>3. rc \in Nat
    <2>1. s \in Users(les) /\ IsFiniteSet(Users(les))
        BY <1>1, UsersFinite, UsersIsUsersOf DEF Users
    <2>2. Cardinality(Users(les)) \in Nat /\ Cardinality(Users(les)) # 0
        BY <2>1, FS_CardinalityType, FS_EmptySet
    <2>3. QED
        BY <1>1, <2>2 DEF FInv, RefCountsMatchUsers
<1>4. /\ error' = "none"
      /\ holder' = [holder EXCEPT ![s] = NoExec]
      /\ UNCHANGED <<maxThreads, answer>>
      /\ IF IsLastReference(rc)
         THEN ReleaseLast(les)
         ELSE /\ refCounts' = [refCounts EXCEPT ![les] = rc]
              /\ UNCHANGED <<nextAlloc, executors, pid2exec, shutdown>>
    <2>1. error' = "none"
        BY <1>1, <1>2, <1>3 DEF FreeExecutor
    <2>2. QED
        BY <2>1 DEF FreeExecutor
<1>5. ASSUME NEW e \in Execs
      PROVE  Cardinality(Users(e))' = IF e = les THEN Cardinality(Users(e)) - 1
                                      ELSE Cardinality(Users(e))
    <2>1. /\ Users(e)' = UsersOf([holder EXCEPT ![s] = NoExec], e)
          /\ Users(e) = UsersOf(holder, e)
        BY <1>4 DEF Users, UsersOf
    <2>2. holder \in [Sources -> Execs \cup {NoExec}]
        BY DEF FInv, TypeOK
    <2>3. Cardinality(UsersOf([holder EXCEPT ![s] = NoExec], e)) =
              IF e = holder[s] THEN Cardinality(UsersOf(holder, e)) - 1
              ELSE Cardinality(UsersOf(holder, e))
        BY <1>1, <2>2, CountAfterFree, ZenonT(60)
    <2>4. QED
        BY <1>1, <2>1, <2>3
<1>6. CASE rc = 0
    <2> DEFINE k == CHOOSE i \in DOMAIN executors :
                        /\ executors[i] = les
                        /\ \A j \in 1..(i - 1) : executors[j] # les
    <2>1. /\ executors' = RemoveAt(executors, k)
          /\ refCounts' = [e \in DOMAIN refCounts \ {les} |-> refCounts[e]]
          /\ pid2exec' = UnmapAll(les)
          /\ nextAlloc' = IF nextAlloc > Len(executors') THEN 0 ELSE nextAlloc
          /\ shutdown' = shutdown \cup {les}
        BY <1>1, <1>4, <1>6 DEF IsLastReference, ReleaseLast
    <2>2. /\ k \in 1..Len(executors)
          /\ executors[k] = les
        BY <1>1, FirstIndexOf DEF FInv, TypeOK, RefCountsMatchUsers
    <2>3. /\ executors' \in Seq(Execs)
          /\ Len(executors') = Len(executors) - 1
          /\ RangeOf(executors') = RangeOf(executors) \ {les}
          /\ \A i, j \in DOMAIN executors' : executors'[i] = executors'[j] => i = j
        <3>1. /\ executors \in Seq(Execs)
              /\ \A i, j \in DOMAIN executors : executors[i] = executors[j] => i = j
            BY DEF FInv, TypeOK, RefCountsMatchUsers
        <3>2. LET r == RemoveAt(executors, k)
              IN  /\ r \in Seq(Execs)
                  /\ Len(r) = Len(executors) - 1
                  /\ RangeOf(r) = RangeOf(executors) \ {executors[k]}
                  /\ \A i, j \in DOMAIN r : r[i] = r[j] => i = j
            BY <2>2, <3>1, RemoveAtFacts
        <3>3. executors' \in Seq(Execs)
            BY <2>1, <3>2
        <3>4. Len(executors') = Len(executors) - 1
            BY <2>1, <3>2
        <3>5. RangeOf(executors') = RangeOf(executors) \ {les}
            BY <2>1, <2>2, <3>2
        <3>6. \A i, j \in DOMAIN executors' : executors'[i] = executors'[j] => i = j
            BY <2>1, <3>2, SMTT(20)
        <3>7. QED
            BY <3>3, <3>4, <3>5, <3>6
    <2>4. \A x \in Sources : holder'[x] # les
        <3>1. Cardinality(UsersOf(holder', les)) = 0
            <4>1. \A e \in Execs :
                      Cardinality(UsersOf(holder', e)) =
                          IF e = les THEN Cardinality(UsersOf(holder, e)) - 1
                          ELSE Cardinality(UsersOf(holder, e))
                BY <1>5 DEF Users, UsersOf
            <4>2. Cardinality(UsersOf(holder, les)) = 1
                BY <1>1, <1>6 DEF FInv, RefCountsMatchUsers, Users, UsersOf
            <4>3. QED
                BY <1>1, <4>1, <4>2
        <3>2. IsFiniteSet(UsersOf(holder', les))
            BY UsersFinite
        <3>3. UsersOf(holder', les) = {}
            BY <3>1, <3>2, FS_EmptySet
        <3>4. QED
            BY <3>3 DEF UsersOf
    <2>5. TypeOK'
        <3>1. nextAlloc' \in Nat
            BY <2>1, <2>3, LenProperties DEF FInv, TypeOK
        <3>2. /\ DOMAIN refCounts' \subseteq Execs
              /\ refCounts' \in [DOMAIN refCounts' -> Nat]
            BY <2>1 DEF FInv, TypeOK
        <3>3. pid2exec' \in [Partitions -> Execs \cup {NoExec}]
            BY <2>1 DEF FInv, TypeOK, UnmapAll
        <3>4. holder' \in [Sources -> Execs \cup {NoExec}]
            BY <1>4 DEF FInv, TypeOK
        <3>5. QED
            BY <1>1, <1>4, <2>1, <2>3, <3>1, <3>2, <3>3, <3>4, ZenonT(40) DEF FInv, TypeOK, Errors
    <2>6. Bounds'
        <3>1. /\ Len(executors') \in Nat /\ Len(executors) \in Nat
              /\ nextAlloc \in Nat /\ maxThreads \in Nat
              /\ Len(executors) <= maxThreads
            BY <2>3, LenProperties DEF FInv, TypeOK, Bounds
        <3>2. nextAlloc' <= Len(executors')
            BY <2>1, <3>1
        <3>3. Len(executors') <= maxThreads'
            BY <1>4, <2>3, <3>1
        <3>4. QED
            BY <3>2, <3>3 DEF Bounds
    <2>7. RefCountsMatchUsers'
        <3>1. DOMAIN refCounts' = RangeOf(executors')
            BY <2>1, <2>3 DEF FInv, RefCountsMatchUsers
        <3>2. ASSUME NEW e \in Execs
              PROVE  Cardinality(Users(e))' = IF e \in DOMAIN refCounts'
                                              THEN refCounts'[e] ELSE 0
            BY <1>1, <1>5, <1>6, <2>1, SMTT(20) DEF FInv, RefCountsMatchUsers
        <3>3. QED
            BY <2>3, <3>1, <3>2, SMTT(20) DEF RefCountsMatchUsers
    <2>8. MappedLive'
        BY <2>1, <2>3 DEF FInv, MappedLive, UnmapAll
    <2>9. PartitionAffinity'
        <3> SUFFICES ASSUME NEW x \in Sources, holder'[x] # NoExec
                     PROVE  holder'[x] = pid2exec'[x[1]]
            BY DEF PartitionAffinity
        <3>1. x # s /\ x[1] \in Partitions
            BY <1>4 DEF FInv, TypeOK, Sources
        <3>2. holder'[x] = holder[x] /\ holder[x] = pid2exec[x[1]]
            BY <1>4, <3>1 DEF FInv, TypeOK, PartitionAffinity
        <3>3. pid2exec[x[1]] # les
            BY <2>4, <3>2
        <3>4. QED
            BY <2>1, <3>1, <3>2, <3>3 DEF UnmapAll
    <2>10. LiveNotShutdown'
        BY <2>1, <2>3 DEF FInv, LiveNotShutdown
    <2>11. RefCountsPositive'
        BY <2>1 DEF FInv, RefCountsPositive
    <2>12. QED
        BY <1>4, <2>5, <2>6, <2>7, <2>8, <2>9, <2>10, <2>11, SMTT(20) DEF FInv
<1>7. CASE rc # 0
    <2>1. /\ refCounts' = [refCounts EXCEPT ![les] = rc]
          /\ UNCHANGED <<nextAlloc, executors, pid2exec, shutdown>>
        BY <1>4, <1>7 DEF IsLastReference
    <2>2. TypeOK'
        BY <1>3, <1>4, <2>1 DEF FInv, TypeOK
    <2>3. RefCountsMatchUsers'
        <3>1. ASSUME NEW e \in Execs
              PROVE  Cardinality(Users(e))' = IF e \in DOMAIN refCounts'
                                              THEN refCounts'[e] ELSE 0
            BY <1>1, <1>5, <2>1 DEF FInv, RefCountsMatchUsers
        <3>2. QED
            BY <2>1, <3>1 DEF FInv, RefCountsMatchUsers
    <2>4. PartitionAffinity'
        BY <1>4, <2>1 DEF FInv, TypeOK, PartitionAffinity
    <2>5. RefCountsPositive'
        BY <1>3, <1>7, <2>1 DEF FInv, RefCountsPositive, TypeOK
    <2>6. QED
        BY <1>4, <2>1, <2>2, <2>3, <2>4, <2>5
        DEF FInv, Bounds, MappedLive, LiveNotShutdown
<1>8. QED
    BY <1>6, <1>7

(* The two queries change only what they return to the caller. *)
LEMMA QueryFInv ==
    ASSUME FInv, GetMaxThreadCount \/ GetCurrentThreadCount
    PROVE  FInv'
<1>1. /\ UNCHANGED <<maxThreads, nextAlloc, executors, refCounts, pid2exec,
                     shutdown, holder, error>>
      /\ answer' \in [op : {"max", "current"}, thrown : BOOLEAN, value : Nat]
    <2>1. maxThreads \in Nat /\ Len(executors) \in Nat
        BY LenProperties DEF FInv, TypeOK
    <2>2. CASE GetMaxThreadCount
        BY <2>1, <2>2 DEF GetMaxThreadCount
    <2>3. CASE GetCurrentThreadCount
        BY <2>1, <2>3 DEF GetCurrentThreadCount
    <2>4. QED
        BY <2>2, <2>3
<1>2. TypeOK'
    BY <1>1 DEF FInv, TypeOK
<1>3. QED
    BY <1>1, <1>2
    DEF FInv, Bounds, RefCountsMatchUsers, Users, MappedLive, PartitionAffinity,
        LiveNotShutdown, RefCountsPositive, RangeOf

(* Every step of a factory whose callers keep the contract keeps FInv. *)
LEMMA NextFInv ==
    ASSUME ~CallersMayOverRelease
    PROVE  FInv /\ [Next]_vars => FInv'
<1> SUFFICES ASSUME FInv, [Next]_vars PROVE FInv'
    OBVIOUS
<1>1. ASSUME NEW s \in Sources, GetExecutor(s) PROVE FInv'
    <2>1. /\ holder[s] = NoExec
          /\ maxThreads' \in Nat \ {0}
          /\ Len(executors) <= maxThreads'
          /\ \/ AllocateExisting(s)
             \/ AllocateNew(s, maxThreads')
             \/ AllocateShared(s, maxThreads')
        BY <1>1, GetLimit DEF GetExecutor
    <2>2. QED
        BY <2>1, AllocateExistingFInv, AllocateNewFInv, AllocateSharedFInv
<1>2. ASSUME NEW s \in Sources, FreeExecutor(s) PROVE FInv'
    BY <1>2, FreeExecutorFInv
<1>3. CASE GetMaxThreadCount \/ GetCurrentThreadCount
    BY <1>3, QueryFInv
<1>4. CASE UNCHANGED vars
    BY <1>4
    DEF vars, FInv, TypeOK, Bounds, RefCountsMatchUsers, Users, MappedLive,
        PartitionAffinity, LiveNotShutdown, RefCountsPositive, RangeOf
<1>5. QED
    BY <1>1, <1>2, <1>3, <1>4 DEF Next

(* FInv holds in every state of a factory whose callers free only what   *)
(* they got.                                                             *)
THEOREM FInvHolds ==
    ASSUME ~CallersMayOverRelease
    PROVE  Spec => []FInv
<1>1. Init => FInv
    BY InitFInv
<1>2. FInv /\ [Next]_vars => FInv'
    BY NextFInv
<1>3. QED
    BY <1>1, <1>2, PTL DEF Spec

(* m_refCounts counts exactly the streams that got an executor and have  *)
(* not freed it (getExecutor/allocate increment, freeExecutor/release    *)
(* decrement), for every number of partitions, tables and executors.    *)
THEOREM RefCountsMatchUsersHolds ==
    ASSUME ~CallersMayOverRelease
    PROVE  Spec => []RefCountsMatchUsers
<1>1. FInv => RefCountsMatchUsers
    BY DEF FInv
<1>2. QED
    BY <1>1, FInvHolds, PTL

(* Every stream of a partition runs on that partition's executor of      *)
(* m_pid2execMap: allocate() never hands a stream a second executor.     *)
THEOREM PartitionAffinityHolds ==
    ASSUME ~CallersMayOverRelease
    PROVE  Spec => []PartitionAffinity
<1>1. FInv => PartitionAffinity
    BY DEF FInv
<1>2. QED
    BY <1>1, FInvHolds, PTL

(* release() never shuts down an executor a stream still runs on, and    *)
(* shut-down executors are gone from m_executors.                        *)
THEOREM NoSourceOnShutdownExecutorHolds ==
    ASSUME ~CallersMayOverRelease
    PROVE  Spec => []NoSourceOnShutdownExecutor
<1>1. FInv => NoSourceOnShutdownExecutor
    <2> SUFFICES ASSUME FInv, NEW x \in Sources, holder[x] # NoExec
                 PROVE  holder[x] \in RangeOf(executors) /\ holder[x] \notin shutdown
        BY DEF NoSourceOnShutdownExecutor
    <2>1. x[1] \in Partitions /\ holder[x] = pid2exec[x[1]]
        BY DEF FInv, PartitionAffinity, Sources
    <2>2. holder[x] \in RangeOf(executors)
        BY <2>1 DEF FInv, MappedLive
    <2>3. QED
        BY <2>2 DEF FInv, LiveNotShutdown
<1>2. QED
    BY <1>1, FInvHolds, PTL

(* No release() or allocate() of a well-behaved caller throws, and the   *)
(* list and the round-robin cursor stay within m_maxThreads.             *)
THEOREM NoFactoryExceptionHolds ==
    ASSUME ~CallersMayOverRelease
    PROVE  Spec => []NoFactoryException
<1>1. FInv => NoFactoryException
    BY DEF FInv, Bounds, NoFactoryException
<1>2. QED
    BY <1>1, FInvHolds, PTL
-----------------------------------------------------------------------------
(* Refinement: the factory implements ExecutorPool. *)

(* An ArrayList without duplicates has as many distinct elements as its  *)
(* size.                                                                 *)
LEMMA RangeCardinality ==
    ASSUME NEW S, NEW s \in Seq(S),
           \A i, j \in DOMAIN s : s[i] = s[j] => i = j
    PROVE  Cardinality(RangeOf(s)) = Len(s)
<1>1. Len(s) \in Nat /\ DOMAIN s = 1..Len(s)
    BY LenProperties
<1>2. s \in [1..Len(s) -> RangeOf(s)]
    BY <1>1 DEF RangeOf
<1>3. s \in Bijection(1..Len(s), RangeOf(s))
    BY <1>1, <1>2 DEF Bijection, Injection, IsInjective, Surjection, RangeOf
<1>4. ExistsBijection(1..Len(s), RangeOf(s))
    BY <1>3 DEF ExistsBijection
<1>5. QED
    BY <1>1, <1>4, FS_CountingElements

(* The executors sources run on are the executors of a list, when every  *)
(* holder's executor is its partition's, every mapped executor is in the *)
(* list, and every executor of the list has a positive count of holders. *)
LEMMA HeldIsList ==
    ASSUME NEW h \in [Sources -> Execs \cup {NoExec}], NEW ex, NEW pe, NEW rcs,
           \A x \in Sources : h[x] # NoExec => h[x] = pe[x[1]],
           \A p \in Partitions : pe[p] # NoExec => pe[p] \in RangeOf(ex),
           DOMAIN rcs = RangeOf(ex),
           \A e \in Execs : Cardinality(UsersOf(h, e)) =
                                IF e \in DOMAIN rcs THEN rcs[e] ELSE 0,
           \A e \in DOMAIN rcs : rcs[e] >= 1,
           RangeOf(ex) \subseteq Execs
    PROVE  {h[x] : x \in {y \in Sources : h[y] # NoExec}} = RangeOf(ex)
<1>1. ASSUME NEW x \in Sources, h[x] # NoExec PROVE h[x] \in RangeOf(ex)
    <2>1. x[1] \in Partitions
        BY DEF Sources
    <2>2. QED
        BY <1>1, <2>1
<1>2. ASSUME NEW e \in RangeOf(ex) PROVE \E x \in Sources : h[x] = e
    <2>1. e \in Execs /\ Cardinality(UsersOf(h, e)) >= 1
        BY <1>2
    <2>2. UsersOf(h, e) # {}
        <3>1. SUFFICES ASSUME UsersOf(h, e) = {} PROVE FALSE
            OBVIOUS
        <3>2. Cardinality(UsersOf(h, e)) = 0
            BY <3>1, FS_EmptySet
        <3>3. QED
            BY <2>1, <3>2
    <2>3. QED
        BY <2>2 DEF UsersOf
<1>3. QED
    <2>1. {h[x] : x \in {y \in Sources : h[y] # NoExec}} \subseteq RangeOf(ex)
        BY <1>1
    <2>2. RangeOf(ex) \subseteq {h[x] : x \in {y \in Sources : h[y] # NoExec}}
        <3>1. ASSUME NEW e \in RangeOf(ex)
              PROVE  e \in {h[x] : x \in {y \in Sources : h[y] # NoExec}}
            <4>1. PICK x \in Sources : h[x] = e
                BY <1>2
            <4>2. e \in Execs
                OBVIOUS
            <4>3. h[x] # NoExec
                BY <4>1, <4>2, ConstantsAssumption
            <4>4. QED
                BY <4>1, <4>3
        <3>2. QED
            BY <3>1
    <2>3. QED
        BY <2>1, <2>2

(* The same, for a state satisfying FInv. *)
LEMMA HeldIsListFInv ==
    ASSUME FInv
    PROVE  InUseOf(holder) = RangeOf(executors)
<1>1. RangeOf(executors) \subseteq Execs
    BY RangeInSet DEF FInv, TypeOK
<1>2. \A e \in Execs : Cardinality(UsersOf(holder, e)) =
                           IF e \in DOMAIN refCounts THEN refCounts[e] ELSE 0
    BY DEF FInv, RefCountsMatchUsers, Users, UsersOf
<1>3. QED
    BY <1>1, <1>2, HeldIsList
    DEF FInv, TypeOK, PartitionAffinity, MappedLive, RefCountsMatchUsers,
        RefCountsPositive, InUseOf, Streams, Sources
(* The same, for the state after a step that keeps FInv. *)
LEMMA HeldIsListNext ==
    ASSUME FInv'
    PROVE  InUseOf(holder') = RangeOf(executors')
<1>1. RangeOf(executors') \subseteq Execs
    BY RangeInSet DEF FInv, TypeOK
<1>2. \A e \in Execs : Cardinality(UsersOf(holder', e)) =
          IF e \in DOMAIN refCounts' THEN refCounts'[e] ELSE 0
    BY DEF FInv, RefCountsMatchUsers, Users, UsersOf
<1>3. holder' \in [Sources -> Execs \cup {NoExec}]
    BY DEF FInv, TypeOK
<1>4. \A x \in Sources : holder'[x] # NoExec => holder'[x] = pid2exec'[x[1]]
    BY DEF FInv, PartitionAffinity
<1>5. \A p \in Partitions :
          pid2exec'[p] # NoExec => pid2exec'[p] \in RangeOf(executors')
    BY DEF FInv, MappedLive
<1>6. /\ DOMAIN refCounts' = RangeOf(executors')
      /\ \A e \in DOMAIN refCounts' : refCounts'[e] >= 1
    BY DEF FInv, RefCountsMatchUsers, RefCountsPositive
<1>7. {holder'[x] : x \in {y \in Sources : holder'[y] # NoExec}}
          = RangeOf(executors')
    BY <1>1, <1>2, <1>3, <1>4, <1>5, <1>6, HeldIsList
<1>8. QED
    BY <1>7 DEF InUseOf, Streams, Sources

(* The factory starts as the pool does. *)
LEMMA InitRefines == Init => PoolInit
BY DEF Init, PoolInit, Null, Sources, Streams

(* A getExecutor is the pool's Acquire: the executor it hands out is the *)
(* partition's when a source of the partition runs on one, and the list   *)
(* after it, which is the set in use, stays within m_maxThreads.          *)
LEMMA GetExecutorRefines ==
    ASSUME FInv, FInv', NEW s \in Sources, GetExecutor(s)
    PROVE  Acquire(s)
<1>1. /\ holder[s] = NoExec
      /\ \/ AllocateExisting(s)
         \/ AllocateNew(s, maxThreads')
         \/ AllocateShared(s, maxThreads')
    BY GetLimit DEF GetExecutor
<1>2. maxThreads' \in IF maxThreads = 0 THEN ThreadLimits ELSE {maxThreads}
    BY DEF GetExecutor, IsInitialized, Null, ThreadLimits
<1>3. Cardinality(InUseOf(holder')) <= maxThreads'
    <2>1. InUseOf(holder') = RangeOf(executors')
        BY HeldIsListNext
    <2>2. Cardinality(RangeOf(executors')) = Len(executors')
        BY RangeCardinality DEF FInv, TypeOK, RefCountsMatchUsers
    <2>3. QED
        BY <2>1, <2>2 DEF FInv, Bounds
<1>4. ASSUME NEW e \in Execs, pid2exec[s[1]] \in {NoExec, e}
      PROVE  \A x \in Streams : x[1] = s[1] /\ holder[x] # NoExec
                                       => holder[x] = e
    BY <1>4 DEF FInv, PartitionAffinity, Streams, Sources
<1>5. \E e \in Execs :
          /\ holder' = [holder EXCEPT ![s] = e]
          /\ shutdown' = shutdown \ {e}
          /\ pid2exec[s[1]] \in {NoExec, e}
    <2>1. CASE AllocateExisting(s)
        <3> DEFINE les == pid2exec[s[1]]
        <3>1. les # NoExec /\ s[1] \in Partitions
            BY <2>1 DEF AllocateExisting, Sources
        <3>2. les \in RangeOf(executors) /\ les \in DOMAIN refCounts
            BY <3>1 DEF FInv, MappedLive, RefCountsMatchUsers
        <3>3. les \in Execs /\ les \notin shutdown
            BY <3>2, RangeInSet DEF FInv, TypeOK, LiveNotShutdown
        <3>4. holder' = [holder EXCEPT ![s] = les] /\ shutdown' = shutdown
            BY <2>1, <3>2 DEF AllocateExisting
        <3>5. QED
            BY <3>3, <3>4
    <2>2. CASE AllocateNew(s, maxThreads')
        BY <2>2 DEF AllocateNew
    <2>3. CASE AllocateShared(s, maxThreads')
        <3> DEFINE k   == RoundRobinIndex(nextAlloc)
                   les == executors[k + 1]
        <3>1. k < Len(executors) /\ les \in RangeOf(executors)
            <4>1. Len(executors) \in Nat /\ nextAlloc \in Nat
                  /\ nextAlloc <= Len(executors) /\ maxThreads' \in Nat \ {0}
                BY GetLimit, LenProperties DEF FInv, TypeOK, Bounds
            <4>2. k \in Nat /\ k < Len(executors)
                BY <2>3, <4>1 DEF AllocateShared, RoundRobinIndex
            <4>3. QED
                BY <4>1, <4>2, LenProperties DEF FInv, TypeOK, RangeOf
        <3>2. les \in Execs /\ les \notin shutdown
            BY <3>1, RangeInSet DEF FInv, TypeOK, LiveNotShutdown
        <3>3. holder' = [holder EXCEPT ![s] = les] /\ shutdown' = shutdown
              /\ pid2exec[s[1]] = NoExec
            BY <2>3, <3>1 DEF AllocateShared
        <3>4. QED
            BY <3>2, <3>3
    <2>4. QED
        BY <1>1, <2>1, <2>2, <2>3
<1>6. PICK e \in Execs :
          /\ holder' = [holder EXCEPT ![s] = e]
          /\ shutdown' = shutdown \ {e}
          /\ pid2exec[s[1]] \in {NoExec, e}
    BY <1>5
<1>7. \A x \in Streams : x[1] = s[1] /\ holder[x] # NoExec => holder[x] = e
    BY <1>4, <1>6
<1>8. \E ee \in Execs :
          /\ \A x \in Streams : x[1] = s[1] /\ holder[x] # NoExec => holder[x] = ee
          /\ holder' = [holder EXCEPT ![s] = ee]
          /\ Cardinality(InUseOf(holder')) <= maxThreads'
          /\ shutdown' = shutdown \ {ee}
    BY <1>3, <1>6, <1>7
<1>9. QED
    BY <1>1, <1>2, <1>8, Zenon DEF Acquire
(* A freeExecutor by a holder is the pool's Release: the executor goes   *)
(* to the shut-down set exactly when the list loses it, which is when no *)
(* source runs on it any more.                                           *)
LEMMA FreeExecutorRefines ==
    ASSUME FInv, FInv', ~CallersMayOverRelease, NEW s \in Sources,
           FreeExecutor(s)
    PROVE  Release(s)
<1> DEFINE les == pid2exec[s[1]]
           rc  == refCounts[les] - 1
<1>1. /\ holder[s] # NoExec
      /\ les = holder[s]
      /\ les \in RangeOf(executors)
    <2>1. holder[s] # NoExec
        BY DEF FreeExecutor, FreeCallers
    <2>2. s[1] \in Partitions
        BY DEF Sources
    <2>3. QED
        BY <2>1, <2>2 DEF FInv, PartitionAffinity, MappedLive
<1>2. /\ holder' = [holder EXCEPT ![s] = NoExec]
      /\ UNCHANGED maxThreads
      /\ IF IsLastReference(rc)
         THEN ReleaseLast(les)
         ELSE UNCHANGED <<executors, shutdown>>
    <2>1. error' = "none"
        BY DEF FInv
    <2>2. QED
        BY <2>1 DEF FreeExecutor
<1>3. InUseOf(holder') = RangeOf(executors')
    BY HeldIsListNext
<1>4. CASE IsLastReference(rc)
    <2>1. shutdown' = shutdown \cup {les}
        BY <1>2, <1>4 DEF ReleaseLast
    <2>2. les \notin RangeOf(executors')
        BY <2>1 DEF FInv, LiveNotShutdown
    <2>3. QED
        BY <1>1, <1>2, <1>3, <2>1, <2>2 DEF Release
<1>5. CASE ~IsLastReference(rc)
    <2>1. UNCHANGED <<executors, shutdown>>
        BY <1>2, <1>5
    <2>2. les \in RangeOf(executors')
        BY <1>1, <2>1
    <2>3. QED
        BY <1>1, <1>2, <1>3, <2>1, <2>2 DEF Release
<1>6. QED
    BY <1>4, <1>5

(* Every step of the factory, callers keeping the contract, is a step or *)
(* a stutter of the pool.                                                *)
LEMMA NextRefines ==
    ASSUME ~CallersMayOverRelease, FInv, FInv', [Next]_vars
    PROVE  [PoolNext]_poolVars
<1>1. CASE \E s \in Sources : GetExecutor(s)
    BY <1>1, GetExecutorRefines DEF PoolNext, Streams, Sources
<1>2. CASE \E s \in Sources : FreeExecutor(s)
    BY <1>2, FreeExecutorRefines DEF PoolNext, Streams, Sources
<1>3. CASE GetMaxThreadCount \/ GetCurrentThreadCount
    BY <1>3 DEF GetMaxThreadCount, GetCurrentThreadCount, poolVars
<1>4. CASE UNCHANGED vars
    BY <1>4 DEF vars, poolVars
<1>5. QED
    BY <1>1, <1>2, <1>3, <1>4 DEF Next

(* The factory implements the pool when callers free only what they got: *)
(* the refinement the core run checks, for every number of partitions,   *)
(* tables and executors and every configuration.                          *)
THEOREM PoolRefinementHolds ==
    ASSUME ~CallersMayOverRelease
    PROVE  Spec => PoolRefinement
<1>1. Init => PoolInit
    BY InitRefines
<1>2. FInv /\ FInv' /\ [Next]_vars => [PoolNext]_poolVars
    BY NextRefines
<1>3. Spec => []FInv
    BY FInvHolds
<1>4. []FInv /\ [][Next]_vars => [][PoolNext]_poolVars
    BY <1>2, PTL
<1>5. QED
    BY <1>1, <1>3, <1>4, PTL DEF Spec, PoolRefinement, PoolSpec

-----------------------------------------------------------------------------
(* Type correctness for every caller, over-releasing ones included: each  *)
(* operation's own checks (the partition map, the count map, rc < 0, the  *)
(* index against size()) keep every field in its type; no other fact is  *)
(* needed.                                                               *)

(* ArrayList.remove(k) on a nonempty list is a list over the same        *)
(* elements, whichever index k it is given.                              *)
LEMMA RemoveAtType ==
    ASSUME NEW S, NEW s \in Seq(S), Len(s) # 0, NEW k
    PROVE  RemoveAt(s, k) \in Seq(S)
<1> DEFINE n == Len(s) - 1
<1>1. Len(s) \in Nat /\ s \in [1..Len(s) -> S] /\ n \in Nat
    BY LenProperties
<1>2. RemoveAt(s, k) \in [1..n -> S]
    <2>1. \A j \in 1..n : s[j] \in S /\ s[j + 1] \in S
        BY <1>1
    <2>2. \A j \in 1..n : (IF j < k THEN s[j] ELSE s[j + 1]) \in S
        BY <2>1
    <2>3. QED
        BY <2>2 DEF RemoveAt
<1>3. [1..n -> S] \in {[1..m -> S] : m \in Nat}
    BY <1>1
<1>4. QED
    BY <1>2, <1>3, SeqDef

LEMMA GetExecutorType ==
    ASSUME TypeOK, NEW s \in Sources, GetExecutor(s)
    PROVE  TypeOK'
<1>1. maxThreads' \in Nat
    <2>1. PICK m \in IF IsInitialized THEN {maxThreads}
                     ELSE {InitialMaxThreads(c, n) : c \in ConfigValues,
                                                     n \in SitesCounts} :
              maxThreads' = m
        BY DEF GetExecutor
    <2>2. QED
        BY <2>1, InitialMaxThreadsPositive DEF TypeOK
<1>2. CASE AllocateExisting(s)
    <2> DEFINE les == pid2exec[s[1]]
    <2>1. les \in Execs
        BY <1>2, ConstantsAssumption DEF AllocateExisting, TypeOK, Sources
    <2>2. /\ refCounts' \in [DOMAIN refCounts' -> Nat]
          /\ DOMAIN refCounts' \subseteq Execs
          /\ holder' \in [Sources -> Execs \cup {NoExec}]
          /\ error' \in Errors
        BY <1>2, <2>1, SMTT(20) DEF AllocateExisting, TypeOK, Errors
    <2>3. QED
        BY <1>1, <1>2, <2>2 DEF AllocateExisting, TypeOK
<1>3. ASSUME NEW m, AllocateNew(s, m)
      PROVE  TypeOK'
    <2>1. PICK les \in Execs :
              /\ executors' = Append(executors, les)
              /\ refCounts' = [e \in DOMAIN refCounts \cup {les} |->
                                   IF e = les THEN 1 ELSE refCounts[e]]
              /\ pid2exec' = MapPartition(s[1], les)
              /\ shutdown' = shutdown \ {les}
              /\ holder' = [holder EXCEPT ![s] = les]
        BY <1>3 DEF AllocateNew
    <2>2. executors' \in Seq(Execs)
        BY <2>1 DEF TypeOK
    <2>3. pid2exec' \in [Partitions -> Execs \cup {NoExec}]
        BY <2>1 DEF MapPartition, TypeOK, Sources
    <2>4. QED
        BY <1>1, <1>3, <2>1, <2>2, <2>3 DEF AllocateNew, TypeOK
<1>4. ASSUME NEW m, AllocateShared(s, m)
      PROVE  TypeOK'
    <2> DEFINE k == RoundRobinIndex(nextAlloc)
               les == executors[k + 1]
    <2>1. k \in Nat
        BY DEF RoundRobinIndex, TypeOK
    <2>2. CASE k < Len(executors)
        <3>1. les \in Execs
            BY <2>1, <2>2 DEF TypeOK
        <3>2. /\ refCounts' = [refCounts EXCEPT ![les] = @ + 1]
              /\ pid2exec' = MapPartition(s[1], les)
              /\ holder' = [holder EXCEPT ![s] = les]
              /\ nextAlloc' = k + 1
              /\ UNCHANGED <<executors, shutdown, answer, error>>
            BY <1>4, <2>2 DEF AllocateShared
        <3>3. DOMAIN refCounts' = DOMAIN refCounts
              /\ refCounts' \in [DOMAIN refCounts' -> Nat]
            <4>1. refCounts \in [DOMAIN refCounts -> Nat]
                BY DEF TypeOK
            <4>2. CASE les \in DOMAIN refCounts
                BY <3>2, <4>1, <4>2
            <4>3. CASE les \notin DOMAIN refCounts
                BY <3>2, <4>1, <4>3
            <4>4. QED
                BY <4>2, <4>3
        <3>4. pid2exec' \in [Partitions -> Execs \cup {NoExec}]
              /\ holder' \in [Sources -> Execs \cup {NoExec}]
            BY <3>1, <3>2 DEF TypeOK, MapPartition, Sources
        <3>5. nextAlloc' \in Nat
            BY <2>1, <3>2
        <3>6. QED
            BY <1>1, <3>2, <3>3, <3>4, <3>5 DEF TypeOK
    <2>3. CASE ~(k < Len(executors))
        <3>1. /\ error' = "index_out_of_bounds"
              /\ UNCHANGED <<refCounts, pid2exec, holder, nextAlloc,
                             executors, shutdown, answer>>
            BY <1>4, <2>3 DEF AllocateShared
        <3>2. QED
            BY <1>1, <3>1 DEF TypeOK, Errors
    <2>4. QED
        BY <2>2, <2>3
<1>5. QED
    BY <1>2, <1>3, <1>4 DEF GetExecutor

(* release() keeps the fields in their types whatever the caller: its    *)
(* checks throw before any field changes, and rc >= 0 on the way on.      *)
LEMMA FreeExecutorType ==
    ASSUME TypeOK, NEW s \in Sources, FreeExecutor(s)
    PROVE  TypeOK'
<1> DEFINE les == pid2exec[s[1]]
           rc  == refCounts[les] - 1
<1>1. error' \in Errors /\ UNCHANGED <<maxThreads, answer>>
    BY DEF FreeExecutor, Errors
<1>2. CASE error' # "none"
    BY <1>1, <1>2 DEF FreeExecutor, TypeOK
<1>3. CASE error' = "none"
    <2>1. /\ les # NoExec
          /\ les \in DOMAIN refCounts
          /\ ~(rc < 0)
        BY <1>3 DEF FreeExecutor
    <2>2. les \in Execs /\ rc \in Nat
        BY <2>1 DEF TypeOK, Sources
    <2>3. holder' = [holder EXCEPT ![s] = NoExec]
        BY <1>3 DEF FreeExecutor
    <2>4. holder' \in [Sources -> Execs \cup {NoExec}]
        BY <2>3 DEF TypeOK
    <2>5. CASE IsLastReference(rc)
        <3>1. ReleaseLast(les)
            BY <1>3, <2>5 DEF FreeExecutor
        <3> DEFINE k == CHOOSE i \in DOMAIN executors :
                            /\ executors[i] = les
                            /\ \A j \in 1..(i - 1) : executors[j] # les
                   execs == IF les \in RangeOf(executors)
                            THEN RemoveAt(executors, k) ELSE executors
        <3>2. execs \in Seq(Execs)
            <4>1. CASE les \in RangeOf(executors)
                <5>1. Len(executors) # 0
                    BY <4>1, LenProperties DEF RangeOf, TypeOK
                <5>2. QED
                    BY <4>1, <5>1, RemoveAtType DEF TypeOK
            <4>2. CASE les \notin RangeOf(executors)
                BY <4>2 DEF TypeOK
            <4>3. QED
                BY <4>1, <4>2
        <3>3. Len(execs) \in Nat
            BY <3>2, LenProperties
        <3>4. /\ executors' = execs
              /\ refCounts' = [e \in DOMAIN refCounts \ {les} |-> refCounts[e]]
              /\ pid2exec' = UnmapAll(les)
              /\ nextAlloc' = IF nextAlloc > Len(execs) THEN 0 ELSE nextAlloc
              /\ shutdown' = shutdown \cup {les}
            BY <3>1 DEF ReleaseLast
        <3>5. /\ refCounts' \in [DOMAIN refCounts' -> Nat]
              /\ DOMAIN refCounts' \subseteq Execs
              /\ pid2exec' \in [Partitions -> Execs \cup {NoExec}]
              /\ nextAlloc' \in Nat
              /\ shutdown' \subseteq Execs
            BY <2>2, <3>3, <3>4 DEF TypeOK, UnmapAll
        <3>6. QED
            BY <1>1, <2>4, <3>2, <3>4, <3>5 DEF TypeOK
    <2>6. CASE ~IsLastReference(rc)
        <3>1. /\ refCounts' = [refCounts EXCEPT ![les] = rc]
              /\ UNCHANGED <<nextAlloc, executors, pid2exec, shutdown>>
            BY <1>3, <2>6 DEF FreeExecutor
        <3>2. refCounts' \in [DOMAIN refCounts' -> Nat]
              /\ DOMAIN refCounts' = DOMAIN refCounts
            BY <2>1, <2>2, <3>1 DEF TypeOK
        <3>3. QED
            BY <1>1, <2>4, <3>1, <3>2 DEF TypeOK
    <2>7. QED
        BY <2>5, <2>6
<1>4. QED
    BY <1>2, <1>3

(* The queries only record what the caller saw. *)
LEMMA QueryType ==
    ASSUME TypeOK, GetMaxThreadCount \/ GetCurrentThreadCount
    PROVE  TypeOK'
<1>1. Len(executors) \in Nat
    BY LenProperties DEF TypeOK
<1>2. CASE GetMaxThreadCount
    <2>1. answer' = [op |-> "max", thrown |-> ~IsInitialized, value |-> maxThreads]
        BY <1>2 DEF GetMaxThreadCount
    <2>2. answer' \in [op : {"max", "current"}, thrown : BOOLEAN, value : Nat]
        BY <2>1 DEF TypeOK
    <2>3. QED
        BY <1>2, <2>2 DEF GetMaxThreadCount, TypeOK
<1>3. CASE GetCurrentThreadCount
    <2>1. answer' = [op |-> "current", thrown |-> ~IsInitialized,
                     value |-> Len(executors)]
        BY <1>3 DEF GetCurrentThreadCount
    <2>2. answer' \in [op : {"max", "current"}, thrown : BOOLEAN, value : Nat]
        BY <1>1, <2>1
    <2>3. QED
        BY <1>3, <2>2 DEF GetCurrentThreadCount, TypeOK
<1>4. QED
    BY <1>2, <1>3

LEMMA NextType == TypeOK /\ [Next]_vars => TypeOK'
<1> SUFFICES ASSUME TypeOK, [Next]_vars PROVE TypeOK'
    OBVIOUS
<1>1. CASE \E s \in Sources : GetExecutor(s)
    BY <1>1, GetExecutorType
<1>2. CASE \E s \in Sources : FreeExecutor(s)
    BY <1>2, FreeExecutorType
<1>3. CASE GetMaxThreadCount \/ GetCurrentThreadCount
    BY <1>3, QueryType
<1>4. CASE UNCHANGED vars
    BY <1>4 DEF vars, TypeOK
<1>5. QED
    BY <1>1, <1>2, <1>3, <1>4 DEF Next

(* Every state the factory reaches is well typed, whatever its callers   *)
(* do, over-releasing ones included: m_maxThreads and m_nextAlloc are    *)
(* naturals, m_executors a list of executors, every count a natural and  *)
(* every map entry an executor.                                          *)
THEOREM TypeCorrect == Spec => []TypeOK
<1>1. Init => TypeOK
    BY ConstantsAssumption DEF Init, TypeOK, Null, Errors, NoAnswer
<1>2. QED
    BY <1>1, NextType, PTL DEF Spec
=============================================================================
