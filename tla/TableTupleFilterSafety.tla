------------------------ MODULE TableTupleFilterSafety -------------------------
(***************************************************************************)
(* The filter's main safety property for every geometry, block layout and *)
(* index width: while callers keep the contract, no assertion of          *)
(* initActiveTuple or updateTuple fires and m_lastActiveTupleIndex is the *)
(* greatest slot marked so far.  Both rest on getTupleIndex giving every  *)
(* tuple its slot SlotOf(t), whatever the one-entry block cache holds,    *)
(* which in turn rests on the cache only ever holding a block of the      *)
(* table together with that block's own slot offset (CacheOK).            *)
(***************************************************************************)
EXTENDS TableTupleFilterProofs

(* The (address, first slot) pair findBlockIndex stores for block b. *)
BlockRecord(b) == [addr |-> BlockAddr[b], idx |-> (b - 1) * TuplesPerBlock]

(* m_prevBlockAddress / m_prevBlockIndex are unset or describe one block. *)
CacheOK == prevBlock = NoBlock \/ \E b \in 1..NumBlocks : prevBlock = BlockRecord(b)

(* A natural with no remainder is its quotient times the divisor. *)
LEMMA ExactDivision ==
    ASSUME NEW d \in Nat \ {0}, NEW x \in Nat, x % d = 0
    PROVE  /\ x \div d \in Nat
           /\ x = (x \div d) * d
BY SMTT(60)

(* A whole block of slots after block b ends at or before block c. *)
LEMMA BlockEnd ==
    ASSUME NEW P \in Nat \ {0}, NEW b \in Nat, NEW c \in Nat, b < c
    PROVE  b * P + P <= c * P
BY SMTT(30)

(* Slots of earlier blocks come before those of later blocks. *)
LEMMA BlockOrder ==
    ASSUME NEW P \in Nat \ {0}, NEW b \in Nat, NEW c \in Nat,
           NEW k \in 0..(P - 1), NEW l \in 0..(P - 1), b < c
    PROVE  b * P + k < c * P + l
<1>1. b * P + k < b * P + P
    OBVIOUS
<1>2. QED
    BY <1>1, BlockEnd

(* SlotOf sends the tuples of the table one-to-one into the slots. *)
LEMMA SlotOfFacts ==
    ASSUME NEW t \in Tuple
    PROVE  /\ SlotOf(t) \in Slots
           /\ \A u \in Tuple : SlotOf(u) = SlotOf(t) => u = t
<1> USE ConstantFacts
<1>1. SlotOf(t) \in Slots
    <2>1. /\ t[1] - 1 \in 0..(NumBlocks - 1)
          /\ t[2] \in 0..(TuplesPerBlock - 1)
        BY GeometryAssumption DEF Tuple
    <2>2. (t[1] - 1) * TuplesPerBlock + TuplesPerBlock
              <= NumBlocks * TuplesPerBlock
        BY <2>1, BlockEnd, GeometryAssumption
    <2>3. QED
        BY <2>1, <2>2 DEF SlotOf, Slots, NumSlots
<1>2. ASSUME NEW u \in Tuple, SlotOf(u) = SlotOf(t) PROVE u = t
    <2>1. /\ t[1] \in 1..NumBlocks /\ u[1] \in 1..NumBlocks
          /\ t[1] - 1 \in Nat /\ u[1] - 1 \in Nat
          /\ t[2] \in 0..(TuplesPerBlock - 1)
          /\ u[2] \in 0..(TuplesPerBlock - 1)
          /\ t = <<t[1], t[2]>> /\ u = <<u[1], u[2]>>
        BY DEF Tuple
    <2>2. ~(t[1] - 1 < u[1] - 1) /\ ~(u[1] - 1 < t[1] - 1)
        BY <1>2, <2>1, BlockOrder DEF SlotOf
    <2>3. t[1] = u[1]
        BY <2>1, <2>2
    <2>4. SlotOf(u) = (t[1] - 1) * TuplesPerBlock + u[2]
        BY <2>3, Zenon DEF SlotOf
    <2>5. t[2] = u[2]
        BY <1>2, <2>1, <2>4 DEF SlotOf
    <2>6. QED
        BY <2>1, <2>3, <2>5, Zenon
<1>3. QED
    BY <1>1, <1>2

(* An aligned block that contains a tuple's address is that tuple's block. *)
LEMMA CacheHitBlock ==
    ASSUME NEW t \in Tuple, NEW b \in 1..NumBlocks,
           BlockAddr[b] <= TupleAddress(t),
           TupleAddress(t) < BlockAddr[b] + BlockBytes
    PROVE  b = t[1]
<1> DEFINE a == TupleAddress(t)
           A == BlockAddr[b]
<1> USE ConstantFacts
<1>1. /\ A \in Nat \ {0}
      /\ A % BlockBytes = 0
      /\ a \in Nat
      /\ a - (a % BlockBytes) = BlockAddr[t[1]]
    BY AlignedBaseOfTuple, BlockAddrAssumption
<1> DEFINE q == A \div BlockBytes
<1>2. q \in Nat /\ A = q * BlockBytes
    BY <1>1, ExactDivision
<1>3. a % BlockBytes = a - A
    <2>1. a - A \in 0..(BlockBytes - 1) /\ a = q * BlockBytes + (a - A)
        BY <1>1, <1>2
    <2>2. QED
        BY <1>2, <2>1, ModOfMultiplePlus
<1>4. A = BlockAddr[t[1]]
    BY <1>1, <1>3
<1>5. QED
    BY <1>4, BlockAddrAssumption DEF Tuple

(* m_blockIndexes gives block b its first slot. *)
LEMMA BlockIndexesValue ==
    ASSUME NEW b \in 1..NumBlocks
    PROVE  BlockIndexes[BlockAddr[b]] = (b - 1) * TuplesPerBlock
<1>1. (CHOOSE c \in 1..NumBlocks : BlockAddr[c] = BlockAddr[b]) = b
    BY BlockAddrAssumption
<1>2. QED
    BY <1>1 DEF BlockIndexes

(* findBlockIndex resolves a tuple's address to that tuple's block,     *)
(* from the cache or from m_blockIndexes.                               *)
LEMMA FindBlockOfTuple ==
    ASSUME CacheOK, NEW t \in Tuple
    PROVE  FindBlockIndex(TupleAddress(t)) = BlockRecord(t[1])
<1> DEFINE a == TupleAddress(t)
<1>1. t[1] \in 1..NumBlocks
    BY DEF Tuple
<1>2. CASE CacheHit(a)
    <2>1. PICK b \in 1..NumBlocks : prevBlock = BlockRecord(b)
        BY <1>2 DEF CacheOK, CacheHit
    <2>2. BlockAddr[b] <= a /\ a < BlockAddr[b] + BlockBytes
        BY <1>2, <2>1 DEF CacheHit, BlockRecord
    <2>3. b = t[1]
        BY <2>2, CacheHitBlock
    <2>4. QED
        BY <1>2, <2>1, <2>3 DEF FindBlockIndex
<1>3. CASE ~CacheHit(a)
    <2>1. a - (a % BlockBytes) = BlockAddr[t[1]]
        BY AlignedBaseOfTuple
    <2>2. BlockIndexes[BlockAddr[t[1]]] = (t[1] - 1) * TuplesPerBlock
        BY <1>1, BlockIndexesValue
    <2>3. QED
        BY <1>3, <2>1, <2>2 DEF FindBlockIndex, BlockRecord
<1>4. QED
    BY <1>2, <1>3

(* getTupleIndex gives every tuple of the table the slot the class      *)
(* comment's equation assigns it, and leaves the cache describing it.   *)
LEMMA TupleIndexOfTuple ==
    ASSUME CacheOK, NEW t \in Tuple
    PROVE  /\ GetTupleIndex(TupleAddress(t)) = SlotOf(t)
           /\ FindBlockIndex(TupleAddress(t)) = BlockRecord(t[1])
<1> USE ConstantFacts
<1>1. FindBlockIndex(TupleAddress(t)) = BlockRecord(t[1])
    BY FindBlockOfTuple
<1>2. /\ BlockAddr[t[1]] \in Nat
      /\ t[2] \in Nat
      /\ t[1] \in Nat
    BY BlockAddrAssumption DEF Tuple
<1>3. (t[2] * TupleLength) \div TupleLength = t[2]
    BY <1>2
<1>4. QED
    BY <1>1, <1>2, <1>3 DEF GetTupleIndex, BlockRecord, TupleAddress, SlotOf

(* Where char is signed, a slot reads back the marker stored in it. *)
LEMMA SignedRead ==
    ASSUME CharSigned, NEW i
    PROVE  GetTupleValue(i) = tuples[i]
BY DEF GetTupleValue

(* A bound that belongs to a set of integers is its MaxOf. *)
LEMMA MaxOfIs ==
    ASSUME NEW S \in SUBSET Int, NEW x \in S, \A y \in S : y <= x
    PROVE  MaxOf(S) = x
<1>1. \E z \in S : \A y \in S : y <= z
    OBVIOUS
<1>2. MaxOf(S) \in S /\ \A y \in S : y <= MaxOf(S)
    BY <1>1 DEF MaxOf
<1> DEFINE z == MaxOf(S)
<1>3. z \in Int /\ x \in Int
    BY <1>2
<1>4. z <= x /\ x <= z
    BY <1>2
<1>5. QED
    BY <1>3, <1>4

-----------------------------------------------------------------------------
(* The inductive invariant. *)

(* The tuples initActiveTuple has marked, and their slots. *)
Done == active \ pending
DoneSlots == {SlotOf(t) : t \in Done}

(* A tuple's slot is INACTIVE exactly while it has not been marked. *)
MarkedExactly ==
    \A t \in Tuple : (tuples[SlotOf(t)] = INACTIVE_TUPLE) <=> (t \notin Done)

(* m_lastActiveTupleIndex is a marked slot no smaller than any other, or   *)
(* INVALID_INDEX while none is marked.                                     *)
LastActiveBound ==
    IF DoneSlots = {} THEN lastActive = INVALID_INDEX
    ELSE /\ lastActive \in DoneSlots
         /\ \A s \in DoneSlots : s <= lastActive

SInv == IInv /\ NoAssertionFailure /\ CacheOK /\ MarkedExactly /\ LastActiveBound

(* The marked slots are slots, below INVALID_INDEX. *)
LEMMA DoneSlotsFacts ==
    ASSUME TypeOK
    PROVE  /\ DoneSlots \subseteq Slots
           /\ \A s \in Slots : s \in Nat /\ s < INVALID_INDEX
<1>1. DoneSlots \subseteq Slots
    BY SlotOfFacts DEF DoneSlots, Done, TypeOK
<1>2. \A s \in Slots : s \in Nat /\ s < INVALID_INDEX
    BY ConstantFacts DEF Slots
<1>3. QED
    BY <1>1, <1>2

(* The invariant yields the property the runs check. *)
LEMMA SInvLastActiveIsMax ==
    ASSUME SInv
    PROVE  LastActiveIsMax
<1>1. CASE DoneSlots = {}
    BY <1>1 DEF SInv, LastActiveBound, LastActiveIsMax, DoneSlots, Done
<1>2. CASE DoneSlots # {}
    <2>1. /\ lastActive \in DoneSlots
          /\ \A s \in DoneSlots : s <= lastActive
        BY <1>2 DEF SInv, LastActiveBound
    <2>2. DoneSlots \in SUBSET Int
        BY DoneSlotsFacts DEF SInv, IInv
    <2>3. MaxOf(DoneSlots) = lastActive
        BY <2>1, <2>2, MaxOfIs
    <2>4. QED
        BY <1>2, <2>3 DEF LastActiveIsMax, DoneSlots, Done
<1>3. QED
    BY <1>1, <1>2

LEMMA InitSInv == Init => SInv
<1> SUFFICES ASSUME Init PROVE SInv
    OBVIOUS
<1>1. Done = {}
    BY DEF Init, Done
<1>2. MarkedExactly
    BY <1>1, SlotOfFacts DEF Init, MarkedExactly
<1>3. LastActiveBound
    BY <1>1 DEF Init, LastActiveBound, DoneSlots
<1>4. QED
    BY <1>2, <1>3, InitIInv DEF SInv, NoAssertionFailure, CacheOK, Init
(* initActiveTuple on a tuple the table iterator has not delivered yet:  *)
(* its slot resolves correctly, is still INACTIVE, so no assertion fires, *)
(* and the last active index grows to cover it.                           *)
LEMMA InitActiveTupleSInv ==
    ASSUME CharSigned, SInv, NEW t \in Tuple, InitActiveTuple(t)
    PROVE  SInv'
<1> DEFINE i == SlotOf(t)
<1> USE ConstantFacts
<1>1. /\ GetTupleIndex(TupleAddress(t)) = i
      /\ prevBlock' = BlockRecord(t[1])
    BY TupleIndexOfTuple DEF SInv, InitActiveTuple
<1>2. /\ i \in Slots
      /\ \A u \in Tuple : SlotOf(u) = i => u = t
    BY SlotOfFacts
<1>3. /\ t \in pending
      /\ t \notin Done
      /\ Done' = Done \cup {t}
    BY DEF InitActiveTuple, Done, SInv, IInv, TypeOK
<1>4. tuples[i] = INACTIVE_TUPLE
    BY <1>3 DEF SInv, MarkedExactly
<1>5. fault' = "none"
    BY <1>1, <1>2, <1>4, SignedRead DEF InitActiveTuple
<1>6. /\ tuples' = [tuples EXCEPT ![i] = ACTIVE_TUPLE]
      /\ lastActive' = AdvancedLastActive(i)
    BY <1>1, <1>5 DEF InitActiveTuple
<1>7. CacheOK'
    <2>1. t[1] \in 1..NumBlocks
        BY DEF Tuple
    <2>2. QED
        BY <1>1, <2>1 DEF CacheOK
<1>8. MarkedExactly'
    <2> SUFFICES ASSUME NEW u \in Tuple
                 PROVE  (tuples'[SlotOf(u)] = INACTIVE_TUPLE) <=> (u \notin Done')
        BY DEF MarkedExactly
    <2>1. tuples \in [Slots -> Markers] /\ SlotOf(u) \in Slots
        BY SlotOfFacts DEF SInv, IInv, TypeOK
    <2>2. CASE u = t
        BY <1>3, <1>6, <2>1, <2>2, CodesAssumption
    <2>3. CASE u # t
        <3>1. SlotOf(u) # i
            BY <1>2, <2>3
        <3>2. tuples'[SlotOf(u)] = tuples[SlotOf(u)]
            BY <1>6, <2>1, <3>1
        <3>3. QED
            BY <1>3, <2>3, <3>2 DEF SInv, MarkedExactly
    <2>4. QED
        BY <2>2, <2>3
<1>9. LastActiveBound'
    <2>1. DoneSlots' = DoneSlots \cup {i}
        BY <1>3 DEF DoneSlots
    <2>2. DoneSlots \subseteq Slots /\ \A s \in Slots : s \in Nat /\ s < INVALID_INDEX
        BY DoneSlotsFacts DEF SInv, IInv
    <2>3. CASE DoneSlots = {}
        <3>1. lastActive = INVALID_INDEX
            BY <2>3 DEF SInv, LastActiveBound
        <3>2. lastActive' = i
            BY <1>6, <3>1 DEF AdvancedLastActive
        <3>3. DoneSlots' = {i}
            BY <2>1, <2>3
        <3>4. QED
            BY <1>2, <3>2, <3>3 DEF LastActiveBound, Slots
    <2>4. CASE DoneSlots # {}
        <3>1. lastActive \in DoneSlots /\ \A s \in DoneSlots : s <= lastActive
            BY <2>4 DEF SInv, LastActiveBound
        <3>2. lastActive # INVALID_INDEX /\ lastActive \in Nat /\ i \in Nat
            BY <1>2, <2>2, <3>1
        <3>3. lastActive' = IF lastActive < i THEN i ELSE lastActive
            BY <1>6, <3>2 DEF AdvancedLastActive
        <3>4. /\ lastActive' \in DoneSlots'
              /\ \A s \in DoneSlots' : s <= lastActive'
            BY <1>2, <2>1, <2>2, <3>1, <3>2, <3>3
        <3>5. QED
            BY <2>1, <3>4 DEF LastActiveBound
    <2>5. QED
        BY <2>3, <2>4
<1>10. IInv'
    BY InitActiveTupleIInv DEF SInv
<1>11. QED
    BY <1>5, <1>7, <1>8, <1>9, <1>10 DEF SInv, NoAssertionFailure
(* updateTuple after init on a tuple the table had active: its slot      *)
(* resolves correctly, lies at or below the last active index and is not *)
(* INACTIVE, so neither assertion fires; it stays marked.                *)
LEMMA UpdateTupleSInv ==
    ASSUME CharSigned, SInv, NEW t \in Tuple, NEW m \in Codes, UpdateTuple(t, m)
    PROVE  SInv'
<1> DEFINE i == SlotOf(t)
<1> USE ConstantFacts
<1>1. /\ GetTupleIndex(TupleAddress(t)) = i
      /\ prevBlock' = BlockRecord(t[1])
    BY TupleIndexOfTuple DEF SInv, UpdateTuple
<1>2. /\ i \in Slots
      /\ \A u \in Tuple : SlotOf(u) = i => u = t
    BY SlotOfFacts
<1>3. /\ t \in Done
      /\ Done' = Done
      /\ UNCHANGED lastActive
    BY DEF UpdateTuple, Done, Ready
<1>4. tuples[i] # INACTIVE_TUPLE
    BY <1>3 DEF SInv, MarkedExactly
<1>5. i <= lastActive /\ lastActive # INVALID_INDEX
    <2>1. i \in DoneSlots
        BY <1>3 DEF DoneSlots
    <2>2. DoneSlots \subseteq Slots /\ \A s \in Slots : s \in Nat /\ s < INVALID_INDEX
        BY DoneSlotsFacts DEF SInv, IInv
    <2>3. lastActive \in DoneSlots /\ \A s \in DoneSlots : s <= lastActive
        BY <2>1 DEF SInv, LastActiveBound
    <2>4. QED
        BY <2>1, <2>2, <2>3
<1>6. fault' = "none"
    BY <1>1, <1>2, <1>4, <1>5, SignedRead DEF UpdateTuple
<1>7. tuples' = [tuples EXCEPT ![i] = m]
    BY <1>1, <1>6 DEF UpdateTuple
<1>8. CacheOK'
    <2>1. t[1] \in 1..NumBlocks
        BY DEF Tuple
    <2>2. QED
        BY <1>1, <2>1 DEF CacheOK
<1>9. MarkedExactly'
    <2> SUFFICES ASSUME NEW u \in Tuple
                 PROVE  (tuples'[SlotOf(u)] = INACTIVE_TUPLE) <=> (u \notin Done')
        BY DEF MarkedExactly
    <2>1. tuples \in [Slots -> Markers] /\ SlotOf(u) \in Slots
        BY SlotOfFacts DEF SInv, IInv, TypeOK
    <2>2. CASE u = t
        BY <1>3, <1>7, <2>1, <2>2, CodesAssumption
    <2>3. CASE u # t
        <3>1. SlotOf(u) # i
            BY <1>2, <2>3
        <3>2. tuples'[SlotOf(u)] = tuples[SlotOf(u)]
            BY <1>7, <2>1, <3>1
        <3>3. QED
            BY <1>3, <3>2 DEF SInv, MarkedExactly
    <2>4. QED
        BY <2>2, <2>3
<1>10. LastActiveBound'
    BY <1>3 DEF SInv, LastActiveBound, DoneSlots
<1>11. IInv'
    BY UpdateTupleIInv DEF SInv
<1>12. QED
    BY <1>6, <1>8, <1>9, <1>10, <1>11 DEF SInv, NoAssertionFailure

(* Iterator steps leave the slots, the cache and the marked set alone. *)
LEMMA IterBeginSInv ==
    ASSUME SInv, NEW M \in Markers, IterBegin(M)
    PROVE  SInv'
<1>1. UNCHANGED <<tuples, lastActive, prevBlock, active, pending, fault>>
    BY DEF IterBegin
<1>2. IInv'
    BY IterBeginIInv DEF SInv
<1>3. QED
    BY <1>1, <1>2
    DEF SInv, NoAssertionFailure, CacheOK, MarkedExactly, LastActiveBound,
        DoneSlots, Done

LEMMA IterIncrementSInv ==
    ASSUME SInv, IterIncrement
    PROVE  SInv'
<1>1. UNCHANGED <<tuples, lastActive, prevBlock, active, pending, fault>>
    BY DEF IterIncrement
<1>2. IInv'
    BY IterIncrementIInv DEF SInv
<1>3. QED
    BY <1>1, <1>2
    DEF SInv, NoAssertionFailure, CacheOK, MarkedExactly, LastActiveBound,
        DoneSlots, Done

LEMMA NextSInv ==
    ASSUME CharSigned
    PROVE  SInv /\ [Next]_vars => SInv'
<1> SUFFICES ASSUME SInv, [Next]_vars PROVE SInv'
    OBVIOUS
<1>1. CASE \E t \in Tuple : InitActiveTuple(t)
    BY <1>1, InitActiveTupleSInv
<1>2. CASE \E t \in Tuple, m \in Codes : UpdateTuple(t, m)
    BY <1>2, UpdateTupleSInv
<1>3. CASE \E M \in Markers : IterBegin(M)
    BY <1>3, IterBeginSInv
<1>4. CASE IterIncrement
    BY <1>4, IterIncrementSInv
<1>5. CASE UNCHANGED vars
    BY <1>5
    DEF vars, SInv, IInv, TypeOK, LastActiveInRange, IteratorInRange, Ready,
        End, GetLastActiveTupleIndex, NoAssertionFailure, CacheOK,
        MarkedExactly, LastActiveBound,
        DoneSlots, Done
<1>6. QED
    BY <1>1, <1>2, <1>3, <1>4, <1>5 DEF Next

(* Where char is signed, and while callers keep the contract (init once  *)
(* from the table, then updateTuple only on tuples it had active), no    *)
(* assertion of initActiveTuple or updateTuple ever fires, for every     *)
(* block layout and build: getTupleIndex and its m_prevBlockAddress      *)
(* cache never send a tuple to a slot that is out of range, already      *)
(* marked, or beyond the last.                                           *)
THEOREM AssertionsHold ==
    ASSUME CharSigned
    PROVE  Spec => []NoAssertionFailure
<1>0. SInv /\ [Next]_vars => SInv'
    BY NextSInv
<1>1. Spec => []SInv
    BY <1>0, InitSInv, PTL DEF Spec
<1>2. QED
    BY <1>1, PTL DEF SInv

(* Where char is signed, m_lastActiveTupleIndex is always the greatest   *)
(* slot initActiveTuple has marked, and INVALID_INDEX before the first, *)
(* for every layout and build.                                          *)
THEOREM LastActiveIsMaxHolds ==
    ASSUME CharSigned
    PROVE  Spec => []LastActiveIsMax
<1>0. SInv /\ [Next]_vars => SInv'
    BY NextSInv
<1>1. Spec => []SInv
    BY <1>0, InitSInv, PTL DEF Spec
<1>2. SInv => LastActiveIsMax
    BY SInvLastActiveIsMax
<1>3. QED
    BY <1>1, <1>2, PTL

-----------------------------------------------------------------------------
(* The refinement: the filter implements TupleTags under the mapping     *)
(* tag[t] = m_tuples[SlotOf(t)].                                         *)

(* The abstract marker of every tuple, read through its slot. *)
TagOf(tp) == [u \in Tuple |-> tp[SlotOf(u)]]

(* Writing a tuple's slot writes that tuple's abstract marker and no    *)
(* other, because SlotOf is one-to-one.                                 *)
LEMMA TagOfWrite ==
    ASSUME NEW tp \in [Slots -> Markers], NEW t \in Tuple, NEW v
    PROVE  TagOf([tp EXCEPT ![SlotOf(t)] = v]) = [TagOf(tp) EXCEPT ![t] = v]
<1>1. ASSUME NEW u \in Tuple
      PROVE  [tp EXCEPT ![SlotOf(t)] = v][SlotOf(u)] = IF u = t THEN v ELSE tp[SlotOf(u)]
    <2>1. SlotOf(u) \in Slots /\ SlotOf(t) \in Slots
        BY SlotOfFacts
    <2>2. SlotOf(u) = SlotOf(t) => u = t
        BY SlotOfFacts
    <2>3. QED
        BY <2>1, <2>2
<1>2. QED
    BY <1>1 DEF TagOf

LEMMA InitRefinesTags == Init => Tags!Init
<1> SUFFICES ASSUME Init PROVE Tags!Init
    OBVIOUS
<1>1. TagOf(tuples) = [t \in Tuple |-> INACTIVE_TUPLE]
    BY SlotOfFacts DEF Init, TagOf
<1>2. QED
    BY <1>1 DEF Init, TagOf, Tags!Init

(* initActiveTuple(t) marks t ACTIVE in the abstract view. *)
LEMMA InitActiveTupleRefines ==
    ASSUME CharSigned, SInv, NEW t \in Tuple, InitActiveTuple(t)
    PROVE  Tags!MarkActive(t)
<1>1. GetTupleIndex(TupleAddress(t)) = SlotOf(t)
    BY TupleIndexOfTuple DEF SInv
<1>2. fault' = "none"
    BY InitActiveTupleSInv DEF SInv, NoAssertionFailure
<1>3. tuples' = [tuples EXCEPT ![SlotOf(t)] = ACTIVE_TUPLE]
    BY <1>1, <1>2 DEF InitActiveTuple
<1>4. TagOf(tuples') = [TagOf(tuples) EXCEPT ![t] = ACTIVE_TUPLE]
    BY <1>3, TagOfWrite DEF SInv, IInv, TypeOK
<1>5. t \in pending /\ pending' = pending \ {t} /\ UNCHANGED active
    BY DEF InitActiveTuple
<1>6. QED
    BY <1>4, <1>5 DEF Tags!MarkActive, TagOf

(* updateTuple(t, m) after init re-stamps t with m in the abstract view. *)
LEMMA UpdateTupleRefines ==
    ASSUME CharSigned, SInv, NEW t \in Tuple, NEW m \in Codes, UpdateTuple(t, m)
    PROVE  Tags!Retag(t, m)
<1>1. GetTupleIndex(TupleAddress(t)) = SlotOf(t)
    BY TupleIndexOfTuple DEF SInv
<1>2. fault' = "none"
    BY UpdateTupleSInv DEF SInv, NoAssertionFailure
<1>3. tuples' = [tuples EXCEPT ![SlotOf(t)] = m]
    BY <1>1, <1>2 DEF UpdateTuple
<1>4. TagOf(tuples') = [TagOf(tuples) EXCEPT ![t] = m]
    BY <1>3, TagOfWrite DEF SInv, IInv, TypeOK
<1>5. pending = {} /\ t \in active /\ UNCHANGED <<active, pending>>
    BY DEF UpdateTuple, Ready
<1>6. QED
    BY <1>4, <1>5 DEF Tags!Retag, TagOf

LEMMA NextRefinesTags ==
    ASSUME CharSigned
    PROVE  SInv /\ [Next]_vars => [Tags!Next]_Tags!vars
<1> SUFFICES ASSUME SInv, [Next]_vars PROVE [Tags!Next]_Tags!vars
    OBVIOUS
<1>1. CASE \E t \in Tuple : InitActiveTuple(t)
    BY <1>1, InitActiveTupleRefines DEF Tags!Next
<1>2. CASE \E t \in Tuple, m \in Codes : UpdateTuple(t, m)
    BY <1>2, UpdateTupleRefines DEF Tags!Next
<1>3. CASE \/ \E M \in Markers : IterBegin(M)
           \/ IterIncrement
           \/ UNCHANGED vars
    <2>1. UNCHANGED <<tuples, active, pending>>
        BY <1>3 DEF IterBegin, IterIncrement, vars
    <2>2. QED
        BY <2>1 DEF Tags!vars
<1>4. QED
    BY <1>1, <1>2, <1>3 DEF Next

(* Where char is signed, the filter with its address translation and    *)
(* one-entry block cache implements TupleTags: initActiveTuple marks    *)
(* exactly the delivered tuple ACTIVE, updateTuple re-stamps exactly    *)
(* the tuple it names, and no other call changes any tuple's marker,    *)
(* for every layout and index width.                                    *)
THEOREM FilterImplementsTagsHolds ==
    ASSUME CharSigned
    PROVE  Spec => FilterImplementsTags
<1>1. Spec => []SInv
    BY InitSInv, NextSInv, PTL DEF Spec
<1>2. QED
    BY <1>1, InitRefinesTags, NextRefinesTags, PTL
    DEF Spec, FilterImplementsTags, Tags!Spec

-----------------------------------------------------------------------------
(* The unsigned-char finding, for every layout: where char is unsigned, *)
(* the INACTIVE_TUPLE stored in m_tuples reads back as 255, so a debug  *)
(* build stops on the first initActiveTuple.                            *)

(* Nothing has been marked, and every slot still holds INACTIVE_TUPLE,  *)
(* while no assertion has fired.                                        *)
Unmarked ==
    fault = "none" => /\ pending = active
                      /\ \A x \in Slots : tuples[x] = INACTIVE_TUPLE

LEMMA NextUnmarked ==
    ASSUME ~CharSigned, AssertsEnabled
    PROVE  IInv /\ Unmarked /\ [Next]_vars => Unmarked'
<1> SUFFICES ASSUME IInv, Unmarked, [Next]_vars PROVE Unmarked'
    OBVIOUS
<1>1. ASSUME NEW t \in Tuple, InitActiveTuple(t)
      PROVE  fault' # "none"
    <2> DEFINE i == GetTupleIndex(TupleAddress(t))
    <2>1. CASE i \notin Slots
        BY <1>1, <2>1 DEF InitActiveTuple
    <2>2. CASE i \in Slots
        <3>1. tuples[i] = INACTIVE_TUPLE
            BY <1>1, <2>2 DEF InitActiveTuple, Unmarked
        <3>2. GetTupleValue(i) = INACTIVE_TUPLE % 256
            BY <3>1 DEF GetTupleValue
        <3>3. \A x \in Int : x % 256 \in 0..255
            OBVIOUS
        <3>4. GetTupleValue(i) \in 0..255
            <4>1. INACTIVE_TUPLE \in Int
                BY DEF INACTIVE_TUPLE
            <4>2. QED
                BY <3>2, <3>3, <4>1
        <3>5. GetTupleValue(i) # INACTIVE_TUPLE
            BY <3>4 DEF INACTIVE_TUPLE
        <3>6. QED
            BY <1>1, <2>2, <3>5 DEF InitActiveTuple
    <2>3. QED
        BY <2>1, <2>2
<1>2. ASSUME NEW t \in Tuple, NEW m \in Codes, UpdateTuple(t, m)
      PROVE  FALSE
    BY <1>2 DEF UpdateTuple, Ready, Unmarked
<1>3. CASE \/ \E M \in Markers : IterBegin(M)
           \/ IterIncrement
           \/ UNCHANGED vars
    BY <1>3 DEF IterBegin, IterIncrement, vars, Unmarked
<1>4. QED
    BY <1>1, <1>2, <1>3 DEF Next, Unmarked

(* Where char is unsigned, a debug build never marks a tuple: the first  *)
(* initActiveTuple finds its slot reading 255, not INACTIVE_TUPLE, and   *)
(* its assertion stops the program, for every block layout and width.    *)
THEOREM UnsignedDebugMarksNothing ==
    ASSUME ~CharSigned, AssertsEnabled
    PROVE  Spec => [](fault = "none" => pending = active)
<1>1. Init => Unmarked
    BY DEF Init, Unmarked
<1>2. Spec => [](IInv /\ Unmarked)
    BY <1>1, InitIInv, NextIInv, NextUnmarked, PTL DEF Spec
<1>3. QED
    BY <1>2, PTL DEF Unmarked
=============================================================================
