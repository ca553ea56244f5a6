------------------------ MODULE TableTupleFilterProofs ------------------------
(***************************************************************************)
(* Type correctness of TableTupleFilter for every geometry, block layout   *)
(* and index width, through the inductive invariant IInv: TypeOK alone is  *)
(* not inductive, because the iterator's next position is only an index   *)
(* when its current one is a slot at or below m_lastActiveTupleIndex or   *)
(* end(), and because the cache refill is only a (block, offset) pair     *)
(* when the tuple's aligned base is a block of m_blockIndexes.            *)
(***************************************************************************)
EXTENDS TableTupleFilter, WellFoundedInduction, TLAPS

(* The constants' facts the steps use. *)
LEMMA ConstantFacts ==
    /\ NumSlots \in Nat \ {0}
    /\ Modulus \in Nat \ {0}
    /\ INVALID_INDEX = Modulus - 1
    /\ NumSlots <= INVALID_INDEX
    /\ BlockBytes \in Nat \ {0}
    /\ TuplesPerBlock \in Nat \ {0}
    /\ TupleLength \in Nat \ {0}
BY GeometryAssumption, WidthAssumption
   DEF NumSlots, INVALID_INDEX, BlockBytes

(* A nonempty set of naturals has a least element, and MinOf picks it. *)
LEMMA MinOfIsLeast ==
    ASSUME NEW S \in SUBSET Nat, S # {}
    PROVE  /\ MinOf(S) \in S
           /\ \A y \in S : MinOf(S) <= y
<1> DEFINE LT == OpToRel(<, Nat)
<1>1. IsWellFoundedOn(LT, Nat)
    BY NatLessThanWellFounded
<1>2. \E x \in S : \A y \in S : ~(<<y, x>> \in LT)
    BY <1>1, WFMin, Zenon
<1>3. ASSUME NEW x \in Nat, NEW y \in Nat, ~(<<y, x>> \in LT)
      PROVE  x <= y
    <2>1. ~(y < x)
        BY <1>3, Zenon DEF OpToRel
    <2>2. QED
        BY <2>1
<1>4. \E x \in S : \A y \in S : x <= y
    BY <1>2, <1>3
<1>5. QED
    BY <1>4 DEF MinOf

(* increment() from a slot at or below the last active index, or from    *)
(* begin()'s INVALID_INDEX, stops at a slot at or below it or just past. *)
LEMMA AdvanceRange ==
    ASSUME lastActive \in Slots,
           tuples \in [Slots -> Markers],
           NEW i \in (0..lastActive) \cup {INVALID_INDEX},
           NEW M
    PROVE  Advance(i, M) \in 0..(lastActive + 1)
<1> DEFINE s == (i + 1) % Modulus
           C == {j \in s..lastActive : GetTupleValue(j) = M}
<1> USE ConstantFacts DEF Slots
<1>1. s \in 0..(lastActive + 1)
    <2>1. CASE i = INVALID_INDEX
        BY <2>1
    <2>2. CASE i \in 0..lastActive
        BY <2>2
    <2>3. QED
        BY <2>1, <2>2
<1>2. CASE s > lastActive
    BY <1>1, <1>2 DEF Advance
<1>3. CASE s <= lastActive /\ C = {}
    BY <1>3 DEF Advance
<1>4. CASE s <= lastActive /\ C # {}
    <2>1. C \in SUBSET Nat
        BY <1>1
    <2>2. MinOf(C) \in C
        BY <1>4, <2>1, MinOfIsLeast
    <2>3. QED
        BY <1>4, <2>2 DEF Advance
<1>5. QED
    BY <1>2, <1>3, <1>4

(* Adding less than d to a multiple of d leaves remainder the addend. *)
LEMMA ModOfMultiplePlus ==
    ASSUME NEW d \in Nat \ {0}, NEW q \in Nat, NEW r \in 0..(d - 1)
    PROVE  (q * d + r) % d = r
BY SMTT(60)

(* A tuple's address minus its offset in the block is its block's base:  *)
(* the tuple lies inside its aligned block.                              *)
LEMMA AlignedBaseOfTuple ==
    ASSUME NEW t \in Tuple
    PROVE  LET a == TupleAddress(t)
           IN  /\ a \in Nat
               /\ a - (a % BlockBytes) = BlockAddr[t[1]]
<1> DEFINE b == t[1]
           k == t[2]
           A == BlockAddr[b]
           off == k * TupleLength
<1> USE ConstantFacts
<1>1. /\ b \in 1..NumBlocks
      /\ k \in 0..(TuplesPerBlock - 1)
      /\ A \in Nat \ {0}
      /\ A % BlockBytes = 0
    BY BlockAddrAssumption DEF Tuple
<1>2. off \in 0..(BlockBytes - 1)
    <2>1. off <= (TuplesPerBlock - 1) * TupleLength
        BY <1>1
    <2>2. (TuplesPerBlock - 1) * TupleLength = BlockBytes - TupleLength
        BY DEF BlockBytes
    <2>3. QED
        BY <1>1, <2>1, <2>2
<1>3. /\ A \div BlockBytes \in Nat
      /\ A = (A \div BlockBytes) * BlockBytes
    BY <1>1
<1>4. (A + off) % BlockBytes = off
    BY <1>2, <1>3, ModOfMultiplePlus
<1>5. QED
    BY <1>1, <1>2, <1>4 DEF TupleAddress

(* m_blockIndexes maps each enumerated block's base to a slot offset. *)
LEMMA BlockIndexesOfBlock ==
    ASSUME NEW b \in 1..NumBlocks
    PROVE  /\ BlockAddr[b] \in DOMAIN BlockIndexes
           /\ BlockIndexes[BlockAddr[b]] \in Nat
<1>1. BlockAddr[b] \in {BlockAddr[c] : c \in 1..NumBlocks}
    OBVIOUS
<1>2. (CHOOSE c \in 1..NumBlocks : BlockAddr[c] = BlockAddr[b]) \in 1..NumBlocks
    OBVIOUS
<1>3. QED
    BY <1>1, <1>2, ConstantFacts DEF BlockIndexes

(* The block findBlockIndex resolves for a tuple of the table, and so   *)
(* the new m_prevBlockAddress / m_prevBlockIndex pair, is well typed.   *)
LEMMA FindBlockType ==
    ASSUME prevBlock \in {NoBlock} \cup [addr : Nat, idx : Nat],
           NEW t \in Tuple
    PROVE  FindBlockIndex(TupleAddress(t)) \in {NoBlock} \cup [addr : Nat, idx : Nat]
<1> DEFINE a == TupleAddress(t)
<1>1. a - (a % BlockBytes) = BlockAddr[t[1]] /\ a \in Nat
    BY AlignedBaseOfTuple
<1>2. t[1] \in 1..NumBlocks
    BY DEF Tuple
<1>3. BlockAddr[t[1]] \in Nat
    BY <1>2, BlockAddrAssumption
<1>4. BlockIndexes[BlockAddr[t[1]]] \in Nat
    BY <1>2, BlockIndexesOfBlock
<1>5. QED
    BY <1>1, <1>3, <1>4 DEF FindBlockIndex

-----------------------------------------------------------------------------
(* The inductive invariant. *)

(* m_lastActiveTupleIndex is a slot or INVALID_INDEX. *)
LastActiveInRange == lastActive \in Slots \cup {INVALID_INDEX}

(* A live iterator exists only after init, and stands on a slot at or    *)
(* below the last active index or at end().                              *)
IteratorInRange ==
    iter.live =>
        /\ Ready
        /\ \/ iter.idx = End
           \/ lastActive # INVALID_INDEX /\ iter.idx \in 0..lastActive

IInv == TypeOK /\ LastActiveInRange /\ IteratorInRange

LEMMA InitIInv == Init => IInv
<1> SUFFICES ASSUME Init PROVE IInv
    OBVIOUS
<1> USE ConstantFacts
<1>1. tuples \in [Slots -> Markers]
    BY DEF Init, Markers
<1>2. lastActive \in Index /\ LastActiveInRange
    BY DEF Init, Index, LastActiveInRange
<1>3. iter \in [live : BOOLEAN, marker : Markers, idx : Index]
    BY CodesAssumption DEF Init, NoIter, Markers, Index
<1>4. /\ prevBlock \in {NoBlock} \cup [addr : Nat, idx : Nat]
      /\ active \in SUBSET Tuple
      /\ pending \in SUBSET active
      /\ fault \in Faults
    BY DEF Init, Faults
<1>5. yielded \subseteq Slots /\ touched \subseteq Slots
    BY DEF Init
<1>6. IteratorInRange
    BY DEF Init, NoIter, IteratorInRange
<1>7. QED
    BY <1>1, <1>2, <1>3, <1>4, <1>5, <1>6 DEF IInv, TypeOK

LEMMA InitActiveTupleIInv ==
    ASSUME IInv, NEW t \in Tuple, InitActiveTuple(t)
    PROVE  IInv'
<1> DEFINE a == TupleAddress(t)
           i == GetTupleIndex(a)
<1> USE ConstantFacts
<1>1. prevBlock' \in {NoBlock} \cup [addr : Nat, idx : Nat]
    BY FindBlockType DEF IInv, TypeOK, InitActiveTuple
<1>2. fault' \in Faults
    BY DEF InitActiveTuple, Faults
<1>3. /\ tuples' \in [Slots -> Markers]
      /\ lastActive' \in Slots \cup {INVALID_INDEX}
    <2>1. CASE fault' = "none"
        <3>1. i \in Slots
            BY <2>1, Zenon DEF InitActiveTuple
        <3>2. tuples' = [tuples EXCEPT ![i] = ACTIVE_TUPLE]
              /\ lastActive' = AdvancedLastActive(i)
            BY <2>1 DEF InitActiveTuple
        <3>3. QED
            BY <3>1, <3>2, CodesAssumption
            DEF IInv, TypeOK, LastActiveInRange, AdvancedLastActive, Markers
    <2>2. CASE fault' # "none"
        BY <2>2 DEF InitActiveTuple, IInv, TypeOK, LastActiveInRange
    <2>3. QED
        BY <2>1, <2>2
<1>4. ~iter'.live
    <2>1. ~Ready
        BY DEF InitActiveTuple, Ready
    <2>2. QED
        BY <2>1 DEF InitActiveTuple, IInv, IteratorInRange
<1>5. pending' \in SUBSET active'
    BY DEF InitActiveTuple, IInv, TypeOK
<1>6. UNCHANGED <<active, iter, yielded, touched>>
    BY DEF InitActiveTuple
<1>7. lastActive' \in Index
    BY <1>3 DEF Index, Slots
<1>8. TypeOK'
    BY <1>1, <1>2, <1>3, <1>5, <1>6, <1>7 DEF IInv, TypeOK
<1>9. QED
    BY <1>3, <1>4, <1>8 DEF IInv, LastActiveInRange, IteratorInRange

LEMMA UpdateTupleIInv ==
    ASSUME IInv, NEW t \in Tuple, NEW m \in Codes, UpdateTuple(t, m)
    PROVE  IInv'
<1>1. prevBlock' \in {NoBlock} \cup [addr : Nat, idx : Nat]
    BY FindBlockType DEF IInv, TypeOK, UpdateTuple
<1>2. fault' \in Faults
    BY DEF UpdateTuple, Faults
<1>3. tuples' \in [Slots -> Markers] /\ touched' \subseteq Slots
    <2>1. CASE fault' = "none"
        <3>1. GetTupleIndex(TupleAddress(t)) \in Slots
            BY <2>1, Zenon DEF UpdateTuple
        <3>2. QED
            BY <2>1, <3>1 DEF UpdateTuple, IInv, TypeOK, Markers
    <2>2. CASE fault' # "none"
        BY <2>2 DEF UpdateTuple, IInv, TypeOK
    <2>3. QED
        BY <2>1, <2>2
<1>4. UNCHANGED <<lastActive, active, pending, iter, yielded>>
    BY DEF UpdateTuple
<1>5. QED
    BY <1>1, <1>2, <1>3, <1>4
    DEF IInv, TypeOK, LastActiveInRange, IteratorInRange, End, GetLastActiveTupleIndex, Ready

LEMMA IterBeginIInv ==
    ASSUME IInv, NEW M \in Markers, IterBegin(M)
    PROVE  IInv'
<1> USE ConstantFacts
<1> DEFINE idx == Begin(M)
<1>1. idx = End \/ (lastActive # INVALID_INDEX /\ idx \in 0..lastActive)
    <2>1. CASE lastActive = INVALID_INDEX
        BY <2>1 DEF End, GetLastActiveTupleIndex, Begin, Empty
    <2>2. CASE lastActive # INVALID_INDEX
        <3>1. lastActive \in Slots
            BY <2>2 DEF IInv, LastActiveInRange
        <3>2. Advance(INVALID_INDEX, M) \in 0..(lastActive + 1)
            BY <3>1, AdvanceRange DEF IInv, TypeOK
        <3>3. QED
            BY <2>2, <3>1, <3>2 DEF End, GetLastActiveTupleIndex, Slots, Begin, Empty
    <2>3. QED
        BY <2>1, <2>2
<1>2. idx \in Index /\ (idx # End => idx \in Slots)
    BY <1>1 DEF IInv, LastActiveInRange, Index, Slots, End, GetLastActiveTupleIndex
<1>3. iter' = [live |-> TRUE, marker |-> M, idx |-> idx]
      /\ yielded' = IF idx # End THEN {idx} ELSE {}
    BY DEF IterBegin
<1>4. UNCHANGED <<tuples, lastActive, prevBlock, active, pending, fault>>
      /\ touched' = {}
    BY DEF IterBegin
<1>5. iter' \in [live : BOOLEAN, marker : Markers, idx : Index]
    BY <1>2, <1>3
<1>6. yielded' \subseteq Slots
    BY <1>2, <1>3
<1>7. TypeOK'
    BY <1>4, <1>5, <1>6 DEF IInv, TypeOK
<1>8. IteratorInRange'
    BY <1>1, <1>3, <1>4 DEF IterBegin, IteratorInRange, End, GetLastActiveTupleIndex, Ready
<1>9. QED
    BY <1>4, <1>7, <1>8 DEF IInv, LastActiveInRange

LEMMA IterIncrementIInv ==
    ASSUME IInv, IterIncrement
    PROVE  IInv'
<1> USE ConstantFacts
<1> DEFINE idx == Advance(iter.idx, iter.marker)
<1>1. lastActive # INVALID_INDEX /\ iter.idx \in 0..lastActive
    BY DEF IterIncrement, IInv, IteratorInRange
<1>2. lastActive \in Slots
    BY <1>1 DEF IInv, LastActiveInRange
<1>3. idx \in 0..(lastActive + 1)
    BY <1>1, <1>2, AdvanceRange DEF IInv, TypeOK
<1>4. idx = End \/ idx \in 0..lastActive
    BY <1>1, <1>2, <1>3 DEF End, GetLastActiveTupleIndex, Slots
<1>5. idx \in Index /\ (idx # End => idx \in Slots)
    BY <1>2, <1>4 DEF Index, Slots, End, GetLastActiveTupleIndex
<1>6. iter' = [iter EXCEPT !.idx = idx]
      /\ yielded' = IF idx # End THEN yielded \cup {idx} ELSE yielded
    BY DEF IterIncrement
<1>7. UNCHANGED <<tuples, lastActive, prevBlock, active, pending, touched,
                 fault>>
    BY DEF IterIncrement
<1>8. iter' \in [live : BOOLEAN, marker : Markers, idx : Index]
    BY <1>5, <1>6 DEF IInv, TypeOK
<1>9. yielded' \subseteq Slots
    BY <1>5, <1>6 DEF IInv, TypeOK
<1>10. TypeOK'
    BY <1>7, <1>8, <1>9 DEF IInv, TypeOK
<1>11. IteratorInRange'
    BY <1>1, <1>4, <1>6, <1>7 DEF IterIncrement, IInv, IteratorInRange, End, GetLastActiveTupleIndex,
                                 Ready
<1>12. QED
    BY <1>7, <1>10, <1>11 DEF IInv, LastActiveInRange

LEMMA NextIInv == IInv /\ [Next]_vars => IInv'
<1> SUFFICES ASSUME IInv, [Next]_vars
             PROVE  IInv'
    OBVIOUS
<1>1. CASE \E t \in Tuple : InitActiveTuple(t)
    BY <1>1, InitActiveTupleIInv
<1>2. CASE \E t \in Tuple, m \in Codes : UpdateTuple(t, m)
    BY <1>2, UpdateTupleIInv
<1>3. CASE \E M \in Markers : IterBegin(M)
    BY <1>3, IterBeginIInv
<1>4. CASE IterIncrement
    BY <1>4, IterIncrementIInv
<1>5. CASE UNCHANGED vars
    BY <1>5
    DEF vars, IInv, TypeOK, LastActiveInRange, IteratorInRange, End, GetLastActiveTupleIndex, Ready
<1>6. QED
    BY <1>1, <1>2, <1>3, <1>4, <1>5 DEF Next

(* Every state the filter reaches is well typed: markers are int8 codes, *)
(* the last active index and the iterator's position are uint64 values  *)
(* of the model's width, and the block cache holds a resolved block.    *)
THEOREM TypeCorrect == Spec => []TypeOK
<1>1. Spec => []IInv
    BY InitIInv, NextIInv, PTL DEF Spec
<1>2. QED
    BY <1>1, PTL DEF IInv
=============================================================================
