---------------------- MODULE TableTupleFilterIterProofs ----------------------
(***************************************************************************)
(* The iterator's correctness for every geometry, block layout and index   *)
(* width, where char is signed: TableTupleFilter_iter<M> walks the slots   *)
(* that carry M at or below m_lastActiveTupleIndex in increasing order,   *)
(* skips none, and stops at end(), whatever updateTuple calls interleave  *)
(* with the walk.  IteratorExact is inductive together with IInv: the     *)
(* argument is that increment() stops at the least slot after its         *)
(* position that carries M (AdvanceSpec), so every wanted slot between    *)
(* two positions is the second one, and an update only takes its slot    *)
(* out of both sides of the equation.                                     *)
(***************************************************************************)
EXTENDS TableTupleFilterProofs

(* The slots a live iterator must stand on: those carrying its marker at *)
(* or below the last active index that updateTuple has not written since *)
(* begin().                                                              *)
Want == {s \in Slots \ touched : /\ lastActive # INVALID_INDEX
                                 /\ s <= lastActive
                                 /\ tuples[s] = iter.marker}

(* IteratorExact, with its LET named. *)
LEMMA IteratorExactDef ==
    IteratorExact <=>
        (iter.live =>
            /\ iter.idx # End => \A s \in yielded : s <= iter.idx
            /\ yielded \ touched = {s \in Want : iter.idx = End \/ s <= iter.idx})
BY DEF IteratorExact, Want

(* increment() from i, where char is signed, stops at the least slot     *)
(* from i + 1 (from 0 for begin()'s INVALID_INDEX) up to the last active *)
(* index that carries M, and one past the last active index when there   *)
(* is none.                                                              *)
LEMMA AdvanceSpec ==
    ASSUME CharSigned,
           lastActive \in Slots,
           tuples \in [Slots -> Markers],
           NEW i \in (0..lastActive) \cup {INVALID_INDEX},
           NEW M
    PROVE  LET s == IF i = INVALID_INDEX THEN 0 ELSE i + 1
               n == Advance(i, M)
           IN  /\ n \in s..(lastActive + 1)
               /\ n <= lastActive => tuples[n] = M
               /\ \A j \in s..lastActive : j < n => tuples[j] # M
<1> DEFINE s == IF i = INVALID_INDEX THEN 0 ELSE i + 1
           C == {j \in s..lastActive : GetTupleValue(j) = M}
<1> USE ConstantFacts DEF Slots
<1>1. (i + 1) % Modulus = s /\ s \in 0..(lastActive + 1)
    <2>1. CASE i = INVALID_INDEX
        BY <2>1
    <2>2. CASE i # INVALID_INDEX
        BY <2>2
    <2>3. QED
        BY <2>1, <2>2
<1>2. C = {j \in s..lastActive : tuples[j] = M}
    BY <1>1 DEF GetTupleValue
<1>3. CASE s > lastActive
    <2>1. Advance(i, M) = s
        BY <1>1, <1>3 DEF Advance
    <2>2. QED
        BY <1>1, <1>3, <2>1
<1>4. CASE s <= lastActive /\ C = {}
    <2>1. Advance(i, M) = lastActive + 1
        BY <1>1, <1>4 DEF Advance
    <2>2. \A j \in s..lastActive : tuples[j] # M
        BY <1>2, <1>4
    <2>3. lastActive + 1 \in s..(lastActive + 1)
        BY <1>1
    <2>4. QED
        BY <2>1, <2>2, <2>3
<1>5. CASE s <= lastActive /\ C # {}
    <2>0. {j \in ((i + 1) % Modulus)..lastActive : GetTupleValue(j) = M} = C
        BY <1>1
    <2>1. Advance(i, M) = MinOf(C)
        <3>1. Advance(i, M) =
                  MinOf({j \in ((i + 1) % Modulus)..lastActive : GetTupleValue(j) = M})
            BY <1>1, <1>5, <2>0 DEF Advance
        <3>2. QED
            BY <2>0, <3>1, Zenon
    <2>2. C \in SUBSET Nat
        BY <1>1
    <2>3. MinOf(C) \in C /\ \A y \in C : MinOf(C) <= y
        BY <1>5, <2>2, MinOfIsLeast
    <2>4. MinOf(C) \in s..lastActive /\ tuples[MinOf(C)] = M
        BY <1>2, <2>3
    <2>5. \A j \in s..lastActive : j < MinOf(C) => tuples[j] # M
        BY <1>2, <2>3
    <2>6. QED
        BY <2>1, <2>4, <2>5
<1>6. QED
    BY <1>3, <1>4, <1>5

-----------------------------------------------------------------------------
(* The inductive invariant. *)

ItInv == IInv /\ IteratorExact

(* No iterator exists while init is still marking tuples. *)
LEMMA InitActiveTupleExact ==
    ASSUME IInv, NEW t \in Tuple, InitActiveTuple(t)
    PROVE  IteratorExact'
<1>1. ~iter.live
    BY DEF InitActiveTuple, IInv, IteratorInRange, Ready
<1>2. iter' = iter
    BY DEF InitActiveTuple
<1>3. QED
    BY <1>1, <1>2 DEF IteratorExact

(* updateTuple during a walk takes its slot out of both the slots stood *)
(* on and the slots wanted; every other slot keeps its marker.          *)
LEMMA UpdateTupleExact ==
    ASSUME IInv, IteratorExact, NEW t \in Tuple, NEW m \in Codes,
           UpdateTuple(t, m)
    PROVE  IteratorExact'
<1> DEFINE i == GetTupleIndex(TupleAddress(t))
<1>1. UNCHANGED <<lastActive, iter, yielded>>
    BY DEF UpdateTuple
<1>2. CASE fault' # "none"
    <2>1. UNCHANGED <<tuples, touched>>
        BY <1>2 DEF UpdateTuple
    <2>2. QED
        BY <1>1, <2>1 DEF IteratorExact, End, GetLastActiveTupleIndex
<1>3. CASE fault' = "none" /\ ~iter.live
    BY <1>1, <1>3 DEF IteratorExact
<1>4. CASE fault' = "none" /\ iter.live
    <2>1. i \in Slots
        BY <1>4, Zenon DEF UpdateTuple
    <2>2. tuples' = [tuples EXCEPT ![i] = m] /\ touched' = touched \cup {i}
        BY <1>4 DEF UpdateTuple
    <2>3. Want' = Want \ {i}
        BY <1>1, <2>1, <2>2 DEF Want, IInv, TypeOK
    <2>4. yielded' \ touched' = (yielded \ touched) \ {i}
        BY <1>1, <2>2
    <2>5. End' = End
        BY <1>1 DEF End, GetLastActiveTupleIndex
    <2>6. /\ iter.idx # End => \A x \in yielded : x <= iter.idx
          /\ yielded \ touched = {x \in Want : iter.idx = End \/ x <= iter.idx}
        BY <1>4, IteratorExactDef
    <2>7. yielded' \ touched' = {x \in Want' : iter'.idx = End' \/ x <= iter'.idx}
        BY <1>1, <2>3, <2>4, <2>5, <2>6
    <2>8. QED
        BY <1>1, <2>5, <2>6, <2>7 DEF IteratorExact, Want
<1>5. QED
    BY <1>2, <1>3, <1>4

(* begin<M>() stands on the least slot carrying M, or at end() when no  *)
(* slot at or below the last active index carries it.                   *)
LEMMA IterBeginExact ==
    ASSUME CharSigned, IInv, NEW M \in Markers, IterBegin(M)
    PROVE  IteratorExact'
<1> USE ConstantFacts
<1> DEFINE n == Begin(M)
<1>1. /\ iter' = [live |-> TRUE, marker |-> M, idx |-> n]
      /\ yielded' = IF n # End THEN {n} ELSE {}
      /\ touched' = {}
      /\ UNCHANGED <<tuples, lastActive>>
    BY DEF IterBegin
<1>2. End' = End
    BY <1>1 DEF End, GetLastActiveTupleIndex
<1>3. Want' = {x \in Slots : /\ lastActive # INVALID_INDEX
                             /\ x <= lastActive
                             /\ tuples[x] = M}
    BY <1>1 DEF Want
<1>4. SUFFICES /\ n # End => \A x \in yielded' : x <= n
               /\ yielded' = {x \in Want' : n = End \/ x <= n}
    BY <1>1, <1>2 DEF IteratorExact, Want
<1>5. CASE lastActive = INVALID_INDEX
    <2>1. n = End
        BY <1>5 DEF Begin, Empty, End, GetLastActiveTupleIndex
    <2>2. Want' = {}
        BY <1>3, <1>5
    <2>3. QED
        BY <1>1, <2>1, <2>2
<1>6. CASE lastActive # INVALID_INDEX
    <2>1. lastActive \in Slots /\ tuples \in [Slots -> Markers]
        BY <1>6 DEF IInv, LastActiveInRange, TypeOK
    <2>2. n = Advance(INVALID_INDEX, M) /\ End = lastActive + 1
        BY <1>6 DEF Begin, Empty, End, GetLastActiveTupleIndex
    <2>3. /\ n \in 0..(lastActive + 1)
          /\ n <= lastActive => tuples[n] = M
          /\ \A j \in 0..lastActive : j < n => tuples[j] # M
        BY <1>6, <2>1, <2>2, AdvanceSpec
    <2>4. Want' = {x \in 0..lastActive : tuples[x] = M}
        BY <1>3, <1>6, <2>1 DEF Slots
    <2>5. CASE n = End
        <3>1. Want' = {}
            BY <2>1, <2>2, <2>3, <2>4, <2>5 DEF Slots
        <3>2. QED
            BY <1>1, <2>5, <3>1
    <2>6. CASE n # End
        <3>1. n \in 0..lastActive /\ tuples[n] = M
            BY <2>1, <2>2, <2>3, <2>6 DEF Slots
        <3>2. {x \in Want' : x <= n} = {n}
            BY <2>3, <2>4, <3>1
        <3>3. QED
            BY <1>1, <2>6, <3>2
    <2>7. QED
        BY <2>5, <2>6
<1>7. QED
    BY <1>5, <1>6

(* ++it moves to the least slot after its position that carries M, so   *)
(* every wanted slot it passes over is the one it stops on; when it     *)
(* reaches end() there was none left.                                   *)
LEMMA IterIncrementExact ==
    ASSUME CharSigned, IInv, IteratorExact, IterIncrement
    PROVE  IteratorExact'
<1> USE ConstantFacts
<1> DEFINE M == iter.marker
           k == iter.idx
           n == Advance(k, M)
<1>1. /\ iter' = [iter EXCEPT !.idx = n]
      /\ yielded' = IF n # End THEN yielded \cup {n} ELSE yielded
      /\ UNCHANGED <<tuples, lastActive, touched>>
      /\ iter.live /\ k # End
    BY DEF IterIncrement
<1>2. /\ lastActive # INVALID_INDEX
      /\ lastActive \in Slots
      /\ k \in 0..lastActive
      /\ tuples \in [Slots -> Markers]
      /\ iter \in [live : BOOLEAN, marker : Markers, idx : Index]
    BY <1>1 DEF IInv, IteratorInRange, LastActiveInRange, TypeOK
<1>3. End = lastActive + 1 /\ End' = End
    BY <1>1, <1>2 DEF End, GetLastActiveTupleIndex
<1>4. /\ n \in (k + 1)..(lastActive + 1)
      /\ n <= lastActive => tuples[n] = M
      /\ \A j \in (k + 1)..lastActive : j < n => tuples[j] # M
    <2>1. k # INVALID_INDEX
        BY <1>2 DEF Slots
    <2>2. QED
        BY <1>2, <2>1, AdvanceSpec
<1>5. /\ Want' = Want
      /\ iter'.live /\ iter'.marker = M /\ iter'.idx = n
    BY <1>1, <1>2 DEF Want
<1>6. /\ \A x \in yielded : x <= k
      /\ yielded \ touched = {x \in Want : x <= k}
    BY <1>1, IteratorExactDef
<1>7. Want \subseteq 0..lastActive
    BY <1>2 DEF Want, Slots
<1>8. SUFFICES /\ n # End => \A x \in yielded' : x <= n
               /\ yielded' \ touched = {x \in Want : n = End \/ x <= n}
    BY <1>1, <1>3, <1>5 DEF IteratorExact, Want
<1>9. CASE n = End
    <2>1. ASSUME NEW x \in Want PROVE x <= k
        <3>1. x \in 0..lastActive /\ tuples[x] = M
            BY <1>7 DEF Want
        <3>2. x < n
            BY <1>2, <1>3, <1>9, <3>1 DEF Slots
        <3>3. QED
            BY <1>2, <1>4, <3>1, <3>2 DEF Slots
    <2>2. QED
        BY <1>1, <1>6, <1>9, <2>1
<1>10. CASE n # End
    <2>1. n \in (k + 1)..lastActive /\ tuples[n] = M
        BY <1>2, <1>3, <1>4, <1>10 DEF Slots
    <2>2. \A x \in yielded' : x <= n
        <3>1. yielded' = yielded \cup {n}
            BY <1>1, <1>10
        <3>2. k \in Nat /\ n \in Nat /\ k < n
            BY <1>2, <2>1 DEF Slots
        <3>3. \A x \in yielded : x <= k
            BY <1>6
        <3>4. yielded \subseteq Slots
            BY DEF IInv, TypeOK
        <3>5. QED
            BY <3>1, <3>2, <3>3, <3>4 DEF Slots
    <2>3. {x \in Want : x <= n} = {x \in Want : x <= k} \cup ({n} \ touched)
        BY <1>2, <1>4, <1>7, <2>1 DEF Want, Slots
    <2>4. yielded' \ touched = (yielded \ touched) \cup ({n} \ touched)
        BY <1>1, <1>10
    <2>5. QED
        BY <1>6, <1>10, <2>2, <2>3, <2>4
<1>11. QED
    BY <1>9, <1>10

LEMMA InitItInv == Init => ItInv
<1> SUFFICES ASSUME Init PROVE ItInv
    OBVIOUS
<1>1. ~iter.live
    BY DEF Init, NoIter
<1>2. QED
    BY <1>1, InitIInv DEF ItInv, IteratorExact

LEMMA NextItInv ==
    ASSUME CharSigned
    PROVE  ItInv /\ [Next]_vars => ItInv'
<1> SUFFICES ASSUME ItInv, [Next]_vars PROVE ItInv'
    OBVIOUS
<1>1. IInv'
    BY NextIInv DEF ItInv
<1> SUFFICES IteratorExact'
    BY <1>1 DEF ItInv
<1>2. CASE \E t \in Tuple : InitActiveTuple(t)
    BY <1>2, InitActiveTupleExact DEF ItInv
<1>3. CASE \E t \in Tuple, m \in Codes : UpdateTuple(t, m)
    BY <1>3, UpdateTupleExact DEF ItInv
<1>4. CASE \E M \in Markers : IterBegin(M)
    BY <1>4, IterBeginExact DEF ItInv
<1>5. CASE IterIncrement
    BY <1>5, IterIncrementExact DEF ItInv
<1>6. CASE UNCHANGED vars
    BY <1>6 DEF vars, ItInv, IteratorExact, End, GetLastActiveTupleIndex
<1>7. QED
    BY <1>2, <1>3, <1>4, <1>5, <1>6 DEF Next

(* Where char is signed, a live TableTupleFilter_iter<M> has stood, in  *)
(* increasing order, on exactly the slots at or below its position that *)
(* carry M at or below m_lastActiveTupleIndex and that updateTuple has  *)
(* not written since begin(), and on all of them once it equals end(),  *)
(* for every layout, index width and interleaving of updates.           *)
THEOREM IteratorExactHolds ==
    ASSUME CharSigned
    PROVE  Spec => []IteratorExact
<1>1. Spec => []ItInv
    BY InitItInv, NextItInv, PTL DEF Spec
<1>2. QED
    BY <1>1, PTL DEF ItInv

-----------------------------------------------------------------------------
(* The unsigned-char finding on the iterator, for every layout: where     *)
(* char is unsigned, getTupleValue reads 0..255 and never equals the      *)
(* negative INACTIVE_TUPLE, so begin<INACTIVE_TUPLE>() is end().          *)

(* An iterator over INACTIVE_TUPLE stands at end() and has yielded none. *)
InactiveWalkEmpty ==
    iter.live /\ iter.marker = INACTIVE_TUPLE => iter.idx = End /\ yielded = {}

(* Where char is unsigned, no slot reads as INACTIVE_TUPLE. *)
LEMMA UnsignedNeverInactive ==
    ASSUME ~CharSigned, NEW j, tuples[j] \in Int
    PROVE  GetTupleValue(j) # INACTIVE_TUPLE
<1>1. \A x \in Int : x % 256 \in 0..255
    OBVIOUS
<1>2. INACTIVE_TUPLE \in Int /\ INACTIVE_TUPLE < 0
    BY DEF INACTIVE_TUPLE
<1>3. QED
    BY <1>1, <1>2 DEF GetTupleValue

LEMMA NextInactiveWalkEmpty ==
    ASSUME ~CharSigned
    PROVE  IInv /\ InactiveWalkEmpty /\ [Next]_vars => InactiveWalkEmpty'
<1> SUFFICES ASSUME IInv, InactiveWalkEmpty, [Next]_vars
             PROVE  InactiveWalkEmpty'
    OBVIOUS
<1> USE ConstantFacts
<1>1. CASE \E t \in Tuple : InitActiveTuple(t)
    BY <1>1 DEF InitActiveTuple, InactiveWalkEmpty, IInv, IteratorInRange, Ready
<1>2. CASE \E t \in Tuple, m \in Codes : UpdateTuple(t, m)
    BY <1>2 DEF UpdateTuple, InactiveWalkEmpty, End, GetLastActiveTupleIndex
<1>3. ASSUME NEW M \in Markers, IterBegin(M), M = INACTIVE_TUPLE
      PROVE  InactiveWalkEmpty'
    <2>1. /\ iter' = [live |-> TRUE, marker |-> M, idx |-> Begin(M)]
          /\ yielded' = IF Begin(M) # End THEN {Begin(M)} ELSE {}
          /\ End' = End
        BY <1>3 DEF IterBegin, End, GetLastActiveTupleIndex
    <2>2. Begin(M) = End
        <3>1. CASE lastActive = INVALID_INDEX
            BY <3>1 DEF Begin, Empty, End, GetLastActiveTupleIndex
        <3>2. CASE lastActive # INVALID_INDEX
            <4>1. lastActive \in Slots /\ tuples \in [Slots -> Markers]
                BY <3>2 DEF IInv, LastActiveInRange, TypeOK
            <4>2. (INVALID_INDEX + 1) % Modulus = 0
                OBVIOUS
            <4>3. \A j \in 0..lastActive : GetTupleValue(j) # M
                <5>1. \A j \in 0..lastActive : tuples[j] \in Int
                    <6>1. INACTIVE_TUPLE \in Int /\ Codes \subseteq Int
                        BY CodesAssumption DEF INACTIVE_TUPLE
                    <6>2. Markers \subseteq Int
                        BY <6>1 DEF Markers
                    <6>3. \A j \in 0..lastActive : j \in Slots
                        BY <4>1 DEF Slots
                    <6>4. QED
                        BY <4>1, <6>2, <6>3
                <5>2. QED
                    BY <1>3, <5>1, UnsignedNeverInactive
            <4>4. {j \in ((INVALID_INDEX + 1) % Modulus)..lastActive :
                       GetTupleValue(j) = M} = {}
                BY <4>2, <4>3
            <4>5. Advance(INVALID_INDEX, M) = lastActive + 1
                BY <4>1, <4>2, <4>4 DEF Advance, Slots
            <4>6. QED
                BY <3>2, <4>5 DEF Begin, Empty, End, GetLastActiveTupleIndex
        <3>3. QED
            BY <3>1, <3>2
    <2>3. QED
        BY <2>1, <2>2 DEF InactiveWalkEmpty
<1>4. ASSUME NEW M \in Markers, IterBegin(M), M # INACTIVE_TUPLE
      PROVE  InactiveWalkEmpty'
    BY <1>4 DEF IterBegin, InactiveWalkEmpty
<1>5. CASE IterIncrement
    BY <1>5 DEF IterIncrement, InactiveWalkEmpty
<1>6. CASE UNCHANGED vars
    BY <1>6 DEF vars, InactiveWalkEmpty, End, GetLastActiveTupleIndex
<1>7. QED
    BY <1>1, <1>2, <1>3, <1>4, <1>5, <1>6 DEF Next

(* Where char is unsigned, begin<INACTIVE_TUPLE>() equals end() and the  *)
(* walk yields no slot, though every slot that was never active holds    *)
(* INACTIVE_TUPLE: the comparison in increment() can never succeed, for  *)
(* every layout and width.                                               *)
THEOREM UnsignedInactiveWalkEmpty ==
    ASSUME ~CharSigned
    PROVE  Spec => []InactiveWalkEmpty
<1>1. Init => InactiveWalkEmpty
    BY DEF Init, NoIter, InactiveWalkEmpty
<1>2. Spec => [](IInv /\ InactiveWalkEmpty)
    BY <1>1, InitIInv, NextIInv, NextInactiveWalkEmpty, PTL DEF Spec
<1>3. QED
    BY <1>2, PTL
=============================================================================
