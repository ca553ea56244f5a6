--------------------------- MODULE TableTupleFilter ---------------------------
(***************************************************************************)
(* TableTupleFilter (src/ee/storage/tabletuplefilter.h): a byte per tuple  *)
(* slot of a table, the block list, the block-address -> block-offset map, *)
(* the single-entry "previously accessed block" cache, the last active     *)
(* index, and one TableTupleFilter_iter walking the slots that carry a     *)
(* marker.  Addresses are natural numbers; a tuple of the table is a pair  *)
(* <<block number in enumeration order, position in the block>>.  The      *)
(* uint64_t index arithmetic of the iterator is kept modulo 2^IndexWidth,  *)
(* so that INVALID_INDEX + 1 wraps to 0 as it does in the code.            *)
(*                                                                         *)
(* Assertions are modelled as in a debug build when AssertsEnabled: a     *)
(* failing assert stops the program, recorded in the variable fault; with *)
(* NDEBUG they are not evaluated.  m_tuples is a std::vector<char>: a      *)
(* marker is stored as a char and read back as one, and whether char is   *)
(* signed is the platform's choice (CharSigned).                           *)
(***************************************************************************)
EXTENDS Integers, Sequences, FiniteSets

CONSTANTS
    NumBlocks,        \* blocks of the table, in enumeration order 1..NumBlocks
    TuplesPerBlock,   \* m_tuplesPerBlock
    TupleLength,      \* m_tupleLength, bytes per tuple
    BlockAddr,        \* BlockAddr[b]: base address of the b-th enumerated block
    IndexWidth,       \* bit width of the uint64_t indexes (64 in the code)
    Codes,            \* marker values callers pass to updateTuple and iterate on
    CharSigned,       \* TRUE where char is signed (x86), FALSE where unsigned (ARM)
    AssertsEnabled    \* TRUE in a debug build, FALSE with NDEBUG

INACTIVE_TUPLE == -1
ACTIVE_TUPLE == 0

BlockBytes == TuplesPerBlock * TupleLength
NumSlots == NumBlocks * TuplesPerBlock

(* numeric_limits<uint64_t>::max() at the model's width *)
Modulus == 2^IndexWidth
INVALID_INDEX == Modulus - 1

ASSUME GeometryAssumption ==
    /\ NumBlocks \in Nat \ {0}
    /\ TuplesPerBlock \in Nat \ {0}
    /\ TupleLength \in Nat \ {0}

ASSUME WidthAssumption ==
    /\ IndexWidth \in Nat \ {0}
    /\ Modulus \in Nat
    /\ NumSlots <= INVALID_INDEX

(* Blocks are distinct and aligned on their size (the allocator's layout). *)
ASSUME BlockAddrAssumption ==
    /\ BlockAddr \in [1..NumBlocks -> Nat \ {0}]
    /\ \A b \in 1..NumBlocks : BlockAddr[b] % BlockBytes = 0
    /\ \A b, c \in 1..NumBlocks : BlockAddr[b] = BlockAddr[c] => b = c

ASSUME CodesAssumption ==
    /\ Codes \subseteq -128..127
    /\ ACTIVE_TUPLE \in Codes
    /\ INACTIVE_TUPLE \notin Codes

ASSUME BuildAssumption ==
    /\ CharSigned \in BOOLEAN
    /\ AssertsEnabled \in BOOLEAN

Markers == Codes \cup {INACTIVE_TUPLE}
Slots == 0..(NumSlots - 1)
Index == 0..INVALID_INDEX
Tuple == (1..NumBlocks) \X (0..(TuplesPerBlock - 1))

(* Where the table stores tuple t. *)
TupleAddress(t) == BlockAddr[t[1]] + t[2] * TupleLength

(* m_blockIndexes, built by init(blocks, ...): block address -> offset. *)
BlockIndexes ==
    [a \in {BlockAddr[b] : b \in 1..NumBlocks} |->
        ((CHOOSE b \in 1..NumBlocks : BlockAddr[b] = a) - 1) * TuplesPerBlock]

(* The class comment's equation: the slot the filter must give tuple t. *)
SlotOf(t) == (t[1] - 1) * TuplesPerBlock + t[2]

NoBlock == [addr |-> -1, idx |-> -1]
(* TableTupleFilter_iter(): a default-constructed iterator, with a null  *)
(* filter and a value-initialized index.                                  *)
NoIter == [live |-> FALSE, marker |-> ACTIVE_TUPLE, idx |-> 0]

VARIABLES
    tuples,       \* m_tuples: a marker per slot
    lastActive,   \* m_lastActiveTupleIndex
    prevBlock,    \* [addr |-> m_prevBlockAddress, idx |-> m_prevBlockIndex]
    active,       \* the table's active tuples at init (the snapshot)
    pending,      \* active tuples the table iterator in init has not delivered
    iter,         \* the caller's TableTupleFilter_iter
    yielded,      \* ghost: the slots the iterator has stood on
    touched,      \* ghost: the slots updateTuple wrote since the iterator began
    fault         \* the assertion that stopped the program, or "none"

vars == <<tuples, lastActive, prevBlock, active, pending, iter, yielded,
          touched, fault>>

Faults == {"none", "init_not_inactive", "index_out_of_range",
           "update_beyond_last", "update_inactive"}

Ready == pending = {}

MinOf(S) == CHOOSE x \in S : \A y \in S : x <= y
MaxOf(S) == CHOOSE x \in S : \A y \in S : y <= x

(* The int value of the char m_tuples[i] holds, as getTupleValue and the *)
(* asserts read it: an int8 marker stored in an unsigned char reads back *)
(* as its two's complement byte.                                         *)
GetTupleValue(i) == IF CharSigned THEN tuples[i] ELSE tuples[i] % 256

(* empty(): no tuple has been marked active. *)
Empty == lastActive = INVALID_INDEX

(* getLastActiveTupleIndex() *)
GetLastActiveTupleIndex == lastActive

-----------------------------------------------------------------------------
(* Address translation: findBlockIndex and getTupleIndex. *)

CacheHitOffByOne(addr) ==
    /\ prevBlock # NoBlock
    /\ prevBlock.addr <= addr
    /\ addr <= prevBlock.addr + BlockBytes

(* addr lies in the block the previous lookup resolved. *)
CacheHit(addr) ==
    /\ prevBlock # NoBlock
    /\ prevBlock.addr <= addr
    /\ addr < prevBlock.addr + BlockBytes

(* findBlockIndex: the cached block, else the aligned base looked up in   *)
(* m_blockIndexes.  Its result becomes the new prevBlock.                 *)
FindBlockIndex(addr) ==
    IF CacheHit(addr)
    THEN prevBlock
    ELSE LET base == addr - (addr % BlockBytes)
         IN  [addr |-> base, idx |-> BlockIndexes[base]]

GetTupleIndexNoOffset(addr) ==
    (addr - FindBlockIndex(addr).addr) \div TupleLength

(* getTupleIndex: (address - m_prevBlockAddress) / length + block index,  *)
(* m_prevBlockAddress being the one findBlockIndex has just stored.       *)
GetTupleIndex(addr) ==
    (addr - FindBlockIndex(addr).addr) \div TupleLength
        + FindBlockIndex(addr).idx

-----------------------------------------------------------------------------
(* Iteration: increment() and end(). *)

AdvanceOffByOne(i, M) ==
    LET s == (i + 1) % Modulus
        C == {j \in s..(lastActive - 1) : GetTupleValue(j) = M}
    IN  IF s >= lastActive THEN s
        ELSE IF C = {} THEN lastActive ELSE MinOf(C)

AdvanceNoWrap(i, M) ==
    LET s == i + 1
        C == {j \in s..lastActive : GetTupleValue(j) = M}
    IN  IF s > lastActive THEN s
        ELSE IF C = {} THEN lastActive + 1 ELSE MinOf(C)

AdvanceStuck(i, M) ==
    LET s == (i + 1) % Modulus
        C == {j \in s..lastActive : GetTupleValue(j) = M}
    IN  IF s > lastActive THEN s
        ELSE IF C = {} THEN i ELSE MinOf(C)

(* increment(): ++m_tupleIdx (mod 2^w) while it is <= lastActive and the  *)
(* marker there is not M.                                                 *)
Advance(i, M) ==
    LET s == (i + 1) % Modulus
        C == {j \in s..lastActive : GetTupleValue(j) = M}
    IN  IF s > lastActive THEN s
        ELSE IF C = {} THEN lastActive + 1 ELSE MinOf(C)

(* TableTupleFilter_iter(filter): the position begin<M>() starts at,     *)
(* INVALID_INDEX advanced once unless empty().                           *)
Begin(M) == IF Empty THEN INVALID_INDEX ELSE Advance(INVALID_INDEX, M)

(* end(): one past the last active index, or INVALID_INDEX when empty. *)
End == IF GetLastActiveTupleIndex # INVALID_INDEX
       THEN GetLastActiveTupleIndex + 1 ELSE INVALID_INDEX

(* getTupleAddress(tupleIdx), as written. *)
GetTupleAddress(i) ==
    LET blockIdx == i \div TuplesPerBlock
    IN  BlockAddr[blockIdx + 1] + (i - blockIdx) * TupleLength

-----------------------------------------------------------------------------
(* Constructor and init(blocks, ...): every slot INACTIVE, no cache, no    *)
(* last active index; the table snapshot is any set of active tuples.     *)
Init ==
    /\ tuples = [s \in Slots |-> INACTIVE_TUPLE]
    /\ lastActive = INVALID_INDEX
    /\ prevBlock = NoBlock
    /\ active \in SUBSET Tuple
    /\ pending = active
    /\ iter = NoIter
    /\ yielded = {}
    /\ touched = {}
    /\ fault = "none"

AdvancedLastActiveNoMax(i) ==
    IF lastActive = INVALID_INDEX THEN i ELSE lastActive

(* The last active index after initActiveTuple resolved slot i. *)
AdvancedLastActive(i) ==
    IF lastActive = INVALID_INDEX \/ lastActive < i THEN i ELSE lastActive

(* init(Table) loop body: the table iterator delivers active tuple t and *)
(* initActiveTuple marks its slot.                                        *)
InitActiveTuple(t) ==
    LET a == TupleAddress(t)
        i == GetTupleIndex(a)
    IN
    /\ fault = "none"
    /\ t \in pending
    /\ pending' = pending \ {t}
    /\ prevBlock' = FindBlockIndex(a)
    /\ fault' = CASE i \notin Slots -> "index_out_of_range"
                  [] AssertsEnabled /\ GetTupleValue(i) # INACTIVE_TUPLE
                                   -> "init_not_inactive"
                  [] OTHER         -> "none"
    /\ IF fault' = "none"
       THEN /\ tuples' = [tuples EXCEPT ![i] = ACTIVE_TUPLE]
            /\ lastActive' = AdvancedLastActive(i)
       ELSE UNCHANGED <<tuples, lastActive>>
    /\ UNCHANGED <<active, iter, yielded, touched>>

(* updateTuple(tuple, marker) on a tuple the table had active at init. *)
UpdateTuple(t, m) ==
    LET a == TupleAddress(t)
        i == GetTupleIndex(a)
    IN
    /\ fault = "none"
    /\ Ready
    /\ t \in active
    /\ prevBlock' = FindBlockIndex(a)
    /\ fault' = CASE AssertsEnabled /\
                      ~(i <= lastActive /\ lastActive # INVALID_INDEX)
                                   -> "update_beyond_last"
                  [] i \notin Slots -> "index_out_of_range"
                  [] AssertsEnabled /\ GetTupleValue(i) = INACTIVE_TUPLE
                                   -> "update_inactive"
                  [] OTHER         -> "none"
    /\ IF fault' = "none"
       THEN /\ tuples' = [tuples EXCEPT ![i] = m]
            /\ touched' = IF iter.live THEN touched \cup {i} ELSE touched
       ELSE UNCHANGED <<tuples, touched>>
    /\ UNCHANGED <<lastActive, active, pending, iter, yielded>>

(* it = begin<M>(): a new iterator, built by the constructor, replaces   *)
(* the caller's one.                                                     *)
IterBegin(M) ==
    LET idx == Begin(M)
    IN
    /\ fault = "none"
    /\ Ready
    /\ iter' = [live |-> TRUE, marker |-> M, idx |-> idx]
    /\ yielded' = IF idx # End THEN {idx} ELSE {}
    /\ touched' = {}
    /\ UNCHANGED <<tuples, lastActive, prevBlock, active, pending, fault>>

(* ++it in the caller's loop "for (it = begin; it != end; ++it)". *)
IterIncrement ==
    LET idx == Advance(iter.idx, iter.marker)
    IN
    /\ fault = "none"
    /\ iter.live
    /\ iter.idx # End
    /\ iter' = [iter EXCEPT !.idx = idx]
    /\ yielded' = IF idx # End THEN yielded \cup {idx} ELSE yielded
    /\ UNCHANGED <<tuples, lastActive, prevBlock, active, pending, touched,
                   fault>>

Next ==
    \/ \E t \in Tuple : InitActiveTuple(t)
    \/ \E t \in Tuple, m \in Codes : UpdateTuple(t, m)
    \/ \E M \in Markers : IterBegin(M)
    \/ IterIncrement

Spec == Init /\ [][Next]_vars

(* The caller's loop "for (it = begin; it != end; ++it)" runs on one     *)
(* thread and keeps incrementing until it reaches end(): ++it, while it  *)
(* stays enabled, is eventually taken.  Nothing forces the table to be   *)
(* updated or a new iteration to begin.                                  *)
LiveSpec == Spec /\ WF_vars(IterIncrement)

-----------------------------------------------------------------------------
(* Properties *)

TypeOK ==
    /\ tuples \in [Slots -> Markers]
    /\ lastActive \in Index
    /\ prevBlock \in {NoBlock} \cup [addr : Nat, idx : Nat]
    /\ active \in SUBSET Tuple
    /\ pending \in SUBSET active
    /\ iter \in [live : BOOLEAN, marker : Markers, idx : Index]
    /\ yielded \subseteq Slots
    /\ touched \subseteq Slots
    /\ fault \in Faults

(* No assertion of initActiveTuple or updateTuple fires while callers keep *)
(* the contract: each active tuple resolves to a distinct slot that init  *)
(* found INACTIVE, and every later update lands on an active slot at or   *)
(* below m_lastActiveTupleIndex, whatever the cache held.                 *)
NoAssertionFailure == fault = "none"

(* m_lastActiveTupleIndex is the greatest slot of the tuples initActiveTuple *)
(* has marked so far, and INVALID_INDEX while there are none.              *)
LastActiveIsMax ==
    LET done == {SlotOf(t) : t \in active \ pending}
    IN  lastActive = IF done = {} THEN INVALID_INDEX ELSE MaxOf(done)

(* A live TableTupleFilter_iter<M> never moves backwards or stays put:   *)
(* every slot it has stood on is at or below its position.  Whatever      *)
(* updateTuple calls interleave with the walk, the slots they have not    *)
(* written since begin() it has stood on are exactly those that carry M,  *)
(* lie at or below m_lastActiveTupleIndex and at or below its position;   *)
(* after the last of them it equals end(), and begin() == end() on an     *)
(* empty filter.                                                          *)
IteratorExact ==
    iter.live =>
        LET want == {s \in Slots \ touched : /\ lastActive # INVALID_INDEX
                                             /\ s <= lastActive
                                             /\ tuples[s] = iter.marker}
        IN  /\ iter.idx # End => \A s \in yielded : s <= iter.idx
            /\ yielded \ touched =
                   {s \in want : iter.idx = End \/ s <= iter.idx}

(* A caller that keeps incrementing reaches end(): every iteration that   *)
(* is not replaced by a new begin() finishes, whatever updates interleave *)
(* (or the program has stopped on an assertion).                          *)
IterationEnds ==
    \/ []<>(~iter.live \/ iter.idx = End \/ fault # "none")
    \/ []<><<\E M \in Markers : IterBegin(M)>>_vars

(* The slot of every tuple holds what the caller last gave that tuple: the *)
(* filter, with its address translation and block cache, implements      *)
(* TupleTags under the mapping tag[t] = m_tuples[SlotOf(t)].              *)
Tags == INSTANCE TupleTags WITH
            tag <- [t \in Tuple |-> tuples[SlotOf(t)]],
            INACTIVE <- INACTIVE_TUPLE, ACTIVE <- ACTIVE_TUPLE

FilterImplementsTags == Tags!Spec

(* getTupleAddress of a slot the iterator hands out (an active slot at or *)
(* below the last active index) is the address of the tuple in that slot, *)
(* as the class comment's equation, read backwards, requires.             *)
AddressRoundTrip ==
    \A t \in active \ pending :
        GetTupleAddress(SlotOf(t)) = TupleAddress(t)
=============================================================================
