------------------------------ MODULE TupleTags ------------------------------
(***************************************************************************)
(* What TableTupleFilter promises its callers, stated without blocks,      *)
(* addresses or the last-resolved-block cache: every tuple of the table    *)
(* carries one marker.  Initialisation marks the tuples that are active in *)
(* the table snapshot with ACTIVE, one at a time in the order the table    *)
(* iterator delivers them; afterwards a caller may re-stamp any tuple that *)
(* was active with one of its own codes.  Inactive tuples keep INACTIVE.   *)
(***************************************************************************)
CONSTANTS
    Tuple,      \* the tuple positions of the table (active or not)
    Codes,      \* the marker values callers stamp tuples with
    INACTIVE,   \* the marker of a tuple never marked active
    ACTIVE      \* the marker initialisation gives an active tuple

VARIABLES
    tag,        \* tag[t]: the marker of tuple t
    active,     \* the tuples active in the table snapshot
    pending     \* active tuples initialisation has not marked yet

vars == <<tag, active, pending>>

Init ==
    /\ active \in SUBSET Tuple
    /\ pending = active
    /\ tag = [t \in Tuple |-> INACTIVE]

(* Initialisation marks one more active tuple. *)
MarkActive(t) ==
    /\ t \in pending
    /\ tag' = [tag EXCEPT ![t] = ACTIVE]
    /\ pending' = pending \ {t}
    /\ UNCHANGED active

(* After initialisation, a caller gives an active tuple the marker m. *)
Retag(t, m) ==
    /\ pending = {}
    /\ t \in active
    /\ tag' = [tag EXCEPT ![t] = m]
    /\ UNCHANGED <<active, pending>>

Next ==
    \E t \in Tuple :
        \/ MarkActive(t)
        \/ \E m \in Codes : Retag(t, m)

Spec == Init /\ [][Next]_vars
=============================================================================
