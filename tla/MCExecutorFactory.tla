------------------------- MODULE MCExecutorFactory -------------------------
(* Instances of ExecutorFactory for TLC. *)
EXTENDS ExecutorFactory, TLC

CONSTANTS p1, p2, p3, p4, t1, t2, e1, e2, e3

MCPartitions == {p1, p2, p3, p4}
MCTables == {t1, t2}
MCExecs == {e1, e2, e3}

(* MAX_EXPORT_THREADS invalid (-1), 1, 3; sites unknown (0), 2 or 3: *)
(* initialize() settles on 1, 2 or 3 threads, through every branch.    *)
MCConfigValues == {-1, 1, 3}
MCSitesCounts == {0, 2, 3}

(* Partitions, tables and executor identities are interchangeable. *)
MCSymmetry == Permutations(MCPartitions) \cup Permutations(MCTables)
                  \cup Permutations(MCExecs)
=============================================================================
