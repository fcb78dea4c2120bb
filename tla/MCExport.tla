------------------------------ MODULE MCExport -------------------------------
(* Instances of Export for TLC. *)
EXTENDS Export, TLC

CONSTANTS e1, e2, t1, t2, n1, n2, r1, r2

(* Nothing tells bookings, todos, texts or calls apart.                    *)
ExportSymmetry == Permutations(Entries) \cup Permutations(Todos)
                    \cup Permutations(Notes) \cup Permutations(Requests)

NoClockSteps == {}
BackToStart  == {0}
=============================================================================
