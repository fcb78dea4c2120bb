--------------------------- MODULE MCMailAssignment ---------------------------
(* Instances of MailAssignment for TLC.                                    *)
EXTENDS MailAssignment, TLC

CONSTANTS p1, p2, m1, m2, r1, r2, r3, t1, t2, t3, c1, a, b

Interchangeable ==
    Permutations(Requests) \cup Permutations(Todos) \cup Permutations(Panes)
        \cup Permutations(Mails) \cup Permutations(Texts)
=============================================================================
