---------------------------- MODULE MCAttachments ----------------------------
(* Instances of Attachments for TLC.                                       *)
EXTENDS Attachments, TLC

CONSTANTS i1, i2, m1, m2, t1, t2, c1, c2

Interchangeable ==
    Permutations({t1, t2} \cap Todos) \cup Permutations({c1, c2} \cap Calls)
=============================================================================
