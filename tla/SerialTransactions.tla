------------------------- MODULE SerialTransactions --------------------------
(***************************************************************************)
(* What createTransactionPort promises the handlers: calls take effect one *)
(* at a time, in the order they were made, each in whole or not at all,    *)
(* and every call is answered.  Timer and Export are written against this. *)
(***************************************************************************)
EXTENDS Naturals, Sequences

CONSTANTS Calls, MaxWrites

VARIABLES
    waiting,  \* the calls that wait for an answer, in the order made
    db        \* the committed writes, in order; each names its call

Waits(c) == \E i \in DOMAIN waiting : waiting[i] = c

Init == waiting = <<>> /\ db = <<>>

Call(c) ==
    /\ ~Waits(c)
    /\ waiting' = Append(waiting, c)
    /\ db' = db

(* The call at the head is answered: with all of its writes, or with none. *)
Answer ==
    /\ waiting # <<>>
    /\ waiting' = Tail(waiting)
    /\ \E n \in 0..MaxWrites : db' = db \o [i \in 1..n |-> Head(waiting)]

Next == Answer \/ \E c \in Calls : Call(c)

Spec == Init /\ [][Next]_<<waiting, db>> /\ WF_<<waiting, db>>(Answer)
=============================================================================
