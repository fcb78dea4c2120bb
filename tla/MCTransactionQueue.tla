------------------------- MODULE MCTransactionQueue --------------------------
(* An instance of TransactionQueue for TLC. *)
EXTENDS TransactionQueue

(* Every call has been made and answered: nothing is left to happen.       *)
AllDone   == (\A c \in Calls : state[c] = "done") /\ micro = <<>> /\ UNCHANGED vars
QueueSpec == Init /\ [][Next \/ AllDone]_vars /\ Fairness
=============================================================================
