-------------------------- MODULE TransactionQueue ---------------------------
(***************************************************************************)
(* createTransactionPort: one SQLite connection, and a chain of promises   *)
(* that lets one transaction begin when the one before has ended.          *)
(*                                                                         *)
(* A handler is a callback of the event loop that is suspended at every    *)
(* await; between two of its steps any other handler may run.  What a      *)
(* promise has to tell when it is settled is done by microtasks, in the    *)
(* order they were queued.  Each element of Calls is one call of           *)
(* inTransaction.                                                          *)
(***************************************************************************)
EXTENDS Naturals, Sequences, FiniteSets

CONSTANTS
    Calls,
    MaxWrites,  \* bound of the model: the writes of a transaction
    None

ASSUME CallsAssumption ==
    /\ None \notin Calls /\ None \notin Seq(Calls)
    /\ MaxWrites \in Nat

VARIABLES
    state,   \* per call: how far it is
    chain,   \* the accepted calls: each waits for the `queue` promise before it
    freed,   \* the calls whose `queue` promise is fulfilled
    micro,   \* the microtask queue of the event loop
    open,    \* the connection: the writes since BEGIN, or None
    db       \* the committed writes, each naming its call

vars == <<state, chain, freed, micro, open, db>>

States == {"idle", "waiting", "running", "settled", "done"}
Jobs   == [job : {"start", "derive", "continue"}, call : Calls]

Job(name, c) == [job |-> name, call |-> c]
-----------------------------------------------------------------------------
FaultyAccept(c) ==
    /\ state' = [state EXCEPT ![c] = "waiting"]
    /\ chain' = Append(chain, c)
    /\ micro' = Append(micro, Job("start", c))
    /\ UNCHANGED <<freed, open, db>>

(* inTransaction, outside of any open transaction: queue.then(run).  If    *)
(* the promise before is fulfilled already, its reaction is queued at      *)
(* once.                                                                   *)
Accept(c) ==
    /\ state' = [state EXCEPT ![c] = "waiting"]
    /\ chain' = Append(chain, c)
    /\ micro' = IF chain = <<>> \/ chain[Len(chain)] \in freed
                THEN Append(micro, Job("start", c)) ELSE micro
    /\ UNCHANGED <<freed, open, db>>

Call(c) == state[c] = "idle" /\ Accept(c)

FaultyNestedCall(c, nested) ==
    /\ state[c] = "running"
    /\ state[nested] = "idle"
    /\ state' = [state EXCEPT ![nested] = "running"]
    /\ UNCHANGED <<chain, freed, micro, open, db>>

(* inTransaction inside an open transaction: refused before it queues up,  *)
(* else it would wait for its own end.  The work that called goes on, or   *)
(* fails by this.                                                          *)
NestedCall(c, nested) ==
    /\ state[c] = "running"
    /\ state[nested] = "idle"
    /\ state' = [state EXCEPT ![nested] = "done"]
    /\ UNCHANGED <<chain, freed, micro, open, db>>

(* What settling the promise of a call queues: first its derivation, which *)
(* was attached before the caller could await it, then what the caller     *)
(* does after the await.                                                   *)
Settle(c) == <<Job("derive", c), Job("continue", c)>>

(* run: BEGIN IMMEDIATE, which may fail, and then rejects the call.        *)
Start(c) ==
    /\ \/ /\ open = None
          /\ open' = <<>>
          /\ state' = [state EXCEPT ![c] = "running"]
          /\ micro' = Tail(micro)
       \/ /\ open' = open
          /\ state' = [state EXCEPT ![c] = "settled"]
          /\ micro' = Tail(micro) \o Settle(c)
    /\ UNCHANGED <<chain, freed, db>>

FollowersOf(c) == {chain[i + 1] : i \in {i \in DOMAIN chain :
                                            chain[i] = c /\ i < Len(chain)}}

FaultyDerive(c) ==
    /\ freed' = freed \cup {c}
    /\ \/ FollowersOf(c) = {} /\ micro' = Tail(micro)
       \/ \E d \in FollowersOf(c) : micro' = <<Job("start", d)>> \o Tail(micro)
    /\ UNCHANGED <<state, chain, open, db>>

(* queue = next.then(ignore, ignore): fulfilled, however the call ended.   *)
Derive(c) ==
    /\ freed' = freed \cup {c}
    /\ \/ FollowersOf(c) = {} /\ micro' = Tail(micro)
       \/ \E d \in FollowersOf(c) : micro' = Append(Tail(micro), Job("start", d))
    /\ UNCHANGED <<state, chain, open, db>>

(* What the caller does between the await and its next await.              *)
Continue(c) ==
    /\ state' = [state EXCEPT ![c] = "done"]
    /\ micro' = Tail(micro)
    /\ UNCHANGED <<chain, freed, open, db>>

Microtask ==
    /\ micro # <<>>
    /\ LET c == Head(micro).call
       IN  \/ Head(micro).job = "start" /\ Start(c)
           \/ Head(micro).job = "derive" /\ Derive(c)
           \/ Head(micro).job = "continue" /\ Continue(c)

(* A statement of the work goes to the one connection.                     *)
Write(c) ==
    /\ state[c] = "running"
    /\ open # None
    /\ Len(open) < MaxWrites
    /\ open' = Append(open, c)
    /\ UNCHANGED <<state, chain, freed, micro, db>>

(* The work throws, or COMMIT does.                                        *)
Rollback(c) ==
    /\ state[c] = "running"
    /\ open' = None
    /\ state' = [state EXCEPT ![c] = "settled"]
    /\ micro' = micro \o Settle(c)
    /\ UNCHANGED <<chain, freed, db>>

Commit(c) ==
    /\ state[c] = "running"
    /\ db' = db \o open
    /\ open' = None
    /\ state' = [state EXCEPT ![c] = "settled"]
    /\ micro' = micro \o Settle(c)
    /\ UNCHANGED <<chain, freed>>

End(c) == Commit(c) \/ Rollback(c)
-----------------------------------------------------------------------------
Init ==
    /\ state = [c \in Calls |-> "idle"]
    /\ chain = <<>>
    /\ freed = {}
    /\ micro = <<>>
    /\ open = None
    /\ db = <<>>

Next ==
    \/ Microtask
    \/ \E c \in Calls : Call(c) \/ Write(c) \/ End(c)
    \/ \E c, nested \in Calls : NestedCall(c, nested)

(* Node runs every microtask, and the work of a handler comes to an end.   *)
Fairness == WF_vars(Microtask) /\ \A c \in Calls : WF_vars(End(c))

Spec == Init /\ [][Next]_vars
-----------------------------------------------------------------------------
(* The form of the state; the connection is inside a transaction exactly   *)
(* while some work runs.                                                   *)
TypeOK ==
    /\ state \in [Calls -> States]
    /\ chain \in Seq(Calls)
    /\ freed \subseteq Calls
    /\ micro \in Seq(Jobs)
    /\ open \in Seq(Calls) \cup {None}
    /\ db \in Seq(Calls)
    /\ open # None <=> \E c \in Calls : state[c] = "running"

(* No foreign request gets into an open transaction: what is written since *)
(* BEGIN is all of one call, and only its work is running.                 *)
TransactionsApart ==
    \A c, d \in Calls :
        state[c] = "running" =>
            /\ \A i \in DOMAIN open : open[i] = c
            /\ state[d] = "running" => c = d

(* unit-of-work.ts: "Der Code hinter dem await des Aufrufers läuft         *)
(* garantiert vor der nächsten hier eingereihten Transaktion."             *)
(* importDataArchive relies on it to set timerRecovery after its COMMIT.   *)
ContinuationFirst ==
    \A c, d \in Calls : state[c] = "running" => state[d] # "settled"

(* The promise to the handlers: one at a time, in order, whole or not at   *)
(* all, and answered, though calls fail and call each other.               *)
Answered == {i \in DOMAIN chain : state[chain[i]] \in {"settled", "done"}}

Waiting == SubSeq(chain, Cardinality(Answered) + 1, Len(chain))

Serial == INSTANCE SerialTransactions WITH waiting <- Waiting

ImplementsSerial == Serial!Spec
=============================================================================
