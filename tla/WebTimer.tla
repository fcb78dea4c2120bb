------------------------------- MODULE WebTimer -------------------------------
(***************************************************************************)
(* The timer in a window of the web interface (TimerContext.tsx,           *)
(* useReactivation.ts): what the window shows is an answer of some time    *)
(* ago, a switch is a stop and a start, and taking back a start is three   *)
(* calls without a common transaction.  The service is here what its       *)
(* answers depend on; Timer has it whole.  Other clients of the service    *)
(* act at any time.                                                        *)
(*                                                                         *)
(* One operation of the user is under way at a time (busy, the dialogs     *)
(* and directStopPending see to it); undos are not among those.            *)
(***************************************************************************)
EXTENDS ToastStack

CONSTANTS
    Todos,
    Clicks,    \* bound of the model: operations of the user
    Upsets,    \* bound of the model: steps of other clients, calls refused or lost
    Slots,     \* bound of the model: reads of the timer on their way
    DoneOnes,  \* the todos that are done when the window opens
    Elsewhere, \* the offer of another part of the window
    None       \* no entry, no todo

ASSUME WindowAssumption ==
    /\ Clicks \in Nat /\ Upsets \in Nat
    /\ DoneOnes \subseteq Todos
    /\ None = NoOffer /\ None # Elsewhere

(* Every click and every step of others starts one timer at most.          *)
Entries == [id : 1..(Clicks + Upsets), todo : Todos]

ASSUME NoneAssumption == None \notin Todos /\ None \notin Entries

VARIABLES
    running,  \* the running entry of the service, or None
    booked,   \* its ended entries
    done,     \* the todos marked as done
    view,     \* the timer the window shows, or None
    reads,    \* the questions for the running timer on their way
    op,       \* the operation of the user that is under way
    undos,    \* the starts being taken back
    stack,    \* the messages
    spent     \* how much of the bounds has been used

service == <<running, booked, done>>

vars == <<running, booked, done, view, reads, op, undos, stack, spent>>

Idle == [at |-> "idle", want |-> None, made |-> None, dialog |-> FALSE, second |-> FALSE]

(* want is the todo to be started, None for a stop; made is the entry a    *)
(* start has made; second says that the first half of a switch is over.    *)
Ops ==
    [at : {"idle", "looking", "noting", "choosing", "stopping", "stopped",
           "reporting", "toolong", "nostop", "starting", "started", "reopened",
           "asked", "nostart"},
     want : Todos \cup {None}, made : Entries \cup {None}, dialog : BOOLEAN, second : BOOLEAN]

Undos == [of : Entries, at : {"stop", "discard", "mark", "marked", "failed"}, stopped : Entries \cup {None}]

Reads == [at : {"free", "sent", "back"}, shows : Entries \cup {None}]

Spend(what, bound) == spent[what] < bound /\ spent' = [spent EXCEPT ![what] = @ + 1]
-----------------------------------------------------------------------------
(* The service: one transaction each.                                      *)
StartEntry(t) ==
    /\ spent' = [spent EXCEPT !.starts = @ + 1]
    /\ running' = [id |-> spent.starts + 1, todo |-> t]
    /\ done' = done \ {t}

(* A second or more is booked, less is thrown away.                        *)
StopEntry ==
    /\ running # None
    /\ booked' \in {booked, booked \cup {running}}
    /\ running' = None

(* The window asks for the running timer.                                  *)
Refresh ==
    \E s \in Slots :
        /\ reads[s].at = "free"
        /\ reads' = [reads EXCEPT ![s] = [at |-> "sent", shows |-> None]]

NoReads == \A s \in Slots : reads[s].at = "free"

(* Once a minute: by then the reads of before have been answered.          *)
Poll ==
    /\ NoReads
    /\ Refresh
    /\ UNCHANGED <<service, view, op, undos, stack, spent>>

AnswerRead(s) ==
    /\ reads[s].at = "sent"
    /\ reads' = [reads EXCEPT ![s] = [at |-> "back", shows |-> running]]
    /\ UNCHANGED <<service, view, op, undos, stack, spent>>

(* An empty answer is taken for a failed one.                              *)
FaultyShowRead(s) ==
    /\ reads[s].at = "back"
    /\ view' = IF reads[s].shows = None THEN view ELSE reads[s].shows
    /\ reads' = [reads EXCEPT ![s] = [at |-> "free", shows |-> None]]
    /\ UNCHANGED <<service, op, undos, stack, spent>>

(* Whichever answer comes last is shown.                                   *)
ShowRead(s) ==
    /\ reads[s].at = "back"
    /\ view' = reads[s].shows
    /\ reads' = [reads EXCEPT ![s] = [at |-> "free", shows |-> None]]
    /\ UNCHANGED <<service, op, undos, stack, spent>>

LoseRead(s) ==
    /\ reads[s].at # "free"
    /\ Spend("upsets", Upsets)
    /\ reads' = [reads EXCEPT ![s] = [at |-> "free", shows |-> None]]
    /\ UNCHANGED <<service, view, op, undos, stack>>
-----------------------------------------------------------------------------
(* The clicks of the user.                                                 *)
ClickStart(t) ==
    /\ op = Idle /\ (view # None => view.todo # t)
    /\ Spend("clicks", Clicks)
    /\ op' = [Idle EXCEPT !.at = "starting", !.want = t]
    /\ UNCHANGED <<service, view, reads, undos, stack>>

(* The todo is read first: it says whether a note is asked for.            *)
ClickStop ==
    /\ op = Idle /\ view # None
    /\ Spend("clicks", Clicks)
    /\ op' = [Idle EXCEPT !.at = "looking"]
    /\ UNCHANGED <<service, view, reads, undos, stack>>

(* performStop: nothing is stopped where no timer is shown.  A switch goes *)
(* on all the same, and a dialog stays.                                    *)
PerformStop(o) ==
    \/ view # None /\ op' = [o EXCEPT !.at = "stopping"]
    \/ view = None /\ o.want # None /\ op' = [o EXCEPT !.at = "starting", !.second = TRUE]
    \/ view = None /\ o.want = None /\ op' = IF o.dialog THEN o ELSE Idle

Look ==
    /\ op.at = "looking"
    /\ \/ op' = [op EXCEPT !.at = "noting", !.dialog = TRUE]
       \/ PerformStop(op)
    /\ UNCHANGED <<service, view, reads, undos, stack, spent>>

Confirm ==
    /\ op.at \in {"noting", "choosing"}
    /\ PerformStop(op)
    /\ UNCHANGED <<service, view, reads, undos, stack, spent>>

Cancel ==
    /\ op.at \in {"noting", "choosing"}
    /\ op' = Idle
    /\ UNCHANGED <<service, view, reads, undos, stack, spent>>

(* The offer of a message, and the button that closes any.                 *)
ClickUndo(i) ==
    /\ stack[i].offer \notin {None, Elsewhere}
    /\ undos' = undos \cup {[of |-> stack[i].offer, at |-> "stop", stopped |-> None]}
    /\ stack' = Dismiss(stack, i)
    /\ UNCHANGED <<service, view, reads, op, spent>>

Close(i) ==
    /\ Spend("clicks", Clicks)
    /\ stack' = Dismiss(stack, i)
    /\ UNCHANGED <<service, view, reads, op, undos>>
-----------------------------------------------------------------------------
(* Calls of the operation in the service.                                  *)
CallStart ==
    /\ op.at = "starting"
    /\ \/ /\ running # None
          /\ op' = [op EXCEPT !.at = "asked"]
          /\ UNCHANGED <<service, spent>>
       \/ /\ running = None
          /\ StartEntry(op.want)
          /\ op' = [op EXCEPT !.at = IF op.want \in done THEN "reopened" ELSE "started",
                             !.made = running']
          /\ UNCHANGED booked
    /\ UNCHANGED <<view, reads, undos, stack>>

(* A timer over 24 hours is not stopped without an end the user names: he  *)
(* is asked for it, in the dialog that is open or in a new one.            *)
CallStop ==
    /\ op.at = "stopping"
    /\ \/ StopEntry /\ op' = [op EXCEPT !.at = "stopped"]
       \/ running = None /\ op' = [op EXCEPT !.at = "nostop"] /\ UNCHANGED <<running, booked>>
       \/ /\ running # None
          /\ op' = [op EXCEPT !.at = IF op.dialog THEN "nostop" ELSE "toolong"]
          /\ UNCHANGED <<running, booked>>
    /\ UNCHANGED <<done, view, reads, undos, stack, spent>>

(* A call is refused, or it is carried out and its answer lost.            *)
LoseCall ==
    /\ op.at \in {"looking", "stopping", "starting", "stopped", "reporting", "started",
                  "reopened"}
    /\ Spend("upsets", Upsets)
    /\ op' = [op EXCEPT !.at =
         IF @ \in {"stopping", "stopped", "reporting"} THEN "nostop" ELSE "nostart"]
    /\ UNCHANGED <<service, view, reads, undos, stack>>

(* announceStart                                                           *)
Started ==
    /\ op.at \in {"started", "reopened"}
    /\ Refresh
    /\ stack' = Show(stack, IF op.at = "reopened" THEN op.made ELSE None)
    /\ op' = Idle
    /\ UNCHANGED <<service, view, undos, spent>>

(* Another timer runs: the user is asked, or by his settings is not.       *)
Asked ==
    /\ op.at = "asked" /\ ~op.second
    /\ \/ op' = [op EXCEPT !.at = "choosing", !.dialog = TRUE]
       \/ PerformStop(op)
    /\ UNCHANGED <<service, view, reads, undos, stack, spent>>

FaultyNotStarted ==
    /\ op.at = "nostart" \/ (op.at = "asked" /\ op.second)
    /\ stack' = Show(stack, None)
    /\ op' = IF op.second THEN op ELSE Idle
    /\ UNCHANGED <<service, view, reads, undos, spent>>

NotStarted ==
    /\ op.at = "nostart" \/ (op.at = "asked" /\ op.second)
    /\ stack' = Show(stack, None)
    /\ op' = Idle
    /\ UNCHANGED <<service, view, reads, undos, spent>>

(* After a stop a switch goes on with its start.                           *)
GoOn == op' = IF op.want = None THEN Idle
              ELSE [op EXCEPT !.at = "starting", !.dialog = FALSE, !.second = TRUE]

(* What was discarded is said at once; what was booked is said with the    *)
(* bookings of its day, which are read first.                              *)
Stopped ==
    /\ op.at = "stopped"
    /\ view' = None
    /\ Refresh
    /\ \/ stack' = Show(stack, None) /\ GoOn
       \/ stack' = stack /\ op' = [op EXCEPT !.at = "reporting"]
    /\ UNCHANGED <<service, undos, spent>>

(* reportStopped                                                           *)
Reported ==
    /\ op.at = "reporting"
    /\ stack' = Show(stack, None)
    /\ GoOn
    /\ UNCHANGED <<service, view, reads, undos, spent>>

(* The dialog that asks for the end.  A switch opens it for the timer the  *)
(* window shows by then.                                                   *)
AskEnd ==
    /\ op.at = "toolong"
    /\ \/ /\ op.want = None
          /\ op' = [op EXCEPT !.at = "noting", !.dialog = TRUE]
          /\ UNCHANGED <<reads, stack>>
       \/ /\ op.want # None /\ view # None
          /\ op' = [op EXCEPT !.at = "choosing", !.dialog = TRUE]
          /\ Refresh
          /\ stack' = stack
       \/ /\ op.want # None /\ view = None
          /\ op' = Idle
          /\ Refresh
          /\ stack' = Show(stack, None)
    /\ UNCHANGED <<service, view, undos, spent>>

(* In a dialog the reason is shown there, and the dialog stays.            *)
NotStopped ==
    /\ op.at = "nostop"
    /\ \/ /\ op.dialog /\ op.want = None
          /\ op' = [op EXCEPT !.at = "noting"]
          /\ UNCHANGED <<reads, stack>>
       \/ /\ op.dialog /\ op.want # None
          /\ op' = [op EXCEPT !.at = "choosing"]
          /\ Refresh
          /\ stack' = stack
       \/ /\ ~op.dialog
          /\ op' = Idle
          /\ Refresh
          /\ stack' = Show(stack, None)
    /\ UNCHANGED <<service, view, undos, spent>>
-----------------------------------------------------------------------------
(* The three calls of an undo.                                             *)
Advance(u, v) == undos' = (undos \ {u}) \cup {v}

UndoStop(u) ==
    /\ u.at = "stop"
    /\ \/ /\ StopEntry
          /\ Advance(u, [u EXCEPT !.at = IF running \in booked' THEN "discard" ELSE "mark",
                                  !.stopped = running])
       \/ /\ running = None
          /\ Advance(u, [u EXCEPT !.at = "failed"])
          /\ UNCHANGED <<running, booked>>
    /\ UNCHANGED <<done, view, reads, op, stack, spent>>

UndoDiscard(u) ==
    /\ u.at = "discard"
    /\ booked' = booked \ {u.stopped}
    /\ Advance(u, [u EXCEPT !.at = IF u.stopped \in booked THEN "mark" ELSE "failed"])
    /\ UNCHANGED <<running, done, view, reads, op, stack, spent>>

UndoMark(u) ==
    /\ u.at = "mark"
    /\ done' = done \cup {u.of.todo}
    /\ Advance(u, [u EXCEPT !.at = "marked"])
    /\ UNCHANGED <<running, booked, view, reads, op, stack, spent>>

LoseUndo(u) ==
    /\ u.at \in {"stop", "discard", "mark", "marked"}
    /\ Spend("upsets", Upsets)
    /\ Advance(u, [u EXCEPT !.at = "failed"])
    /\ UNCHANGED <<service, view, reads, op, stack>>

Undone(u) ==
    /\ u.at \in {"marked", "failed"}
    /\ Refresh
    /\ undos' = undos \ {u}
    /\ stack' = Show(stack, None)
    /\ UNCHANGED <<service, view, op, spent>>
-----------------------------------------------------------------------------
(* Other windows and the add-in at the same service.                       *)
OtherStart(t) ==
    /\ running = None /\ spent.upsets < Upsets
    /\ running' = [id |-> spent.starts + 1, todo |-> t]
    /\ spent' = [spent EXCEPT !.starts = @ + 1, !.upsets = @ + 1]
    /\ done' = done \ {t}
    /\ UNCHANGED <<booked, view, reads, op, undos, stack>>

OtherStop ==
    /\ StopEntry
    /\ Spend("upsets", Upsets)
    /\ UNCHANGED <<done, view, reads, op, undos, stack>>

OtherMark(t) ==
    /\ Spend("upsets", Upsets)
    /\ done' = IF t \in done THEN done \ {t} ELSE done \cup {t}
    /\ UNCHANGED <<running, booked, view, reads, op, undos, stack>>

OtherRemove(e) ==
    /\ Spend("upsets", Upsets)
    /\ booked' = booked \ {e}
    /\ UNCHANGED <<running, done, view, reads, op, undos, stack>>

(* Another part of the window has something to say, perhaps with an offer. *)
Message ==
    /\ Spend("upsets", Upsets)
    /\ \E offer \in {None, Elsewhere} : stack' = Show(stack, offer)
    /\ UNCHANGED <<service, view, reads, op, undos>>

(* Time passes; messages whose time is up go first.                        *)
Tick ==
    /\ Due(stack) = {} /\ Plain(stack) # {}
    /\ stack' = Older(stack)
    /\ UNCHANGED <<service, view, reads, op, undos, spent>>

Expire(i) ==
    /\ i \in Due(stack)
    /\ stack' = Dismiss(stack, i)
    /\ UNCHANGED <<service, view, reads, op, undos, spent>>
-----------------------------------------------------------------------------
Init ==
    /\ running = None
    /\ booked = {}
    /\ done = DoneOnes
    /\ view = None
    /\ reads = [s \in Slots |-> [at |-> "free", shows |-> None]]
    /\ op = Idle
    /\ undos = {}
    /\ stack = <<>>
    /\ spent = [starts |-> 0, clicks |-> 0, upsets |-> 0]

User ==
    \/ \E t \in Todos : ClickStart(t)
    \/ ClickStop \/ Confirm \/ Cancel
    \/ \E i \in DOMAIN stack : ClickUndo(i) \/ Close(i)

Calls ==
    \/ Look \/ CallStart \/ CallStop \/ Started \/ Asked \/ NotStarted
    \/ Stopped \/ Reported \/ AskEnd \/ NotStopped
    \/ \E u \in undos : UndoStop(u) \/ UndoDiscard(u) \/ UndoMark(u) \/ Undone(u)

Network == LoseCall \/ (\E u \in undos : LoseUndo(u)) \/ \E s \in Slots : LoseRead(s)

Other ==
    \/ \E t \in Todos : OtherStart(t) \/ OtherMark(t)
    \/ OtherStop
    \/ \E e \in booked : OtherRemove(e)
    \/ Message

Time == Tick \/ \E i \in DOMAIN stack : Expire(i)

Next ==
    \/ User \/ Calls \/ Network \/ Other \/ Time
    \/ Poll \/ \E s \in Slots : AnswerRead(s) \/ ShowRead(s)

Spec == Init /\ [][Next]_vars

(* Calls end, intervals and timers fire; the user and others owe nothing.  *)
Fairness ==
    /\ WF_vars(Poll)
    /\ \A s \in Slots : WF_vars(AnswerRead(s)) /\ WF_vars(ShowRead(s))
    /\ WF_vars(Calls)
    /\ WF_vars(Time)

FairSpec == Spec /\ Fairness
-----------------------------------------------------------------------------
TypeOK ==
    /\ running \in Entries \cup {None}
    /\ booked \subseteq Entries /\ running \notin booked
    /\ done \subseteq Todos
    /\ view \in Entries \cup {None}
    /\ reads \in [Slots -> Reads]
    /\ op \in Ops
    /\ undos \subseteq Undos
    /\ \A i \in DOMAIN stack : stack[i].offer \in Entries \cup {None, Elsewhere}

(* ToastContext.tsx, rules 1 and 3: a message with a way back neither goes *)
(* by itself nor gives way to others; only the user takes it away.         *)
OffersStay ==
    [][ \A i \in DOMAIN stack :
          stack[i].offer # None /\ (\A j \in DOMAIN stack' : stack'[j].offer # stack[i].offer)
            => ClickUndo(i) \/ Close(i) ]_vars

(* Rules 1 to 3 as T-115 mended them: however busy the stack is, a message *)
(* without an offer is gone when its own time is up, and offers alone may  *)
(* carry the stack over its limit.                                         *)
StackInOrder ==
    /\ Bounded(stack)
    /\ \A i \in Plain(stack) : stack[i].seen <= Life

(* TimerContext.tsx, "Selten nachfragen genügt": whatever was missed, the  *)
(* window ends up showing the timer of the service.                        *)
ViewCatchesUp == <>[](view = running)

(* The guards of an operation are taken back on every path: the window     *)
(* gets back to a state in which it takes a click.                         *)
OperationsEnd == op # Idle ~> op = Idle \/ op.at \in {"noting", "choosing"}
===============================================================================
