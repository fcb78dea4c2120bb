------------------------------- MODULE Export --------------------------------
(***************************************************************************)
(* Billing: bookings, their export status and its audit trail, and the     *)
(* export run that writes a file and marks the bookings in it.             *)
(*                                                                         *)
(* A run is a transaction around a file write.  The transaction holds the  *)
(* queue of TransactionQueue while the file is written and renamed, so no  *)
(* other handler reads or writes a row meanwhile; but the settings are     *)
(* read in an earlier transaction, a failed run removes its file after its *)
(* transaction is over, the service may die between any two of these       *)
(* steps, and the file bears the second of the call in its name.  Every    *)
(* other handler is one transaction without anything beside it, and one    *)
(* action.  A refused call is a stuttering step.                           *)
(***************************************************************************)
EXTENDS Integers, Sequences, FiniteSets

CONSTANTS
    Entries,        \* identities of ended time entries
    Todos,
    Notes,          \* what a booking says: its times and its service text
    Requests,       \* calls of POST /export that may be under way at a time
    Directories,    \* directories the user may choose for the files
    None,           \* SQL NULL: no row, no value; no file
    MaxTime,        \* bound of the model: the last second of the clock
    MaxAudit,       \* bound of the model: audit rows of an entry
    ClockSteps,     \* seconds the computer's clock may be set to
    SharedSeconds   \* whether two runs may be asked for in the same second

ASSUME BoundsAssumption ==
    /\ MaxTime \in Nat
    /\ MaxAudit \in Nat
    /\ ClockSteps \subseteq 0..MaxTime
    /\ SharedSeconds \in BOOLEAN

Time   == 0..MaxTime
Rows   == [todo : Todos, note : Notes, status : {"open", "exported"}, count : Nat]
Events == [event : {"exported", "reset", "not_billed"}, at : Time]
Bills  == UNION {[S -> [todo : Todos, note : Notes]] : S \in SUBSET Entries}
Paths  == Directories \X Time
Runs   == [path : Paths, billed : Bills]
Phases == {"idle", "asked", "checked", "writing", "written", "undo"}

ASSUME NoneAssumption == /\ None \notin Rows
                         /\ None \notin Directories
                         /\ None \notin Bills

VARIABLES
    clock,      \* context.clock.now(), in seconds
    asked,      \* history: the seconds a run was asked for in
    up,         \* whether the service runs
    entry,      \* the time_entry row of an ended entry, or None
    audit,      \* its rows of export_audit, in the order of their rowid
    runs,       \* export_run with its groups and entries
    noExport,   \* the todos with no_export = 1
    directory,  \* app_setting.export_directory
    request,    \* per call of runExport: how far it is, and its local variables
    files,      \* the export files on disk, by path: what each bills
    tmp         \* temporary files on disk, each in a directory, by a request

rows   == <<entry, audit, runs, noExport, directory>>
disk   == <<files, tmp>>
vars   == <<clock, asked, up, rows, request, disk>>
-----------------------------------------------------------------------------
(* The transaction queue is free: no run is inside its transaction.        *)
Free == /\ up
        /\ \A r \in Requests : request[r].phase \notin {"writing", "written"}

FaultyBillable(e) ==
    /\ entry[e] # None
    /\ entry[e].status = "open"

(* v_export_candidate, and what recordRun looks at a second time.          *)
Billable(e) ==
    /\ entry[e] # None
    /\ entry[e].status = "open"
    /\ entry[e].todo \notin noExport

(* What a file says of the bookings S.                                     *)
Billing(S) == [e \in S |-> [todo |-> entry[e].todo, note |-> entry[e].note]]

NoRequest == [phase |-> "idle", at |-> 0, dir |-> None, plan |-> Billing({})]

(* exportFileName: takt-export-<date>-<second>.json, in the directory.     *)
PathOf(r) == <<request[r].dir, request[r].at>>

Logged(e, event, at) == Append(audit[e], [event |-> event, at |-> at])

FaultyMarked(row) == [row EXCEPT !.count = row.count + 1]

Marked(row) == [row EXCEPT !.status = "exported", !.count = row.count + 1]

Leave(r) == request' = [request EXCEPT ![r] = NoRequest]
-----------------------------------------------------------------------------
(* POST /export: the call notes the time, which will name the file and     *)
(* date the audit rows, and queues up to read the settings.                *)
AskExport(r) ==
    /\ up
    /\ request[r].phase = "idle"
    /\ clock \in asked => SharedSeconds
    /\ asked' = asked \cup {clock}
    /\ request' = [request EXCEPT ![r] = [NoRequest EXCEPT !.phase = "asked",
                                                           !.at = clock]]
    /\ UNCHANGED <<clock, up, rows, disk>>

(* The settings, in a transaction of their own, then the directory: not    *)
(* set, missing or not writable ends the call.                             *)
CheckDirectory(r) ==
    /\ Free
    /\ request[r].phase = "asked"
    /\ \/ /\ directory # None
          /\ request' = [request EXCEPT ![r].phase = "checked",
                                        ![r].dir = directory]
       \/ Leave(r)
    /\ UNCHANGED <<clock, asked, up, rows, disk>>

(* The second transaction begins: the candidates among the bookings the    *)
(* caller named whose group can be rendered are planned, and the temporary *)
(* file is created.  No row, no template, no file: the call ends.          *)
WriteTemporary(r) ==
    /\ Free
    /\ request[r].phase = "checked"
    /\ \/ \E S \in (SUBSET {e \in Entries : Billable(e)}) \ {{}} :
            /\ request' = [request EXCEPT ![r].phase = "writing",
                                          ![r].plan = Billing(S)]
            /\ tmp' = tmp \cup {<<request[r].dir, r>>}
       \/ Leave(r) /\ tmp' = tmp
    /\ UNCHANGED <<clock, asked, up, rows, files>>

(* The rename puts the file in its place, over one that is there already.  *)
(* A write or a rename that fails ends the call without a file.            *)
PlaceFile(r) ==
    /\ request[r].phase = "writing"
    /\ \/ /\ files' = [files EXCEPT ![PathOf(r)] = request[r].plan]
          /\ request' = [request EXCEPT ![r].phase = "written"]
       \/ Leave(r) /\ files' = files
    /\ tmp' = tmp \ {<<request[r].dir, r>>}
    /\ UNCHANGED <<clock, asked, up, rows>>

FaultyRecordRun(r) ==
    LET plan == request[r].plan
    IN  /\ request[r].phase \in {"writing", "written"}
        /\ \A e \in DOMAIN plan : Billable(e) /\ Len(audit[e]) < MaxAudit
        /\ entry' = [e \in Entries |-> IF e \in DOMAIN plan THEN Marked(entry[e])
                                       ELSE entry[e]]
        /\ audit' = [e \in Entries |-> IF e \in DOMAIN plan
                                       THEN Logged(e, "exported", request[r].at)
                                       ELSE audit[e]]
        /\ runs' = Append(runs, [path |-> PathOf(r), billed |-> plan])
        /\ Leave(r)
        /\ UNCHANGED <<clock, asked, up, noExport, directory, disk>>

(* recordRun and COMMIT: the run, the marks and an audit row each, or      *)
(* nothing.  That every booking is still billable is looked at once more.  *)
RecordRun(r) ==
    LET plan == request[r].plan
    IN  /\ request[r].phase = "written"
        /\ \A e \in DOMAIN plan : Billable(e) /\ Len(audit[e]) < MaxAudit
        /\ entry' = [e \in Entries |-> IF e \in DOMAIN plan THEN Marked(entry[e])
                                       ELSE entry[e]]
        /\ audit' = [e \in Entries |-> IF e \in DOMAIN plan
                                       THEN Logged(e, "exported", request[r].at)
                                       ELSE audit[e]]
        /\ runs' = Append(runs, [path |-> PathOf(r), billed |-> plan])
        /\ Leave(r)
        /\ UNCHANGED <<clock, asked, up, noExport, directory, disk>>

(* recordRun or COMMIT fails: ROLLBACK, which frees the queue.             *)
RollBack(r) ==
    /\ request[r].phase = "written"
    /\ request' = [request EXCEPT ![r].phase = "undo"]
    /\ UNCHANGED <<clock, asked, up, rows, disk>>

(* The catch block of runExport, once the transaction is over.             *)
RemoveFile(r) ==
    /\ request[r].phase = "undo"
    /\ files' = [files EXCEPT ![PathOf(r)] = None]
    /\ Leave(r)
    /\ UNCHANGED <<clock, asked, up, rows, tmp>>
-----------------------------------------------------------------------------
(* POST /time-entries, and every timer or allocation that ends.            *)
CreateBooking(e, todo, note) ==
    /\ Free
    /\ entry[e] = None
    /\ entry' = [entry EXCEPT ![e] = [todo |-> todo, note |-> note,
                                      status |-> "open", count |-> 0]]
    /\ UNCHANGED <<clock, asked, up, audit, runs, noExport, directory, request, disk>>

FaultyUpdateBooking(e, todo, note) ==
    /\ Free
    /\ entry[e] # None
    /\ entry' = [entry EXCEPT ![e].todo = todo, ![e].note = note]
    /\ UNCHANGED <<clock, asked, up, audit, runs, noExport, directory, request, disk>>

(* PATCH /time-entries/{id}: an exported booking is locked (A-6.9).        *)
UpdateBooking(e, todo, note) ==
    /\ Free
    /\ entry[e] # None
    /\ entry[e].status = "open"
    /\ entry' = [entry EXCEPT ![e].todo = todo, ![e].note = note]
    /\ UNCHANGED <<clock, asked, up, audit, runs, noExport, directory, request, disk>>

(* DELETE /time-entries/{id}: neither locked nor, by the foreign key of    *)
(* export_audit, ever exported.                                            *)
RemoveBooking(e) ==
    /\ Free
    /\ entry[e] # None
    /\ entry[e].status = "open"
    /\ audit[e] = <<>>
    /\ entry' = [entry EXCEPT ![e] = None]
    /\ UNCHANGED <<clock, asked, up, audit, runs, noExport, directory, request, disk>>

(* PUT /time-entries/{id}/export-status: exported becomes open again.  The *)
(* count of exports stays.                                                 *)
ResetStatus(e) ==
    /\ Free
    /\ entry[e] # None
    /\ entry[e].status = "exported"
    /\ Len(audit[e]) < MaxAudit
    /\ entry' = [entry EXCEPT ![e].status = "open"]
    /\ audit' = [audit EXCEPT ![e] = Logged(e, "reset", clock)]
    /\ UNCHANGED <<clock, asked, up, runs, noExport, directory, request, disk>>

(* The row trg_time_entry_exported_needs_provenance takes for the newest:  *)
(* ORDER BY occurred_at DESC, rowid DESC.                                  *)
Newest(log) ==
    log[CHOOSE i \in DOMAIN log :
            \A j \in DOMAIN log : \/ log[j].at < log[i].at
                                  \/ log[j].at = log[i].at /\ j <= i]

(* The trigger lets a status change without a run pass only if the newest  *)
(* row is not_billed; markNotBilled has written that row just before.      *)
NotBilledPasses(e) == Newest(Logged(e, "not_billed", clock)).event = "not_billed"

FaultyMarkNotBilled(e) ==
    /\ Free
    /\ Billable(e)
    /\ entry' = [entry EXCEPT ![e].status = "exported"]
    /\ UNCHANGED <<clock, asked, up, audit, runs, noExport, directory, request, disk>>

(* POST /time-entries/{id}/not-billed: exported without a run.  When the   *)
(* trigger objects, the savepoint takes the audit row back as well.        *)
MarkNotBilled(e) ==
    /\ Free
    /\ Billable(e)
    /\ Len(audit[e]) < MaxAudit
    /\ NotBilledPasses(e)
    /\ entry' = [entry EXCEPT ![e].status = "exported"]
    /\ audit' = [audit EXCEPT ![e] = Logged(e, "not_billed", clock)]
    /\ UNCHANGED <<clock, asked, up, runs, noExport, directory, request, disk>>

(* PATCH /todos/{id} with noExport, either way.                            *)
SetNoExport(todo) ==
    /\ Free
    /\ noExport' \in {noExport \cup {todo}, noExport \ {todo}}
    /\ UNCHANGED <<clock, asked, up, entry, audit, runs, directory, request, disk>>

(* PATCH /settings with exportDirectory.                                   *)
SetDirectory(d) ==
    /\ Free
    /\ directory' = d
    /\ UNCHANGED <<clock, asked, up, entry, audit, runs, noExport, request, disk>>
-----------------------------------------------------------------------------
(* The process dies: an open transaction is rolled back by SQLite, the     *)
(* calls are gone, the disk is as it is.                                   *)
Crash ==
    /\ up
    /\ up' = FALSE
    /\ request' = [r \in Requests |-> NoRequest]
    /\ UNCHANGED <<clock, asked, rows, disk>>

(* Before it listens, the service sweeps the directory of the settings.    *)
Startup ==
    /\ ~up
    /\ up' = TRUE
    /\ tmp' = {t \in tmp : t[1] # directory}
    /\ UNCHANGED <<clock, asked, rows, request, files>>

Tick ==
    /\ clock < MaxTime
    /\ clock' = clock + 1
    /\ UNCHANGED <<asked, up, rows, request, disk>>

SetClock ==
    /\ clock' \in ClockSteps
    /\ UNCHANGED <<asked, up, rows, request, disk>>
-----------------------------------------------------------------------------
Init ==
    /\ clock = 0
    /\ asked = {}
    /\ up = TRUE
    /\ entry = [e \in Entries |-> None]
    /\ audit = [e \in Entries |-> <<>>]
    /\ runs = <<>>
    /\ noExport = {}
    /\ directory = None
    /\ request = [r \in Requests |-> NoRequest]
    /\ files = [p \in Paths |-> None]
    /\ tmp = {}

Export(r) ==
    \/ AskExport(r)
    \/ CheckDirectory(r)
    \/ WriteTemporary(r)
    \/ PlaceFile(r)
    \/ RecordRun(r)
    \/ RollBack(r)
    \/ RemoveFile(r)

Booking(e) ==
    \/ \E todo \in Todos, note \in Notes :
          CreateBooking(e, todo, note) \/ UpdateBooking(e, todo, note)
    \/ RemoveBooking(e)
    \/ ResetStatus(e)
    \/ MarkNotBilled(e)

Next ==
    \/ \E r \in Requests : Export(r)
    \/ \E e \in Entries : Booking(e)
    \/ \E todo \in Todos : SetNoExport(todo)
    \/ \E d \in Directories \cup {None} : SetDirectory(d)
    \/ Crash
    \/ Startup
    \/ Tick
    \/ SetClock

Spec == Init /\ [][Next]_vars
-----------------------------------------------------------------------------
TypeOK ==
    /\ clock \in Time
    /\ asked \subseteq Time
    /\ up \in BOOLEAN
    /\ entry \in [Entries -> Rows \cup {None}]
    /\ audit \in [Entries -> Seq(Events)]
    /\ runs \in Seq(Runs)
    /\ noExport \subseteq Todos
    /\ directory \in Directories \cup {None}
    /\ request \in [Requests -> [phase : Phases, at : Time,
                                 dir : Directories \cup {None}, plan : Bills]]
    /\ \A r \in Requests :
           request[r].phase \notin {"idle", "asked"} => request[r].dir # None
    /\ files \in [Paths -> Bills \cup {None}]
    /\ tmp \subseteq Directories \X Requests

(* A-8.8, export.ts: "Eine Markierung ohne Datei führt zu verlorener       *)
(* Abrechnung ... deshalb wird er ausgeschlossen": the file of every       *)
(* recorded run is in its place, and bills what the run has marked.  This  *)
(* holds when no two runs are asked for in the same second.                *)
EveryRunHasItsFile == \A i \in DOMAIN runs : files[runs[i].path] = runs[i].billed

EventsOf(e, event) == {i \in DOMAIN audit[e] : audit[e][i].event = event}
RunsOf(e)          == {i \in DOMAIN runs : e \in DOMAIN runs[i].billed}

(* R-10, A-6.6: the audit trail accounts for the status: exported unless   *)
(* the last row is a reset, and every row a change of the status; and the  *)
(* count is the number of runs with the booking, which the trail names.    *)
AuditExplainsStatus ==
    \A e \in Entries :
        LET log == audit[e]
        IN  /\ \A i \in DOMAIN log : (log[i].event = "reset") <=> (i % 2 = 0)
            /\ entry[e] = None => log = <<>>
            /\ entry[e] # None =>
                 /\ (entry[e].status = "exported") <=> (Len(log) % 2 = 1)
                 /\ entry[e].count = Cardinality(EventsOf(e, "exported"))
                 /\ entry[e].count = Cardinality(RunsOf(e))

(* R-10: a booking goes into a second bill only after a reset that is on   *)
(* record, however runs, crashes and failures mix.                         *)
BilledOncePerReset ==
    \A e \in Entries :
        Cardinality(RunsOf(e)) <= 1 + Cardinality(EventsOf(e, "reset"))

LastRunOf(e) == CHOOSE i \in RunsOf(e) : \A j \in RunsOf(e) : j <= i

(* A-6.9: as long as a run accounts for a booking's status, the booking    *)
(* says what the file of that run says of it.                              *)
ExportedAsBilled ==
    \A e \in Entries :
        /\ entry[e] # None
        /\ entry[e].status = "exported"
        /\ audit[e][Len(audit[e])].event = "exported"
        => Billing({e})[e] = runs[LastRunOf(e)].billed[e]

(* A-26.3: whatever is marked while a run is under way, no run records a   *)
(* booking of a todo that is not to be exported.                           *)
NoExportNeverBilled ==
    [][ \A i \in DOMAIN runs' \ DOMAIN runs :
           \A e \in DOMAIN runs'[i].billed :
               runs'[i].billed[e].todo \notin noExport ]_vars
=============================================================================
