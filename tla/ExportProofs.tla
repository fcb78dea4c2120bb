---------------------------- MODULE ExportProofs -----------------------------
(***************************************************************************)
(* Theorems about Export, for any number of bookings, calls, directories   *)
(* and audit rows.                                                         *)
(***************************************************************************)
EXTENDS Export, FiniteSetTheorems, TLAPS

-----------------------------------------------------------------------------
(* What a file says of existing bookings is a bill.                        *)
LEMMA BillingType ==
  ASSUME TypeOK, NEW S \in SUBSET {e \in Entries : entry[e] # None}
  PROVE  /\ Billing(S) \in Bills
         /\ DOMAIN Billing(S) = S
<1>1. Billing(S) \in [S -> [todo : Todos, note : Notes]]
  <2> SUFFICES ASSUME NEW e \in S
               PROVE  [todo |-> entry[e].todo, note |-> entry[e].note]
                        \in [todo : Todos, note : Notes]
    BY DEF Billing
  <2>1. entry[e] \in Rows
    BY DEF TypeOK
  <2> QED BY <2>1 DEF Rows
<1>2. S \in SUBSET Entries
  OBVIOUS
<1> QED BY <1>1, <1>2 DEF Bills

(* The local variables of a call that is not under way.                    *)
LEMMA NoRequestType ==
  ASSUME TypeOK
  PROVE  NoRequest \in [phase : Phases, at : Time,
                        dir : Directories \cup {None}, plan : Bills]
<1>1. Billing({}) \in Bills
  BY BillingType
<1> QED BY <1>1, BoundsAssumption DEF NoRequest, Phases, Time

(* A bill names bookings of the system.                                    *)
LEMMA BillDomain ==
  ASSUME NEW bill \in Bills
  PROVE  DOMAIN bill \in SUBSET Entries
BY DEF Bills
-----------------------------------------------------------------------------
(* A call under way that knows its directory has a path for its file.      *)
LEMMA PathType ==
  ASSUME TypeOK, NEW r \in Requests, request[r].phase \notin {"idle", "asked"}
  PROVE  PathOf(r) \in Paths
BY DEF TypeOK, PathOf, Paths

(* A line more leaves an audit trail a sequence of events.                 *)
LEMMA LoggedType ==
  ASSUME TypeOK, NEW e \in Entries, NEW at \in Time,
         NEW event \in {"exported", "reset", "not_billed"}
  PROVE  Logged(e, event, at) \in Seq(Events)
<1>1. [event |-> event, at |-> at] \in Events
  BY DEF Events
<1>2. audit[e] \in Seq(Events)
  BY DEF TypeOK
<1> QED BY <1>1, <1>2 DEF Logged

(* A marked booking is a booking.                                          *)
LEMMA MarkedType ==
  ASSUME NEW row \in Rows
  PROVE  Marked(row) \in Rows
<1>1. row.count + 1 \in Nat
  BY DEF Rows
<1>2. [row EXCEPT !.status = "exported"] \in Rows
  BY DEF Rows
<1>3. [[row EXCEPT !.status = "exported"] EXCEPT !.count = row.count + 1] \in Rows
  BY <1>1, <1>2 DEF Rows
<1> QED BY <1>3 DEF Marked

(* The steps of an export run keep the types.                              *)
LEMMA ExportKeepsTypes ==
  ASSUME TypeOK, NEW r \in Requests, Export(r)
  PROVE  TypeOK'
<1> DEFINE Calls == [phase : Phases, at : Time,
                     dir : Directories \cup {None}, plan : Bills]
<1>0. /\ request \in [Requests -> Calls]
      /\ NoRequest \in Calls
      /\ NoRequest.phase = "idle"
  BY NoRequestType DEF TypeOK, NoRequest
<1>1. CASE AskExport(r)
  <2>1. [NoRequest EXCEPT !.phase = "asked", !.at = clock] \in Calls
    BY <1>0 DEF TypeOK, Phases
  <2> QED BY <1>0, <1>1, <2>1 DEF AskExport, TypeOK, NoRequest, rows, disk
<1>2. CASE CheckDirectory(r)
  <2>1. CASE Leave(r)
    BY <1>0, <1>2, <2>1 DEF CheckDirectory, Leave, TypeOK, rows, disk
  <2>2. CASE /\ directory # None
             /\ request' = [request EXCEPT ![r].phase = "checked",
                                           ![r].dir = directory]
    BY <1>0, <1>2, <2>2 DEF CheckDirectory, TypeOK, Phases, rows, disk
  <2> QED BY <1>2, <2>1, <2>2 DEF CheckDirectory
<1>3. CASE WriteTemporary(r)
  <2>1. CASE Leave(r) /\ tmp' = tmp
    BY <1>0, <1>3, <2>1 DEF WriteTemporary, Leave, TypeOK, rows, disk
  <2>2. ASSUME NEW S \in SUBSET {e \in Entries : Billable(e)},
               request' = [request EXCEPT ![r].phase = "writing",
                                          ![r].plan = Billing(S)],
               tmp' = tmp \cup {<<request[r].dir, r>>}
        PROVE  TypeOK'
    <3>1. Billing(S) \in Bills
      BY <2>2, BillingType DEF Billable
    <3>2. request[r].phase = "checked"
      BY <1>3 DEF WriteTemporary
    <3>3. request[r].dir \in Directories
      BY <1>0, <3>2 DEF TypeOK
    <3>4. request' \in [Requests -> Calls]
      BY <1>0, <2>2, <3>1 DEF Phases
    <3>5. \A s \in Requests :
              request'[s].phase \notin {"idle", "asked"} => request'[s].dir # None
      BY <1>0, <2>2, <3>3, NoneAssumption DEF TypeOK
    <3>6. tmp' \subseteq Directories \X Requests
      BY <2>2, <3>3 DEF TypeOK
    <3> QED BY <1>3, <3>4, <3>5, <3>6 DEF WriteTemporary, TypeOK, rows
  <2> QED BY <1>3, <2>1, <2>2 DEF WriteTemporary
<1>4. CASE PlaceFile(r)
  <2>1. PathOf(r) \in Paths
    BY <1>4, PathType DEF PlaceFile
  <2>2. CASE Leave(r) /\ files' = files
    BY <1>0, <1>4, <2>2 DEF PlaceFile, Leave, TypeOK, rows
  <2>3. CASE /\ files' = [files EXCEPT ![PathOf(r)] = request[r].plan]
             /\ request' = [request EXCEPT ![r].phase = "written"]
    BY <1>0, <1>4, <2>1, <2>3 DEF PlaceFile, TypeOK, Phases, rows
  <2> QED BY <1>4, <2>2, <2>3 DEF PlaceFile
<1>5. CASE RecordRun(r)
  <2> DEFINE plan == request[r].plan
  <2>1. /\ plan \in Bills
        /\ request[r].at \in Time
        /\ PathOf(r) \in Paths
    BY <1>0, <1>5, PathType DEF RecordRun
  <2>2. entry' \in [Entries -> Rows \cup {None}]
    <3>1. ASSUME NEW e \in Entries, e \in DOMAIN plan
          PROVE  Marked(entry[e]) \in Rows
      <4>1. entry[e] \in Rows
        BY <1>5, <3>1 DEF RecordRun, Billable, TypeOK
      <4> QED BY <4>1, MarkedType
    <3> QED BY <1>5, <3>1 DEF RecordRun, TypeOK
  <2>3. audit' \in [Entries -> Seq(Events)]
    <3>1. \A e \in Entries : Logged(e, "exported", request[r].at) \in Seq(Events)
      BY <2>1, LoggedType
    <3> QED BY <1>5, <3>1 DEF RecordRun, TypeOK
  <2>4. runs' \in Seq(Runs)
    <3>1. [path |-> PathOf(r), billed |-> plan] \in Runs
      BY <2>1 DEF Runs
    <3> QED BY <1>5, <3>1 DEF RecordRun, TypeOK
  <2> QED BY <1>0, <1>5, <2>2, <2>3, <2>4 DEF RecordRun, Leave, TypeOK, disk
<1>6. CASE RollBack(r)
  BY <1>0, <1>6 DEF RollBack, TypeOK, Phases, rows, disk
<1>7. CASE RemoveFile(r)
  <2>1. PathOf(r) \in Paths
    BY <1>7, PathType DEF RemoveFile
  <2> QED BY <1>0, <1>7, <2>1 DEF RemoveFile, Leave, TypeOK, rows
<1> QED BY <1>1, <1>2, <1>3, <1>4, <1>5, <1>6, <1>7 DEF Export

(* The other handlers of a booking keep the types.                         *)
LEMMA BookingKeepsTypes ==
  ASSUME TypeOK, NEW e \in Entries, Booking(e)
  PROVE  TypeOK'
<1>1. ASSUME NEW todo \in Todos, NEW note \in Notes, CreateBooking(e, todo, note)
      PROVE  TypeOK'
  BY <1>1 DEF CreateBooking, TypeOK, Rows, disk
<1>2. ASSUME NEW todo \in Todos, NEW note \in Notes, UpdateBooking(e, todo, note)
      PROVE  TypeOK'
  BY <1>2 DEF UpdateBooking, TypeOK, Rows, disk
<1>3. CASE RemoveBooking(e)
  BY <1>3 DEF RemoveBooking, TypeOK, disk
<1>4. CASE ResetStatus(e)
  <2>1. Logged(e, "reset", clock) \in Seq(Events)
    BY LoggedType DEF TypeOK
  <2> QED BY <1>4, <2>1 DEF ResetStatus, TypeOK, Rows, disk
<1>5. CASE MarkNotBilled(e)
  <2>1. Logged(e, "not_billed", clock) \in Seq(Events)
    BY LoggedType DEF TypeOK
  <2> QED BY <1>5, <2>1 DEF MarkNotBilled, Billable, TypeOK, Rows, disk
<1> QED BY <1>1, <1>2, <1>3, <1>4, <1>5 DEF Booking

(* Every state of every behaviour is of the declared type.                 *)
THEOREM TypeCorrect == Spec => []TypeOK
<1>1. Init => TypeOK
  <2> SUFFICES ASSUME Init PROVE TypeOK
    OBVIOUS
  <2>1. Billing({}) = [e \in {} |-> [todo |-> entry[e].todo, note |-> entry[e].note]]
    BY DEF Billing
  <2>2. Billing({}) \in [{} -> [todo : Todos, note : Notes]]
    BY <2>1
  <2>3. Billing({}) \in Bills
    BY <2>2 DEF Bills
  <2> QED BY <2>3, BoundsAssumption DEF Init, TypeOK, NoRequest, Phases, Time
<1>2. TypeOK /\ [Next]_vars => TypeOK'
  <2> SUFFICES ASSUME TypeOK, [Next]_vars PROVE TypeOK'
    OBVIOUS
  <2>1. ASSUME NEW todo \in Todos, SetNoExport(todo) PROVE TypeOK'
    BY <2>1 DEF SetNoExport, TypeOK, disk
  <2>2. ASSUME NEW d \in Directories \cup {None}, SetDirectory(d) PROVE TypeOK'
    BY <2>2 DEF SetDirectory, TypeOK, disk
  <2>3. CASE Crash
    <3>1. /\ request' \in [Requests -> [phase : Phases, at : Time,
                                        dir : Directories \cup {None}, plan : Bills]]
          /\ \A r \in Requests : request'[r].phase = "idle"
      BY <2>3, NoRequestType DEF Crash, NoRequest
    <3> QED BY <2>3, <3>1 DEF Crash, TypeOK, rows, disk
  <2>4. CASE Startup
    BY <2>4 DEF Startup, TypeOK, rows
  <2>5. CASE Tick \/ SetClock
    <3>1. clock' \in Time
      <4>1. CASE Tick
        BY <4>1, BoundsAssumption DEF Tick, TypeOK, Time
      <4>2. CASE SetClock
        BY <4>2, BoundsAssumption DEF SetClock, Time
      <4> QED BY <2>5, <4>1, <4>2
    <3>2. /\ UNCHANGED <<asked, up, entry, audit, runs, noExport, directory>>
          /\ UNCHANGED <<request, files, tmp>>
      BY <2>5 DEF Tick, SetClock, rows, disk
    <3> QED BY <3>1, <3>2 DEF TypeOK
  <2>6. CASE UNCHANGED vars
    BY <2>6 DEF vars, TypeOK, rows, disk
  <2> QED BY <2>1, <2>2, <2>3, <2>4, <2>5, <2>6, ExportKeepsTypes,
             BookingKeepsTypes DEF Next
<1> QED BY <1>1, <1>2, PTL DEF Spec
-----------------------------------------------------------------------------
Active(r) == request[r].phase # "idle"

(* A second names the file of one call: that of a call under way is nobody *)
(* else's, and no run's.                                                   *)
OwnSeconds ==
  /\ \A r \in Requests : Active(r) => request[r].at \in asked
  /\ \A r, s \in Requests :
        Active(r) /\ Active(s) /\ r # s => request[r].at # request[s].at
  /\ \A i \in DOMAIN runs : /\ runs[i].path[2] \in asked
                            /\ \A r \in Requests :
                                  Active(r) => request[r].at # runs[i].path[2]

(* A file that is in its place and not yet recorded bills its plan.        *)
PlacedFiles ==
  \A r \in Requests :
     request[r].phase = "written" => files[PathOf(r)] = request[r].plan

FilesInv == TypeOK /\ OwnSeconds /\ PlacedFiles /\ EveryRunHasItsFile

(* Two calls under way have different files, and no recorded run has the   *)
(* file of a call under way.                                               *)
LEMMA PathsApart ==
  ASSUME TypeOK, OwnSeconds, NEW r \in Requests, Active(r)
  PROVE  /\ \A s \in Requests : Active(s) /\ s # r => PathOf(s) # PathOf(r)
         /\ \A i \in DOMAIN runs : runs[i].path # PathOf(r)
BY DEF OwnSeconds, PathOf

(* A step that starts no call, places no file and records no run keeps the *)
(* seconds and the files apart.                                            *)
LEMMA QuietStep ==
  ASSUME FilesInv,
         UNCHANGED <<asked, runs, files>>,
         \A r \in Requests :
            /\ Active(r)' => /\ Active(r)
                             /\ request'[r].at = request[r].at
            /\ request'[r].phase = "written" => request'[r] = request[r]
  PROVE  (OwnSeconds /\ PlacedFiles /\ EveryRunHasItsFile)'
<1>1. OwnSeconds'
  BY DEF FilesInv, OwnSeconds, Active
<1>2. PlacedFiles'
  BY DEF FilesInv, PlacedFiles, PathOf
<1>3. EveryRunHasItsFile'
  BY DEF FilesInv, EveryRunHasItsFile
<1> QED BY <1>1, <1>2, <1>3

(* Each step of an export run keeps them apart as well.                    *)
LEMMA ExportKeepsFiles ==
  ASSUME ~SharedSeconds, FilesInv, NEW r \in Requests, Export(r)
  PROVE  (OwnSeconds /\ PlacedFiles /\ EveryRunHasItsFile)'
<1>0. /\ TypeOK
      /\ request \in [Requests -> [phase : Phases, at : Time,
                                   dir : Directories \cup {None}, plan : Bills]]
      /\ NoRequest.phase = "idle"
  BY DEF FilesInv, TypeOK, NoRequest
<1>1. CASE AskExport(r)
  <2>1. /\ request'[r].phase = "asked"
        /\ request'[r].at = clock
        /\ \A s \in Requests : s # r => request'[s] = request[s]
        /\ clock \notin asked
        /\ asked' = asked \cup {clock}
        /\ UNCHANGED <<runs, files>>
    BY <1>0, <1>1 DEF AskExport, NoRequest, rows, disk
  <2>2. OwnSeconds'
    BY <2>1 DEF FilesInv, OwnSeconds, Active
  <2>3. PlacedFiles'
    BY <2>1 DEF FilesInv, PlacedFiles, PathOf
  <2>4. EveryRunHasItsFile'
    BY <2>1 DEF FilesInv, EveryRunHasItsFile
  <2> QED BY <2>2, <2>3, <2>4
<1>2. CASE CheckDirectory(r)
  BY <1>0, <1>2, QuietStep DEF CheckDirectory, Leave, Active, rows, disk
<1>3. CASE WriteTemporary(r)
  BY <1>0, <1>3, QuietStep DEF WriteTemporary, Leave, Active, rows
<1>4. CASE PlaceFile(r)
  <2>1. CASE Leave(r) /\ files' = files
    BY <1>0, <1>4, <2>1, QuietStep DEF PlaceFile, Leave, Active, rows
  <2>2. CASE /\ files' = [files EXCEPT ![PathOf(r)] = request[r].plan]
             /\ request' = [request EXCEPT ![r].phase = "written"]
    <3>1. /\ Active(r)
          /\ PathOf(r) \in Paths
          /\ files \in [Paths -> Bills \cup {None}]
      BY <1>0, <1>4, PathType DEF PlaceFile, Active, TypeOK
    <3>2. /\ \A s \in Requests : /\ Active(s)' <=> Active(s)
                                 /\ request'[s].at = request[s].at
                                 /\ PathOf(s)' = PathOf(s)
                                 /\ request'[s].plan = request[s].plan
          /\ \A s \in Requests : s # r => request'[s] = request[s]
          /\ UNCHANGED <<asked, runs>>
      BY <1>0, <1>4, <2>2, <3>1 DEF PlaceFile, Active, PathOf, rows
    <3>3. OwnSeconds'
      BY <3>2 DEF FilesInv, OwnSeconds
    <3>4. PlacedFiles'
      BY <2>2, <3>1, <3>2, PathsApart DEF FilesInv, PlacedFiles, Active
    <3>5. EveryRunHasItsFile'
      BY <2>2, <3>1, <3>2, PathsApart DEF FilesInv, EveryRunHasItsFile
    <3> QED BY <3>3, <3>4, <3>5
  <2> QED BY <1>4, <2>1, <2>2 DEF PlaceFile
<1>5. CASE RecordRun(r)
  <2> DEFINE run == [path |-> PathOf(r), billed |-> request[r].plan]
  <2>1. /\ Active(r)
        /\ request[r].at \in asked
        /\ files[PathOf(r)] = request[r].plan
    BY <1>5 DEF RecordRun, Active, FilesInv, OwnSeconds, PlacedFiles
  <2>2. /\ DOMAIN runs' = DOMAIN runs \cup {Len(runs) + 1}
        /\ runs'[Len(runs) + 1] = run
        /\ \A i \in DOMAIN runs : runs'[i] = runs[i] /\ i # Len(runs) + 1
    BY <1>0, <1>5 DEF RecordRun, TypeOK
  <2>3. /\ ~Active(r)'
        /\ \A s \in Requests : s # r => request'[s] = request[s]
        /\ UNCHANGED <<asked, files>>
    BY <1>0, <1>5 DEF RecordRun, Leave, Active, disk
  <2>4. OwnSeconds'
    BY <2>1, <2>2, <2>3 DEF FilesInv, OwnSeconds, Active, PathOf
  <2>5. PlacedFiles'
    BY <2>3 DEF FilesInv, PlacedFiles, PathOf, Active
  <2>6. EveryRunHasItsFile'
    BY <2>1, <2>2, <2>3 DEF FilesInv, EveryRunHasItsFile
  <2> QED BY <2>4, <2>5, <2>6
<1>6. CASE RollBack(r)
  BY <1>0, <1>6, QuietStep DEF RollBack, Active, rows, disk
<1>7. CASE RemoveFile(r)
  <2>1. /\ Active(r)
        /\ PathOf(r) \in Paths
        /\ files \in [Paths -> Bills \cup {None}]
    BY <1>0, <1>7, PathType DEF RemoveFile, Active, TypeOK
  <2>2. /\ ~Active(r)'
        /\ \A s \in Requests : s # r => request'[s] = request[s]
        /\ UNCHANGED <<asked, runs>>
    BY <1>0, <1>7 DEF RemoveFile, Leave, Active, rows
  <2>3. OwnSeconds'
    BY <2>2 DEF FilesInv, OwnSeconds, Active
  <2>4. PlacedFiles'
    BY <1>7, <2>1, <2>2, PathsApart DEF RemoveFile, FilesInv, PlacedFiles, Active, PathOf
  <2>5. EveryRunHasItsFile'
    BY <1>7, <2>1, <2>2, PathsApart DEF RemoveFile, FilesInv, EveryRunHasItsFile
  <2> QED BY <2>3, <2>4, <2>5
<1> QED BY <1>1, <1>2, <1>3, <1>4, <1>5, <1>6, <1>7 DEF Export

(* A-8.8: however runs, failures, restarts and steps of the clock mix, the *)
(* file of every recorded run is in its place and bills what the run has   *)
(* marked, as long as no two runs are asked for in the same second.        *)
THEOREM EveryMarkHasItsFile ==
  ~SharedSeconds => (Spec => []EveryRunHasItsFile)
<1> SUFFICES ASSUME ~SharedSeconds
             PROVE  Spec => []EveryRunHasItsFile
  OBVIOUS
<1>1. Init => OwnSeconds /\ PlacedFiles /\ EveryRunHasItsFile
  BY DEF Init, OwnSeconds, PlacedFiles, EveryRunHasItsFile, Active, NoRequest
<1>2. FilesInv /\ [Next]_vars => (OwnSeconds /\ PlacedFiles /\ EveryRunHasItsFile)'
  <2> SUFFICES ASSUME FilesInv, [Next]_vars
               PROVE  (OwnSeconds /\ PlacedFiles /\ EveryRunHasItsFile)'
    OBVIOUS
  <2>1. ASSUME NEW e \in Entries, Booking(e)
        PROVE  UNCHANGED <<asked, runs, files, request>>
    BY <2>1 DEF Booking, CreateBooking, UpdateBooking, RemoveBooking, ResetStatus,
                MarkNotBilled, disk
  <2>2. CASE \/ \E todo \in Todos : SetNoExport(todo)
             \/ \E d \in Directories \cup {None} : SetDirectory(d)
             \/ Startup
             \/ Tick
             \/ SetClock
             \/ UNCHANGED vars
    BY <2>2, QuietStep DEF SetNoExport, SetDirectory, Startup, Tick, SetClock, vars,
                           rows, disk, Active
  <2>3. CASE Crash
    BY <2>3, QuietStep DEF Crash, Active, NoRequest, rows, disk
  <2>4. ASSUME UNCHANGED <<asked, runs, files, request>>
        PROVE  (OwnSeconds /\ PlacedFiles /\ EveryRunHasItsFile)'
    BY <2>4, QuietStep DEF Active
  <2> QED BY <2>1, <2>2, <2>3, <2>4, ExportKeepsFiles DEF Next
<1>3. QED
  BY <1>1, <1>2, TypeCorrect, PTL DEF Spec, FilesInv

-----------------------------------------------------------------------------
InTransaction(r) == request[r].phase \in {"writing", "written"}

(* The queue of transactions lets one run write at a time, and what it has *)
(* planned stays billable, word for word, until it ends: no other handler  *)
(* gets a turn before.                                                     *)
PlanInv ==
  /\ \A r, s \in Requests : InTransaction(r) /\ InTransaction(s) => r = s
  /\ \A r \in Requests : InTransaction(r) =>
        \A e \in DOMAIN request[r].plan :
           /\ Billable(e)
           /\ request[r].plan[e] = [todo |-> entry[e].todo, note |-> entry[e].note]

(* A step that leaves the bookings alone and takes no call into its        *)
(* transaction keeps the plans.                                            *)
LEMMA PlansKept ==
  ASSUME PlanInv,
         \A r \in Requests : InTransaction(r)' =>
            InTransaction(r) /\ request'[r].plan = request[r].plan,
         UNCHANGED <<entry, noExport>>
  PROVE  PlanInv'
BY DEF PlanInv, Billable

(* While the queue is free there is no plan that could go stale.           *)
LEMMA FreePlans ==
  ASSUME Free, UNCHANGED request
  PROVE  PlanInv'
BY DEF Free, PlanInv, InTransaction

(* A plan is made from the rows, and stays what they say.                  *)
LEMMA PlanInvStep ==
  ASSUME TypeOK, PlanInv, [Next]_vars
  PROVE  PlanInv'
<1>0. /\ request \in [Requests -> [phase : Phases, at : Time,
                                   dir : Directories \cup {None}, plan : Bills]]
      /\ NoRequest.phase = "idle"
  BY DEF TypeOK, NoRequest
<1>1. ASSUME NEW r \in Requests, Export(r) PROVE PlanInv'
  <2>1. ASSUME Leave(r)
        PROVE  \A s \in Requests : InTransaction(s)' =>
                  s # r /\ InTransaction(s) /\ request'[s] = request[s]
    BY <1>0, <2>1 DEF Leave, InTransaction
  <2>2. CASE AskExport(r)
    <3>1. \A s \in Requests : InTransaction(s)' =>
             InTransaction(s) /\ request'[s].plan = request[s].plan
      BY <1>0, <2>2 DEF AskExport, NoRequest, InTransaction
    <3> QED BY <2>2, <3>1, PlansKept DEF AskExport, rows
  <2>3. CASE CheckDirectory(r)
    <3>1. \A s \in Requests : InTransaction(s)' =>
             InTransaction(s) /\ request'[s].plan = request[s].plan
      BY <1>0, <2>1, <2>3 DEF CheckDirectory, InTransaction
    <3> QED BY <2>3, <3>1, PlansKept DEF CheckDirectory, rows
  <2>4. CASE WriteTemporary(r)
    <3>1. UNCHANGED <<entry, noExport>>
      BY <2>4 DEF WriteTemporary, rows
    <3>2. CASE Leave(r)
      BY <2>1, <3>1, <3>2, PlansKept
    <3>3. ASSUME NEW S \in SUBSET {e \in Entries : Billable(e)},
                 request' = [request EXCEPT ![r].phase = "writing",
                                            ![r].plan = Billing(S)]
          PROVE  PlanInv'
      <4>1. \A s \in Requests : ~InTransaction(s)
        BY <2>4 DEF WriteTemporary, Free, InTransaction
      <4>2. /\ request'[r].plan = Billing(S)
            /\ \A s \in Requests : s # r => ~InTransaction(s)'
        BY <1>0, <3>3, <4>1 DEF InTransaction
      <4>3. \A e \in DOMAIN Billing(S) :
               /\ Billable(e)
               /\ Billing(S)[e] = [todo |-> entry[e].todo, note |-> entry[e].note]
        BY DEF Billing
      <4>4. \A e \in DOMAIN request'[r].plan :
               /\ Billable(e)'
               /\ request'[r].plan[e] = [todo |-> entry'[e].todo,
                                         note |-> entry'[e].note]
        BY <3>1, <4>2, <4>3 DEF Billable
      <4> QED BY <4>2, <4>4 DEF PlanInv
    <3> QED BY <2>4, <3>2, <3>3 DEF WriteTemporary
  <2>5. CASE PlaceFile(r)
    <3>1. InTransaction(r)
      BY <2>5 DEF PlaceFile, InTransaction
    <3>2. \A s \in Requests : InTransaction(s)' =>
             InTransaction(s) /\ request'[s].plan = request[s].plan
      BY <1>0, <2>1, <2>5, <3>1 DEF PlaceFile, InTransaction
    <3> QED BY <2>5, <3>2, PlansKept DEF PlaceFile, rows
  <2>6. CASE RecordRun(r)
    <3>1. InTransaction(r) /\ Leave(r)
      BY <2>6 DEF RecordRun, InTransaction
    <3>2. \A s \in Requests : ~InTransaction(s)'
      BY <2>1, <3>1 DEF PlanInv
    <3> QED BY <3>2 DEF PlanInv
  <2>7. CASE RollBack(r)
    <3>1. \A s \in Requests : InTransaction(s)' =>
             InTransaction(s) /\ request'[s].plan = request[s].plan
      BY <1>0, <2>7 DEF RollBack, InTransaction
    <3> QED BY <2>7, <3>1, PlansKept DEF RollBack, rows
  <2>8. CASE RemoveFile(r)
    BY <2>1, <2>8, PlansKept DEF RemoveFile, rows
  <2> QED BY <1>1, <2>2, <2>3, <2>4, <2>5, <2>6, <2>7, <2>8 DEF Export
<1>2. ASSUME NEW e \in Entries, Booking(e) PROVE PlanInv'
  BY <1>2, FreePlans DEF Booking, CreateBooking, UpdateBooking, RemoveBooking,
                         ResetStatus, MarkNotBilled
<1>3. ASSUME NEW todo \in Todos, SetNoExport(todo) PROVE PlanInv'
  BY <1>3, FreePlans DEF SetNoExport
<1>4. ASSUME NEW d \in Directories \cup {None}, SetDirectory(d) PROVE PlanInv'
  BY <1>4, FreePlans DEF SetDirectory
<1>5. CASE Crash
  BY <1>5 DEF Crash, PlanInv, InTransaction, NoRequest
<1>6. CASE Startup \/ Tick \/ SetClock \/ UNCHANGED vars
  BY <1>6, PlansKept DEF Startup, Tick, SetClock, vars, rows, InTransaction
<1> QED BY <1>1, <1>2, <1>3, <1>4, <1>5, <1>6 DEF Next

(* One run writes at a time, and its plan stays true to the rows.          *)
LEMMA PlansStayTrue == Spec => []PlanInv
<1>1. Init => PlanInv
  BY DEF Init, PlanInv, InTransaction, NoRequest
<1>2. TypeOK /\ PlanInv /\ [Next]_vars => PlanInv'
  BY PlanInvStep
<1> QED BY <1>1, <1>2, TypeCorrect, PTL DEF Spec

(* The runs grow by the call that records one, and only by that.           *)
LEMMA RunsGrow ==
  ASSUME TypeOK, [Next]_vars
  PROVE  \/ runs' = runs
         \/ \E r \in Requests : RecordRun(r)
BY DEF Next, Export, AskExport, CheckDirectory, WriteTemporary, PlaceFile, RollBack,
       RemoveFile, Booking, CreateBooking, UpdateBooking, RemoveBooking, ResetStatus,
       MarkNotBilled, SetNoExport, SetDirectory, Crash, Startup, Tick, SetClock,
       vars, rows

(* What a recorded run appends.                                            *)
LEMMA RunRecorded ==
  ASSUME TypeOK, NEW r \in Requests, RecordRun(r)
  PROVE  /\ DOMAIN runs = 1..Len(runs) /\ Len(runs) \in Nat
         /\ DOMAIN runs' = DOMAIN runs \cup {Len(runs) + 1}
         /\ runs'[Len(runs) + 1].billed = request[r].plan
         /\ \A i \in DOMAIN runs : runs'[i] = runs[i]
<1> DEFINE run == [path |-> PathOf(r), billed |-> request[r].plan]
<1>1. runs \in Seq(Runs) /\ runs' = Append(runs, run)
  BY DEF TypeOK, RecordRun
<1>2. run.billed = request[r].plan
  OBVIOUS
<1> HIDE DEF run
<1> QED BY <1>1, <1>2

(* A-26.3: a run records no booking of a todo that is not to be exported:  *)
(* the mark that is set while the run is under way comes before its plan   *)
(* or after its COMMIT.                                                    *)
THEOREM NoExportIsNeverBilled == Spec => NoExportNeverBilled
<1>1. TypeOK /\ PlanInv /\ [Next]_vars =>
        [\A i \in DOMAIN runs' \ DOMAIN runs :
           \A e \in DOMAIN runs'[i].billed :
               runs'[i].billed[e].todo \notin noExport]_vars
  <2> SUFFICES ASSUME TypeOK, PlanInv, [Next]_vars,
                      NEW i \in DOMAIN runs' \ DOMAIN runs,
                      NEW e \in DOMAIN runs'[i].billed
               PROVE  runs'[i].billed[e].todo \notin noExport
    OBVIOUS
  <2>1. PICK r \in Requests : RecordRun(r)
    BY RunsGrow
  <2>2. runs'[i].billed = request[r].plan
    BY <2>1, RunRecorded
  <2>3. InTransaction(r)
    BY <2>1 DEF RecordRun, InTransaction
  <2>4. /\ Billable(e)
        /\ request[r].plan[e] = [todo |-> entry[e].todo, note |-> entry[e].note]
    <3>1. e \in DOMAIN request[r].plan
      BY <2>2
    <3> QED BY <2>3, <3>1 DEF PlanInv
  <2> QED BY <2>2, <2>4 DEF Billable
<1> QED BY <1>1, TypeCorrect, PlansStayTrue, PTL DEF NoExportNeverBilled, Spec

-----------------------------------------------------------------------------
(* The places of a trail where an event stands; EventsOf is this for the   *)
(* trail of a booking.                                                     *)
Named(log, event) == {i \in DOMAIN log : log[i].event = event}

(* What a trail, a booking (or None) and the set of its runs have to say   *)
(* of one another.  That a bill takes a reset is in the last line.         *)
Accounts(log, row, S) ==
  /\ \A i \in DOMAIN log : (log[i].event = "reset") <=> (i % 2 = 0)
  /\ row = None => log = <<>> /\ S = {}
  /\ row # None =>
       /\ (row.status = "exported") <=> (Len(log) % 2 = 1)
       /\ row.count = Cardinality(Named(log, "exported"))
       /\ row.count = Cardinality(S)
       /\ Cardinality(Named(log, "exported"))
            <= Cardinality(Named(log, "reset"))
                 + (IF row.status = "exported" THEN 1 ELSE 0)

TrailInv == \A e \in Entries : Accounts(audit[e], entry[e], RunsOf(e))

(* After an even number comes an odd one, and the other way round.         *)
LEMMA Parity ==
  ASSUME NEW n \in Nat
  PROVE  /\ n % 2 = 0 <=> n % 2 # 1
         /\ n % 2 = 0 <=> (n + 1) % 2 = 1
         /\ n % 2 = 1 <=> (n + 1) % 2 = 0
OBVIOUS

(* The places of an event are finitely many, and a line more adds its own. *)
LEMMA NamedLogged ==
  ASSUME NEW log \in Seq(Events), NEW event, NEW at, NEW other,
         [event |-> event, at |-> at] \in Events
  PROVE  LET longer == Append(log, [event |-> event, at |-> at])
         IN  /\ Len(log) \in Nat
             /\ Len(longer) = Len(log) + 1
             /\ DOMAIN longer = DOMAIN log \cup {Len(log) + 1}
             /\ \A i \in DOMAIN log : longer[i] = log[i] /\ i \in Nat
             /\ longer[Len(log) + 1].event = event
             /\ Cardinality(Named(log, other)) \in Nat
             /\ Cardinality(Named(longer, other)) =
                   Cardinality(Named(log, other)) + (IF other = event THEN 1 ELSE 0)
<1> DEFINE line   == [event |-> event, at |-> at]
           longer == Append(log, line)
           next   == Len(log) + 1
<1>1. /\ DOMAIN log = 1..Len(log) /\ Len(log) \in Nat
      /\ Len(longer) = next
      /\ DOMAIN longer = DOMAIN log \cup {next} /\ next \notin DOMAIN log
      /\ \A i \in DOMAIN log : longer[i] = log[i]
      /\ longer[next] = line
  BY DEF longer
<1>2. line.event = event
  OBVIOUS
<1>3. IsFiniteSet(Named(log, other))
  <2>1. IsFiniteSet(1..Len(log))
    BY <1>1, FS_Interval
  <2>2. Named(log, other) \subseteq 1..Len(log)
    BY <1>1 DEF Named
  <2> QED BY <2>1, <2>2, FS_Subset
<1>4. next \notin Named(log, other)
  BY <1>1 DEF Named
<1>5. Named(longer, other) =
        IF other = event THEN Named(log, other) \cup {next} ELSE Named(log, other)
  <2> HIDE DEF line, longer, next
  <2> QED BY <1>1, <1>2 DEF Named
<1>6. Cardinality(Named(log, other)) \in Nat
  BY <1>3, FS_CardinalityType
<1>7. Cardinality(Named(log, other) \cup {next}) = Cardinality(Named(log, other)) + 1
  BY <1>3, <1>4, FS_AddElement
<1>8. Cardinality(Named(longer, other)) =
        Cardinality(Named(log, other)) + (IF other = event THEN 1 ELSE 0)
  BY <1>5, <1>6, <1>7
<1> QED BY <1>1, <1>2, <1>6, <1>8

(* A reset is the even line: it follows the line that made it exported.    *)
LEMMA ResetAccounts ==
  ASSUME NEW log \in Seq(Events), NEW row \in Rows, NEW S, NEW at \in Time,
         Accounts(log, row, S), row.status = "exported"
  PROVE  Accounts(Append(log, [event |-> "reset", at |-> at]),
                  [row EXCEPT !.status = "open"], S)
<1> DEFINE longer == Append(log, [event |-> "reset", at |-> at])
           reset  == [row EXCEPT !.status = "open"]
<1>1. [event |-> "reset", at |-> at] \in Events
  BY DEF Events
<1>2. row # None /\ reset # None
  <2>1. reset \in Rows
    BY DEF Rows
  <2> QED BY <2>1, NoneAssumption
<1>3. reset.status = "open" /\ reset.count = row.count
  BY DEF Rows
<1>4. /\ Len(log) \in Nat /\ Len(longer) = Len(log) + 1
      /\ DOMAIN longer = DOMAIN log \cup {Len(log) + 1}
      /\ \A i \in DOMAIN log : longer[i] = log[i]
      /\ longer[Len(log) + 1].event = "reset"
  BY <1>1, NamedLogged
<1>5. Cardinality(Named(longer, "exported")) = Cardinality(Named(log, "exported"))
  <2>1. Cardinality(Named(log, "exported")) \in Nat
    BY <1>1, NamedLogged
  <2> QED BY <1>1, <2>1, NamedLogged
<1>6. /\ Cardinality(Named(log, "reset")) \in Nat
      /\ Cardinality(Named(log, "exported")) \in Nat
      /\ Cardinality(Named(longer, "reset")) = Cardinality(Named(log, "reset")) + 1
  BY <1>1, NamedLogged
<1> HIDE DEF longer, reset
<1>7. Len(log) % 2 = 1 /\ (Len(log) + 1) % 2 = 0 /\ (Len(log) + 1) % 2 # 1
  BY <1>2, <1>4, Parity DEF Accounts
<1>8. \A i \in DOMAIN longer : (longer[i].event = "reset") <=> (i % 2 = 0)
  BY <1>4, <1>7 DEF Accounts
<1>9. Cardinality(Named(longer, "exported"))
        <= Cardinality(Named(longer, "reset")) + 0
  BY <1>2, <1>5, <1>6 DEF Accounts
<1>10. Accounts(longer, reset, S)
  BY <1>2, <1>3, <1>4, <1>5, <1>7, <1>8, <1>9 DEF Accounts
<1> QED BY <1>10 DEF longer, reset

(* The odd lines take an open booking: not billed, without a run.          *)
LEMMA NotBilledAccounts ==
  ASSUME NEW log \in Seq(Events), NEW row \in Rows, NEW S, NEW at \in Time,
         Accounts(log, row, S), row.status = "open"
  PROVE  Accounts(Append(log, [event |-> "not_billed", at |-> at]),
                  [row EXCEPT !.status = "exported"], S)
<1> DEFINE longer == Append(log, [event |-> "not_billed", at |-> at])
           marked == [row EXCEPT !.status = "exported"]
<1>1. [event |-> "not_billed", at |-> at] \in Events
  BY DEF Events
<1>2. row # None /\ marked # None
  <2>1. marked \in Rows
    BY DEF Rows
  <2> QED BY <2>1, NoneAssumption
<1>3. marked.status = "exported" /\ marked.count = row.count
  BY DEF Rows
<1>4. /\ Len(log) \in Nat /\ Len(longer) = Len(log) + 1
      /\ DOMAIN longer = DOMAIN log \cup {Len(log) + 1}
      /\ \A i \in DOMAIN log : longer[i] = log[i]
      /\ longer[Len(log) + 1].event = "not_billed"
  BY <1>1, NamedLogged
<1>5. /\ Cardinality(Named(log, "reset")) \in Nat
      /\ Cardinality(Named(log, "exported")) \in Nat
  BY <1>1, NamedLogged
<1>6. /\ Cardinality(Named(longer, "exported")) = Cardinality(Named(log, "exported"))
      /\ Cardinality(Named(longer, "reset")) = Cardinality(Named(log, "reset"))
  BY <1>1, <1>5, NamedLogged
<1> HIDE DEF longer, marked
<1>7. (Len(log) + 1) % 2 = 1 /\ (Len(log) + 1) % 2 # 0
  <2>1. Len(log) % 2 # 1
    BY <1>2 DEF Accounts
  <2> QED BY <1>4, <2>1, Parity
<1>8. \A i \in DOMAIN longer : (longer[i].event = "reset") <=> (i % 2 = 0)
  BY <1>4, <1>7 DEF Accounts
<1>9. Cardinality(Named(longer, "exported"))
        <= Cardinality(Named(longer, "reset")) + 1
  BY <1>2, <1>5, <1>6 DEF Accounts
<1>10. Accounts(longer, marked, S)
  BY <1>2, <1>3, <1>4, <1>6, <1>7, <1>8, <1>9 DEF Accounts
<1> QED BY <1>10 DEF longer, marked

(* Or exported, by a run more.                                             *)
LEMMA ExportedAccounts ==
  ASSUME NEW log \in Seq(Events), NEW row \in Rows, NEW S, IsFiniteSet(S),
         NEW at \in Time, NEW n, n \notin S,
         Accounts(log, row, S), row.status = "open"
  PROVE  Accounts(Append(log, [event |-> "exported", at |-> at]),
                  Marked(row), S \cup {n})
<1> DEFINE longer == Append(log, [event |-> "exported", at |-> at])
           marked == Marked(row)
<1>1. [event |-> "exported", at |-> at] \in Events
  BY DEF Events
<1>2. row # None /\ marked # None
  <2>1. marked \in Rows
    BY MarkedType
  <2> QED BY <2>1, NoneAssumption
<1>3. marked.status = "exported" /\ marked.count = row.count + 1
  BY DEF Rows, Marked
<1>4. /\ Len(log) \in Nat /\ Len(longer) = Len(log) + 1
      /\ DOMAIN longer = DOMAIN log \cup {Len(log) + 1}
      /\ \A i \in DOMAIN log : longer[i] = log[i]
      /\ longer[Len(log) + 1].event = "exported"
  BY <1>1, NamedLogged
<1>5. /\ Cardinality(Named(log, "reset")) \in Nat
      /\ Cardinality(Named(log, "exported")) \in Nat
      /\ Cardinality(Named(longer, "exported"))
            = Cardinality(Named(log, "exported")) + 1
  BY <1>1, NamedLogged
<1>6. Cardinality(Named(longer, "reset")) = Cardinality(Named(log, "reset"))
  BY <1>1, <1>5, NamedLogged
<1>7. Cardinality(S \cup {n}) = Cardinality(S) + 1
  BY FS_AddElement
<1> HIDE DEF longer, marked
<1>8. (Len(log) + 1) % 2 = 1 /\ (Len(log) + 1) % 2 # 0
  <2>1. Len(log) % 2 # 1
    BY <1>2 DEF Accounts
  <2> QED BY <1>4, <2>1, Parity
<1>9. \A i \in DOMAIN longer : (longer[i].event = "reset") <=> (i % 2 = 0)
  BY <1>4, <1>8 DEF Accounts
<1>10. Cardinality(Named(longer, "exported"))
         <= Cardinality(Named(longer, "reset")) + 1
  BY <1>2, <1>5, <1>6 DEF Accounts
<1>11. Accounts(longer, marked, S \cup {n})
  BY <1>2, <1>3, <1>4, <1>5, <1>7, <1>8, <1>9, <1>10 DEF Accounts
<1> QED BY <1>11 DEF longer, marked

(* The runs of a booking are finitely many; one more may add the booking.  *)
LEMMA RunsOfRecorded ==
  ASSUME TypeOK, NEW e \in Entries
  PROVE  /\ IsFiniteSet(RunsOf(e)) /\ Len(runs) + 1 \notin RunsOf(e)
         /\ \A i \in RunsOf(e) : i \in Nat /\ i < Len(runs) + 1
         /\ \A r \in Requests : RecordRun(r) =>
               RunsOf(e)' = IF e \in DOMAIN request[r].plan
                            THEN RunsOf(e) \cup {Len(runs) + 1}
                            ELSE RunsOf(e)
<1>1. DOMAIN runs = 1..Len(runs) /\ Len(runs) \in Nat
  BY DEF TypeOK
<1>2. IsFiniteSet(RunsOf(e))
  <2>1. IsFiniteSet(1..Len(runs))
    BY <1>1, FS_Interval
  <2>2. RunsOf(e) \subseteq 1..Len(runs)
    BY <1>1 DEF RunsOf
  <2> QED BY <2>1, <2>2, FS_Subset
<1>3. Len(runs) + 1 \notin RunsOf(e)
  BY <1>1 DEF RunsOf
<1>4. \A i \in RunsOf(e) : i \in Nat /\ i < Len(runs) + 1
  BY <1>1 DEF RunsOf
<1>5. ASSUME NEW r \in Requests, RecordRun(r)
      PROVE  RunsOf(e)' = IF e \in DOMAIN request[r].plan
                          THEN RunsOf(e) \cup {Len(runs) + 1}
                          ELSE RunsOf(e)
  <2>1. /\ DOMAIN runs' = DOMAIN runs \cup {Len(runs) + 1}
        /\ runs'[Len(runs) + 1].billed = request[r].plan
        /\ \A i \in DOMAIN runs : runs'[i] = runs[i]
    BY <1>5, RunRecorded
  <2> QED BY <1>1, <2>1 DEF RunsOf
<1> QED BY <1>2, <1>3, <1>4, <1>5

(* What a recorded run does to a booking of its plan, and to any other.    *)
LEMMA BookingRecorded ==
  ASSUME TypeOK, NEW r \in Requests, RecordRun(r), NEW e \in Entries
  PROVE  /\ e \in DOMAIN request[r].plan =>
               /\ entry[e] \in Rows /\ entry[e].status = "open"
               /\ entry'[e] = Marked(entry[e])
               /\ audit'[e] = Append(audit[e], [event |-> "exported",
                                               at |-> request[r].at])
         /\ e \notin DOMAIN request[r].plan =>
               entry'[e] = entry[e] /\ audit'[e] = audit[e]
<1>1. e \in DOMAIN request[r].plan =>
        entry[e] \in Rows /\ entry[e].status = "open"
  BY DEF RecordRun, Billable, TypeOK
<1>2. /\ entry'[e] = IF e \in DOMAIN request[r].plan THEN Marked(entry[e])
                                                     ELSE entry[e]
      /\ audit'[e] = IF e \in DOMAIN request[r].plan
                     THEN Logged(e, "exported", request[r].at) ELSE audit[e]
  BY DEF RecordRun
<1> QED BY <1>1, <1>2 DEF Logged

(* No step tells a booking, its trail and its runs apart.                  *)
LEMMA TrailInvStep ==
  ASSUME TypeOK, TrailInv, [Next]_vars
  PROVE  TrailInv'
<1> SUFFICES ASSUME NEW e \in Entries
             PROVE  Accounts(audit'[e], entry'[e], RunsOf(e)')
  BY DEF TrailInv
<1>0. /\ Accounts(audit[e], entry[e], RunsOf(e))
      /\ entry \in [Entries -> Rows \cup {None}]
      /\ audit \in [Entries -> Seq(Events)] /\ audit[e] \in Seq(Events)
      /\ clock \in Time
  BY DEF TrailInv, TypeOK
<1>1. ASSUME UNCHANGED runs PROVE RunsOf(e)' = RunsOf(e)
  BY <1>1 DEF RunsOf
<1>2. ASSUME NEW r \in Requests, RecordRun(r)
      PROVE  Accounts(audit'[e], entry'[e], RunsOf(e)')
  <2>1. CASE e \in DOMAIN request[r].plan
    <3>1. request[r].at \in Time
      BY DEF TypeOK
    <3>2. RunsOf(e)' = RunsOf(e) \cup {Len(runs) + 1}
      BY <1>2, <2>1, RunsOfRecorded
    <3>3. /\ entry[e] \in Rows /\ entry[e].status = "open"
          /\ entry'[e] = Marked(entry[e])
          /\ audit'[e] = Append(audit[e], [event |-> "exported",
                                          at |-> request[r].at])
      BY <1>2, <2>1, BookingRecorded
    <3>4. IsFiniteSet(RunsOf(e)) /\ Len(runs) + 1 \notin RunsOf(e)
      BY RunsOfRecorded
    <3>5. Accounts(Append(audit[e], [event |-> "exported", at |-> request[r].at]),
                   Marked(entry[e]), RunsOf(e) \cup {Len(runs) + 1})
      BY <1>0, <3>1, <3>3, <3>4, ExportedAccounts
    <3> QED BY <3>2, <3>3, <3>5
  <2>2. CASE e \notin DOMAIN request[r].plan
    <3>1. RunsOf(e)' = RunsOf(e)
      BY <1>2, <2>2, RunsOfRecorded
    <3>2. entry'[e] = entry[e] /\ audit'[e] = audit[e]
      BY <1>2, <2>2, BookingRecorded
    <3> QED BY <1>0, <3>1, <3>2
  <2> QED BY <2>1, <2>2
<1>3. ASSUME NEW d \in Entries, Booking(d)
      PROVE  Accounts(audit'[e], entry'[e], RunsOf(e)')
  <2>1. ASSUME NEW todo \in Todos, NEW note \in Notes, CreateBooking(d, todo, note)
        PROVE  Accounts(audit'[e], entry'[e], RunsOf(e)')
    <3> DEFINE row == [todo |-> todo, note |-> note, status |-> "open", count |-> 0]
    <3>1. /\ RunsOf(e)' = RunsOf(e) /\ audit'[e] = audit[e]
          /\ entry'[e] = IF e = d THEN row ELSE entry[e]
      BY <1>0, <1>1, <2>1 DEF CreateBooking
    <3>2. CASE e = d
      <4>1. entry[e] = None /\ audit[e] = <<>> /\ RunsOf(e) = {}
        BY <1>0, <2>1, <3>2 DEF CreateBooking, Accounts
      <4>2. Named(<<>>, "exported") = {} /\ Named(<<>>, "reset") = {}
        BY DEF Named
      <4>3. row.status = "open" /\ row.count = 0
        OBVIOUS
      <4>4. Len(<<>>) = 0 /\ 0 % 2 # 1 /\ DOMAIN <<>> = {}
        OBVIOUS
      <4>5. row # None
        <5>1. row \in Rows
          BY DEF Rows
        <5> QED BY <5>1, NoneAssumption
      <4> HIDE DEF row
      <4>6. Accounts(<<>>, row, {})
        <5>1. /\ Cardinality({}) = 0
              /\ Cardinality(Named(<<>>, "exported")) = 0
              /\ Cardinality(Named(<<>>, "reset")) = 0
          BY <4>2, FS_EmptySet
        <5>2. row.status # "exported" /\ 0 <= 0 + 0
          BY <4>3
        <5> QED BY <4>3, <4>4, <4>5, <5>1, <5>2 DEF Accounts
      <4> QED BY <3>1, <3>2, <4>1, <4>6
    <3>3. CASE e # d
      BY <1>0, <3>1, <3>3
    <3> QED BY <3>2, <3>3
  <2>2. ASSUME NEW todo \in Todos, NEW note \in Notes, UpdateBooking(d, todo, note)
        PROVE  Accounts(audit'[e], entry'[e], RunsOf(e)')
    <3>1. /\ RunsOf(e)' = RunsOf(e) /\ audit'[e] = audit[e]
      BY <1>1, <2>2 DEF UpdateBooking
    <3>2. \/ entry'[e] = entry[e]
          \/ /\ entry[e] \in Rows /\ entry'[e] \in Rows
             /\ entry'[e].status = entry[e].status
             /\ entry'[e].count = entry[e].count
      BY <1>0, <2>2 DEF UpdateBooking, Rows
    <3> QED BY <1>0, <3>1, <3>2, NoneAssumption DEF Accounts
  <2>3. CASE RemoveBooking(d)
    <3>1. /\ RunsOf(e)' = RunsOf(e) /\ audit'[e] = audit[e]
          /\ entry'[e] = IF e = d THEN None ELSE entry[e]
      BY <1>0, <1>1, <2>3 DEF RemoveBooking
    <3>2. CASE e = d
      <4>1. entry[e] # None /\ audit[e] = <<>>
        BY <2>3, <3>2 DEF RemoveBooking
      <4>2. Named(audit[e], "exported") = {}
        BY <4>1 DEF Named
      <4>3. Cardinality(RunsOf(e)) = 0
        BY <1>0, <4>1, <4>2, FS_EmptySet DEF Accounts
      <4>4. RunsOf(e) = {}
        BY <4>3, RunsOfRecorded, FS_EmptySet
      <4> QED BY <1>0, <3>1, <3>2, <4>1, <4>4 DEF Accounts
    <3>3. CASE e # d
      BY <1>0, <3>1, <3>3
    <3> QED BY <3>2, <3>3
  <2>4. CASE ResetStatus(d)
    <3>1. CASE e = d
      <4>1. /\ entry[e] \in Rows /\ entry[e].status = "exported"
            /\ entry'[e] = [entry[e] EXCEPT !.status = "open"]
            /\ audit'[e] = Append(audit[e], [event |-> "reset", at |-> clock])
        BY <1>0, <2>4, <3>1 DEF ResetStatus, Logged
      <4>2. RunsOf(e)' = RunsOf(e)
        BY <1>1, <2>4 DEF ResetStatus
      <4>3. Accounts(Append(audit[e], [event |-> "reset", at |-> clock]),
                     [entry[e] EXCEPT !.status = "open"], RunsOf(e))
        BY <1>0, <4>1, ResetAccounts
      <4> QED BY <4>1, <4>2, <4>3
    <3>2. CASE e # d
      BY <1>0, <1>1, <2>4, <3>2 DEF ResetStatus
    <3> QED BY <3>1, <3>2
  <2>5. CASE MarkNotBilled(d)
    <3>1. CASE e = d
      <4>1. /\ entry[e] \in Rows /\ entry[e].status = "open"
            /\ entry'[e] = [entry[e] EXCEPT !.status = "exported"]
            /\ audit'[e] = Append(audit[e], [event |-> "not_billed", at |-> clock])
        BY <1>0, <2>5, <3>1 DEF MarkNotBilled, Billable, Logged
      <4>2. RunsOf(e)' = RunsOf(e)
        BY <1>1, <2>5 DEF MarkNotBilled
      <4>3. Accounts(Append(audit[e], [event |-> "not_billed", at |-> clock]),
                     [entry[e] EXCEPT !.status = "exported"], RunsOf(e))
        BY <1>0, <4>1, NotBilledAccounts
      <4> QED BY <4>1, <4>2, <4>3
    <3>2. CASE e # d
      BY <1>0, <1>1, <2>5, <3>2 DEF MarkNotBilled
    <3> QED BY <3>1, <3>2
  <2> QED BY <1>3, <2>1, <2>2, <2>3, <2>4, <2>5 DEF Booking
<1>4. ASSUME UNCHANGED <<entry, audit, runs>>
      PROVE  Accounts(audit'[e], entry'[e], RunsOf(e)')
  BY <1>0, <1>1, <1>4
<1>5. ASSUME NEW r \in Requests, Export(r), ~RecordRun(r)
      PROVE  UNCHANGED <<entry, audit, runs>>
  BY <1>5 DEF Export, AskExport, CheckDirectory, WriteTemporary, PlaceFile,
              RollBack, RemoveFile, rows
<1>6. ASSUME \/ \E todo \in Todos : SetNoExport(todo)
             \/ \E d \in Directories \cup {None} : SetDirectory(d)
             \/ Crash \/ Startup \/ Tick \/ SetClock \/ UNCHANGED vars
      PROVE  UNCHANGED <<entry, audit, runs>>
  BY <1>6 DEF SetNoExport, SetDirectory, Crash, Startup, Tick, SetClock, vars, rows
<1> QED BY <1>2, <1>3, <1>4, <1>5, <1>6 DEF Next

(* The trail, the status, the count and the runs tell one story.           *)
LEMMA TrailsAccount == Spec => []TrailInv
<1>1. Init => TrailInv
  <2> SUFFICES ASSUME Init, NEW e \in Entries
               PROVE  Accounts(<<>>, None, RunsOf(e))
    BY DEF TrailInv, Init
  <2>1. RunsOf(e) = {}
    BY DEF Init, RunsOf
  <2> QED BY <2>1 DEF Accounts
<1>2. TypeOK /\ TrailInv /\ [Next]_vars => TrailInv'
  BY TrailInvStep
<1> QED BY <1>1, <1>2, TypeCorrect, PTL DEF Spec

(* R-10, A-6.6: the audit trail of every booking explains its status, and  *)
(* its count is the number of runs that bill it.                           *)
THEOREM TheTrailExplainsTheStatus == Spec => []AuditExplainsStatus
<1>1. TypeOK /\ TrailInv => AuditExplainsStatus
  BY DEF TrailInv, Accounts, AuditExplainsStatus, EventsOf, Named
<1> QED BY <1>1, TypeCorrect, TrailsAccount, PTL

(* R-10: no booking is billed twice without a reset in between.            *)
THEOREM NoSecondBillWithoutReset == Spec => []BilledOncePerReset
<1>1. TypeOK /\ TrailInv => BilledOncePerReset
  <2> SUFFICES ASSUME TypeOK, TrailInv, NEW e \in Entries
               PROVE  Cardinality(RunsOf(e)) <= 1 + Cardinality(EventsOf(e, "reset"))
    BY DEF BilledOncePerReset
  <2>1. Accounts(audit[e], entry[e], RunsOf(e)) /\ audit[e] \in Seq(Events)
    BY DEF TrailInv, TypeOK
  <2>2. EventsOf(e, "reset") = Named(audit[e], "reset")
    BY DEF EventsOf, Named
  <2>3. Cardinality(Named(audit[e], "reset")) \in Nat
    <3>1. IsFiniteSet(1..Len(audit[e])) /\ DOMAIN audit[e] = 1..Len(audit[e])
      BY <2>1, FS_Interval
    <3>2. IsFiniteSet(Named(audit[e], "reset"))
      BY <3>1, FS_Subset DEF Named
    <3> QED BY <3>2, FS_CardinalityType
  <2>4. CASE entry[e] = None
    <3>1. Cardinality(RunsOf(e)) = 0
      BY <2>1, <2>4, FS_EmptySet DEF Accounts
    <3> QED BY <2>2, <2>3, <3>1
  <2>5. CASE entry[e] # None
    <3>1. entry[e].count \in Nat
      BY <2>5 DEF TypeOK, Rows
    <3>2. /\ entry[e].count = Cardinality(RunsOf(e))
          /\ entry[e].count = Cardinality(Named(audit[e], "exported"))
          /\ Cardinality(Named(audit[e], "exported"))
               <= Cardinality(Named(audit[e], "reset"))
                    + (IF entry[e].status = "exported" THEN 1 ELSE 0)
      BY <2>1, <2>5 DEF Accounts
    <3> QED BY <2>2, <2>3, <3>1, <3>2
  <2> QED BY <2>4, <2>5
<1> QED BY <1>1, TypeCorrect, TrailsAccount, PTL

-----------------------------------------------------------------------------
(* The last run of an exported booking says of it what the row says.       *)
AsBilled(e) ==
  \E i \in RunsOf(e) :
     /\ \A j \in RunsOf(e) : j <= i
     /\ runs[i].billed[e] = [todo |-> entry[e].todo, note |-> entry[e].note]

ByRun(e) ==
  /\ entry[e] # None
  /\ entry[e].status = "exported"
  /\ audit[e][Len(audit[e])].event = "exported"

BilledInv == \A e \in Entries : ByRun(e) => AsBilled(e)

(* An exported booking is locked; a run bills what it has planned, and     *)
(* that is what the rows say; not to bill, or a reset, is no run.          *)
LEMMA BilledInvStep ==
  ASSUME TypeOK, PlanInv, BilledInv, [Next]_vars
  PROVE  BilledInv'
<1> SUFFICES ASSUME NEW e \in Entries, ByRun(e)'
             PROVE  AsBilled(e)'
  BY DEF BilledInv
<1>0. /\ entry \in [Entries -> Rows \cup {None}]
      /\ audit \in [Entries -> Seq(Events)]
  BY DEF TypeOK
<1>1. ASSUME UNCHANGED runs, entry'[e] = entry[e], audit'[e] = audit[e]
      PROVE  AsBilled(e)'
  <2>1. ByRun(e) /\ RunsOf(e)' = RunsOf(e)
    BY <1>1 DEF ByRun, RunsOf
  <2> QED BY <1>1, <2>1 DEF BilledInv, AsBilled
<1>2. ASSUME NEW r \in Requests, RecordRun(r)
      PROVE  AsBilled(e)'
  <2> DEFINE next == Len(runs) + 1
  <2>1. CASE e \in DOMAIN request[r].plan
    <3>1. RunsOf(e)' = RunsOf(e) \cup {next}
      BY <1>2, <2>1, RunsOfRecorded
    <3>2. /\ next \in Nat /\ \A j \in RunsOf(e) : j \in Nat /\ j < next
      BY <1>2, RunsOfRecorded, RunRecorded
    <3>3. runs'[next].billed = request[r].plan
      BY <1>2, RunRecorded
    <3>4. request[r].plan[e] = [todo |-> entry[e].todo, note |-> entry[e].note]
      BY <1>2, <2>1 DEF RecordRun, InTransaction, PlanInv
    <3>5. entry'[e].todo = entry[e].todo /\ entry'[e].note = entry[e].note
      BY <1>2, <2>1, BookingRecorded DEF Marked, Rows
    <3>6. /\ next \in RunsOf(e)' /\ \A j \in RunsOf(e)' : j <= next
      BY <3>1, <3>2
    <3> HIDE DEF next
    <3> QED BY <3>3, <3>4, <3>5, <3>6 DEF AsBilled
  <2>2. CASE e \notin DOMAIN request[r].plan
    <3>1. entry'[e] = entry[e] /\ audit'[e] = audit[e]
      BY <1>2, <2>2, BookingRecorded
    <3>2. RunsOf(e)' = RunsOf(e)
      BY <1>2, <2>2, RunsOfRecorded
    <3>3. ByRun(e)
      BY <3>1 DEF ByRun
    <3>4. \A i \in RunsOf(e) : runs'[i] = runs[i]
      BY <1>2, RunRecorded DEF RunsOf
    <3> QED BY <3>1, <3>2, <3>3, <3>4 DEF BilledInv, AsBilled
  <2> QED BY <2>1, <2>2
<1>3. ASSUME NEW d \in Entries, Booking(d)
      PROVE  AsBilled(e)'
  <2>1. UNCHANGED runs
    BY <1>3 DEF Booking, CreateBooking, UpdateBooking, RemoveBooking, ResetStatus,
                MarkNotBilled
  <2>2. CASE e # d
    <3>1. entry'[e] = entry[e] /\ audit'[e] = audit[e]
      BY <1>0, <1>3, <2>2 DEF Booking, CreateBooking, UpdateBooking, RemoveBooking,
                              ResetStatus, MarkNotBilled
    <3> QED BY <1>1, <2>1, <3>1
  <2>3. CASE e = d
    <3>1. ~\E todo \in Todos, note \in Notes : CreateBooking(e, todo, note)
      BY <1>0 DEF CreateBooking, ByRun
    <3>2. ~\E todo \in Todos, note \in Notes : UpdateBooking(e, todo, note)
      BY <1>0 DEF UpdateBooking, ByRun, Rows
    <3>3. ~RemoveBooking(e)
      BY <1>0 DEF RemoveBooking, ByRun
    <3>4. ~ResetStatus(e)
      BY <1>0 DEF ResetStatus, ByRun, Rows
    <3>5. ~MarkNotBilled(e)
      <4> SUFFICES ASSUME MarkNotBilled(e) PROVE FALSE
        OBVIOUS
      <4> DEFINE line == [event |-> "not_billed", at |-> clock]
      <4>1. audit'[e] = Append(audit[e], line) /\ audit[e] \in Seq(Events)
        BY <1>0 DEF MarkNotBilled, Logged
      <4>2. line.event # "exported"
        OBVIOUS
      <4> HIDE DEF line
      <4>3. audit'[e][Len(audit'[e])] = line
        BY <4>1
      <4> QED BY <4>2, <4>3 DEF ByRun
    <3> QED BY <1>3, <2>3, <3>1, <3>2, <3>3, <3>4, <3>5 DEF Booking
  <2> QED BY <2>2, <2>3
<1>4. ASSUME NEW r \in Requests, Export(r), ~RecordRun(r)
      PROVE  AsBilled(e)'
  BY <1>1, <1>4 DEF Export, AskExport, CheckDirectory, WriteTemporary, PlaceFile,
                    RollBack, RemoveFile, rows
<1>5. ASSUME \/ \E todo \in Todos : SetNoExport(todo)
             \/ \E d \in Directories \cup {None} : SetDirectory(d)
             \/ Crash \/ Startup \/ Tick \/ SetClock \/ UNCHANGED vars
      PROVE  AsBilled(e)'
  BY <1>1, <1>5 DEF SetNoExport, SetDirectory, Crash, Startup, Tick, SetClock,
                    vars, rows
<1> QED BY <1>2, <1>3, <1>4, <1>5 DEF Next

(* A-6.9: as long as a run accounts for the status of a booking, the row   *)
(* says what the file of that run says of it.                              *)
THEOREM ExportedRowsMatchTheirBill == Spec => []ExportedAsBilled
<1>1. Init => BilledInv
  BY DEF Init, BilledInv, ByRun
<1>2. TypeOK /\ PlanInv /\ BilledInv /\ [Next]_vars => BilledInv'
  BY BilledInvStep
<1>3. TypeOK /\ BilledInv => ExportedAsBilled
  <2> SUFFICES ASSUME TypeOK, NEW e \in Entries, AsBilled(e)
               PROVE  Billing({e})[e] = runs[LastRunOf(e)].billed[e]
    BY DEF BilledInv, ByRun, ExportedAsBilled
  <2>1. PICK i \in RunsOf(e) :
          /\ \A j \in RunsOf(e) : j <= i
          /\ runs[i].billed[e] = [todo |-> entry[e].todo, note |-> entry[e].note]
    BY DEF AsBilled
  <2>2. RunsOf(e) \subseteq Nat
    BY RunsOfRecorded
  <2>3. LastRunOf(e) = i
    <3>1. /\ LastRunOf(e) \in RunsOf(e)
          /\ \A j \in RunsOf(e) : j <= LastRunOf(e)
      BY <2>1 DEF LastRunOf
    <3>2. LastRunOf(e) <= i /\ i <= LastRunOf(e)
      BY <2>1, <3>1
    <3> QED BY <2>2, <3>1, <3>2
  <2>4. Billing({e})[e] = [todo |-> entry[e].todo, note |-> entry[e].note]
    BY DEF Billing
  <2> QED BY <2>1, <2>3, <2>4
<1> QED BY <1>1, <1>2, <1>3, TypeCorrect, PlansStayTrue, PTL DEF Spec
=============================================================================
