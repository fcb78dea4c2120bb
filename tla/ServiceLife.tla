------------------------------ MODULE ServiceLife ------------------------------
(***************************************************************************)
(* The window of SuperTakt (the shell: lib.rs, sidecar.rs) and the service *)
(* it starts (main.ts, session-secret.ts, migration-runner.ts): how a      *)
(* service comes up over the pipe to its shell, brings the database to the *)
(* version it knows, serves, and ends with its shell.  A shell can be      *)
(* killed at any time and opened again at once; the service of the killed  *)
(* one is then still there, beside the new one, on the same database.      *)
(***************************************************************************)
EXTENDS Naturals, Sequences, FiniteSets

CONSTANTS
    Procs,     \* bound of the model: services that are alive at a time
    Releases,  \* the versions of the schema that some release brings
    Starts,    \* bound of the model: how often the shell is opened
    Deaths,    \* bound of the model: services that fail or are signalled
    None       \* no service

ASSUME LifeAssumption ==
    /\ Releases \subseteq Nat \ {0}
    /\ \E newest \in Releases : \A r \in Releases : r <= newest
    /\ Starts \in Nat /\ Deaths \in Nat
    /\ None \notin Procs /\ {"preparing", "done"} \cap Procs = {}

VARIABLES
    shell,    \* the shell, of which there is one at a time
    release,  \* the release that is installed
    procs,    \* the services
    applied,  \* the rows of schema_migration
    changes,  \* what the migrations have done to the data, in order
    copies,   \* the copies of the database made before it was migrated
    spent     \* how much of the bounds has been used, and whether a shell was killed

vars == <<shell, release, procs, applied, changes, copies, spent>>

Highest(S) == CHOOSE v \in S \cup {0} : \A w \in S : w <= v

Versions == 1..Highest(Releases)

(* worker is the thread that starts the service: preparing, done, or the   *)
(* service it has spawned and not yet stored, while it holds the lock of   *)
(* child.  told says that the window has a reason to show.                 *)
Shells ==
    [at : {"off", "open"}, worker : {"preparing", "done"} \cup Procs, stopping : BOOLEAN,
     child : Procs \cup {None}, told : BOOLEAN]

Off == [at |-> "off", worker |-> "done", stopping |-> FALSE, child |-> None, told |-> FALSE]

(* lines: the two lines of the handshake are in the pipe; shut: the shell  *)
(* has closed its end; reads: the stream of the pipe flows.  nr is the     *)
(* number of its copy of the database.                                     *)
Stages ==
    {"none", "waiting", "reading", "copying", "vacuum", "applying", "committing",
     "preparing", "listening", "watching", "closing"}

Services ==
    [at : Stages, known : Releases \cup {0}, from : Versions \cup {0}, next : Nat, nr : Nat,
     lines : BOOLEAN, shut : BOOLEAN, reads : BOOLEAN]

Nobody ==
    [at |-> "none", known |-> 0, from |-> 0, next |-> 0, nr |-> 0,
     lines |-> FALSE, shut |-> FALSE, reads |-> TRUE]

Alive == {p \in Procs : procs[p].at # "none"}

Copies == [of : Versions, nr : Nat, holds : Seq(Versions), whole : BOOLEAN]

Spend(what, bound) == spent[what] < bound /\ spent' = [spent EXCEPT ![what] = @ + 1]
-----------------------------------------------------------------------------
(* The shell.  The plugin for a single instance lets one be open.          *)
OpenShell ==
    /\ shell.at = "off"
    /\ Spend("starts", Starts)
    /\ shell' = [Off EXCEPT !.at = "open", !.worker = "preparing"]
    /\ UNCHANGED <<release, procs, applied, changes, copies>>

Refuse ==
    /\ shell.worker = "preparing" /\ shell.stopping
    /\ shell' = [shell EXCEPT !.worker = "done"]
    /\ UNCHANGED <<release, procs, applied, changes, copies, spent>>

(* From here to HandOver the worker holds the lock.                        *)
Spawn(p) ==
    /\ shell.worker = "preparing" /\ ~shell.stopping
    /\ procs[p].at = "none"
    /\ procs' = [procs EXCEPT ![p] = [Nobody EXCEPT !.at = "waiting", !.known = release]]
    /\ shell' = [shell EXCEPT !.worker = p]
    /\ UNCHANGED <<release, applied, changes, copies, spent>>

SpawnFails ==
    /\ shell.worker = "preparing"
    /\ shell' = [shell EXCEPT !.worker = "done", !.told = TRUE]
    /\ UNCHANGED <<release, procs, applied, changes, copies, spent>>

HandOver ==
    /\ shell.worker \in Procs
    /\ \/ /\ procs[shell.worker].at # "none"
          /\ procs' = [procs EXCEPT ![shell.worker].lines = TRUE]
          /\ shell' = [shell EXCEPT !.worker = "done", !.child = shell.worker]
       \/ /\ procs[shell.worker].at = "none"
          /\ shell' = [shell EXCEPT !.worker = "done", !.told = TRUE]
          /\ procs' = procs
    /\ UNCHANGED <<release, applied, changes, copies, spent>>

FaultyNoteExit ==
    /\ shell.child # None /\ procs[shell.child].at = "none"
    /\ shell' = [shell EXCEPT !.child = None]
    /\ UNCHANGED <<release, procs, applied, changes, copies, spent>>

NoteExit ==
    /\ shell.child # None /\ procs[shell.child].at = "none"
    /\ shell' = [shell EXCEPT !.child = None, !.told = TRUE]
    /\ UNCHANGED <<release, procs, applied, changes, copies, spent>>

FaultyLockFree == TRUE

LockFree == shell.worker \notin Procs

Killed == [p \in Procs |-> IF p = shell.child THEN Nobody ELSE procs[p]]

(* The window is closed, or the user ends SuperTakt.                       *)
Stop ==
    /\ shell.at = "open" /\ LockFree
    /\ procs' = Killed
    /\ shell' = [shell EXCEPT !.stopping = TRUE, !.child = None]
    /\ UNCHANGED <<release, applied, changes, copies, spent>>

(* The end of a process closes its pipes.                                  *)
Shut(ps) ==
    [p \in Procs |-> IF ps[p].at = "none" THEN Nobody ELSE [ps[p] EXCEPT !.shut = TRUE]]

(* RunEvent::Exit stops once more.                                         *)
EndShell ==
    /\ shell.at = "open" /\ LockFree
    /\ procs' = Shut(Killed)
    /\ shell' = Off
    /\ UNCHANGED <<release, applied, changes, copies, spent>>

KillShell ==
    /\ shell.at = "open"
    /\ procs' = Shut(procs)
    /\ shell' = Off
    /\ spent' = [spent EXCEPT !.kills = TRUE]
    /\ UNCHANGED <<release, applied, changes, copies>>

(* The file of a service that runs cannot be replaced.                     *)
Install ==
    /\ shell.at = "off" /\ Alive = {}
    /\ release' \in Releases \ {release}
    /\ UNCHANGED <<shell, procs, applied, changes, copies, spent>>
-----------------------------------------------------------------------------
(* The service.                                                            *)
To(p, stage) == procs' = [procs EXCEPT ![p].at = stage]

Exit(p) == procs' = [procs EXCEPT ![p] = Nobody]

Handshake(p) ==
    /\ procs[p].at = "waiting" /\ procs[p].lines
    /\ procs' = [procs EXCEPT ![p].at = "reading", ![p].reads = FALSE]
    /\ UNCHANGED <<shell, release, applied, changes, copies, spent>>

(* Nothing came in time, or the pipe has ended.                            *)
NoHandshake(p) ==
    /\ procs[p].at = "waiting" /\ ~procs[p].lines
    /\ Exit(p)
    /\ UNCHANGED <<shell, release, applied, changes, copies, spent>>

(* Only files of versions above the newest applied one are pending.        *)
FaultyReadState(p) ==
    LET now == Highest(applied) IN
    /\ procs[p].at = "reading"
    /\ \/ now >= procs[p].known /\ To(p, "preparing")
       \/ /\ now < procs[p].known
          /\ procs' = [procs EXCEPT
               ![p] = [@ EXCEPT !.at = IF now = 0 THEN "applying" ELSE "copying",
                                !.from = now, !.next = now + 1]]
    /\ UNCHANGED <<shell, release, applied, changes, copies, spent>>

(* migrateToLatest reads the state for itself.  The read before it only    *)
(* says in the log what is pending.                                        *)
ReadState(p) ==
    LET now == Highest(applied) IN
    /\ procs[p].at = "reading"
    /\ \/ now > procs[p].known /\ Exit(p)
       \/ now = procs[p].known /\ To(p, "preparing")
       \/ /\ now < procs[p].known
          /\ procs' = [procs EXCEPT
               ![p] = [@ EXCEPT !.at = IF now = 0 THEN "applying" ELSE "copying",
                                !.from = now, !.next = now + 1]]
    /\ UNCHANGED <<shell, release, applied, changes, copies, spent>>

CopiesOf(v) == {c \in copies : c.of = v}

(* A file of that name is taken for the copy.                              *)
FaultyBeginBackup(p) ==
    /\ procs[p].at = "copying"
    /\ \/ /\ CopiesOf(procs[p].from) = {}
          /\ procs' = [procs EXCEPT ![p].at = "vacuum", ![p].nr = 1]
          /\ copies' = copies \cup
               {[of |-> procs[p].from, nr |-> 1, holds |-> changes, whole |-> FALSE]}
       \/ CopiesOf(procs[p].from) # {} /\ To(p, "applying") /\ copies' = copies
    /\ UNCHANGED <<shell, release, applied, changes, spent>>

(* createBackup: VACUUM INTO a name that is not taken, with what the       *)
(* database holds now, which another service may have brought further.     *)
BeginBackup(p) ==
    LET nr == Cardinality(CopiesOf(procs[p].from)) + 1 IN
    /\ procs[p].at = "copying"
    /\ procs' = [procs EXCEPT ![p].at = "vacuum", ![p].nr = nr]
    /\ copies' = copies \cup
         {[of |-> procs[p].from, nr |-> nr, holds |-> changes, whole |-> FALSE]}
    /\ UNCHANGED <<shell, release, applied, changes, spent>>

EndBackup(p) ==
    /\ procs[p].at = "vacuum"
    /\ To(p, "applying")
    /\ copies' = {IF c.of = procs[p].from /\ c.nr = procs[p].nr THEN [c EXCEPT !.whole = TRUE] ELSE c
                  : c \in copies}
    /\ UNCHANGED <<shell, release, applied, changes, spent>>

Locked == \E q \in Procs : procs[q].at = "committing"

(* applyOne: BEGIN IMMEDIATE waits for the writer there is, or gives up.   *)
BeginMigration(p) ==
    /\ procs[p].at = "applying"
    /\ \/ ~Locked /\ To(p, "committing")
       \/ Locked /\ Exit(p)
    /\ UNCHANGED <<shell, release, applied, changes, copies, spent>>

(* The row is written when the changes are committed.                      *)
FaultyEndMigration(p) ==
    /\ procs[p].at = "committing"
    /\ changes' = Append(changes, procs[p].next)
    /\ \/ applied' = applied /\ Exit(p)
       \/ /\ applied' = applied \cup {procs[p].next}
          /\ procs' = [procs EXCEPT ![p] = [@ EXCEPT !.next = procs[p].next + 1,
               !.at = IF procs[p].next = procs[p].known THEN "preparing" ELSE "applying"]]
    /\ UNCHANGED <<shell, release, copies, spent>>

(* The changes and their row are committed together, or, where the row is  *)
(* there already, neither.                                                 *)
EndMigration(p) ==
    /\ procs[p].at = "committing"
    /\ \/ /\ procs[p].next \notin applied
          /\ changes' = Append(changes, procs[p].next)
          /\ applied' = applied \cup {procs[p].next}
          /\ procs' = [procs EXCEPT ![p] = [@ EXCEPT !.next = procs[p].next + 1,
               !.at = IF procs[p].next = procs[p].known THEN "preparing" ELSE "applying"]]
       \/ /\ procs[p].next \in applied
          /\ Exit(p)
          /\ UNCHANGED <<applied, changes>>
    /\ UNCHANGED <<shell, release, copies, spent>>

Serves(p) == procs[p].at \in {"listening", "watching"}

(* Recovery and sweeps are done; the port is taken, or another has it.     *)
Listen(p) ==
    /\ procs[p].at = "preparing"
    /\ \/ (\A q \in Procs : ~Serves(q)) /\ To(p, "listening")
       \/ (\E q \in Procs : Serves(q)) /\ Exit(p)
    /\ UNCHANGED <<shell, release, applied, changes, copies, spent>>

(* A stream that has been paused does not end for those who only listen.   *)
FaultyWatch(p) ==
    /\ procs[p].at = "listening"
    /\ To(p, "watching")
    /\ UNCHANGED <<shell, release, applied, changes, copies, spent>>

(* watchParentLink                                                         *)
Watch(p) ==
    /\ procs[p].at = "listening"
    /\ procs' = [procs EXCEPT ![p].at = "watching", ![p].reads = TRUE]
    /\ UNCHANGED <<shell, release, applied, changes, copies, spent>>

Lost(p) ==
    /\ procs[p].at = "watching" /\ procs[p].shut /\ procs[p].reads
    /\ To(p, "closing")
    /\ UNCHANGED <<shell, release, applied, changes, copies, spent>>

Signal(p) ==
    /\ procs[p].at = "watching"
    /\ Spend("deaths", Deaths)
    /\ To(p, "closing")
    /\ UNCHANGED <<shell, release, applied, changes, copies>>

Close(p) ==
    /\ procs[p].at = "closing"
    /\ Exit(p)
    /\ UNCHANGED <<shell, release, applied, changes, copies, spent>>

(* A step of the start fails, or the process is ended from outside.        *)
Die(p) ==
    /\ procs[p].at # "none"
    /\ Spend("deaths", Deaths)
    /\ Exit(p)
    /\ UNCHANGED <<shell, release, applied, changes, copies>>
-----------------------------------------------------------------------------
Init ==
    /\ shell = Off
    /\ release \in Releases
    /\ procs = [p \in Procs |-> Nobody]
    /\ applied = {} /\ changes = <<>> /\ copies = {}
    /\ spent = [starts |-> 0, deaths |-> 0, kills |-> FALSE]

Worker == Refuse \/ SpawnFails \/ HandOver \/ \E p \in Procs : Spawn(p)

Work(p) ==
    \/ Handshake(p) \/ NoHandshake(p) \/ ReadState(p) \/ BeginBackup(p) \/ EndBackup(p)
    \/ BeginMigration(p) \/ EndMigration(p) \/ Listen(p) \/ Watch(p) \/ Lost(p) \/ Close(p)

Outside == OpenShell \/ Stop \/ EndShell \/ KillShell \/ Install \/ \E p \in Procs : Signal(p) \/ Die(p)

Next == Outside \/ Worker \/ NoteExit \/ \E p \in Procs : Work(p)

Spec == Init /\ [][Next]_vars

(* Programs that run go on; nobody has to open, close or kill anything.    *)
Fairness == WF_vars(Worker) /\ WF_vars(NoteExit) /\ \A p \in Procs : WF_vars(Work(p))

FairSpec == Spec /\ Fairness
-----------------------------------------------------------------------------
TypeOK ==
    /\ shell \in Shells /\ release \in Releases
    /\ procs \in [Procs -> Services]
    /\ applied \subseteq Versions
    /\ changes \in Seq(Versions)
    /\ copies \subseteq Copies
    /\ \A p, q \in Procs : procs[p].at = "committing" /\ procs[q].at = "committing" => p = q

(* migration-runner.ts:275: whichever services die or meet, each migration *)
(* changes the data once, in its order, and the rows say which have.       *)
MigrationsApplyOnce ==
    /\ applied = 1..Len(changes)
    /\ \A i \in 1..Len(changes) : changes[i] = i

(* migration-runner.ts:385, "Die Sicherungskopie ist der eigentliche       *)
(* Rückweg": a start that has changed data has a whole copy of what it     *)
(* found.                                                                  *)
BackupBeforeChange ==
    \A p \in Procs :
        procs[p].from # 0 /\ procs[p].next > procs[p].from + 1 =>
            \E c \in copies : c.whole /\ Len(c.holds) = procs[p].from

(* main.ts:266, "Ein Dienst auf einem Schema, das er nicht kennt, schreibt *)
(* in eine Abrechnung": a service that answers requests knows the schema.  *)
KnowsItsSchema ==
    \A p \in Procs : Serves(p) => Highest(applied) = procs[p].known

(* lib.rs:109, orphan-sweep.ts:72: as long as no shell is killed, there is *)
(* one service on the database, however fast SuperTakt is closed and       *)
(* opened.                                                                 *)
OneServiceAtATime == ~spent.kills => Cardinality(Alive) <= 1

(* session-secret.ts:244 and main.ts:650: a service whose shell is gone    *)
(* ends, whatever it was doing when the pipe was closed.                   *)
ServiceEndsWithItsShell ==
    \A p \in Procs : procs[p].shut ~> procs[p].at = "none"

(* lib.rs:189, sidecar.rs:265: an open window comes to have a service, or  *)
(* a reason to show why it has none.                                       *)
StartIsDecided ==
    shell.at = "open" ~>
        \/ shell.at = "off" \/ shell.stopping \/ shell.told
        \/ shell.child # None /\ procs[shell.child].at = "watching"
===============================================================================
