----------------------------- MODULE Attachments -----------------------------
(***************************************************************************)
(* The files behind attachments: image copies and files taken over from    *)
(* e-mails lie in two folders of the service, the rows that name them in   *)
(* the database, and no transaction spans both.                            *)
(*                                                                         *)
(* A call of a client is a sequence of steps; between two of them other    *)
(* calls take theirs, and the service may die.  A transaction is one step, *)
(* taken when the queue is free (SerialTransactions), but for the mail     *)
(* assignment, which writes files while its transaction is open.           *)
(***************************************************************************)
EXTENDS Naturals, FiniteSets

CONSTANTS
    Images,      \* generated names of image copies
    EmailFiles,  \* generated names of files out of e-mails
    Todos,       \* identities of todos
    Calls,       \* bound of the model: calls in progress at a time
    Linkable,    \* files a user may also attach by their path; {} for none
    Archiving,   \* whether the user takes and imports archives
    Overlapping, \* whether paths and imports meet other calls under way
    None         \* no value

ASSUME NamesAssumption == Images \cap EmailFiles = {} /\ Linkable \subseteq Images \cup EmailFiles

ASSUME FiniteAssumption == IsFiniteSet(Images) /\ IsFiniteSet(EmailFiles)

ASSUME OtherAssumption == {Archiving, Overlapping} \subseteq BOOLEAN /\ None \notin Todos

Names == Images \cup EmailFiles

(* Rows of todo_attachment: a copy, a file of origin e-mail, or a file the *)
(* user named by its path.                                                 *)
Rows == [todo : Todos, name : Names, kind : {"image", "email", "path"}]

Stages == {"idle", "copied", "assigning", "unclaimed", "asking", "removing",
           "restoring"}

VARIABLES
    todos,    \* the todos there are
    rows,     \* the attachments of them
    files,    \* the names that lie in the two folders
    archive,  \* the last archive the user took, or None
    call,     \* per call: its stage, its todo, the files it is about
    service,  \* "up", "down", or the folder the start is sweeping
    victims,  \* the files the sweep still has to remove
    excused,  \* history: files that may lie there without a row
    lost      \* history: files that could not be brought back from an archive

vars == <<todos, rows, files, archive, call, service, victims, excused, lost>>
-----------------------------------------------------------------------------
NoCall == [at |-> "idle", todo |-> None, names |-> {}]

Named == {r.name : r \in rows}

(* releasableBlobOf: the rows whose file the service itself has written.   *)
Own(R) == {r \in R : r.kind # "path"}

OwnNames(R) == {r.name : r \in Own(R)}

KindOf(name) == IF name \in Images THEN "image" ELSE "email"

(* What the environment of a call allows for: Overlapping is TRUE of the   *)
(* service, FALSE of an instance that keeps paths and imports apart from   *)
(* other calls (the README says why).                                      *)
Undisturbed(stages) == Overlapping \/ \A c \in Calls : call[c].at \in stages

(* inTransaction lets a call in when no other one is inside.               *)
Free ==
    /\ service = "up" /\ \A c \in Calls : call[c].at # "assigning"
    /\ Undisturbed(Stages \ {"restoring"})

(* randomUUID: a name nothing mentions.                                    *)
Fresh == Names \ ( files \cup Named \cup UNION {call[c].names : c \in Calls}
                   \cup (IF archive = None THEN {} ELSE {r.name : r \in archive.rows}) )

(* The call goes on with what it has left to do, or is over.               *)
GoesOn(c, at, todo, names) ==
    call' = [call EXCEPT ![c] = IF names = {} THEN NoCall
                                ELSE [at |-> at, todo |-> todo, names |-> names]]

Over(c) == call' = [call EXCEPT ![c] = NoCall]
-----------------------------------------------------------------------------
(* POST /todos, under an identity nobody has had.                          *)
CreateTodo(c, t) ==
    /\ Free /\ call[c] = NoCall
    /\ t \notin todos \cup {call[d].todo : d \in Calls}
    /\ archive # None => t \notin archive.todos
    /\ todos' = todos \cup {t}
    /\ UNCHANGED <<rows, files, archive, call, service, victims, excused, lost>>

(* A new file under its name: nothing is known of it yet.                  *)
Write(S) ==
    /\ files' = files \cup S
    /\ excused' = excused \ S
    /\ lost' = lost \ S

(* A file is removed; one that is held open stays (`failed`).              *)
Remove(n) ==
    \/ files' = files \ {n} /\ excused' = excused \ {n}
    \/ n \in files /\ files' = files /\ excused' = excused \cup {n}

(* addAttachment writes the copy before it asks for the row, and before it *)
(* asks whether there is the todo ...                                      *)
CopyImage(c, t, n) ==
    /\ service = "up" /\ call[c] = NoCall
    /\ n \in Images
    /\ Write({n})
    /\ GoesOn(c, "copied", t, {n})
    /\ UNCHANGED <<todos, rows, archive, service, victims>>

(* ... and so does the intake of an e-mail, for all of its files, when the *)
(* todo the add-in wanted has been created.                                *)
TakeFiles(c, t, S) ==
    /\ service = "up" /\ call[c] = NoCall
    /\ t \in todos
    /\ S \subseteq EmailFiles
    /\ Write(S)
    /\ GoesOn(c, "copied", t, S)
    /\ UNCHANGED <<todos, rows, archive, service, victims>>

RowsFor(todo, S) == {[todo |-> todo, name |-> n, kind |-> KindOf(n)] : n \in S}

(* The row of a copy.  It may be refused, for one when the todo has gone   *)
(* in the meantime, and the copy is removed again; but not when the        *)
(* transaction throws, which nobody catches here.                          *)
InsertImage(c) ==
    /\ Free /\ call[c].at = "copied" /\ call[c].names \subseteq Images
    /\ \/ /\ call[c].todo \in todos
          /\ rows' = rows \cup RowsFor(call[c].todo, call[c].names)
          /\ Over(c)
          /\ excused' = excused
       \/ /\ GoesOn(c, "unclaimed", None, call[c].names)
          /\ UNCHANGED <<rows, excused>>
       \/ /\ Over(c)
          /\ excused' = excused \cup call[c].names
          /\ rows' = rows
    /\ UNCHANGED <<todos, files, archive, service, victims, lost>>

FaultyInsertFiles(c) ==
    /\ Free /\ call[c].at = "copied" /\ call[c].names \subseteq EmailFiles
    /\ \E A \in SUBSET call[c].names :
         /\ A # {} => call[c].todo \in todos
         /\ rows' = rows \cup RowsFor(call[c].todo, A)
    /\ Over(c)
    /\ UNCHANGED <<todos, files, archive, service, victims, excused, lost>>

(* The rows of an e-mail, each accepted or refused for itself; all are     *)
(* without a row when the transaction throws.  Files without are removed.  *)
InsertFiles(c) ==
    /\ Free /\ call[c].at = "copied" /\ call[c].names \subseteq EmailFiles
    /\ \E A \in SUBSET call[c].names :
         /\ A # {} => call[c].todo \in todos
         /\ rows' = rows \cup RowsFor(call[c].todo, A)
         /\ GoesOn(c, "unclaimed", None, call[c].names \ A)
    /\ UNCHANGED <<todos, files, archive, service, victims, excused, lost>>

(* The mail assignment stores its files inside of its transaction, for a   *)
(* todo it has found or creates ...                                        *)
StoreInside(c, t, S) ==
    /\ Free /\ call[c] = NoCall
    /\ S \subseteq EmailFiles
    /\ Write(S)
    /\ GoesOn(c, "assigning", t, S)
    /\ UNCHANGED <<todos, rows, archive, service, victims>>

(* ... and commits them with their rows, but for those that are refused,   *)
(* or rolls back and removes them all.                                     *)
EndAssignment(c) ==
    /\ call[c].at = "assigning"
    /\ \/ /\ todos' = todos \cup {call[c].todo}
          /\ \E A \in SUBSET call[c].names :
               /\ rows' = rows \cup RowsFor(call[c].todo, A)
               /\ GoesOn(c, "unclaimed", None, call[c].names \ A)
       \/ /\ GoesOn(c, "unclaimed", None, call[c].names)
          /\ UNCHANGED <<todos, rows>>
    /\ UNCHANGED <<files, archive, service, victims, excused, lost>>

(* A file attachment: a path the user names, whatever lies there.          *)
AddPath(c, t, n) ==
    /\ Free /\ call[c] = NoCall
    /\ Undisturbed({"idle"})
    /\ t \in todos
    /\ n \in files \cap Linkable
    /\ rows' = rows \cup {[todo |-> t, name |-> n, kind |-> "path"]}
    /\ UNCHANGED <<todos, files, archive, call, service, victims, excused, lost>>
-----------------------------------------------------------------------------
(* DELETE of an attachment; its file goes by releaseUnclaimedBlobs.        *)
RemoveRow(c, r) ==
    /\ Free /\ call[c] = NoCall
    /\ r \in rows
    /\ rows' = rows \ {r}
    /\ GoesOn(c, "asking", None, OwnNames({r}))
    /\ UNCHANGED <<todos, files, archive, service, victims, excused, lost>>

(* DELETE of a todo takes its attachments along (ON DELETE CASCADE).       *)
RemoveTodo(c, t) ==
    /\ Free /\ call[c] = NoCall
    /\ t \in todos
    /\ todos' = todos \ {t}
    /\ rows' = {r \in rows : r.todo # t}
    /\ GoesOn(c, "asking", None, OwnNames(rows \ rows'))
    /\ UNCHANGED <<files, archive, service, victims, excused, lost>>

FaultyOwners(S) == S \cap OwnNames(rows)

(* attachmentsNamingFiles: any row counts, of whatever kind and todo.      *)
Owners(S) == S \cap Named

(* The question of releaseUnclaimedBlobs, in a transaction of its own      *)
(* after the COMMIT; unanswered, it lets everything lie.                   *)
AskOwners(c) ==
    /\ Free /\ call[c].at = "asking"
    /\ LET owned == Owners(call[c].names)
       IN  \/ /\ GoesOn(c, "removing", None, call[c].names \ owned)
              /\ excused' = excused \cup ((files \cap owned) \ OwnNames(rows))
           \/ /\ Over(c)
              /\ excused' = excused \cup (files \cap call[c].names)
    /\ UNCHANGED <<todos, rows, files, archive, service, victims, lost>>

(* One file after the other, asked about or fresh.                         *)
RemoveFile(c) ==
    /\ service = "up" /\ call[c].at \in {"removing", "unclaimed"}
    /\ \E n \in call[c].names :
         /\ Remove(n)
         /\ GoesOn(c, call[c].at, None, call[c].names \ {n})
    /\ UNCHANGED <<todos, rows, archive, service, victims, lost>>
-----------------------------------------------------------------------------
(* GET /data/export: rows and bytes, read in one transaction.              *)
TakeArchive(c) ==
    /\ Archiving
    /\ Free /\ call[c] = NoCall
    /\ archive' = [todos |-> todos, rows |-> rows, bytes |-> files \cap OwnNames(rows)]
    /\ UNCHANGED <<todos, rows, files, call, service, victims, excused, lost>>

(* POST /data/import replaces the rows in a transaction ...                *)
ImportArchive(c) ==
    /\ Free /\ call[c] = NoCall
    /\ Undisturbed({"idle"})
    /\ archive # None
    /\ todos' = archive.todos
    /\ rows' = archive.rows
    /\ lost' = lost \cup (OwnNames(archive.rows) \ (archive.bytes \cup files))
    /\ excused' = files \ OwnNames(archive.rows)
    /\ GoesOn(c, "restoring", None, archive.bytes)
    /\ UNCHANGED <<files, archive, service, victims>>

FaultyRestore(n) ==
    \/ files' = files \cup {n} /\ lost' = lost \ {n}
    \/ files' = files \ {n} /\ lost' = lost

(* The bytes go beside the old file and then over it; a failure leaves the *)
(* old one, if there is one.                                               *)
Restore(n) ==
    \/ files' = files \cup {n} /\ lost' = lost \ {n}
    \/ files' = files /\ lost' = lost \cup ({n} \ files)

(* ... and writes the bytes afterwards, file by file.                      *)
RestoreFile(c) ==
    /\ service = "up" /\ call[c].at = "restoring"
    /\ \E n \in call[c].names :
         /\ Restore(n)
         /\ GoesOn(c, "restoring", None, call[c].names \ {n})
    /\ UNCHANGED <<todos, rows, archive, service, victims, excused>>
-----------------------------------------------------------------------------
InFlight(stages) == UNION {call[c].names : c \in {c \in Calls : call[c].at \in stages}}

(* The process dies.  What a call still had to do nobody does.             *)
Crash ==
    /\ service # "down"
    /\ service' = "down"
    /\ call' = [c \in Calls |-> NoCall]
    /\ victims' = {}
    /\ excused' = excused \cup (files \cap InFlight(Stages \ {"restoring"}))
    /\ lost' = lost \cup (InFlight({"restoring"}) \ files)
    /\ UNCHANGED <<todos, rows, files, archive>>

(* sweepOrphanedBlobs: the files of a folder that no row names; none when  *)
(* a row expects a file there that is missing, or when there are more rows *)
(* of the folder's kind than files they name.                              *)
Orphans(folder) ==
    LET owned   == files \cap folder \cap Named
        claimed == {r \in Own(rows) : r.name \in folder}
    IN  IF Named \cap folder \subseteq files /\ Cardinality(claimed) <= Cardinality(owned)
        THEN (files \cap folder) \ owned
        ELSE {}

(* The start sweeps one folder after the other before it listens; without  *)
(* an answer of the store a folder is left alone.                          *)
Sweep ==
    /\ \/ service = "down" /\ service' = "images" /\ victims' \in {Orphans(Images), {}}
       \/ /\ service = "images" /\ victims = {}
          /\ service' = "emails" /\ victims' \in {Orphans(EmailFiles), {}}
       \/ service = "emails" /\ victims = {} /\ service' = "up" /\ victims' = {}
    /\ UNCHANGED <<todos, rows, files, archive, call, excused, lost>>

SweepFile ==
    /\ \E n \in victims :
         /\ victims' = victims \ {n}
         /\ Remove(n)
    /\ UNCHANGED <<todos, rows, archive, call, service, lost>>
-----------------------------------------------------------------------------
Init ==
    /\ todos = {}
    /\ rows = {}
    /\ files = {}
    /\ archive = None
    /\ call = [c \in Calls |-> NoCall]
    /\ service = "down"
    /\ victims = {}
    /\ excused = {}
    /\ lost = {}

Request(c) ==
    \/ \E t \in Todos : CreateTodo(c, t) \/ RemoveTodo(c, t)
    \/ \E t \in Todos, n \in Fresh : CopyImage(c, t, n)
    \/ \E t \in Todos, S \in SUBSET Fresh : S # {} /\ (TakeFiles(c, t, S) \/ StoreInside(c, t, S))
    \/ \E t \in Todos, n \in Names : AddPath(c, t, n)
    \/ \E r \in rows : RemoveRow(c, r)
    \/ TakeArchive(c)
    \/ ImportArchive(c)

Continuation(c) ==
    \/ InsertImage(c) \/ InsertFiles(c) \/ EndAssignment(c)
    \/ AskOwners(c) \/ RemoveFile(c)
    \/ RestoreFile(c)

Next ==
    \/ \E c \in Calls : Request(c) \/ Continuation(c)
    \/ Crash
    \/ Sweep
    \/ SweepFile

Spec == Init /\ [][Next]_vars
-----------------------------------------------------------------------------
(* The schema (a row belongs to a todo there is), the calls under way, and *)
(* a sweep that removes what it has found.                                 *)
TypeOK ==
    /\ todos \subseteq Todos
    /\ rows \subseteq {r \in Rows : r.kind \in {KindOf(r.name), "path"}}
    /\ \A r \in rows : r.todo \in todos
    /\ files \subseteq Names
    /\ archive \in [todos : SUBSET Todos, rows : SUBSET Rows, bytes : SUBSET Names] \cup {None}
    /\ call \in [Calls -> [at : Stages, todo : Todos \cup {None}, names : SUBSET Names]]
    /\ \A c \in Calls : call[c] = NoCall <=> call[c].names = {}
    /\ service \in {"up", "down", "images", "emails"}
    /\ victims \subseteq files
    /\ excused \subseteq files
    /\ lost \subseteq Names

(* A-A-18, A-A-98, attachments.ts: no step removes a file that a row       *)
(* names, whether a release after the removal of another row, the clearing *)
(* up after a failure, or the sweep at a start after whatever crash.       *)
NoOwnedFileRemoved ==
    [][ \A n \in files \ files' : n \notin Named ]_vars

(* A-19.15: a copy or a file out of an e-mail is there when its row is,    *)
(* unless the import that brought the row has yet to restore it or could   *)
(* not.                                                                    *)
EveryRowHasItsFile ==
    OwnNames(rows) \subseteq files \cup lost \cup InFlight({"restoring"})

Quiet == service = "up" /\ \A c \in Calls : call[c] = NoCall

Orphaned == files \ Named

(* A-A-18, A-A-83: when nothing is under way, a file without a row is one  *)
(* whose call a crash interrupted, that could not be removed, that the     *)
(* user had attached by its path as well, whose rows an archive has        *)
(* replaced, or a copy whose transaction has thrown.                       *)
NoOrphanWithoutReason ==
    Quiet => Orphaned \subseteq excused
=============================================================================
