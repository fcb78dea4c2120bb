--------------------------- MODULE AttachmentsProofs ---------------------------
(***************************************************************************)
(* What becomes of the files behind attachments, for any number of names,  *)
(* todos and calls, with crashes between any two steps.                    *)
(*                                                                         *)
(* The argument: the names a call has written and not yet recorded are its *)
(* own, no row and no other call knows them; a call that removes files     *)
(* asked about them when its row was gone, and nobody records them again;  *)
(* a file that no row of the service's own names is in the hands of a call *)
(* or excused.                                                             *)
(***************************************************************************)
EXTENDS Attachments, TLAPS

(* The environments of the theorems.  Imports are kept apart from other    *)
(* calls, or there are none and every call meets every other ...           *)
Settled == ~Overlapping \/ ~Archiving

(* ... and so are the files a user attaches by their path.                 *)
Apart == ~Overlapping \/ (Linkable = {} /\ ~Archiving)

(* The names no call may touch: a path that is added meanwhile protects a  *)
(* file only if paths are kept apart.                                      *)
Guarded == IF Apart THEN Named ELSE OwnNames(rows)

NamesIn(R) == {r.name : r \in R}

(* Rows that keep the schema: the kind is that of the name or a path, and  *)
(* the todo is there.                                                      *)
Proper(R, T) == \A r \in R : r \in Rows /\ r.kind \in {KindOf(r.name), "path"} /\ r.todo \in T

ArchiveInv ==
    archive # None =>
      /\ Archiving
      /\ Proper(archive.rows, archive.todos)
      /\ archive.bytes \subseteq OwnNames(archive.rows)

(* No call is under way at a start, and the sweep is after files without a *)
(* row only.                                                               *)
StartInv ==
    /\ service # "up" => \A c \in Calls : call[c] = NoCall
    /\ service \in {"up", "down"} => victims = {}
    /\ victims \cap Named = {}

(* What a call has written lies there and is nobody else's.                *)
WritesInv ==
    \A c \in Calls : call[c].at \in {"copied", "assigning"} =>
      /\ call[c].todo \in Todos
      /\ call[c].names \subseteq files
      /\ \A d \in Calls \ {c} : call[c].names \cap call[d].names = {}

(* What a call may remove or has yet to record no row names, but for paths *)
(* added meanwhile.                                                        *)
UnnamedInv ==
    \A c \in Calls : call[c].at \in {"copied", "assigning", "unclaimed", "removing"} =>
      call[c].names \cap Guarded = {}

(* An import restores the files of its rows, and no row changes meanwhile. *)
RestoreInv ==
    \A c \in Calls : call[c].at = "restoring" =>
      /\ Archiving
      /\ call[c].names \subseteq OwnNames(rows)
      /\ \A d \in Calls : call[d].at # "assigning"

Awaited(n) == \E c \in Calls : call[c].at = "restoring" /\ n \in call[c].names

Busy(n) == \E c \in Calls : call[c].at # "restoring" /\ n \in call[c].names

OwnInv == \A n \in OwnNames(rows) : n \in files \/ n \in lost \/ Awaited(n)

OrphanInv == \A n \in files : n \in OwnNames(rows) \/ n \in excused \/ Busy(n)

IInv ==
    /\ TypeOK
    /\ ArchiveInv /\ StartInv
    /\ WritesInv /\ UnnamedInv /\ RestoreInv
    /\ OwnInv /\ OrphanInv
-----------------------------------------------------------------------------
(* The names of rows that are added, and of rows that are removed.         *)
LEMMA NamesAdded ==
    ASSUME NEW R, NEW t, NEW A
    PROVE  /\ NamesIn(R \cup RowsFor(t, A)) = NamesIn(R) \cup A
           /\ OwnNames(R \cup RowsFor(t, A)) = OwnNames(R) \cup A
<1> DEFINE row(n) == [todo |-> t, name |-> n, kind |-> KindOf(n)]
<1>1. \A n : row(n).name = n /\ row(n).kind # "path"
  BY DEF KindOf
<1>2. RowsFor(t, A) = {row(n) : n \in A}
  BY DEF RowsFor
<1> HIDE DEF row
<1>3. NamesIn(R \cup RowsFor(t, A)) = NamesIn(R) \cup A
  BY <1>1, <1>2 DEF NamesIn
<1>4. OwnNames(R \cup RowsFor(t, A)) = OwnNames(R) \cup A
  BY <1>1, <1>2 DEF OwnNames, Own
<1>. QED BY <1>3, <1>4

LEMMA PathAdded ==
    ASSUME NEW R, NEW t, NEW n
    PROVE  /\ NamesIn(R \cup {[todo |-> t, name |-> n, kind |-> "path"]}) = NamesIn(R) \cup {n}
           /\ OwnNames(R \cup {[todo |-> t, name |-> n, kind |-> "path"]}) = OwnNames(R)
<1> DEFINE row == [todo |-> t, name |-> n, kind |-> "path"]
<1>1. row.name = n /\ row.kind = "path"
  OBVIOUS
<1> HIDE DEF row
<1>2. NamesIn(R \cup {row}) = NamesIn(R) \cup {n}
  BY <1>1 DEF NamesIn
<1>3. OwnNames(R \cup {row}) = OwnNames(R)
  BY <1>1 DEF OwnNames, Own
<1>. QED BY <1>2, <1>3 DEF row

LEMMA NamesRemoved ==
    ASSUME NEW R, NEW Q \in SUBSET R
    PROVE  /\ NamesIn(Q) \subseteq NamesIn(R)
           /\ OwnNames(R) = OwnNames(Q) \cup OwnNames(R \ Q)
BY DEF NamesIn, OwnNames, Own

LEMMA OwnIsNamed == ASSUME NEW R PROVE OwnNames(R) \subseteq NamesIn(R)
BY DEF OwnNames, Own, NamesIn

LEMMA NamedIsNamesIn == Named = NamesIn(rows) /\ Named' = NamesIn(rows')
BY DEF Named, NamesIn

LEMMA ApartIsSettled == Apart => Settled
BY DEF Apart, Settled

LEMMA GuardedIs ==
    /\ OwnNames(rows) \subseteq Guarded /\ Guarded \subseteq Named
    /\ Guarded' = IF Apart THEN Named' ELSE OwnNames(rows')
BY OwnIsNamed, NamedIsNamesIn DEF Guarded

LEMMA RowsForProper ==
    ASSUME NEW t \in Todos, NEW A \in SUBSET Names, NEW T, t \in T
    PROVE  Proper(RowsFor(t, A), T)
<1> SUFFICES ASSUME NEW n \in A
             PROVE  LET r == [todo |-> t, name |-> n, kind |-> KindOf(n)]
                    IN  r \in Rows /\ r.kind \in {KindOf(r.name), "path"} /\ r.todo \in T
  BY DEF Proper, RowsFor
<1>1. KindOf(n) \in {"image", "email"}
  BY DEF KindOf
<1>. QED BY <1>1 DEF Rows
-----------------------------------------------------------------------------
CallRecords == [at : Stages, todo : Todos \cup {None}, names : SUBSET Names]

CallsTyped ==
    call \in [Calls -> CallRecords] /\ \A c \in Calls : call[c] = NoCall <=> call[c].names = {}

(* Every other call stays as it is; this one goes on, or is over.          *)
Becomes(c, at, todo, names) ==
    /\ \A d \in Calls \ {c} : call'[d] = call[d]
    /\ call'[c].names = names
    /\ names = {} => call'[c] = NoCall /\ call'[c].at = "idle"
    /\ names # {} => call'[c] # NoCall /\ call'[c].at = at /\ call'[c].todo = todo

LEMMA CallGoesOn ==
    ASSUME TypeOK, NEW c \in Calls, NEW at \in Stages, NEW todo \in Todos \cup {None},
           NEW names \in SUBSET Names, GoesOn(c, at, todo, names)
    PROVE  CallsTyped' /\ Becomes(c, at, todo, names)
<1> DEFINE q == IF names = {} THEN NoCall ELSE [at |-> at, todo |-> todo, names |-> names]
<1>1. call \in [Calls -> CallRecords]
  BY DEF TypeOK, CallRecords
<1>2. call' = [call EXCEPT ![c] = q]
  BY DEF GoesOn
<1>3. NoCall \in CallRecords /\ NoCall.names = {} /\ NoCall.at = "idle"
  BY DEF NoCall, CallRecords, Stages
<1>4. q \in CallRecords /\ q.names = names
  BY <1>3 DEF CallRecords
<1>5. /\ names = {} => q = NoCall
      /\ names # {} => q.at = at /\ q.todo = todo
  OBVIOUS
<1>6. names # {} => q # NoCall
  BY <1>3, <1>4
<1> HIDE DEF q
<1>7. /\ call' \in [Calls -> CallRecords] /\ call'[c] = q
      /\ \A d \in Calls \ {c} : call'[d] = call[d]
  BY <1>1, <1>2, <1>4
<1>8. \A d \in Calls : call'[d] = NoCall <=> call'[d].names = {}
  <2> SUFFICES ASSUME NEW d \in Calls
               PROVE  call'[d] = NoCall <=> call'[d].names = {}
    OBVIOUS
  <2>1. CASE d = c
    BY <2>1, <1>3, <1>4, <1>5, <1>7
  <2>2. CASE d # c
    BY <2>2, <1>7 DEF TypeOK
  <2>. QED BY <2>1, <2>2
<1>. QED BY <1>3, <1>4, <1>5, <1>6, <1>7, <1>8 DEF CallsTyped, Becomes

LEMMA CallOver ==
    ASSUME TypeOK, NEW c \in Calls, Over(c)
    PROVE  CallsTyped' /\ Becomes(c, "asking", None, {})
<1>1. GoesOn(c, "asking", None, {})
  BY DEF Over, GoesOn
<1>. QED BY <1>1, CallGoesOn DEF Stages

(* A transaction meets no import under way.                                *)
LEMMA FreeOfImports ==
    ASSUME Settled, RestoreInv, Free, NEW c \in Calls
    PROVE  call[c].at # "restoring"
BY DEF Settled, RestoreInv, Free, Undisturbed, Stages

LEMMA NothingElse ==
    ASSUME Undisturbed({"idle"}), NEW c \in Calls,
           (Settled /\ Archiving) \/ (Apart /\ Linkable # {})
    PROVE  call[c].at = "idle"
BY DEF Settled, Apart, Undisturbed

(* The type invariant of the tables and files, and that of the calls.      *)
Typed ==
    /\ todos \subseteq Todos /\ Proper(rows, todos)
    /\ files \subseteq Names
    /\ archive \in [todos : SUBSET Todos, rows : SUBSET Rows, bytes : SUBSET Names] \cup {None}
    /\ CallsTyped
    /\ service \in {"up", "down", "images", "emails"}
    /\ victims \subseteq files /\ excused \subseteq files /\ lost \subseteq Names

LEMMA TypeParts == (TypeOK <=> Typed) /\ (TypeOK' <=> Typed')
BY DEF TypeOK, Typed, Proper, CallsTyped, CallRecords
-----------------------------------------------------------------------------
LEMMA StepWrite ==
    ASSUME IInv, Settled, NEW c \in Calls, NEW t \in Todos, NEW S \in SUBSET Fresh, S # {},
           NEW at \in {"copied", "assigning"}, at = "assigning" => Free,
           service = "up", call[c] = NoCall, Write(S), GoesOn(c, at, t, S),
           UNCHANGED <<todos, rows, archive, service, victims>>
    PROVE  IInv'
<1> USE DEF IInv
<1>1. /\ S \subseteq Names /\ S \cap files = {} /\ S \cap Named = {}
      /\ \A d \in Calls : S \cap call[d].names = {}
  BY DEF Fresh
<1>2. /\ files' = files \cup S /\ excused' = excused \ S /\ lost' = lost \ S
      /\ Named' = Named /\ Guarded' = Guarded /\ S \cap Guarded = {}
  BY <1>1, NamedIsNamesIn, GuardedIs DEF Write, Guarded
<1>3. CallsTyped' /\ Becomes(c, at, t, S)
  BY <1>1, CallGoesOn DEF Stages
<1>4. /\ \A d \in Calls \ {c} : call'[d] = call[d]
      /\ call'[c].names = S /\ call'[c].at = at /\ call'[c].todo = t
      /\ at # "restoring" /\ call[c].at = "idle" /\ call[c].names = {}
  BY <1>3 DEF Becomes, NoCall
<1>5. TypeOK'
  <2>1. Proper(rows', todos')
    BY TypeParts DEF Typed
  <2>. QED BY <1>1, <1>2, <1>3, <2>1, TypeParts DEF Typed
<1>6. ArchiveInv' /\ StartInv'
  BY <1>2 DEF ArchiveInv, StartInv
<1>7. WritesInv'
  <2> SUFFICES ASSUME NEW d \in Calls, call'[d].at \in {"copied", "assigning"}
               PROVE  /\ call'[d].todo \in Todos
                      /\ call'[d].names \subseteq files'
                      /\ \A e \in Calls \ {d} : call'[d].names \cap call'[e].names = {}
    BY DEF WritesInv
  <2>1. CASE d = c
    BY <2>1, <1>1, <1>2, <1>4
  <2>2. CASE d # c
    BY <2>2, <1>1, <1>2, <1>4 DEF WritesInv
  <2>. QED BY <2>1, <2>2
<1>8. UnnamedInv'
  BY <1>1, <1>2, <1>4 DEF UnnamedInv
<1>9. RestoreInv'
  BY <1>4, FreeOfImports DEF RestoreInv
<1>10. OwnInv'
  <2> SUFFICES ASSUME NEW n \in OwnNames(rows)
               PROVE  n \in files' \/ n \in lost' \/ Awaited(n)'
    BY DEF OwnInv
  <2>1. Awaited(n) => Awaited(n)'
    BY <1>4 DEF Awaited
  <2>. QED BY <2>1, <1>2 DEF OwnInv
<1>11. OrphanInv'
  <2> SUFFICES ASSUME NEW n \in files'
               PROVE  n \in OwnNames(rows) \/ n \in excused' \/ Busy(n)'
    BY DEF OrphanInv
  <2>1. CASE n \in S
    BY <2>1, <1>4 DEF Busy
  <2>2. CASE n \notin S
    BY <2>2, <1>2, <1>4 DEF OrphanInv, Busy
  <2>. QED BY <2>1, <2>2
<1>. QED BY <1>5, <1>6, <1>7, <1>8, <1>9, <1>10, <1>11

(* Some of the files a call has written get their rows, the others are     *)
(* left to it to remove, or are excused.                                   *)
LEMMA StepRecord ==
    ASSUME IInv, Settled, NEW c \in Calls, call[c].at \in {"copied", "assigning"},
           call[c].at = "assigning" \/ Free,
           NEW A \in SUBSET call[c].names, NEW rest \in SUBSET call[c].names,
           call[c].names \subseteq A \cup rest \cup excused', A \cap rest = {},
           Becomes(c, "unclaimed", None, rest), CallsTyped',
           rows' = rows \cup RowsFor(call[c].todo, A),
           todos \subseteq todos', todos' \subseteq Todos, A # {} => call[c].todo \in todos',
           excused \subseteq excused', excused' \subseteq files,
           UNCHANGED <<files, archive, service, victims, lost>>
    PROVE  IInv'
<1> USE DEF IInv
<1>1. /\ call[c].names \subseteq files /\ call[c].names \cap Guarded = {} /\ call[c].todo \in Todos
      /\ \A d \in Calls \ {c} : call[c].names \cap call[d].names = {}
  BY DEF WritesInv, UnnamedInv
<1>2. /\ Named' = Named \cup A /\ OwnNames(rows') = OwnNames(rows) \cup A
      /\ Guarded' = Guarded \cup A
  BY NamedIsNamesIn, NamesAdded DEF Guarded
<1>3. /\ \A d \in Calls \ {c} : call'[d] = call[d]
      /\ call'[c].names = rest /\ call'[c].at \in {"idle", "unclaimed"}
      /\ rest # {} => call'[c].at = "unclaimed"
  BY DEF Becomes
<1>4. \A d \in Calls : call[d].at # "restoring"
  BY FreeOfImports DEF RestoreInv
<1>5. service = "up" /\ victims = {}
  <2>1. call[c] # NoCall
    BY DEF NoCall
  <2>. QED BY <2>1 DEF StartInv
<1>6. TypeOK'
  <2>1. Proper(rows, todos) /\ files \subseteq Names
    BY TypeParts DEF Typed
  <2>2. Proper(RowsFor(call[c].todo, A), todos')
    <3>1. CASE A = {}
      BY <3>1 DEF Proper, RowsFor
    <3>2. CASE A # {}
      BY <3>2, <1>1, <2>1, RowsForProper
    <3>. QED BY <3>1, <3>2
  <2>3. Proper(rows', todos')
    BY <2>1, <2>2 DEF Proper
  <2>. QED BY <2>3, TypeParts DEF Typed
<1>7. ArchiveInv' /\ StartInv'
  BY <1>5 DEF ArchiveInv, StartInv
<1>8. WritesInv'
  BY <1>1, <1>3 DEF WritesInv
<1>9. UnnamedInv'
  <2> SUFFICES ASSUME NEW d \in Calls,
                      call'[d].at \in {"copied", "assigning", "unclaimed", "removing"}
               PROVE  call'[d].names \cap Guarded' = {}
    BY DEF UnnamedInv
  <2>1. CASE d = c
    BY <2>1, <1>1, <1>2, <1>3
  <2>2. CASE d # c
    BY <2>2, <1>1, <1>2, <1>3 DEF UnnamedInv
  <2>. QED BY <2>1, <2>2
<1>10. RestoreInv'
  BY <1>3, <1>4 DEF RestoreInv
<1>11. OwnInv'
  BY <1>1, <1>2, <1>4 DEF OwnInv, Awaited
<1>12. OrphanInv'
  <2> SUFFICES ASSUME NEW n \in files
               PROVE  n \in OwnNames(rows') \/ n \in excused' \/ Busy(n)'
    BY DEF OrphanInv
  <2>1. CASE n \in rest
    BY <2>1, <1>3 DEF Busy
  <2>2. CASE n \notin call[c].names
    <3>1. Busy(n) => Busy(n)'
      BY <2>2, <1>3 DEF Busy
    <3>. QED BY <3>1, <1>2 DEF OrphanInv
  <2>3. CASE n \in call[c].names /\ n \notin rest
    BY <2>3, <1>2
  <2>. QED BY <2>1, <2>2, <2>3
<1>. QED BY <1>6, <1>7, <1>8, <1>9, <1>10, <1>11, <1>12

(* Rows go, and a call asks about the files that were theirs.              *)
LEMMA StepRelease ==
    ASSUME IInv, Settled, NEW c \in Calls, Free, call[c] = NoCall,
           NEW Q \in SUBSET rows, rows' = Q,
           todos' \subseteq todos, Proper(Q, todos'),
           GoesOn(c, "asking", None, OwnNames(rows \ Q)),
           UNCHANGED <<files, archive, service, victims, excused, lost>>
    PROVE  IInv'
<1> USE DEF IInv
<1> DEFINE gone == OwnNames(rows \ Q)
<1>1. /\ Named' \subseteq Named /\ Guarded' \subseteq Guarded /\ gone \subseteq Guarded
      /\ OwnNames(rows) = OwnNames(rows') \cup gone
  <2>1. Named' \subseteq Named /\ OwnNames(rows) = OwnNames(rows') \cup gone
    BY NamesRemoved, NamedIsNamesIn
  <2>. QED BY <2>1, GuardedIs DEF Guarded
<1>2. gone \subseteq Names
  BY TypeParts DEF Typed, Proper, Rows, OwnNames, Own
<1>3. CallsTyped' /\ Becomes(c, "asking", None, gone)
  BY <1>2, CallGoesOn DEF Stages
<1> HIDE DEF gone
<1>4. /\ \A d \in Calls \ {c} : call'[d] = call[d]
      /\ call'[c].names = gone /\ call'[c].at \in {"idle", "asking"}
      /\ gone # {} => call'[c].at = "asking"
      /\ call[c].at = "idle" /\ call[c].names = {}
  BY <1>3 DEF Becomes, NoCall
<1>5. \A d \in Calls : call[d].at # "restoring"
  BY FreeOfImports
<1>6. service = "up" /\ victims = {}
  BY DEF Free, StartInv
<1>7. TypeOK'
  BY <1>3, TypeParts DEF Typed
<1>8. ArchiveInv' /\ StartInv'
  BY <1>6 DEF ArchiveInv, StartInv
<1>9. WritesInv'
  <2> SUFFICES ASSUME NEW d \in Calls, call'[d].at \in {"copied", "assigning"}
               PROVE  /\ call'[d].todo \in Todos
                      /\ call'[d].names \subseteq files'
                      /\ \A e \in Calls \ {d} : call'[d].names \cap call'[e].names = {}
    BY DEF WritesInv
  <2>1. d # c /\ call'[d] = call[d]
    BY <1>4
  <2>2. call[d].names \cap gone = {}
    BY <2>1, <1>1 DEF UnnamedInv
  <2>. QED BY <2>1, <2>2, <1>4 DEF WritesInv
<1>10. UnnamedInv'
  BY <1>1, <1>4 DEF UnnamedInv
<1>11. RestoreInv'
  BY <1>4, <1>5 DEF RestoreInv
<1>12. OwnInv'
  BY <1>1, <1>5 DEF OwnInv, Awaited
<1>13. OrphanInv'
  <2> SUFFICES ASSUME NEW n \in files
               PROVE  n \in OwnNames(rows') \/ n \in excused \/ Busy(n)'
    BY DEF OrphanInv
  <2>1. Busy(n) => Busy(n)'
    BY <1>4 DEF Busy
  <2>2. n \in gone => Busy(n)'
    BY <1>4 DEF Busy
  <2>. QED BY <2>1, <2>2, <1>1 DEF OrphanInv
<1>. QED BY <1>7, <1>8, <1>9, <1>10, <1>11, <1>12, <1>13

(* A call drops what it holds, or asks about it: the rows stay, and what   *)
(* it lets go of is excused or there for a row.                            *)
LEMMA StepDrop ==
    ASSUME IInv, NEW c \in Calls,
           call[c].at \in {"asking", "removing", "unclaimed"},
           NEW at \in {"asking", "removing", "unclaimed"},
           at \in {"removing", "unclaimed"} => call'[c].names \cap Guarded = {},
           NEW rest \in SUBSET call[c].names,
           Becomes(c, at, None, rest), CallsTyped',
           NEW F \in SUBSET (call[c].names \ Guarded), files' = files \ F,
           excused' \subseteq files', excused \ F \subseteq excused',
           (call[c].names \cap files') \subseteq rest \cup OwnNames(rows) \cup excused',
           UNCHANGED <<todos, rows, archive, service, victims, lost>>
    PROVE  IInv'
<1> USE DEF IInv
<1>1. /\ \A d \in Calls \ {c} : call'[d] = call[d]
      /\ call'[c].names = rest /\ call'[c].at \in {"idle", at}
      /\ rest # {} => call'[c].at = at
  BY DEF Becomes
<1>2. Named' = Named /\ Guarded' = Guarded /\ OwnNames(rows) \subseteq Guarded
  BY NamedIsNamesIn, GuardedIs DEF Guarded
<1>3. service = "up" /\ victims = {}
  <2>1. call[c] # NoCall
    BY DEF NoCall
  <2>. QED BY <2>1 DEF StartInv
<1>4. TypeOK'
  BY <1>3, TypeParts DEF Typed
<1>5. ArchiveInv' /\ StartInv'
  BY <1>2, <1>3 DEF ArchiveInv, StartInv
<1>6. WritesInv'
  <2> SUFFICES ASSUME NEW d \in Calls, call'[d].at \in {"copied", "assigning"}
               PROVE  /\ call'[d].todo \in Todos
                      /\ call'[d].names \subseteq files'
                      /\ \A e \in Calls \ {d} : call'[d].names \cap call'[e].names = {}
    BY DEF WritesInv
  <2>1. d # c /\ call'[d] = call[d]
    BY <1>1
  <2>2. call[d].names \cap call[c].names = {}
    BY <2>1 DEF WritesInv
  <2>. QED BY <2>1, <2>2, <1>1 DEF WritesInv
<1>7. UnnamedInv'
  BY <1>1, <1>2 DEF UnnamedInv
<1>8. RestoreInv'
  BY <1>1 DEF RestoreInv
<1>9. OwnInv'
  <2> SUFFICES ASSUME NEW n \in OwnNames(rows)
               PROVE  n \in files' \/ n \in lost \/ Awaited(n)'
    BY DEF OwnInv
  <2>1. Awaited(n) => Awaited(n)'
    BY <1>1 DEF Awaited
  <2>. QED BY <2>1, <1>2 DEF OwnInv
<1>10. OrphanInv'
  <2> SUFFICES ASSUME NEW n \in files'
               PROVE  n \in OwnNames(rows) \/ n \in excused' \/ Busy(n)'
    BY DEF OrphanInv
  <2>1. n \in rest => Busy(n)'
    BY <1>1 DEF Busy
  <2>2. Busy(n) /\ n \notin call[c].names => Busy(n)'
    BY <1>1 DEF Busy
  <2>. QED BY <2>1, <2>2 DEF OrphanInv
<1>. QED BY <1>4, <1>5, <1>6, <1>7, <1>8, <1>9, <1>10

LEMMA StepImport ==
    ASSUME IInv, Settled, NEW c \in Calls, ImportArchive(c), archive # None
    PROVE  IInv'
<1> USE DEF IInv
<1>1. /\ todos' = archive.todos /\ rows' = archive.rows
      /\ lost' = lost \cup (OwnNames(archive.rows) \ (archive.bytes \cup files))
      /\ excused' = files \ OwnNames(archive.rows)
      /\ UNCHANGED <<files, archive, service, victims>>
  BY DEF ImportArchive
<1>2. /\ Archiving /\ Proper(archive.rows, archive.todos)
      /\ archive.bytes \subseteq OwnNames(archive.rows)
  BY DEF ArchiveInv
<1>3. archive.todos \subseteq Todos /\ archive.rows \subseteq Rows /\ archive.bytes \subseteq Names
  BY DEF TypeOK
<1>4. OwnNames(archive.rows) \subseteq Names
  BY <1>3 DEF OwnNames, Own, Rows
<1>5. CallsTyped' /\ Becomes(c, "restoring", None, archive.bytes)
  BY <1>3, CallGoesOn DEF ImportArchive, Stages
<1>6. \A d \in Calls : call[d].at = "idle"
  BY <1>2, NothingElse DEF ImportArchive
<1>7. /\ \A d \in Calls \ {c} : call'[d].at = "idle"
      /\ call'[c].names = archive.bytes /\ call'[c].at \in {"idle", "restoring"}
      /\ archive.bytes # {} => call'[c].at = "restoring"
  BY <1>5, <1>6 DEF Becomes
<1>8. service = "up" /\ victims = {}
  BY DEF ImportArchive, Free, StartInv
<1>9. TypeOK'
  BY <1>1, <1>2, <1>3, <1>4, <1>5, TypeParts DEF Typed
<1>10. ArchiveInv' /\ StartInv'
  BY <1>1, <1>8 DEF ArchiveInv, StartInv
<1>11. WritesInv' /\ UnnamedInv'
  BY <1>7 DEF WritesInv, UnnamedInv
<1>12. RestoreInv'
  BY <1>1, <1>2, <1>7 DEF RestoreInv
<1>13. OwnInv'
  BY <1>1, <1>7 DEF OwnInv, Awaited
<1>14. OrphanInv'
  BY <1>1 DEF OrphanInv
<1>. QED BY <1>9, <1>10, <1>11, <1>12, <1>13, <1>14

LEMMA StepRestore ==
    ASSUME IInv, NEW c \in Calls, RestoreFile(c)
    PROVE  IInv'
<1> USE DEF IInv
<1>1. PICK n \in call[c].names : Restore(n) /\ GoesOn(c, "restoring", None, call[c].names \ {n})
  BY DEF RestoreFile
<1>2. /\ call[c].at = "restoring" /\ service = "up"
      /\ UNCHANGED <<todos, rows, archive, service, victims, excused>>
  BY DEF RestoreFile
<1>3. call[c].names \subseteq Names
  BY DEF TypeOK
<1>4. CallsTyped' /\ Becomes(c, "restoring", None, call[c].names \ {n})
  BY <1>1, <1>3, CallGoesOn DEF Stages
<1>5. /\ \A d \in Calls \ {c} : call'[d] = call[d]
      /\ call'[c].names = call[c].names \ {n} /\ call'[c].at \in {"idle", "restoring"}
      /\ call[c].names \ {n} # {} => call'[c].at = "restoring"
  BY <1>4 DEF Becomes
<1>6. /\ files \subseteq files' /\ files' \subseteq files \cup {n}
      /\ lost' \subseteq lost \cup {n} /\ lost \subseteq lost' \cup files'
      /\ n \in files' \cup lost'
  BY <1>1 DEF Restore
<1>7. n \in OwnNames(rows)
  BY <1>2 DEF RestoreInv
<1>8. Named' = Named /\ Guarded' = Guarded
  BY <1>2, NamedIsNamesIn, GuardedIs DEF Guarded
<1>9. TypeOK'
  BY <1>2, <1>3, <1>4, <1>6, TypeParts DEF Typed
<1>10. ArchiveInv' /\ StartInv'
  BY <1>2, <1>8 DEF ArchiveInv, StartInv
<1>11. WritesInv'
  BY <1>2, <1>5, <1>6 DEF WritesInv
<1>12. UnnamedInv' /\ RestoreInv'
  BY <1>2, <1>5, <1>8 DEF UnnamedInv, RestoreInv
<1>13. OwnInv'
  <2> SUFFICES ASSUME NEW m \in OwnNames(rows), m # n
               PROVE  m \in files' \/ m \in lost' \/ Awaited(m)'
    BY <1>2, <1>6 DEF OwnInv
  <2>1. Awaited(m) => Awaited(m)'
    BY <1>5 DEF Awaited
  <2>. QED BY <2>1, <1>6 DEF OwnInv
<1>14. OrphanInv'
  <2> SUFFICES ASSUME NEW m \in files', m # n
               PROVE  m \in OwnNames(rows) \/ m \in excused \/ Busy(m)'
    BY <1>2, <1>7 DEF OrphanInv
  <2>1. Busy(m) => Busy(m)'
    BY <1>2, <1>5 DEF Busy
  <2>. QED BY <2>1, <1>6 DEF OrphanInv
<1>. QED BY <1>9, <1>10, <1>11, <1>12, <1>13, <1>14

LEMMA StepAddPath ==
    ASSUME IInv, Settled, NEW c \in Calls, NEW t \in Todos, NEW n \in Names, AddPath(c, t, n)
    PROVE  IInv'
<1> USE DEF IInv
<1>1. /\ t \in todos /\ n \in files \cap Linkable
      /\ rows' = rows \cup {[todo |-> t, name |-> n, kind |-> "path"]}
      /\ UNCHANGED <<todos, files, archive, call, service, victims, excused, lost>>
  BY DEF AddPath
<1>2. Apart => \A d \in Calls : call[d].at = "idle"
  BY <1>1, NothingElse DEF AddPath
<1>3. OwnNames(rows') = OwnNames(rows) /\ (~Apart => Guarded' = Guarded)
  BY <1>1, PathAdded, GuardedIs DEF Guarded
<1>9. \A d \in Calls : call[d].at # "restoring"
  BY FreeOfImports DEF AddPath
<1>4. service = "up" /\ victims = {}
  BY DEF AddPath, Free, StartInv
<1>5. TypeOK'
  <2>1. [todo |-> t, name |-> n, kind |-> "path"] \in Rows
    BY DEF Rows
  <2>2. Proper(rows', todos')
    BY <1>1, <2>1, TypeParts DEF Typed, Proper
  <2>3. CallsTyped'
    BY <1>1, TypeParts DEF Typed, CallsTyped
  <2>. QED BY <1>1, <2>2, <2>3, TypeParts DEF Typed
<1>6. ArchiveInv' /\ StartInv'
  BY <1>1, <1>4 DEF ArchiveInv, StartInv
<1>7. WritesInv' /\ RestoreInv'
  BY <1>1, <1>9 DEF WritesInv, RestoreInv
<1>10. UnnamedInv'
  BY <1>1, <1>2, <1>3 DEF UnnamedInv
<1>8. OwnInv' /\ OrphanInv'
  BY <1>1, <1>3 DEF OwnInv, OrphanInv, Awaited, Busy
<1>. QED BY <1>5, <1>6, <1>7, <1>8, <1>10

(* Steps that leave the rows, the files and the calls as they are.         *)
LEMMA StepBeside ==
    ASSUME IInv, UNCHANGED <<rows, files, call, excused, lost>>,
           todos \subseteq todos', todos' \subseteq Todos,
           (archive'.bytes \subseteq files \cap OwnNames(rows) /\ archive'.rows = rows
              /\ archive'.todos = todos /\ Archiving
              /\ archive' \in [todos : SUBSET Todos, rows : SUBSET Rows, bytes : SUBSET Names])
             \/ archive' = archive,
           service' \in {"up", "down", "images", "emails"},
           service' # "up" => service # "up",
           service' \in {"up", "down"} => victims' = {},
           victims' \subseteq files, victims' \cap Named = {}
    PROVE  IInv'
<1> USE DEF IInv
<1>1. Named' = Named /\ Guarded' = Guarded
  BY NamedIsNamesIn, GuardedIs DEF Guarded
<1>2. Proper(rows, todos) /\ Proper(rows', todos')
  BY TypeParts DEF Typed, Proper
<1>3. TypeOK'
  <2>1. CallsTyped'
    BY TypeParts DEF Typed, CallsTyped
  <2>. QED BY <1>2, <2>1, TypeParts DEF Typed
<1>4. ArchiveInv'
  BY <1>2 DEF ArchiveInv
<1>5. StartInv'
  BY <1>1 DEF StartInv
<1>6. WritesInv' /\ UnnamedInv' /\ RestoreInv'
  BY <1>1 DEF WritesInv, UnnamedInv, RestoreInv
<1>7. OwnInv' /\ OrphanInv'
  BY DEF OwnInv, OrphanInv, Awaited, Busy
<1>. QED BY <1>3, <1>4, <1>5, <1>6, <1>7

LEMMA StepTake ==
    ASSUME IInv, NEW c \in Calls, TakeArchive(c)
    PROVE  IInv'
<1> USE DEF IInv
<1> DEFINE a == [todos |-> todos, rows |-> rows, bytes |-> files \cap OwnNames(rows)]
<1>1. /\ archive' = a /\ Archiving
      /\ UNCHANGED <<todos, rows, files, call, service, victims, excused, lost>>
  BY DEF TakeArchive
<1>2. /\ a.todos = todos /\ a.rows = rows /\ a.bytes = files \cap OwnNames(rows)
      /\ a \in [todos : SUBSET Todos, rows : SUBSET Rows, bytes : SUBSET Names]
  BY DEF TypeOK
<1> HIDE DEF a
<1>3. /\ service \in {"up", "down", "images", "emails"} /\ todos \subseteq Todos
      /\ victims \subseteq files /\ victims \cap Named = {}
      /\ service \in {"up", "down"} => victims = {}
  BY DEF TypeOK, StartInv
<1>. QED BY <1>1, <1>2, <1>3, StepBeside

LEMMA SweepsOrphans ==
    ASSUME NEW folder
    PROVE  Orphans(folder) \subseteq files \ Named
BY DEF Orphans

LEMMA StepSweep ==
    ASSUME IInv, Sweep
    PROVE  IInv'
<1>1. /\ service # "up" /\ service' \in {"up", "images", "emails"}
      /\ service' = "up" => victims' = {}
      /\ victims' \subseteq files \ Named
      /\ UNCHANGED <<todos, rows, files, archive, call, excused, lost>>
  BY SweepsOrphans DEF Sweep
<1>2. todos \subseteq Todos
  BY DEF IInv, TypeOK
<1>. QED BY <1>1, <1>2, StepBeside

LEMMA StepSweepFile ==
    ASSUME IInv, SweepFile
    PROVE  IInv'
<1> USE DEF IInv
<1>1. PICK n \in victims : victims' = victims \ {n} /\ Remove(n)
  BY DEF SweepFile
<1>2. UNCHANGED <<todos, rows, archive, call, service, lost>>
  BY DEF SweepFile
<1>3. service \notin {"up", "down"} /\ n \notin Named
  BY <1>1 DEF StartInv
<1>4. \A c \in Calls : call[c] = NoCall /\ call[c].at = "idle" /\ call[c].names = {}
  BY <1>3 DEF StartInv, NoCall
<1>5. Named' = Named /\ OwnNames(rows) \subseteq Named
  BY <1>2, NamedIsNamesIn, OwnIsNamed
<1>6. /\ files' \in {files, files \ {n}} /\ excused' \subseteq excused \cup {n}
      /\ excused' \subseteq files' /\ excused \subseteq excused' \cup {n}
      /\ n \in files' => n \in excused'
  BY <1>1 DEF Remove, TypeOK
<1>7. TypeOK'
  <2>1. CallsTyped' /\ Proper(rows', todos')
    BY <1>2, TypeParts DEF Typed, CallsTyped
  <2>. QED BY <1>1, <1>2, <1>6, <2>1, TypeParts DEF Typed
<1>8. ArchiveInv' /\ StartInv'
  BY <1>1, <1>2, <1>3, <1>5 DEF ArchiveInv, StartInv
<1>9. WritesInv' /\ UnnamedInv' /\ RestoreInv'
  BY <1>2, <1>4 DEF WritesInv, UnnamedInv, RestoreInv
<1>10. OwnInv' /\ OrphanInv'
  BY <1>2, <1>3, <1>4, <1>5, <1>6 DEF OwnInv, OrphanInv, Awaited, Busy
<1>. QED BY <1>7, <1>8, <1>9, <1>10

LEMMA StepCrash ==
    ASSUME IInv, Crash
    PROVE  IInv'
<1> USE DEF IInv
<1>1. /\ service' = "down" /\ call' = [c \in Calls |-> NoCall] /\ victims' = {}
      /\ excused' = excused \cup (files \cap InFlight(Stages \ {"restoring"}))
      /\ lost' = lost \cup (InFlight({"restoring"}) \ files)
      /\ UNCHANGED <<todos, rows, files, archive>>
  BY DEF Crash
<1>2. \A c \in Calls : call'[c] = NoCall /\ call'[c].at = "idle" /\ call'[c].names = {}
  BY <1>1 DEF NoCall
<1>3. \A n : Awaited(n) => n \in InFlight({"restoring"})
  BY DEF Awaited, InFlight
<1>4. \A n : Busy(n) => n \in InFlight(Stages \ {"restoring"})
  BY DEF Busy, InFlight, TypeOK
<1>5. TypeOK'
  <2>1. Proper(rows', todos')
    BY <1>1, TypeParts DEF Typed
  <2>2. CallsTyped'
    BY <1>1, <1>2 DEF CallsTyped, CallRecords, NoCall, Stages
  <2>3. InFlight({"restoring"}) \subseteq Names
    BY DEF InFlight, TypeOK
  <2>. QED BY <1>1, <2>1, <2>2, <2>3, TypeParts DEF Typed
<1>6. ArchiveInv' /\ StartInv'
  BY <1>1, <1>2 DEF ArchiveInv, StartInv
<1>7. WritesInv' /\ UnnamedInv' /\ RestoreInv'
  BY <1>2 DEF WritesInv, UnnamedInv, RestoreInv
<1>8. OwnInv'
  BY <1>1, <1>3 DEF OwnInv
<1>9. OrphanInv'
  BY <1>1, <1>4 DEF OrphanInv
<1>. QED BY <1>5, <1>6, <1>7, <1>8, <1>9
-----------------------------------------------------------------------------
LEMMA StepRequest ==
    ASSUME IInv, Settled, NEW c \in Calls, Request(c)
    PROVE  IInv'
<1>1. ASSUME NEW t \in Todos, CreateTodo(c, t)
      PROVE  IInv'
  <2>1. /\ todos' = todos \cup {t}
        /\ UNCHANGED <<rows, files, archive, call, service, victims, excused, lost>>
    BY <1>1 DEF CreateTodo
  <2>2. /\ service \in {"up", "down", "images", "emails"} /\ todos \subseteq Todos
        /\ victims \subseteq files /\ victims \cap Named = {}
        /\ service \in {"up", "down"} => victims = {}
    BY DEF IInv, TypeOK, StartInv
  <2>. QED BY <2>1, <2>2, StepBeside
<1>2. ASSUME NEW t \in Todos, RemoveTodo(c, t)
      PROVE  IInv'
  <2> DEFINE Q == {r \in rows : r.todo # t}
  <2>1. /\ todos' = todos \ {t} /\ rows' = Q
        /\ GoesOn(c, "asking", None, OwnNames(rows \ Q))
        /\ UNCHANGED <<files, archive, service, victims, excused, lost>>
    BY <1>2 DEF RemoveTodo
  <2>2. Q \in SUBSET rows /\ Proper(Q, todos')
    BY <2>1, TypeParts DEF IInv, Typed, Proper
  <2>3. Free /\ call[c] = NoCall
    BY <1>2 DEF RemoveTodo
  <2> HIDE DEF Q
  <2>. QED BY <2>1, <2>2, <2>3, StepRelease
<1>3. ASSUME NEW t \in Todos, NEW n \in Fresh, CopyImage(c, t, n)
      PROVE  IInv'
  <2>1. {n} \in SUBSET Fresh /\ {n} # {}
    OBVIOUS
  <2>. QED BY <1>3, <2>1, StepWrite DEF CopyImage
<1>4. ASSUME NEW t \in Todos, NEW S \in SUBSET Fresh, S # {}, TakeFiles(c, t, S)
      PROVE  IInv'
  BY <1>4, StepWrite DEF TakeFiles
<1>5. ASSUME NEW t \in Todos, NEW S \in SUBSET Fresh, S # {}, StoreInside(c, t, S)
      PROVE  IInv'
  BY <1>5, StepWrite DEF StoreInside, Free
<1>6. ASSUME NEW t \in Todos, NEW n \in Names, AddPath(c, t, n)
      PROVE  IInv'
  BY <1>6, StepAddPath
<1>7. ASSUME NEW r \in rows, RemoveRow(c, r)
      PROVE  IInv'
  <2>1. /\ rows' = rows \ {r} /\ rows \ (rows \ {r}) = {r}
        /\ GoesOn(c, "asking", None, OwnNames({r}))
        /\ UNCHANGED <<todos, files, archive, service, victims, excused, lost>>
    BY <1>7 DEF RemoveRow
  <2>2. GoesOn(c, "asking", None, OwnNames(rows \ (rows \ {r})))
    BY <2>1
  <2>3. rows \ {r} \in SUBSET rows /\ Proper(rows \ {r}, todos')
    BY <2>1, TypeParts DEF IInv, Typed, Proper
  <2>4. Free /\ call[c] = NoCall
    BY <1>7 DEF RemoveRow
  <2>. QED BY <2>1, <2>2, <2>3, <2>4, StepRelease
<1>8. CASE TakeArchive(c)
  BY <1>8, StepTake
<1>9. CASE ImportArchive(c)
  BY <1>9, StepImport DEF ImportArchive
<1>. QED BY <1>1, <1>2, <1>3, <1>4, <1>5, <1>6, <1>7, <1>8, <1>9 DEF Request

LEMMA StepContinuation ==
    ASSUME IInv, Settled, NEW c \in Calls, Continuation(c)
    PROVE  IInv'
<1> DEFINE held == call[c].names
<1>0. /\ held \in SUBSET Names /\ files \subseteq Names /\ excused \subseteq files
      /\ todos \subseteq Todos
  BY DEF IInv, TypeOK
<1>a. call[c].at \in {"copied", "assigning"} => held \subseteq files /\ call[c].todo \in Todos
  BY DEF IInv, WritesInv
<1>b. RowsFor(call[c].todo, {}) = {}
  BY DEF RowsFor
<1>c. ASSUME Over(c)
      PROVE  CallsTyped' /\ \A at : Becomes(c, at, None, {})
  BY <1>c, CallOver DEF IInv, Becomes
<1>d. ASSUME NEW at \in {"unclaimed", "removing"}, NEW rest \in SUBSET held, GoesOn(c, at, None, rest)
      PROVE  CallsTyped' /\ Becomes(c, at, None, rest)
  BY <1>0, <1>d, CallGoesOn DEF IInv, Stages
<1>1. CASE InsertImage(c)
  <2>1. /\ Free /\ call[c].at = "copied"
        /\ UNCHANGED <<todos, files, archive, service, victims, lost>>
    BY <1>1 DEF InsertImage
  <2>2. CASE /\ call[c].todo \in todos
             /\ rows' = rows \cup RowsFor(call[c].todo, held)
             /\ Over(c) /\ excused' = excused
    BY <2>1, <2>2, <1>0, <1>c, StepRecord
  <2>3. CASE GoesOn(c, "unclaimed", None, held) /\ UNCHANGED <<rows, excused>>
    <3>1. rows' = rows \cup RowsFor(call[c].todo, {})
      BY <1>b, <2>3
    <3>. QED BY <2>1, <2>3, <3>1, <1>0, <1>d, StepRecord
  <2>4. CASE Over(c) /\ excused' = excused \cup held /\ rows' = rows
    <3>1. rows' = rows \cup RowsFor(call[c].todo, {})
      BY <1>b, <2>4
    <3>2. CallsTyped' /\ Becomes(c, "unclaimed", None, {})
      BY <2>4, <1>c
    <3>3. /\ excused \subseteq excused' /\ excused' \subseteq files
          /\ held \subseteq {} \cup {} \cup excused'
          /\ {} \in SUBSET held /\ {} \cap {} = {}
      BY <2>1, <2>4, <1>0, <1>a
    <3>. QED BY <2>1, <3>1, <3>2, <3>3, <1>0, StepRecord
  <2>. QED BY <1>1, <2>2, <2>3, <2>4 DEF InsertImage
<1>2. CASE InsertFiles(c)
  <2>1. PICK A \in SUBSET held :
          /\ A # {} => call[c].todo \in todos
          /\ rows' = rows \cup RowsFor(call[c].todo, A)
          /\ GoesOn(c, "unclaimed", None, held \ A)
    BY <1>2 DEF InsertFiles
  <2>2. /\ Free /\ call[c].at = "copied"
        /\ UNCHANGED <<todos, files, archive, service, victims, excused, lost>>
    BY <1>2 DEF InsertFiles
  <2>3. CallsTyped' /\ Becomes(c, "unclaimed", None, held \ A)
    BY <2>1, <1>d
  <2>. QED BY <2>1, <2>2, <2>3, <1>0, StepRecord
<1>3. CASE EndAssignment(c)
  <2>1. /\ call[c].at = "assigning"
        /\ UNCHANGED <<files, archive, service, victims, excused, lost>>
    BY <1>3 DEF EndAssignment
  <2>2. ASSUME todos' = todos \cup {call[c].todo}, NEW A \in SUBSET held,
               rows' = rows \cup RowsFor(call[c].todo, A),
               GoesOn(c, "unclaimed", None, held \ A)
        PROVE  IInv'
    <3>1. CallsTyped' /\ Becomes(c, "unclaimed", None, held \ A)
      BY <2>2, <1>d
    <3>2. todos' \subseteq Todos
      BY <2>1, <2>2, <1>0, <1>a
    <3>. QED BY <2>1, <2>2, <3>1, <3>2, <1>0, StepRecord
  <2>3. CASE GoesOn(c, "unclaimed", None, held) /\ UNCHANGED <<todos, rows>>
    <3>1. rows' = rows \cup RowsFor(call[c].todo, {})
      BY <1>b, <2>3
    <3>. QED BY <2>1, <2>3, <3>1, <1>0, <1>d, StepRecord
  <2>. QED BY <1>3, <2>2, <2>3 DEF EndAssignment
<1>4. CASE AskOwners(c)
  <2>1. /\ Free /\ call[c].at = "asking"
        /\ UNCHANGED <<todos, rows, files, archive, service, victims, lost>>
    BY <1>4 DEF AskOwners
  <2>2. Owners(held) = held \cap Named /\ Guarded \subseteq Named
    BY GuardedIs DEF Owners
  <2>3. CASE /\ GoesOn(c, "removing", None, held \ Owners(held))
             /\ excused' = excused \cup ((files \cap Owners(held)) \ OwnNames(rows))
    <3>1. CallsTyped' /\ Becomes(c, "removing", None, held \ Named)
      BY <2>2, <2>3, <1>d
    <3>2. call'[c].names = held \ Named
      BY <3>1 DEF Becomes
    <3>3. files' = files \ {} /\ {} \in SUBSET (held \ Guarded)
      BY <2>1
    <3>. QED BY <2>1, <2>2, <2>3, <3>1, <3>2, <3>3, <1>0, StepDrop
  <2>4. CASE Over(c) /\ excused' = excused \cup (files \cap held)
    <3>1. CallsTyped' /\ Becomes(c, "asking", None, {})
      BY <2>4, <1>c
    <3>2. files' = files \ {} /\ {} \in SUBSET (held \ Guarded) /\ {} \in SUBSET held
      BY <2>1
    <3>. QED BY <2>1, <2>4, <3>1, <3>2, <1>0, StepDrop
  <2>. QED BY <1>4, <2>3, <2>4 DEF AskOwners
<1>5. CASE RemoveFile(c)
  <2>0. PICK at \in {"removing", "unclaimed"} : call[c].at = at
    BY <1>5 DEF RemoveFile
  <2>1. PICK n \in held : Remove(n) /\ GoesOn(c, at, None, held \ {n})
    BY <1>5, <2>0 DEF RemoveFile
  <2>2. /\ call[c].at \in {"asking", "removing", "unclaimed"} /\ at \in {"asking", "removing", "unclaimed"}
        /\ UNCHANGED <<todos, rows, archive, service, victims, lost>>
    BY <1>5, <2>0 DEF RemoveFile
  <2>3. held \cap Guarded = {}
    BY <2>0 DEF IInv, UnnamedInv
  <2>4. CallsTyped' /\ Becomes(c, at, None, held \ {n})
    BY <2>1, <1>d
  <2>5. call'[c].names \cap Guarded = {}
    BY <2>3, <2>4 DEF Becomes
  <2>6. CASE files' = files \ {n} /\ excused' = excused \ {n}
    <3> DEFINE F == {n}
    <3>1. F \in SUBSET (held \ Guarded) /\ held \ {n} \in SUBSET held /\ files' = files \ F
      BY <2>3, <2>6
    <3>2. /\ excused' \subseteq files' /\ excused \ F \subseteq excused'
          /\ (held \cap files') \subseteq (held \ {n}) \cup OwnNames(rows) \cup excused'
      BY <2>6, <1>0
    <3> HIDE DEF F
    <3>. QED BY <2>2, <2>4, <2>5, <3>1, <3>2, StepDrop
  <2>7. CASE n \in files /\ files' = files /\ excused' = excused \cup {n}
    <3>1. {} \in SUBSET (held \ Guarded) /\ held \ {n} \in SUBSET held /\ files' = files \ {}
      BY <2>7
    <3>2. /\ excused' \subseteq files' /\ excused \ {} \subseteq excused'
          /\ (held \cap files') \subseteq (held \ {n}) \cup OwnNames(rows) \cup excused'
      BY <2>7, <1>0
    <3>. QED BY <2>2, <2>4, <2>5, <3>1, <3>2, StepDrop
  <2>. QED BY <2>1, <2>6, <2>7 DEF Remove
<1>6. CASE RestoreFile(c)
  BY <1>6, StepRestore
<1>. QED BY <1>1, <1>2, <1>3, <1>4, <1>5, <1>6 DEF Continuation

LEMMA StepIInv == Settled /\ IInv /\ [Next]_vars => IInv'
<1> SUFFICES ASSUME Settled, IInv, [Next]_vars
             PROVE  IInv'
  OBVIOUS
<1>1. CASE UNCHANGED vars
  <2>1. TypeOK'
    BY <1>1 DEF IInv, TypeOK, vars
  <2>2. Named' = Named /\ Guarded' = Guarded
    BY <1>1, NamedIsNamesIn, GuardedIs DEF vars, Guarded
  <2>. QED BY <1>1, <2>1, <2>2 DEF IInv, vars, ArchiveInv, StartInv, WritesInv, UnnamedInv,
                RestoreInv, OwnInv, OrphanInv, Awaited, Busy
<1>2. CASE \E c \in Calls : Request(c) \/ Continuation(c)
  BY <1>2, StepRequest, StepContinuation
<1>3. CASE Crash \/ Sweep \/ SweepFile
  BY <1>3, StepCrash, StepSweep, StepSweepFile
<1>. QED BY <1>1, <1>2, <1>3 DEF Next

LEMMA InitIInv == Init => IInv
<1> SUFFICES ASSUME Init
             PROVE  IInv
  OBVIOUS
<1>1. /\ todos = {} /\ rows = {} /\ files = {} /\ archive = None /\ service = "down"
      /\ victims = {} /\ excused = {} /\ lost = {} /\ call = [c \in Calls |-> NoCall]
  BY DEF Init
<1>2. \A c \in Calls : call[c] = NoCall /\ call[c].at = "idle" /\ call[c].names = {}
  BY <1>1 DEF NoCall
<1>3. CallsTyped
  BY <1>1, <1>2 DEF CallsTyped, CallRecords, NoCall, Stages
<1>4. TypeOK
  BY <1>1, <1>3, TypeParts DEF Typed, Proper
<1>5. OwnNames(rows) = {}
  BY <1>1 DEF OwnNames, Own
<1>. QED BY <1>1, <1>2, <1>4, <1>5 DEF IInv, ArchiveInv, StartInv, WritesInv, UnnamedInv,
              RestoreInv, OwnInv, OrphanInv

(* The inductive invariant.                                                *)
THEOREM Invariance == Settled => (Spec => []IInv)
<1> SUFFICES ASSUME Settled PROVE Spec => []IInv
  OBVIOUS
<1>1. IInv /\ [Next]_vars => IInv'
  BY StepIInv
<1>. QED BY <1>1, InitIInv, PTL DEF Spec
-----------------------------------------------------------------------------
(* The steps that remove files: a call lets go of what it may remove, the  *)
(* sweep of what no row names.                                             *)
LEMMA RemovesUnguarded ==
    ASSUME IInv, [Next]_vars, NEW n \in files \ files'
    PROVE  n \notin Guarded
<1>1. ASSUME NEW c \in Calls, RemoveFile(c)
      PROVE  n \notin Guarded
  <2>1. call[c].names \cap Guarded = {}
    BY <1>1 DEF RemoveFile, IInv, UnnamedInv
  <2>2. n \in call[c].names
    BY <1>1 DEF RemoveFile, Remove
  <2>. QED BY <2>1, <2>2
<1>2. ASSUME SweepFile
      PROVE  n \notin Guarded
  <2>1. n \in victims
    BY <1>2 DEF SweepFile, Remove
  <2>. QED BY <2>1, GuardedIs DEF IInv, StartInv
<1>3. ASSUME NEW c \in Calls, Request(c)
      PROVE  files \subseteq files'
  BY <1>3 DEF Request, CreateTodo, RemoveTodo, CopyImage, TakeFiles, StoreInside, Write, AddPath,
              RemoveRow, TakeArchive, ImportArchive
<1>4. ASSUME NEW c \in Calls, Continuation(c), ~RemoveFile(c)
      PROVE  files \subseteq files'
  BY <1>4 DEF Continuation, InsertImage, InsertFiles, EndAssignment, AskOwners, RestoreFile, Restore
<1>5. ASSUME Crash \/ Sweep \/ UNCHANGED vars
      PROVE  files \subseteq files'
  BY <1>5 DEF Crash, Sweep, vars
<1>. QED BY <1>1, <1>2, <1>3, <1>4, <1>5 DEF Next

(* A-A-18, A-A-98: no step removes a file that a row names, neither a      *)
(* release after the removal of another row, nor the clearing up after a   *)
(* failure, nor the sweep at a start after whatever crash.                 *)
THEOREM OwnedFilesStay == Apart => (Spec => NoOwnedFileRemoved)
<1> SUFFICES ASSUME Apart PROVE Spec => NoOwnedFileRemoved
  OBVIOUS
<1>0. Spec => []IInv
  BY Invariance, ApartIsSettled
<1>1. ASSUME IInv, [Next]_vars
      PROVE  [\A n \in files \ files' : n \notin Named]_vars
  BY <1>1, RemovesUnguarded DEF Guarded
<1>. QED BY <1>1, <1>0, PTL DEF Spec, NoOwnedFileRemoved

(* A-A-18: no step removes a copy or a file out of an e-mail while its own *)
(* row is there, even when users attach such files by their path beside    *)
(* the calls under way.                                                    *)
THEOREM OwnFilesStay ==
    Settled => (Spec => [][ \A n \in files \ files' : n \notin OwnNames(rows) ]_vars)
<1> SUFFICES ASSUME Settled
             PROVE  Spec => [][ \A n \in files \ files' : n \notin OwnNames(rows) ]_vars
  OBVIOUS
<1>0. Spec => []IInv
  BY Invariance
<1>1. ASSUME IInv, [Next]_vars
      PROVE  [\A n \in files \ files' : n \notin OwnNames(rows)]_vars
  BY <1>1, RemovesUnguarded, GuardedIs
<1>. QED BY <1>1, <1>0, PTL DEF Spec

(* A-19.15: a copy or a file out of an e-mail is there when its row is,    *)
(* unless the import that brought the row has yet to restore it or could   *)
(* not.                                                                    *)
THEOREM RowsHaveTheirFiles == Settled => (Spec => []EveryRowHasItsFile)
<1> SUFFICES ASSUME Settled PROVE Spec => []EveryRowHasItsFile
  OBVIOUS
<1>0. Spec => []IInv
  BY Invariance
<1>1. \A n : Awaited(n) => n \in InFlight({"restoring"})
  BY DEF Awaited, InFlight
<1>2. IInv => EveryRowHasItsFile
  BY <1>1 DEF IInv, OwnInv, EveryRowHasItsFile
<1>. QED BY <1>2, <1>0, PTL

(* A-A-18, A-A-83: when nothing is under way, every file without a row has *)
(* one of the reasons `excused` keeps.                                     *)
THEOREM OrphansHaveAReason == Settled => (Spec => []NoOrphanWithoutReason)
<1> SUFFICES ASSUME Settled PROVE Spec => []NoOrphanWithoutReason
  OBVIOUS
<1>0. Spec => []IInv
  BY Invariance
<1>1. ASSUME IInv, Quiet, NEW n \in Orphaned
      PROVE  n \in excused
  <2>1. \A c \in Calls : call[c].names = {}
    BY <1>1 DEF Quiet, NoCall
  <2>2. n \in files /\ n \notin OwnNames(rows)
    BY <1>1, OwnIsNamed, NamedIsNamesIn DEF Orphaned
  <2>. QED BY <1>1, <2>1, <2>2 DEF IInv, OrphanInv, Busy
<1>2. IInv => NoOrphanWithoutReason
  BY <1>1 DEF NoOrphanWithoutReason
<1>. QED BY <1>2, <1>0, PTL
=============================================================================
