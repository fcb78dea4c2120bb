--------------------------- MODULE ServiceLifeProofs ---------------------------
(***************************************************************************)
(* Migrations apply once, after a copy, by services that know the schema   *)
(* they serve, for any number of services, releases, starts and deaths.    *)
(*                                                                         *)
(* The argument: a service never works beyond the next migration that is   *)
(* missing (it may be behind, when another one was faster, and ends then); *)
(* no two commit at a time; and the release that is installed does not     *)
(* change while a service runs, so what it is heading for is what every    *)
(* other one is heading for.  That there is one service at a time, unless  *)
(* a shell is killed, needs nothing of this: only the worker of a shell    *)
(* without a service brings one to life.                                   *)
(***************************************************************************)
EXTENDS ServiceLife, FiniteSetTheorems, TLAPS

Pending == {"copying", "vacuum", "applying", "committing"}

(* What is known of the service s.                                         *)
Behind(s, rel, n) ==
    /\ s.at # "none" => s.known = rel
    /\ s.at \in Pending =>
         /\ 1 <= s.next /\ s.next <= n + 1 /\ s.next <= s.known
         /\ s.from < s.next
    /\ s.at \in {"copying", "vacuum"} => s.from # 0 /\ s.next = s.from + 1
    /\ s.at \in {"none", "waiting", "reading"} => s.from = 0
    /\ s.at \in {"preparing", "listening", "watching", "closing"} =>
         n = s.known

(* Where the copy of the service s is.                                     *)
Copied(s, cs, n) ==
    /\ s.at = "vacuum" =>
         \E c \in cs : /\ c.of = s.from /\ c.nr = s.nr
                       /\ s.from <= Len(c.holds) /\ Len(c.holds) <= n
    /\ s.from # 0 /\ s.at \notin {"copying", "vacuum"} =>
         \E c \in cs : /\ c.whole
                       /\ s.from <= Len(c.holds) /\ Len(c.holds) <= n
                       /\ s.next > s.from + 1 => Len(c.holds) = s.from

(* The one service of a shell that is not killed.                          *)
Alone ==
    ~spent.kills =>
        /\ shell.at = "off" => shell.worker = "done" /\ shell.child = None
        /\ shell.worker # "done" => shell.child = None
        /\ \A p \in Procs : procs[p].at # "none" => p = shell.worker \/ p = shell.child

IInv ==
    /\ TypeOK
    /\ IsFiniteSet(copies)
    /\ MigrationsApplyOnce
    /\ \A p \in Procs : Behind(procs[p], release, Len(changes)) /\ Copied(procs[p], copies, Len(changes))

-----------------------------------------------------------------------------
LEMMA HighestUpTo ==
    ASSUME NEW n \in Nat
    PROVE  Highest(1..n) = n
<1>1. n \in (1..n) \cup {0} /\ \A w \in 1..n : w <= n
  OBVIOUS
<1>2. \A v \in (1..n) \cup {0} : (\A w \in 1..n : w <= v) => v = n
  OBVIOUS
<1>. QED BY <1>1, <1>2 DEF Highest

LEMMA HighestRelease ==
    /\ Highest(Releases) \in Nat
    /\ \A r \in Releases : r \in Nat /\ 1 <= r /\ r <= Highest(Releases)
<1>1. PICK newest \in Releases : \A r \in Releases : r <= newest
  BY LifeAssumption
<1>2. Highest(Releases) \in Releases \cup {0} /\ \A r \in Releases : r <= Highest(Releases)
  BY <1>1 DEF Highest
<1>3. \A r \in Releases : r \in Nat /\ 1 <= r
  BY LifeAssumption
<1>4. Highest(Releases) \in Nat
  BY <1>2, <1>3
<1>. QED BY <1>2, <1>3, <1>4

LEMMA NewestApplied ==
    ASSUME IInv
    PROVE  Highest(applied) = Len(changes) /\ Len(changes) \in Nat
BY HighestUpTo DEF IInv, TypeOK, MigrationsApplyOnce

Late == {"preparing", "listening", "watching", "closing"}

(* A step of the service from r to s that has nothing to do with a         *)
(* migration.                                                              *)
Moves(r, s) ==
    \/ s = Nobody
    \/ s.at \in {"waiting", "reading"} /\ s.known = release /\ s.from = 0
    \/ /\ s.known = r.known /\ s.from = r.from /\ s.next = r.next /\ s.nr = r.nr
       /\ s.at = r.at \/ (s.at \in Late /\ r.at \in Late)

LEMMA Quiet ==
    ASSUME IInv, UNCHANGED <<release, applied, changes, copies>>,
           shell' \in Shells, procs' \in [Procs -> Services],
           \A p \in Procs : Moves(procs[p], procs'[p])
    PROVE  IInv'
<1>1. TypeOK'
  <2>1. \A p \in Procs : procs'[p].at = "committing" => procs[p].at = "committing"
    BY DEF Moves, Nobody, Late
  <2>. QED BY <2>1 DEF IInv, TypeOK
<1>2. \A p \in Procs : Behind(procs'[p], release, Len(changes))
  BY DEF IInv, Behind, Moves, Nobody, Late, Pending
<1>3. \A p \in Procs : Copied(procs'[p], copies, Len(changes))
  BY DEF IInv, Copied, Moves, Nobody, Late
<1>4. \A p \in Procs : Behind(procs'[p], release', Len(changes')) /\ Copied(procs'[p], copies', Len(changes'))
  BY <1>2, <1>3 DEF Behind, Copied
<1>. QED BY <1>1, <1>4 DEF IInv, MigrationsApplyOnce

LEMMA NobodyServes == Nobody \in Services
BY DEF Nobody, Services, Stages

LEMMA InitIInv == Init => IInv
<1> SUFFICES ASSUME Init PROVE IInv
  OBVIOUS
<1>1. TypeOK
  BY NobodyServes DEF Init, TypeOK, Shells, Off, Nobody
<1>2. IsFiniteSet(copies)
  BY FS_EmptySet DEF Init
<1>3. MigrationsApplyOnce
  BY DEF Init, MigrationsApplyOnce
<1>4. \A p \in Procs : Behind(procs[p], release, Len(changes)) /\ Copied(procs[p], copies, Len(changes))
  BY DEF Init, Behind, Copied, Nobody, Pending
<1>. QED BY <1>1, <1>2, <1>3, <1>4 DEF IInv
-----------------------------------------------------------------------------
(* The shell, and the steps of a service that leave the database alone.    *)
LEMMA StepShell ==
    ASSUME IInv, OpenShell \/ Refuse \/ SpawnFails \/ NoteExit
    PROVE  IInv'
<1>1. shell' \in Shells /\ procs' = procs
  BY DEF IInv, TypeOK, OpenShell, Refuse, SpawnFails, NoteExit, Shells, Off
<1>2. UNCHANGED <<release, applied, changes, copies>>
  BY DEF OpenShell, Refuse, SpawnFails, NoteExit
<1>. QED BY <1>1, <1>2, Quiet DEF IInv, TypeOK, Moves

LEMMA StepSpawn ==
    ASSUME IInv, NEW p \in Procs, Spawn(p)
    PROVE  IInv'
<1> DEFINE new == [Nobody EXCEPT !.at = "waiting", !.known = release]
<1>1. new \in Services /\ new.at = "waiting" /\ new.known = release /\ new.from = 0
  BY DEF Nobody, Services, Stages, IInv, TypeOK
<1>2. procs' \in [Procs -> Services] /\ \A q \in Procs : Moves(procs[q], procs'[q])
  BY <1>1 DEF Spawn, Moves, IInv, TypeOK
<1>3. shell' \in Shells /\ UNCHANGED <<release, applied, changes, copies>>
  BY DEF Spawn, IInv, TypeOK, Shells
<1>. QED BY <1>2, <1>3, Quiet

LEMMA StepHandOver ==
    ASSUME IInv, HandOver
    PROVE  IInv'
<1> DEFINE told(s) == [s EXCEPT !.lines = TRUE]
<1>1. \A s \in Services : told(s) \in Services /\ Moves(s, told(s))
  BY DEF Services, Moves
<1> HIDE DEF told
<1>2. procs' = procs \/ procs' = [procs EXCEPT ![shell.worker] = told(procs[shell.worker])]
  BY DEF HandOver, told
<1>3. procs' \in [Procs -> Services] /\ \A q \in Procs : Moves(procs[q], procs'[q])
  BY <1>1, <1>2 DEF Moves, IInv, TypeOK
<1>4. shell' \in Shells /\ UNCHANGED <<release, applied, changes, copies>>
  BY DEF HandOver, IInv, TypeOK, Shells
<1>. QED BY <1>3, <1>4, Quiet

LEMMA StepEndShell ==
    ASSUME IInv, Stop \/ EndShell \/ KillShell
    PROVE  IInv'
<1>1. \A ps \in [Procs -> Services] :
         Shut(ps) \in [Procs -> Services] /\ \A q \in Procs : Moves(ps[q], Shut(ps)[q])
  BY NobodyServes DEF Shut, Services, Moves
<1>2. Killed \in [Procs -> Services] /\ \A q \in Procs : Killed[q] \in {Nobody, procs[q]}
  BY NobodyServes DEF Killed, IInv, TypeOK
<1>3. Shut(Killed) \in [Procs -> Services] /\ \A q \in Procs : Moves(procs[q], Shut(Killed)[q])
  <2>1. \A q \in Procs : Killed[q] = Nobody => Shut(Killed)[q] = Nobody
    BY DEF Shut, Nobody
  <2>. QED BY <2>1, <1>1, <1>2 DEF Moves
<1>4. procs' \in [Procs -> Services] /\ \A q \in Procs : Moves(procs[q], procs'[q])
  <2>1. CASE Stop
    BY <2>1, <1>2 DEF Stop, Moves
  <2>2. CASE EndShell
    BY <2>2, <1>3 DEF EndShell
  <2>3. CASE KillShell
    BY <2>3, <1>1 DEF KillShell, IInv, TypeOK
  <2>. QED BY <2>1, <2>2, <2>3
<1>5. shell' \in Shells
  <2>1. Off \in Shells
    BY DEF Off, Shells
  <2>2. Stop => shell' \in Shells
    BY DEF Stop, IInv, TypeOK, Shells
  <2>. QED BY <2>1, <2>2 DEF EndShell, KillShell
<1>6. UNCHANGED <<release, applied, changes, copies>>
  BY DEF Stop, EndShell, KillShell
<1>. QED BY <1>4, <1>5, <1>6, Quiet

LEMMA StepInstall ==
    ASSUME IInv, Install
    PROVE  IInv'
<1>1. \A p \in Procs : procs[p].at = "none"
  BY DEF Install, Alive
<1>2. TypeOK' /\ MigrationsApplyOnce' /\ IsFiniteSet(copies)'
  BY DEF Install, IInv, TypeOK, MigrationsApplyOnce
<1>3. \A p \in Procs : Behind(procs'[p], release', Len(changes')) /\ Copied(procs'[p], copies', Len(changes'))
  BY <1>1 DEF Install, IInv, Behind, Copied, Pending
<1>. QED BY <1>2, <1>3 DEF IInv

LEMMA StepOfService ==
    ASSUME IInv, NEW p \in Procs,
           \/ Handshake(p) \/ NoHandshake(p) \/ Listen(p) \/ Watch(p) \/ Lost(p)
           \/ Signal(p) \/ Close(p) \/ Die(p)
    PROVE  IInv'
<1> USE DEF To, Exit, Moves, Services, Stages, Late
<1>1. procs \in [Procs -> Services]
  BY DEF IInv, TypeOK
<1>2. procs' \in [Procs -> Services] /\ \A q \in Procs : Moves(procs[q], procs'[q])
  <2>1. CASE Handshake(p)
    <3> DEFINE new == [procs[p] EXCEPT !.at = "reading", !.reads = FALSE]
    <3>1. procs' = [procs EXCEPT ![p] = new]
      BY <2>1 DEF Handshake
    <3>2. procs[p] \in Services
      BY <1>1
    <3>3. new \in Services /\ new.at = "reading" /\ new.known = procs[p].known /\ new.from = procs[p].from
      BY <3>2
    <3>4. procs[p].known = release /\ procs[p].from = 0
      BY <2>1 DEF Handshake, IInv, Behind
    <3>. QED BY <1>1, <3>1, <3>3, <3>4
  <2>2. CASE NoHandshake(p) \/ Close(p) \/ Die(p)
    BY <2>2, <1>1, NobodyServes DEF NoHandshake, Close, Die
  <2>3. CASE Listen(p)
    BY <2>3, <1>1, NobodyServes DEF Listen
  <2>4. CASE Watch(p) \/ Lost(p) \/ Signal(p)
    BY <2>4, <1>1 DEF Watch, Lost, Signal
  <2>. QED BY <2>1, <2>2, <2>3, <2>4
<1>3. shell' \in Shells /\ UNCHANGED <<release, applied, changes, copies>>
  BY DEF IInv, TypeOK, Handshake, NoHandshake, Listen, Watch, Lost, Signal, Close, Die
<1>. QED BY <1>2, <1>3, Quiet
-----------------------------------------------------------------------------
(* The steps of a migration.                                               *)
Headed(s, stage, n) == [s EXCEPT !.at = stage, !.from = n, !.next = n + 1]

LEMMA Heading ==
    ASSUME NEW s \in Services, NEW stage \in Stages, NEW n \in Versions \cup {0}
    PROVE  /\ Headed(s, stage, n) \in Services
           /\ Headed(s, stage, n).at = stage /\ Headed(s, stage, n).known = s.known
           /\ Headed(s, stage, n).from = n /\ Headed(s, stage, n).next = n + 1
<1>1. n + 1 \in Nat
  BY HighestRelease DEF Versions
<1>. QED BY <1>1 DEF Services, Headed

LEMMA StepReadState ==
    ASSUME IInv, NEW p \in Procs, ReadState(p)
    PROVE  IInv'
<1> DEFINE n == Len(changes)
           s == procs[p]
           stage == IF n = 0 THEN "applying" ELSE "copying"
           new == Headed(s, stage, n)
<1>1. /\ n \in Nat /\ n = Highest(applied)
      /\ s \in Services /\ procs \in [Procs -> Services] /\ shell \in Shells
      /\ Behind(s, release, Len(changes)) /\ s.at = "reading" /\ s.known = release /\ release \in Nat
      /\ UNCHANGED <<shell, release, applied, changes, copies>>
  BY NewestApplied, HighestRelease DEF IInv, TypeOK, ReadState, Behind
<1>2. CASE n > s.known /\ Exit(p)
  BY <1>1, <1>2, NobodyServes, Quiet DEF Exit, Moves
<1>3. CASE n = s.known /\ To(p, "preparing")
  <2> DEFINE prepared == [s EXCEPT !.at = "preparing"]
  <2>1. prepared \in Services /\ procs' = [procs EXCEPT ![p] = prepared]
    BY <1>1, <1>3 DEF To, Services, Stages
  <2>2. Behind(prepared, release, Len(changes)) /\ Copied(prepared, copies, Len(changes))
    BY <1>1, <1>3 DEF Behind, Copied, Pending, Services
  <2>3. \A q \in Procs : Behind(procs'[q], release, Len(changes)) /\ Copied(procs'[q], copies, Len(changes))
    BY <2>1, <2>2, <1>1 DEF IInv
  <2>4. \A q \in Procs : Behind(procs'[q], release', Len(changes')) /\ Copied(procs'[q], copies', Len(changes'))
    BY <2>3, <1>1 DEF Behind, Copied
  <2>5. TypeOK'
    BY <1>1, <2>1 DEF IInv, TypeOK, Services
  <2>. QED BY <1>1, <2>4, <2>5 DEF IInv, MigrationsApplyOnce
<1>4. CASE n < s.known /\ procs' = [procs EXCEPT ![p] = new]
  <2>1. n \in Versions \cup {0}
    BY <1>1, <1>4, HighestRelease DEF Versions, Services
  <2>2. stage \in {"applying", "copying"} /\ (n # 0 <=> stage = "copying")
    OBVIOUS
  <2>3. /\ new.at = stage /\ new.known = s.known /\ new.from = n /\ new.next = n + 1
        /\ new \in Services
    <3>1. stage \in Stages
      BY <2>2 DEF Stages
    <3> HIDE DEF n, s, stage
    <3>. QED BY <1>1, <2>1, <3>1, Heading
  <2> HIDE DEF stage, new
  <2>4. new \in Services /\ new.at # "committing"
    BY <2>2, <2>3
  <2>5. Behind(new, release, Len(changes)) /\ Copied(new, copies, Len(changes))
    <3> HIDE DEF n, s
    <3>1. new.at \in {"applying", "copying"} /\ (n # 0 <=> new.at = "copying")
      BY <2>2, <2>3
    <3>2. n = Len(changes)
      BY DEF n
    <3>3. Behind(new, release, Len(changes))
      BY <1>1, <1>4, <2>3, <3>1, <3>2 DEF Behind, Pending
    <3>4. Copied(new, copies, Len(changes))
      BY <2>3, <3>1 DEF Copied
    <3>. QED BY <3>3, <3>4
  <2>6. \A q \in Procs : Behind(procs'[q], release, Len(changes)) /\ Copied(procs'[q], copies, Len(changes))
    BY <2>5, <1>1, <1>4 DEF IInv
  <2>7. \A q \in Procs : Behind(procs'[q], release', Len(changes')) /\ Copied(procs'[q], copies', Len(changes'))
    BY <2>6, <1>1 DEF Behind, Copied
  <2>8. TypeOK'
    BY <1>1, <1>4, <2>4 DEF IInv, TypeOK
  <2>. QED BY <1>1, <2>7, <2>8 DEF IInv, MigrationsApplyOnce
<1>5. ReadState(p) => (n > s.known /\ Exit(p)) \/ (n = s.known /\ To(p, "preparing"))
                      \/ (n < s.known /\ procs' = [procs EXCEPT ![p] = new])
  BY <1>1 DEF ReadState, Headed
<1>. QED BY <1>2, <1>3, <1>4, <1>5


(* A step of p to s, and what is left to be shown of it.                   *)
LEMMA OneMoves ==
    ASSUME IInv, NEW p \in Procs, NEW s \in Services, procs' = [procs EXCEPT ![p] = s],
           TypeOK', IsFiniteSet(copies'), MigrationsApplyOnce',
           Behind(s, release', Len(changes')), Copied(s, copies', Len(changes')),
           \A q \in Procs \ {p} : /\ Behind(procs[q], release', Len(changes'))
                                 /\ Copied(procs[q], copies', Len(changes'))
    PROVE  IInv'
<1>1. \A q \in Procs : procs'[q] = IF q = p THEN s ELSE procs[q]
  BY DEF IInv, TypeOK
<1>. QED BY <1>1 DEF IInv

(* More copies are as good.                                                *)
LEMMA MoreCopies ==
    ASSUME NEW s, NEW n, NEW old, NEW new, Copied(s, old, n),
           \A c \in old : \E d \in new :
               d.of = c.of /\ d.nr = c.nr /\ d.holds = c.holds /\ (c.whole => d.whole)
    PROVE  Copied(s, new, n)
<1>1. ASSUME s.at = "vacuum"
      PROVE  \E d \in new : /\ d.of = s.from /\ d.nr = s.nr
                            /\ s.from <= Len(d.holds) /\ Len(d.holds) <= n
  <2>1. PICK c \in old : /\ c.of = s.from /\ c.nr = s.nr
                         /\ s.from <= Len(c.holds) /\ Len(c.holds) <= n
    BY <1>1 DEF Copied
  <2>2. PICK d \in new : d.of = c.of /\ d.nr = c.nr /\ d.holds = c.holds
    OBVIOUS
  <2>. QED BY <2>1, <2>2
<1>2. ASSUME s.from # 0, s.at \notin {"copying", "vacuum"}
      PROVE  \E d \in new : /\ d.whole
                            /\ s.from <= Len(d.holds) /\ Len(d.holds) <= n
                            /\ s.next > s.from + 1 => Len(d.holds) = s.from
  <2>1. PICK c \in old : /\ c.whole
                         /\ s.from <= Len(c.holds) /\ Len(c.holds) <= n
                         /\ s.next > s.from + 1 => Len(c.holds) = s.from
    BY <1>2 DEF Copied
  <2>2. PICK d \in new : d.holds = c.holds /\ d.whole
    BY <2>1
  <2>. QED BY <2>1, <2>2
<1>. QED BY <1>1, <1>2 DEF Copied

Backing(s, n) == [s EXCEPT !.at = "vacuum", !.nr = n]

LEMMA BackingUp ==
    ASSUME NEW s \in Services, NEW n \in Nat
    PROVE  /\ Backing(s, n) \in Services
           /\ Backing(s, n).at = "vacuum" /\ Backing(s, n).nr = n
           /\ Backing(s, n).known = s.known /\ Backing(s, n).from = s.from
           /\ Backing(s, n).next = s.next
BY DEF Services, Stages, Backing

LEMMA StepBeginBackup ==
    ASSUME IInv, NEW p \in Procs, BeginBackup(p)
    PROVE  IInv'
<1> DEFINE s == procs[p]
           nr == Cardinality(CopiesOf(s.from)) + 1
           copy == [of |-> s.from, nr |-> nr, holds |-> changes, whole |-> FALSE]
           new == Backing(s, nr)
<1>1. /\ s \in Services /\ procs \in [Procs -> Services] /\ changes \in Seq(Versions)
      /\ Behind(s, release, Len(changes)) /\ s.at = "copying"
      /\ copies' = copies \cup {copy} /\ procs' = [procs EXCEPT ![p] = new]
      /\ UNCHANGED <<shell, release, applied, changes>>
  BY DEF IInv, TypeOK, BeginBackup, Backing
<1>2. nr \in Nat
  <2>1. CopiesOf(s.from) \in SUBSET copies
    BY DEF CopiesOf
  <2>2. IsFiniteSet(CopiesOf(s.from))
    BY <2>1, FS_Subset DEF IInv
  <2>3. Cardinality(CopiesOf(s.from)) \in Nat
    BY <2>2, FS_CardinalityType
  <2>. QED BY <2>3
<1> HIDE DEF nr, s
<1>3. /\ new \in Services /\ new.at = "vacuum" /\ new.nr = nr
      /\ new.known = s.known /\ new.from = s.from /\ new.next = s.next
  BY <1>1, <1>2, BackingUp
<1> HIDE DEF new
<1>4. Len(changes) \in Nat /\ s.known \in Nat /\ s.from \in Nat /\ s.from \in Versions \cup {0}
  BY <1>1, HighestRelease DEF Services, Versions
<1>5. s.from # 0 /\ s.next = s.from + 1 /\ s.from <= Len(changes) /\ s.from \in Versions
  BY <1>1, <1>4 DEF Behind, Pending
<1>6. copy \in Copies /\ IsFiniteSet(copies')
  BY <1>1, <1>2, <1>5, FS_AddElement DEF Copies, IInv
<1>7. TypeOK'
  BY <1>1, <1>3, <1>6 DEF IInv, TypeOK
<1>8. MigrationsApplyOnce'
  BY <1>1 DEF IInv, MigrationsApplyOnce
<1>9. Behind(new, release', Len(changes'))
  BY <1>1, <1>3 DEF Behind, Pending
<1>10. Copied(new, copies', Len(changes'))
  <2>1. /\ copy \in copies' /\ copy.of = new.from /\ copy.nr = new.nr
        /\ copy.holds = changes' /\ new.from <= Len(copy.holds)
    BY <1>1, <1>3, <1>5
  <2> HIDE DEF copy
  <2>2. Len(copy.holds) = Len(changes') /\ Len(changes') \in Nat
    BY <2>1, <1>1, <1>4
  <2>. QED BY <2>1, <2>2, <1>3 DEF Copied
<1>11. \A q \in Procs \ {p} : /\ Behind(procs[q], release', Len(changes'))
                              /\ Copied(procs[q], copies', Len(changes'))
  <2> SUFFICES ASSUME NEW q \in Procs
               PROVE  /\ Behind(procs[q], release', Len(changes'))
                      /\ Copied(procs[q], copies', Len(changes'))
    OBVIOUS
  <2>1. Behind(procs[q], release, Len(changes)) /\ Copied(procs[q], copies, Len(changes))
    BY DEF IInv
  <2>2. \A c \in copies : c \in copies'
    BY <1>1
  <2>. QED BY <2>1, <2>2, <1>1, MoreCopies
<1>. QED BY <1>1, <1>3, <1>6, <1>7, <1>8, <1>9, <1>10, <1>11, OneMoves

Staged(s, stage) == [s EXCEPT !.at = stage]

LEMMA Staging ==
    ASSUME NEW s \in Services, NEW stage \in Stages
    PROVE  /\ Staged(s, stage) \in Services /\ Staged(s, stage).at = stage
           /\ Staged(s, stage).nr = s.nr /\ Staged(s, stage).known = s.known
           /\ Staged(s, stage).from = s.from /\ Staged(s, stage).next = s.next
BY DEF Services, Staged

Finished(s, c) == IF c.of = s.from /\ c.nr = s.nr THEN [c EXCEPT !.whole = TRUE] ELSE c

LEMMA StepEndBackup ==
    ASSUME IInv, NEW p \in Procs, EndBackup(p)
    PROVE  IInv'
<1> DEFINE s == procs[p]
           new == Staged(s, "applying")
           n == Len(changes)
<1>1. /\ s \in Services /\ procs \in [Procs -> Services] /\ changes \in Seq(Versions)
      /\ copies \subseteq Copies /\ IsFiniteSet(copies)
      /\ Behind(s, release, n) /\ Copied(s, copies, n) /\ s.at = "vacuum"
      /\ copies' = {Finished(s, c) : c \in copies} /\ procs' = [procs EXCEPT ![p] = new]
      /\ UNCHANGED <<shell, release, applied, changes>>
  BY DEF IInv, TypeOK, EndBackup, Staged, To, Finished
<1> HIDE DEF s, n
<1>2. /\ new \in Services /\ new.at = "applying" /\ new.nr = s.nr
      /\ new.known = s.known /\ new.from = s.from /\ new.next = s.next
  BY <1>1, Staging DEF Stages
<1> HIDE DEF new
<1>3. \A c \in copies :
        /\ Finished(s, c) \in Copies
        /\ Finished(s, c).of = c.of /\ Finished(s, c).nr = c.nr /\ Finished(s, c).holds = c.holds
        /\ c.whole => Finished(s, c).whole
        /\ c.of = s.from /\ c.nr = s.nr => Finished(s, c).whole
  BY <1>1 DEF Finished, Copies
<1>4. IsFiniteSet(copies')
  <2> DEFINE f == [c \in copies |-> Finished(s, c)]
  <2>1. f \in Surjection(copies, copies')
    BY <1>1 DEF Surjection
  <2>. QED BY <2>1, <1>1, FS_Surjection
<1>5. copies' \subseteq Copies
  BY <1>1, <1>3
<1>6. TypeOK'
  BY <1>1, <1>2, <1>5 DEF IInv, TypeOK
<1>7. MigrationsApplyOnce'
  BY <1>1 DEF IInv, MigrationsApplyOnce
<1>8. s.from # 0 /\ s.next = s.from + 1 /\ Behind(new, release', Len(changes'))
  BY <1>1, <1>2 DEF Behind, Pending, n
<1>9. Copied(new, copies', Len(changes'))
  <2>1. PICK c \in copies : /\ c.of = s.from /\ c.nr = s.nr
                            /\ s.from <= Len(c.holds) /\ Len(c.holds) <= n
    BY <1>1 DEF Copied
  <2>2. PICK d \in copies' : d = Finished(s, c)
    BY <1>1
  <2>3. d.whole /\ new.from <= Len(d.holds) /\ Len(d.holds) <= Len(changes')
    BY <1>1, <1>2, <1>3, <2>1, <2>2 DEF n
  <2>4. ~(new.next > new.from + 1)
    BY <1>1, <1>2, <1>8, HighestRelease DEF Services, Versions
  <2>. QED BY <1>2, <2>3, <2>4 DEF Copied
<1>10. \A q \in Procs \ {p} : /\ Behind(procs[q], release', Len(changes'))
                              /\ Copied(procs[q], copies', Len(changes'))
  <2> SUFFICES ASSUME NEW q \in Procs
               PROVE  /\ Behind(procs[q], release', Len(changes'))
                      /\ Copied(procs[q], copies', Len(changes'))
    OBVIOUS
  <2>1. Behind(procs[q], release, Len(changes)) /\ Copied(procs[q], copies, Len(changes))
    BY DEF IInv
  <2>2. \A c \in copies : \E d \in copies' :
          d.of = c.of /\ d.nr = c.nr /\ d.holds = c.holds /\ (c.whole => d.whole)
    BY <1>1, <1>3
  <2>. QED BY <2>1, <2>2, <1>1, MoreCopies
<1>. QED BY <1>1, <1>2, <1>4, <1>6, <1>7, <1>8, <1>9, <1>10, OneMoves

LEMMA StepBeginMigration ==
    ASSUME IInv, NEW p \in Procs, BeginMigration(p)
    PROVE  IInv'
<1> DEFINE s == procs[p]
           new == Staged(s, "committing")
           n == Len(changes)
<1>1. /\ s \in Services /\ procs \in [Procs -> Services]
      /\ Behind(s, release, n) /\ Copied(s, copies, n) /\ s.at = "applying"
      /\ UNCHANGED <<shell, release, applied, changes, copies>>
  BY DEF IInv, TypeOK, BeginMigration
<1>2. CASE Locked /\ Exit(p)
  <2>1. procs' \in [Procs -> Services] /\ \A q \in Procs : Moves(procs[q], procs'[q])
    BY <1>1, <1>2, NobodyServes DEF Exit, Moves
  <2>. QED BY <2>1, <1>1, Quiet DEF IInv, TypeOK
<1>3. CASE ~Locked /\ To(p, "committing")
  <2>1. procs' = [procs EXCEPT ![p] = new]
    BY <1>3 DEF To, Staged
  <2> HIDE DEF s, n
  <2>2. /\ new \in Services /\ new.at = "committing" /\ new.nr = s.nr
        /\ new.known = s.known /\ new.from = s.from /\ new.next = s.next
    BY <1>1, Staging DEF Stages
  <2> HIDE DEF new
  <2>3. TypeOK'
    BY <1>1, <1>3, <2>1, <2>2 DEF IInv, TypeOK, Locked
  <2>4. Behind(new, release, n) /\ Copied(new, copies, n)
    <3>1. Behind(new, release, n)
      BY <1>1, <2>2 DEF Behind, Pending
    <3>2. Copied(new, copies, n)
      BY <1>1, <2>2 DEF Copied
    <3>. QED BY <3>1, <3>2
  <2>5. IsFiniteSet(copies') /\ MigrationsApplyOnce'
    BY <1>1 DEF IInv, MigrationsApplyOnce
  <2>6. \A q \in Procs \ {p} : /\ Behind(procs[q], release', Len(changes'))
                               /\ Copied(procs[q], copies', Len(changes'))
    BY <1>1 DEF IInv
  <2>. QED BY <1>1, <2>1, <2>2, <2>3, <2>4, <2>5, <2>6, OneMoves DEF n
<1>. QED BY <1>2, <1>3 DEF BeginMigration

Migrated(s) ==
    [s EXCEPT !.next = @ + 1, !.at = IF s.next = s.known THEN "preparing" ELSE "applying"]

LEMMA Migrating ==
    ASSUME NEW s \in Services
    PROVE  /\ Migrated(s) \in Services /\ Migrated(s).next = s.next + 1
           /\ Migrated(s).at \in {"preparing", "applying"}
           /\ Migrated(s).at = "preparing" <=> s.next = s.known
           /\ Migrated(s).known = s.known /\ Migrated(s).from = s.from
<1> DEFINE stage == IF s.next = s.known THEN "preparing" ELSE "applying"
<1>1. stage \in {"preparing", "applying"} /\ (stage = "preparing" <=> s.next = s.known)
  OBVIOUS
<1>2. Migrated(s) = [s EXCEPT !.next = @ + 1, !.at = stage]
  BY DEF Migrated
<1> DEFINE next == [s EXCEPT !.next = @ + 1]
<1>3. next \in Services /\ next.next = s.next + 1 /\ next.known = s.known /\ next.from = s.from
  BY DEF Services
<1>4. Migrated(s) = Staged(next, stage)
  BY <1>2 DEF Staged
<1>5. stage \in Stages
  BY <1>1 DEF Stages
<1> HIDE DEF stage, next
<1>. QED BY <1>1, <1>3, <1>4, <1>5, Staging

LEMMA StepEndMigration ==
    ASSUME IInv, NEW p \in Procs, EndMigration(p)
    PROVE  IInv'
<1> DEFINE s == procs[p]
           new == Migrated(s)
           n == Len(changes)
<1>1. /\ s \in Services /\ procs \in [Procs -> Services]
      /\ changes \in Seq(Versions) /\ n \in Nat /\ applied = 1..n
      /\ Behind(s, release, n) /\ Copied(s, copies, n) /\ s.at = "committing"
      /\ UNCHANGED <<shell, release, copies>>
  BY DEF IInv, TypeOK, EndMigration, MigrationsApplyOnce
<1>2. CASE Exit(p) /\ UNCHANGED <<applied, changes>>
  <2>1. procs' \in [Procs -> Services] /\ \A q \in Procs : Moves(procs[q], procs'[q])
    BY <1>1, <1>2, NobodyServes DEF Exit, Moves
  <2>. QED BY <2>1, <1>1, <1>2, Quiet DEF IInv, TypeOK
<1>3. CASE /\ s.next \notin applied
           /\ changes' = Append(changes, s.next)
           /\ applied' = applied \cup {s.next}
           /\ procs' = [procs EXCEPT ![p] = new]
  <2> HIDE DEF s
  <2>1. /\ s.next = n + 1 /\ s.known = release /\ s.next <= release /\ s.from < s.next
        /\ s.next \in Nat /\ s.from \in Nat /\ release \in Nat /\ s.next \in Versions
    <3>1. s.next \in Nat /\ s.from \in Nat /\ release \in Nat /\ release <= Highest(Releases)
      BY <1>1, HighestRelease DEF Services, Versions, IInv, TypeOK
    <3>2. 1 <= s.next /\ s.next <= n + 1 /\ s.next <= s.known /\ s.from < s.next /\ s.known = release
      BY <1>1 DEF Behind, Pending
    <3>. QED BY <3>1, <3>2, <1>1, <1>3, HighestRelease DEF Versions
  <2>2. /\ new \in Services /\ new.next = n + 2
        /\ new.at \in {"preparing", "applying"} /\ (new.at = "preparing" <=> n + 1 = release)
        /\ new.known = release /\ new.from = s.from
    BY <1>1, <2>1, Migrating
  <2> HIDE DEF new
  <2>3. /\ changes' \in Seq(Versions) /\ Len(changes') = n + 1
        /\ applied' = 1..(n + 1)
        /\ \A i \in 1..(n + 1) : changes'[i] = IF i = n + 1 THEN n + 1 ELSE changes[i]
    BY <1>1, <1>3, <2>1
  <2>4. MigrationsApplyOnce'
    BY <1>1, <2>3 DEF IInv, MigrationsApplyOnce
  <2>5. applied' \subseteq Versions
    BY <1>3, <2>1 DEF IInv, TypeOK
  <2>6. TypeOK'
    BY <1>1, <1>3, <2>2, <2>3, <2>5 DEF IInv, TypeOK
  <2>7. Behind(new, release', Len(changes'))
    BY <1>1, <2>1, <2>2, <2>3 DEF Behind, Pending
  <2>8. Copied(new, copies', Len(changes'))
    <3>1. ASSUME s.from # 0
          PROVE  \E c \in copies : c.whole /\ s.from <= Len(c.holds) /\ Len(c.holds) <= n
                                 /\ (s.next > s.from + 1 => Len(c.holds) = s.from)
      BY <1>1, <3>1 DEF Copied
    <3>2. ASSUME s.from # 0
          PROVE  \E c \in copies' : c.whole /\ Len(c.holds) = s.from
      <4>1. PICK c \in copies : c.whole /\ s.from <= Len(c.holds) /\ Len(c.holds) <= n
                                /\ (s.next > s.from + 1 => Len(c.holds) = s.from)
        BY <3>1, <3>2
      <4>2. Len(c.holds) \in Nat
        BY DEF IInv, TypeOK, Copies
      <4>3. Len(c.holds) = s.from
        BY <4>1, <4>2, <1>1, <2>1 DEF n
      <4>. QED BY <4>1, <4>3, <1>1
    <3>3. s.from <= n + 1
      BY <1>1, <2>1
    <3>. QED BY <3>2, <3>3, <1>1, <2>1, <2>2, <2>3 DEF Copied
  <2>9. \A q \in Procs \ {p} : /\ Behind(procs[q], release', Len(changes'))
                               /\ Copied(procs[q], copies', Len(changes'))
    <3> SUFFICES ASSUME NEW q \in Procs
                 PROVE  /\ Behind(procs[q], release, n + 1) /\ Copied(procs[q], copies, n + 1)
      BY <1>1, <2>3
    <3> DEFINE r == procs[q]
    <3>1. Behind(r, release, n) /\ Copied(r, copies, n) /\ r \in Services
      BY <1>1 DEF IInv
    <3> HIDE DEF r
    <3>2. Behind(r, release, n + 1)
      BY <3>1, <1>1, <2>1 DEF Behind, Services, Pending
    <3>3. Copied(r, copies, n + 1)
      <4>1. \A c \in copies : Len(c.holds) \in Nat /\ (Len(c.holds) <= n => Len(c.holds) <= n + 1)
        BY <1>1 DEF IInv, TypeOK, Copies
      <4>. QED BY <4>1, <3>1 DEF Copied
    <3>. QED BY <3>2, <3>3 DEF r
  <2>. QED BY <1>1, <1>3, <2>2, <2>4, <2>6, <2>7, <2>8, <2>9, OneMoves DEF IInv
<1>4. \/ /\ s.next \notin applied
         /\ changes' = Append(changes, s.next)
         /\ applied' = applied \cup {s.next}
         /\ procs' = [procs EXCEPT ![p] = new]
      \/ Exit(p) /\ UNCHANGED <<applied, changes>>
  BY Zenon DEF EndMigration, Migrated
<1>. QED BY <1>2, <1>3, <1>4
-----------------------------------------------------------------------------
LEMMA NextIInv ==
    ASSUME IInv, Next \/ UNCHANGED vars
    PROVE  IInv'
<1>1. CASE Outside
  BY <1>1, StepShell, StepEndShell, StepInstall, StepOfService DEF Outside
<1>2. CASE Worker
  BY <1>2, StepShell, StepSpawn, StepHandOver DEF Worker
<1>3. CASE NoteExit
  BY <1>3, StepShell
<1>4. ASSUME NEW p \in Procs, Work(p)
      PROVE  IInv'
  BY <1>4, StepOfService, StepReadState, StepBeginBackup, StepEndBackup,
     StepBeginMigration, StepEndMigration DEF Work
<1>5. CASE UNCHANGED vars
  <2>1. procs' \in [Procs -> Services] /\ \A p \in Procs : Moves(procs[p], procs'[p])
    BY <1>5 DEF IInv, TypeOK, Moves, vars
  <2>. QED BY <1>5, <2>1, Quiet DEF IInv, TypeOK, vars
<1>. QED BY <1>1, <1>2, <1>3, <1>4, <1>5 DEF Next

THEOREM Inductive == Spec => []IInv
<1>1. IInv /\ [Next]_vars => IInv'
  BY NextIInv
<1>. QED BY InitIInv, <1>1, PTL DEF Spec

(* Every reachable state has the declared form, and no two services hold   *)
(* the write lock of the database at a time.                               *)
THEOREM TypeCorrect == Spec => []TypeOK
<1>1. IInv => TypeOK
  BY DEF IInv
<1>. QED BY Inductive, <1>1, PTL

(* migration-runner.ts:275: each migration changes the data once, in its   *)
(* order, for any number of services that meet on the database or die.     *)
THEOREM AppliedOnce == Spec => []MigrationsApplyOnce
<1>1. IInv => MigrationsApplyOnce
  BY DEF IInv
<1>. QED BY Inductive, <1>1, PTL

(* migration-runner.ts:385: a start that has changed data has a whole copy *)
(* of what it found.                                                       *)
THEOREM CopiedBefore == Spec => []BackupBeforeChange
<1>1. IInv => BackupBeforeChange
  <2> SUFFICES ASSUME IInv, NEW p \in Procs,
                      procs[p].from # 0, procs[p].next > procs[p].from + 1
               PROVE  \E c \in copies : c.whole /\ Len(c.holds) = procs[p].from
    BY DEF BackupBeforeChange
  <2> DEFINE s == procs[p]
  <2>1. s \in Services /\ Behind(s, release, Len(changes)) /\ Copied(s, copies, Len(changes))
    BY DEF IInv, TypeOK
  <2>2. s.from \in Nat /\ s.next \in Nat
    BY <2>1, HighestRelease DEF Services, Versions
  <2>3. s.at \notin {"copying", "vacuum"}
    BY <2>1, <2>2 DEF Behind
  <2>. QED BY <2>1, <2>3 DEF Copied
<1>. QED BY Inductive, <1>1, PTL

(* main.ts:266: a service that answers requests knows the schema it works  *)
(* on, whichever releases were installed before and beside it.             *)
THEOREM SchemaKnown == Spec => []KnowsItsSchema
<1>1. IInv => KnowsItsSchema
  <2> SUFFICES ASSUME IInv, NEW p \in Procs, Serves(p)
               PROVE  Highest(applied) = procs[p].known
    BY DEF KnowsItsSchema
  <2>1. Behind(procs[p], release, Len(changes))
    BY DEF IInv
  <2>. QED BY <2>1, NewestApplied DEF Serves, Behind
<1>. QED BY Inductive, <1>1, PTL
-----------------------------------------------------------------------------
Counts == [starts : Nat, deaths : Nat, kills : BOOLEAN]

AInv == TypeOK /\ spent \in Counts /\ Alone

LEMMA Spending ==
    ASSUME spent \in Counts, NEW bound,
           Spend("starts", bound) \/ Spend("deaths", bound)
    PROVE  spent' \in Counts /\ spent'.kills = spent.kills
BY DEF Spend, Counts

(* A step that brings no service to life.                                  *)
LEMMA NoneBorn ==
    ASSUME AInv, spent' \in Counts, spent'.kills = spent.kills,
           shell'.at = shell.at, shell'.worker = shell.worker, shell'.child = shell.child,
           \A q \in Procs : procs'[q].at # "none" => procs[q].at # "none"
    PROVE  Alone'
BY DEF AInv, Alone

LEMMA NextAlone ==
    ASSUME AInv, TypeOK', Next \/ UNCHANGED vars
    PROVE  AInv'
<1> USE LifeAssumption
<1>1. CASE OpenShell
  <2>1. spent' \in Counts /\ spent'.kills = spent.kills
    BY <1>1, Spending DEF OpenShell, AInv
  <2>2. shell.at = "off" /\ procs' = procs /\ shell'.worker = "preparing" /\ shell'.child = None
        /\ shell'.at = "open"
    BY <1>1 DEF OpenShell, Off
  <2>. QED BY <2>1, <2>2 DEF AInv, Alone
<1>2. CASE Refuse \/ SpawnFails
  <2>1. /\ shell.worker = "preparing" /\ shell'.worker = "done"
        /\ shell'.child = shell.child /\ shell'.at = shell.at
        /\ UNCHANGED <<procs, spent>>
    BY <1>2 DEF Refuse, SpawnFails, AInv, TypeOK, Shells
  <2>. QED BY <2>1 DEF AInv, Alone
<1>3. ASSUME NEW p \in Procs, Spawn(p)
      PROVE  AInv'
  <2>1. /\ shell.worker = "preparing" /\ shell'.worker = p
        /\ shell'.child = shell.child /\ shell'.at = shell.at /\ UNCHANGED spent
        /\ \A q \in Procs \ {p} : procs'[q] = procs[q]
    BY <1>3 DEF Spawn, AInv, TypeOK, Shells
  <2>. QED BY <2>1 DEF AInv, Alone
<1>4. CASE HandOver
  <2>1. /\ shell.worker \in Procs /\ shell'.worker = "done" /\ shell'.at = shell.at
        /\ UNCHANGED spent
    BY <1>4 DEF HandOver, AInv, TypeOK, Shells
  <2>2. \A q \in Procs : procs'[q].at = procs[q].at
    <3> DEFINE told(s) == [s EXCEPT !.lines = TRUE]
    <3>1. \A s \in Services : told(s).at = s.at
      BY DEF Services
    <3> HIDE DEF told
    <3>2. procs' = procs \/ procs' = [procs EXCEPT ![shell.worker] = told(procs[shell.worker])]
      BY <1>4 DEF HandOver, told
    <3>. QED BY <3>1, <3>2 DEF AInv, TypeOK
  <2>3. \/ shell'.child = shell.worker
        \/ shell'.child = shell.child /\ procs[shell.worker].at = "none"
    BY <1>4 DEF HandOver, AInv, TypeOK, Shells
  <2>. QED BY <2>1, <2>2, <2>3 DEF AInv, Alone
<1>5. CASE NoteExit
  <2>1. /\ procs[shell.child].at = "none" /\ shell'.child = None /\ shell'.at = shell.at
        /\ shell'.worker = shell.worker /\ UNCHANGED <<procs, spent>>
    BY <1>5 DEF NoteExit, AInv, TypeOK, Shells
  <2>. QED BY <2>1 DEF AInv, Alone
<1>6. CASE Stop \/ EndShell
  <2>1. \A q \in Procs : Killed[q].at # "none" => procs[q].at # "none" /\ q # shell.child
    BY DEF Killed, Nobody
  <2>2. CASE Stop
    <3>1. /\ procs' = Killed /\ shell'.child = None /\ shell'.at = "open"
          /\ shell'.worker = shell.worker /\ UNCHANGED spent
      BY <2>2 DEF Stop, AInv, TypeOK, Shells
    <3>. QED BY <2>1, <3>1 DEF AInv, Alone
  <2>3. CASE EndShell
    <3>1. \A q \in Procs : Shut(Killed)[q].at # "none" => Killed[q].at # "none"
      BY DEF Shut, Nobody
    <3>2. /\ procs' = Shut(Killed) /\ shell'.child = None /\ shell'.at = "off"
          /\ shell'.worker = "done" /\ shell.worker \notin Procs /\ UNCHANGED spent
      BY <2>3 DEF EndShell, LockFree, Off
    <3>. QED BY <2>1, <3>1, <3>2 DEF AInv, Alone
  <2>. QED BY <1>6, <2>2, <2>3
<1>7. CASE KillShell
  BY <1>7 DEF KillShell, AInv, Alone, Counts
<1>8. CASE Install
  BY <1>8 DEF Install, AInv, Alone
<1>9. ASSUME NEW p \in Procs, Work(p) \/ Signal(p) \/ Die(p)
      PROVE  AInv'
  <2>1. spent' \in Counts /\ spent'.kills = spent.kills
    BY <1>9, Spending DEF AInv, Work, Signal, Die, Handshake, NoHandshake, ReadState, BeginBackup,
       EndBackup, BeginMigration, EndMigration, Listen, Watch, Lost, Close
  <2>2. shell' = shell
    BY <1>9 DEF Work, Signal, Die, Handshake, NoHandshake, ReadState, BeginBackup,
       EndBackup, BeginMigration, EndMigration, Listen, Watch, Lost, Close
  <2>3. procs[p].at # "none" /\ \A q \in Procs \ {p} : procs'[q] = procs[q]
    BY <1>9 DEF AInv, TypeOK, Work, Signal, Die, Handshake, NoHandshake, ReadState, BeginBackup,
       EndBackup, BeginMigration, EndMigration, Listen, Watch, Lost, Close, To, Exit, Serves
  <2>. QED BY <2>1, <2>2, <2>3, NoneBorn DEF AInv
<1>10. CASE UNCHANGED vars
  BY <1>10 DEF vars, AInv, Alone
<1>. QED BY <1>1, <1>2, <1>3, <1>4, <1>5, <1>6, <1>7, <1>8, <1>9, <1>10
     DEF Next, Outside, Worker

(* lib.rs:109, orphan-sweep.ts:72: as long as no shell is killed, one      *)
(* service at most is alive, however shells are opened and closed.         *)
THEOREM OneService == Spec => []OneServiceAtATime
<1>1. Init => AInv
  <2> SUFFICES ASSUME Init PROVE AInv
    OBVIOUS
  <2>1. TypeOK
    BY InitIInv DEF IInv
  <2>2. spent \in Counts
    BY DEF Init, Counts
  <2>3. Alone
    BY DEF Init, Alone, Off, Nobody
  <2>. QED BY <2>1, <2>2, <2>3 DEF AInv
<1>2. AInv /\ TypeOK' /\ [Next]_vars => AInv'
  BY NextAlone
<1>3. AInv => OneServiceAtATime
  <2> SUFFICES ASSUME AInv, ~spent.kills
               PROVE  Cardinality(Alive) <= 1
    BY DEF OneServiceAtATime
  <2>1. Alive = {} \/ \E p \in Procs : Alive = {p}
    <3>1. \A p, q \in Alive : p = q
      BY LifeAssumption DEF Alive, AInv, Alone
    <3>. QED BY <3>1 DEF Alive
  <2>2. Cardinality({}) = 0 /\ \A p \in Procs : Cardinality({p}) = 1
    BY FS_EmptySet, FS_Singleton
  <2>. QED BY <2>1, <2>2
<1>. QED BY <1>1, <1>2, <1>3, TypeCorrect, PTL DEF Spec
===============================================================================
