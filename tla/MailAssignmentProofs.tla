------------------------- MODULE MailAssignmentProofs -------------------------
(***************************************************************************)
(* Each request of the add-in takes effect once, receipts and entries      *)
(* stand together, and a pane shows what it sent and what is stored, for   *)
(* any number of panes, mails, requests and todos.                         *)
(*                                                                         *)
(* The argument: a request that has left an entry has left its receipt,    *)
(* and both go with the same todo.  assignMail writes an entry only where  *)
(* there is no receipt of the request, so a second entry of it cannot      *)
(* arise; and a todo made by a request has the entry it was made with.     *)
(* Of the tables and of an archive alike, keys tell requests and mails     *)
(* apart; an answer goes to the pane that still waits for it.              *)
(***************************************************************************)
EXTENDS MailAssignment, TLAPS

(* What holds of the three tables, and of their image in an archive.       *)
OneEntryPerRequest(E) == \A d, e \in E : d.by = e.by => d = e

EntryHasReceipt(E, R) ==
    \A e \in E : \E x \in R : x.key = RequestKey(e.by) /\ x.todo = e.todo

TodoHasEntry(T, E) ==
    \A t \in DOMAIN T : T[t].by # None => \E e \in E : e.todo = t /\ e.by = T[t].by

Consistent(T, E, R) ==
    /\ OneEntryPerRequest(E)
    /\ EntryHasReceipt(E, R)
    /\ TodoHasEntry(T, E)
    /\ \A e \in E : e.todo \in DOMAIN T

IInv ==
    /\ Consistent(todos, entries, receipts)
    /\ Consistent(archive.todos, archive.entries, archive.receipts)
    /\ born \subseteq Todos
    /\ DOMAIN todos \subseteq born
    /\ DOMAIN archive.todos \subseteq born

(* The three tables and what is known of them hold on to when a step       *)
(* touches none of them.                                                   *)
LEMMA Untouched ==
    ASSUME IInv, UNCHANGED <<database, archive, born>>
    PROVE  IInv'
BY DEF IInv, Consistent, OneEntryPerRequest, EntryHasReceipt, TodoHasEntry, database

(* The mail entry of a request that has no receipt is its first.           *)
LEMMA Recording ==
    ASSUME IInv, NEW post, NEW t, Record(post, t), ReceiptsOf(RequestKey(post.req)) = {}
    PROVE  OneEntryPerRequest(entries') /\ EntryHasReceipt(entries', receipts')
<1> DEFINE new == [todo |-> t, mail |-> post.input.mail, by |-> post.req]
           x == [key |-> RequestKey(post.req), print |-> post.input, todo |-> t]
<1>1. \A e \in entries : e.by # post.req
  BY DEF IInv, Consistent, EntryHasReceipt, ReceiptsOf
<1>2. entries' = entries \cup {new} /\ new.by = post.req /\ new.todo = t
  BY DEF Record
<1>3. /\ receipts \subseteq receipts'
      /\ x \in receipts' /\ x.key = RequestKey(post.req) /\ x.todo = t
  BY DEF Record
<1>4. OneEntryPerRequest(entries')
  <2> SUFFICES ASSUME NEW d \in entries', NEW e \in entries', d.by = e.by
               PROVE  d = e
    BY DEF OneEntryPerRequest
  <2>. QED BY <1>1, <1>2 DEF IInv, Consistent, OneEntryPerRequest
<1>5. EntryHasReceipt(entries', receipts')
  <2> SUFFICES ASSUME NEW e \in entries'
               PROVE  \E y \in receipts' : y.key = RequestKey(e.by) /\ y.todo = e.todo
    BY DEF EntryHasReceipt
  <2>1. CASE e = new
    BY <2>1, <1>2, <1>3
  <2>2. CASE e \in entries
    BY <2>2, <1>3 DEF IInv, Consistent, EntryHasReceipt
  <2>. QED BY <2>1, <2>2, <1>2
<1>. QED BY <1>4, <1>5

LEMMA InitIInv == Init => IInv
BY DEF Init, IInv, Consistent, OneEntryPerRequest, EntryHasReceipt, TodoHasEntry

LEMMA StepAppend ==
    ASSUME IInv, NEW post, Append(post), ReceiptsOf(RequestKey(post.req)) = {}
    PROVE  IInv'
<1> USE DEF IInv, Consistent
<1>2. post.input.target \in DOMAIN todos
  BY DEF Append, Matches
<1>3. OneEntryPerRequest(entries') /\ EntryHasReceipt(entries', receipts')
  BY Recording DEF Append
<1>4. UNCHANGED <<todos, archive, born>>
  BY DEF Append, Record, Answer
<1>5. entries' = entries \cup {[todo |-> post.input.target, mail |-> post.input.mail, by |-> post.req]}
  BY DEF Append, Record
<1>6. TodoHasEntry(todos', entries')
  BY <1>4, <1>5 DEF TodoHasEntry
<1>7. \A e \in entries' : e.todo \in DOMAIN todos'
  BY <1>2, <1>4, <1>5
<1>. QED BY <1>3, <1>4, <1>6, <1>7

LEMMA StepCreate ==
    ASSUME IInv, NEW post, Create(post), ReceiptsOf(RequestKey(post.req)) = {}
    PROVE  IInv'
<1> USE DEF IInv, Consistent
<1>1. PICK t \in Todos \ born :
        /\ born' = born \cup {t}
        /\ todos' = [u \in DOMAIN todos \cup {t} |->
                       IF u = t THEN [call |-> post.input.call, by |-> post.req] ELSE todos[u]]
        /\ Record(post, t)
  BY DEF Create
<1>3. /\ DOMAIN todos' = DOMAIN todos \cup {t}
      /\ todos'[t].by = post.req
      /\ \A u \in DOMAIN todos : todos'[u] = todos[u]
  BY <1>1
<1>4. OneEntryPerRequest(entries') /\ EntryHasReceipt(entries', receipts')
  BY <1>1, Recording
<1>5. entries' = entries \cup {[todo |-> t, mail |-> post.input.mail, by |-> post.req]}
  BY <1>1 DEF Record
<1>6. TodoHasEntry(todos', entries')
  <2> DEFINE new == [todo |-> t, mail |-> post.input.mail, by |-> post.req]
  <2>1. new \in entries' /\ new.todo = t /\ new.by = post.req
    BY <1>5
  <2> SUFFICES ASSUME NEW u \in DOMAIN todos', todos'[u].by # None
               PROVE  \E e \in entries' : e.todo = u /\ e.by = todos'[u].by
    BY DEF TodoHasEntry
  <2>2. CASE u = t
    BY <2>1, <2>2, <1>3
  <2>3. CASE u # t
    <3>1. u \in DOMAIN todos /\ todos'[u] = todos[u]
      BY <2>3, <1>3
    <3>. QED BY <3>1, <1>5 DEF TodoHasEntry
  <2>. QED BY <2>2, <2>3
<1>7. \A e \in entries' : e.todo \in DOMAIN todos'
  BY <1>3, <1>5
<1>8. archive' = archive
  BY <1>1 DEF Record, Answer
<1>. QED BY <1>1, <1>3, <1>4, <1>6, <1>7, <1>8

LEMMA StepRemoveTodo ==
    ASSUME IInv, NEW t, RemoveTodo(t)
    PROVE  IInv'
<1> USE DEF IInv, Consistent
<1>1. /\ todos' = [u \in DOMAIN todos \ {t} |-> todos[u]]
      /\ entries' = {e \in entries : e.todo # t}
      /\ receipts' = {x \in receipts : x.todo # t}
      /\ UNCHANGED <<archive, born>>
  BY DEF RemoveTodo
<1>2. OneEntryPerRequest(entries')
  BY <1>1 DEF OneEntryPerRequest
<1>3. EntryHasReceipt(entries', receipts')
  BY <1>1 DEF EntryHasReceipt
<1>4. TodoHasEntry(todos', entries')
  BY <1>1 DEF TodoHasEntry
<1>5. \A e \in entries' : e.todo \in DOMAIN todos'
  BY <1>1
<1>. QED BY <1>1, <1>2, <1>3, <1>4, <1>5

LEMMA StepCreateTodo ==
    ASSUME IInv, NEW t \in Todos, NEW call, CreateTodo(t, call)
    PROVE  IInv'
<1> USE DEF IInv, Consistent
<1>1. /\ DOMAIN todos' = DOMAIN todos \cup {t} /\ t \notin DOMAIN todos
      /\ todos'[t].by = None
      /\ \A u \in DOMAIN todos : todos'[u] = todos[u]
      /\ born' = born \cup {t}
      /\ UNCHANGED <<entries, receipts, archive>>
  BY DEF CreateTodo
<1>2. TodoHasEntry(todos', entries')
  BY <1>1 DEF TodoHasEntry
<1>. QED BY <1>1, <1>2

LEMMA StepEditCall ==
    ASSUME IInv, NEW t, NEW call, EditCall(t, call)
    PROVE  IInv'
<1> USE DEF IInv, Consistent
<1>1. /\ DOMAIN todos' = DOMAIN todos
      /\ \A u \in DOMAIN todos : todos'[u].by = todos[u].by
      /\ UNCHANGED <<entries, receipts, archive, born>>
  BY DEF EditCall
<1>2. TodoHasEntry(todos', entries')
  BY <1>1 DEF TodoHasEntry
<1>. QED BY <1>1, <1>2

LEMMA StepImport ==
    ASSUME IInv, ImportArchive
    PROVE  IInv'
BY DEF IInv, Consistent, ImportArchive

LEMMA StepTake ==
    ASSUME IInv, TakeArchive
    PROVE  IInv'
<1>1. /\ archive'.todos = todos /\ archive'.entries = entries /\ archive'.receipts = receipts
      /\ UNCHANGED <<todos, entries, receipts, born>>
  BY DEF TakeArchive, database
<1>. QED BY <1>1 DEF IInv, Consistent

LEMMA StepAssignMail ==
    ASSUME IInv, NEW post \in posts, AssignMail(post)
    PROVE  IInv'
<1>1. CASE AnswerRepeated(post)
  BY <1>1, Untouched DEF AnswerRepeated, Answer
<1>2. CASE ReceiptsOf(RequestKey(post.req)) = {} /\ AnswerPresent(post)
  BY <1>2, Untouched DEF AnswerPresent, Answer
<1>3. CASE ReceiptsOf(RequestKey(post.req)) = {} /\ Append(post)
  BY <1>3, StepAppend
<1>4. CASE ReceiptsOf(RequestKey(post.req)) = {} /\ Create(post)
  BY <1>4, StepCreate
<1>5. CASE ReceiptsOf(RequestKey(post.req)) = {} /\ Refuse(post)
  BY <1>5, Untouched DEF Refuse, Answer
<1>. QED BY <1>1, <1>2, <1>3, <1>4, <1>5 DEF AssignMail

(* What the panes do, and a crash, touches neither the tables nor the      *)
(* archive.                                                                *)
PaneStep ==
    \E p \in Panes :
       \/ \E m \in Mails : OpenMail(p, m)
       \/ \E input \in Inputs : Submit(p, input)
       \/ GiveUp(p) \/ Receive(p) \/ Again(p)

LEMMA PaneStepUntouched ==
    ASSUME PaneStep \/ Crash \/ UNCHANGED vars
    PROVE  UNCHANGED <<database, archive, born>>
BY DEF PaneStep, Crash, vars, OpenMail, Submit, GiveUp, Receive, Again, Says, database

LEMMA StepIInv == IInv /\ [Next]_vars => IInv'
<1> SUFFICES ASSUME IInv, [Next]_vars
             PROVE  IInv'
  OBVIOUS
<1>1. CASE PaneStep \/ Crash \/ UNCHANGED vars
  BY <1>1, PaneStepUntouched, Untouched
<1>2. CASE \E post \in posts : AssignMail(post)
  BY <1>2, StepAssignMail
<1>3. CASE \E t \in Todos, call \in Calls \cup {None} : CreateTodo(t, call) \/ EditCall(t, call)
  BY <1>3, StepCreateTodo, StepEditCall
<1>4. CASE \E t \in Todos : RemoveTodo(t)
  BY <1>4, StepRemoveTodo
<1>5. CASE TakeArchive \/ ImportArchive
  BY <1>5, StepTake, StepImport
<1>. QED BY <1>1, <1>2, <1>3, <1>4, <1>5 DEF Next, PaneStep

THEOREM Consistency == Spec => []IInv
BY InitIInv, StepIInv, PTL DEF Spec
-----------------------------------------------------------------------------
(* A-10.13: there is one todo of a request at most, through retries, lost  *)
(* answers, crashes, removals and imports.                                 *)
THEOREM OneTodo == Spec => []OneTodoPerRequest
<1>1. IInv => OneTodoPerRequest
  BY DEF IInv, Consistent, OneEntryPerRequest, TodoHasEntry, OneTodoPerRequest
<1>. QED BY <1>1, Consistency, PTL
-----------------------------------------------------------------------------
(* The steps of the tables are steps of "each request takes effect once".  *)
LEMMA InitEffects == Init => Promise!Init
BY DEF Init, Promise!Init, EffectsOf

LEMMA RecordIsApply ==
    ASSUME IInv, NEW post, NEW t, Record(post, t), ReceiptsOf(RequestKey(post.req)) = {}
    PROVE  Promise!Apply(post.req, t)
<1>1. \A e \in entries : e.by # post.req
  BY DEF IInv, Consistent, EntryHasReceipt, ReceiptsOf
<1>2. \A e \in EffectsOf(entries) : e.req # post.req
  BY <1>1 DEF EffectsOf
<1>3. EffectsOf(entries') = EffectsOf(entries) \cup {[req |-> post.req, todo |-> t]}
  <2>1. entries' = entries \cup {[todo |-> t, mail |-> post.input.mail, by |-> post.req]}
    BY DEF Record
  <2>2. \A e \in entries' : e \in entries \/ e = [todo |-> t, mail |-> post.input.mail, by |-> post.req]
    BY <2>1
  <2>3. EffectsOf(entries') \subseteq EffectsOf(entries) \cup {[req |-> post.req, todo |-> t]}
    BY <2>2 DEF EffectsOf
  <2>4. EffectsOf(entries) \subseteq EffectsOf(entries')
    BY <2>1 DEF EffectsOf
  <2>5. [req |-> post.req, todo |-> t] \in EffectsOf(entries')
    <3> DEFINE new == [todo |-> t, mail |-> post.input.mail, by |-> post.req]
    <3>1. new \in entries' /\ new.by = post.req /\ new.todo = t
      BY <2>1
    <3> HIDE DEF new
    <3>. QED BY <3>1 DEF EffectsOf
  <2>. QED BY <2>3, <2>4, <2>5
<1>4. archive' = archive
  BY DEF Record, Answer
<1>. QED BY <1>2, <1>3, <1>4 DEF Promise!Apply

LEMMA StepEffects ==
    ASSUME IInv, posts \subseteq Posts, [Next]_vars
    PROVE  [Promise!Next]_(Promise!vars)
<1>1. ASSUME UNCHANGED <<entries, archive>>
      PROVE  UNCHANGED Promise!vars
  BY <1>1 DEF Promise!vars
<1>2. CASE PaneStep \/ Crash \/ UNCHANGED vars
  <2>1. UNCHANGED <<entries, archive>>
    BY <1>2, PaneStepUntouched DEF database
  <2>. QED BY <2>1, <1>1
<1>3. ASSUME NEW post \in posts, AssignMail(post)
      PROVE  [Promise!Next]_(Promise!vars)
  <2>1. post.req \in Requests
    BY <1>3 DEF Posts
  <2>2. CASE AnswerRepeated(post)
    BY <2>2, <1>1 DEF AnswerRepeated, Answer, database
  <2>3. CASE AnswerPresent(post)
    BY <2>3, <1>1 DEF AnswerPresent, Answer, database
  <2>4. CASE ReceiptsOf(RequestKey(post.req)) = {} /\ Append(post)
    <3>1. Promise!Apply(post.req, post.input.target)
      BY <2>4, RecordIsApply DEF Append
    <3>2. post.input.target \in Todos
      BY <2>4 DEF Append, Matches, IInv
    <3>. QED BY <3>1, <3>2, <2>1 DEF Promise!Next
  <2>5. CASE ReceiptsOf(RequestKey(post.req)) = {} /\ Create(post)
    <3>1. PICK t \in Todos : Record(post, t)
      BY <2>5 DEF Create
    <3>2. Promise!Apply(post.req, t)
      BY <3>1, <2>5, RecordIsApply
    <3>. QED BY <3>2, <2>1 DEF Promise!Next
  <2>6. CASE Refuse(post)
    BY <2>6, <1>1 DEF Refuse, Answer, database
  <2>. QED BY <1>3, <2>2, <2>3, <2>4, <2>5, <2>6 DEF AssignMail
<1>4. CASE \E t \in Todos, call \in Calls \cup {None} : CreateTodo(t, call) \/ EditCall(t, call)
  BY <1>4, <1>1 DEF CreateTodo, EditCall
<1>5. ASSUME NEW t \in Todos, RemoveTodo(t)
      PROVE  Promise!Next
  <2>1. EffectsOf(entries') = {e \in EffectsOf(entries) : e.todo # t}
    <3>1. entries' = {e \in entries : e.todo # t}
      BY <1>5 DEF RemoveTodo
    <3>. QED BY <3>1 DEF EffectsOf
  <2>2. Promise!End(t)
    BY <1>5, <2>1 DEF RemoveTodo, Promise!End
  <2>. QED BY <2>2 DEF Promise!Next
<1>6. CASE TakeArchive
  BY <1>6 DEF TakeArchive, database, Promise!Next, Promise!Save, EffectsOf
<1>7. CASE ImportArchive
  BY <1>7 DEF ImportArchive, Promise!Next, Promise!Restore
<1>. QED BY <1>2, <1>3, <1>4, <1>5, <1>6, <1>7 DEF Next, PaneStep
-----------------------------------------------------------------------------
LEMMA InitTypeOK == Init => TypeOK
<1> SUFFICES ASSUME Init
             PROVE  TypeOK
  OBVIOUS
<1>1. Closed \in PaneRecords /\ Closed.at = "closed"
  BY AttemptsAssumption DEF Closed, PaneRecords
<1>2. pane \in [Panes -> PaneRecords] /\ \A p \in Panes : pane[p].at = "closed"
  BY <1>1 DEF Init
<1>3. DOMAIN todos = {} /\ todos \in [DOMAIN todos -> TodoRecords] /\ archive.todos = todos
  BY DEF Init
<1>4. archive.entries = {} /\ archive.receipts = {} /\ answers \in [Panes -> Answers \cup {None}]
  BY DEF Init
<1>. QED BY <1>2, <1>3, <1>4 DEF Init, TypeOK

(* A pane whose record stays one of a pane.                                *)
LEMMA TypePaneSet ==
    ASSUME TypeOK, NEW p \in Panes, NEW q \in PaneRecords,
           q.at # "closed" => q.mail \in Mails /\ q.req \in Requests,
           pane' = [pane EXCEPT ![p] = q],
           UNCHANGED <<todos, entries, receipts, archive, born>>,
           asked' \subseteq Requests, posts' \subseteq Posts,
           answers' \in [Panes -> Answers \cup {None}]
    PROVE  TypeOK'
<1>1. pane' \in [Panes -> PaneRecords]
  BY DEF TypeOK
<1>2. \A r \in Panes : pane'[r].at # "closed" => pane'[r].mail \in Mails /\ pane'[r].req \in Requests
  BY DEF TypeOK
<1>. QED BY <1>1, <1>2 DEF TypeOK

LEMMA TypePane ==
    ASSUME TypeOK, PaneStep
    PROVE  TypeOK'
<1> PICK p \in Panes :
       \/ \E m \in Mails : OpenMail(p, m)
       \/ \E input \in Inputs : Submit(p, input)
       \/ GiveUp(p) \/ Receive(p) \/ Again(p)
  BY DEF PaneStep
<1>0. UNCHANGED <<todos, entries, receipts, archive, born>>
  BY DEF OpenMail, Submit, GiveUp, Receive, Again, Says, database
<1>a. /\ pane[p] \in PaneRecords
      /\ pane[p].at # "closed" => pane[p].mail \in Mails /\ pane[p].req \in Requests
  BY DEF TypeOK
<1>1. CASE \E m \in Mails : OpenMail(p, m)
  <2>1. PICK m \in Mails, r \in Requests \ asked :
          /\ asked' = asked \cup {r}
          /\ pane' = [pane EXCEPT ![p] =
               [@ EXCEPT !.mail = m, !.req = r, !.says = "",
                         !.at = IF pane[p].at = "waiting" THEN "waiting" ELSE "form"]]
          /\ UNCHANGED <<posts, answers>>
    BY <1>1 DEF OpenMail
  <2> DEFINE q == [pane[p] EXCEPT !.mail = m, !.req = r, !.says = "",
                                  !.at = IF pane[p].at = "waiting" THEN "waiting" ELSE "form"]
  <2>2. q \in PaneRecords /\ q.mail \in Mails /\ q.req \in Requests
    BY <1>a DEF PaneRecords
  <2>3. pane' = [pane EXCEPT ![p] = q]
    BY <2>1
  <2> HIDE DEF q
  <2>4. asked' \subseteq Requests /\ posts' \subseteq Posts /\ answers' \in [Panes -> Answers \cup {None}]
    BY <2>1 DEF TypeOK
  <2>. QED BY <1>0, <2>2, <2>3, <2>4, TypePaneSet
<1>2. CASE \E input \in Inputs : Submit(p, input)
  <2>1. PICK input \in Inputs : Submit(p, input)
    BY <1>2
  <2> DEFINE post == [pane |-> p, n |-> pane[p].n + 1, req |-> pane[p].req, input |-> input]
             q == [pane[p] EXCEPT !.n = post.n, !.at = "waiting", !.sent = post, !.says = ""]
  <2>2. pane[p].n \in 0..Attempts /\ pane[p].n < Attempts /\ pane[p].req \in Requests /\ pane[p].mail \in Mails
    BY <1>a, <2>1 DEF Submit, PaneRecords
  <2>3. pane[p].n + 1 \in 1..Attempts /\ pane[p].n + 1 \in 0..Attempts
    BY <2>2, AttemptsAssumption
  <2>4. post \in Posts /\ post.n \in 0..Attempts
    BY <2>2, <2>3 DEF Posts
  <2>5. /\ posts' = posts \cup {post}
        /\ pane' = [pane EXCEPT ![p] = q]
        /\ UNCHANGED <<asked, answers>>
    BY <2>1 DEF Submit
  <2>6. q \in PaneRecords /\ q.mail \in Mails /\ q.req \in Requests
    <3> HIDE DEF post
    <3>. QED BY <1>a, <2>2, <2>4 DEF PaneRecords
  <2> HIDE DEF q, post
  <2>7. asked' \subseteq Requests /\ posts' \subseteq Posts /\ answers' \in [Panes -> Answers \cup {None}]
    BY <2>4, <2>5 DEF TypeOK
  <2>. QED BY <1>0, <2>5, <2>6, <2>7, TypePaneSet
<1>3. ASSUME NEW says \in {"", "unknown", "denied", "saved"}, Says(p, says), pane[p].at = "waiting"
      PROVE  TypeOK'
  <2> DEFINE q == IF pane[p].sent.req = pane[p].req
                  THEN [pane[p] EXCEPT !.at = IF says = "saved" THEN "done" ELSE "form",
                                       !.says = says, !.shown = answers[p]]
                  ELSE [pane[p] EXCEPT !.at = "form"]
  <2>1. answers[p] \in Answers \cup {None}
    BY DEF TypeOK
  <2>2. q \in PaneRecords /\ q.mail \in Mails /\ q.req \in Requests
    BY <1>3, <1>a, <2>1 DEF PaneRecords
  <2>3. pane' = [pane EXCEPT ![p] = q]
    BY <1>3 DEF Says
  <2> HIDE DEF q
  <2>4. asked' \subseteq Requests /\ posts' \subseteq Posts /\ answers' \in [Panes -> Answers \cup {None}]
    BY <1>3 DEF TypeOK, Says
  <2>. QED BY <1>0, <2>2, <2>3, <2>4, TypePaneSet
<1>4. CASE GiveUp(p) \/ Receive(p)
  BY <1>3, <1>4 DEF GiveUp, Receive
<1>5. CASE Again(p)
  <2>1. PICK r \in Requests \ asked :
          /\ asked' = asked \cup {r}
          /\ pane' = [pane EXCEPT ![p] = [@ EXCEPT !.req = r, !.at = "form", !.says = ""]]
          /\ UNCHANGED <<posts, answers>>
    BY <1>5 DEF Again
  <2> DEFINE q == [pane[p] EXCEPT !.req = r, !.at = "form", !.says = ""]
  <2>2. q \in PaneRecords /\ q.mail \in Mails /\ q.req \in Requests
    BY <1>a, <1>5 DEF PaneRecords, Again
  <2>3. pane' = [pane EXCEPT ![p] = q]
    BY <2>1
  <2> HIDE DEF q
  <2>4. asked' \subseteq Requests /\ posts' \subseteq Posts /\ answers' \in [Panes -> Answers \cup {None}]
    BY <2>1 DEF TypeOK
  <2>. QED BY <1>0, <2>2, <2>3, <2>4, TypePaneSet
<1>. QED BY <1>1, <1>2, <1>4, <1>5

LEMMA TypeAnswer ==
    ASSUME TypeOK, NEW post \in posts, NEW answer \in Answers, Answer(post, answer)
    PROVE  /\ posts' \subseteq Posts
           /\ answers' \in [Panes -> Answers \cup {None}]
           /\ UNCHANGED <<archive, asked, pane>>
BY DEF TypeOK, Answer, Posts

LEMMA TypeRecord ==
    ASSUME TypeOK, NEW post \in posts, NEW t \in Todos, Record(post, t)
    PROVE  /\ entries' \subseteq Entries
           /\ receipts' \subseteq Receipts
           /\ \A e \in entries' : e \in entries \/ e.todo = t
           /\ \A x \in receipts' : x \in receipts \/ x.todo = t
           /\ posts' \subseteq Posts
           /\ answers' \in [Panes -> Answers \cup {None}]
           /\ UNCHANGED <<archive, asked, pane>>
<1>1. post.req \in Requests /\ post.input \in Inputs /\ post.input.mail \in Mails
  BY DEF TypeOK, Posts, Inputs
<1>2. [ok |-> TRUE, todo |-> t, print |-> post.input] \in Answers
  BY <1>1 DEF Answers
<1>3. [todo |-> t, mail |-> post.input.mail, by |-> post.req] \in Entries
  BY <1>1 DEF Entries
<1>4. \A k \in {MailKey(t, post.input.mail), RequestKey(post.req)} :
         [key |-> k, print |-> post.input, todo |-> t] \in Receipts
  BY <1>1 DEF Receipts, Keys, MailKey, RequestKey
<1>5. entries' \subseteq Entries /\ \A e \in entries' : e \in entries \/ e.todo = t
  BY <1>3 DEF Record, TypeOK
<1>6. receipts' \subseteq Receipts /\ \A x \in receipts' : x \in receipts \/ x.todo = t
  BY <1>4 DEF Record, TypeOK
<1>. QED BY <1>2, <1>5, <1>6, TypeAnswer DEF Record

LEMMA TypeAssign ==
    ASSUME TypeOK, NEW post \in posts, AssignMail(post)
    PROVE  TypeOK'
<1>0. post.req \in Requests /\ post.input \in Inputs /\ post.input.call \in Calls \cup {None}
  BY DEF TypeOK, Posts, Inputs
<1>1. \A x \in receipts : Stored(x) \in Answers
  BY DEF TypeOK, Receipts, Stored, Answers
<1>2. Refused \in Answers
  BY DEF Refused, Answers
<1>3. ASSUME NEW answer \in Answers, Answer(post, answer), UNCHANGED <<database, born>>
      PROVE  TypeOK'
  BY <1>3, TypeAnswer DEF TypeOK, database
<1>4. CASE AnswerRepeated(post)
  BY <1>4, <1>1, <1>2, <1>3 DEF AnswerRepeated, ReceiptsOf
<1>5. CASE AnswerPresent(post)
  <2>1. post.input.target \in Todos
    BY <1>5 DEF AnswerPresent, Matches, TypeOK
  <2>2. [ok |-> TRUE, todo |-> post.input.target, print |-> None] \in Answers
    BY <2>1 DEF Answers
  <2>. QED BY <1>5, <1>1, <1>3, <2>2 DEF AnswerPresent, ReceiptsOf
<1>6. CASE Append(post)
  <2>1. post.input.target \in Todos /\ post.input.target \in DOMAIN todos
    BY <1>6 DEF Append, Matches, TypeOK
  <2>2. Record(post, post.input.target) /\ UNCHANGED <<todos, born>>
    BY <1>6 DEF Append
  <2>. QED BY <2>1, <2>2, TypeRecord DEF TypeOK
<1>7. CASE Create(post)
  <2>1. PICK t \in Todos \ born :
          /\ born' = born \cup {t}
          /\ todos' = [u \in DOMAIN todos \cup {t} |->
                         IF u = t THEN [call |-> post.input.call, by |-> post.req] ELSE todos[u]]
          /\ Record(post, t)
    BY <1>7 DEF Create
  <2>2. [call |-> post.input.call, by |-> post.req] \in TodoRecords
    BY <1>0 DEF TodoRecords
  <2>3. DOMAIN todos' = DOMAIN todos \cup {t} /\ todos' \in [DOMAIN todos' -> TodoRecords]
    BY <2>1, <2>2 DEF TypeOK
  <2>. QED BY <2>1, <2>3, TypeRecord DEF TypeOK
<1>8. CASE Refuse(post)
  BY <1>8, <1>2, <1>3 DEF Refuse
<1>. QED BY <1>4, <1>5, <1>6, <1>7, <1>8 DEF AssignMail

LEMMA StepTypeOK == TypeOK /\ [Next]_vars => TypeOK'
<1> SUFFICES ASSUME TypeOK, [Next]_vars
             PROVE  TypeOK'
  OBVIOUS
<1>1. CASE PaneStep
  BY <1>1, TypePane
<1>2. CASE \E post \in posts : AssignMail(post)
  BY <1>2, TypeAssign
<1>3. CASE Crash
  BY <1>3 DEF Crash, TypeOK, database
<1>4. ASSUME NEW t \in Todos, NEW call \in Calls \cup {None}, CreateTodo(t, call)
      PROVE  TypeOK'
  <2>1. [call |-> call, by |-> None] \in TodoRecords
    BY DEF TodoRecords
  <2>2. DOMAIN todos' = DOMAIN todos \cup {t} /\ todos' \in [DOMAIN todos' -> TodoRecords]
    BY <1>4, <2>1 DEF CreateTodo, TypeOK
  <2>. QED BY <1>4, <2>2 DEF CreateTodo, TypeOK
<1>5. ASSUME NEW t \in Todos, NEW call \in Calls \cup {None}, EditCall(t, call)
      PROVE  TypeOK'
  <2>1. [call |-> call, by |-> todos[t].by] \in TodoRecords
    BY <1>5 DEF EditCall, TypeOK, TodoRecords
  <2>2. DOMAIN todos' = DOMAIN todos /\ todos' \in [DOMAIN todos' -> TodoRecords]
    BY <1>5, <2>1 DEF EditCall, TypeOK
  <2>. QED BY <1>5, <2>2 DEF EditCall, TypeOK
<1>6. ASSUME NEW t \in Todos, RemoveTodo(t)
      PROVE  TypeOK'
  <2>1. DOMAIN todos' = DOMAIN todos \ {t} /\ todos' \in [DOMAIN todos' -> TodoRecords]
    BY <1>6 DEF RemoveTodo, TypeOK
  <2>. QED BY <1>6, <2>1 DEF RemoveTodo, TypeOK
<1>7. CASE TakeArchive
  BY <1>7 DEF TakeArchive, TypeOK, database
<1>8. CASE ImportArchive
  BY <1>8 DEF ImportArchive, TypeOK
<1>9. CASE UNCHANGED vars
  BY <1>9 DEF vars, database, TypeOK
<1>. QED BY <1>1, <1>2, <1>3, <1>4, <1>5, <1>6, <1>7, <1>8, <1>9 DEF Next, PaneStep

(* The types and the references of the schema.                             *)
THEOREM TypeCorrect == Spec => []TypeOK
BY InitTypeOK, StepTypeOK, PTL DEF Spec

(* The tables implement the promise of A-10.13: each request takes effect  *)
(* once, an effect ends with its todo and comes back with an archive.      *)
THEOREM Implementation == Spec => EachRequestOnce
<1>1. IInv /\ TypeOK /\ [Next]_vars => [Promise!Next]_(Promise!vars)
  BY StepEffects DEF TypeOK
<1>. QED BY <1>1, InitEffects, Consistency, TypeCorrect, PTL DEF Spec, EachRequestOnce, Promise!Spec
-----------------------------------------------------------------------------
(* The receipts and the entries of the tables, and of an archive, come in  *)
(* pairs: every entry has the receipt of its mail (that of its request is  *)
(* EntryHasReceipt), every receipt is one of an entry of its todo, and the *)
(* keys are unique.                                                        *)
OneEntryPerMail(E) == \A d, e \in E : d.todo = e.todo /\ d.mail = e.mail => d = e

MailHasReceipt(E, R) == \A e \in E : \E x \in R : x.key = MailKey(e.todo, e.mail) /\ x.todo = e.todo

IsReceiptOf(x, e) ==
    /\ x.todo = e.todo /\ x.print.mail = e.mail
    /\ x.key = MailKey(e.todo, e.mail) \/ x.key = RequestKey(e.by)

ReceiptHasEntry(E, R) == \A x \in R : \E e \in E : IsReceiptOf(x, e)

KeysApart(R) == \A x, y \in R : x.key = y.key => x = y

Paired(E, R) ==
    /\ OneEntryPerMail(E)
    /\ MailHasReceipt(E, R)
    /\ ReceiptHasEntry(E, R)
    /\ KeysApart(R)

PairInv == Paired(entries, receipts) /\ Paired(archive.entries, archive.receipts)

(* The key of a request is never that of a mail, and each names what it is *)
(* the key of.                                                             *)
LEMMA KeysDiffer ==
    ASSUME NEW m \in Mails, NEW t, NEW r
    PROVE  MailKey(t, m) # RequestKey(r)
BY DistinctAssumption DEF MailKey, RequestKey

LEMMA KeysName ==
    ASSUME NEW t, NEW u, NEW m, NEW n
    PROVE  /\ MailKey(t, m) = MailKey(u, n) => t = u /\ m = n
           /\ RequestKey(t) = RequestKey(u) => t = u
BY DEF MailKey, RequestKey

LEMMA PairsRecorded ==
    ASSUME TypeOK, PairInv, NEW post \in posts, NEW t, Record(post, t),
           ReceiptsOf(RequestKey(post.req)) = {},
           \A e \in entries : e.todo # t \/ e.mail # post.input.mail
    PROVE  PairInv'
<1> DEFINE e0 == [todo |-> t, mail |-> post.input.mail, by |-> post.req]
           xm == [key |-> MailKey(t, post.input.mail), print |-> post.input, todo |-> t]
           xr == [key |-> RequestKey(post.req), print |-> post.input, todo |-> t]
<1>1. post.input.mail \in Mails
  BY DEF TypeOK, Posts, Inputs
<1>2. entries' = entries \cup {e0} /\ archive' = archive
  BY DEF Record, Answer
<1>3. receipts' = receipts \cup {xm, xr}
  BY DEF Record
<1>4. e0.todo = t /\ e0.mail = post.input.mail /\ e0.by = post.req
  OBVIOUS
<1>5. /\ xm.key = MailKey(t, post.input.mail) /\ xm.print = post.input /\ xm.todo = t
      /\ xr.key = RequestKey(post.req) /\ xr.print = post.input /\ xr.todo = t
  OBVIOUS
<1>6. xm.key # xr.key
  BY <1>1, <1>5, KeysDiffer
<1>7. \A y \in receipts : y.key # xr.key
  BY <1>5 DEF ReceiptsOf
<1> HIDE DEF e0, xm, xr
<1>8. \A y \in receipts : y.key # xm.key
  <2> SUFFICES ASSUME NEW y \in receipts, y.key = MailKey(t, post.input.mail)
               PROVE  FALSE
    BY <1>5
  <2>1. PICK e \in entries : IsReceiptOf(y, e)
    BY DEF PairInv, Paired, ReceiptHasEntry
  <2>2. y.key # RequestKey(e.by)
    BY <1>1, KeysDiffer
  <2>3. e.todo = t /\ e.mail = post.input.mail
    BY <2>1, <2>2, KeysName DEF IsReceiptOf
  <2>. QED BY <2>3
<1>9. OneEntryPerMail(entries')
  <2> SUFFICES ASSUME NEW d \in entries', NEW e \in entries', d.todo = e.todo, d.mail = e.mail
               PROVE  d = e
    BY DEF OneEntryPerMail
  <2>. QED BY <1>2, <1>4 DEF PairInv, Paired, OneEntryPerMail
<1>10. MailHasReceipt(entries', receipts')
  <2> SUFFICES ASSUME NEW e \in entries'
               PROVE  \E x \in receipts' : x.key = MailKey(e.todo, e.mail) /\ x.todo = e.todo
    BY DEF MailHasReceipt
  <2>. QED BY <1>2, <1>3, <1>4, <1>5 DEF PairInv, Paired, MailHasReceipt
<1>11. ReceiptHasEntry(entries', receipts')
  <2> SUFFICES ASSUME NEW x \in receipts'
               PROVE  \E e \in entries' : IsReceiptOf(x, e)
    BY DEF ReceiptHasEntry
  <2>1. CASE x \in receipts
    BY <2>1, <1>2 DEF PairInv, Paired, ReceiptHasEntry
  <2>2. CASE x \in {xm, xr}
    BY <2>2, <1>2, <1>4, <1>5 DEF IsReceiptOf
  <2>. QED BY <2>1, <2>2, <1>3
<1>12. KeysApart(receipts')
  <2> SUFFICES ASSUME NEW x \in receipts', NEW y \in receipts', x.key = y.key
               PROVE  x = y
    BY DEF KeysApart
  <2>1. CASE x \in receipts /\ y \in receipts
    BY <2>1 DEF PairInv, Paired, KeysApart
  <2>2. CASE x \in {xm, xr} \/ y \in {xm, xr}
    BY <2>2, <1>3, <1>6, <1>7, <1>8
  <2>. QED BY <2>1, <2>2, <1>3
<1>. QED BY <1>2, <1>9, <1>10, <1>11, <1>12 DEF PairInv, Paired

(* The pairs of a todo leave the tables together.                          *)
LEMMA PairsRemoved ==
    ASSUME PairInv, NEW t, RemoveTodo(t)
    PROVE  PairInv'
<1>1. /\ entries' = {e \in entries : e.todo # t}
      /\ receipts' = {x \in receipts : x.todo # t}
      /\ archive' = archive
  BY DEF RemoveTodo
<1>2. OneEntryPerMail(entries') /\ KeysApart(receipts')
  BY <1>1 DEF PairInv, Paired, OneEntryPerMail, KeysApart
<1>3. MailHasReceipt(entries', receipts')
  BY <1>1 DEF PairInv, Paired, MailHasReceipt
<1>4. ReceiptHasEntry(entries', receipts')
  <2> SUFFICES ASSUME NEW x \in receipts'
               PROVE  \E e \in entries' : IsReceiptOf(x, e)
    BY DEF ReceiptHasEntry
  <2>1. PICK e \in entries : IsReceiptOf(x, e)
    BY <1>1 DEF PairInv, Paired, ReceiptHasEntry
  <2>2. e \in entries'
    BY <1>1, <2>1 DEF IsReceiptOf
  <2>. QED BY <2>1, <2>2
<1>. QED BY <1>1, <1>2, <1>3, <1>4 DEF PairInv, Paired

LEMMA InitPairInv == Init => PairInv
BY DEF Init, PairInv, Paired, OneEntryPerMail, MailHasReceipt, ReceiptHasEntry, KeysApart

LEMMA StepPairInv == TypeOK /\ PairInv /\ [Next]_vars => PairInv'
<1> SUFFICES ASSUME TypeOK, PairInv, [Next]_vars
             PROVE  PairInv'
  OBVIOUS
<1>1. ASSUME UNCHANGED <<entries, receipts, archive>>
      PROVE  PairInv'
  BY <1>1 DEF PairInv
<1>2. CASE PaneStep \/ Crash \/ UNCHANGED vars
  BY <1>1, <1>2, PaneStepUntouched DEF database
<1>3. ASSUME NEW post \in posts, AssignMail(post)
      PROVE  PairInv'
  <2>1. CASE AnswerRepeated(post) \/ AnswerPresent(post) \/ Refuse(post)
    BY <1>1, <2>1 DEF AnswerRepeated, AnswerPresent, Refuse, Answer, database
  <2>2. CASE ReceiptsOf(RequestKey(post.req)) = {} /\ Append(post)
    BY <2>2, PairsRecorded DEF Append
  <2>3. CASE ReceiptsOf(RequestKey(post.req)) = {} /\ Create(post)
    <3>1. PICK t \in Todos \ born : Record(post, t)
      BY <2>3 DEF Create
    <3>2. \A e \in entries : e.todo # t
      BY <3>1 DEF TypeOK
    <3>. QED BY <2>3, <3>1, <3>2, PairsRecorded
  <2>. QED BY <1>3, <2>1, <2>2, <2>3 DEF AssignMail
<1>4. CASE \E t \in Todos, call \in Calls \cup {None} : CreateTodo(t, call) \/ EditCall(t, call)
  BY <1>4, <1>1 DEF CreateTodo, EditCall
<1>5. CASE \E t \in Todos : RemoveTodo(t)
  BY <1>5, PairsRemoved
<1>6. CASE TakeArchive
  <2>1. /\ archive'.entries = entries /\ archive'.receipts = receipts
        /\ UNCHANGED <<entries, receipts>>
    BY <1>6 DEF TakeArchive, database
  <2>. QED BY <2>1 DEF PairInv
<1>7. CASE ImportArchive
  BY <1>7 DEF ImportArchive, PairInv
<1>. QED BY <1>2, <1>3, <1>4, <1>5, <1>6, <1>7 DEF Next, PaneStep

(* mail-assignment.ts: the receipts of a request and of a mail stand and   *)
(* fall with the entry they were written with, through removals of todos   *)
(* and imports of archives, and no insert of one meets a key in use.       *)
THEOREM ReceiptsPair == Spec => []ReceiptsStandWithEntries
<1>1. IInv /\ PairInv => ReceiptsStandWithEntries
  BY DEF IInv, Consistent, EntryHasReceipt, PairInv, Paired, MailHasReceipt, KeysApart,
         ReceiptsStandWithEntries
<1>. QED BY <1>1, InitPairInv, StepPairInv, Consistency, TypeCorrect, PTL DEF Spec
-----------------------------------------------------------------------------
(* What a pane waits for is what it sent last: no other request of its own *)
(* that is still under way carries the number of that attempt.             *)
SentInv ==
    \A p \in Panes :
      /\ \A post \in posts : post.pane = p => post.n <= pane[p].n
      /\ pane[p].at = "waiting" =>
           \A post \in posts : post.pane = p /\ post.n = pane[p].n => post = pane[p].sent

(* An answer of success is one for the form, on its way and in the pane.   *)
Meets(input, answer) == answer.print = input \/ answer.todo = input.target

ShownInv ==
    \A p \in Panes :
      /\ answers[p] # None =>
           /\ pane[p].at = "waiting"
           /\ answers[p].ok => Meets(pane[p].sent.input, answers[p])
      /\ pane[p].at = "done" => Meets(pane[p].sent.input, pane[p].shown)

(* The first use of an attempt's number is its own.                        *)
LEMMA SubmitSent ==
    ASSUME TypeOK, SentInv, NEW p \in Panes, NEW input \in Inputs, Submit(p, input)
    PROVE  SentInv'
<1> DEFINE post == [pane |-> p, n |-> pane[p].n + 1, req |-> pane[p].req, input |-> input]
<1>1. /\ posts' = posts \cup {post}
      /\ pane' = [pane EXCEPT ![p] =
           [pane[p] EXCEPT !.n = post.n, !.at = "waiting", !.sent = post, !.says = ""]]
  BY DEF Submit
<1>2. post.pane = p /\ post.n = pane[p].n + 1
  OBVIOUS
<1>3. /\ pane[p] \in PaneRecords /\ pane[p].n \in Nat
      /\ \A q \in posts : q.n \in Nat
  <2>1. pane[p] \in PaneRecords /\ pane[p].n \in 0..Attempts
    BY DEF TypeOK, PaneRecords
  <2>2. \A q \in posts : q.n \in 1..Attempts
    BY DEF TypeOK, Posts
  <2>. QED BY <2>1, <2>2, AttemptsAssumption
<1> HIDE DEF post
<1>4. pane'[p].n = post.n /\ pane'[p].sent = post
  BY <1>1, <1>3 DEF TypeOK, PaneRecords
<1>5. \A q \in Panes : q # p => pane'[q] = pane[q]
  BY <1>1 DEF TypeOK
<1>6. \A q \in posts : q.pane = p => q.n <= pane[p].n
  BY DEF SentInv
<1> SUFFICES ASSUME NEW q \in Panes
             PROVE  /\ \A x \in posts' : x.pane = q => x.n <= pane'[q].n
                    /\ pane'[q].at = "waiting" =>
                         \A x \in posts' : x.pane = q /\ x.n = pane'[q].n => x = pane'[q].sent
  BY DEF SentInv
<1>7. CASE q = p
  BY <1>7, <1>1, <1>2, <1>3, <1>4, <1>6
<1>8. CASE q # p
  BY <1>8, <1>1, <1>2, <1>5 DEF SentInv
<1>. QED BY <1>7, <1>8

(* The steps of a pane that send nothing: the number of the attempt and    *)
(* what was sent stay, and no pane begins to wait.                         *)
LEMMA PaneKeepsSent ==
    ASSUME TypeOK, NEW p \in Panes,
           (\E m \in Mails : OpenMail(p, m)) \/ GiveUp(p) \/ Receive(p) \/ Again(p)
    PROVE  /\ posts' = posts
           /\ \A q \in Panes : /\ pane'[q].n = pane[q].n /\ pane'[q].sent = pane[q].sent
                               /\ pane'[q].at = "waiting" => pane[q].at = "waiting"
<1>1. pane \in [Panes -> PaneRecords] /\ pane[p] \in PaneRecords
  BY DEF TypeOK
<1>2. CASE \E m \in Mails : OpenMail(p, m)
  <2>1. PICK m \in Mails, r \in Requests : /\ posts' = posts
          /\ pane' = [pane EXCEPT ![p] =
               [@ EXCEPT !.mail = m, !.req = r, !.says = "",
                         !.at = IF pane[p].at = "waiting" THEN "waiting" ELSE "form"]]
    BY <1>2 DEF OpenMail
  <2> DEFINE q == [pane[p] EXCEPT !.mail = m, !.req = r, !.says = "",
                                  !.at = IF pane[p].at = "waiting" THEN "waiting" ELSE "form"]
  <2>2. /\ q.n = pane[p].n /\ q.sent = pane[p].sent
        /\ q.at = "waiting" => pane[p].at = "waiting"
    BY <1>1 DEF PaneRecords
  <2>3. pane' = [pane EXCEPT ![p] = q]
    BY <2>1
  <2> HIDE DEF q
  <2>. QED BY <1>1, <2>1, <2>2, <2>3
<1>3. ASSUME NEW says, Says(p, says)
      PROVE  /\ posts' = posts
             /\ \A q \in Panes : /\ pane'[q].n = pane[q].n /\ pane'[q].sent = pane[q].sent
                                 /\ pane'[q].at = "waiting" => pane[q].at = "waiting"
  BY <1>1, <1>3 DEF Says, PaneRecords
<1>4. CASE GiveUp(p) \/ Receive(p)
  BY <1>3, <1>4 DEF GiveUp, Receive
<1>5. CASE Again(p)
  <2>1. PICK r \in Requests : /\ posts' = posts
          /\ pane' = [pane EXCEPT ![p] = [@ EXCEPT !.req = r, !.at = "form", !.says = ""]]
    BY <1>5 DEF Again
  <2> DEFINE q == [pane[p] EXCEPT !.req = r, !.at = "form", !.says = ""]
  <2>2. q.n = pane[p].n /\ q.sent = pane[p].sent /\ q.at = "form"
    BY <1>1 DEF PaneRecords
  <2>3. pane' = [pane EXCEPT ![p] = q]
    BY <2>1
  <2> HIDE DEF q
  <2>. QED BY <1>1, <2>1, <2>2, <2>3
<1>. QED BY <1>2, <1>4, <1>5

LEMMA StepSentInv == TypeOK /\ SentInv /\ [Next]_vars => SentInv'
<1> SUFFICES ASSUME TypeOK, SentInv, [Next]_vars
             PROVE  SentInv'
  OBVIOUS
<1>1. ASSUME posts' \subseteq posts, UNCHANGED pane
      PROVE  SentInv'
  BY <1>1 DEF SentInv
<1>2. ASSUME NEW p \in Panes, NEW input \in Inputs, Submit(p, input)
      PROVE  SentInv'
  BY <1>2, SubmitSent
<1>3. ASSUME NEW p \in Panes,
             (\E m \in Mails : OpenMail(p, m)) \/ GiveUp(p) \/ Receive(p) \/ Again(p)
      PROVE  SentInv'
  BY <1>3, PaneKeepsSent DEF SentInv
<1>4. ASSUME NEW post \in posts, AssignMail(post)
      PROVE  SentInv'
  BY <1>4, <1>1 DEF AssignMail, AnswerRepeated, AnswerPresent, Append, Create, Refuse, Record, Answer
<1>5. CASE Crash
  BY <1>5, <1>1 DEF Crash
<1>6. ASSUME UNCHANGED <<posts, pane>>
      PROVE  SentInv'
  BY <1>6, <1>1
<1>7. CASE \E t \in Todos, call \in Calls \cup {None} : CreateTodo(t, call) \/ EditCall(t, call)
  BY <1>7, <1>6 DEF CreateTodo, EditCall
<1>8. CASE \E t \in Todos : RemoveTodo(t)
  BY <1>8, <1>6 DEF RemoveTodo
<1>9. CASE TakeArchive \/ ImportArchive \/ UNCHANGED vars
  BY <1>9, <1>6 DEF TakeArchive, ImportArchive, vars
<1>. QED BY <1>2, <1>3, <1>4, <1>5, <1>7, <1>8, <1>9 DEF Next

(* The stored answer of a receipt is that of an entry with the same mail.  *)
LEMMA ReceiptTells ==
    ASSUME TypeOK, PairInv, NEW x \in receipts
    PROVE  /\ \E e \in entries : /\ e.todo = x.todo /\ e.todo \in DOMAIN todos
                                 /\ e.mail = x.print.mail
           /\ \A t : \A m \in Mails : x.key = MailKey(t, m) => x.todo = t
<1>1. PICK e \in entries : IsReceiptOf(x, e)
  BY DEF PairInv, Paired, ReceiptHasEntry
<1>2. ASSUME NEW t, NEW m \in Mails, x.key = MailKey(t, m)
      PROVE  x.todo = t
  <2>1. x.key # RequestKey(e.by)
    BY <1>2, KeysDiffer
  <2>. QED BY <1>1, <1>2, <2>1, KeysName DEF IsReceiptOf
<1>3. e.todo = x.todo /\ e.todo \in DOMAIN todos /\ e.mail = x.print.mail
  BY <1>1 DEF TypeOK, IsReceiptOf
<1>. QED BY <1>2, <1>3

(* Whatever assignMail answers, an answer of success is one for the form,  *)
(* and what it says is in the tables when it leaves.                       *)
IsStored(post, answer) ==
    /\ Meets(post.input, answer)
    /\ \E e \in entries' : /\ e.todo = answer.todo /\ e.todo \in DOMAIN todos'
                           /\ e.mail = post.input.mail

LEMMA AnswersAreTrue ==
    ASSUME TypeOK, PairInv, NEW post \in posts, AssignMail(post)
    PROVE  \E answer : Answer(post, answer) /\ (answer.ok => IsStored(post, answer))
<1>0. post.input.mail \in Mails
  BY DEF TypeOK, Posts, Inputs
<1>1. ASSUME NEW t, Record(post, t), t \in DOMAIN todos'
      PROVE  \E answer : Answer(post, answer) /\ (answer.ok => IsStored(post, answer))
  <2> DEFINE a == [ok |-> TRUE, todo |-> t, print |-> post.input]
             e0 == [todo |-> t, mail |-> post.input.mail, by |-> post.req]
  <2>1. Answer(post, a) /\ e0 \in entries'
    BY <1>1 DEF Record
  <2>2. a.todo = t /\ a.print = post.input /\ e0.todo = t /\ e0.mail = post.input.mail
    OBVIOUS
  <2> HIDE DEF a, e0
  <2>. QED BY <1>1, <2>1, <2>2 DEF IsStored, Meets
<1>2. CASE AnswerRepeated(post)
  <2>1. PICK x \in receipts :
          /\ Answer(post, IF x.print = post.input THEN Stored(x) ELSE Refused)
          /\ UNCHANGED <<database, born>>
    BY <1>2 DEF AnswerRepeated, ReceiptsOf
  <2>2. Stored(x).todo = x.todo /\ Stored(x).print = x.print /\ ~Refused.ok
    BY DEF Stored, Refused
  <2>3. CASE x.print = post.input
    <3>1. IsStored(post, Stored(x))
      BY <2>1, <2>2, <2>3, ReceiptTells DEF IsStored, Meets, database
    <3>. QED BY <2>1, <2>3, <3>1
  <2>4. CASE x.print # post.input
    BY <2>1, <2>2, <2>4
  <2>. QED BY <2>3, <2>4
<1>3. CASE AnswerPresent(post)
  <2> DEFINE t == post.input.target
             m == post.input.mail
  <2>1. /\ UNCHANGED <<entries, todos>>
        /\ t \in DOMAIN todos
        /\ \E e \in entries : e.todo = t /\ e.mail = m
    BY <1>3 DEF AnswerPresent, Matches, database
  <2>2. ASSUME NEW answer, answer.todo = t
        PROVE  IsStored(post, answer)
    BY <2>1, <2>2 DEF IsStored, Meets
  <2>3. CASE \E x \in ReceiptsOf(MailKey(t, m)) : Answer(post, Stored(x))
    <3>1. PICK x \in receipts : x.key = MailKey(t, m) /\ Answer(post, Stored(x))
      BY <2>3 DEF ReceiptsOf
    <3>2. Stored(x).todo = x.todo
      BY DEF Stored
    <3>3. x.todo = t
      BY <1>0, <3>1, ReceiptTells
    <3>. QED BY <2>2, <3>1, <3>2, <3>3
  <2>4. CASE Answer(post, [ok |-> TRUE, todo |-> t, print |-> None])
    <3> DEFINE a == [ok |-> TRUE, todo |-> t, print |-> None]
    <3>1. a.todo = t
      OBVIOUS
    <3> HIDE DEF a
    <3>. QED BY <2>2, <2>4, <3>1 DEF a
  <2>. QED BY <1>3, <2>3, <2>4 DEF AnswerPresent
<1>4. CASE Append(post)
  BY <1>1, <1>4 DEF Append, Matches
<1>5. CASE Create(post)
  BY <1>1, <1>5 DEF Create
<1>6. CASE Refuse(post)
  BY <1>6 DEF Refuse, Refused
<1>. QED BY <1>2, <1>3, <1>4, <1>5, <1>6 DEF AssignMail

(* The pane an answer goes to waits for this very request.                 *)
LEMMA AnswerReaches ==
    ASSUME TypeOK, SentInv, NEW post \in posts, NEW answer, Answer(post, answer),
           NEW p \in Panes, answers'[p] # answers[p]
    PROVE  pane[p].at = "waiting" /\ pane[p].sent = post /\ answers'[p] = answer
<1>1. /\ p = post.pane /\ pane[p].at = "waiting" /\ pane[p].n = post.n
      /\ answers'[p] = answer
  BY DEF Answer, TypeOK
<1>. QED BY <1>1 DEF SentInv

(* What the service calls stored, is: when an answer of success leaves it, *)
(* the todo it names exists and has the mail of the form.                  *)
THEOREM StoredWhenSaid == Spec => SuccessIsStored
<1>1. ASSUME TypeOK, PairInv, SentInv, Next,
             NEW p \in Panes, answers'[p] # answers[p], answers'[p] # None, answers'[p].ok
      PROVE  \E e \in entries' : /\ e.todo = answers'[p].todo /\ e.todo \in DOMAIN todos'
                                 /\ e.mail = pane[p].sent.input.mail
  <2>1. CASE PaneStep \/ Crash
    BY <1>1, <2>1 DEF PaneStep, Crash, OpenMail, Submit, GiveUp, Receive, Again, Says, TypeOK
  <2>2. ASSUME NEW post \in posts, AssignMail(post)
        PROVE  \E e \in entries' : /\ e.todo = answers'[p].todo /\ e.todo \in DOMAIN todos'
                                   /\ e.mail = pane[p].sent.input.mail
    <3>1. PICK answer : Answer(post, answer) /\ (answer.ok => IsStored(post, answer))
      BY <1>1, <2>2, AnswersAreTrue
    <3>2. pane[p].sent = post /\ answers'[p] = answer
      BY <1>1, <2>2, <3>1, AnswerReaches
    <3>. QED BY <1>1, <3>1, <3>2 DEF IsStored
  <2>3. CASE \E t \in Todos, call \in Calls \cup {None} : CreateTodo(t, call) \/ EditCall(t, call)
    BY <1>1, <2>3 DEF CreateTodo, EditCall
  <2>4. CASE \E t \in Todos : RemoveTodo(t)
    BY <1>1, <2>4 DEF RemoveTodo
  <2>5. CASE TakeArchive \/ ImportArchive
    BY <1>1, <2>5 DEF TakeArchive, ImportArchive
  <2>. QED BY <1>1, <2>1, <2>2, <2>3, <2>4, <2>5 DEF Next, PaneStep
<1>2. Init => SentInv
  BY DEF Init, SentInv, Closed
<1>3. TypeOK /\ PairInv /\ SentInv /\ [Next]_vars =>
        [\A p \in Panes :
           answers'[p] # answers[p] /\ answers'[p] # None /\ answers'[p].ok
             => \E e \in entries' : /\ e.todo = answers'[p].todo /\ e.todo \in DOMAIN todos'
                                    /\ e.mail = pane[p].sent.input.mail]_vars
  BY <1>1
<1>. QED BY <1>2, <1>3, InitPairInv, StepPairInv, StepSentInv, TypeCorrect, PTL
         DEF Spec, SuccessIsStored

(* A step of one pane whose answer and record meet in the end.             *)
LEMMA ShownSet ==
    ASSUME TypeOK, ShownInv, NEW p \in Panes, NEW q,
           pane' = [pane EXCEPT ![p] = q],
           \A r \in Panes : r # p => answers'[r] = answers[r],
           answers'[p] # None =>
             q.at = "waiting" /\ (answers'[p].ok => Meets(q.sent.input, answers'[p])),
           q.at = "done" => Meets(q.sent.input, q.shown)
    PROVE  ShownInv'
<1> SUFFICES ASSUME NEW r \in Panes
             PROVE  /\ answers'[r] # None =>
                         /\ pane'[r].at = "waiting"
                         /\ answers'[r].ok => Meets(pane'[r].sent.input, answers'[r])
                    /\ pane'[r].at = "done" => Meets(pane'[r].sent.input, pane'[r].shown)
  BY DEF ShownInv, Meets
<1>1. CASE r = p
  BY <1>1 DEF TypeOK
<1>2. CASE r # p
  BY <1>2 DEF TypeOK, ShownInv
<1>. QED BY <1>1, <1>2

LEMMA ShownPane ==
    ASSUME TypeOK, ShownInv, PaneStep
    PROVE  ShownInv'
<1> PICK p \in Panes :
       \/ \E m \in Mails : OpenMail(p, m)
       \/ \E input \in Inputs : Submit(p, input)
       \/ GiveUp(p) \/ Receive(p) \/ Again(p)
  BY DEF PaneStep
<1>0. pane[p] \in PaneRecords /\ answers \in [Panes -> Answers \cup {None}]
  BY DEF TypeOK
<1>a. /\ answers[p] # None =>
           /\ pane[p].at = "waiting"
           /\ answers[p].ok => Meets(pane[p].sent.input, answers[p])
      /\ pane[p].at = "done" => Meets(pane[p].sent.input, pane[p].shown)
  BY DEF ShownInv
<1>1. CASE \E m \in Mails : OpenMail(p, m)
  <2>1. PICK m \in Mails, r \in Requests : /\ answers' = answers
          /\ pane' = [pane EXCEPT ![p] =
               [@ EXCEPT !.mail = m, !.req = r, !.says = "",
                         !.at = IF pane[p].at = "waiting" THEN "waiting" ELSE "form"]]
    BY <1>1 DEF OpenMail
  <2> DEFINE q == [pane[p] EXCEPT !.mail = m, !.req = r, !.says = "",
                                  !.at = IF pane[p].at = "waiting" THEN "waiting" ELSE "form"]
  <2>2. /\ q.sent = pane[p].sent /\ q.at # "done"
        /\ pane[p].at = "waiting" => q.at = "waiting"
    BY <1>0 DEF PaneRecords
  <2>3. pane' = [pane EXCEPT ![p] = q]
    BY <2>1
  <2> HIDE DEF q
  <2>. QED BY <1>a, <2>1, <2>2, <2>3, ShownSet
<1>2. ASSUME NEW input \in Inputs, Submit(p, input)
      PROVE  ShownInv'
  <2> DEFINE post == [pane |-> p, n |-> pane[p].n + 1, req |-> pane[p].req, input |-> input]
             q == [pane[p] EXCEPT !.n = post.n, !.at = "waiting", !.sent = post, !.says = ""]
  <2>1. pane' = [pane EXCEPT ![p] = q] /\ answers' = answers /\ pane[p].at = "form"
    BY <1>2 DEF Submit
  <2>2. q.at = "waiting"
    BY <1>0 DEF PaneRecords
  <2>3. answers'[p] = None
    BY <1>a, <2>1
  <2> HIDE DEF q, post
  <2>. QED BY <2>1, <2>2, <2>3, ShownSet
<1>3. ASSUME NEW says, Says(p, says), pane[p].at = "waiting",
             says = "saved" => answers[p] # None /\ answers[p].ok
      PROVE  ShownInv'
  <2> DEFINE q == IF pane[p].sent.req = pane[p].req
                  THEN [pane[p] EXCEPT !.at = IF says = "saved" THEN "done" ELSE "form",
                                       !.says = says, !.shown = answers[p]]
                  ELSE [pane[p] EXCEPT !.at = "form"]
  <2>1. pane' = [pane EXCEPT ![p] = q] /\ answers' = [answers EXCEPT ![p] = None]
    BY <1>3 DEF Says
  <2>2. q.at = "done" => says = "saved" /\ q.sent = pane[p].sent /\ q.shown = answers[p]
    BY <1>0 DEF PaneRecords
  <2> HIDE DEF q
  <2>3. q.at = "done" => Meets(q.sent.input, q.shown)
    BY <1>3, <1>a, <2>2
  <2>4. answers'[p] = None /\ \A r \in Panes : r # p => answers'[r] = answers[r]
    BY <1>0, <2>1
  <2>. QED BY <2>1, <2>3, <2>4, ShownSet
<1>4. CASE GiveUp(p) \/ Receive(p)
  BY <1>3, <1>4 DEF GiveUp, Receive
<1>5. CASE Again(p)
  <2>1. PICK r \in Requests : /\ answers' = answers
          /\ pane' = [pane EXCEPT ![p] = [@ EXCEPT !.req = r, !.at = "form", !.says = ""]]
    BY <1>5 DEF Again
  <2> DEFINE q == [pane[p] EXCEPT !.req = r, !.at = "form", !.says = ""]
  <2>2. q.at = "form"
    BY <1>0 DEF PaneRecords
  <2>3. pane' = [pane EXCEPT ![p] = q]
    BY <2>1
  <2>4. pane[p].at # "waiting"
    BY <1>5 DEF Again
  <2>5. answers'[p] = None
    BY <1>a, <2>1, <2>4
  <2> HIDE DEF q
  <2>. QED BY <2>1, <2>2, <2>3, <2>5, ShownSet
<1>. QED BY <1>1, <1>2, <1>4, <1>5

LEMMA StepShownInv == TypeOK /\ PairInv /\ SentInv /\ ShownInv /\ [Next]_vars => ShownInv'
<1> SUFFICES ASSUME TypeOK, PairInv, SentInv, ShownInv, [Next]_vars
             PROVE  ShownInv'
  OBVIOUS
<1>1. CASE PaneStep
  BY <1>1, ShownPane
<1>2. ASSUME NEW post \in posts, AssignMail(post)
      PROVE  ShownInv'
  <2>1. PICK answer : Answer(post, answer) /\ (answer.ok => IsStored(post, answer))
    BY <1>2, AnswersAreTrue
  <2>2. pane' = pane
    BY <2>1 DEF Answer
  <2> SUFFICES ASSUME NEW p \in Panes, answers'[p] # answers[p]
               PROVE  /\ pane[p].at = "waiting"
                      /\ answers'[p].ok => Meets(pane[p].sent.input, answers'[p])
    BY <2>2 DEF ShownInv, Meets
  <2>3. pane[p].at = "waiting" /\ pane[p].sent = post /\ answers'[p] = answer
    BY <1>2, <2>1, AnswerReaches
  <2>. QED BY <2>1, <2>3 DEF IsStored
<1>3. CASE Crash
  BY <1>3 DEF Crash, ShownInv, Meets
<1>4. ASSUME UNCHANGED <<pane, answers>>
      PROVE  ShownInv'
  BY <1>4 DEF ShownInv, Meets
<1>5. CASE \E t \in Todos, call \in Calls \cup {None} : CreateTodo(t, call) \/ EditCall(t, call)
  BY <1>5, <1>4 DEF CreateTodo, EditCall
<1>6. CASE \E t \in Todos : RemoveTodo(t)
  BY <1>6, <1>4 DEF RemoveTodo
<1>7. CASE TakeArchive \/ ImportArchive \/ UNCHANGED vars
  BY <1>7, <1>4 DEF TakeArchive, ImportArchive, vars
<1>. QED BY <1>1, <1>2, <1>3, <1>5, <1>6, <1>7 DEF Next, PaneStep

(* A pane that shows success shows what this form asked for, or the todo   *)
(* it was sent to: an earlier form of the same request, and the answer to  *)
(* an attempt that was given up, are never passed off as it.               *)
THEOREM ShownIsSent == Spec => []ShownIsWhatWasSent
<1>1. Init => SentInv /\ ShownInv
  <2> SUFFICES ASSUME Init
               PROVE  SentInv /\ ShownInv
    OBVIOUS
  <2>1. \A p \in Panes : pane[p].at = "closed" /\ answers[p] = None
    BY DEF Init, Closed
  <2>2. posts = {}
    BY DEF Init
  <2>. QED BY <2>1, <2>2 DEF SentInv, ShownInv
<1>2. ShownInv => ShownIsWhatWasSent
  BY DEF ShownInv, Meets, ShownIsWhatWasSent
<1>. QED BY <1>1, <1>2, InitPairInv, StepPairInv, StepSentInv, StepShownInv, TypeCorrect, PTL
         DEF Spec
=============================================================================
