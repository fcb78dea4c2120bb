---------------------------- MODULE MailAssignment ----------------------------
(***************************************************************************)
(* The mail assignment of the Outlook add-in: a task pane sends a mail     *)
(* under the identity of a request, the service assigns it to a new todo   *)
(* or appends it to one in one transaction, with a receipt for the request *)
(* and one for the mail on the todo.  The answer may be late or lost, and  *)
(* the user sends again, perhaps with an edited form.                      *)
(*                                                                         *)
(* The tables are todo, todo_mail (entries) and addin_mail_receipt; both   *)
(* of the latter go with their todo (ON DELETE CASCADE).  The files a mail *)
(* brings are the subject of Attachments.                                  *)
(***************************************************************************)
EXTENDS Naturals, FiniteSets

CONSTANTS
    Panes,     \* task panes, one per Outlook window
    Mails,     \* identities of mails
    Requests,  \* identities of requests (randomUUID)
    Todos,     \* identities of todos
    Calls,     \* valid call numbers
    Texts,     \* what the user has filled in beside the call number
    Attempts,  \* bound of the model: how often a pane sends
    None,      \* no value
    New        \* the target of a request that wants a new todo

ASSUME DistinctAssumption ==
    /\ None \notin Mails \cup Requests \cup Todos \cup Calls
    /\ New \notin Todos

ASSUME AttemptsAssumption == Attempts \in Nat

(* The input of a request; the fingerprint is a digest of all of it.       *)
Inputs ==
    [mail : Mails, target : Todos \cup {New}, call : Calls \cup {None}, text : Texts]

VARIABLES
    todos,     \* per todo there is: its call number and the request it is from
    entries,   \* the mails on todos, each with the request that put it there
    receipts,  \* per key the fingerprint and the todo of the stored answer
    archive,   \* the last archive the user took, if any
    born,      \* history: the identities given to todos
    asked,     \* history: the identities given to requests
    posts,     \* requests on their way to the service or waiting there
    pane,      \* the task panes
    answers    \* per pane the answer on its way, or None

database == <<todos, entries, receipts>>

vars == <<todos, entries, receipts, archive, born, asked, posts, pane, answers>>
-----------------------------------------------------------------------------
Keys == [mail : Mails \cup {None}, req : Requests \cup {None}, on : Todos \cup {None}]

(* The two kinds of key of a receipt: the request, and `mail:todo:identity`. *)
RequestKey(r) == [mail |-> None, req |-> r, on |-> None]

MailKey(t, m) == [mail |-> m, req |-> None, on |-> t]

Receipts == [key : Keys, print : Inputs, todo : Todos]

Entries == [todo : Todos, mail : Mails, by : Requests]

Posts == [pane : Panes, n : 1..Attempts, req : Requests, input : Inputs]

Refused == [ok |-> FALSE, todo |-> None, print |-> None]

Stored(receipt) == [ok |-> TRUE, todo |-> receipt.todo, print |-> receipt.print]

Closed ==
    [mail |-> None, req |-> None, n |-> 0, at |-> "closed", says |-> "", sent |-> None, shown |-> None]

Answers == [ok : BOOLEAN, todo : Todos \cup {None}, print : Inputs \cup {None}]

PaneRecords ==
    [mail : Mails \cup {None}, req : Requests \cup {None}, n : 0..Attempts,
     at : {"closed", "form", "waiting", "done"}, says : {"", "unknown", "denied", "saved"},
     sent : Posts \cup {None}, shown : Answers \cup {None}]

TodoRecords == [call : Calls \cup {None}, by : Requests \cup {None}]
-----------------------------------------------------------------------------
(* The pane is opened on a mail or the user turns to another one: a fresh  *)
(* form and a fresh request.  One that is under way goes on.               *)
OpenMail(p, m) ==
    /\ \E r \in Requests \ asked :
         /\ asked' = asked \cup {r}
         /\ pane' = [pane EXCEPT ![p] =
              [@ EXCEPT !.mail = m, !.req = r, !.says = "",
                        !.at = IF pane[p].at = "waiting" THEN "waiting" ELSE "form"]]
    /\ UNCHANGED <<database, archive, born, posts, answers>>

(* The form as the user leaves it: a new todo, or one that was offered     *)
(* when the call number was looked up and may be another one by now.       *)
Submit(p, input) ==
    /\ pane[p].at = "form" /\ pane[p].n < Attempts
    /\ input.mail = pane[p].mail
    /\ input.target # New => input.target \in born /\ input.call # None
    /\ LET post == [pane |-> p, n |-> pane[p].n + 1, req |-> pane[p].req, input |-> input]
       IN  /\ posts' = posts \cup {post}
           /\ pane' = [pane EXCEPT ![p] =
                [@ EXCEPT !.n = post.n, !.at = "waiting", !.sent = post, !.says = ""]]
    /\ UNCHANGED <<database, archive, born, asked, answers>>

(* What the pane says of the attempt that has ended, and nothing when the  *)
(* user has turned to another mail.                                        *)
Says(p, says) ==
    /\ pane' = [pane EXCEPT ![p] =
         IF @.sent.req = @.req
         THEN [@ EXCEPT !.at = IF says = "saved" THEN "done" ELSE "form",
                        !.says = says, !.shown = answers[p]]
         ELSE [@ EXCEPT !.at = "form"]]
    /\ answers' = [answers EXCEPT ![p] = None]
    /\ UNCHANGED <<database, archive, born, asked, posts>>

(* No answer within 90 seconds, or no connection: the request may have     *)
(* arrived or may yet do so.                                               *)
GiveUp(p) == pane[p].at = "waiting" /\ Says(p, "unknown")

Receive(p) ==
    /\ pane[p].at = "waiting" /\ answers[p] # None
    /\ \/ answers[p].ok /\ Says(p, "saved")
       \/ ~answers[p].ok /\ Says(p, "denied")
       \/ answers[p].ok /\ Says(p, "denied")  \* the body did not arrive whole

(* "Another one": the mail stays, the request is a new one.                *)
Again(p) ==
    /\ pane[p].at = "done"
    /\ \E r \in Requests \ asked :
         /\ asked' = asked \cup {r}
         /\ pane' = [pane EXCEPT ![p] = [@ EXCEPT !.req = r, !.at = "form", !.says = ""]]
    /\ UNCHANGED <<database, archive, born, posts, answers>>
-----------------------------------------------------------------------------
(* The answer goes to the attempt that still waits for it.                 *)
Answer(post, answer) ==
    /\ posts' = posts \ {post}
    /\ answers' = IF pane[post.pane].at = "waiting" /\ pane[post.pane].n = post.n
                  THEN [answers EXCEPT ![post.pane] = answer]
                  ELSE answers
    /\ UNCHANGED <<archive, asked, pane>>

ReceiptsOf(key) == {x \in receipts : x.key = key}

FaultyAnswerRepeated(post) ==
    \E x \in ReceiptsOf(RequestKey(post.req)) :
       /\ Answer(post, Stored(x))
       /\ UNCHANGED <<database, born>>

(* A request that has its receipt changes nothing.                         *)
AnswerRepeated(post) ==
    \E x \in ReceiptsOf(RequestKey(post.req)) :
       /\ Answer(post, IF x.print = post.input THEN Stored(x) ELSE Refused)
       /\ UNCHANGED <<database, born>>

FaultyRecord(post, t) ==
    /\ entries' = entries \cup {[todo |-> t, mail |-> post.input.mail, by |-> post.req]}
    /\ receipts' = receipts \cup
         {[key |-> MailKey(t, post.input.mail), print |-> post.input, todo |-> t]}
    /\ Answer(post, [ok |-> TRUE, todo |-> t, print |-> post.input])

(* The mail entry and its two receipts, in the transaction of the todo.    *)
Record(post, t) ==
    /\ entries' = entries \cup {[todo |-> t, mail |-> post.input.mail, by |-> post.req]}
    /\ receipts' = receipts \cup
         {[key |-> k, print |-> post.input, todo |-> t] :
            k \in {MailKey(t, post.input.mail), RequestKey(post.req)}}
    /\ Answer(post, [ok |-> TRUE, todo |-> t, print |-> post.input])

Matches(post) ==
    /\ post.input.target \in DOMAIN todos
    /\ post.input.call # None /\ todos[post.input.target].call = post.input.call

(* The mail is on the todo already: the answer of then, and no receipt.    *)
AnswerPresent(post) ==
    /\ Matches(post)
    /\ \E e \in entries : e.todo = post.input.target /\ e.mail = post.input.mail
    /\ LET original == ReceiptsOf(MailKey(post.input.target, post.input.mail))
       IN  \/ \E x \in original : Answer(post, Stored(x))
           \/ /\ original = {}
              /\ Answer(post, [ok |-> TRUE, todo |-> post.input.target, print |-> None])
    /\ UNCHANGED <<database, born>>

Append(post) ==
    /\ Matches(post)
    /\ \A e \in entries : e.todo # post.input.target \/ e.mail # post.input.mail
    /\ Record(post, post.input.target)
    /\ UNCHANGED <<todos, born>>

Create(post) ==
    /\ post.input.target = New
    /\ \E t \in Todos \ born :
         /\ born' = born \cup {t}
         /\ todos' = [u \in DOMAIN todos \cup {t} |->
                        IF u = t THEN [call |-> post.input.call, by |-> post.req] ELSE todos[u]]
         /\ Record(post, t)

(* The target has gone or has another call number, or something inside the *)
(* transaction fails: it is rolled back.                                   *)
Refuse(post) ==
    /\ Answer(post, Refused)
    /\ UNCHANGED <<database, born>>

FaultyAssignMail(post) ==
    \/ AnswerPresent(post) \/ Append(post) \/ Create(post) \/ Refuse(post)
    \/ AnswerRepeated(post)

(* assignMail, one transaction.                                            *)
AssignMail(post) ==
    \/ AnswerRepeated(post)
    \/ /\ ReceiptsOf(RequestKey(post.req)) = {}
       /\ AnswerPresent(post) \/ Append(post) \/ Create(post) \/ Refuse(post)

(* The service dies: what is on its way to it or from it is lost.          *)
Crash ==
    /\ posts' = {}
    /\ answers' = [p \in Panes |-> None]
    /\ UNCHANGED <<database, archive, born, asked, pane>>
-----------------------------------------------------------------------------
(* The user at the main window.                                            *)
CreateTodo(t, call) ==
    /\ t \in Todos \ born
    /\ born' = born \cup {t}
    /\ todos' = [u \in DOMAIN todos \cup {t} |->
                   IF u = t THEN [call |-> call, by |-> None] ELSE todos[u]]
    /\ UNCHANGED <<entries, receipts, archive, asked, posts, pane, answers>>

EditCall(t, call) ==
    /\ t \in DOMAIN todos
    /\ todos' = [todos EXCEPT ![t] = [call |-> call, by |-> @.by]]
    /\ UNCHANGED <<entries, receipts, archive, born, asked, posts, pane, answers>>

FaultyRemoveTodo(t) ==
    /\ t \in DOMAIN todos
    /\ todos' = [u \in DOMAIN todos \ {t} |-> todos[u]]
    /\ entries' = {e \in entries : e.todo # t}
    /\ receipts' = receipts
    /\ UNCHANGED <<archive, born, asked, posts, pane, answers>>

RemoveTodo(t) ==
    /\ t \in DOMAIN todos
    /\ todos' = [u \in DOMAIN todos \ {t} |-> todos[u]]
    /\ entries' = {e \in entries : e.todo # t}
    /\ receipts' = {x \in receipts : x.todo # t}
    /\ UNCHANGED <<archive, born, asked, posts, pane, answers>>

TakeArchive ==
    /\ archive' = [taken |-> TRUE, todos |-> todos, entries |-> entries, receipts |-> receipts]
    /\ UNCHANGED <<database, born, asked, posts, pane, answers>>

FaultyImportArchive ==
    /\ archive.taken
    /\ todos' = archive.todos
    /\ entries' = archive.entries
    /\ receipts' = {x \in archive.receipts : x.key.req = None}
    /\ UNCHANGED <<archive, born, asked, posts, pane, answers>>

(* replaceAll: every table is emptied and filled from the archive.         *)
ImportArchive ==
    /\ archive.taken
    /\ todos' = archive.todos
    /\ entries' = archive.entries
    /\ receipts' = archive.receipts
    /\ UNCHANGED <<archive, born, asked, posts, pane, answers>>
-----------------------------------------------------------------------------
Init ==
    /\ todos = [t \in {} |-> None]
    /\ entries = {}
    /\ receipts = {}
    /\ archive = [taken |-> FALSE, todos |-> todos, entries |-> {}, receipts |-> {}]
    /\ born = {}
    /\ asked = {}
    /\ posts = {}
    /\ pane = [p \in Panes |-> Closed]
    /\ answers = [p \in Panes |-> None]

Next ==
    \/ \E p \in Panes :
         \/ \E m \in Mails : OpenMail(p, m)
         \/ \E input \in Inputs : Submit(p, input)
         \/ GiveUp(p) \/ Receive(p) \/ Again(p)
    \/ \E post \in posts : AssignMail(post)
    \/ Crash
    \/ \E t \in Todos, call \in Calls \cup {None} : CreateTodo(t, call) \/ EditCall(t, call)
    \/ \E t \in Todos : RemoveTodo(t)
    \/ TakeArchive \/ ImportArchive

Spec == Init /\ [][Next]_vars
-----------------------------------------------------------------------------
(* The schema with its references, and what the actors hold.               *)
TypeOK ==
    /\ DOMAIN todos \subseteq born
    /\ todos \in [DOMAIN todos -> TodoRecords]
    /\ entries \subseteq Entries
    /\ receipts \subseteq Receipts
    /\ \A e \in entries : e.todo \in DOMAIN todos
    /\ \A x \in receipts : x.todo \in DOMAIN todos
    /\ DOMAIN archive.todos \subseteq born
    /\ archive.todos \in [DOMAIN archive.todos -> TodoRecords]
    /\ archive.entries \subseteq Entries
    /\ archive.receipts \subseteq Receipts
    /\ \A e \in archive.entries : e.todo \in DOMAIN archive.todos
    /\ \A x \in archive.receipts : x.todo \in DOMAIN archive.todos
    /\ born \subseteq Todos
    /\ asked \subseteq Requests
    /\ posts \subseteq Posts
    /\ pane \in [Panes -> PaneRecords]
    /\ \A p \in Panes : pane[p].at # "closed" => pane[p].mail \in Mails /\ pane[p].req \in Requests
    /\ answers \in [Panes -> Answers \cup {None}]

(* A-10.13: however often a request is sent and whenever its answers get   *)
(* lost, there is one todo of it at most; also after todos have been       *)
(* removed and an archive has been imported.                               *)
OneTodoPerRequest ==
    \A t, u \in DOMAIN todos : todos[t].by # None /\ todos[t].by = todos[u].by => t = u

(* mail-assignment.ts: the receipts of a request and of a mail stand and   *)
(* fall with the entry they were written with, so that no insert of one    *)
(* meets a key that is taken.                                              *)
ReceiptsStandWithEntries ==
    /\ \A e \in entries :
         /\ \E x \in receipts : x.key = MailKey(e.todo, e.mail)
         /\ \E x \in receipts : x.key = RequestKey(e.by) /\ x.todo = e.todo
    /\ \A x, y \in receipts : x.key = y.key => x = y

(* What the service calls stored, is: when an answer of success leaves the *)
(* service, the todo it names exists and has the mail.                     *)
SuccessIsStored ==
    [][ \A p \in Panes :
          answers'[p] # answers[p] /\ answers'[p] # None /\ answers'[p].ok
            => \E e \in entries' : /\ e.todo = answers'[p].todo /\ e.todo \in DOMAIN todos'
                                   /\ e.mail = pane[p].sent.input.mail ]_vars

(* A pane that shows success shows what this form asked for: an earlier    *)
(* form of the same request is never passed off as it.  A mail that was on *)
(* the chosen todo before is shown as it is there.                         *)
ShownIsWhatWasSent ==
    \A p \in Panes : pane[p].at = "done" =>
        \/ pane[p].shown.print = pane[p].sent.input
        \/ pane[p].shown.todo = pane[p].sent.input.target
-----------------------------------------------------------------------------
EffectsOf(E) == {[req |-> e.by, todo |-> e.todo] : e \in E}

Promise == INSTANCE RequestEffects WITH
    effects <- EffectsOf(entries),
    saved   <- EffectsOf(archive.entries)

(* The tables implement "each request takes effect once".                  *)
EachRequestOnce == Promise!Spec
=============================================================================
