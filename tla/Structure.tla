----------------------------- MODULE Structure -----------------------------
(***************************************************************************)
(* Tags, folders, statuses and pools, the todos they sort, and what the    *)
(* service tells about it: the board and the movement of a todo a handler  *)
(* announces.  Each action is one transaction of the service, which the    *)
(* queue of TransactionQueue keeps apart from all others.                  *)
(*                                                                         *)
(* Left out: names, colours and positions (they decide no membership; a    *)
(* request refused for its name changes nothing), priorities, the default  *)
(* tags (they only add tags to a new todo and keep a tag from removal:     *)
(* the model allows more), the tags a request makes by their name (here a  *)
(* CreateTag before), the phase that makes a start or a stop wait (Timer   *)
(* has it), and the bookings themselves: a todo only says whether it has   *)
(* open and exported ones.                                                 *)
(***************************************************************************)
EXTENDS PoolRules

CONSTANTS Pools, Todos,
          RuleInputs,    \* bound: the rules a request may leave behind
          FirstStatus,   \* the status migration 0002 makes the default
          NoTodo

ASSUME StructureAssumption ==
  /\ RuleInputs \subseteq Rules
  /\ FirstStatus \in Statuses
  /\ NoTodo \notin Todos

VARIABLES
  parent,      \* the folders there are, each with its parent or Root
  home,        \* the tags there are, each with its folder or Root
  statuses,    \* rows of todo_status
  isDefault,   \* those of them with the mark is_default
  rules,       \* the pools there are, each with its rule
  todos,       \* the todos there are, as cards
  running,     \* the todo of the running entry, or NoTodo
  said         \* the movement the last transaction announced

structure == <<parent, home, statuses, isDefault, rules>>
vars == <<structure, todos, running, said>>

-----------------------------------------------------------------------------
(* What exists, and a function without an argument.                        *)
FoldersThere == DOMAIN parent
TagsThere    == DOMAIN home
PoolsThere   == DOMAIN rules
TodosThere   == DOMAIN todos

Set(f, x, v) == [y \in DOMAIN f \cup {x} |-> IF y = x THEN v ELSE f[y]]
Drop(f, x)   == [y \in DOMAIN f \ {x} |-> f[y]]

(* The terms of an axis point to rows, or the database refuses them.       *)
TermsStand(terms) == terms.tags \subseteq TagsThere /\ terms.folders \subseteq FoldersThere

RuleStands(rule) ==
  /\ TermsStand(rule.required)
  /\ TermsStand(rule.excluded)
  /\ rule.statuses \subseteq statuses

ReadyRule(p) == Ready(parent, home, rules[p])

(* The pools a todo stands in, and listPoolMembers for a view that shows   *)
(* completed todos too.                                                    *)
Holding(t) == {p \in PoolsThere : \E ready \in {ReadyRule(p)} : RowMatches(ready, todos[t])}
Members(p) == {t \in TodosThere : p \in Holding(t)}

-----------------------------------------------------------------------------
(* The announcement (pool-movement.ts).                                    *)
Silent == [about |-> NoTodo, told |-> FALSE, appears |-> {}, enters |-> {}, leaves |-> {}]

NoMovement(t) == [Silent EXCEPT !.about = t]

(* poolMovementNamer: every rule once, against both states.                *)
Movement(t, before, after) ==
  LET held(p)  == MatchesPool(ReadyRule(p), before)
      holds(p) == MatchesPool(ReadyRule(p), after)
  IN [ about   |-> t,
       told    |-> TRUE,
       appears |-> {p \in PoolsThere : holds(p)},
       enters  |-> {p \in PoolsThere : holds(p) /\ ~held(p)},
       leaves  |-> {p \in PoolsThere : held(p) /\ ~holds(p)} ]

(* With the effect of a booking that reopens, as before T-101.             *)
FaultyMovementOfBooking(t) ==
  IF todos[t].open
  THEN NoMovement(t)
  ELSE Movement(t, todos[t], [todos[t] EXCEPT !.open = TRUE, !.done = FALSE])

(* closedEntryMovementStates, unless the todo had an open booking before.  *)
MovementOfBooking(t) ==
  IF todos[t].open
  THEN NoMovement(t)
  ELSE Movement(t, todos[t], [todos[t] EXCEPT !.open = TRUE])

(* movementOfStart: a start takes the mark off; it makes a booking of this *)
(* todo only if it stopped a timer of the same one.                        *)
MovementOfStart(t, bookedOnThisTodo) ==
  LET doneCleared == todos[t].done
      firstEntryAppeared == bookedOnThisTodo /\ ~todos[t].open
      after == [todos[t] EXCEPT !.done = FALSE]
  IN  IF ~doneCleared /\ ~firstEntryAppeared
      THEN NoMovement(t)
      ELSE Movement(t, todos[t],
                    IF bookedOnThisTodo THEN [after EXCEPT !.open = TRUE] ELSE after)

(* completionMovementStates, unless the mark stood already.                *)
MovementOfDone(t, done) ==
  IF todos[t].done = done
  THEN NoMovement(t)
  ELSE Movement(t, todos[t], [todos[t] EXCEPT !.done = done])

-----------------------------------------------------------------------------
(* Migration 0002: the seeded statuses, one of them the default.           *)
Init ==
  /\ parent = <<>> /\ home = <<>>
  /\ statuses = Statuses /\ isDefault = {FirstStatus}
  /\ rules = <<>> /\ todos = <<>>
  /\ running = NoTodo /\ said = Silent

FolderOrRoot == FoldersThere \cup {Root}

NamedBy(p) == [ tags    |-> rules[p].required.tags \cup rules[p].excluded.tags,
                folders |-> rules[p].required.folders \cup rules[p].excluded.folders ]

(* Folders. *)
CreateFolder(f, p) ==
  /\ f \notin FoldersThere /\ p \in FolderOrRoot
  /\ parent' = Set(parent, f, p)
  /\ said' = Silent
  /\ UNCHANGED <<home, statuses, isDefault, rules, todos, running>>

(* The move and checkFolderMove: the target is neither the folder nor one  *)
(* of its descendants, asked in the transaction that writes.               *)
FaultyMoveFolder(f, p) ==
  /\ f \in FoldersThere /\ p \in FolderOrRoot
  /\ p # f
  /\ parent' = Set(parent, f, p)
  /\ said' = Silent
  /\ UNCHANGED <<home, statuses, isDefault, rules, todos, running>>

MoveFolder(f, p) ==
  /\ f \in FoldersThere /\ p \in FolderOrRoot
  /\ p # Root => f \notin Upwards(parent, p)
  /\ parent' = Set(parent, f, p)
  /\ said' = Silent
  /\ UNCHANGED <<home, statuses, isDefault, rules, todos, running>>

(* A removal as the foreign keys had it before migration 0012: the row     *)
(* takes its terms along.                                                  *)
FaultyRemoveFolder(f) ==
  /\ f \in FoldersThere
  /\ \A g \in FoldersThere : parent[g] # f
  /\ \A t \in TagsThere : home[t] # f
  /\ parent' = Drop(parent, f)
  /\ rules' = [p \in PoolsThere |-> [rules[p] EXCEPT !.required.folders = @ \ {f},
                                                    !.excluded.folders = @ \ {f}]]
  /\ said' = Silent
  /\ UNCHANGED <<home, statuses, isDefault, todos, running>>

RemoveFolder(f) ==
  /\ f \in FoldersThere
  /\ \A g \in FoldersThere : parent[g] # f
  /\ \A t \in TagsThere : home[t] # f
  /\ \A p \in PoolsThere : f \notin NamedBy(p).folders
  /\ parent' = Drop(parent, f)
  /\ said' = Silent
  /\ UNCHANGED <<home, statuses, isDefault, rules, todos, running>>

(* Tags. *)
CreateTag(t, h) ==
  /\ t \notin TagsThere /\ h \in FolderOrRoot
  /\ home' = Set(home, t, h)
  /\ said' = Silent
  /\ UNCHANGED <<parent, statuses, isDefault, rules, todos, running>>

MoveTag(t, h) ==
  /\ t \in TagsThere /\ h \in FolderOrRoot
  /\ home' = Set(home, t, h)
  /\ said' = Silent
  /\ UNCHANGED <<parent, statuses, isDefault, rules, todos, running>>

(* A default tag stays too. *)
RemoveTag(t) ==
  /\ t \in TagsThere
  /\ \A u \in TodosThere : t \notin todos[u].tags
  /\ \A p \in PoolsThere : t \notin NamedBy(p).tags
  /\ home' = Drop(home, t)
  /\ said' = Silent
  /\ UNCHANGED <<parent, statuses, isDefault, rules, todos, running>>

(* Statuses.  The default can be passed on, never taken off. *)
CreateStatus(s) ==
  /\ s \notin statuses
  /\ statuses' = statuses \cup {s}
  /\ said' = Silent
  /\ UNCHANGED <<parent, home, isDefault, rules, todos, running>>

MakeDefault(s) ==
  /\ s \in statuses
  /\ isDefault' = {s}
  /\ said' = Silent
  /\ UNCHANGED <<parent, home, statuses, rules, todos, running>>

RemoveStatus(s) ==
  /\ s \in statuses /\ statuses # {s}
  /\ s \notin isDefault
  /\ \A u \in TodosThere : todos[u].status # s
  /\ \A p \in PoolsThere : s \notin rules[p].statuses
  /\ statuses' = statuses \ {s}
  /\ said' = Silent
  /\ UNCHANGED <<parent, home, isDefault, rules, todos, running>>

(* Pools.  A term that points to no row fails on its foreign key: creating *)
(* throws, changing is undone to its savepoint.  An update replaces the    *)
(* fields it names and keeps the others, so it may leave any rule behind.  *)
CreatePool(p, rule) ==
  /\ p \notin PoolsThere /\ RuleStands(rule)
  /\ rules' = Set(rules, p, rule)
  /\ said' = Silent
  /\ UNCHANGED <<parent, home, statuses, isDefault, todos, running>>

UpdatePool(p, rule) ==
  /\ p \in PoolsThere /\ RuleStands(rule)
  /\ rules' = Set(rules, p, rule)
  /\ said' = Silent
  /\ UNCHANGED <<parent, home, statuses, isDefault, todos, running>>

RemovePool(p) ==
  /\ p \in PoolsThere
  /\ rules' = Drop(rules, p)
  /\ said' = Silent
  /\ UNCHANGED <<parent, home, statuses, isDefault, todos, running>>

(* Todos.  A status that is not named is the default, which is one of the  *)
(* rows, and the default tags only add to those chosen for a new todo.     *)
CreateTodo(t, tags, s) ==
  /\ t \notin TodosThere /\ tags \subseteq TagsThere /\ s \in statuses
  /\ todos' = Set(todos, t, [ tags |-> tags, status |-> s,
                              done |-> FALSE, open |-> FALSE, exported |-> FALSE ])
  /\ said' = Silent
  /\ UNCHANGED <<structure, running>>

UpdateTodo(t, tags, s) ==
  /\ t \in TodosThere /\ tags \subseteq TagsThere /\ s \in statuses
  /\ todos' = [todos EXCEPT ![t].tags = tags, ![t].status = s]
  /\ said' = Silent
  /\ UNCHANGED <<structure, running>>

RemoveTodo(t) ==
  /\ t \in TodosThere
  /\ ~todos[t].open /\ ~todos[t].exported /\ running # t
  /\ todos' = Drop(todos, t)
  /\ said' = Silent
  /\ UNCHANGED <<structure, running>>

SwitchDone(t, done) ==
  /\ t \in TodosThere
  /\ todos' = [todos EXCEPT ![t].done = done]
  /\ said' = MovementOfDone(t, done)
  /\ UNCHANGED <<structure, running>>

-----------------------------------------------------------------------------
(* The timer and the bookings.  A timer that ran less than the shortest    *)
(* booking is discarded, not recorded.                                     *)

(* A timer that runs already is stopped only with the user's consent; the  *)
(* todo whose timer it was gets its booking, but no announcement.          *)
StartTimer(t, recorded) ==
  /\ t \in TodosThere
  /\ recorded => running # NoTodo
  /\ todos' = [u \in TodosThere |->
                 [todos[u] EXCEPT !.open = @ \/ (recorded /\ u = running),
                                  !.done = @ /\ u # t]]
  /\ running' = t
  /\ said' = MovementOfStart(t, recorded /\ running = t)
  /\ UNCHANGED structure

(* stopTimer, and resolveOrphanedTimer after a restart. *)
StopTimer(recorded) ==
  /\ running # NoTodo
  /\ IF recorded
     THEN /\ todos' = [todos EXCEPT ![running].open = TRUE]
          /\ said' = MovementOfBooking(running)
     ELSE /\ said' = NoMovement(running)
          /\ UNCHANGED todos
  /\ running' = NoTodo
  /\ UNCHANGED structure

CreateTimeEntry(t) ==
  /\ t \in TodosThere
  /\ todos' = [todos EXCEPT ![t].open = TRUE]
  /\ said' = MovementOfBooking(t)
  /\ UNCHANGED <<structure, running>>

(* What else touches bookings and says nothing: an export and its reset,   *)
(* an edit, a removal, the allocation of an absence.  Only a booking that  *)
(* was open can become an exported one.                                    *)
BookingsChange(t, open, exported) ==
  /\ t \in TodosThere
  /\ exported => todos[t].open \/ todos[t].exported
  /\ todos' = [todos EXCEPT ![t].open = open, ![t].exported = exported]
  /\ said' = Silent
  /\ UNCHANGED <<structure, running>>

-----------------------------------------------------------------------------
FolderStep ==
  \E f \in Folders :
    \/ RemoveFolder(f)
    \/ \E p \in Folders \cup {Root} : CreateFolder(f, p) \/ MoveFolder(f, p)

TagStep ==
  \E t \in Tags :
    \/ RemoveTag(t)
    \/ \E h \in Folders \cup {Root} : CreateTag(t, h) \/ MoveTag(t, h)

StatusStep == \E s \in Statuses : CreateStatus(s) \/ MakeDefault(s) \/ RemoveStatus(s)

PoolStep ==
  \E p \in Pools :
    \/ RemovePool(p)
    \/ \E rule \in RuleInputs : CreatePool(p, rule) \/ UpdatePool(p, rule)

TodoStep ==
  \E t \in Todos :
    \/ RemoveTodo(t)
    \/ \E tags \in SUBSET Tags, s \in Statuses : CreateTodo(t, tags, s) \/ UpdateTodo(t, tags, s)
    \/ \E done \in BOOLEAN : SwitchDone(t, done)

BookingStep ==
  \/ \E recorded \in BOOLEAN : StopTimer(recorded)
  \/ \E t \in Todos :
       \/ CreateTimeEntry(t)
       \/ \E recorded \in BOOLEAN : StartTimer(t, recorded)
       \/ \E open \in BOOLEAN, exported \in BOOLEAN : BookingsChange(t, open, exported)

Next == FolderStep \/ TagStep \/ StatusStep \/ PoolStep \/ TodoStep \/ BookingStep

Spec == Init /\ [][Next]_vars

-----------------------------------------------------------------------------
(* The board (loadBoard).  Its columns are loaded by the query, the todos  *)
(* that stand in several of them are named by the domain; the marks of the *)
(* bookings are read only if some column asks for them.                    *)
Columns == {p \in PoolsThere : rules[p].placement # "pool"}

Listed(c, include) ==
  {t \in Members(c) : ShowsCompleted(rules[c], include) \/ ~todos[t].done}

Loaded(include) == UNION {Listed(c, include) : c \in Columns}

CardRead(t) ==
  LET asked == \E c \in Columns : rules[c].export # "any"
  IN  [todos[t] EXCEPT !.open = asked /\ @, !.exported = asked /\ @]

(* Without the view, as before completed todos could be loaded at all.     *)
FaultyNamedIn(t, include) == {c \in Columns : MatchesPool(ReadyRule(c), CardRead(t))}

NamedIn(t, include) ==
  {c \in Columns : /\ MatchesPool(ReadyRule(c), CardRead(t))
                   /\ IsVisibleInPool(CardRead(t), ShowsCompleted(rules[c], include))}

Appearances(include) ==
  {<<t, NamedIn(t, include)>> : t \in {u \in Loaded(include) : Cardinality(NamedIn(u, include)) > 1}}

-----------------------------------------------------------------------------
TypeOK ==
  /\ DOMAIN parent \subseteq Folders /\ parent \in [DOMAIN parent -> FolderOrRoot]
  /\ DOMAIN home \subseteq Tags      /\ home \in [DOMAIN home -> FolderOrRoot]
  /\ statuses \subseteq Statuses     /\ isDefault \subseteq statuses
  /\ DOMAIN rules \subseteq Pools    /\ rules \in [DOMAIN rules -> Rules]
  /\ \A p \in PoolsThere : RuleStands(rules[p])
  /\ DOMAIN todos \subseteq Todos    /\ todos \in [DOMAIN todos -> Cards]
  /\ \A t \in TodosThere : todos[t].tags \subseteq TagsThere /\ todos[t].status \in statuses
  /\ running \in TodosThere \cup {NoTodo}

(* The folders form a tree, however they were moved: every set of folders  *)
(* has one whose parent is outside of it.  A circle would cut its folders  *)
(* off the root, and the tags in them out of every rule above.             *)
FoldersFormATree ==
  \A S \in SUBSET FoldersThere : S # {} => \E f \in S : parent[f] \notin S

(* The board tells one truth about a card: the columns the domain names    *)
(* for a todo that stands in several of them are those the query listed it *)
(* in, completed todos shown or not, whatever the two translations of the  *)
(* rules do with folders without tags and with marks nobody read.          *)
BoardTellsOneTruth ==
  \A include \in BOOLEAN :
    LET listedIn(t) == {c \in Columns : t \in Listed(c, include)}
    IN  Appearances(include) =
          {<<t, listedIn(t)>> : t \in {u \in TodosThere : Cardinality(listedIn(u)) > 1}}

(* There is one default status at any time, so that a new todo has one.    *)
OneDefaultStatus == \E s \in statuses : isDefault = {s}

(* Removing a folder or a status changes no pool, and removing a tag never *)
(* shows more in one: a rule does not lose a condition behind the back of  *)
(* its author.  The exception is a rule that asks for all the tags of a    *)
(* folder: it asks for one less from then on.                              *)
RemovalsNeverWiden ==
  [][ \A p \in PoolsThere \cap PoolsThere' :
        /\ ~(FoldersThere \subseteq FoldersThere' /\ statuses \subseteq statuses')
             => Members(p)' = Members(p)
        /\ \A t \in TagsThere \ TagsThere' :
             \/ Members(p)' \subseteq Members(p)
             \/ rules[p].match = "all" /\ t \in ReadyRule(p).required ]_vars

(* What an answer says about its todo is true: it names the pools the todo *)
(* entered and left by this very transaction, and no movement means none.  *)
MovementIsTrue ==
  [][ \A t \in TodosThere : said'.about = t =>
        \E before \in {Holding(t)}, after \in {Holding(t)'} :
           /\ said'.enters = after \ before
           /\ said'.leaves = before \ after
           /\ said'.told => said'.appears = after ]_vars
=============================================================================
