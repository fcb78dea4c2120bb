----------------------------- MODULE PoolRules -----------------------------
(***************************************************************************)
(* What a pool or a column of the board stands for: a rule of five axes    *)
(* over tags, folders, a status, the mark "done" and the bookings of a     *)
(* todo.  Membership is stored nowhere, it is computed with every          *)
(* question, in two places: the domain (pool.ts) and the translation of    *)
(* the same rule to SQL (buildConditions in repo-todos.ts).                *)
(*                                                                         *)
(* The module holds no state.  A tree of folders is a function parent from *)
(* the folders there are to a folder or Root, the tags a function home.    *)
(* The limit of 1000 levels the queries carry is above every instance.     *)
(***************************************************************************)
EXTENDS Integers, FiniteSets

CONSTANTS Folders, Tags, Statuses, Root   \* Root: the column is NULL

ASSUME RootIsNoFolder == Root \notin Folders
ASSUME TagsAreFinite == IsFiniteSet(Tags)

(* The tag terms of an axis; a name given twice is one term.               *)
Terms == [tags : SUBSET Tags, folders : SUBSET Folders]

Rules == [ match      : {"any", "all"},
           deep       : BOOLEAN,                \* includeSubfolders
           placement  : {"pool", "board", "both"},
           required   : Terms,
           excluded   : Terms,
           statuses   : SUBSET Statuses,
           completion : {"any", "done", "open"},
           export     : {"any", "open", "exported"} ]

(* What a rule asks of a todo.  open: it has a booking that has ended and  *)
(* is open; exported: it has one that is exported.  It may have both.      *)
Cards == [ tags : SUBSET Tags, status : Statuses, done : BOOLEAN,
           open : BOOLEAN, exported : BOOLEAN ]

-----------------------------------------------------------------------------
(* The tree.  Both directions are the recursive queries of repo-tags.ts,   *)
(* written as the least set that holds f and is closed under one step.     *)
UpClosed(parent, S)   == \A f \in S : parent[f] \in S \cup {Root}
DownClosed(parent, S) == \A f \in DOMAIN parent : parent[f] \in S => f \in S

Upwards(parent, f) ==                      \* f and its ancestors
  {g \in DOMAIN parent :
     \A S \in SUBSET DOMAIN parent : (f \in S /\ UpClosed(parent, S)) => g \in S}

Subtree(parent, f) ==
  {g \in DOMAIN parent :
     \A S \in SUBSET DOMAIN parent : (f \in S /\ DownClosed(parent, S)) => g \in S}

-----------------------------------------------------------------------------
(* resolvePoolAxis: the tags an axis comes down to, and the folders it     *)
(* names that contribute none.                                             *)
FolderTags(parent, home, deep, f) ==
  {t \in DOMAIN home : home[t] \in IF deep THEN Subtree(parent, f) ELSE {f}}

Resolved(parent, home, deep, terms) ==
  terms.tags \cup UNION {FolderTags(parent, home, deep, f) : f \in terms.folders}

EmptyFolders(parent, home, deep, terms) ==
  {f \in terms.folders : FolderTags(parent, home, deep, f) = {}}

(* tagAxisIsUnresolved, asked of the required axis only: an excluded       *)
(* folder without tags excludes nothing.                                   *)
Unresolved(parent, home, rule) ==
  \/ EmptyFolders(parent, home, rule.deep, rule.required) # {}
  \/ /\ rule.required.tags \cup rule.required.folders # {}
     /\ Resolved(parent, home, rule.deep, rule.required) = {}

(* A rule ready to be held against todos.                                  *)
Ready(parent, home, rule) ==
  [ match      |-> rule.match,
    required   |-> Resolved(parent, home, rule.deep, rule.required),
    excluded   |-> Resolved(parent, home, rule.deep, rule.excluded),
    statuses   |-> rule.statuses,
    completion |-> rule.completion,
    export     |-> rule.export,
    unresolved |-> Unresolved(parent, home, rule) ]

(* poolRuleMatchesNothing: no axis names a condition, or the required tags *)
(* point to nothing.                                                       *)
MatchesNothing(ready) ==
  \/ ready.unresolved
  \/ /\ ready.required = {} /\ ready.excluded = {} /\ ready.statuses = {}
     /\ ready.completion = "any" /\ ready.export = "any"

(* matchesPool, the answer of the domain.                                  *)
MatchesPool(ready, card) ==
  /\ ~MatchesNothing(ready)
  /\ ready.required # {} =>
       IF ready.match = "all" THEN ready.required \subseteq card.tags
                              ELSE ready.required \cap card.tags # {}
  /\ ready.excluded \cap card.tags = {}
  /\ ready.statuses # {} => card.status \in ready.statuses
  /\ ready.completion = "done" => card.done
  /\ ready.completion = "open" => ~card.done
  /\ ready.export = "open" => card.open
  /\ ready.export = "exported" => card.exported

(* buildConditions, the answer of the query: the tags of the todo that the *)
(* rule names are counted, and an axis without a condition is not in the   *)
(* text.                                                                   *)
RowMatches(ready, card) ==
  /\ ~MatchesNothing(ready)
  /\ ready.required # {} =>
       Cardinality(card.tags \cap ready.required)
         >= IF ready.match = "all" THEN Cardinality(ready.required) ELSE 1
  /\ ready.excluded # {} => ~ \E t \in card.tags : t \in ready.excluded
  /\ ready.statuses # {} => card.status \in ready.statuses
  /\ ready.completion = "open" => ~card.done
  /\ ready.completion = "done" => card.done
  /\ ready.export = "open" => card.open
  /\ ready.export = "exported" => card.exported

-----------------------------------------------------------------------------
(* The view.  A rule that says something about "done" decides itself       *)
(* whether completed todos are shown, otherwise the view does.             *)
ShowsCompleted(rule, includeCompleted) ==
  rule.completion # "any" \/ includeCompleted

IsVisibleInPool(card, includeCompleted) == ~card.done \/ includeCompleted
=============================================================================
