-------------------------- MODULE StructureProofs --------------------------
(***************************************************************************)
(* Proofs about Structure, for any finite set of tags and any sets of      *)
(* folders, statuses, pools and todos: the folders stay a tree, the board  *)
(* tells one truth, what an answer announces is what happened, and no      *)
(* removal widens a pool.                                                  *)
(*                                                                         *)
(* The tree is inductive beside the types.  The other three need no        *)
(* induction of their own: they follow, in any state or step, from the     *)
(* types and from the agreement of the two translations of a rule.         *)
(***************************************************************************)
EXTENDS Structure, FiniteSetTheorems, TLAPS

-----------------------------------------------------------------------------
(* The types, and one default status. *)

IInv == TypeOK /\ OneDefaultStatus

LEMMA InitTypes == Init => IInv
<1> SUFFICES ASSUME Init PROVE IInv
  OBVIOUS
<1> USE StructureAssumption DEF Init
<1>1. OneDefaultStatus
  BY DEF OneDefaultStatus
<1>2. TypeOK
  BY DEF TypeOK, FoldersThere, TagsThere, PoolsThere, TodosThere, FolderOrRoot
<1> QED BY <1>1, <1>2 DEF IInv

LEMMA FolderTypes ==
  ASSUME IInv, FolderStep
  PROVE  IInv'
<1> USE DEF FoldersThere, TagsThere, PoolsThere, TodosThere
<1>0. PICK f \in Folders :
        RemoveFolder(f) \/ \E p \in Folders \cup {Root} : CreateFolder(f, p) \/ MoveFolder(f, p)
  BY DEF FolderStep
<1>a. /\ UNCHANGED <<home, statuses, isDefault, rules, todos, running>>
      /\ OneDefaultStatus'
  BY <1>0 DEF RemoveFolder, CreateFolder, MoveFolder, IInv, OneDefaultStatus
<1>b. TypeOK BY DEF IInv
<1>1. ASSUME NEW p \in Folders \cup {Root}, CreateFolder(f, p) \/ MoveFolder(f, p)
      PROVE  TypeOK'
  <2>1. p \in FolderOrRoot /\ parent' = Set(parent, f, p)
    BY <1>1 DEF CreateFolder, MoveFolder
  <2>2. /\ DOMAIN parent' = DOMAIN parent \cup {f}
        /\ parent' \in [DOMAIN parent \cup {f} -> FolderOrRoot]
    BY <2>1, <1>b DEF Set, TypeOK
  <2>3. FolderOrRoot \subseteq FolderOrRoot'
    BY <2>2 DEF FolderOrRoot
  <2>4. /\ DOMAIN parent' \subseteq Folders /\ parent' \in [DOMAIN parent' -> FolderOrRoot']
        /\ DOMAIN home' \subseteq Tags /\ home' \in [DOMAIN home' -> FolderOrRoot']
    BY <2>2, <2>3, <1>a, <1>b DEF TypeOK
  <2>5. \A p1 \in PoolsThere' : RuleStands(rules[p1])'
    BY <2>2, <1>a, <1>b DEF TypeOK, RuleStands, TermsStand
  <2> QED BY <2>4, <2>5, <1>a, <1>b DEF TypeOK
<1>2. ASSUME RemoveFolder(f) PROVE TypeOK'
  <2>1. /\ parent' = Drop(parent, f)
        /\ \A g \in DOMAIN parent : parent[g] # f
        /\ \A t \in DOMAIN home : home[t] # f
        /\ \A p \in DOMAIN rules : f \notin NamedBy(p).folders
    BY <1>2 DEF RemoveFolder
  <2>2. /\ DOMAIN parent' = DOMAIN parent \ {f}
        /\ \A y \in DOMAIN parent \ {f} : parent'[y] = parent[y]
        /\ parent' \in [DOMAIN parent \ {f} -> FolderOrRoot]
    BY <2>1, <1>b DEF Drop, TypeOK
  <2>3. FolderOrRoot' = FolderOrRoot \ {f}
    BY <2>2, RootIsNoFolder DEF FolderOrRoot
  <2>4. DOMAIN parent' \subseteq Folders /\ parent' \in [DOMAIN parent' -> FolderOrRoot']
    BY <2>1, <2>2, <2>3, <1>b DEF TypeOK
  <2>5. DOMAIN home' \subseteq Tags /\ home' \in [DOMAIN home' -> FolderOrRoot']
    BY <2>1, <2>3, <1>a, <1>b DEF TypeOK
  <2>6. \A p \in PoolsThere' : RuleStands(rules[p])'
    BY <2>1, <2>2, <1>a, <1>b DEF TypeOK, RuleStands, TermsStand, NamedBy
  <2> QED BY <2>4, <2>5, <2>6, <1>a, <1>b DEF TypeOK
<1> QED BY <1>0, <1>1, <1>2, <1>a DEF IInv

LEMMA TagTypes ==
  ASSUME IInv, TagStep
  PROVE  IInv'
<1> USE DEF FoldersThere, TagsThere, PoolsThere, TodosThere
<1>0. PICK t \in Tags :
        RemoveTag(t) \/ \E h \in Folders \cup {Root} : CreateTag(t, h) \/ MoveTag(t, h)
  BY DEF TagStep
<1>a. /\ UNCHANGED <<parent, statuses, isDefault, rules, todos, running>>
      /\ OneDefaultStatus'
  BY <1>0 DEF RemoveTag, CreateTag, MoveTag, IInv, OneDefaultStatus
<1>b. TypeOK BY DEF IInv
<1>c. FolderOrRoot' = FolderOrRoot
  BY <1>a DEF FolderOrRoot
<1>1. ASSUME NEW h \in Folders \cup {Root}, CreateTag(t, h) \/ MoveTag(t, h)
      PROVE  TypeOK'
  <2>1. h \in FolderOrRoot /\ home' = Set(home, t, h)
    BY <1>1 DEF CreateTag, MoveTag
  <2>2. DOMAIN home' = DOMAIN home \cup {t} /\ home' \in [DOMAIN home \cup {t} -> FolderOrRoot]
    BY <2>1, <1>b DEF Set, TypeOK
  <2>3. DOMAIN home' \subseteq Tags /\ home' \in [DOMAIN home' -> FolderOrRoot']
    BY <2>2, <1>c, <1>b DEF TypeOK
  <2>4. \A p \in PoolsThere' : RuleStands(rules[p])'
    BY <2>2, <1>a, <1>b DEF TypeOK, RuleStands, TermsStand
  <2>5. \A u \in TodosThere' : todos'[u].tags \subseteq DOMAIN home' /\ todos'[u].status \in statuses'
    BY <2>2, <1>a, <1>b DEF TypeOK
  <2> QED BY <2>3, <2>4, <2>5, <1>a, <1>b, <1>c DEF TypeOK
<1>2. ASSUME RemoveTag(t) PROVE TypeOK'
  <2>1. /\ home' = Drop(home, t)
        /\ \A u \in DOMAIN todos : t \notin todos[u].tags
        /\ \A p \in DOMAIN rules : t \notin NamedBy(p).tags
    BY <1>2 DEF RemoveTag
  <2>2. DOMAIN home' = DOMAIN home \ {t} /\ home' \in [DOMAIN home \ {t} -> FolderOrRoot]
    BY <2>1, <1>b DEF Drop, TypeOK
  <2>3. DOMAIN home' \subseteq Tags /\ home' \in [DOMAIN home' -> FolderOrRoot']
    BY <2>2, <1>c, <1>b DEF TypeOK
  <2>4. \A p \in PoolsThere' : RuleStands(rules[p])'
    BY <2>1, <2>2, <1>a, <1>b DEF TypeOK, RuleStands, TermsStand, NamedBy
  <2>5. \A u \in TodosThere' : todos'[u].tags \subseteq DOMAIN home' /\ todos'[u].status \in statuses'
    BY <2>1, <2>2, <1>a, <1>b DEF TypeOK
  <2> QED BY <2>3, <2>4, <2>5, <1>a, <1>b, <1>c DEF TypeOK
<1> QED BY <1>0, <1>1, <1>2, <1>a DEF IInv

LEMMA StatusTypes ==
  ASSUME IInv, StatusStep
  PROVE  IInv'
<1> USE DEF FoldersThere, TagsThere, PoolsThere, TodosThere
<1>0. PICK s \in Statuses : CreateStatus(s) \/ MakeDefault(s) \/ RemoveStatus(s)
  BY DEF StatusStep
<1>a. UNCHANGED <<parent, home, rules, todos, running>>
  BY <1>0 DEF CreateStatus, MakeDefault, RemoveStatus
<1>b. TypeOK BY DEF IInv
<1>1. OneDefaultStatus' /\ statuses' \subseteq Statuses /\ isDefault' \subseteq statuses'
  BY <1>0, <1>b DEF CreateStatus, MakeDefault, RemoveStatus, OneDefaultStatus, TypeOK, IInv
<1>2. /\ \A p \in DOMAIN rules : rules[p].statuses \subseteq statuses'
      /\ \A u \in DOMAIN todos : todos[u].status \in statuses'
  BY <1>0, <1>b DEF CreateStatus, MakeDefault, RemoveStatus, TypeOK, RuleStands
<1>3. \A p \in PoolsThere' : RuleStands(rules[p])'
  BY <1>2, <1>a, <1>b DEF TypeOK, RuleStands, TermsStand
<1>4. TypeOK'
  BY <1>1, <1>2, <1>3, <1>a, <1>b DEF TypeOK, FolderOrRoot
<1> QED BY <1>1, <1>4 DEF IInv

LEMMA PoolTypes ==
  ASSUME IInv, PoolStep
  PROVE  IInv'
<1> USE DEF FoldersThere, TagsThere, PoolsThere, TodosThere
<1>0. PICK p \in Pools :
        RemovePool(p) \/ \E rule \in RuleInputs : CreatePool(p, rule) \/ UpdatePool(p, rule)
  BY DEF PoolStep
<1>a. /\ UNCHANGED <<parent, home, statuses, isDefault, todos, running>>
      /\ OneDefaultStatus'
  BY <1>0 DEF RemovePool, CreatePool, UpdatePool, OneDefaultStatus, IInv
<1>b. TypeOK BY DEF IInv
<1>c. ASSUME NEW r PROVE RuleStands(r) => RuleStands(r)'
  BY <1>a DEF RuleStands, TermsStand
<1>1. ASSUME NEW rule \in RuleInputs, CreatePool(p, rule) \/ UpdatePool(p, rule)
      PROVE  TypeOK'
  <2>1. rule \in Rules /\ RuleStands(rule) /\ rules' = Set(rules, p, rule)
    BY <1>1, StructureAssumption DEF CreatePool, UpdatePool
  <2>2. /\ DOMAIN rules' = DOMAIN rules \cup {p}
        /\ rules' \in [DOMAIN rules \cup {p} -> Rules]
        /\ rules'[p] = rule
        /\ \A q \in DOMAIN rules : q # p => rules'[q] = rules[q]
    BY <2>1, <1>b DEF Set, TypeOK
  <2>3. \A q \in DOMAIN rules' : RuleStands(rules'[q])
    BY <2>1, <2>2, <1>b DEF TypeOK
  <2>4. \A q \in PoolsThere' : RuleStands(rules[q])'
    BY <2>3, <1>a DEF RuleStands, TermsStand
  <2> QED BY <2>2, <2>4, <1>a, <1>b DEF TypeOK, FolderOrRoot
<1>2. ASSUME RemovePool(p) PROVE TypeOK'
  <2>1. /\ DOMAIN rules' = DOMAIN rules \ {p}
        /\ rules' \in [DOMAIN rules \ {p} -> Rules]
        /\ \A q \in DOMAIN rules \ {p} : rules'[q] = rules[q]
    BY <1>2, <1>b DEF Drop, TypeOK, RemovePool
  <2>2. \A q \in DOMAIN rules' : RuleStands(rules'[q])
    BY <2>1, <1>b DEF TypeOK
  <2>3. \A q \in PoolsThere' : RuleStands(rules[q])'
    BY <2>2, <1>a DEF RuleStands, TermsStand
  <2> QED BY <2>1, <2>3, <1>a, <1>b DEF TypeOK, FolderOrRoot
<1> QED BY <1>0, <1>1, <1>2, <1>a DEF IInv

LEMMA TodoTypes ==
  ASSUME IInv, TodoStep
  PROVE  IInv'
<1> USE DEF FoldersThere, TagsThere, PoolsThere, TodosThere
<1>0. PICK t \in Todos :
        \/ RemoveTodo(t)
        \/ \E tags \in SUBSET Tags, s \in Statuses : CreateTodo(t, tags, s) \/ UpdateTodo(t, tags, s)
        \/ \E done \in BOOLEAN : SwitchDone(t, done)
  BY DEF TodoStep
<1>a. UNCHANGED <<structure, running>>
  BY <1>0 DEF RemoveTodo, CreateTodo, UpdateTodo, SwitchDone
<1>b. TypeOK BY DEF IInv
<1>1. /\ DOMAIN todos' \subseteq Todos /\ todos' \in [DOMAIN todos' -> Cards]
      /\ \A u \in DOMAIN todos' : todos'[u].tags \subseteq DOMAIN home /\ todos'[u].status \in statuses
      /\ running \in DOMAIN todos' \cup {NoTodo}
  <2>1. ASSUME RemoveTodo(t) PROVE <1>1!:
    BY <2>1, <1>b DEF RemoveTodo, Drop, TypeOK
  <2>2. ASSUME NEW tags \in SUBSET Tags, NEW s \in Statuses, CreateTodo(t, tags, s)
        PROVE  <1>1!:
    <3>1. [ tags |-> tags, status |-> s, done |-> FALSE,
            open |-> FALSE, exported |-> FALSE ] \in Cards
      BY DEF Cards
    <3> QED BY <2>2, <3>1, <1>b DEF CreateTodo, Set, TypeOK
  <2>3. ASSUME NEW tags \in SUBSET Tags, NEW s \in Statuses, UpdateTodo(t, tags, s)
        PROVE  <1>1!:
    BY <2>3, <1>b DEF UpdateTodo, TypeOK, Cards
  <2>4. ASSUME NEW done \in BOOLEAN, SwitchDone(t, done) PROVE <1>1!:
    BY <2>4, <1>b DEF SwitchDone, TypeOK, Cards
  <2> QED BY <1>0, <2>1, <2>2, <2>3, <2>4
<1>2. \A p \in PoolsThere' : RuleStands(rules[p])'
  BY <1>a, <1>b DEF TypeOK, RuleStands, TermsStand, structure
<1>3. TypeOK'
  BY <1>1, <1>2, <1>a, <1>b DEF TypeOK, FolderOrRoot, structure
<1> QED BY <1>3, <1>a DEF IInv, OneDefaultStatus, structure

LEMMA BookingTypes ==
  ASSUME IInv, BookingStep
  PROVE  IInv'
<1> USE DEF FoldersThere, TagsThere, PoolsThere, TodosThere
<1>a. UNCHANGED structure
  BY DEF BookingStep, StopTimer, CreateTimeEntry, StartTimer, BookingsChange
<1>b. TypeOK BY DEF IInv
<1>1. /\ DOMAIN todos' = DOMAIN todos /\ todos' \in [DOMAIN todos -> Cards]
      /\ \A u \in DOMAIN todos : todos'[u].tags = todos[u].tags /\ todos'[u].status = todos[u].status
      /\ running' \in DOMAIN todos \cup {NoTodo}
  <2>1. ASSUME NEW recorded \in BOOLEAN, StopTimer(recorded) PROVE <1>1!:
    <3>1. running \in DOMAIN todos /\ running' = NoTodo
      BY <2>1, <1>b DEF StopTimer, TypeOK
    <3>2. CASE recorded
      <4>1. todos' = [todos EXCEPT ![running].open = TRUE]
        BY <2>1, <3>2 DEF StopTimer
      <4> QED BY <3>1, <4>1, <1>b DEF TypeOK, Cards
    <3>3. CASE ~recorded
      BY <2>1, <3>1, <3>3, <1>b DEF StopTimer, TypeOK
    <3> QED BY <3>2, <3>3
  <2>2. ASSUME NEW t \in Todos, CreateTimeEntry(t) PROVE <1>1!:
    BY <2>2, <1>b DEF CreateTimeEntry, TypeOK, Cards
  <2>3. ASSUME NEW t \in Todos, NEW recorded \in BOOLEAN, StartTimer(t, recorded) PROVE <1>1!:
    BY <2>3, <1>b DEF StartTimer, TypeOK, Cards
  <2>4. ASSUME NEW t \in Todos, NEW open \in BOOLEAN, NEW exported \in BOOLEAN,
               BookingsChange(t, open, exported)
        PROVE  <1>1!:
    BY <2>4, <1>b DEF BookingsChange, TypeOK, Cards
  <2> QED BY <2>1, <2>2, <2>3, <2>4 DEF BookingStep
<1>2. \A p \in PoolsThere' : RuleStands(rules[p])'
  BY <1>a, <1>b DEF TypeOK, RuleStands, TermsStand, structure
<1>3. TypeOK'
  BY <1>1, <1>2, <1>a, <1>b DEF TypeOK, FolderOrRoot, structure
<1> QED BY <1>3, <1>a DEF IInv, OneDefaultStatus, structure

LEMMA StutterTypes ==
  ASSUME IInv, UNCHANGED vars
  PROVE  IInv'
BY DEF IInv, TypeOK, OneDefaultStatus, RuleStands, TermsStand, FolderOrRoot,
       FoldersThere, TagsThere, PoolsThere, TodosThere, vars, structure

(* The rows stand together: every term of a rule, every tag and status of  *)
(* a todo and every parent points to a row that is there.                  *)
THEOREM TypeCorrect == Spec => []TypeOK
<1>1. IInv /\ [Next]_vars => IInv'
  BY FolderTypes, TagTypes, StatusTypes, PoolTypes, TodoTypes, BookingTypes, StutterTypes DEF Next
<1>2. IInv => TypeOK
  BY DEF IInv
<1> QED BY InitTypes, <1>1, <1>2, PTL DEF Spec

(* There is one default status at any time, so that a new todo that names  *)
(* none gets one (repo-statuses: passed on, never taken off or removed).   *)
THEOREM OneDefault == Spec => []OneDefaultStatus
<1>1. IInv /\ [Next]_vars => IInv'
  BY FolderTypes, TagTypes, StatusTypes, PoolTypes, TodoTypes, BookingTypes, StutterTypes DEF Next
<1>2. IInv => OneDefaultStatus
  BY DEF IInv
<1> QED BY InitTypes, <1>1, <1>2, PTL DEF Spec

-----------------------------------------------------------------------------
(* The tree. *)

LEMMA UpwardsIsClosed ==
  ASSUME NEW p \in FoldersThere, TypeOK
  PROVE  /\ p \in Upwards(parent, p)
         /\ Upwards(parent, p) \subseteq FoldersThere
         /\ \A g \in Upwards(parent, p) : parent[g] \in Upwards(parent, p) \cup {Root}
<1>1. p \in Upwards(parent, p) /\ Upwards(parent, p) \subseteq FoldersThere
  BY DEF Upwards, FoldersThere
<1>2. ASSUME NEW g \in Upwards(parent, p), parent[g] # Root
      PROVE  parent[g] \in Upwards(parent, p)
  <2>1. g \in FoldersThere /\ parent[g] \in FoldersThere
    BY <1>1, <1>2 DEF TypeOK, FolderOrRoot, FoldersThere
  <2>2. ASSUME NEW S \in SUBSET DOMAIN parent, p \in S, UpClosed(parent, S)
        PROVE  parent[g] \in S
    <3>1. g \in S BY <1>2, <2>2 DEF Upwards
    <3> QED BY <3>1, <2>2, <1>2 DEF UpClosed
  <2> QED BY <2>1, <2>2 DEF Upwards, FoldersThere
<1> QED BY <1>1, <1>2

(* A move closes no circle: a set that holds the moved folder and its new  *)
(* parent has a way out along the ancestors of that parent.                *)
LEMMA MoveKeepsTheTree ==
  ASSUME TypeOK, FoldersFormATree, NEW f \in Folders, NEW p, MoveFolder(f, p)
  PROVE  FoldersFormATree'
<1> USE DEF FoldersThere
<1>1. /\ f \in DOMAIN parent /\ p \in DOMAIN parent \cup {Root}
      /\ p # Root => f \notin Upwards(parent, p)
      /\ DOMAIN parent' = DOMAIN parent
      /\ parent'[f] = p
      /\ \A g \in DOMAIN parent \ {f} : parent'[g] = parent[g]
  BY DEF MoveFolder, Set, FolderOrRoot
<1>2. ASSUME NEW S \in SUBSET DOMAIN parent, S # {}
      PROVE  \E g \in S : parent'[g] \notin S
  <2>1. CASE f \notin S
    BY <1>1, <1>2, <2>1 DEF FoldersFormATree
  <2>2. CASE f \in S /\ p \notin S
    BY <1>1, <2>2
  <2>3. CASE f \in S /\ p \in S
    <3>1. p # Root /\ p \in DOMAIN parent
      BY <2>3, <1>1, RootIsNoFolder DEF TypeOK
    <3> DEFINE T == S \cap Upwards(parent, p)
    <3>2. p \in T /\ f \notin T
      BY <3>1, <2>3, <1>1, UpwardsIsClosed
    <3>3. PICK g \in T : parent[g] \notin T
      BY <3>2 DEF FoldersFormATree
    <3>4. parent[g] \in Upwards(parent, p) \cup {Root}
      BY <3>1, UpwardsIsClosed
    <3>5. parent[g] \notin S
      BY <3>3, <3>4, RootIsNoFolder DEF TypeOK
    <3> QED BY <3>2, <3>5, <1>1
  <2> QED BY <2>1, <2>2, <2>3
<1> QED BY <1>1, <1>2 DEF FoldersFormATree

LEMMA FolderStepKeepsTheTree ==
  ASSUME TypeOK, FoldersFormATree, FolderStep
  PROVE  FoldersFormATree'
<1> USE DEF FoldersThere
<1>1. ASSUME NEW f \in Folders, NEW p, CreateFolder(f, p) PROVE FoldersFormATree'
  <2>1. /\ f \notin DOMAIN parent /\ p \in DOMAIN parent \cup {Root} /\ f # Root
        /\ DOMAIN parent' = DOMAIN parent \cup {f}
        /\ parent'[f] = p
        /\ \A g \in DOMAIN parent : parent'[g] = parent[g] /\ parent[g] \in DOMAIN parent \cup {Root}
    BY <1>1, RootIsNoFolder DEF CreateFolder, Set, FolderOrRoot, TypeOK
  <2>2. ASSUME NEW S \in SUBSET DOMAIN parent', S # {}
        PROVE  \E g \in S : parent'[g] \notin S
    <3>1. CASE S \subseteq {f}
      BY <3>1, <2>1, <2>2
    <3>2. CASE S \ {f} # {}
      <4>1. PICK g \in S \ {f} : parent[g] \notin S \ {f}
        BY <3>2, <2>1 DEF FoldersFormATree
      <4> QED BY <4>1, <2>1
    <3> QED BY <3>1, <3>2
  <2> QED BY <2>2 DEF FoldersFormATree
<1>2. ASSUME NEW f \in Folders, RemoveFolder(f) PROVE FoldersFormATree'
  <2>1. /\ DOMAIN parent' = DOMAIN parent \ {f}
        /\ \A g \in DOMAIN parent \ {f} : parent'[g] = parent[g]
    BY <1>2 DEF RemoveFolder, Drop
  <2> QED BY <2>1 DEF FoldersFormATree
<1> QED BY <1>1, <1>2, MoveKeepsTheTree DEF FolderStep

(* However the folders were created, moved and removed, they form a tree   *)
(* (checkFolderMove, asked in the transaction that writes).                *)
THEOREM Tree == Spec => []FoldersFormATree
<1>1. Init => FoldersFormATree
  BY DEF Init, FoldersFormATree, FoldersThere
<1>2. TypeOK /\ FoldersFormATree /\ [Next]_vars => FoldersFormATree'
  <2> SUFFICES ASSUME TypeOK, FoldersFormATree, [Next]_vars PROVE FoldersFormATree'
    OBVIOUS
  <2>1. CASE FolderStep
    BY <2>1, FolderStepKeepsTheTree
  <2>2. CASE parent' = parent
    BY <2>2 DEF FoldersFormATree, FoldersThere
  <2>3. TagStep \/ StatusStep \/ PoolStep => parent' = parent
    BY DEF TagStep, RemoveTag, CreateTag, MoveTag, StatusStep, CreateStatus, MakeDefault,
           RemoveStatus, PoolStep, RemovePool, CreatePool, UpdatePool
  <2>4. TodoStep \/ BookingStep => parent' = parent
    BY DEF TodoStep, RemoveTodo, CreateTodo, UpdateTodo, SwitchDone, structure,
           BookingStep, StopTimer, CreateTimeEntry, StartTimer, BookingsChange
  <2> QED BY <2>1, <2>2, <2>3, <2>4 DEF Next, vars, structure
<1> QED BY <1>1, <1>2, TypeCorrect, PTL DEF Spec

-----------------------------------------------------------------------------
(* The two translations of a rule. *)

LEMMA CountingTags ==
  ASSUME NEW S \in SUBSET Tags, NEW T \in SUBSET Tags
  PROVE  /\ Cardinality(S \cap T) >= Cardinality(T) <=> T \subseteq S
         /\ Cardinality(S \cap T) >= 1 <=> T \cap S # {}
<1>1. IsFiniteSet(T) /\ IsFiniteSet(S \cap T)
  BY TagsAreFinite, FS_Subset
<1>2. Cardinality(T) \in Nat /\ Cardinality(S \cap T) \in Nat
  BY <1>1, FS_CardinalityType
<1>3. Cardinality(S \cap T) <= Cardinality(T)
  BY <1>1, FS_Subset
<1>4. Cardinality(S \cap T) = Cardinality(T) <=> S \cap T = T
  <2>1. S \cap T \in SUBSET T OBVIOUS
  <2>2. Cardinality(S \cap T) = Cardinality(T) => S \cap T = T
    BY <1>1, <2>1, FS_Subset
  <2> QED BY <2>2
<1>5. Cardinality(S \cap T) = 0 <=> S \cap T = {}
  BY <1>1, FS_EmptySet
<1>6. Cardinality(S \cap T) >= Cardinality(T) <=> T \subseteq S
  <2>1. Cardinality(S \cap T) >= Cardinality(T) <=> Cardinality(S \cap T) = Cardinality(T)
    BY <1>2, <1>3
  <2>2. S \cap T = T <=> T \subseteq S OBVIOUS
  <2> QED BY <2>1, <2>2, <1>4
<1>7. Cardinality(S \cap T) >= 1 <=> T \cap S # {}
  <2>1. Cardinality(S \cap T) >= 1 <=> Cardinality(S \cap T) # 0
    BY <1>2
  <2>2. S \cap T = T \cap S OBVIOUS
  <2> QED BY <2>1, <2>2, <1>5
<1> QED BY <1>6, <1>7

(* The domain and the query give one answer, for every rule and todo.      *)
LEMMA Agreement ==
  ASSUME NEW ready, ready.required \in SUBSET Tags, NEW card, card.tags \in SUBSET Tags
  PROVE  MatchesPool(ready, card) <=> RowMatches(ready, card)
<1>1. /\ Cardinality(card.tags \cap ready.required) >= Cardinality(ready.required)
           <=> ready.required \subseteq card.tags
      /\ Cardinality(card.tags \cap ready.required) >= 1
           <=> ready.required \cap card.tags # {}
  BY CountingTags
<1>2. ready.excluded \cap card.tags = {}
        <=> (ready.excluded # {} => ~ \E t \in card.tags : t \in ready.excluded)
  OBVIOUS
<1>3. CASE ready.match = "all"
  BY <1>1, <1>2, <1>3 DEF MatchesPool, RowMatches
<1>4. CASE ready.match # "all"
  BY <1>1, <1>2, <1>4 DEF MatchesPool, RowMatches
<1> QED BY <1>3, <1>4

LEMMA ReadyRules ==
  ASSUME TypeOK, NEW p \in PoolsThere
  PROVE  /\ rules[p] \in Rules
         /\ ReadyRule(p).required \in SUBSET Tags
         /\ ReadyRule(p).match = rules[p].match
         /\ ReadyRule(p).statuses = rules[p].statuses
         /\ ReadyRule(p).completion = rules[p].completion
         /\ ReadyRule(p).export = rules[p].export
<1>1. rules[p] \in Rules
  BY DEF TypeOK, PoolsThere
<1>2. rules[p].required.tags \subseteq Tags
  BY <1>1 DEF Rules, Terms
<1>3. Resolved(parent, home, rules[p].deep, rules[p].required) \subseteq Tags
  BY <1>2 DEF Resolved, FolderTags, TypeOK
<1> QED BY <1>1, <1>3 DEF ReadyRule, Ready

LEMMA HoldingIsMatching ==
  ASSUME TypeOK, NEW t \in TodosThere, NEW p \in PoolsThere
  PROVE  /\ p \in Holding(t) <=> RowMatches(ReadyRule(p), todos[t])
         /\ p \in Holding(t) <=> MatchesPool(ReadyRule(p), todos[t])
<1>1. todos[t] \in Cards
  BY DEF TypeOK, TodosThere
<1> QED BY <1>1, ReadyRules, Agreement DEF Holding, Cards

-----------------------------------------------------------------------------
(* The board. *)

LEMMA NamedAsListed ==
  ASSUME TypeOK, NEW t \in TodosThere, NEW include \in BOOLEAN
  PROVE  NamedIn(t, include) = {c \in Columns : t \in Listed(c, include)}
<1>1. todos[t] \in Cards
  BY DEF TypeOK, TodosThere
<1>2. /\ CardRead(t).tags = todos[t].tags /\ CardRead(t).status = todos[t].status
      /\ CardRead(t).done = todos[t].done
  BY <1>1 DEF CardRead, Cards
<1>3. ASSUME NEW c \in Columns
      PROVE  MatchesPool(ReadyRule(c), CardRead(t)) <=> MatchesPool(ReadyRule(c), todos[t])
  <2>1. c \in PoolsThere /\ ReadyRule(c).export = rules[c].export
    BY ReadyRules DEF Columns
  <2>2. CASE rules[c].export # "any"
    <3>1. CardRead(t).open = todos[t].open /\ CardRead(t).exported = todos[t].exported
      BY <1>1, <2>2 DEF CardRead, Cards
    <3> QED BY <3>1, <1>2 DEF MatchesPool
  <2>3. CASE rules[c].export = "any"
    BY <2>1, <2>3, <1>2 DEF MatchesPool
  <2> QED BY <2>2, <2>3
<1>4. ASSUME NEW c \in Columns
      PROVE  c \in NamedIn(t, include) <=> t \in Listed(c, include)
  <2>1. c \in PoolsThere BY DEF Columns
  <2>2. t \in Members(c) <=> MatchesPool(ReadyRule(c), todos[t])
    BY <2>1, HoldingIsMatching DEF Members
  <2>3. IsVisibleInPool(CardRead(t), ShowsCompleted(rules[c], include))
          <=> ShowsCompleted(rules[c], include) \/ ~todos[t].done
    BY <1>2 DEF IsVisibleInPool
  <2> QED BY <2>2, <2>3, <1>3 DEF NamedIn, Listed
<1> QED BY <1>4 DEF NamedIn

(* The board tells one truth about every card (loadBoard: the columns the  *)
(* domain names are those the query listed the todo in).                   *)
THEOREM OneTruth == Spec => []BoardTellsOneTruth
<1>1. TypeOK => BoardTellsOneTruth
  <2> SUFFICES ASSUME TypeOK, NEW include \in BOOLEAN
               PROVE  Appearances(include) =
                        {<<t, {c \in Columns : t \in Listed(c, include)}>> :
                           t \in {u \in TodosThere :
                                    Cardinality({c \in Columns : u \in Listed(c, include)}) > 1}}
    BY DEF BoardTellsOneTruth
  <2> DEFINE Twice == {u \in TodosThere : Cardinality({c \in Columns : u \in Listed(c, include)}) > 1}
  <2>1. Loaded(include) \subseteq TodosThere
    BY DEF Loaded, Listed, Members
  <2>2. \A u \in Loaded(include) : NamedIn(u, include) = {c \in Columns : u \in Listed(c, include)}
    BY <2>1, NamedAsListed
  <2>3. Twice \subseteq Loaded(include)
    <3> SUFFICES ASSUME NEW u \in Twice PROVE u \in Loaded(include)
      OBVIOUS
    <3>1. {c \in Columns : u \in Listed(c, include)} # {}
      BY FS_EmptySet
    <3> QED BY <3>1 DEF Loaded
  <2>4. {u \in Loaded(include) : Cardinality(NamedIn(u, include)) > 1} = Twice
    BY <2>1, <2>2, <2>3
  <2> QED BY <2>2, <2>3, <2>4 DEF Appearances
<1> QED BY <1>1, TypeCorrect, PTL

-----------------------------------------------------------------------------
(* The announcement. *)

(* What a movement says of a todo that the step turns into after.          *)
LEMMA MovementTells ==
  ASSUME TypeOK, TypeOK', UNCHANGED structure, NEW t \in TodosThere, t \in TodosThere',
         NEW after, todos'[t] = after, said' = Movement(t, todos[t], after)
  PROVE  /\ said'.enters = Holding(t)' \ Holding(t)
         /\ said'.leaves = Holding(t) \ Holding(t)'
         /\ said'.appears = Holding(t)'
<1>1. PoolsThere' = PoolsThere /\ \A p : ReadyRule(p)' = ReadyRule(p)
  BY DEF structure, PoolsThere, ReadyRule
<1>2. Holding(t) = {p \in PoolsThere : MatchesPool(ReadyRule(p), todos[t])}
  BY HoldingIsMatching DEF Holding
<1>3. Holding(t)' = {p \in PoolsThere : MatchesPool(ReadyRule(p), after)}
  <2>1. todos'[t] \in Cards
    BY DEF TypeOK, TodosThere
  <2>2. \A p \in PoolsThere : MatchesPool(ReadyRule(p), after) <=> RowMatches(ReadyRule(p), after)
    BY <2>1, ReadyRules, Agreement DEF Cards
  <2>3. Holding(t)' = {p \in PoolsThere : RowMatches(ReadyRule(p), after)}
    BY <1>1 DEF Holding
  <2> QED BY <2>2, <2>3
<1> QED BY <1>2, <1>3 DEF Movement, Silent

LEMMA NothingMoves ==
  ASSUME UNCHANGED structure, NEW t, todos'[t] = todos[t]
  PROVE  Holding(t)' = Holding(t)
BY DEF structure, Holding, PoolsThere, ReadyRule

Told(t) ==
  /\ said'.enters = Holding(t)' \ Holding(t)
  /\ said'.leaves = Holding(t) \ Holding(t)'
  /\ said'.told => said'.appears = Holding(t)'

(* The three ways a handler builds its announcement. *)
LEMMA ToldOfNothing ==
  ASSUME UNCHANGED structure, NEW t, todos'[t] = todos[t], said' = NoMovement(t)
  PROVE  Told(t)
BY NothingMoves DEF Told, NoMovement, Silent

LEMMA ToldOfBooking ==
  ASSUME TypeOK, TypeOK', UNCHANGED structure, NEW t \in TodosThere, t \in TodosThere',
         todos'[t] = [todos[t] EXCEPT !.open = TRUE], said' = MovementOfBooking(t)
  PROVE  Told(t)
<1>1. CASE todos[t].open
  <2>1. todos'[t] = todos[t]
    BY <1>1 DEF TypeOK, TodosThere, Cards
  <2> QED BY <1>1, <2>1, ToldOfNothing DEF MovementOfBooking
<1>2. CASE ~todos[t].open
  <2>1. said' = Movement(t, todos[t], [todos[t] EXCEPT !.open = TRUE])
    BY <1>2 DEF MovementOfBooking
  <2> QED BY <2>1, MovementTells DEF Told
<1> QED BY <1>1, <1>2

LEMMA ToldOfDone ==
  ASSUME TypeOK, TypeOK', UNCHANGED structure, NEW t \in TodosThere, t \in TodosThere',
         NEW done \in BOOLEAN,
         todos'[t] = [todos[t] EXCEPT !.done = done], said' = MovementOfDone(t, done)
  PROVE  Told(t)
<1>1. CASE todos[t].done = done
  <2>1. todos'[t] = todos[t]
    BY <1>1 DEF TypeOK, TodosThere, Cards
  <2> QED BY <1>1, <2>1, ToldOfNothing DEF MovementOfDone
<1>2. CASE todos[t].done # done
  <2>1. said' = Movement(t, todos[t], [todos[t] EXCEPT !.done = done])
    BY <1>2 DEF MovementOfDone
  <2> QED BY <2>1, MovementTells DEF Told
<1> QED BY <1>1, <1>2

LEMMA ToldOfStart ==
  ASSUME TypeOK, TypeOK', UNCHANGED structure, NEW t \in TodosThere, t \in TodosThere',
         NEW booked \in BOOLEAN,
         todos'[t] = [todos[t] EXCEPT !.open = @ \/ booked, !.done = FALSE],
         said' = MovementOfStart(t, booked)
  PROVE  Told(t)
<1>0. todos[t] \in Cards
  BY DEF TypeOK, TodosThere
<1>1. CASE ~todos[t].done /\ (booked => todos[t].open)
  <2>1. todos'[t] = todos[t]
    BY <1>0, <1>1 DEF Cards
  <2> QED BY <1>1, <2>1, ToldOfNothing DEF MovementOfStart
<1>2. CASE ~(~todos[t].done /\ (booked => todos[t].open))
  <2>1. said' = Movement(t, todos[t], todos'[t])
    <3>1. CASE booked
      <4>1. todos'[t] = [[todos[t] EXCEPT !.done = FALSE] EXCEPT !.open = TRUE]
        BY <1>0, <3>1 DEF Cards
      <4> QED BY <4>1, <3>1, <1>2 DEF MovementOfStart
    <3>2. CASE ~booked
      <4>1. todos'[t] = [todos[t] EXCEPT !.done = FALSE]
        BY <1>0, <3>2 DEF Cards
      <4> QED BY <4>1, <3>2, <1>2 DEF MovementOfStart
    <3> QED BY <3>1, <3>2
  <2> QED BY <2>1, MovementTells DEF Told
<1> QED BY <1>1, <1>2

LEMMA StepTells ==
  ASSUME TypeOK, TypeOK', Next, NEW t \in TodosThere, said'.about = t
  PROVE  Told(t)
<1>0. t # NoTodo /\ t \in Todos
  BY StructureAssumption DEF TypeOK, TodosThere
<1>1. said' # Silent
  BY <1>0 DEF Silent
<1>2. ~FolderStep /\ ~TagStep /\ ~StatusStep /\ ~PoolStep
  BY <1>1 DEF FolderStep, RemoveFolder, CreateFolder, MoveFolder, TagStep, RemoveTag, CreateTag,
              MoveTag, StatusStep, CreateStatus, MakeDefault, RemoveStatus, PoolStep, RemovePool,
              CreatePool, UpdatePool
<1>3. \A u, done, booked :
        /\ NoMovement(u).about = u
        /\ MovementOfBooking(u).about = u
        /\ MovementOfDone(u, done).about = u
        /\ MovementOfStart(u, booked).about = u
  BY DEF NoMovement, MovementOfBooking, MovementOfDone, MovementOfStart, Movement, Silent
<1>4. ASSUME NEW u \in Todos, NEW done \in BOOLEAN, SwitchDone(u, done)
      PROVE  Told(t)
  <2>1. u = t
    BY <1>3, <1>4 DEF SwitchDone
  <2>2. /\ UNCHANGED structure /\ t \in TodosThere' /\ said' = MovementOfDone(t, done)
        /\ todos'[t] = [todos[t] EXCEPT !.done = done]
    BY <1>4, <2>1 DEF SwitchDone, TodosThere
  <2> QED BY <2>2, ToldOfDone
<1>5. ASSUME NEW u \in Todos, CreateTimeEntry(u)
      PROVE  Told(t)
  <2>1. u = t
    BY <1>3, <1>5 DEF CreateTimeEntry
  <2>2. /\ UNCHANGED structure /\ t \in TodosThere' /\ said' = MovementOfBooking(t)
        /\ todos'[t] = [todos[t] EXCEPT !.open = TRUE]
    BY <1>5, <2>1 DEF CreateTimeEntry, TodosThere
  <2> QED BY <2>2, ToldOfBooking
<1>6. ASSUME NEW recorded \in BOOLEAN, StopTimer(recorded)
      PROVE  Told(t)
  <2>1. running = t /\ UNCHANGED structure
    BY <1>3, <1>6 DEF StopTimer
  <2>2. CASE recorded
    <3>1. /\ t \in TodosThere' /\ said' = MovementOfBooking(t)
          /\ todos'[t] = [todos[t] EXCEPT !.open = TRUE]
      BY <1>6, <2>1, <2>2 DEF StopTimer, TodosThere
    <3> QED BY <2>1, <3>1, ToldOfBooking
  <2>3. CASE ~recorded
    BY <1>6, <2>1, <2>3, ToldOfNothing DEF StopTimer
  <2> QED BY <2>2, <2>3
<1>7. ASSUME NEW u \in Todos, NEW recorded \in BOOLEAN, StartTimer(u, recorded)
      PROVE  Told(t)
  <2>1. u = t
    BY <1>3, <1>7 DEF StartTimer
  <2> DEFINE booked == recorded /\ running = t
  <2>2. /\ UNCHANGED structure /\ t \in TodosThere' /\ said' = MovementOfStart(t, booked)
        /\ todos'[t] = [todos[t] EXCEPT !.open = @ \/ (recorded /\ t = running), !.done = @ /\ t # t]
    BY <1>7, <2>1 DEF StartTimer, TodosThere
  <2>3. todos[t] \in Cards
    BY DEF TypeOK, TodosThere
  <2>4. todos'[t] = [todos[t] EXCEPT !.open = @ \/ booked, !.done = FALSE]
    BY <2>2, <2>3 DEF Cards
  <2> HIDE DEF booked
  <2>5. booked \in BOOLEAN
    BY DEF booked
  <2> QED BY <2>2, <2>4, <2>5, ToldOfStart
<1>8. ASSUME NEW u \in Todos, NEW tags, NEW s,
             RemoveTodo(u) \/ CreateTodo(u, tags, s) \/ UpdateTodo(u, tags, s)
      PROVE  FALSE
  BY <1>1, <1>8 DEF RemoveTodo, CreateTodo, UpdateTodo
<1>9. ASSUME NEW u \in Todos, NEW open, NEW exported, BookingsChange(u, open, exported)
      PROVE  FALSE
  BY <1>1, <1>9 DEF BookingsChange
<1>10. CASE TodoStep
  BY <1>10, <1>4, <1>8 DEF TodoStep
<1>11. CASE BookingStep
  BY <1>11, <1>5, <1>6, <1>7, <1>9 DEF BookingStep
<1> QED BY <1>2, <1>10, <1>11 DEF Next

(* What an answer announces is what the transaction did to its todo: start *)
(* and stop of the timer, a booking by hand, done and undone (E-058, E-060,*)
(* E-061).                                                                 *)
THEOREM AnnouncementIsTrue == Spec => MovementIsTrue
<1>1. TypeOK /\ TypeOK' /\ [Next]_vars =>
        [\A t \in TodosThere : said'.about = t => Told(t)]_vars
  BY StepTells
<1>2. [\A t \in TodosThere : said'.about = t => Told(t)]_vars =>
        [\A t \in TodosThere : said'.about = t =>
           \E before \in {Holding(t)}, after \in {Holding(t)'} :
              /\ said'.enters = after \ before
              /\ said'.leaves = before \ after
              /\ said'.told => said'.appears = after ]_vars
  BY DEF Told
<1> QED BY <1>1, <1>2, TypeCorrect, PTL DEF Spec, MovementIsTrue
-----------------------------------------------------------------------------
(* Removals. *)

(* A leaf that goes leaves the subtrees of the other folders as they were. *)
LEMMA SubtreesWithoutALeaf ==
  ASSUME TypeOK, NEW f \in Folders, RemoveFolder(f), NEW g \in FoldersThere, g # f,
         NEW x, x # f
  PROVE  x \in Subtree(parent', g) <=> x \in Subtree(parent, g)
<1> USE DEF FoldersThere
<1>1. /\ DOMAIN parent' = DOMAIN parent \ {f}
      /\ \A h \in DOMAIN parent \ {f} : parent'[h] = parent[h]
      /\ \A h \in DOMAIN parent : parent[h] # f
  BY DEF RemoveFolder, Drop
<1>2. ASSUME x \in Subtree(parent', g) PROVE x \in Subtree(parent, g)
  <2>1. ASSUME NEW S \in SUBSET DOMAIN parent, g \in S, DownClosed(parent, S)
        PROVE  x \in S
    <3>1. S \ {f} \in SUBSET DOMAIN parent' /\ g \in S \ {f}
      BY <1>1, <2>1
    <3>2. DownClosed(parent', S \ {f})
      BY <1>1, <2>1 DEF DownClosed
    <3> QED BY <3>1, <3>2, <1>2 DEF Subtree
  <2> QED BY <1>1, <1>2, <2>1 DEF Subtree
<1>3. ASSUME x \in Subtree(parent, g) PROVE x \in Subtree(parent', g)
  <2>1. ASSUME NEW S \in SUBSET DOMAIN parent', g \in S, DownClosed(parent', S)
        PROVE  x \in S
    <3>1. S \cup {f} \in SUBSET DOMAIN parent /\ g \in S \cup {f}
      BY <1>1, <2>1 DEF RemoveFolder
    <3>2. DownClosed(parent, S \cup {f})
      BY <1>1, <2>1 DEF DownClosed
    <3> QED BY <3>1, <3>2, <1>3 DEF Subtree
  <2> QED BY <1>1, <1>3, <2>1 DEF Subtree
<1> QED BY <1>2, <1>3

LEMMA ALeafChangesNoPool ==
  ASSUME TypeOK, NEW f \in Folders, RemoveFolder(f), NEW p \in PoolsThere
  PROVE  Members(p)' = Members(p)
<1>1. /\ UNCHANGED <<home, rules, todos>>
      /\ parent' = Drop(parent, f)
      /\ \A t \in DOMAIN home : home[t] # f
      /\ f \notin NamedBy(p).folders
  BY DEF RemoveFolder, TagsThere
<1>2. /\ rules[p].required.folders \subseteq FoldersThere \ {f}
      /\ rules[p].excluded.folders \subseteq FoldersThere \ {f}
  BY <1>1 DEF TypeOK, RuleStands, TermsStand, NamedBy
<1>3. ASSUME NEW g \in FoldersThere \ {f}, NEW deep
      PROVE  FolderTags(parent', home, deep, g) = FolderTags(parent, home, deep, g)
  <2>1. \A t \in DOMAIN home : home[t] \in Subtree(parent', g) <=> home[t] \in Subtree(parent, g)
    BY <1>1, SubtreesWithoutALeaf
  <2> QED BY <2>1 DEF FolderTags
<1>4. ASSUME NEW terms, terms.folders \subseteq FoldersThere \ {f}, NEW deep
      PROVE  /\ Resolved(parent', home, deep, terms) = Resolved(parent, home, deep, terms)
             /\ EmptyFolders(parent', home, deep, terms) = EmptyFolders(parent, home, deep, terms)
  <2>1. \A g \in terms.folders :
          FolderTags(parent', home, deep, g) = FolderTags(parent, home, deep, g)
    BY <1>3, <1>4
  <2> QED BY <2>1 DEF Resolved, EmptyFolders
<1>5. ReadyRule(p)' = ReadyRule(p)
  <2>1. Ready(parent', home, rules[p]) = Ready(parent, home, rules[p])
    BY <1>2, <1>4 DEF Ready, Unresolved
  <2> QED BY <2>1, <1>1 DEF ReadyRule
<1> QED BY <1>1, <1>5 DEF Members, Holding, PoolsThere, TodosThere

(* A tag that goes is on no todo, and in no rule but through a folder.     *)
LEMMA ATagWidensNoPool ==
  ASSUME TypeOK, TypeOK', NEW t \in Tags, RemoveTag(t), NEW p \in PoolsThere
  PROVE  \/ Members(p)' \subseteq Members(p)
         \/ rules[p].match = "all" /\ t \in ReadyRule(p).required
<1> DEFINE rule == rules[p]
           before(terms) == Resolved(parent, home, rule.deep, terms)
           after(terms)  == Resolved(parent, home', rule.deep, terms)
<1>1. /\ UNCHANGED <<parent, rules, todos>>
      /\ DOMAIN home' = DOMAIN home \ {t}
      /\ \A u \in DOMAIN home \ {t} : home'[u] = home[u]
      /\ \A u \in TodosThere : t \notin todos[u].tags
      /\ t \notin rule.required.tags /\ t \notin rule.excluded.tags
  BY DEF RemoveTag, Drop, TagsThere, NamedBy
<1>2. \A deep, f : FolderTags(parent, home', deep, f) = FolderTags(parent, home, deep, f) \ {t}
  BY <1>1 DEF FolderTags
<1>3. /\ after(rule.required) = before(rule.required) \ {t}
      /\ after(rule.excluded) = before(rule.excluded) \ {t}
  BY <1>1, <1>2 DEF Resolved
<1>4. EmptyFolders(parent, home, rule.deep, rule.required)
        \subseteq EmptyFolders(parent, home', rule.deep, rule.required)
  BY <1>2 DEF EmptyFolders
<1>5. Unresolved(parent, home, rule) => Unresolved(parent, home', rule)
  BY <1>3, <1>4 DEF Unresolved
<1>6. ~Unresolved(parent, home', rule) /\ before(rule.required) # {} => after(rule.required) # {}
  BY DEF Unresolved, Resolved
<1>7. ASSUME ~(rule.match = "all" /\ t \in before(rule.required)),
             NEW card, t \notin card.tags, MatchesPool(Ready(parent, home', rule), card)
      PROVE  MatchesPool(Ready(parent, home, rule), card)
  <2> DEFINE new == Ready(parent, home', rule)
             old == Ready(parent, home, rule)
  <2>1. /\ old.match = new.match /\ old.statuses = new.statuses
        /\ old.completion = new.completion /\ old.export = new.export
        /\ old.required = before(rule.required) /\ new.required = after(rule.required)
        /\ old.excluded = before(rule.excluded) /\ new.excluded = after(rule.excluded)
        /\ old.unresolved = Unresolved(parent, home, rule)
        /\ new.unresolved = Unresolved(parent, home', rule)
        /\ old.match = rule.match
    BY DEF Ready
  <2> HIDE DEF new, old, before, after
  <2>2. MatchesPool(new, card)
    BY <1>7 DEF new
  <2>3. ~MatchesNothing(old)
    BY <2>1, <2>2, <1>3, <1>5 DEF MatchesPool, MatchesNothing
  <2>4. old.excluded \cap card.tags = {}
    BY <2>1, <2>2, <1>3, <1>7 DEF MatchesPool
  <2>5. old.required # {} => new.required # {}
    BY <2>1, <2>2, <1>6 DEF MatchesPool, MatchesNothing
  <2>6. old.required # {} =>
          IF old.match = "all" THEN old.required \subseteq card.tags
                               ELSE old.required \cap card.tags # {}
    <3>1. CASE old.match = "all"
      <4>1. old.required = new.required
        BY <3>1, <2>1, <1>3, <1>7
      <4> QED BY <4>1, <3>1, <2>1, <2>2 DEF MatchesPool
    <3>2. CASE old.match # "all"
      BY <3>2, <2>1, <2>2, <2>5, <1>3 DEF MatchesPool
    <3> QED BY <3>1, <3>2
  <2>7. MatchesPool(old, card)
    BY <2>1, <2>2, <2>3, <2>4, <2>6 DEF MatchesPool
  <2> QED BY <2>7 DEF old
<1>8. /\ ReadyRule(p) = Ready(parent, home, rule) /\ ReadyRule(p)' = Ready(parent, home', rule)
      /\ ReadyRule(p).required = before(rule.required)
  BY <1>1 DEF ReadyRule, Ready
<1>9. ASSUME ~(rule.match = "all" /\ t \in before(rule.required)), NEW u \in Members(p)'
      PROVE  u \in Members(p)
  <2>1. u \in TodosThere /\ u \in TodosThere' /\ p \in PoolsThere' /\ todos'[u] = todos[u]
    BY <1>1, <1>9 DEF Members, TodosThere, PoolsThere
  <2>2. p \in Holding(u)'
    BY <1>9 DEF Members
  <2>3. RowMatches(Ready(parent, home', rule), todos[u])
    BY <2>1, <2>2, <1>8 DEF Holding
  <2>4. todos[u] \in Cards
    BY <2>1 DEF TypeOK, TodosThere
  <2>5. Ready(parent, home', rule).required \in SUBSET Tags
    BY ReadyRules, <1>8, <1>3 DEF Ready
  <2>6. MatchesPool(Ready(parent, home', rule), todos[u])
    BY <2>3, <2>4, <2>5, Agreement DEF Cards
  <2>7. MatchesPool(ReadyRule(p), todos[u])
    BY <2>1, <2>6, <1>1, <1>7, <1>8, <1>9
  <2>8. p \in Holding(u)
    BY <2>1, <2>7, HoldingIsMatching
  <2> QED BY <2>1, <2>8 DEF Members
<1> QED BY <1>8, <1>9

LEMMA NothingRemoved ==
  ASSUME ~FolderStep, ~TagStep, ~StatusStep, [Next]_vars
  PROVE  UNCHANGED <<parent, home, statuses>>
BY DEF Next, vars, structure, PoolStep, RemovePool, CreatePool, UpdatePool, TodoStep, RemoveTodo,
       CreateTodo, UpdateTodo, SwitchDone, BookingStep, StopTimer, CreateTimeEntry, StartTimer,
       BookingsChange

Narrow(p) ==
  /\ ~(FoldersThere \subseteq FoldersThere' /\ statuses \subseteq statuses')
       => Members(p)' = Members(p)
  /\ \A t \in TagsThere \ TagsThere' :
       \/ Members(p)' \subseteq Members(p)
       \/ rules[p].match = "all" /\ t \in ReadyRule(p).required

LEMMA StepNarrows ==
  ASSUME TypeOK, TypeOK', [Next]_vars, NEW p \in PoolsThere
  PROVE  Narrow(p)
<1> USE DEF FoldersThere, TagsThere
<1>1. CASE FolderStep
  <2>0. PICK f \in Folders :
          RemoveFolder(f) \/ \E q \in Folders \cup {Root} : CreateFolder(f, q) \/ MoveFolder(f, q)
    BY <1>1 DEF FolderStep
  <2>1. UNCHANGED <<home, statuses>>
    BY <2>0 DEF RemoveFolder, CreateFolder, MoveFolder
  <2>2. CASE RemoveFolder(f)
    BY <2>1, <2>2, ALeafChangesNoPool DEF Narrow
  <2>3. ASSUME NEW q, CreateFolder(f, q) \/ MoveFolder(f, q)
        PROVE  DOMAIN parent \subseteq DOMAIN parent'
    BY <2>3 DEF CreateFolder, MoveFolder, Set
  <2> QED BY <2>0, <2>1, <2>2, <2>3 DEF Narrow
<1>2. CASE TagStep
  <2>0. PICK t \in Tags :
          RemoveTag(t) \/ \E h \in Folders \cup {Root} : CreateTag(t, h) \/ MoveTag(t, h)
    BY <1>2 DEF TagStep
  <2>1. UNCHANGED <<parent, statuses>>
    BY <2>0 DEF RemoveTag, CreateTag, MoveTag
  <2>2. CASE RemoveTag(t)
    <3>1. DOMAIN home \ DOMAIN home' \subseteq {t}
      BY <2>2 DEF RemoveTag, Drop
    <3> QED BY <2>1, <2>2, <3>1, ATagWidensNoPool DEF Narrow
  <2>3. ASSUME NEW h, CreateTag(t, h) \/ MoveTag(t, h)
        PROVE  DOMAIN home \subseteq DOMAIN home'
    BY <2>3 DEF CreateTag, MoveTag, Set
  <2> QED BY <2>0, <2>1, <2>2, <2>3 DEF Narrow
<1>3. CASE StatusStep
  <2>1. UNCHANGED <<parent, home, rules, todos>>
    BY <1>3 DEF StatusStep, CreateStatus, MakeDefault, RemoveStatus
  <2>2. Members(p)' = Members(p)
    BY <2>1 DEF Members, Holding, ReadyRule, PoolsThere, TodosThere
  <2> QED BY <2>1, <2>2 DEF Narrow
<1>4. CASE ~FolderStep /\ ~TagStep /\ ~StatusStep
  BY <1>4, NothingRemoved DEF Narrow
<1> QED BY <1>1, <1>2, <1>3, <1>4

(* No removal hollows a rule out (repo-tags and repo-statuses refuse to    *)
(* remove what a rule names, since migration 0012 the database does too).  *)
THEOREM RemovalsAreSafe == Spec => RemovalsNeverWiden
<1>1. TypeOK /\ TypeOK' /\ [Next]_vars => [\A p \in PoolsThere \cap PoolsThere' : Narrow(p)]_vars
  BY StepNarrows
<1>2. [\A p \in PoolsThere \cap PoolsThere' : Narrow(p)]_vars =>
        [ \A p \in PoolsThere \cap PoolsThere' :
            /\ ~(FoldersThere \subseteq FoldersThere' /\ statuses \subseteq statuses')
                 => Members(p)' = Members(p)
            /\ \A t \in TagsThere \ TagsThere' :
                 \/ Members(p)' \subseteq Members(p)
                 \/ rules[p].match = "all" /\ t \in ReadyRule(p).required ]_vars
  BY DEF Narrow
<1> QED BY <1>1, <1>2, TypeCorrect, PTL DEF Spec, RemovalsNeverWiden
=============================================================================
