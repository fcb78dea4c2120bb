SPECIFICATION Spec
CONSTANTS
  f1 = f1
  f2 = f2
  t1 = t1
  t2 = t2
  s1 = s1
  s2 = s2
  Folders = {f1, f2}
  Tags = {t1, t2}
  Statuses = {s1, s2}
  Root = Root
  Pools = {p1, p2}
  Todos = {d1}
  RuleInputs <- MCRuleInputs
  FirstStatus = s1
  NoTodo = NoTodo
SYMMETRY PoolSymmetry
INVARIANTS
  FoldersFormATree
  BoardTellsOneTruth
PROPERTIES
  RemovalsNeverWiden
  MovementIsTrue
