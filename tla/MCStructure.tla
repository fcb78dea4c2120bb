---- MODULE MCStructure ----
EXTENDS Structure, TLC

CONSTANTS f1, f2, t1, t2, s1, s2

PoolSymmetry == Permutations(Pools)

None == [tags |-> {}, folders |-> {}]

Neutral == [ match |-> "any", deep |-> FALSE, placement |-> "board",
             required |-> None, excluded |-> None, statuses |-> {},
             completion |-> "any", export |-> "any" ]

(* One rule for each way an axis can be asked and resolved. *)
MCRuleInputs ==
  { [Neutral EXCEPT !.deep = TRUE, !.required.folders = {f1}, !.statuses = {s2},
                    !.export = "open"],
    [Neutral EXCEPT !.match = "all", !.required = [tags |-> {t1}, folders |-> {f2}],
                    !.completion = "open", !.placement = "both"],
    [Neutral EXCEPT !.deep = TRUE, !.excluded = [tags |-> {t2}, folders |-> {f2}],
                    !.completion = "done", !.export = "exported"],
    [Neutral EXCEPT !.excluded.folders = {f1}, !.placement = "pool"] }
====
