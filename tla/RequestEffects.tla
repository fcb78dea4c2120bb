---------------------------- MODULE RequestEffects ----------------------------
(***************************************************************************)
(* What A-10.13 promises of the mail assignment, apart from how it is      *)
(* done: a request of the add-in takes effect on one todo and does so      *)
(* once, however often it is sent.  An effect ends with its todo; an       *)
(* archive brings back the effects of the moment it was taken.             *)
(***************************************************************************)
CONSTANTS Requests, Todos

VARIABLES
    effects,  \* the requests in effect, each with its todo
    saved     \* the effects an archive holds

vars == <<effects, saved>>

Effects == [req : Requests, todo : Todos]

Init == effects = {} /\ saved = {}

Apply(r, t) ==
    /\ \A e \in effects : e.req # r
    /\ effects' = effects \cup {[req |-> r, todo |-> t]}
    /\ saved' = saved

End(t) ==
    /\ effects' = {e \in effects : e.todo # t}
    /\ saved' = saved

Save == saved' = effects /\ effects' = effects

Restore == effects' = saved /\ saved' = saved

Next ==
    \/ \E r \in Requests, t \in Todos : Apply(r, t)
    \/ \E t \in Todos : End(t)
    \/ Save
    \/ Restore

Spec == Init /\ [][Next]_vars

(* A request is in effect once at most.                                    *)
EachOnce == \A d, e \in effects : d.req = e.req => d = e
=============================================================================
