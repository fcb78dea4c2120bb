------------------------------ MODULE ToastStack ------------------------------
(***************************************************************************)
(* The stack of messages of the web interface (ToastContext.tsx).  A       *)
(* message with a way back, an offer, stays until the user closes it; any  *)
(* other goes when its own time is up, or earlier to make room.            *)
(***************************************************************************)
EXTENDS Naturals, Sequences, FiniteSets

CONSTANTS
    MaxToasts,  \* how many messages make room for the next (4 in the code)
    Life,       \* the time of a message without an offer, in ticks (8 s)
    NoOffer     \* the offer of a message that has none

ASSUME StackAssumption == MaxToasts \in Nat \ {0} /\ Life \in Nat \ {0}

(* left is what its timer has left, seen how long it has been there.       *)
Toast(offer) == [offer |-> offer, left |-> Life, seen |-> 0]

Plain(stack) == {i \in DOMAIN stack : stack[i].offer = NoOffer}

(* How many of the places are at i or before it.                           *)
Rank(i, places) == Cardinality({j \in places : j <= i})

Nth(k, places) == CHOOSE i \in places : Rank(i, places) = k

(* The messages at the other places, in their order.                       *)
Without(stack, out) ==
    LET kept == DOMAIN stack \ out
    IN  [k \in 1..Cardinality(kept) |-> stack[Nth(k, kept)]]

(* The three newest stay, whatever they are.                               *)
FaultyEvict(stack) == Without(stack, {i \in DOMAIN stack : i + MaxToasts - 1 <= Len(stack)})

(* The oldest messages without an offer make room, as many as it takes.    *)
Evict(stack) ==
    Without(stack, {i \in Plain(stack) :
        Rank(i, Plain(stack)) + MaxToasts <= Len(stack) + 1})

(* The timers begin again with every change of the stack (T-115).          *)
FaultyShow(stack, offer) ==
    LET kept == Evict(stack)
    IN  Append([i \in DOMAIN kept |-> [kept[i] EXCEPT !.left = Life]], Toast(offer))

Show(stack, offer) == Append(Evict(stack), Toast(offer))

(* By its time, its offer or its button.                                   *)
Dismiss(stack, i) == Without(stack, {i})

Due(stack) == {i \in Plain(stack) : stack[i].left = 0}

Older(stack) ==
    [i \in DOMAIN stack |->
        IF i \in Plain(stack)
        THEN [stack[i] EXCEPT !.left = @ - 1, !.seen = @ + 1]
        ELSE stack[i]]

(* Only offers may carry the stack over its limit; the newest message is   *)
(* always there.                                                           *)
Bounded(stack) ==
    Len(stack) > MaxToasts => Plain(stack) \subseteq {Len(stack)}
===============================================================================
