------------------------ MODULE TransactionQueueProofs -------------------------
(***************************************************************************)
(* The queue of transactions keeps what SerialTransactions promises, for   *)
(* any number of calls and writes (safety; that every call is answered is  *)
(* left to TLC).                                                           *)
(*                                                                         *)
(* The argument: whatever happened, at most one call of the chain is under *)
(* way, and what the microtask queue holds is known to the last job: the   *)
(* rest of the call before it, its own start, or what its end has queued.  *)
(***************************************************************************)
EXTENDS TransactionQueue, FiniteSetTheorems, SequenceTheorems, TLAPS

(* k calls are freed, and no later one has begun before the k-th is freed. *)
Over(k) == k = 0 \/ state[chain[k]] = "done"
Left(k) == k > 0 /\ state[chain[k]] = "settled"

(* The next call, if there is one, and the jobs that belong to it.         *)
Resting(k)  == k = Len(chain) /\ Over(k) /\ micro = <<>> /\ open = None
Leaving(k)  == k = Len(chain) /\ Left(k) /\ micro = <<Job("continue", chain[k])>> /\ open = None
Starting(k) ==
    /\ k < Len(chain) /\ state[chain[k + 1]] = "waiting" /\ open = None
    /\ \/ Over(k) /\ micro = <<Job("start", chain[k + 1])>>
       \/ Left(k) /\ micro = <<Job("continue", chain[k]), Job("start", chain[k + 1])>>
Running(k) ==
    /\ k < Len(chain) /\ state[chain[k + 1]] = "running" /\ Over(k) /\ micro = <<>>
    /\ open \in Seq(Calls) /\ Len(open) <= MaxWrites
    /\ \A i \in 1..Len(open) : open[i] = chain[k + 1]
Ended(k) ==
    /\ k < Len(chain) /\ state[chain[k + 1]] = "settled" /\ Over(k) /\ open = None
    /\ micro = <<Job("derive", chain[k + 1]), Job("continue", chain[k + 1])>>

At(k) ==
    /\ freed = {chain[i] : i \in 1..k}
    /\ \A i \in 1..Len(chain) : /\ i < k => state[chain[i]] = "done"
                                /\ i > k + 1 => state[chain[i]] = "waiting"
    /\ Resting(k) \/ Leaving(k) \/ Starting(k) \/ Running(k) \/ Ended(k)

Forms ==
    /\ state \in [Calls -> States]
    /\ chain \in Seq(Calls)
    /\ db \in Seq(Calls)
    /\ \A i, j \in 1..Len(chain) : chain[i] = chain[j] => i = j
    /\ \A c \in Calls : state[c] \in {"waiting", "running", "settled"} =>
                            \E i \in 1..Len(chain) : chain[i] = c
    /\ \A i \in 1..Len(chain) : state[chain[i]] # "idle"

IInv == Forms /\ \E k \in 0..Len(chain) : At(k)
-----------------------------------------------------------------------------
LEMMA InitIInv == Init => IInv
<1> SUFFICES ASSUME Init PROVE IInv
  OBVIOUS
<1>1. Forms
  BY DEF Init, Forms, States
<1>2. At(0) /\ 0 \in 0..Len(chain)
  BY DEF Init, At, Resting, Over
<1>. QED BY <1>1, <1>2 DEF IInv

LEMMA Summary ==
    ASSUME IInv
    PROVE  TypeOK /\ TransactionsApart /\ ContinuationFirst
<1>1. PICK k \in 0..Len(chain) : At(k)
  BY DEF IInv
<1>2. /\ state \in [Calls -> States] /\ chain \in Seq(Calls) /\ db \in Seq(Calls)
      /\ Len(chain) \in Nat /\ \A i \in 1..Len(chain) : chain[i] \in Calls
  BY DEF IInv, Forms
<1>3. freed \subseteq Calls
  BY <1>1, <1>2 DEF At
<1>4. micro \in Seq(Jobs)
  <2>1. \A name \in {"start", "derive", "continue"}, c \in Calls : Job(name, c) \in Jobs
    BY DEF Job, Jobs
  <2>2. \A a, b \in Jobs : <<a>> \in Seq(Jobs) /\ <<a, b>> \in Seq(Jobs)
    OBVIOUS
  <2>3. <<>> \in Seq(Jobs)
    OBVIOUS
  <2>4. CASE Resting(k) \/ Running(k)
    BY <2>3, <2>4 DEF Resting, Running
  <2>5. CASE Leaving(k)
    <3>1. chain[k] \in Calls
      BY <1>2, <2>5 DEF Leaving, Left
    <3>2. Job("continue", chain[k]) \in Jobs
      BY <3>1, <2>1
    <3>. QED BY <3>2, <2>2, <2>5 DEF Leaving
  <2>6. CASE Starting(k)
    <3>1. chain[k + 1] \in Calls /\ (Left(k) => chain[k] \in Calls)
      BY <1>2, <2>6 DEF Starting, Left
    <3>2. /\ Job("start", chain[k + 1]) \in Jobs
          /\ Left(k) => Job("continue", chain[k]) \in Jobs
      BY <3>1, <2>1
    <3>. QED BY <3>2, <2>2, <2>6 DEF Starting
  <2>7. CASE Ended(k)
    <3>1. chain[k + 1] \in Calls
      BY <1>2, <2>7 DEF Ended
    <3>2. Job("derive", chain[k + 1]) \in Jobs /\ Job("continue", chain[k + 1]) \in Jobs
      BY <3>1, <2>1
    <3>. QED BY <3>2, <2>2, <2>7 DEF Ended
  <2>. QED BY <1>1, <2>4, <2>5, <2>6, <2>7 DEF At
<1>5. ASSUME NEW c \in Calls, state[c] = "running"
      PROVE  Running(k) /\ c = chain[k + 1]
  <2>1. PICK i \in 1..Len(chain) : chain[i] = c
    BY <1>5 DEF IInv, Forms
  <2>2. i = k + 1 /\ state[chain[i]] = "running"
    BY <1>1, <1>2, <1>5, <2>1 DEF At, Resting, Leaving, Starting, Running, Ended, Over, Left
  <2>. QED BY <1>1, <1>2, <2>1, <2>2 DEF At, Resting, Leaving, Starting, Running, Ended
<1>6. open # None => Running(k)
  BY <1>1 DEF At, Resting, Leaving, Starting, Ended
<1>7. Running(k) => open # None /\ open \in Seq(Calls) /\ k + 1 \in 1..Len(chain)
  BY <1>1, <1>2, CallsAssumption DEF Running
<1>8. TypeOK
  BY <1>1, <1>2, <1>3, <1>4, <1>5, <1>6, <1>7 DEF TypeOK, Running
<1>9. TransactionsApart
  BY <1>5 DEF TransactionsApart, Running
<1>10. ContinuationFirst
  <2> SUFFICES ASSUME NEW c \in Calls, NEW d \in Calls,
                      state[c] = "running", state[d] = "settled"
               PROVE  FALSE
    BY DEF ContinuationFirst
  <2>1. Running(k)
    BY <1>5
  <2>2. PICK i \in 1..Len(chain) : chain[i] = d
    BY DEF IInv, Forms
  <2>. QED BY <1>1, <1>2, <2>1, <2>2 DEF At, Running, Over
<1>. QED BY <1>8, <1>9, <1>10
-----------------------------------------------------------------------------
(* What the microtask queue is, of one job or of two.                      *)
LEMMA OneJob ==
    ASSUME NEW S, NEW a \in S
    PROVE  /\ <<a>> \in Seq(S) /\ <<a>> # <<>> /\ Head(<<a>>) = a /\ Tail(<<a>>) = <<>>
           /\ Append(<<>>, a) = <<a>>
  OBVIOUS

LEMMA TwoJobs ==
    ASSUME NEW S, NEW a \in S, NEW b \in S
    PROVE  /\ <<a, b>> \in Seq(S) /\ <<a, b>> # <<>> /\ Head(<<a, b>>) = a
           /\ Tail(<<a, b>>) = <<b>>
           /\ Append(<<a>>, b) = <<a, b>> /\ <<>> \o <<a, b>> = <<a, b>>
<1>1. Append(<<a>>, b) = <<a, b>>
  <2> DEFINE s == Append(<<a>>, b)  t == <<a, b>>
  <2>1. s \in Seq(S) /\ t \in Seq(S) /\ Len(s) = 2 /\ Len(t) = 2
    OBVIOUS
  <2>2. s[1] = a /\ s[2] = b /\ t[1] = a /\ t[2] = b
    OBVIOUS
  <2>3. \A i \in 1..2 : s[i] = t[i]
    BY <2>2
  <2> HIDE DEF s, t
  <2>4. s = t
    BY <2>1, <2>3, SeqEqual
  <2>. QED BY <2>4 DEF s, t
<1>2. Tail(<<a, b>>) = <<b>>
  OBVIOUS
<1>3. <<>> \o <<a, b>> = <<a, b>>
  OBVIOUS
<1>. QED BY <1>1, <1>2, <1>3

LEMMA JobForms ==
    \A name \in {"start", "derive", "continue"}, c \in Calls :
        Job(name, c) \in Jobs /\ Job(name, c).job = name /\ Job(name, c).call = c
  BY DEF Job, Jobs
-----------------------------------------------------------------------------
LEMMA StepCall ==
    ASSUME Forms, NEW k \in 0..Len(chain), At(k), NEW c \in Calls, Call(c)
    PROVE  Forms' /\ At(k)' /\ Len(chain') = Len(chain) + 1
<1> DEFINE n == Len(chain)
<1>1. /\ n \in Nat /\ chain \in Seq(Calls) /\ state[c] = "idle"
      /\ \A i \in 1..n : chain[i] \in Calls /\ chain[i] # c
      /\ Len(chain') = n + 1 /\ chain' \in Seq(Calls)
      /\ \A i \in 1..(n + 1) : chain'[i] = IF i = n + 1 THEN c ELSE chain[i]
      /\ \A d \in Calls : state'[d] = IF d = c THEN "waiting" ELSE state[d]
      /\ state' \in [Calls -> States]
      /\ UNCHANGED <<freed, open, db>>
  BY DEF Call, Accept, Forms, States
<1>2. Forms'
  <2>1. \A i, j \in 1..Len(chain') : chain'[i] = chain'[j] => i = j
    BY <1>1 DEF Forms
  <2>2. \A d \in Calls : state'[d] \in {"waiting", "running", "settled"} =>
                            \E i \in 1..Len(chain') : chain'[i] = d
    <3> SUFFICES ASSUME NEW d \in Calls, state'[d] \in {"waiting", "running", "settled"}
                 PROVE  \E i \in 1..(n + 1) : chain'[i] = d
      BY <1>1
    <3>1. CASE d = c
      BY <3>1, <1>1
    <3>2. CASE d # c
      <4>1. PICK i \in 1..n : chain[i] = d
        BY <3>2, <1>1 DEF Forms
      <4>. QED BY <4>1, <1>1
    <3>. QED BY <3>1, <3>2
  <2>3. \A i \in 1..Len(chain') : state'[chain'[i]] # "idle"
    BY <1>1 DEF Forms
  <2>. QED BY <1>1, <2>1, <2>2, <2>3 DEF Forms
<1>3. \A i \in 1..n : chain'[i] = chain[i] /\ state'[chain'[i]] = state[chain[i]]
  BY <1>1
<1>4. freed' = {chain'[i] : i \in 1..k}
  BY <1>1 DEF At
<1>5. \A i \in 1..Len(chain') : /\ i < k => state'[chain'[i]] = "done"
                                /\ i > k + 1 => state'[chain'[i]] = "waiting"
  BY <1>1, <1>3 DEF At
<1>6. CASE k = n
  <2>1. chain = <<>> \/ chain[n] \in freed
    BY <1>1, <1>6 DEF At
  <2>2. micro' = Append(micro, Job("start", c)) /\ Len(chain) = n /\ chain'[k + 1] = c
    BY <2>1, <1>1, <1>6 DEF Call, Accept
  <2>3. Over(k) => Over(k)'
    BY <1>3, <1>6 DEF Over
  <2>4. Left(k) => Left(k)' /\ chain'[k] = chain[k]
    BY <1>3, <1>6 DEF Left
  <2>5. Resting(k) \/ Leaving(k)
    BY <1>6 DEF At, Starting, Running, Ended
  <2>6. Starting(k)'
    <3>1. CASE Resting(k)
      <4>1. micro' = <<Job("start", c)>>
        BY <2>2, <3>1 DEF Resting
      <4>. QED BY <4>1, <3>1, <1>1, <1>6, <2>2, <2>3 DEF Starting, Resting
    <3>2. CASE Leaving(k)
      <4>1. chain[k] \in Calls
        BY <3>2, <1>1 DEF Leaving, Left
      <4>2. Job("continue", chain[k]) \in Jobs /\ Job("start", c) \in Jobs
        BY <4>1, JobForms
      <4>3. micro' = <<Job("continue", chain[k]), Job("start", c)>>
        BY <4>2, <2>2, <3>2, TwoJobs DEF Leaving
      <4>. QED BY <4>3, <3>2, <1>1, <1>6, <2>2, <2>4 DEF Starting, Leaving
    <3>. QED BY <2>5, <3>1, <3>2
  <2>. QED BY <1>1, <1>2, <1>4, <1>5, <2>6 DEF At
<1>7. CASE k < n
  <2>1. chain # <<>> /\ chain[n] \notin freed
    BY <1>1, <1>7 DEF At, Forms
  <2>2. micro' = micro
    BY <2>1 DEF Call, Accept
  <2>3. Over(k) => Over(k)'
    BY <1>3, <1>7 DEF Over
  <2>4. Left(k) => Left(k)' /\ chain'[k] = chain[k]
    BY <1>3, <1>7 DEF Left
  <2>5. chain'[k + 1] = chain[k + 1] /\ state'[chain'[k + 1]] = state[chain[k + 1]]
    BY <1>3, <1>7
  <2>6. /\ Starting(k) => Starting(k)'
        /\ Running(k) => Running(k)'
        /\ Ended(k) => Ended(k)'
    BY <1>1, <1>7, <2>2, <2>3, <2>4, <2>5 DEF Starting, Running, Ended
  <2>7. Starting(k) \/ Running(k) \/ Ended(k)
    BY <1>7, <1>1 DEF At, Resting, Leaving
  <2>. QED BY <1>1, <1>2, <1>4, <1>5, <2>6, <2>7 DEF At
<1>. QED BY <1>6, <1>7, <1>1

(* A step that leaves the chain as it is, and gives one of its calls, the  *)
(* k-th or the one after it, another state.                                *)
LEMMA Kept ==
    ASSUME Forms, NEW k \in 0..Len(chain), At(k), UNCHANGED chain, db' \in Seq(Calls),
           NEW j \in 1..Len(chain), j = k \/ j = k + 1, NEW s \in States \ {"idle"},
           state' = [state EXCEPT ![chain[j]] = s]
    PROVE  /\ Forms'
           /\ \A i \in 1..Len(chain) : state'[chain[i]] = IF i = j THEN s ELSE state[chain[i]]
           /\ \A i \in 1..Len(chain) : /\ i < k => state'[chain[i]] = "done"
                                       /\ i > k + 1 => state'[chain[i]] = "waiting"
<1>1. /\ chain \in Seq(Calls) /\ Len(chain) \in Nat
      /\ \A i \in 1..Len(chain) : chain[i] \in Calls
      /\ state' \in [Calls -> States]
      /\ \A d \in Calls : state'[d] = IF d = chain[j] THEN s ELSE state[d]
  BY DEF Forms
<1>2. Forms'
  BY <1>1 DEF Forms
<1>3. \A i \in 1..Len(chain) : state'[chain[i]] = IF i = j THEN s ELSE state[chain[i]]
  BY <1>1 DEF Forms
<1>. QED BY <1>1, <1>2, <1>3 DEF At

(* A refused call is in no chain.                                          *)
LEMMA StepNested ==
    ASSUME Forms, NEW k \in 0..Len(chain), At(k),
           NEW c \in Calls, NEW nested \in Calls, NestedCall(c, nested)
    PROVE  Forms' /\ At(k)'
<1>1. /\ chain \in Seq(Calls) /\ Len(chain) \in Nat
      /\ \A i \in 1..Len(chain) : chain[i] \in Calls /\ chain[i] # nested
      /\ state' \in [Calls -> States]
      /\ \A d \in Calls : state'[d] = IF d = nested THEN "done" ELSE state[d]
      /\ UNCHANGED <<chain, freed, micro, open, db>>
  BY DEF Forms, NestedCall, States
<1>2. Forms'
  BY <1>1 DEF Forms
<1>3. \A i \in 1..Len(chain) : state'[chain[i]] = state[chain[i]]
  BY <1>1
<1>4. /\ Over(k) => Over(k)'
      /\ Left(k) => Left(k)'
  BY <1>1, <1>3 DEF Over, Left
<1>5. /\ Resting(k) => Resting(k)'
      /\ Leaving(k) => Leaving(k)'
      /\ Starting(k) => Starting(k)'
      /\ Running(k) => Running(k)'
      /\ Ended(k) => Ended(k)'
  BY <1>1, <1>3, <1>4 DEF Resting, Leaving, Starting, Running, Ended
<1>. QED BY <1>1, <1>2, <1>3, <1>5 DEF At

(* The start of the next call: its work runs, or BEGIN has refused it.     *)
LEMMA StepStart ==
    ASSUME Forms, NEW k \in 0..Len(chain), At(k), NEW c \in Calls,
           Starting(k), micro = <<Job("start", chain[k + 1])>>, c = chain[k + 1], Start(c)
    PROVE  Forms' /\ At(k)'
<1>1. /\ Len(chain) \in Nat /\ k + 1 \in 1..Len(chain) /\ chain[k + 1] \in Calls
      /\ UNCHANGED <<chain, freed, db>> /\ db' \in Seq(Calls) /\ open = None
  BY DEF Forms, Starting, Start
<1>2. Over(k)
  <2> SUFFICES ASSUME Left(k), micro = <<Job("continue", chain[k]), Job("start", chain[k + 1])>>
               PROVE  FALSE
    BY DEF Starting
  <2>. QED OBVIOUS
<1>3. Tail(micro) = <<>>
  BY <1>1, JobForms, OneJob
<1>4. CASE open' = <<>> /\ state' = [state EXCEPT ![c] = "running"] /\ micro' = Tail(micro)
  <2>1. /\ Forms'
        /\ \A i \in 1..Len(chain) : state'[chain[i]] = IF i = k + 1 THEN "running" ELSE state[chain[i]]
        /\ \A i \in 1..Len(chain) : /\ i < k => state'[chain[i]] = "done"
                                    /\ i > k + 1 => state'[chain[i]] = "waiting"
    BY <1>1, <1>4, Kept DEF States
  <2>2. Over(k)'
    BY <2>1, <1>1, <1>2 DEF Over
  <2>3. Running(k)'
    BY <2>1, <2>2, <1>1, <1>3, <1>4, CallsAssumption DEF Running
  <2>. QED BY <2>1, <2>3, <1>1 DEF At
<1>5. CASE open' = open /\ state' = [state EXCEPT ![c] = "settled"] /\ micro' = Tail(micro) \o Settle(c)
  <2>1. /\ Forms'
        /\ \A i \in 1..Len(chain) : state'[chain[i]] = IF i = k + 1 THEN "settled" ELSE state[chain[i]]
        /\ \A i \in 1..Len(chain) : /\ i < k => state'[chain[i]] = "done"
                                    /\ i > k + 1 => state'[chain[i]] = "waiting"
    BY <1>1, <1>5, Kept DEF States
  <2>2. Over(k)'
    BY <2>1, <1>1, <1>2 DEF Over
  <2>3. micro' = <<Job("derive", c), Job("continue", c)>>
    BY <1>3, <1>5, JobForms, TwoJobs DEF Settle
  <2>4. Ended(k)'
    BY <2>1, <2>2, <2>3, <1>1, <1>5 DEF Ended
  <2>. QED BY <2>1, <2>4, <1>1 DEF At
<1>. QED BY <1>4, <1>5 DEF Start

(* The caller of the k-th call has gone on.                                *)
LEMMA StepContinue ==
    ASSUME Forms, NEW k \in 0..Len(chain), At(k), NEW c \in Calls,
           Left(k), c = chain[k], Continue(c),
           \/ Leaving(k)
           \/ Starting(k) /\ micro = <<Job("continue", chain[k]), Job("start", chain[k + 1])>>
    PROVE  Forms' /\ At(k)'
<1>1. /\ Len(chain) \in Nat /\ k \in 1..Len(chain) /\ chain[k] \in Calls
      /\ UNCHANGED <<chain, freed, open, db>> /\ db' \in Seq(Calls)
      /\ micro' = Tail(micro)
  BY DEF Forms, Left, Continue
<1>2. /\ Forms'
      /\ \A i \in 1..Len(chain) : state'[chain[i]] = IF i = k THEN "done" ELSE state[chain[i]]
      /\ \A i \in 1..Len(chain) : /\ i < k => state'[chain[i]] = "done"
                                  /\ i > k + 1 => state'[chain[i]] = "waiting"
  BY <1>1, Kept DEF States, Continue
<1>3. Over(k)'
  BY <1>1, <1>2 DEF Over
<1>4. CASE Leaving(k)
  <2>1. Tail(micro) = <<>>
    BY <1>1, <1>4, JobForms, OneJob DEF Leaving
  <2>2. Resting(k)'
    BY <2>1, <1>1, <1>3, <1>4 DEF Leaving, Resting
  <2>. QED BY <2>2, <1>1, <1>2 DEF At
<1>5. CASE Starting(k) /\ micro = <<Job("continue", chain[k]), Job("start", chain[k + 1])>>
  <2>1. k + 1 \in 1..Len(chain) /\ chain[k + 1] \in Calls
    BY <1>1, <1>5 DEF Starting, Forms
  <2>2. Tail(micro) = <<Job("start", chain[k + 1])>>
    BY <1>1, <2>1, <1>5, JobForms, TwoJobs
  <2>3. Starting(k)'
    BY <2>1, <2>2, <1>1, <1>2, <1>3, <1>5 DEF Starting
  <2>. QED BY <2>3, <1>1, <1>2 DEF At
<1>. QED BY <1>4, <1>5

(* The promise after the call is fulfilled: one more call is freed, and    *)
(* the next one may start, but after the caller.                           *)
LEMMA StepDerive ==
    ASSUME Forms, NEW k \in 0..Len(chain), At(k), NEW c \in Calls,
           Ended(k), c = chain[k + 1], Derive(c),
           NEW n \in Nat, n = k + 1
    PROVE  Forms' /\ At(n)' /\ n \in 0..Len(chain')
<1>1. /\ Len(chain) \in Nat /\ n \in 1..Len(chain) /\ chain[n] \in Calls /\ c = chain[n]
      /\ chain \in Seq(Calls) /\ UNCHANGED <<state, chain, open, db>> /\ open = None
  BY DEF Forms, Ended, Derive
<1>2. Forms'
  BY <1>1 DEF Forms
<1>3. freed' = {chain'[i] : i \in 1..n}
  BY <1>1 DEF At, Derive
<1>4. \A i \in 1..Len(chain') : /\ i < n => state'[chain'[i]] = "done"
                                /\ i > n + 1 => state'[chain'[i]] = "waiting"
  BY <1>1 DEF At, Ended, Over
<1>5. Left(n)'
  BY <1>1 DEF Ended, Left
<1>6. Tail(micro) = <<Job("continue", chain[n])>>
  BY <1>1, JobForms, TwoJobs DEF Ended
<1>7. ASSUME n = Len(chain) PROVE At(n)'
  <2>1. FollowersOf(c) = {}
    <3>1. DOMAIN chain = 1..Len(chain)
      BY <1>1
    <3>. QED BY <3>1, <1>1, <1>7 DEF FollowersOf, Forms
  <2>2. micro' = Tail(micro)
    BY <2>1 DEF Derive
  <2>3. Leaving(n)'
    BY <2>2, <1>1, <1>5, <1>6, <1>7 DEF Leaving
  <2>. QED BY <2>3, <1>3, <1>4 DEF At
<1>8. ASSUME n < Len(chain) PROVE At(n)'
  <2>1. n + 1 \in 1..Len(chain) /\ chain[n + 1] \in Calls /\ state[chain[n + 1]] = "waiting"
    BY <1>1, <1>8 DEF Forms, At
  <2>2. FollowersOf(c) = {chain[n + 1]}
    <3>1. {i \in DOMAIN chain : chain[i] = c /\ i < Len(chain)} = {n}
      <4>1. DOMAIN chain = 1..Len(chain)
        BY <1>1
      <4>. QED BY <4>1, <1>1, <1>8 DEF Forms
    <3>. QED BY <3>1, <1>1 DEF FollowersOf
  <2>3. micro' = Append(Tail(micro), Job("start", chain[n + 1]))
    BY <2>2 DEF Derive
  <2>4. micro' = <<Job("continue", chain[n]), Job("start", chain[n + 1])>>
    <3>1. Job("continue", chain[n]) \in Jobs /\ Job("start", chain[n + 1]) \in Jobs
      BY <2>1, <1>1, JobForms
    <3>. QED BY <3>1, <2>3, <1>6, TwoJobs
  <2>5. Starting(n)'
    BY <2>1, <2>4, <1>1, <1>5, <1>8 DEF Starting
  <2>. QED BY <2>5, <1>3, <1>4 DEF At
<1>9. n = Len(chain) \/ n < Len(chain)
  BY <1>1
<1>10. n \in 0..Len(chain')
  BY <1>1
<1>. QED BY <1>2, <1>7, <1>8, <1>9, <1>10

(* The work that runs writes, and ends.                                    *)
LEMMA StepWrite ==
    ASSUME Forms, NEW k \in 0..Len(chain), At(k), NEW c \in Calls,
           Running(k), c = chain[k + 1], Write(c)
    PROVE  Forms' /\ At(k)'
<1>1. /\ Len(chain) \in Nat /\ k + 1 \in 1..Len(chain)
      /\ UNCHANGED <<state, chain, freed, micro, db>>
  BY DEF Forms, Running, Write
<1>2. Forms'
  BY <1>1 DEF Forms
<1>3. /\ open' \in Seq(Calls) /\ Len(open') = Len(open) + 1 /\ Len(open') <= MaxWrites
      /\ \A i \in 1..Len(open') : open'[i] = IF i = Len(open) + 1 THEN c ELSE open[i]
  BY CallsAssumption DEF Running, Write
<1>4. Over(k)'
  BY <1>1 DEF Over, Running
<1>5. Running(k)'
  <2>1. \A i \in 1..Len(open') : open'[i] = chain[k + 1]
    BY <1>3 DEF Running
  <2>. QED BY <2>1, <1>1, <1>3, <1>4 DEF Running
<1>. QED BY <1>1, <1>2, <1>5 DEF At

LEMMA StepEnd ==
    ASSUME Forms, NEW k \in 0..Len(chain), At(k), NEW c \in Calls,
           Running(k), c = chain[k + 1], End(c)
    PROVE  Forms' /\ At(k)'
<1>1. /\ Len(chain) \in Nat /\ k + 1 \in 1..Len(chain) /\ chain[k + 1] \in Calls
      /\ UNCHANGED <<chain, freed>> /\ open' = None /\ micro = <<>>
      /\ state' = [state EXCEPT ![c] = "settled"] /\ micro' = micro \o Settle(c)
  BY DEF Forms, Running, End, Commit, Rollback
<1>2. db' \in Seq(Calls)
  <2>1. db \in Seq(Calls) /\ open \in Seq(Calls)
    BY DEF Running, Forms
  <2>2. db \o open \in Seq(Calls)
    BY <2>1, ConcatProperties
  <2>3. db' = db \o open \/ db' = db
    BY DEF End, Commit, Rollback
  <2>. QED BY <2>1, <2>2, <2>3
<1>3. /\ Forms'
      /\ \A i \in 1..Len(chain) : state'[chain[i]] = IF i = k + 1 THEN "settled" ELSE state[chain[i]]
      /\ \A i \in 1..Len(chain) : /\ i < k => state'[chain[i]] = "done"
                                  /\ i > k + 1 => state'[chain[i]] = "waiting"
  BY <1>1, <1>2, Kept DEF States
<1>4. micro' = <<Job("derive", c), Job("continue", c)>>
  BY <1>1, JobForms, TwoJobs DEF Settle
<1>5. Over(k)'
  BY <1>1, <1>3 DEF Running, Over
<1>6. Ended(k)'
  BY <1>1, <1>3, <1>4, <1>5 DEF Ended
<1>. QED BY <1>1, <1>3, <1>6 DEF At
-----------------------------------------------------------------------------
(* Which job is at the head says which of the forms it is.                 *)
LEMMA Heads ==
    ASSUME Forms, NEW k \in 0..Len(chain), At(k), micro # <<>>
    PROVE  LET c == Head(micro).call
           IN  \/ /\ Head(micro).job = "start" /\ Starting(k)
                  /\ c = chain[k + 1] /\ micro = <<Job("start", chain[k + 1])>>
               \/ Head(micro).job = "derive" /\ Ended(k) /\ c = chain[k + 1]
               \/ /\ Head(micro).job = "continue" /\ c = chain[k] /\ Left(k)
                  /\ \/ Leaving(k)
                     \/ /\ Starting(k)
                        /\ micro = <<Job("continue", chain[k]), Job("start", chain[k + 1])>>
<1>1. Len(chain) \in Nat /\ \A i \in 1..Len(chain) : chain[i] \in Calls
  BY DEF Forms
<1>2. CASE Leaving(k)
  <2>1. chain[k] \in Calls /\ Left(k)
    BY <1>1, <1>2 DEF Leaving, Left
  <2>2. Head(micro) = Job("continue", chain[k])
    BY <2>1, <1>2, JobForms, OneJob DEF Leaving
  <2>. QED BY <2>1, <2>2, <1>2, JobForms
<1>3. CASE Starting(k) /\ Over(k) /\ micro = <<Job("start", chain[k + 1])>>
  <2>1. chain[k + 1] \in Calls
    BY <1>1, <1>3 DEF Starting
  <2>2. Head(micro) = Job("start", chain[k + 1])
    BY <2>1, <1>3, JobForms, OneJob
  <2>. QED BY <2>1, <2>2, <1>3, JobForms
<1>4. CASE Starting(k) /\ Left(k) /\ micro = <<Job("continue", chain[k]), Job("start", chain[k + 1])>>
  <2>1. chain[k] \in Calls /\ chain[k + 1] \in Calls
    BY <1>1, <1>4 DEF Starting, Left
  <2>2. Head(micro) = Job("continue", chain[k])
    <3>1. Job("continue", chain[k]) \in Jobs /\ Job("start", chain[k + 1]) \in Jobs
      BY <2>1, JobForms
    <3>. QED BY <3>1, <1>4, TwoJobs
  <2>. QED BY <2>1, <2>2, <1>4, JobForms
<1>5. CASE Ended(k)
  <2>1. chain[k + 1] \in Calls
    BY <1>1, <1>5 DEF Ended
  <2>2. Head(micro) = Job("derive", chain[k + 1])
    BY <2>1, <1>5, JobForms, TwoJobs DEF Ended
  <2>. QED BY <2>1, <2>2, <1>5, JobForms
<1>. QED BY <1>2, <1>3, <1>4, <1>5 DEF At, Resting, Running, Starting

(* Only the call after the k-th runs.                                      *)
LEMMA RunsNext ==
    ASSUME Forms, NEW k \in 0..Len(chain), At(k), NEW c \in Calls, state[c] = "running"
    PROVE  Running(k) /\ c = chain[k + 1]
<1>1. Len(chain) \in Nat
  BY DEF Forms
<1>2. PICK i \in 1..Len(chain) : chain[i] = c
  BY DEF Forms
<1>3. i = k + 1
  BY <1>1, <1>2 DEF At, Resting, Leaving, Starting, Running, Ended, Over, Left
<1>. QED BY <1>1, <1>2, <1>3 DEF At, Resting, Leaving, Starting, Running, Ended

LEMMA Step == IInv /\ [Next]_vars => IInv'
<1> SUFFICES ASSUME IInv, [Next]_vars PROVE IInv'
  OBVIOUS
<1>1. PICK k \in 0..Len(chain) : At(k)
  BY DEF IInv
<1>2. Forms /\ Len(chain) \in Nat /\ \A i \in 1..Len(chain) : chain[i] \in Calls
  BY DEF IInv, Forms
<1>3. CASE Microtask
  <2> DEFINE c == Head(micro).call
  <2>1. CASE Head(micro).job = "start" /\ Start(c)
    <3>1. Starting(k) /\ c = chain[k + 1] /\ micro = <<Job("start", chain[k + 1])>>
      BY <1>1, <1>2, <1>3, <2>1, Heads DEF Microtask
    <3>2. c \in Calls /\ UNCHANGED chain
      BY <3>1, <1>2, <2>1 DEF Starting, Start
    <3>3. Forms' /\ At(k)'
      BY <3>1, <3>2, <1>1, <1>2, <2>1, StepStart
    <3>. QED BY <3>2, <3>3, <1>1 DEF IInv
  <2>2. CASE Head(micro).job = "derive" /\ Derive(c)
    <3>1. Ended(k) /\ c = chain[k + 1]
      BY <1>1, <1>2, <1>3, <2>2, Heads DEF Microtask
    <3>2. c \in Calls /\ k + 1 \in Nat
      BY <3>1, <1>2 DEF Ended
    <3>3. Forms' /\ \E n \in 0..Len(chain') : At(n)'
      BY <3>1, <3>2, <1>1, <1>2, <2>2, StepDerive
    <3>. QED BY <3>3 DEF IInv
  <2>3. CASE Head(micro).job = "continue" /\ Continue(c)
    <3>1. /\ c = chain[k] /\ Left(k)
          /\ \/ Leaving(k)
             \/ Starting(k) /\ micro = <<Job("continue", chain[k]), Job("start", chain[k + 1])>>
      BY <1>1, <1>2, <1>3, <2>3, Heads DEF Microtask
    <3>2. c \in Calls /\ UNCHANGED chain
      BY <3>1, <1>2, <2>3 DEF Left, Continue
    <3>3. Forms' /\ At(k)'
      BY <3>1, <3>2, <1>1, <1>2, <2>3, StepContinue
    <3>. QED BY <3>2, <3>3, <1>1 DEF IInv
  <2>. QED BY <1>3, <2>1, <2>2, <2>3 DEF Microtask
<1>4. ASSUME NEW c \in Calls, Call(c) PROVE IInv'
  <2>1. Forms' /\ At(k)' /\ Len(chain') = Len(chain) + 1
    BY <1>1, <1>2, <1>4, StepCall
  <2>2. k \in 0..Len(chain')
    BY <2>1, <1>2
  <2>. QED BY <2>1, <2>2 DEF IInv
<1>5. ASSUME NEW c \in Calls, Write(c) PROVE IInv'
  <2>1. Running(k) /\ c = chain[k + 1] /\ UNCHANGED chain
    BY <1>1, <1>2, <1>5, RunsNext DEF Write
  <2>2. Forms' /\ At(k)'
    BY <2>1, <1>1, <1>2, <1>5, StepWrite
  <2>. QED BY <2>1, <2>2, <1>1 DEF IInv
<1>6. ASSUME NEW c \in Calls, End(c) PROVE IInv'
  <2>1. Running(k) /\ c = chain[k + 1] /\ UNCHANGED chain
    BY <1>1, <1>2, <1>6, RunsNext DEF End, Commit, Rollback
  <2>2. Forms' /\ At(k)'
    BY <2>1, <1>1, <1>2, <1>6, StepEnd
  <2>. QED BY <2>1, <2>2, <1>1 DEF IInv
<1>7. ASSUME NEW c \in Calls, NEW nested \in Calls, NestedCall(c, nested) PROVE IInv'
  <2>1. UNCHANGED chain
    BY <1>7 DEF NestedCall
  <2>2. Forms' /\ At(k)'
    BY <1>1, <1>2, <1>7, StepNested
  <2>. QED BY <2>1, <2>2, <1>1 DEF IInv
<1>8. CASE UNCHANGED vars
  BY <1>8 DEF vars, IInv, Forms, At, Over, Left, Resting, Leaving, Starting, Running, Ended
<1>. QED BY <1>3, <1>4, <1>5, <1>6, <1>7, <1>8 DEF Next

LEMMA Inductive == Spec => []IInv
BY InitIInv, Step, PTL DEF Spec
-----------------------------------------------------------------------------
(* The variables have their form, and the connection is inside a           *)
(* transaction exactly while the work of a call runs.                      *)
THEOREM TypeCorrect == Spec => []TypeOK
BY Inductive, Summary, PTL

(* No call writes into the transaction of another one, however the calls   *)
(* of the handlers interleave.                                             *)
THEOREM Apart == Spec => []TransactionsApart
BY Inductive, Summary, PTL

(* What a caller does behind its await is done before the next transaction *)
(* begins; the import of an archive relies on it.                          *)
THEOREM ContinuesFirst == Spec => []ContinuationFirst
BY Inductive, Summary, PTL
-----------------------------------------------------------------------------
(* The calls of the chain are answered in its order: the first m of them.  *)
Answers(st, ch, m) ==
    /\ m \in 0..Len(ch)
    /\ \A i \in 1..Len(ch) : st[ch[i]] \in {"settled", "done"} <=> i <= m

LEMMA WaitingFrom ==
    ASSUME NEW st, NEW ch \in Seq(Calls), NEW m, Answers(st, ch, m)
    PROVE  Cardinality({i \in DOMAIN ch : st[ch[i]] \in {"settled", "done"}}) = m
<1>1. {i \in DOMAIN ch : st[ch[i]] \in {"settled", "done"}} = 1..m
  BY DEF Answers
<1>2. m \in Nat /\ Cardinality(1..m) = m
  BY FS_Interval DEF Answers
<1>. QED BY <1>1, <1>2

LEMMA AnswersOf ==
    ASSUME Forms, NEW k \in 0..Len(chain), At(k)
    PROVE  /\ Ended(k) => Answers(state, chain, k + 1)
           /\ Starting(k) \/ Running(k) \/ Resting(k) \/ Leaving(k) => Answers(state, chain, k)
<1>1. Len(chain) \in Nat
  BY DEF Forms
<1>2. CASE Ended(k)
  BY <1>1, <1>2 DEF At, Ended, Over, Answers, Starting, Running, Resting, Leaving
<1>3. CASE Starting(k) \/ Running(k) \/ Resting(k) \/ Leaving(k)
  BY <1>1, <1>3 DEF At, Ended, Over, Left, Answers, Starting, Running, Resting, Leaving
<1>. QED BY <1>2, <1>3

LEMMA OneChanged ==
    ASSUME Forms, NEW j \in 1..Len(chain), NEW s, state' = [state EXCEPT ![chain[j]] = s]
    PROVE  \A i \in 1..Len(chain) : state'[chain[i]] = IF i = j THEN s ELSE state[chain[i]]
  BY DEF Forms

(* Nobody is answered: the waiting calls are the same.                     *)
LEMMA NobodyAnswered ==
    ASSUME Forms, UNCHANGED <<chain, db>>,
           \A i \in 1..Len(chain) : state'[chain[i]] \in {"settled", "done"}
                                      <=> state[chain[i]] \in {"settled", "done"}
    PROVE  UNCHANGED <<Waiting, db>>
<1>1. DOMAIN chain = 1..Len(chain)
  BY DEF Forms
<1>2. Answered' = Answered
  BY <1>1 DEF Answered
<1>. QED BY <1>2 DEF Waiting

(* The call after the k-th is answered, with n writes.                     *)
LEMMA OneAnswered ==
    ASSUME Forms, NEW k \in 0..Len(chain), k < Len(chain), Answers(state, chain, k),
           UNCHANGED chain,
           \A i \in 1..Len(chain) :
               state'[chain[i]] = IF i = k + 1 THEN "settled" ELSE state[chain[i]],
           NEW n \in 0..MaxWrites, db' = db \o [i \in 1..n |-> chain[k + 1]]
    PROVE  Serial!Answer
<1>1. chain \in Seq(Calls) /\ Len(chain) \in Nat
  BY DEF Forms
<1>2. Answers(state', chain, k + 1)
  BY <1>1 DEF Answers
<1>3. Waiting = SubSeq(chain, k + 1, Len(chain))
  BY <1>1, WaitingFrom DEF Waiting, Answered
<1>4. Waiting' = SubSeq(chain, k + 1 + 1, Len(chain))
  BY <1>1, <1>2, WaitingFrom DEF Waiting, Answered
<1>5. /\ Head(Waiting) = chain[k + 1] /\ Waiting' = Tail(Waiting)
      /\ Len(Waiting) = Len(chain) - k
  <2>1. k + 1 \in 1..Len(chain) /\ Len(chain) \in (k + 1)..Len(chain)
    BY <1>1
  <2>. QED BY <2>1, <1>1, <1>3, <1>4, HeadTailOfSubSeq, SubSeqProperties
<1>6. Waiting # <<>>
  BY <1>1, <1>5
<1>. QED BY <1>5, <1>6 DEF Serial!Answer

(* A call is added at the end of the waiting ones.                         *)
LEMMA OneMore ==
    ASSUME Forms, NEW m, Answers(state, chain, m), NEW c \in Calls, Call(c)
    PROVE  Serial!Call(c)
<1>1. /\ chain \in Seq(Calls) /\ Len(chain) \in Nat /\ state[c] = "idle"
      /\ \A i \in 1..Len(chain) : chain[i] \in Calls /\ chain[i] # c
      /\ chain' = Append(chain, c) /\ chain' \in Seq(Calls) /\ Len(chain') = Len(chain) + 1
      /\ \A i \in 1..Len(chain') : chain'[i] = IF i = Len(chain) + 1 THEN c ELSE chain[i]
      /\ \A d \in Calls : state'[d] = IF d = c THEN "waiting" ELSE state[d]
      /\ db' = db /\ m \in 0..Len(chain)
  BY DEF Call, Accept, Forms, Answers
<1>2. Answers(state', chain', m)
  BY <1>1 DEF Answers
<1>3. Waiting = SubSeq(chain, m + 1, Len(chain))
  BY <1>1, WaitingFrom DEF Waiting, Answered
<1>4. Waiting' = SubSeq(chain', m + 1, Len(chain'))
  BY <1>1, <1>2, WaitingFrom DEF Waiting, Answered
<1>5. /\ Waiting \in Seq(Calls) /\ Len(Waiting) = Len(chain) - m
      /\ \A i \in 1..Len(Waiting) : Waiting[i] = chain[m + i]
  BY <1>1, <1>3
<1>6. /\ Waiting' \in Seq(Calls) /\ Len(Waiting') = Len(chain) + 1 - m
      /\ \A i \in 1..Len(Waiting') : Waiting'[i] = chain'[m + i]
  BY <1>1, <1>4
<1>7. Waiting' = Append(Waiting, c)
  <2>1. Append(Waiting, c) \in Seq(Calls) /\ Len(Append(Waiting, c)) = Len(Waiting')
    BY <1>1, <1>5, <1>6, AppendProperties
  <2>2. \A i \in 1..Len(Waiting') : Waiting'[i] = Append(Waiting, c)[i]
    BY <1>1, <1>5, <1>6
  <2>. QED BY <2>1, <2>2, <1>6, SeqEqual
<1>8. ~\E i \in DOMAIN Waiting : Waiting[i] = c
  BY <1>1, <1>5
<1>. QED BY <1>1, <1>7, <1>8 DEF Serial!Call, Serial!Waits

LEMMA InitSerial == Init => Serial!Init
<1> SUFFICES ASSUME Init PROVE Serial!Init
  OBVIOUS
<1>1. chain \in Seq(Calls) /\ Answers(state, chain, 0) /\ Len(chain) = 0
  BY DEF Init, Answers
<1>2. Cardinality(Answered) = 0
  BY <1>1, WaitingFrom DEF Answered
<1>3. Waiting = SubSeq(chain, 1, 0)
  BY <1>1, <1>2 DEF Waiting
<1>4. Waiting = <<>>
  BY <1>3, SubSeqEmpty
<1>. QED BY <1>4 DEF Init, Serial!Init

LEMMA StepSerial == IInv /\ [Next]_vars => [Serial!Next]_<<Waiting, db>>
<1> SUFFICES ASSUME IInv, [Next]_vars PROVE Serial!Next \/ UNCHANGED <<Waiting, db>>
  OBVIOUS
<1>1. PICK k \in 0..Len(chain) : At(k)
  BY DEF IInv
<1>2. /\ Forms /\ Len(chain) \in Nat
      /\ \A i \in 1..Len(chain) : chain[i] \in Calls
  BY DEF IInv, Forms
<1>3. CASE Microtask
  <2> DEFINE c == Head(micro).call
  <2>1. CASE Head(micro).job = "start" /\ Start(c)
    <3>1. Starting(k) /\ c = chain[k + 1]
      BY <1>1, <1>2, <1>3, <2>1, Heads DEF Microtask
    <3>2. k + 1 \in 1..Len(chain) /\ UNCHANGED <<chain, db>> /\ db \in Seq(Calls)
      BY <3>1, <1>2, <2>1 DEF Starting, Start, Forms
    <3>3. CASE state' = [state EXCEPT ![c] = "running"]
      <4>1. \A i \in 1..Len(chain) : state'[chain[i]] = IF i = k + 1 THEN "running" ELSE state[chain[i]]
        BY <3>1, <3>2, <3>3, <1>2, OneChanged
      <4>2. state[chain[k + 1]] = "waiting"
        BY <3>1 DEF Starting
      <4>. QED BY <4>1, <4>2, <3>2, <1>2, NobodyAnswered
    <3>4. CASE state' = [state EXCEPT ![c] = "settled"]
      <4>1. \A i \in 1..Len(chain) : state'[chain[i]] = IF i = k + 1 THEN "settled" ELSE state[chain[i]]
        BY <3>1, <3>2, <3>4, <1>2, OneChanged
      <4>2. db' = db \o [i \in 1..0 |-> chain[k + 1]] /\ 0 \in 0..MaxWrites
        <5>1. [i \in 1..0 |-> chain[k + 1]] = <<>>
          OBVIOUS
        <5>. QED BY <5>1, <3>2, ConcatEmptySeq, CallsAssumption
      <4>3. Answers(state, chain, k) /\ k < Len(chain)
        BY <3>1, <1>1, <1>2, AnswersOf DEF Starting
      <4>4. Serial!Answer
        BY <4>1, <4>2, <4>3, <3>2, <1>2, OneAnswered
      <4>. QED BY <4>4 DEF Serial!Next
    <3>. QED BY <2>1, <3>3, <3>4 DEF Start
  <2>2. CASE Head(micro).job = "derive" /\ Derive(c)
    BY <1>2, <2>2, NobodyAnswered DEF Derive
  <2>3. CASE Head(micro).job = "continue" /\ Continue(c)
    <3>1. c = chain[k] /\ Left(k)
      BY <1>1, <1>2, <1>3, <2>3, Heads DEF Microtask
    <3>2. k \in 1..Len(chain) /\ UNCHANGED <<chain, db>> /\ db \in Seq(Calls)
      BY <3>1, <1>2, <2>3 DEF Left, Continue, Forms
    <3>3. \A i \in 1..Len(chain) : state'[chain[i]] = IF i = k THEN "done" ELSE state[chain[i]]
      BY <3>1, <3>2, <1>2, <2>3, OneChanged DEF Continue
    <3>4. state[chain[k]] = "settled"
      BY <3>1 DEF Left
    <3>. QED BY <3>2, <3>3, <3>4, <1>2, NobodyAnswered
  <2>. QED BY <1>3, <2>1, <2>2, <2>3 DEF Microtask
<1>4. ASSUME NEW c \in Calls, Call(c) PROVE Serial!Next
  <2>1. \E m \in 0..Len(chain) : Answers(state, chain, m)
    BY <1>1, <1>2, AnswersOf DEF At, Answers
  <2>2. Serial!Call(c)
    BY <2>1, <1>2, <1>4, OneMore
  <2>. QED BY <2>2 DEF Serial!Next
<1>5. ASSUME NEW c \in Calls, Write(c) PROVE UNCHANGED <<Waiting, db>>
  BY <1>2, <1>5, NobodyAnswered DEF Write
<1>6. ASSUME NEW c \in Calls, End(c) PROVE Serial!Next
  <2>1. Running(k) /\ c = chain[k + 1]
    BY <1>1, <1>2, <1>6, RunsNext DEF End, Commit, Rollback
  <2>2. /\ k + 1 \in 1..Len(chain) /\ UNCHANGED chain /\ db \in Seq(Calls)
        /\ open \in Seq(Calls) /\ Len(open) \in 0..MaxWrites
    BY <2>1, <1>2, <1>6, CallsAssumption DEF Running, Forms, End, Commit, Rollback
  <2>3. \A i \in 1..Len(chain) : state'[chain[i]] = IF i = k + 1 THEN "settled" ELSE state[chain[i]]
    <3>1. state' = [state EXCEPT ![chain[k + 1]] = "settled"]
      BY <2>1, <1>6 DEF End, Commit, Rollback
    <3>2. PICK j \in 1..Len(chain) : j = k + 1
      BY <2>2
    <3>3. state' = [state EXCEPT ![chain[j]] = "settled"]
      BY <3>1, <3>2
    <3>4. \A i \in 1..Len(chain) : state'[chain[i]] = IF i = j THEN "settled" ELSE state[chain[i]]
      BY <3>3, <1>2 DEF Forms
    <3>. QED BY <3>2, <3>4
  <2>4. Answers(state, chain, k) /\ k < Len(chain)
    BY <2>1, <1>1, <1>2, AnswersOf DEF Running
  <2>5. CASE db' = db
    <3>1. [i \in 1..0 |-> chain[k + 1]] = <<>>
      OBVIOUS
    <3>2. db' = db \o [i \in 1..0 |-> chain[k + 1]] /\ 0 \in 0..MaxWrites
      BY <3>1, <2>2, <2>5, ConcatEmptySeq, CallsAssumption
    <3>. QED BY <3>2, <2>2, <2>3, <2>4, <1>2, OneAnswered DEF Serial!Next
  <2>6. CASE db' = db \o open
    <3>1. open = [i \in 1..Len(open) |-> chain[k + 1]]
      BY <2>1, <2>2 DEF Running
    <3>2. Serial!Answer
      BY <3>1, <2>2, <2>3, <2>4, <2>6, <1>2, OneAnswered
    <3>. QED BY <3>2 DEF Serial!Next
  <2>. QED BY <1>6, <2>5, <2>6 DEF End, Commit, Rollback
<1>7. ASSUME NEW c \in Calls, NEW nested \in Calls, NestedCall(c, nested)
      PROVE  UNCHANGED <<Waiting, db>>
  <2>1. \A i \in 1..Len(chain) : state'[chain[i]] = state[chain[i]]
    BY <1>2, <1>7 DEF NestedCall, Forms
  <2>2. UNCHANGED <<chain, db>>
    BY <1>7 DEF NestedCall
  <2>. QED BY <2>1, <2>2, <1>2, NobodyAnswered
<1>8. CASE UNCHANGED vars
  BY <1>8 DEF vars, Waiting, Answered
<1>. QED BY <1>3, <1>4, <1>5, <1>6, <1>7, <1>8 DEF Next

(* What the handlers rely on: their calls take effect one at a time, in    *)
(* the order they were made, each in whole or not at all.                  *)
THEOREM OneAtATime == Spec => Serial!Init /\ [][Serial!Next]_<<Waiting, db>>
BY InitSerial, StepSerial, Inductive, PTL DEF Spec
===============================================================================
