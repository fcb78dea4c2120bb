------------------------------ MODULE ListProofs -----------------------------
(***************************************************************************)
(* The two parts that work on lists, whatever the length of these: the     *)
(* plan of an absence (IdlePlan) and the messages of a window (WebTimer    *)
(* with ToastStack).  What holds of sums and of places in a list holds by  *)
(* induction, stated of a set of naturals: it has no least exception.      *)
(*                                                                         *)
(* The plan: what the allocations have given so far is what the periods    *)
(* have been handed out so far, measured by the sums of both.  Since the   *)
(* totals agree, the last allocation lasts as long as the last period.  A  *)
(* section lies in one period and has the seconds of one allocation, and   *)
(* it ends where one of the two does.                                      *)
(*                                                                         *)
(* The messages: places are told by their rank, which rises one by one, so *)
(* leaving out messages keeps the order of the others and evict takes as   *)
(* many as it must.  What a message has left and what it has had make up   *)
(* its life as long as nothing sets its timer again.                       *)
(***************************************************************************)
EXTENDS IdlePlan, WebTimer,
        SequenceTheorems, FiniteSetTheorems, WellFoundedInduction, TLAPS

-----------------------------------------------------------------------------
(* Induction over the naturals, for a set.                                 *)
LEMMA NatSets ==
    ASSUME NEW S \in SUBSET Nat, 0 \in S, \A n \in S : n + 1 \in S
    PROVE  S = Nat
<1> DEFINE R == OpToRel(<, Nat)
           T == Nat \ S
<1>1. \A a, b \in Nat : a < b => <<a, b>> \in R
  BY DEF OpToRel
<1>2. IsWellFoundedOn(R, Nat)
  BY NatLessThanWellFounded
<1> HIDE DEF R
<1> SUFFICES ASSUME T # {} PROVE FALSE
  OBVIOUS
<1>3. PICK x \in T : \A y \in T : ~(<<y, x>> \in R)
  BY <1>2, WFMin
<1>4. x # 0 /\ x - 1 \in Nat /\ x - 1 < x /\ x = (x - 1) + 1
  OBVIOUS
<1>5. x - 1 \in S
  BY <1>1, <1>3, <1>4
<1>. QED BY <1>3, <1>4, <1>5

(* The same between two bounds.                                            *)
LEMMA Climb ==
    ASSUME NEW m \in Nat, NEW n \in Nat, NEW S, m \in S,
           \A i \in m..(n - 1) : i \in S => i + 1 \in S
    PROVE  m..n \subseteq S
<1> DEFINE T == {i \in Nat : m + i <= n => m + i \in S}
<1>1. 0 \in T
  OBVIOUS
<1>2. \A i \in T : i + 1 \in T
  <2> SUFFICES ASSUME NEW i \in T, m + (i + 1) <= n PROVE m + (i + 1) \in S
    OBVIOUS
  <2>1. i \in Nat /\ m + i \in m..(n - 1) /\ m + i \in S
    OBVIOUS
  <2>2. (m + i) + 1 = m + (i + 1)
    BY <2>1
  <2>. QED BY <2>1, <2>2
<1>3. T = Nat
  <2> HIDE DEF T
  <2>. QED BY <1>1, <1>2, NatSets, T \in SUBSET Nat DEF T
<1> SUFFICES ASSUME NEW k \in m..n PROVE k \in S
  OBVIOUS
<1>4. k - m \in Nat /\ m + (k - m) <= n /\ m + (k - m) = k
  OBVIOUS
<1>5. \A i \in T : m + i <= n => m + i \in S
  OBVIOUS
<1> HIDE DEF T
<1>. QED BY <1>3, <1>4, <1>5

-----------------------------------------------------------------------------
(* A function from 1..n is a sequence of that length.                      *)
LEMMA FromOne ==
    ASSUME NEW n \in Nat, NEW s \in [1..n -> Int]
    PROVE  s \in Seq(Int) /\ Len(s) = n
<1>1. s \in Seq(Int)
  BY SeqDef
<1>2. DOMAIN s = 1..Len(s) /\ Len(s) \in Nat
  BY <1>1, LenProperties
<1>3. 1..Len(s) = 1..n
  BY <1>2
<1>4. Len(s) = n
  BY <1>2, <1>3
<1>. QED BY <1>1, <1>4

IsSum(f, s, n) == f[0] = 0 /\ \A i \in 1..n : f[i] = f[i - 1] + s[i]

(* The sums exist and are what their definition says.                      *)
LEMMA SumsDefined ==
    ASSUME NEW n \in Nat, NEW s \in [1..n -> Int]
    PROVE  Sums(s) \in [0..n -> Int] /\ IsSum(Sums(s), s, n)
<1> DEFINE S == {k \in Nat : \E f \in [0..k -> Int] : IsSum(f, s, k)}
<1>1. 0 \in S
  <2> DEFINE z == [i \in 0..0 |-> 0]
  <2>1. z \in [0..0 -> Int] /\ IsSum(z, s, 0)
    BY DEF IsSum
  <2>. QED BY <2>1
<1>2. \A k \in 0..(n - 1) : k \in S => k + 1 \in S
  <2> SUFFICES ASSUME NEW k \in 0..(n - 1), k \in S PROVE k + 1 \in S
    OBVIOUS
  <2>1. PICK f \in [0..k -> Int] : IsSum(f, s, k)
    OBVIOUS
  <2> DEFINE g == [i \in 0..(k + 1) |-> IF i = k + 1 THEN f[k] + s[k + 1] ELSE f[i]]
  <2>2. s[k + 1] \in Int /\ f[k] \in Int
    OBVIOUS
  <2>3. g \in [0..(k + 1) -> Int]
    BY <2>2
  <2>4. \A i \in 0..k : g[i] = f[i]
    OBVIOUS
  <2>5. g[k + 1] = g[k] + s[k + 1]
    OBVIOUS
  <2>6. g[0] = 0
    BY <2>1, <2>4 DEF IsSum
  <2> HIDE DEF g
  <2>7. ASSUME NEW i \in 1..k PROVE g[i] = g[i - 1] + s[i]
    <3>1. i - 1 \in 0..k /\ i \in 0..k
      OBVIOUS
    <3>. QED BY <2>1, <2>4, <3>1 DEF IsSum
  <2>8. \A i \in 1..(k + 1) : i \in 1..k \/ i = k + 1
    OBVIOUS
  <2>9. (k + 1) - 1 = k
    OBVIOUS
  <2>10. IsSum(g, s, k + 1)
    BY <2>5, <2>6, <2>7, <2>8, <2>9 DEF IsSum
  <2>. QED BY <2>3, <2>10
<1>3. n \in S
  <2>1. 0..n \subseteq S
    <3> HIDE DEF S
    <3>. QED BY <1>1, <1>2, Climb
  <2>. QED BY <2>1
<1>4. PICK f \in [0..n -> Int] : IsSum(f, s, n)
  BY <1>3
<1>5. Len(s) = n
  BY FromOne
<1>6. f = [i \in 0..Len(s) |-> IF i = 0 THEN 0 ELSE f[i - 1] + s[i]]
  <2> DEFINE h == [i \in 0..Len(s) |-> IF i = 0 THEN 0 ELSE f[i - 1] + s[i]]
  <2>1. ASSUME NEW i \in 0..n PROVE f[i] = h[i]
    <3>1. CASE i = 0
      BY <1>4, <1>5, <3>1 DEF IsSum
    <3>2. CASE i # 0
      <4>1. i \in 1..n
        BY <3>2
      <4>. QED BY <1>4, <1>5, <3>2, <4>1 DEF IsSum
    <3>. QED BY <3>1, <3>2
  <2>2. DOMAIN h = 0..n /\ h = [i \in 0..n |-> h[i]]
    BY <1>5
  <2> HIDE DEF h
  <2>3. f = h
    BY <2>1, <2>2
  <2>. QED BY <2>3 DEF h
<1> DEFINE g == Sums(s)
<1>7. g = [i \in 0..Len(s) |-> IF i = 0 THEN 0 ELSE g[i - 1] + s[i]]
  BY <1>6 DEF Sums
<1> HIDE DEF g
<1>8. g = [i \in 0..n |-> IF i = 0 THEN 0 ELSE g[i - 1] + s[i]]
  BY <1>5, <1>7
<1>9. IsSum(g, s, n)
  <2>1. g[0] = 0
    BY <1>8
  <2>2. ASSUME NEW i \in 1..n PROVE g[i] = g[i - 1] + s[i]
    BY <1>8
  <2>. QED BY <2>1, <2>2 DEF IsSum
<1>10. ASSUME NEW i \in 0..n PROVE g[i] \in Int
  <2> DEFINE V == {k \in 0..n : g[k] \in Int}
  <2>1. 0 \in V
    BY <1>9 DEF IsSum
  <2>2. \A k \in 0..(n - 1) : k \in V => k + 1 \in V
    <3> SUFFICES ASSUME NEW k \in 0..(n - 1), k \in V PROVE k + 1 \in V
      OBVIOUS
    <3>1. k + 1 \in 1..n /\ (k + 1) - 1 = k /\ s[k + 1] \in Int
      OBVIOUS
    <3>2. g[k + 1] = g[k] + s[k + 1]
      BY <1>9, <3>1 DEF IsSum
    <3>. QED BY <3>1, <3>2
  <2>3. 0..n \subseteq V
    <3> HIDE DEF V
    <3>. QED BY <2>1, <2>2, Climb
  <2>. QED BY <2>3
<1>11. g \in [0..n -> Int]
  BY <1>8, <1>10
<1>. QED BY <1>9, <1>11 DEF g
(* Sums of seconds that are all more than none rise.                       *)
LEMMA SumsRise ==
    ASSUME NEW n \in Nat, NEW s \in [1..n -> Int], \A i \in 1..n : s[i] > 0,
           NEW i \in 0..n, NEW j \in 0..n, i < j
    PROVE  Sums(s)[i] < Sums(s)[j]
<1> DEFINE g == Sums(s)
           V == {k \in 0..n : g[i] < g[k]}
<1>1. g \in [0..n -> Int] /\ IsSum(g, s, n)
  BY SumsDefined
<1> HIDE DEF g
<1>2. \A k \in 0..(n - 1) : g[k] < g[k + 1] /\ g[k] \in Int /\ g[k + 1] \in Int
  <2> SUFFICES ASSUME NEW k \in 0..(n - 1)
               PROVE  g[k] < g[k + 1] /\ g[k] \in Int /\ g[k + 1] \in Int
    OBVIOUS
  <2>1. k + 1 \in 1..n /\ (k + 1) - 1 = k /\ s[k + 1] \in Int /\ s[k + 1] > 0
    OBVIOUS
  <2>2. g[k + 1] = g[k] + s[k + 1]
    BY <1>1, <2>1 DEF IsSum
  <2>3. g[k] \in Int /\ g[k + 1] \in Int
    BY <1>1
  <2>. QED BY <2>1, <2>2, <2>3
<1>3. i + 1 \in V
  <2>1. i \in 0..(n - 1) /\ i + 1 \in 0..n
    OBVIOUS
  <2>. QED BY <1>2, <2>1
<1>4. \A k \in (i + 1)..(n - 1) : k \in V => k + 1 \in V
  <2> SUFFICES ASSUME NEW k \in (i + 1)..(n - 1), g[i] < g[k] PROVE k + 1 \in V
    OBVIOUS
  <2>1. k \in 0..(n - 1) /\ k + 1 \in 0..n
    OBVIOUS
  <2>2. g[i] \in Int
    BY <1>1
  <2>. QED BY <1>2, <2>1, <2>2
<1>5. (i + 1)..n \subseteq V
  <2> HIDE DEF V
  <2>. QED BY <1>3, <1>4, i + 1 \in Nat, Climb
<1>6. j \in V
  <2> HIDE DEF V
  <2>. QED BY <1>5
<1>. QED BY <1>6 DEF g

(* What stands in the first a places makes the first a sums.               *)
LEMMA SamePrefix ==
    ASSUME NEW n \in Nat, NEW s \in [1..n -> Int], NEW t \in [1..n -> Int],
           NEW a \in 0..n, \A i \in 1..a : s[i] = t[i]
    PROVE  Sums(s)[a] = Sums(t)[a]
<1> DEFINE g == Sums(s)
           h == Sums(t)
           V == {k \in 0..n : g[k] = h[k]}
<1>1. IsSum(g, s, n) /\ IsSum(h, t, n)
  BY SumsDefined
<1> HIDE DEF g, h
<1>2. 0 \in V
  BY <1>1 DEF IsSum
<1>3. \A k \in 0..(a - 1) : k \in V => k + 1 \in V
  <2> SUFFICES ASSUME NEW k \in 0..(a - 1), g[k] = h[k] PROVE k + 1 \in V
    OBVIOUS
  <2>1. k + 1 \in 1..n /\ (k + 1) - 1 = k /\ k + 1 \in 1..a
    OBVIOUS
  <2>2. g[k + 1] = g[k] + s[k + 1] /\ h[k + 1] = h[k] + t[k + 1]
    BY <1>1, <2>1 DEF IsSum
  <2>. QED BY <2>1, <2>2
<1>4. 0..a \subseteq V
  <2> HIDE DEF V
  <2>. QED BY <1>2, <1>3, a \in Nat, Climb
<1>5. a \in V
  <2> HIDE DEF V
  <2>. QED BY <1>4
<1>. QED BY <1>5 DEF g, h

(* Zeros at the end add nothing.                                           *)
LEMMA ZeroRest ==
    ASSUME NEW n \in Nat, NEW s \in [1..n -> Int], NEW a \in 0..n,
           \A i \in (a + 1)..n : s[i] = 0
    PROVE  Sums(s)[n] = Sums(s)[a]
<1> DEFINE g == Sums(s)
           V == {k \in 0..n : g[k] = g[a]}
<1>1. g \in [0..n -> Int] /\ IsSum(g, s, n)
  BY SumsDefined
<1> HIDE DEF g
<1>2. a \in V
  OBVIOUS
<1>3. \A k \in a..(n - 1) : k \in V => k + 1 \in V
  <2> SUFFICES ASSUME NEW k \in a..(n - 1), g[k] = g[a] PROVE k + 1 \in V
    OBVIOUS
  <2>1. k + 1 \in 1..n /\ (k + 1) - 1 = k /\ k + 1 \in (a + 1)..n
    OBVIOUS
  <2>2. g[k + 1] = g[k] + s[k + 1] /\ s[k + 1] = 0 /\ g[a] \in Int
    BY <1>1, <2>1 DEF IsSum
  <2>. QED BY <2>1, <2>2
<1>4. a..n \subseteq V
  <2> HIDE DEF V
  <2>. QED BY <1>2, <1>3, a \in Nat, Climb
<1>5. n \in V
  <2> HIDE DEF V
  <2>. QED BY <1>4
<1>. QED BY <1>5 DEF g

Ordered(p, n) ==
    \A i \in 1..n :
        /\ p[i].start \in Int /\ p[i].returned \in Int
        /\ p[i].start < p[i].returned
        /\ i > 1 => p[i - 1].returned <= p[i].start

(* Periods that follow their neighbours follow every earlier one.          *)
LEMMA EarlierIsBefore ==
    ASSUME NEW n \in Nat, NEW p, Ordered(p, n),
           NEW i \in 1..n, NEW j \in 1..n, i < j
    PROVE  p[i].returned <= p[j].start
<1> DEFINE V == {k \in 1..n : p[i].returned <= p[k].start}
<1>1. i + 1 \in V
  <2>1. i + 1 \in 1..n /\ i + 1 > 1 /\ (i + 1) - 1 = i
    OBVIOUS
  <2>. QED BY <2>1 DEF Ordered
<1>2. \A k \in (i + 1)..(n - 1) : k \in V => k + 1 \in V
  <2> SUFFICES ASSUME NEW k \in (i + 1)..(n - 1), p[i].returned <= p[k].start
               PROVE  k + 1 \in V
    OBVIOUS
  <2>1. k \in 1..n /\ k + 1 \in 1..n /\ k + 1 > 1 /\ (k + 1) - 1 = k
    OBVIOUS
  <2>2. p[k].start \in Int /\ p[k].returned \in Int /\ p[k].start < p[k].returned
    BY <2>1 DEF Ordered
  <2>3. p[k].returned <= p[k + 1].start /\ p[k + 1].start \in Int
    BY <2>1 DEF Ordered
  <2>4. p[i].returned \in Int
    BY DEF Ordered
  <2>. QED BY <2>1, <2>2, <2>3, <2>4
<1>3. (i + 1)..n \subseteq V
  <2> HIDE DEF V
  <2>. QED BY <1>1, <1>2, Climb
<1>4. j \in V
  <2> HIDE DEF V
  <2>. QED BY <1>3
<1>. QED BY <1>4

(* A second lies in one period at most.                                    *)
LEMMA OnePeriod ==
    ASSUME NEW n \in Nat, NEW p, Ordered(p, n), NEW i \in 1..n, NEW j \in 1..n,
           NEW t \in Int, p[i].start <= t, t < p[i].returned,
           p[j].start <= t, t < p[j].returned
    PROVE  i = j
<1>1. /\ p[i].start \in Int /\ p[i].returned \in Int
      /\ p[j].start \in Int /\ p[j].returned \in Int
  BY DEF Ordered
<1>2. ~(i < j)
  <2> SUFFICES ASSUME i < j PROVE FALSE
    OBVIOUS
  <2>1. p[i].returned <= p[j].start
    BY EarlierIsBefore
  <2>. QED BY <1>1, <2>1
<1>3. ~(j < i)
  <2> SUFFICES ASSUME j < i PROVE FALSE
    OBVIOUS
  <2>1. p[j].returned <= p[i].start
    BY EarlierIsBefore
  <2>. QED BY <1>1, <2>1
<1>. QED BY <1>2, <1>3
-----------------------------------------------------------------------------
Period  == [start : Seconds, returned : Seconds]
Section == [start : Int, end : Int, part : Nat]

PlanTypeOK ==
    /\ periods \in Seq(Period)
    /\ allocations \in Seq(1..MaxTime)
    /\ phase \in {"called", "planning", "planned", "refused"}
    /\ at \in Nat /\ cursor \in Int /\ index \in Nat /\ left \in Int
    /\ result \in Seq(Section)
    /\ phase = "called" => at = 1 /\ index = 1 /\ result = <<>>

(* The absent seconds before period i; the seconds of the first j          *)
(* allocations.                                                            *)
Before(i) == Sums(Lengths)[i - 1]
Given(j)  == Sums(allocations)[j]

Busy == phase \in {"planning", "planned"}

(* What is handed out is what the allocations have given.                  *)
LoopInv ==
    Busy =>
      /\ Accepted
      /\ at \in DOMAIN periods /\ index \in DOMAIN allocations
      /\ periods[at].start <= cursor /\ cursor <= periods[at].returned
      /\ 0 <= left /\ left <= allocations[index]
      /\ left = 0 => index = Len(allocations)
      /\ Given(index) - left = Before(at) + (cursor - periods[at].start)
      /\ phase = "planned" => at = Len(periods) /\ cursor = periods[at].returned

(* Section s lies in period i, and its allocation has its seconds.         *)
IsPart(s, i) ==
    /\ s.start < s.end
    /\ periods[i].start <= s.start /\ s.end <= periods[i].returned
    /\ i = at => s.end <= cursor
    /\ s.part \in DOMAIN allocations
    /\ Given(s.part - 1) <= Before(i) + (s.start - periods[i].start)
    /\ Before(i) + (s.end - periods[i].start) <= Given(s.part)

PartsInv == Busy => \A k \in DOMAIN result : \E i \in 1..at : IsPart(result[k], i)

(* Every absent second up to the cursor is handed out.                     *)
CoverInv ==
    Busy => \A i \in 1..at : \A t \in Seconds :
              periods[i].start <= t /\ t < (IF i = at THEN cursor ELSE periods[i].returned)
                => \E k \in DOMAIN result : Covers(result[k], t)

OrderInv == \A k, l \in DOMAIN result : k < l => result[k].end <= result[l].start

(* A section begins where a period does or another section ends.           *)
Border(t) ==
    (\E i \in 1..at : t = periods[i].start) \/ (\E l \in DOMAIN result : t = result[l].end)

BorderInv == Busy => Border(cursor) /\ \A k \in DOMAIN result : Border(result[k].start)

(* A section ends its period or its allocation.                            *)
CountInv ==
    Busy => Len(result) <= (at - 1) + (index - 1)
                             + (IF cursor = periods[at].returned THEN 1 ELSE 0)
-----------------------------------------------------------------------------
(* The lists as functions from 1.                                          *)
LEMMA Lists ==
    ASSUME PlanTypeOK
    PROVE  /\ Len(periods) \in Nat /\ DOMAIN periods = 1..Len(periods)
           /\ Len(allocations) \in Nat /\ DOMAIN allocations = 1..Len(allocations)
           /\ Len(result) \in Nat /\ DOMAIN result = 1..Len(result)
           /\ \A i \in 1..Len(periods) :
                 /\ periods[i] \in Period
                 /\ periods[i].start \in Int /\ periods[i].returned \in Int
           /\ allocations \in [1..Len(allocations) -> Int]
           /\ \A j \in 1..Len(allocations) : allocations[j] \in Int /\ allocations[j] > 0
           /\ \A k \in 1..Len(result) :
                 /\ result[k].start \in Int /\ result[k].end \in Int
                 /\ result[k].part \in Nat
           /\ Lengths \in [1..Len(periods) -> Int]
           /\ \A i \in 1..Len(periods) :
                 Lengths[i] = periods[i].returned - periods[i].start
<1>1. /\ Len(periods) \in Nat /\ DOMAIN periods = 1..Len(periods)
      /\ \A i \in 1..Len(periods) : periods[i] \in Period
  BY LenProperties, ElementOfSeq DEF PlanTypeOK
<1>2. \A i \in 1..Len(periods) : periods[i].start \in Int /\ periods[i].returned \in Int
  BY <1>1, BoundsAssumption DEF Period, Seconds
<1>3. /\ Len(allocations) \in Nat /\ DOMAIN allocations = 1..Len(allocations)
      /\ allocations \in [1..Len(allocations) -> 1..MaxTime]
  BY LenProperties DEF PlanTypeOK
<1>4. \A j \in 1..Len(allocations) : allocations[j] \in Int /\ allocations[j] > 0
  BY <1>3, BoundsAssumption
<1>5. allocations \in [1..Len(allocations) -> Int]
  BY <1>3, <1>4
<1>6. /\ Len(result) \in Nat /\ DOMAIN result = 1..Len(result)
      /\ \A k \in 1..Len(result) : result[k] \in Section
  BY LenProperties, ElementOfSeq DEF PlanTypeOK
<1>7. \A k \in 1..Len(result) :
         result[k].start \in Int /\ result[k].end \in Int /\ result[k].part \in Nat
  BY <1>6 DEF Section
<1>8. Lengths \in [1..Len(periods) -> Int]
      /\ \A i \in 1..Len(periods) : Lengths[i] = periods[i].returned - periods[i].start
  BY <1>1, <1>2 DEF Lengths
<1>. QED BY <1>1, <1>2, <1>3, <1>4, <1>5, <1>6, <1>7, <1>8

(* What acceptance says of the sums.                                       *)
LEMMA Measures ==
    ASSUME PlanTypeOK, Accepted
    PROVE  /\ Ordered(periods, Len(periods))
           /\ Len(periods) > 0 /\ Len(allocations) > 0
           /\ Before(1) = 0 /\ Given(0) = 0
           /\ \A j \in 0..Len(allocations) : Given(j) \in Int
           /\ \A j \in 1..Len(allocations) : Given(j) = Given(j - 1) + allocations[j]
           /\ \A i \in 1..Len(periods) :
                 /\ Before(i) \in Int /\ Before(i + 1) \in Int
                 /\ Before(i + 1) = Before(i) + (periods[i].returned - periods[i].start)
                 /\ Before(i + 1) <= Given(Len(allocations))
           /\ Before(Len(periods) + 1) = Given(Len(allocations))
<1> DEFINE n == Len(periods)
           m == Len(allocations)
<1>1. /\ n \in Nat /\ DOMAIN periods = 1..n
      /\ m \in Nat /\ allocations \in [1..m -> Int]
      /\ Lengths \in [1..n -> Int]
      /\ \A i \in 1..n : periods[i].start \in Int /\ periods[i].returned \in Int
      /\ \A i \in 1..n : Lengths[i] = periods[i].returned - periods[i].start
  BY Lists
<1>2. Ordered(periods, n)
  BY <1>1 DEF Accepted, Ordered
<1>3. n > 0 /\ m > 0
  BY <1>1, EmptySeq DEF Accepted, PlanTypeOK
<1>4. /\ Sums(Lengths) \in [0..n -> Int] /\ IsSum(Sums(Lengths), Lengths, n)
      /\ Sums(allocations) \in [0..m -> Int] /\ IsSum(Sums(allocations), allocations, m)
  BY <1>1, SumsDefined
<1>5. Len(Lengths) = n
  BY <1>1, FromOne
<1>6. Before(n + 1) = Given(m)
  <2>1. Sums(allocations)[m] = Sums(Lengths)[n]
    BY <1>5 DEF Accepted, Absent, Total
  <2>2. (n + 1) - 1 = n
    BY <1>1
  <2>. QED BY <2>1, <2>2 DEF Before, Given
<1>7. Before(1) = 0 /\ Given(0) = 0
  BY <1>4 DEF Before, Given, IsSum
<1>8. \A j \in 0..m : Given(j) \in Int
  BY <1>4 DEF Given
<1>9. \A j \in 1..m : Given(j) = Given(j - 1) + allocations[j]
  BY <1>4 DEF Given, IsSum
<1>10. ASSUME NEW i \in 1..n
       PROVE  /\ Before(i) \in Int /\ Before(i + 1) \in Int
              /\ Before(i + 1) = Before(i) + (periods[i].returned - periods[i].start)
  <2>1. i \in 0..n /\ i - 1 \in 0..n /\ (i + 1) - 1 = i
    BY <1>1
  <2>2. Sums(Lengths)[i] = Sums(Lengths)[i - 1] + Lengths[i]
    BY <1>4 DEF IsSum
  <2>3. Sums(Lengths)[i] \in Int /\ Sums(Lengths)[i - 1] \in Int
    BY <1>4, <2>1
  <2>. QED BY <1>1, <2>1, <2>2, <2>3 DEF Before
<1>11. ASSUME NEW i \in 1..n PROVE Before(i + 1) <= Given(m)
  <2>1. \A k \in 1..n : Lengths[k] > 0
    BY <1>1, <1>2 DEF Ordered
  <2>2. CASE i = n
    BY <1>6, <1>8, <1>1, <2>2
  <2>3. CASE i # n
    <3>1. n \in Nat
      BY <1>1
    <3>2. i \in 0..n /\ n \in 0..n /\ i < n /\ (i + 1) - 1 = i /\ (n + 1) - 1 = n
      BY <2>3, <3>1
    <3>3. Sums(Lengths)[i] < Sums(Lengths)[n]
      BY <1>1, <2>1, <3>2, SumsRise
    <3>4. Before(i + 1) < Before(n + 1)
      BY <3>2, <3>3 DEF Before
    <3>5. Before(i + 1) \in Int /\ Given(m) \in Int
      BY <1>1, <1>8, <1>10
    <3>. QED BY <1>6, <3>4, <3>5
  <2>. QED BY <2>2, <2>3
<1>. QED BY <1>2, <1>3, <1>6, <1>7, <1>8, <1>9, <1>10, <1>11

(* The arguments of the call stay as they are.                             *)
LEMMA Kept ==
    ASSUME UNCHANGED <<periods, allocations>>
    PROVE  /\ Accepted' = Accepted
           /\ \A i : Before(i)' = Before(i)
           /\ \A j : Given(j)' = Given(j)
<1>1. Lengths' = Lengths
  BY DEF Lengths
<1>2. Absent' = Absent
  BY <1>1 DEF Absent
<1>3. Accepted' = Accepted
  BY <1>2 DEF Accepted
<1>4. \A i : Before(i)' = Before(i)
  BY <1>1 DEF Before
<1>5. \A j : Given(j)' = Given(j)
  BY DEF Given
<1>. QED BY <1>3, <1>4, <1>5
-----------------------------------------------------------------------------
(* A round of the inner loop: something is handed out, and no more than    *)
(* the allocation and the period have.                                     *)
LEMMA Round ==
    ASSUME PlanTypeOK, LoopInv, HandOut
    PROVE  \E seconds \in Int :
             /\ 0 < seconds /\ seconds <= left
             /\ cursor + seconds <= periods[at].returned
             /\ result' = Append(result, [start |-> cursor, end |-> cursor + seconds,
                                          part |-> index])
             /\ cursor' = cursor + seconds
             /\ \/ /\ left = seconds /\ index < Len(allocations)
                   /\ index' = index + 1 /\ left' = allocations[index + 1]
                \/ /\ ~(left = seconds /\ index < Len(allocations))
                   /\ index' = index /\ left' = left - seconds
             /\ cursor' = periods[at].returned \/ index' = index + 1
<1> DEFINE n == Len(periods)
           m == Len(allocations)
           seconds == Least(left, periods[at].returned - cursor)
<1>1. Accepted /\ at \in DOMAIN periods /\ index \in DOMAIN allocations
      /\ periods[at].start <= cursor /\ cursor < periods[at].returned
      /\ 0 <= left /\ left <= allocations[index]
      /\ (left = 0 => index = m)
      /\ Given(index) - left = Before(at) + (cursor - periods[at].start)
  BY DEF LoopInv, Busy, HandOut
<1>2. /\ n \in Nat /\ m \in Nat /\ at \in 1..n /\ index \in 1..m
      /\ periods[at].start \in Int /\ periods[at].returned \in Int
  BY <1>1, Lists
<1>3. left \in Int /\ cursor \in Int
  BY DEF PlanTypeOK
<1>4. /\ Before(at) \in Int /\ Given(index) \in Int /\ Given(m) \in Int
      /\ Before(at + 1) = Before(at) + (periods[at].returned - periods[at].start)
      /\ Before(at + 1) <= Given(m)
  <2>1. index \in 0..m /\ m \in 0..m
    BY <1>2
  <2>. QED BY <1>1, <1>2, <2>1, Measures
<1>5. index = m => left >= periods[at].returned - cursor
  BY <1>1, <1>2, <1>3, <1>4
<1>6. left > 0
  BY <1>1, <1>2, <1>3, <1>5
<1>7. /\ seconds \in Int /\ 0 < seconds /\ seconds <= left
      /\ cursor + seconds <= periods[at].returned
      /\ seconds = left \/ seconds = periods[at].returned - cursor
  BY <1>1, <1>2, <1>3, <1>6 DEF Least
<1>8. index = m => cursor + seconds = periods[at].returned
  BY <1>2, <1>3, <1>5, <1>7 DEF Least
<1>9. /\ result' = Append(result, [start |-> cursor, end |-> cursor + seconds,
                                   part |-> index])
      /\ cursor' = cursor + seconds
      /\ \/ /\ left = seconds /\ index < m
            /\ index' = index + 1 /\ left' = allocations[index + 1]
         \/ /\ ~(left = seconds /\ index < m)
            /\ index' = index /\ left' = left - seconds
  BY DEF HandOut
<1> HIDE DEF seconds
<1>10. cursor' = periods[at].returned \/ index' = index + 1
  <2>1. CASE left = seconds /\ index < m
    BY <1>9, <2>1
  <2>2. CASE index = m
    BY <1>8, <1>9, <2>2
  <2>3. CASE left # seconds
    <3>1. seconds = periods[at].returned - cursor
      BY <1>7, <2>3
    <3>2. cursor + seconds = periods[at].returned
      BY <1>2, <1>3, <3>1
    <3>. QED BY <1>9, <3>2
  <2>4. index < m \/ index = m
    BY <1>2
  <2>. QED BY <2>1, <2>2, <2>3, <2>4
<1>. QED BY <1>7, <1>9, <1>10

(* Every step keeps the types.                                             *)
LEMMA TypeStep ==
    ASSUME PlanTypeOK, LoopInv, [PlanNext]_planVars
    PROVE  PlanTypeOK'
<1>1. CASE UNCHANGED planVars
  BY <1>1 DEF PlanTypeOK, planVars
<1>2. CASE Validate
  <2>1. CASE Accepted
    <3>1. /\ periods[1].start \in Int /\ allocations[1] \in Int
      BY <2>1, Lists, Measures
    <3>. QED BY <1>2, <2>1, <3>1 DEF PlanTypeOK, Validate
  <2>2. CASE ~Accepted
    BY <1>2, <2>2 DEF PlanTypeOK, Validate
  <2>. QED BY <2>1, <2>2
<1>3. CASE HandOut
  <2>1. PICK seconds \in Int :
          /\ result' = Append(result, [start |-> cursor, end |-> cursor + seconds,
                                       part |-> index])
          /\ cursor' = cursor + seconds
          /\ \/ /\ left = seconds /\ index < Len(allocations)
                /\ index' = index + 1 /\ left' = allocations[index + 1]
             \/ index' = index /\ left' = left - seconds
    BY <1>3, Round
  <2>2. /\ UNCHANGED <<periods, allocations, phase, at>> /\ phase = "planning"
        /\ index \in Nat /\ cursor \in Int /\ left \in Int /\ result \in Seq(Section)
    BY <1>3 DEF HandOut, PlanTypeOK
  <2>3. [start |-> cursor, end |-> cursor + seconds, part |-> index] \in Section
    BY <2>2 DEF Section
  <2>4. result' \in Seq(Section)
    BY <2>1, <2>2, <2>3, AppendProperties
  <2>5. index < Len(allocations) => allocations[index + 1] \in Int
    <3>1. index \in DOMAIN allocations /\ Busy
      BY <2>2 DEF LoopInv, Busy
    <3>2. Len(allocations) \in Nat /\ index \in 1..Len(allocations)
      BY <3>1, Lists
    <3>3. index < Len(allocations) => index + 1 \in 1..Len(allocations)
      BY <3>2
    <3>. QED BY <3>3, Lists
  <2>6. cursor' \in Int /\ index' \in Nat /\ left' \in Int
    BY <2>1, <2>2, <2>5
  <2>. QED BY <2>2, <2>4, <2>6 DEF PlanTypeOK
<1>4. CASE NextPeriod
  <2>1. at < Len(periods) => periods[at + 1].start \in Int /\ at + 1 \in Nat
    <3>1. at \in DOMAIN periods /\ Busy
      BY <1>4 DEF LoopInv, Busy, NextPeriod
    <3>2. Len(periods) \in Nat /\ at \in 1..Len(periods)
      BY <3>1, Lists
    <3>3. at < Len(periods) => at + 1 \in 1..Len(periods)
      BY <3>2
    <3>. QED BY <3>2, <3>3, Lists
  <2>. QED BY <1>4, <2>1 DEF PlanTypeOK, NextPeriod
<1>. QED BY <1>1, <1>2, <1>3, <1>4 DEF PlanNext

(* A round moves as much from the allocations as to the periods.           *)
LEMMA LoopStep ==
    ASSUME PlanTypeOK, LoopInv, [PlanNext]_planVars
    PROVE  LoopInv'
<1> DEFINE n == Len(periods)
           m == Len(allocations)
<1>1. CASE UNCHANGED planVars
  <2>1. UNCHANGED <<periods, allocations>>
    BY <1>1 DEF planVars
  <2>2. Accepted' = Accepted /\ Given(index)' = Given(index) /\ Before(at)' = Before(at)
    <3>1. at' = at /\ index' = index
      BY <1>1 DEF planVars
    <3>. QED BY <2>1, <3>1, Kept DEF Given, Before, Lengths
  <2>. QED BY <1>1, <2>2 DEF LoopInv, Busy, planVars
<1>2. CASE Validate
  <2>1. /\ UNCHANGED <<periods, allocations, at, index>> /\ at = 1 /\ index = 1
    BY <1>2 DEF Validate, PlanTypeOK
  <2>2. CASE ~Accepted
    BY <1>2, <2>2 DEF Validate, LoopInv, Busy
  <2>3. CASE Accepted
    <3>1. phase' = "planning" /\ cursor' = periods[1].start /\ left' = allocations[1]
      BY <1>2, <2>3 DEF Validate
    <3>2. /\ 1 \in DOMAIN periods /\ 1 \in DOMAIN allocations
          /\ periods[1].start \in Int /\ periods[1].returned \in Int
          /\ periods[1].start < periods[1].returned
          /\ allocations[1] \in Int /\ allocations[1] > 0
          /\ Before(1) = 0 /\ Given(1) = allocations[1]
      <4>1. n \in Nat /\ m \in Nat /\ n > 0 /\ m > 0
        BY <2>3, Lists, Measures
      <4>2. 1 \in 1..n /\ 1 \in 1..m /\ 1 - 1 = 0
        BY <4>1
      <4>3. Given(1) = Given(0) + allocations[1] /\ Given(0) = 0 /\ Before(1) = 0
        BY <2>3, <4>2, Measures
      <4>4. allocations[1] \in Int /\ allocations[1] > 0
        BY <4>2, Lists
      <4>. QED BY <2>3, <4>2, <4>3, <4>4, Lists, Measures DEF Ordered
    <3>3. Accepted'
      BY <2>1, <2>3, Kept
    <3>4. Given(1)' = allocations[1] /\ Before(1)' = 0
      BY <2>1, <3>2, Kept
    <3>5. Given(index)' = Given(1)' /\ Before(at)' = Before(1)'
      BY <2>1 DEF Given, Before
    <3>. QED BY <2>1, <3>1, <3>2, <3>3, <3>4, <3>5 DEF LoopInv
  <2>. QED BY <2>2, <2>3
<1>3. CASE HandOut
  <2>1. PICK seconds \in Int :
          /\ 0 < seconds /\ seconds <= left
          /\ cursor + seconds <= periods[at].returned
          /\ cursor' = cursor + seconds
          /\ \/ /\ left = seconds /\ index < m
                /\ index' = index + 1 /\ left' = allocations[index + 1]
             \/ /\ ~(left = seconds /\ index < m)
                /\ index' = index /\ left' = left - seconds
    BY <1>3, Round
  <2>2. /\ UNCHANGED <<periods, allocations, phase, at>> /\ phase = "planning"
        /\ cursor \in Int /\ left \in Int
    BY <1>3 DEF HandOut, PlanTypeOK
  <2>3. /\ Accepted /\ at \in DOMAIN periods /\ index \in DOMAIN allocations
        /\ periods[at].start <= cursor
        /\ 0 <= left /\ left <= allocations[index]
        /\ (left = 0 => index = m)
        /\ Given(index) - left = Before(at) + (cursor - periods[at].start)
    BY <2>2 DEF LoopInv, Busy
  <2>4. /\ n \in Nat /\ m \in Nat /\ at \in 1..n /\ index \in 1..m
        /\ DOMAIN allocations = 1..m
        /\ periods[at].start \in Int /\ periods[at].returned \in Int
        /\ allocations[index] \in Int
    BY <2>3, Lists
  <2>5. Before(at) \in Int /\ Given(index) \in Int
    <3>1. index \in 0..m
      BY <2>4
    <3>. QED BY <2>3, <2>4, <3>1, Measures
  <2>6. /\ Accepted' /\ Before(at)' = Before(at)
        /\ Given(index)' = Sums(allocations)[index']
    <3>1. Accepted'
      BY <2>2, <2>3, Kept
    <3>2. Given(index)' = Sums(allocations)[index']
      BY <2>2 DEF Given
    <3>3. Lengths' = Lengths
      BY <2>2 DEF Lengths
    <3>4. Before(at)' = Before(at)
      BY <2>2, <3>3 DEF Before
    <3>. QED BY <3>1, <3>2, <3>4
  <2>7. periods[at].start <= cursor' /\ cursor' <= periods[at].returned
    BY <2>1, <2>2, <2>3, <2>4
  <2>8. CASE left = seconds /\ index < m
    <3>1. index' = index + 1 /\ left' = allocations[index + 1]
      BY <2>1, <2>8
    <3>2. index + 1 \in 1..m /\ (index + 1) - 1 = index
      BY <2>4, <2>8
    <3>3. Given(index + 1) = Given(index) + allocations[index + 1]
      BY <2>3, <3>2, Measures
    <3>4. allocations[index + 1] \in Int /\ allocations[index + 1] > 0
      BY <3>2, Lists
    <3>5. Given(index)' = Given(index) + left'
      BY <2>6, <3>1, <3>3 DEF Given
    <3>6. Given(index)' - left' = Before(at)' + (cursor' - periods[at].start)
      <4>1. Given(index) = Before(at) + ((cursor + seconds) - periods[at].start)
        BY <2>2, <2>3, <2>4, <2>5, <2>8
      <4>2. (Given(index) + left') - left' = Given(index)
        BY <2>5, <3>1, <3>4
      <4>. QED BY <2>1, <2>6, <3>5, <4>1, <4>2
    <3>7. /\ index' \in DOMAIN allocations
          /\ 0 <= left' /\ left' <= allocations[index'] /\ left' # 0
      BY <2>4, <3>1, <3>2, <3>4
    <3>. QED BY <2>2, <2>3, <2>6, <2>7, <3>6, <3>7 DEF LoopInv
  <2>9. CASE ~(left = seconds /\ index < m)
    <3>1. index' = index /\ left' = left - seconds
      BY <2>1, <2>9
    <3>2. Given(index)' = Given(index)
      BY <2>6, <3>1 DEF Given
    <3>3. Given(index)' - left' = Before(at)' + (cursor' - periods[at].start)
      <4>1. Given(index) - (left - seconds)
              = Before(at) + ((cursor + seconds) - periods[at].start)
        <5>1. /\ Given(index) - left = Before(at) + (cursor - periods[at].start)
              /\ left \in Int /\ cursor \in Int /\ periods[at].start \in Int
              /\ Before(at) \in Int /\ Given(index) \in Int
          BY <2>2, <2>3, <2>4, <2>5
        <5> DEFINE g == Given(index)
                   b == Before(at)
                   p == periods[at].start
        <5>2. /\ g - left = b + (cursor - p)
              /\ left \in Int /\ cursor \in Int /\ p \in Int /\ b \in Int /\ g \in Int
          BY <5>1
        <5> HIDE DEF g, b, p
        <5>3. g - (left - seconds) = b + ((cursor + seconds) - p)
          BY <5>2
        <5>. QED BY <5>3 DEF g, b, p
      <4>2. /\ Given(index)' = Given(index) /\ Before(at)' = Before(at)
            /\ left' = left - seconds /\ cursor' = cursor + seconds
        BY <2>1, <2>6, <3>1, <3>2
      <4>. QED BY <4>1, <4>2
    <3>4. 0 <= left' /\ left' <= allocations[index'] /\ (left' = 0 => index' = m)
      BY <2>1, <2>2, <2>3, <2>4, <2>9, <3>1
    <3>. QED BY <2>2, <2>3, <2>6, <2>7, <3>1, <3>3, <3>4 DEF LoopInv
  <2>. QED BY <2>8, <2>9
<1>4. CASE NextPeriod
  <2>1. /\ UNCHANGED <<periods, allocations, index, left>> /\ phase = "planning"
        /\ cursor \in Int /\ left \in Int
        /\ ~(cursor < periods[at].returned)
    BY <1>4 DEF NextPeriod, PlanTypeOK
  <2>2. /\ Accepted /\ at \in DOMAIN periods /\ index \in DOMAIN allocations
        /\ periods[at].start <= cursor /\ cursor <= periods[at].returned
        /\ 0 <= left /\ left <= allocations[index]
        /\ (left = 0 => index = m)
        /\ Given(index) - left = Before(at) + (cursor - periods[at].start)
    BY <2>1 DEF LoopInv, Busy
  <2>3. /\ n \in Nat /\ at \in 1..n /\ DOMAIN periods = 1..n
        /\ periods[at].start \in Int /\ periods[at].returned \in Int
    BY <2>2, Lists
  <2>4. cursor = periods[at].returned
    BY <2>1, <2>2, <2>3
  <2>5. /\ Accepted' /\ Given(index)' = Given(index)
        /\ Lengths' = Lengths
    BY <2>1, <2>2, Kept DEF Lengths, Given
  <2>6. CASE at < n
    <3>1. at' = at + 1 /\ cursor' = periods[at + 1].start /\ phase' = phase
      BY <1>4, <2>6 DEF NextPeriod
    <3>2. at + 1 \in 1..n
      BY <2>3, <2>6
    <3>3. /\ periods[at + 1].start \in Int /\ periods[at + 1].returned \in Int
          /\ periods[at + 1].start < periods[at + 1].returned
      BY <2>2, <3>2, Measures DEF Ordered
    <3>4. Before(at)' = Before(at + 1)
      BY <2>5, <3>1 DEF Before
    <3>5. /\ Before(at + 1) = Before(at) + (periods[at].returned - periods[at].start)
          /\ Before(at + 1) \in Int
      BY <2>2, <2>3, Measures
    <3>6. Given(index)' - left' = Before(at)' + (cursor' - periods[at + 1].start)
      BY <2>1, <2>2, <2>4, <2>5, <3>1, <3>3, <3>4, <3>5
    <3>. QED BY <2>1, <2>2, <2>3, <2>5, <3>1, <3>2, <3>3, <3>6 DEF LoopInv
  <2>7. CASE ~(at < n)
    <3>1. at' = at /\ cursor' = cursor /\ phase' = "planned"
      BY <1>4, <2>7 DEF NextPeriod
    <3>2. at = n
      BY <2>3, <2>7
    <3>3. Before(at)' = Before(at)
      BY <2>5, <3>1 DEF Before
    <3>. QED BY <2>1, <2>2, <2>4, <2>5, <3>1, <3>2, <3>3 DEF LoopInv
  <2>. QED BY <2>6, <2>7
<1>. QED BY <1>1, <1>2, <1>3, <1>4 DEF PlanNext
-----------------------------------------------------------------------------
(* The sections after a round: the old ones and one more.                  *)
LEMMA OneMore ==
    ASSUME PlanTypeOK, NEW seconds \in Int,
           result' = Append(result, [start |-> cursor, end |-> cursor + seconds,
                                     part |-> index])
    PROVE  /\ Len(result') = Len(result) + 1
           /\ DOMAIN result = 1..Len(result)
           /\ DOMAIN result' = 1..(Len(result) + 1)
           /\ \A k \in 1..Len(result) : result'[k] = result[k]
           /\ result'[Len(result) + 1].start = cursor
           /\ result'[Len(result) + 1].end = cursor + seconds
           /\ result'[Len(result) + 1].part = index
<1> DEFINE s == [start |-> cursor, end |-> cursor + seconds, part |-> index]
<1>1. result \in Seq(Section) /\ s \in Section
  BY DEF PlanTypeOK, Section
<1>2. s.start = cursor /\ s.end = cursor + seconds /\ s.part = index
  OBVIOUS
<1> HIDE DEF s
<1>3. result' = Append(result, s)
  BY DEF s
<1>4. /\ Len(result') = Len(result) + 1
      /\ \A k \in 1..Len(result) : result'[k] = result[k]
      /\ result'[Len(result) + 1] = s
      /\ result' \in Seq(Section)
  BY <1>1, <1>3, AppendProperties
<1>5. DOMAIN result = 1..Len(result) /\ DOMAIN result' = 1..(Len(result) + 1)
  BY <1>1, <1>4, LenProperties
<1>. QED BY <1>2, <1>4, <1>5

(* What a state of the loop says of the period in hand.                    *)
LEMMA InHand ==
    ASSUME PlanTypeOK, LoopInv, Busy
    PROVE  /\ Accepted
           /\ Len(periods) \in Nat /\ at \in 1..Len(periods)
           /\ Len(allocations) \in Nat /\ index \in 1..Len(allocations)
           /\ DOMAIN allocations = 1..Len(allocations)
           /\ cursor \in Int /\ left \in Int
           /\ periods[at].start \in Int /\ periods[at].returned \in Int
           /\ periods[at].start <= cursor /\ cursor <= periods[at].returned
           /\ 0 <= left /\ left <= allocations[index] /\ allocations[index] \in Int
           /\ Before(at) \in Int /\ Given(index) \in Int /\ Given(index - 1) \in Int
           /\ Given(index) = Given(index - 1) + allocations[index]
           /\ Given(index) - left = Before(at) + (cursor - periods[at].start)
<1>1. /\ Accepted /\ at \in DOMAIN periods /\ index \in DOMAIN allocations
      /\ periods[at].start <= cursor /\ cursor <= periods[at].returned
      /\ 0 <= left /\ left <= allocations[index]
      /\ Given(index) - left = Before(at) + (cursor - periods[at].start)
  BY DEF LoopInv
<1>2. /\ Len(periods) \in Nat /\ at \in 1..Len(periods)
      /\ Len(allocations) \in Nat /\ index \in 1..Len(allocations)
      /\ DOMAIN allocations = 1..Len(allocations)
      /\ periods[at].start \in Int /\ periods[at].returned \in Int
      /\ allocations[index] \in Int
  BY <1>1, Lists
<1>3. index \in 0..Len(allocations) /\ index - 1 \in 0..Len(allocations)
  BY <1>2
<1>4. /\ Before(at) \in Int /\ Given(index) \in Int /\ Given(index - 1) \in Int
      /\ Given(index) = Given(index - 1) + allocations[index]
  BY <1>1, <1>2, <1>3, Measures
<1>5. cursor \in Int /\ left \in Int
  BY DEF PlanTypeOK
<1>. QED BY <1>1, <1>2, <1>4, <1>5

(* The section a round makes is a part of the period in hand.              *)
LEMMA NewPart ==
    ASSUME PlanTypeOK, LoopInv, Busy, NEW seconds \in Int, 0 < seconds, seconds <= left,
           cursor + seconds <= periods[at].returned
    PROVE  /\ cursor < cursor + seconds
           /\ index \in DOMAIN allocations
           /\ Given(index - 1) <= Before(at) + (cursor - periods[at].start)
           /\ Before(at) + ((cursor + seconds) - periods[at].start) <= Given(index)
<1> DEFINE g == Given(index)
           h == Given(index - 1)
           b == Before(at)
           p == periods[at].start
           a == allocations[index]
<1>1. /\ cursor \in Int /\ left \in Int /\ p \in Int /\ b \in Int /\ g \in Int /\ h \in Int
      /\ a \in Int /\ left <= a /\ g = h + a /\ g - left = b + (cursor - p)
      /\ index \in DOMAIN allocations
  BY InHand
<1> HIDE DEF g, h, b, p, a
<1>2. /\ cursor < cursor + seconds /\ h <= b + (cursor - p)
      /\ b + ((cursor + seconds) - p) <= g
  BY <1>1
<1>. QED BY <1>1, <1>2 DEF g, h, b, p

(* The sections made so far stay parts, and a round makes one more.        *)
LEMMA PartsStep ==
    ASSUME PlanTypeOK, LoopInv, PartsInv, [PlanNext]_planVars
    PROVE  PartsInv'
<1>1. CASE UNCHANGED planVars
  <2>1. Lengths' = Lengths
    BY <1>1 DEF planVars, Lengths
  <2>. QED BY <1>1, <2>1 DEF PartsInv, Busy, IsPart, Given, Before, planVars
<1>2. CASE Validate
  <2>1. result' = <<>>
    BY <1>2 DEF Validate, PlanTypeOK
  <2>. QED BY <2>1 DEF PartsInv
<1>3. CASE HandOut
  <2>1. PICK seconds \in Int :
          /\ 0 < seconds /\ seconds <= left
          /\ cursor + seconds <= periods[at].returned
          /\ result' = Append(result, [start |-> cursor, end |-> cursor + seconds,
                                       part |-> index])
          /\ cursor' = cursor + seconds
    BY <1>3, Round
  <2>2. /\ UNCHANGED <<periods, allocations, phase, at>> /\ Busy
        /\ Lengths' = Lengths
    BY <1>3 DEF HandOut, Busy, Lengths
  <2>3. at \in Nat \ {0} /\ Len(result) \in Nat
    BY <2>2, InHand, Lists
  <2> PICK r \in Nat, a \in 1..at : r = Len(result) /\ a = at
    BY <2>3
  <2>4. /\ DOMAIN result = 1..r /\ DOMAIN result' = 1..(r + 1)
        /\ \A k \in 1..r : result'[k] = result[k]
        /\ result'[r + 1].start = cursor /\ result'[r + 1].end = cursor + seconds
        /\ result'[r + 1].part = index
    BY <2>1, OneMore
  <2>5. /\ at \in Nat \ {0} /\ cursor \in Int /\ r \in Nat
        /\ periods[at].start <= cursor
    BY <2>2, InHand, Lists
  <2>6. \A k \in 1..r : result[k].end \in Int
    BY Lists
  <2>7. ASSUME NEW k \in 1..r PROVE \E i \in 1..at : IsPart(result[k], i)'
    <3>1. PICK i \in 1..at : IsPart(result[k], i)
      BY <2>2, <2>4 DEF PartsInv
    <3>2. i = at => result[k].end <= cursor + seconds
      BY <2>1, <2>5, <2>6, <3>1 DEF IsPart
    <3>3. IsPart(result[k], i)'
      BY <2>1, <2>2, <2>4, <3>1, <3>2 DEF IsPart, Given, Before
    <3>. QED BY <3>3
  <2>8. IsPart(result[r + 1], a)'
    <3>1. /\ cursor < cursor + seconds
          /\ index \in DOMAIN allocations
          /\ Given(index - 1) <= Before(at) + (cursor - periods[at].start)
          /\ Before(at) + ((cursor + seconds) - periods[at].start) <= Given(index)
      BY <2>1, <2>2, NewPart
    <3>2. cursor + seconds <= cursor + seconds
      BY <2>5
    <3>. QED BY <2>1, <2>2, <2>4, <2>5, <3>1, <3>2 DEF IsPart, Given, Before
  <2>9. \A k \in 1..(r + 1) : k \in 1..r \/ k = r + 1
    BY <2>5
  <2>10. at' = at
    BY <2>2
  <2>11. ASSUME NEW k \in DOMAIN result' PROVE \E i \in 1..at' : IsPart(result[k], i)'
    <3>1. CASE k \in 1..r
      BY <2>7, <2>10, <3>1
    <3>2. CASE k = r + 1
      <4>1. IsPart(result[k], a)'
        BY <2>5, <2>8, <3>2
      <4>. QED BY <2>10, <4>1
    <3>. QED BY <2>4, <2>9, <3>1, <3>2
  <2>. QED BY <2>11 DEF PartsInv
<1>4. CASE NextPeriod
  <2>1. /\ UNCHANGED <<periods, allocations, result>> /\ Busy
        /\ Lengths' = Lengths
    BY <1>4 DEF NextPeriod, Busy, Lengths
  <2>2. at \in Nat
    BY DEF PlanTypeOK
  <2>3. (at' = at /\ cursor' = cursor) \/ at' = at + 1
    BY <1>4 DEF NextPeriod
  <2>4. ASSUME NEW k \in DOMAIN result PROVE \E i \in 1..at' : IsPart(result[k], i)'
    <3>1. PICK i \in 1..at : IsPart(result[k], i)
      BY <2>1 DEF PartsInv
    <3>2. i \in 1..at' /\ (i = at' => cursor' = cursor /\ at' = at)
      BY <2>2, <2>3
    <3>3. IsPart(result[k], i)'
      BY <2>1, <3>1, <3>2 DEF IsPart, Given, Before
    <3>. QED BY <3>2, <3>3
  <2>. QED BY <2>1, <2>4 DEF PartsInv
<1>. QED BY <1>1, <1>2, <1>3, <1>4 DEF PlanNext

(* The seconds the cursor passes are covered by the section of the round.  *)
LEMMA CoverStep ==
    ASSUME PlanTypeOK, LoopInv, CoverInv, [PlanNext]_planVars
    PROVE  CoverInv'
<1>1. CASE UNCHANGED planVars
  BY <1>1 DEF CoverInv, Busy, Covers, planVars
<1>2. CASE Validate
  <2>1. at' = 1 /\ periods' = periods /\ (Busy' => cursor' = periods[1].start)
    BY <1>2 DEF Validate, PlanTypeOK, Busy
  <2>2. Busy' => Accepted
    BY <1>2 DEF Validate, Busy
  <2>3. Accepted => periods[1].start \in Int
    BY Lists, Measures
  <2>. QED BY <2>1, <2>2, <2>3, BoundsAssumption DEF CoverInv, Seconds
<1>3. CASE HandOut
  <2>1. PICK seconds \in Int :
          /\ 0 < seconds /\ seconds <= left
          /\ cursor + seconds <= periods[at].returned
          /\ result' = Append(result, [start |-> cursor, end |-> cursor + seconds,
                                       part |-> index])
          /\ cursor' = cursor + seconds
    BY <1>3, Round
  <2>2. UNCHANGED <<periods, phase, at>> /\ Busy
    BY <1>3 DEF HandOut, Busy
  <2>3. Len(result) \in Nat /\ cursor \in Int
    BY <2>2, InHand, Lists
  <2> PICK r \in Nat : r = Len(result)
    BY <2>3
  <2>4. /\ DOMAIN result = 1..r /\ DOMAIN result' = 1..(r + 1)
        /\ \A k \in 1..r : result'[k] = result[k]
        /\ result'[r + 1].start = cursor /\ result'[r + 1].end = cursor + seconds
    BY <2>1, OneMore
  <2>5. r + 1 \in DOMAIN result'
    BY <2>4
  <2>6. ASSUME NEW i \in 1..at, NEW t \in Seconds, periods[i].start <= t,
               t < (IF i = at THEN cursor + seconds ELSE periods[i].returned)
        PROVE  \E k \in DOMAIN result' : result'[k].start <= t /\ t < result'[k].end
    <3>1. t \in Int
      BY BoundsAssumption DEF Seconds
    <3>2. CASE t < (IF i = at THEN cursor ELSE periods[i].returned)
      <4>1. PICK k \in DOMAIN result : Covers(result[k], t)
        BY <2>2, <2>6, <3>2 DEF CoverInv
      <4>2. k \in DOMAIN result' /\ result'[k] = result[k]
        BY <2>4
      <4>. QED BY <4>1, <4>2 DEF Covers
    <3>3. CASE ~(t < (IF i = at THEN cursor ELSE periods[i].returned))
      <4>1. cursor <= t /\ t < cursor + seconds
        BY <2>3, <2>6, <3>1, <3>3
      <4>. QED BY <2>4, <2>5, <4>1
    <3>. QED BY <3>2, <3>3
  <2>. QED BY <2>1, <2>2, <2>6 DEF CoverInv, Covers
<1>4. CASE NextPeriod
  <2>1. UNCHANGED <<periods, result>> /\ Busy /\ ~(cursor < periods[at].returned)
    BY <1>4 DEF NextPeriod, Busy
  <2>2. /\ at \in Nat /\ cursor \in Int /\ periods[at].returned \in Int
        /\ cursor <= periods[at].returned /\ Len(periods) \in Nat
    BY <2>1, InHand
  <2>3. cursor = periods[at].returned
    BY <2>1, <2>2
  <2>4. CASE at' = at /\ cursor' = cursor
    BY <2>1, <2>4 DEF CoverInv, Covers
  <2>5. CASE at < Len(periods) /\ at' = at + 1 /\ cursor' = periods[at + 1].start
    <3>1. at + 1 \in 1..Len(periods)
      BY <2>2, <2>5
    <3>2. periods[at + 1].start \in Int
      BY <3>1, Lists
    <3>3. ASSUME NEW i \in 1..(at + 1), NEW t \in Seconds, periods[i].start <= t,
                 t < (IF i = at + 1 THEN periods[at + 1].start ELSE periods[i].returned)
          PROVE  \E k \in DOMAIN result : Covers(result[k], t)
      <4>1. t \in Int
        BY BoundsAssumption DEF Seconds
      <4>2. i \in 1..at /\ i # at + 1
        BY <2>2, <3>2, <3>3, <4>1
      <4>3. t < (IF i = at THEN cursor ELSE periods[i].returned)
        BY <2>3, <3>3, <4>2
      <4>. QED BY <2>1, <3>3, <4>2, <4>3 DEF CoverInv
    <3>. QED BY <2>1, <2>5, <3>3 DEF CoverInv, Covers
  <2>. QED BY <1>4, <2>4, <2>5 DEF NextPeriod
<1>. QED BY <1>1, <1>2, <1>3, <1>4 DEF PlanNext

(* A new section begins where all the others have ended.                   *)
LEMMA OrderStep ==
    ASSUME PlanTypeOK, LoopInv, PartsInv, OrderInv, [PlanNext]_planVars
    PROVE  OrderInv'
<1>1. CASE UNCHANGED result
  BY <1>1 DEF OrderInv
<1>2. CASE HandOut
  <2>1. PICK seconds \in Int :
          /\ 0 < seconds
          /\ result' = Append(result, [start |-> cursor, end |-> cursor + seconds,
                                       part |-> index])
    BY <1>2, Round
  <2>2. Busy
    BY <1>2 DEF HandOut, Busy
  <2>3. Len(result) \in Nat /\ at \in 1..Len(periods) /\ Len(periods) \in Nat
    BY <2>2, InHand, Lists
  <2> PICK r \in Nat : r = Len(result)
    BY <2>3
  <2>4. /\ DOMAIN result = 1..r /\ DOMAIN result' = 1..(r + 1)
        /\ \A k \in 1..r : result'[k] = result[k]
        /\ result'[r + 1].start = cursor
    BY <2>1, OneMore
  <2>5. ASSUME NEW k \in 1..r PROVE result[k].end <= cursor
    <3>1. PICK i \in 1..at : IsPart(result[k], i)
      BY <2>2, <2>4 DEF PartsInv
    <3>2. CASE i = at
      BY <3>1, <3>2 DEF IsPart
    <3>3. CASE i # at
      <4>1. Ordered(periods, Len(periods)) /\ i \in 1..Len(periods) /\ i < at
        BY <2>2, <2>3, <3>3, InHand, Measures
      <4>2. periods[i].returned <= periods[at].start
        BY <2>3, <4>1, EarlierIsBefore
      <4>3. /\ result[k].end <= periods[i].returned /\ periods[at].start <= cursor
            /\ result[k].end \in Int /\ cursor \in Int
            /\ periods[i].returned \in Int /\ periods[at].start \in Int
        BY <2>2, <3>1, <4>1, InHand, Lists DEF IsPart
      <4>. QED BY <4>2, <4>3
    <3>. QED BY <3>2, <3>3
  <2>6. ASSUME NEW k \in 1..(r + 1), NEW l \in 1..(r + 1), k < l
        PROVE  result'[k].end <= result'[l].start
    <3>1. k \in 1..r /\ (l \in 1..r \/ l = r + 1)
      BY <2>6
    <3>. QED BY <2>4, <2>5, <2>6, <3>1 DEF OrderInv
  <2>. QED BY <2>4, <2>6 DEF OrderInv
<1>3. UNCHANGED result \/ HandOut
  <2>1. Validate => UNCHANGED result
    BY DEF Validate
  <2>2. NextPeriod => UNCHANGED result
    BY DEF NextPeriod
  <2>. QED BY <2>1, <2>2 DEF PlanNext, planVars
<1>. QED BY <1>1, <1>2, <1>3

(* The cursor stands at a border, where the next section begins.           *)
LEMMA BorderStep ==
    ASSUME PlanTypeOK, LoopInv, BorderInv, [PlanNext]_planVars
    PROVE  BorderInv'
<1>1. CASE UNCHANGED planVars
  BY <1>1 DEF BorderInv, Border, Busy, planVars
<1>2. CASE Validate
  <2>1. at' = 1 /\ periods' = periods /\ result' = <<>>
        /\ (Busy' => cursor' = periods[1].start)
    BY <1>2 DEF Validate, PlanTypeOK, Busy
  <2>2. 1 \in 1..1
    OBVIOUS
  <2>. QED BY <2>1, <2>2 DEF BorderInv, Border
<1>3. CASE HandOut
  <2>1. PICK seconds \in Int :
          /\ result' = Append(result, [start |-> cursor, end |-> cursor + seconds,
                                       part |-> index])
          /\ cursor' = cursor + seconds
    BY <1>3, Round
  <2>2. UNCHANGED <<periods, at>> /\ Busy
    BY <1>3 DEF HandOut, Busy
  <2>3. Len(result) \in Nat
    BY Lists
  <2> PICK r \in Nat : r = Len(result)
    BY <2>3
  <2>4. /\ DOMAIN result = 1..r /\ DOMAIN result' = 1..(r + 1)
        /\ \A k \in 1..r : result'[k] = result[k]
        /\ result'[r + 1].start = cursor /\ result'[r + 1].end = cursor + seconds
    BY <2>1, OneMore
  <2>5. r + 1 \in DOMAIN result' /\ \A l \in DOMAIN result : l \in DOMAIN result'
    BY <2>4
  <2>6. ASSUME NEW t, Border(t)
        PROVE  \/ \E i \in 1..at' : t = periods'[i].start
               \/ \E l \in DOMAIN result' : t = result'[l].end
    BY <2>2, <2>4, <2>5, <2>6 DEF Border
  <2>7. \E l \in DOMAIN result' : cursor' = result'[l].end
    BY <2>1, <2>4, <2>5
  <2>8. ASSUME NEW k \in DOMAIN result'
        PROVE  \/ \E i \in 1..at' : result'[k].start = periods'[i].start
               \/ \E l \in DOMAIN result' : result'[k].start = result'[l].end
    <3>1. CASE k \in 1..r
      <4>1. Border(result[k].start)
        BY <2>2, <2>4, <3>1 DEF BorderInv
      <4>. QED BY <2>4, <2>6, <3>1, <4>1
    <3>2. CASE k = r + 1
      <4>1. Border(cursor)
        BY <2>2 DEF BorderInv
      <4>. QED BY <2>4, <2>6, <3>2, <4>1
    <3>. QED BY <2>4, <3>1, <3>2
  <2>. QED BY <2>7, <2>8 DEF BorderInv, Border
<1>4. CASE NextPeriod
  <2>1. UNCHANGED <<periods, result>> /\ Busy
    BY <1>4 DEF NextPeriod, Busy
  <2>2. at \in Nat
    BY DEF PlanTypeOK
  <2>3. (at' = at /\ cursor' = cursor) \/ (at' = at + 1 /\ cursor' = periods[at + 1].start)
    BY <1>4 DEF NextPeriod
  <2>4. at' \in Nat /\ \A i \in 1..at : i \in 1..at'
    BY <2>2, <2>3
  <2>5. at + 1 \in 1..(at + 1)
    BY <2>2
  <2>. QED BY <2>1, <2>3, <2>4, <2>5 DEF BorderInv, Border
<1>. QED BY <1>1, <1>2, <1>3, <1>4 DEF PlanNext

(* A round ends the period or turns to the next allocation.                *)
LEMMA CountStep ==
    ASSUME PlanTypeOK, LoopInv, CountInv, [PlanNext]_planVars
    PROVE  CountInv'
<1>1. CASE UNCHANGED planVars
  BY <1>1 DEF CountInv, Busy, planVars
<1>2. CASE Validate
  <2>1. at' = 1 /\ index' = 1 /\ result' = <<>>
    BY <1>2 DEF Validate, PlanTypeOK
  <2>2. Len(result') = 0
    BY <2>1
  <2>. QED BY <2>1, <2>2 DEF CountInv
<1>3. CASE HandOut
  <2>1. PICK seconds \in Int :
          /\ 0 < seconds /\ cursor + seconds <= periods[at].returned
          /\ result' = Append(result, [start |-> cursor, end |-> cursor + seconds,
                                       part |-> index])
          /\ cursor' = cursor + seconds
          /\ index' = index + 1 \/ index' = index
          /\ cursor' = periods[at].returned \/ index' = index + 1
    BY <1>3, Round
  <2>2. UNCHANGED <<periods, at>> /\ Busy /\ cursor < periods[at].returned
    BY <1>3 DEF HandOut, Busy
  <2>3. /\ at \in Nat /\ index \in Nat /\ cursor \in Int /\ Len(result) \in Nat
        /\ periods[at].returned \in Int
    BY <2>2, InHand, Lists
  <2>4. Len(result') = Len(result) + 1
    BY <2>1, OneMore
  <2>5. Len(result) <= (at - 1) + (index - 1)
    BY <2>2, <2>3 DEF CountInv
  <2>. QED BY <2>1, <2>2, <2>3, <2>4, <2>5 DEF CountInv
<1>4. CASE NextPeriod
  <2>1. UNCHANGED <<periods, result, index>> /\ Busy
    BY <1>4 DEF NextPeriod, Busy
  <2>2. at \in Nat /\ index \in Nat /\ Len(result) \in Nat
    BY <2>1, InHand, Lists
  <2>3. (at' = at /\ cursor' = cursor) \/ at' = at + 1
    BY <1>4 DEF NextPeriod
  <2>4. Len(result) <= (at - 1) + (index - 1) + 1
    BY <2>1, <2>2 DEF CountInv
  <2>. QED BY <2>1, <2>2, <2>3, <2>4 DEF CountInv
<1>. QED BY <1>1, <1>2, <1>3, <1>4 DEF PlanNext
-----------------------------------------------------------------------------
PlanInv ==
    /\ PlanTypeOK
    /\ LoopInv
    /\ PartsInv
    /\ CoverInv
    /\ OrderInv
    /\ BorderInv
    /\ CountInv

(* The state before the call.                                              *)
LEMMA Start == PlanInit => PlanInv
<1> SUFFICES ASSUME PlanInit PROVE PlanInv
  OBVIOUS
<1>1. phase = "called" /\ result = <<>> /\ at = 1 /\ index = 1 /\ left = 0 /\ cursor = 0
  BY DEF PlanInit
<1>2. periods \in Seq(Period) /\ allocations \in Seq(1..MaxTime)
  <2>1. periods \in UNION {[1..k -> Period] : k \in 0..MaxPeriods}
    BY DEF PlanInit, PeriodLists, BoundedSeq, SeqOf, Period
  <2>2. allocations \in UNION {[1..k -> 1..MaxTime] : k \in 0..MaxAllocations}
    BY DEF PlanInit, AllocationLists, BoundedSeq, SeqOf
  <2>3. \A k \in 0..MaxPeriods : k \in Nat
    BY BoundsAssumption
  <2>4. \A k \in 0..MaxAllocations : k \in Nat
    BY BoundsAssumption
  <2>5. \A S : \A k \in Nat : [1..k -> S] \subseteq Seq(S)
    BY SeqDef
  <2>6. periods \in Seq(Period)
    BY <2>1, <2>3, <2>5
  <2>7. allocations \in Seq(1..MaxTime)
    BY <2>2, <2>4, <2>5
  <2>. QED BY <2>6, <2>7
<1>3. PlanTypeOK
  BY <1>1, <1>2 DEF PlanTypeOK
<1>4. ~Busy
  BY <1>1 DEF Busy
<1>5. OrderInv
  BY <1>1 DEF OrderInv
<1>. QED BY <1>3, <1>4, <1>5
     DEF PlanInv, LoopInv, PartsInv, CoverInv, BorderInv, CountInv

(* The invariant of the call: its types; what the allocations have given   *)
(* is what the periods were handed out; and the sections are parts of      *)
(* both, cover all up to the cursor, in order and as few as they can be.   *)
THEOREM PlanInvariance == PlanSpec => []PlanInv
<1>1. PlanInit => PlanInv
  BY Start
<1>2. PlanInv /\ [PlanNext]_planVars => PlanInv'
  BY TypeStep, LoopStep, PartsStep, CoverStep, OrderStep, BorderStep, CountStep DEF PlanInv
<1>. QED BY <1>1, <1>2, PTL DEF PlanSpec

(* No accepted input lets a round of planIdlePeriods hand out nothing: the *)
(* last allocation lasts as long as the last period.                       *)
THEOREM RoundsHandOut == PlanSpec => EveryRoundHandsOut
<1>1. PlanInv /\ [PlanNext]_planVars => [result' # result => cursor' > cursor]_planVars
  <2> SUFFICES ASSUME PlanInv, [PlanNext]_planVars, result' # result
               PROVE  cursor' > cursor
    OBVIOUS
  <2>1. HandOut
    BY DEF PlanNext, Validate, NextPeriod, planVars
  <2>2. PICK seconds \in Int : 0 < seconds /\ cursor' = cursor + seconds
    BY <2>1, Round DEF PlanInv
  <2>3. cursor \in Int
    BY DEF PlanInv, PlanTypeOK
  <2>. QED BY <2>2, <2>3
<1>. QED BY <1>1, PlanInvariance, PTL DEF EveryRoundHandsOut, PlanSpec
-----------------------------------------------------------------------------
(* The absent seconds before a second of period a.                         *)
LEMMA AbsentSoFar ==
    ASSUME PlanTypeOK, Accepted, NEW a \in 1..Len(periods), NEW t \in Int,
           periods[a].start <= t, t < periods[a].returned
    PROVE  AbsentBefore(t) = Before(a) + (t - periods[a].start)
<1> DEFINE n == Len(periods)
           g == [i \in DOMAIN periods |->
                   IF t <= periods[i].start THEN 0
                   ELSE IF t <= periods[i].returned THEN t - periods[i].start
                   ELSE periods[i].returned - periods[i].start]
<1>1. /\ n \in Nat /\ DOMAIN periods = 1..n
      /\ Lengths \in [1..n -> Int] /\ Ordered(periods, n)
      /\ \A i \in 1..n : Lengths[i] = periods[i].returned - periods[i].start
      /\ \A i \in 1..n : periods[i].start \in Int /\ periods[i].returned \in Int
  BY Lists, Measures
<1>2. g \in [1..n -> Int]
  BY <1>1
<1>3. \A i \in 1..n :
        g[i] = IF t <= periods[i].start THEN 0
               ELSE IF t <= periods[i].returned THEN t - periods[i].start
               ELSE periods[i].returned - periods[i].start
  BY <1>1
<1>4. AbsentBefore(t) = Total(g)
  BY DEF AbsentBefore
<1> HIDE DEF g
<1>5. AbsentBefore(t) = Sums(g)[n]
  BY <1>1, <1>2, <1>4, FromOne DEF Total
<1>6. ASSUME NEW i \in 1..(a - 1) PROVE g[i] = Lengths[i]
  <2>1. i \in 1..n /\ i < a
    BY <1>1
  <2>2. periods[i].returned <= periods[a].start
    BY <1>1, <2>1, EarlierIsBefore
  <2>3. periods[i].start < periods[i].returned
    BY <1>1, <2>1 DEF Ordered
  <2>. QED BY <1>1, <1>3, <2>1, <2>2, <2>3
<1>7. g[a] = t - periods[a].start
  BY <1>1, <1>3
<1>8. ASSUME NEW i \in (a + 1)..n PROVE g[i] = 0
  <2>1. i \in 1..n /\ a < i
    BY <1>1
  <2>2. periods[a].returned <= periods[i].start
    BY <1>1, <2>1, EarlierIsBefore
  <2>. QED BY <1>1, <1>3, <2>1, <2>2
<1>9. a \in 0..n /\ a - 1 \in 0..n
  BY <1>1
<1>10. Sums(g)[n] = Sums(g)[a]
  BY <1>1, <1>2, <1>8, <1>9, ZeroRest
<1>11. Sums(g)[a - 1] = Sums(Lengths)[a - 1]
  BY <1>1, <1>2, <1>6, <1>9, SamePrefix
<1>12. Sums(g)[a] = Sums(g)[a - 1] + g[a]
  BY <1>1, <1>2, SumsDefined DEF IsSum
<1>. QED BY <1>5, <1>7, <1>10, <1>11, <1>12 DEF Before

(* A second has one owner.                                                 *)
LEMMA OneOwner ==
    ASSUME PlanTypeOK, Accepted, NEW t, AbsentBefore(t) \in Int,
           NEW j \in 1..Len(allocations),
           Given(j - 1) <= AbsentBefore(t), AbsentBefore(t) < Given(j)
    PROVE  OwnerOf(t) = j
<1> DEFINE m == Len(allocations)
           v == AbsentBefore(t)
           Owns(l) == Given(l - 1) <= v /\ v < Given(l)
<1>1. /\ m \in Nat /\ DOMAIN allocations = 1..m /\ allocations \in [1..m -> Int]
      /\ \A l \in 1..m : allocations[l] > 0
  BY Lists
<1>2. \A l \in 0..m : Given(l) \in Int
  BY Measures
<1>3. ASSUME NEW k \in 1..m, NEW l \in 1..m, Owns(k), Owns(l) PROVE ~(k < l)
  <2> SUFFICES ASSUME k < l PROVE FALSE
    OBVIOUS
  <2>1. k \in 0..m /\ l - 1 \in 0..m /\ (k = l - 1 \/ k < l - 1)
    BY <1>1
  <2>2. Given(k) <= Given(l - 1)
    <3>1. CASE k = l - 1
      BY <1>2, <2>1, <3>1
    <3>2. CASE k < l - 1
      <4>1. Sums(allocations)[k] < Sums(allocations)[l - 1]
        BY <1>1, <2>1, <3>2, SumsRise
      <4>. QED BY <1>2, <2>1, <4>1 DEF Given
    <3>. QED BY <2>1, <3>1, <3>2
  <2>3. v < Given(k) /\ Given(l - 1) <= v
    BY <1>3
  <2>4. Given(k) \in Int /\ Given(l - 1) \in Int /\ v \in Int
    BY <1>2, <2>1
  <2>. QED BY <2>2, <2>3, <2>4
<1>4. Owns(j)
  OBVIOUS
<1>5. OwnerOf(t) = CHOOSE l \in 1..m : Owns(l)
  BY <1>1 DEF OwnerOf, Given
<1> HIDE DEF Owns
<1>6. \A l \in 1..m : Owns(l) => l = j
  <2> SUFFICES ASSUME NEW l \in 1..m, Owns(l) PROVE l = j
    OBVIOUS
  <2>1. ~(l < j) /\ ~(j < l)
    BY <1>3, <1>4
  <2>. QED BY <1>1, <2>1
<1>. QED BY <1>4, <1>5, <1>6

(* A section of the plan lies in one period, and its seconds are its       *)
(* allocation's.                                                           *)
LEMMA PartOwns ==
    ASSUME PlanInv, phase = "planned", NEW k \in DOMAIN result, NEW t \in Int,
           Covers(result[k], t)
    PROVE  /\ \E i \in DOMAIN periods :
                 /\ periods[i].start <= t /\ t < periods[i].returned
                 /\ periods[i].start <= result[k].start
                 /\ result[k].end <= periods[i].returned
           /\ OwnerOf(t) = result[k].part
<1>1. Busy /\ PlanTypeOK /\ LoopInv
  BY DEF Busy, PlanInv
<1>2. /\ Accepted /\ Len(periods) \in Nat /\ at \in 1..Len(periods)
      /\ DOMAIN periods = 1..Len(periods) /\ DOMAIN result = 1..Len(result)
      /\ DOMAIN allocations = 1..Len(allocations) /\ Len(allocations) \in Nat
  BY <1>1, InHand, Lists
<1>3. PICK i \in 1..at : IsPart(result[k], i)
  BY <1>1 DEF PartsInv, PlanInv
<1>4. i \in 1..Len(periods)
  BY <1>2
<1>5. /\ periods[i].start \in Int /\ periods[i].returned \in Int
      /\ result[k].start \in Int /\ result[k].end \in Int
  BY <1>1, <1>2, <1>4, Lists
<1>6. /\ periods[i].start <= result[k].start /\ result[k].end <= periods[i].returned
      /\ result[k].start <= t /\ t < result[k].end
  BY <1>3 DEF IsPart, Covers
<1>7. periods[i].start <= t /\ t < periods[i].returned
  BY <1>5, <1>6
<1>8. AbsentBefore(t) = Before(i) + (t - periods[i].start)
  BY <1>1, <1>2, <1>4, <1>7, AbsentSoFar
<1> PICK j \in 1..Len(allocations) : j = result[k].part
  BY <1>2, <1>3 DEF IsPart
<1>9. /\ Given(j - 1) <= Before(i) + (result[k].start - periods[i].start)
      /\ Before(i) + (result[k].end - periods[i].start) <= Given(j)
  BY <1>3 DEF IsPart
<1>10. Before(i) \in Int /\ Given(j) \in Int /\ Given(j - 1) \in Int
  <2>1. j \in 0..Len(allocations) /\ j - 1 \in 0..Len(allocations)
    BY <1>2
  <2>. QED BY <1>1, <1>2, <1>4, <2>1, Measures
<1>11. /\ AbsentBefore(t) \in Int
       /\ Given(j - 1) <= AbsentBefore(t) /\ AbsentBefore(t) < Given(j)
  <2> DEFINE b == Before(i)
             g == Given(j)
             h == Given(j - 1)
             p == periods[i].start
             x == result[k].start
             y == result[k].end
  <2>1. /\ h <= b + (x - p) /\ b + (y - p) <= g /\ x <= t /\ t < y
        /\ b \in Int /\ g \in Int /\ h \in Int /\ p \in Int /\ x \in Int /\ y \in Int
    BY <1>5, <1>6, <1>9, <1>10
  <2> HIDE DEF b, g, h, p, x, y
  <2>2. b + (t - p) \in Int /\ h <= b + (t - p) /\ b + (t - p) < g
    BY <2>1
  <2>. QED BY <1>8, <2>2 DEF b, g, h, p
<1>12. OwnerOf(t) = j
  BY <1>1, <1>2, <1>11, OneOwner
<1>. QED BY <1>2, <1>4, <1>6, <1>7, <1>12

(* A-24.5 of planIdlePeriods: every absent second goes to exactly one      *)
(* section, that of the allocation whose turn it is, and no second in      *)
(* which the user was active goes to any.                                  *)
THEOREM SecondsHaveTheirOwner == PlanSpec => []EverySecondToItsOwner
<1>1. PlanInv => EverySecondToItsOwner
  <2> SUFFICES ASSUME PlanInv, phase = "planned", NEW t \in Seconds
               PROVE  {result[k].part : k \in {k \in DOMAIN result : Covers(result[k], t)}}
                        = IF \E i \in DOMAIN periods :
                                periods[i].start <= t /\ t < periods[i].returned
                          THEN {OwnerOf(t)} ELSE {}
    BY DEF EverySecondToItsOwner
  <2>1. Busy /\ PlanTypeOK /\ LoopInv /\ CoverInv /\ t \in Int
    BY BoundsAssumption DEF Busy, PlanInv, Seconds
  <2>2. /\ at = Len(periods) /\ cursor = periods[at].returned
        /\ DOMAIN periods = 1..Len(periods)
    BY <2>1, Lists DEF LoopInv
  <2>3. \A k \in DOMAIN result : Covers(result[k], t) =>
           /\ \E i \in DOMAIN periods : periods[i].start <= t /\ t < periods[i].returned
           /\ OwnerOf(t) = result[k].part
    BY <2>1, PartOwns
  <2>4. (\E i \in DOMAIN periods : periods[i].start <= t /\ t < periods[i].returned)
          => \E k \in DOMAIN result : Covers(result[k], t)
    BY <2>1, <2>2 DEF CoverInv
  <2>. QED BY <2>3, <2>4
<1>. QED BY <1>1, PlanInvariance, PTL
-----------------------------------------------------------------------------
(* No section ends inside another.                                         *)
LEMMA NoEndInside ==
    ASSUME PlanInv, phase = "planned", NEW k \in DOMAIN result, NEW l \in DOMAIN result
    PROVE  ~(result[k].start < result[l].end /\ result[l].end < result[k].end)
<1> SUFFICES ASSUME result[k].start < result[l].end, result[l].end < result[k].end
             PROVE  FALSE
  OBVIOUS
<1>1. Busy /\ PlanTypeOK /\ OrderInv /\ PartsInv
  BY DEF Busy, PlanInv
<1>2. /\ Len(result) \in Nat /\ k \in 1..Len(result) /\ l \in 1..Len(result)
      /\ result[k].start \in Int /\ result[k].end \in Int
      /\ result[l].start \in Int /\ result[l].end \in Int
  BY <1>1, Lists
<1>3. result[l].start < result[l].end
  BY <1>1 DEF PartsInv, IsPart
<1>4. CASE k < l
  <2>1. result[k].end <= result[l].start
    BY <1>1, <1>4 DEF OrderInv
  <2>. QED BY <1>2, <1>3, <2>1
<1>5. CASE l < k
  <2>1. result[l].end <= result[k].start
    BY <1>1, <1>5 DEF OrderInv
  <2>. QED BY <1>2, <2>1
<1>6. CASE k = l
  BY <1>2, <1>6
<1>. QED BY <1>2, <1>4, <1>5, <1>6

(* The borders inside period i: its ends, and where sections end.          *)
Ends(p, cuts) == {p.start, p.returned} \cup {t \in cuts : p.start < t /\ t < p.returned}

Cuts == {result[l].end : l \in DOMAIN result}

(* A section lies in a period and runs from border to border.              *)
LEMMA EndsAreBorders ==
    ASSUME PlanInv, phase = "planned", NEW k \in DOMAIN result
    PROVE  \E i \in 1..Len(periods) :
             /\ result[k].start \in Ends(periods[i], Cuts)
             /\ result[k].end \in Ends(periods[i], Cuts)
             /\ result[k].start < result[k].end
             /\ periods[i].start <= result[k].start /\ result[k].end <= periods[i].returned
<1>1. Busy /\ PlanTypeOK /\ LoopInv /\ PartsInv /\ BorderInv
  BY DEF Busy, PlanInv
<1>2. /\ Accepted /\ Len(periods) \in Nat /\ at \in 1..Len(periods)
      /\ DOMAIN result = 1..Len(result) /\ Ordered(periods, Len(periods))
  BY <1>1, InHand, Lists, Measures
<1>3. PICK i \in 1..at : IsPart(result[k], i)
  BY <1>1 DEF PartsInv
<1>4. i \in 1..Len(periods)
  BY <1>2
<1>5. /\ periods[i].start \in Int /\ periods[i].returned \in Int
      /\ result[k].start \in Int /\ result[k].end \in Int
  BY <1>1, <1>2, <1>4, Lists
<1>6. /\ periods[i].start <= result[k].start /\ result[k].end <= periods[i].returned
      /\ result[k].start < result[k].end
  BY <1>3 DEF IsPart
<1>7. result[k].end \in Ends(periods[i], Cuts)
  <2>1. result[k].end \in Cuts
    BY DEF Cuts
  <2>2. /\ periods[i].start < result[k].end
        /\ result[k].end = periods[i].returned \/ result[k].end < periods[i].returned
    BY <1>5, <1>6
  <2>. QED BY <2>1, <2>2 DEF Ends
<1>8. result[k].start \in Ends(periods[i], Cuts)
  <2>1. Border(result[k].start)
    BY <1>1 DEF BorderInv
  <2>2. result[k].start < periods[i].returned
    BY <1>5, <1>6
  <2>3. CASE \E j \in 1..at : result[k].start = periods[j].start
    <3>1. PICK j \in 1..at : result[k].start = periods[j].start
      BY <2>3
    <3>2. j \in 1..Len(periods)
      BY <1>2
    <3>3. periods[j].start <= result[k].start /\ result[k].start < periods[j].returned
      BY <1>2, <1>5, <3>1, <3>2 DEF Ordered
    <3>4. i = j
      BY <1>2, <1>4, <1>5, <1>6, <2>2, <3>2, <3>3, OnePeriod
    <3>. QED BY <3>1, <3>4 DEF Ends
  <2>4. CASE \E l \in DOMAIN result : result[k].start = result[l].end
    <3>1. result[k].start \in Cuts
      BY <2>4 DEF Cuts
    <3>2. periods[i].start = result[k].start \/ periods[i].start < result[k].start
      BY <1>5, <1>6
    <3>. QED BY <2>2, <3>1, <3>2 DEF Ends
  <2>. QED BY <2>1, <2>3, <2>4 DEF Border
<1>. QED BY <1>4, <1>6, <1>7, <1>8

(* Nothing that could end a section lies inside a section of period i.     *)
LEMMA NoBorderInside ==
    ASSUME PlanInv, phase = "planned", NEW k \in DOMAIN result, NEW i \in 1..Len(periods),
           periods[i].start <= result[k].start, result[k].end <= periods[i].returned,
           NEW t \in Ends(periods[i], Cuts)
    PROVE  ~(result[k].start < t /\ t < result[k].end)
<1>1. PlanTypeOK
  BY DEF PlanInv
<1>2. /\ periods[i].start \in Int /\ periods[i].returned \in Int
      /\ result[k].start \in Int /\ result[k].end \in Int
  BY <1>1, Lists
<1>3. CASE t \in {periods[i].start, periods[i].returned}
  BY <1>2, <1>3
<1>4. CASE t \in Cuts
  <2>1. PICK l \in DOMAIN result : t = result[l].end
    BY <1>4 DEF Cuts
  <2>. QED BY <2>1, NoEndInside
<1>. QED BY <1>3, <1>4 DEF Ends

(* The sections of the plan are those the borders cut the periods into:    *)
(* what the timer's resolution may book is what planIdlePeriods can        *)
(* produce, and there are never more than periods and allocations, less    *)
(* one.                                                                    *)
THEOREM PlanCutsPeriods == PlanSpec => []SectionsAreCuts
<1> DEFINE made == {[start |-> s.start, end |-> s.end] : s \in {result[k] : k \in DOMAIN result}}
<1>1. ASSUME PlanInv, phase = "planned" PROVE Len(result) <= Len(periods) + Len(allocations) - 1
  <2>1. Busy /\ PlanTypeOK /\ LoopInv /\ CountInv
    BY <1>1 DEF Busy, PlanInv
  <2>2. /\ Len(periods) \in Nat /\ Len(allocations) \in Nat /\ Len(result) \in Nat
        /\ index \in 1..Len(allocations) /\ at = Len(periods)
    BY <1>1, <2>1, InHand, Lists DEF LoopInv
  <2>3. Len(result) <= (at - 1) + (index - 1) + 1
    BY <2>1, <2>2 DEF CountInv
  <2>. QED BY <2>2, <2>3
<1>2. {s.end : s \in made} = Cuts
  <2>1. made = {[start |-> result[k].start, end |-> result[k].end] : k \in DOMAIN result}
    OBVIOUS
  <2>2. ASSUME NEW l \in DOMAIN result PROVE result[l].end \in {s.end : s \in made}
    <3> DEFINE s == [start |-> result[l].start, end |-> result[l].end]
    <3>1. s \in made /\ s.end = result[l].end
      BY <2>1
    <3> HIDE DEF s, made
    <3>. QED BY <3>1
  <2>3. ASSUME NEW s \in made PROVE s.end \in Cuts
    <3>1. PICK k \in DOMAIN result : s = [start |-> result[k].start, end |-> result[k].end]
      BY <2>1
    <3>. QED BY <3>1 DEF Cuts
  <2> HIDE DEF made
  <2>. QED BY <2>2, <2>3 DEF Cuts
<1>3. \A p, cuts : Sections(p, cuts) =
        {s \in [start : Ends(p, cuts), end : Ends(p, cuts)] :
           s.start < s.end /\ \A t \in Ends(p, cuts) : ~(s.start < t /\ t < s.end)}
  BY DEF Sections, Ends
<1>4. ASSUME PlanInv, phase = "planned", NEW k \in DOMAIN result
      PROVE  \E i \in DOMAIN periods :
               [start |-> result[k].start, end |-> result[k].end] \in Sections(periods[i], Cuts)
  <2>1. PICK i \in 1..Len(periods) :
          /\ result[k].start \in Ends(periods[i], Cuts)
          /\ result[k].end \in Ends(periods[i], Cuts)
          /\ result[k].start < result[k].end
          /\ periods[i].start <= result[k].start /\ result[k].end <= periods[i].returned
    BY <1>4, EndsAreBorders
  <2>2. \A t \in Ends(periods[i], Cuts) : ~(result[k].start < t /\ t < result[k].end)
    BY <1>4, <2>1, NoBorderInside
  <2>3. i \in DOMAIN periods
    BY <1>4, Lists DEF PlanInv
  <2>. QED BY <1>3, <2>1, <2>2, <2>3
<1>5. ASSUME PlanInv, phase = "planned", NEW i \in DOMAIN periods,
             NEW s \in Sections(periods[i], Cuts)
      PROVE  \E k \in DOMAIN result :
               s = [start |-> result[k].start, end |-> result[k].end]
  <2>1. Busy /\ PlanTypeOK /\ LoopInv /\ CoverInv
    BY <1>5 DEF Busy, PlanInv
  <2>2. /\ Accepted /\ Len(periods) \in Nat /\ i \in 1..Len(periods)
        /\ at = Len(periods) /\ cursor = periods[at].returned
        /\ DOMAIN result = 1..Len(result) /\ Ordered(periods, Len(periods))
    BY <1>5, <2>1, InHand, Lists, Measures DEF LoopInv
  <2>3. periods[i] \in Period /\ periods[i].start \in Int /\ periods[i].returned \in Int
    BY <2>1, <2>2, Lists
  <2>4. \A t \in Cuts : t \in Int
    BY <2>1, <2>2, Lists DEF Cuts
  <2>5. /\ s \in [start : Ends(periods[i], Cuts), end : Ends(periods[i], Cuts)]
        /\ s.start < s.end
        /\ \A t \in Ends(periods[i], Cuts) : ~(s.start < t /\ t < s.end)
    BY <1>3
  <2>6. /\ s.start \in Int /\ s.end \in Int
        /\ periods[i].start <= s.start /\ s.end <= periods[i].returned
    <3>1. \A t \in Ends(periods[i], Cuts) :
             t \in Int /\ periods[i].start <= t /\ t <= periods[i].returned
      BY <2>2, <2>3, <2>4 DEF Ends, Ordered
    <3>. QED BY <2>5, <3>1
  <2>7. s.start < periods[i].returned
    BY <2>3, <2>5, <2>6
  <2>8. s.start \in Seconds
    BY <2>3, <2>6, <2>7, BoundsAssumption DEF Period, Seconds
  <2>9. PICK k \in DOMAIN result : Covers(result[k], s.start)
    BY <2>1, <2>2, <2>6, <2>7, <2>8 DEF CoverInv
  <2>10. PICK j \in 1..Len(periods) :
           /\ result[k].start \in Ends(periods[j], Cuts)
           /\ result[k].end \in Ends(periods[j], Cuts)
           /\ periods[j].start <= result[k].start /\ result[k].end <= periods[j].returned
    BY <1>5, EndsAreBorders
  <2>11. /\ result[k].start \in Int /\ result[k].end \in Int
         /\ result[k].start <= s.start /\ s.start < result[k].end
         /\ periods[j].start \in Int /\ periods[j].returned \in Int
    BY <2>1, <2>2, <2>9, <2>10, Lists DEF Covers
  <2>12. periods[j].start <= s.start /\ s.start < periods[j].returned
    BY <2>6, <2>10, <2>11
  <2>13. i = j
    BY <2>2, <2>6, <2>7, <2>12, OnePeriod
  <2>14. /\ ~(result[k].start < s.start /\ s.start < result[k].end)
         /\ ~(result[k].start < s.end /\ s.end < result[k].end)
    BY <1>5, <2>5, <2>10, <2>13, NoBorderInside
  <2>15. ~(s.start < result[k].end /\ result[k].end < s.end)
    BY <2>5, <2>10, <2>13
  <2>16. s.start = result[k].start /\ s.end = result[k].end
    BY <2>5, <2>6, <2>11, <2>14, <2>15
  <2>. QED BY <2>5, <2>16
<1>6. PlanInv => SectionsAreCuts
  <2> SUFFICES ASSUME PlanInv, phase = "planned"
               PROVE  /\ made = SectionsOf({periods[i] : i \in DOMAIN periods},
                                           {s.end : s \in made})
                      /\ Len(result) <= Len(periods) + Len(allocations) - 1
    BY DEF SectionsAreCuts
  <2>1. made = {[start |-> result[k].start, end |-> result[k].end] : k \in DOMAIN result}
    OBVIOUS
  <2>2. SectionsOf({periods[i] : i \in DOMAIN periods}, Cuts)
          = UNION {Sections(periods[i], Cuts) : i \in DOMAIN periods}
    BY DEF SectionsOf
  <2> HIDE DEF made
  <2>3. made = SectionsOf({periods[i] : i \in DOMAIN periods}, Cuts)
    BY <1>4, <1>5, <2>1, <2>2
  <2>. QED BY <1>1, <1>2, <2>3
<1>. QED BY <1>6, PlanInvariance, PTL

-----------------------------------------------------------------------------
(* Ranks count the places one by one.                                      *)
LEMMA RankIs ==
    ASSUME NEW n \in Nat, NEW S \in SUBSET (1..n), NEW i \in 0..n
    PROVE  /\ IsFiniteSet(S) /\ Cardinality(S) \in Nat
           /\ Rank(i, S) \in 0..Cardinality(S)
           /\ Rank(n, S) = Cardinality(S) /\ Rank(0, S) = 0
<1>1. IsFiniteSet(1..n)
  BY FS_Interval
<1>2. IsFiniteSet(S)
  BY <1>1, FS_Subset
<1>3. Cardinality(S) \in Nat
  BY <1>2, FS_CardinalityType
<1>4. Rank(i, S) \in 0..Cardinality(S)
  <2> DEFINE T == {j \in S : j <= i}
  <2>1. T \subseteq S
    OBVIOUS
  <2>2. IsFiniteSet(T) /\ Cardinality(T) <= Cardinality(S)
    BY <1>2, <2>1, FS_Subset
  <2>3. Cardinality(T) \in Nat
    BY <2>2, FS_CardinalityType
  <2>. QED BY <1>3, <2>2, <2>3 DEF Rank
<1>5. Rank(n, S) = Cardinality(S)
  <2>1. \A j \in S : j <= n
    OBVIOUS
  <2>2. {j \in S : j <= n} = S
    BY <2>1, Zenon
  <2>. QED BY <2>2 DEF Rank
<1>6. Rank(0, S) = 0
  <2>1. \A j \in S : ~(j <= 0)
    OBVIOUS
  <2>2. {j \in S : j <= 0} = {}
    BY <2>1, Zenon
  <2>. QED BY <2>2, FS_EmptySet DEF Rank
<1>. QED BY <1>2, <1>3, <1>4, <1>5, <1>6

(* One place further, the rank is one more if that place is one of them.   *)
LEMMA RankStep ==
    ASSUME NEW n \in Nat, NEW S \in SUBSET (1..n), NEW i \in 0..(n - 1)
    PROVE  Rank(i + 1, S) = IF i + 1 \in S THEN Rank(i, S) + 1 ELSE Rank(i, S)
<1> DEFINE T == {j \in S : j <= i}
           U == {j \in S : j <= i + 1}
<1>1. IsFiniteSet(S)
  BY RankIs, i \in 0..n
<1>2. IsFiniteSet(T)
  BY <1>1, FS_Subset, T \subseteq S
<1>0. \A j \in S : (j <= i + 1) <=> (j <= i \/ j = i + 1)
  OBVIOUS
<1>3. CASE i + 1 \in S
  <2>1. i + 1 \notin T
    OBVIOUS
  <2>3. U = T \cup {i + 1}
    BY <1>0, <1>3, Zenon
  <2>2. Cardinality(T \cup {i + 1}) = Cardinality(T) + 1
    BY <1>2, <2>1, FS_AddElement
  <2>. QED BY <1>3, <2>2, <2>3 DEF Rank
<1>4. CASE i + 1 \notin S
  <2>1. U = T
    BY <1>0, <1>4, Zenon
  <2>. QED BY <1>4, <2>1 DEF Rank
<1>. QED BY <1>3, <1>4

(* They rise, and strictly at the places themselves.                       *)
LEMMA RankRises ==
    ASSUME NEW n \in Nat, NEW S \in SUBSET (1..n), NEW i \in 0..n, NEW j \in 0..n, i < j
    PROVE  /\ Rank(i, S) <= Rank(j, S)
           /\ j \in S => Rank(i, S) < Rank(j, S)
<1> DEFINE T == {k \in S : k <= i}
           U == {k \in S : k <= j}
<1>1. IsFiniteSet(S)
  BY RankIs
<1>2. IsFiniteSet(U)
  BY <1>1, FS_Subset, U \subseteq S
<1>3. T \subseteq U
  <2>1. \A k \in S : k <= i => k <= j
    OBVIOUS
  <2>. QED BY <2>1, Zenon
<1>4. IsFiniteSet(T) /\ Cardinality(T) <= Cardinality(U)
         /\ (Cardinality(T) = Cardinality(U) => T = U)
  BY <1>2, <1>3, FS_Subset
<1>5. Rank(i, S) = Cardinality(T) /\ Rank(j, S) = Cardinality(U)
  BY DEF Rank
<1>6. Cardinality(T) \in Nat /\ Cardinality(U) \in Nat
  BY <1>2, <1>4, FS_CardinalityType
<1>7. j \in S => j \in U /\ j \notin T
  OBVIOUS
<1> HIDE DEF T, U
<1>. QED BY <1>4, <1>5, <1>6, <1>7

(* Every number up to that of the places is the rank of one.               *)
LEMMA RankHits ==
    ASSUME NEW n \in Nat, NEW S \in SUBSET (1..n), NEW k \in 1..Cardinality(S)
    PROVE  \E i \in S : Rank(i, S) = k
<1> DEFINE V == {m \in 0..n : k <= Rank(m, S) => \E i \in S : Rank(i, S) = k}
<1>1. 0 \in V
  <2>1. Rank(0, S) = 0
    BY RankIs, 0 \in 0..n
  <2>. QED BY <2>1
<1>2. \A m \in 0..(n - 1) : m \in V => m + 1 \in V
  <2> SUFFICES ASSUME NEW m \in 0..(n - 1), m \in V, k <= Rank(m + 1, S)
               PROVE  \E i \in S : Rank(i, S) = k
    OBVIOUS
  <2>1. Rank(m, S) \in Nat
    BY RankIs, m \in 0..n
  <2>2. Rank(m + 1, S) = IF m + 1 \in S THEN Rank(m, S) + 1 ELSE Rank(m, S)
    BY RankStep
  <2>3. CASE k <= Rank(m, S)
    BY <2>3
  <2>4. CASE ~(k <= Rank(m, S))
    <3>1. m + 1 \in S
      BY <2>2, <2>4
    <3>2. Rank(m + 1, S) = k
      BY <2>1, <2>2, <2>4
    <3>. QED BY <3>1, <3>2
  <2>. QED BY <2>3, <2>4
<1>3. n \in V
  <2> HIDE DEF V
  <2>. QED BY <1>1, <1>2, Climb, 0 \in Nat, n \in 0..n
<1>4. Rank(n, S) = Cardinality(S) /\ Cardinality(S) \in Nat
  BY RankIs, n \in 0..n
<1>. QED BY <1>3, <1>4

(* Places and their numbers belong to each other, in order.                *)
LEMMA NthIs ==
    ASSUME NEW n \in Nat, NEW S \in SUBSET (1..n)
    PROVE  /\ \A k \in 1..Cardinality(S) : Nth(k, S) \in S /\ Rank(Nth(k, S), S) = k
           /\ \A i \in S : Rank(i, S) \in 1..Cardinality(S) /\ Nth(Rank(i, S), S) = i
           /\ \A k, l \in 1..Cardinality(S) : k < l => Nth(k, S) < Nth(l, S)
<1>1. ASSUME NEW k \in 1..Cardinality(S)
      PROVE  Nth(k, S) \in S /\ Rank(Nth(k, S), S) = k
  BY RankHits DEF Nth
<1>2. ASSUME NEW i \in S
      PROVE  Rank(i, S) \in 1..Cardinality(S)
  <2>1. Rank(i, S) \in 0..Cardinality(S) /\ Rank(0, S) = 0 /\ Cardinality(S) \in Nat
    BY RankIs, i \in 0..n
  <2>2. Rank(0, S) < Rank(i, S)
    BY RankRises, 0 \in 0..n, i \in 0..n, 0 < i
  <2>. QED BY <2>1, <2>2
<1>3. ASSUME NEW i \in S, NEW j \in S, Rank(i, S) = Rank(j, S)
      PROVE  i = j
  <2>1. i \in 0..n /\ j \in 0..n /\ Rank(i, S) \in Int
    BY RankIs
  <2>2. ~(i < j) /\ ~(j < i)
    BY <1>3, <2>1, RankRises
  <2>. QED BY <2>1, <2>2
<1>4. ASSUME NEW i \in S PROVE Nth(Rank(i, S), S) = i
  BY <1>1, <1>2, <1>3
<1>5. ASSUME NEW k \in 1..Cardinality(S), NEW l \in 1..Cardinality(S), k < l
      PROVE  Nth(k, S) < Nth(l, S)
  <2> DEFINE a == Nth(k, S)
             b == Nth(l, S)
  <2>1. a \in S /\ b \in S /\ Rank(a, S) = k /\ Rank(b, S) = l
    BY <1>1
  <2> HIDE DEF a, b
  <2>2. a \in 0..n /\ b \in 0..n /\ k \in Int /\ l \in Int
    BY <2>1
  <2>3. ~(b < a) /\ a # b
    <3>1. b < a => Rank(b, S) <= Rank(a, S)
      BY <2>2, RankRises
    <3>. QED BY <1>5, <2>1, <2>2, <3>1
  <2>4. a < b
    BY <2>2, <2>3
  <2>. QED BY <2>4 DEF a, b
<1>. QED BY <1>1, <1>2, <1>4, <1>5

(* What is left of a list keeps its order.                                 *)
Selects(q, s, kept) ==
    /\ Len(q) = Cardinality(kept) /\ Len(q) <= Len(s)
    /\ \A k \in DOMAIN q : Nth(k, kept) \in kept /\ q[k] = s[Nth(k, kept)]
    /\ \A i \in kept : \E k \in DOMAIN q : q[k] = s[i]
    /\ \A k, l \in DOMAIN q : k < l => Nth(k, kept) < Nth(l, kept)

(* What Without selects, for any list.                                     *)
LEMMA WithoutIs ==
    ASSUME NEW T, NEW s \in Seq(T), NEW out
    PROVE  Without(s, out) \in Seq(T) /\ Selects(Without(s, out), s, DOMAIN s \ out)
<1> SUFFICES ASSUME NEW q, q = Without(s, out), NEW kept, kept = DOMAIN s \ out
             PROVE  q \in Seq(T) /\ Selects(q, s, kept)
  OBVIOUS
<1> DEFINE n == Len(s)
           c == Cardinality(kept)
<1>1. n \in Nat /\ DOMAIN s = 1..n /\ kept \in SUBSET (1..n)
  OBVIOUS
<1>2. c \in Nat /\ c <= n
  <2>1. IsFiniteSet(1..n) /\ Cardinality(1..n) = n
    BY <1>1, FS_Interval
  <2>2. IsFiniteSet(kept) /\ Cardinality(kept) <= Cardinality(1..n)
    BY <1>1, <2>1, FS_Subset
  <2>. QED BY <2>1, <2>2, FS_CardinalityType
<1>3. q = [k \in 1..c |-> s[Nth(k, kept)]]
  BY DEF Without
<1>4. /\ \A k \in 1..c : Nth(k, kept) \in kept /\ Rank(Nth(k, kept), kept) = k
      /\ \A i \in kept : Rank(i, kept) \in 1..c /\ Nth(Rank(i, kept), kept) = i
      /\ \A k, l \in 1..c : k < l => Nth(k, kept) < Nth(l, kept)
  BY <1>1, NthIs
<1>5. \A k \in 1..c : s[Nth(k, kept)] \in T
  <2>1. \A i \in 1..n : s[i] \in T
    BY ElementOfSeq
  <2> HIDE DEF c, n
  <2>. QED BY <1>1, <1>4, <2>1
<1> HIDE DEF c, n
<1>6. q \in Seq(T) /\ Len(q) = c /\ DOMAIN q = 1..c
  <2>1. q \in [1..c -> T]
    BY <1>3, <1>5
  <2>2. q \in Seq(T) /\ DOMAIN q = 1..c
    BY <1>2, <2>1, SeqDef
  <2>3. DOMAIN q = 1..Len(q) /\ Len(q) \in Nat
    BY <2>2, LenProperties
  <2>. QED BY <1>2, <2>2, <2>3
<1>7. \A k \in DOMAIN q : q[k] = s[Nth(k, kept)]
  BY <1>3, <1>6
<1>8. \A i \in kept : \E k \in DOMAIN q : q[k] = s[i]
  <2> TAKE i \in kept
  <2>1. Rank(i, kept) \in DOMAIN q /\ Nth(Rank(i, kept), kept) = i
    BY <1>4, <1>6
  <2>. QED BY <1>7, <2>1
<1>. QED BY <1>2, <1>4, <1>6, <1>7, <1>8 DEF c, n, Selects

(* Taking messages away keeps the stack within its limit: what has no      *)
(* offer and is the newest of too many stays the newest.                   *)
LEMMA WithoutBounded ==
    ASSUME NEW T, NEW s \in Seq(T), NEW out, Bounded(s)
    PROVE  Bounded(Without(s, out))
<1>1. PICK q : q = Without(s, out)
  OBVIOUS
<1>2. PICK kept : kept = DOMAIN s \ out
  OBVIOUS
<1>3. /\ q \in Seq(T) /\ Len(q) <= Len(s)
      /\ \A k \in DOMAIN q : Nth(k, kept) \in kept /\ q[k] = s[Nth(k, kept)]
      /\ \A k, l \in DOMAIN q : k < l => Nth(k, kept) < Nth(l, kept)
  <2>1. Without(s, out) \in Seq(T) /\ Selects(Without(s, out), s, DOMAIN s \ out)
    BY WithoutIs
  <2>2. q \in Seq(T) /\ Selects(q, s, kept)
    BY <1>1, <1>2, <2>1
  <2>. QED BY <2>2 DEF Selects
<1>4. SUFFICES ASSUME Len(q) > MaxToasts, NEW k \in Plain(q), k # Len(q)
               PROVE  FALSE
  BY <1>1, <1>3 DEF Bounded
<1>5. DOMAIN q = 1..Len(q) /\ Len(q) \in Nat /\ DOMAIN s = 1..Len(s) /\ Len(s) \in Nat
  BY <1>3
<1>6. k \in DOMAIN q /\ k + 1 \in DOMAIN q /\ k < k + 1
  BY <1>4, <1>5 DEF Plain
<1>7. Nth(k, kept) \in DOMAIN s /\ Nth(k + 1, kept) \in DOMAIN s /\ Nth(k, kept) < Nth(k + 1, kept)
  BY <1>2, <1>3, <1>6
<1>8. Nth(k, kept) \in Plain(s)
  BY <1>3, <1>4, <1>6, <1>7 DEF Plain
<1>9. Len(s) > MaxToasts
  BY <1>3, <1>4, <1>5, StackAssumption
<1>10. Nth(k, kept) = Len(s)
  BY <1>8, <1>9 DEF Bounded
<1>. QED BY <1>5, <1>7, <1>10

(* Either there is room for one more, or only offers are left.             *)
LEMMA EvictMakesRoom ==
    ASSUME NEW T, NEW s \in Seq(T)
    PROVE  /\ Evict(s) \in Seq(T)
           /\ Len(Evict(s)) < MaxToasts \/ Plain(Evict(s)) = {}
<1> DEFINE P == Plain(s)
           n == Len(s)
           m == n + 1 - MaxToasts
           out == {i \in P : Rank(i, P) + MaxToasts <= n + 1}
<1>1. n \in Nat /\ DOMAIN s = 1..n /\ P \in SUBSET (1..n) /\ m \in Int
  BY StackAssumption DEF Plain
<1>2. PICK kept : kept = DOMAIN s \ out
  OBVIOUS
<1>3. PICK q : q = Without(s, out)
  OBVIOUS
<1>4. q = Evict(s)
  BY <1>3 DEF Evict
<1>5. /\ q \in Seq(T) /\ Len(q) = Cardinality(kept)
      /\ \A k \in DOMAIN q : Nth(k, kept) \in kept /\ q[k] = s[Nth(k, kept)]
  <2> HIDE DEF out
  <2>1. Without(s, out) \in Seq(T) /\ Selects(Without(s, out), s, DOMAIN s \ out)
    BY WithoutIs
  <2>2. q \in Seq(T) /\ Selects(q, s, kept)
    BY <1>2, <1>3, <2>1
  <2>. QED BY <2>2 DEF Selects
<1>6. Cardinality(P) \in Nat /\ \A i \in P : Rank(i, P) \in 1..Cardinality(P)
  <2> HIDE DEF P, n
  <2>1. Cardinality(P) \in Nat
    BY <1>1, RankIs, 0 \in 0..n
  <2>. QED BY <1>1, <2>1, NthIs
<1>7. CASE m <= 0
  <2>1. \A i \in P : ~(Rank(i, P) + MaxToasts <= n + 1)
    BY <1>1, <1>6, <1>7, StackAssumption
  <2>2. out = {}
    BY <2>1, Zenon
  <2>3. kept = 1..n
    BY <1>1, <1>2, <2>2
  <2>4. Cardinality(kept) = n
    <3> HIDE DEF n
    <3>. QED BY <1>1, <2>3, FS_Interval
  <2>5. Len(q) < MaxToasts
    BY <1>1, <1>5, <1>7, <2>4, StackAssumption
  <2>. QED BY <1>4, <1>5, <2>5
<1>8. CASE m >= Cardinality(P)
  <2>1. \A i \in P : Rank(i, P) + MaxToasts <= n + 1
    BY <1>1, <1>6, <1>8, StackAssumption
  <2>2. \A i \in kept : s[i].offer # NoOffer
    BY <1>2, <2>1 DEF Plain
  <2>3. Plain(q) = {}
    BY <1>5, <2>2 DEF Plain
  <2>. QED BY <1>4, <1>5, <2>3
<1>9. CASE 0 < m /\ m < Cardinality(P)
  <2>1. m \in 1..Cardinality(P)
    BY <1>1, <1>6, <1>9
  <2>2. PICK x \in P : Rank(x, P) = m
    BY <1>1, <2>1, RankHits
  <2>3. \A i \in P : (Rank(i, P) + MaxToasts <= n + 1) <=> i <= x
    <3> SUFFICES ASSUME NEW i \in P PROVE (Rank(i, P) <= m) <=> i <= x
      BY <1>1, <1>6, StackAssumption
    <3>1. i \in 0..n /\ x \in 0..n /\ Rank(i, P) \in Int
      BY <1>1, <1>6
    <3>2. i < x => Rank(i, P) <= Rank(x, P)
      BY <1>1, <3>1, RankRises
    <3>3. x < i => Rank(x, P) < Rank(i, P)
      BY <1>1, <3>1, RankRises
    <3>. HIDE DEF P, n, m
    <3>. QED BY <1>1, <2>2, <3>1, <3>2, <3>3
  <2>4. out = {i \in P : i <= x}
    BY <2>3, Zenon
  <2>5. Cardinality(out) = m
    BY <2>2, <2>4 DEF Rank
  <2>6. IsFiniteSet(1..n) /\ Cardinality(1..n) = n /\ out \subseteq 1..n
    <3>1. out \subseteq 1..n
      BY <1>1
    <3> HIDE DEF n, out
    <3>. QED BY <1>1, <3>1, FS_Interval
  <2>7. kept = (1..n) \ out /\ (1..n) \cap out = out
    BY <1>1, <1>2, <2>6
  <2>8. Cardinality(kept) = n - m
    <3> HIDE DEF n, out, m
    <3>1. Cardinality((1..n) \ out) = Cardinality(1..n) - Cardinality((1..n) \cap out)
      BY <2>6, FS_Difference
    <3>. QED BY <2>5, <2>6, <2>7, <3>1
  <2>9. Len(q) < MaxToasts
    BY <1>1, <1>5, <2>8, StackAssumption
  <2>. QED BY <1>4, <1>5, <2>9
<1>. QED BY <1>1, <1>6, <1>7, <1>8, <1>9

-----------------------------------------------------------------------------
(* Places counted in their order are numbered as Nth numbers them.         *)
Counts(e, c, K) ==
    /\ c \in Nat /\ e \in [1..c -> K]
    /\ \A k, l \in 1..c : k < l => e[k] < e[l]
    /\ \A i \in K : \E k \in 1..c : e[k] = i

(* Whatever counts the places in their order numbers them as Nth does.     *)
LEMMA CountsAsNth ==
    ASSUME NEW n \in Nat, NEW K \in SUBSET (1..n), NEW e, NEW c, Counts(e, c, K)
    PROVE  c = Cardinality(K) /\ \A k \in 1..c : Nth(k, K) = e[k]
<1>1. /\ c \in Nat /\ e \in [1..c -> K]
      /\ \A k, l \in 1..c : k < l => e[k] < e[l]
      /\ \A i \in K : \E k \in 1..c : e[k] = i
      /\ \A k \in 1..c : e[k] \in K /\ e[k] \in Int
  <2>1. /\ c \in Nat /\ e \in [1..c -> K]
        /\ \A k, l \in 1..c : k < l => e[k] < e[l]
        /\ \A i \in K : \E k \in 1..c : e[k] = i
    BY DEF Counts
  <2>2. \A k \in 1..c : e[k] \in K
    BY <2>1
  <2>3. \A i \in K : i \in Int
    OBVIOUS
  <2>. QED BY <2>1, <2>2, <2>3
<1>2. \A k, l \in 1..c : e[k] = e[l] => k = l
  <2> SUFFICES ASSUME NEW k \in 1..c, NEW l \in 1..c, e[k] = e[l], k # l PROVE FALSE
    OBVIOUS
  <2>1. k < l \/ l < k
    BY <1>1
  <2>. QED BY <1>1, <2>1
<1>3. c = Cardinality(K)
  <2>1. e \in Bijection(1..c, K)
    BY <1>1, <1>2 DEF Bijection, Injection, Surjection, IsInjective
  <2>2. IsFiniteSet(1..c) /\ Cardinality(1..c) = c
    BY <1>1, FS_Interval
  <2>. QED BY <2>1, <2>2, FS_Bijection DEF ExistsBijection
<1>4. ASSUME NEW k \in 1..c PROVE Rank(e[k], K) = k
  <2> DEFINE U == {j \in K : j <= e[k]}
             g == [m \in 1..k |-> e[m]]
  <2>1. \A m \in 1..k : m \in 1..c /\ e[m] \in K /\ e[m] <= e[k]
    <3> TAKE m \in 1..k
    <3>1. m \in 1..c /\ (m < k \/ m = k)
      BY <1>1
    <3>. QED BY <1>1, <3>1
  <2>2. \A j \in K : j <= e[k] => \E m \in 1..k : e[m] = j
    <3> SUFFICES ASSUME NEW j \in K, j <= e[k] PROVE \E m \in 1..k : e[m] = j
      OBVIOUS
    <3>1. PICK l \in 1..c : e[l] = j
      BY <1>1
    <3>2. ~(k < l)
      BY <1>1, <3>1
    <3>. QED BY <1>1, <3>1, <3>2
  <2>3. g \in [1..k -> U]
    BY <2>1
  <2>4. \A j \in U : \E m \in 1..k : g[m] = j
    BY <2>2
  <2>5. \A m, l \in 1..k : g[m] = g[l] => m = l
    BY <1>2, <2>1
  <2>6. ExistsBijection(1..k, U)
    <3> HIDE DEF g, U
    <3>1. g \in Bijection(1..k, U)
      BY <2>3, <2>4, <2>5 DEF Bijection, Injection, Surjection, IsInjective
    <3>. QED BY <3>1 DEF ExistsBijection
  <2>7. IsFiniteSet(1..k) /\ Cardinality(1..k) = k
    BY <1>1, FS_Interval
  <2>8. Cardinality(U) = k
    BY <2>6, <2>7, FS_Bijection
  <2>. QED BY <2>8 DEF Rank
<1>5. \A i \in K : Nth(Rank(i, K), K) = i
  BY NthIs
<1>. QED BY <1>1, <1>3, <1>4, <1>5

(* A list that takes the other places of another in their order is what    *)
(* Without makes of it.                                                    *)
LEMMA CountedOut ==
    ASSUME NEW T, NEW s \in Seq(T), NEW out, NEW q \in Seq(T), NEW e,
           Counts(e, Len(q), DOMAIN s \ out), \A k \in 1..Len(q) : q[k] = s[e[k]]
    PROVE  q = Without(s, out)
<1>1. PICK K : K = DOMAIN s \ out
  OBVIOUS
<1>2. Len(s) \in Nat /\ DOMAIN s = 1..Len(s) /\ K \in SUBSET (1..Len(s)) /\ Len(q) \in Nat
        /\ DOMAIN q = 1..Len(q)
  BY <1>1, LenProperties
<1>3. Len(q) = Cardinality(K) /\ \A k \in 1..Len(q) : Nth(k, K) = e[k]
  <2>1. PICK m \in Nat : m = Len(s)
    BY <1>2
  <2>2. PICK c \in Nat : c = Len(q)
    BY <1>2
  <2>3. Counts(e, c, K) /\ K \in SUBSET (1..m)
    BY <1>1, <1>2, <2>1, <2>2
  <2>4. c = Cardinality(K) /\ \A k \in 1..c : Nth(k, K) = e[k]
    <3>1. m \in Nat /\ K \in SUBSET (1..m)
      BY <2>1, <2>3
    <3>2. Counts(e, c, K)
      BY <2>3
    <3>3. \A f, d : Counts(f, d, K) => d = Cardinality(K) /\ \A k \in 1..d : Nth(k, K) = f[k]
      BY <3>1, CountsAsNth
    <3>. QED BY <3>2, <3>3
  <2>. QED BY <2>2, <2>4
<1>4. Without(s, out) = [k \in 1..Cardinality(K) |-> s[Nth(k, K)]]
  BY <1>1 DEF Without
<1>5. q = [k \in 1..Len(q) |-> q[k]]
  BY <1>2
<1>6. \A k \in 1..Len(q) : q[k] = s[Nth(k, K)]
  BY <1>3
<1>. QED BY <1>3, <1>4, <1>5, <1>6

(* Leaving out one place is what the slices before and after it make.      *)
LEMMA RemoveAtIs ==
    ASSUME NEW T, NEW s \in Seq(T), NEW i \in DOMAIN s
    PROVE  RemoveAt(s, i) = Without(s, {i})
<1>1. Len(s) \in Nat /\ DOMAIN s = 1..Len(s) /\ i \in 1..Len(s)
        /\ \A k \in 1..Len(s) : s[k] \in T
  BY LenProperties, ElementOfSeq
<1>2. PICK a : a = SubSeq(s, 1, i - 1)
  OBVIOUS
<1>3. PICK b : b = SubSeq(s, i + 1, Len(s))
  OBVIOUS
<1>4. a \in Seq(T) /\ Len(a) = i - 1 /\ \A k \in 1..(i - 1) : a[k] = s[k]
  <2>1. 1 \in Int /\ i - 1 \in Int /\ \A k \in 1..(i - 1) : s[k] \in T
    BY <1>1
  <2>2. a \in Seq(T) /\ Len(a) = (IF 1 <= i - 1 THEN (i - 1) - 1 + 1 ELSE 0)
          /\ \A k \in 1..((i - 1) - 1 + 1) : a[k] = s[1 + k - 1]
    BY <1>2, <2>1, SubSeqProperties
  <2>. QED BY <1>1, <2>2
<1>5. b \in Seq(T) /\ Len(b) = Len(s) - i /\ \A k \in 1..(Len(s) - i) : b[k] = s[i + k]
  <2>1. i + 1 \in Int /\ Len(s) \in Int /\ \A k \in (i + 1)..Len(s) : s[k] \in T
    BY <1>1
  <2>2. b \in Seq(T) /\ Len(b) = (IF i + 1 <= Len(s) THEN Len(s) - (i + 1) + 1 ELSE 0)
          /\ \A k \in 1..(Len(s) - (i + 1) + 1) : b[k] = s[(i + 1) + k - 1]
    BY <1>3, <2>1, SubSeqProperties
  <2>3. Len(b) = Len(s) - i
    BY <1>1, <2>2
  <2>4. \A k \in 1..(Len(s) - i) : k \in 1..(Len(s) - (i + 1) + 1) /\ (i + 1) + k - 1 = i + k
    BY <1>1
  <2>. QED BY <2>2, <2>3, <2>4
<1>6. PICK q : q = a \o b
  OBVIOUS
<1>7. q \in Seq(T) /\ Len(q) = Len(s) - 1
        /\ \A k \in 1..(Len(s) - 1) : q[k] = IF k <= i - 1 THEN a[k] ELSE b[k - (i - 1)]
  <2>1. q \in Seq(T) /\ Len(q) = Len(a) + Len(b)
          /\ \A k \in 1..(Len(a) + Len(b)) : q[k] = IF k <= Len(a) THEN a[k] ELSE b[k - Len(a)]
    BY <1>4, <1>5, <1>6, ConcatProperties
  <2>. QED BY <1>1, <1>4, <1>5, <2>1
<1> DEFINE e == [k \in 1..(Len(s) - 1) |-> IF k < i THEN k ELSE k + 1]
<1>8. \A k \in 1..(Len(s) - 1) : q[k] = s[e[k]]
  <2> TAKE k \in 1..(Len(s) - 1)
  <2>1. CASE k < i
    BY <1>1, <1>4, <1>7, <2>1
  <2>2. CASE ~(k < i)
    <3>1. k - (i - 1) \in 1..(Len(s) - i) /\ i + (k - (i - 1)) = k + 1 /\ ~(k <= i - 1)
      BY <1>1, <2>2
    <3>. QED BY <1>5, <1>7, <2>2, <3>1
  <2>. QED BY <2>1, <2>2
<1>9. Counts(e, Len(q), DOMAIN s \ {i})
  <2>1. Len(s) - 1 \in Nat /\ e \in [1..(Len(s) - 1) -> DOMAIN s \ {i}]
    BY <1>1
  <2>2. \A k, l \in 1..(Len(s) - 1) : k < l => e[k] < e[l]
    BY <1>1
  <2>3. \A j \in DOMAIN s \ {i} : \E k \in 1..(Len(s) - 1) : e[k] = j
    <3> TAKE j \in DOMAIN s \ {i}
    <3>1. CASE j < i
      BY <1>1, <3>1, j \in 1..(Len(s) - 1)
    <3>2. CASE ~(j < i)
      <4>1. j - 1 \in 1..(Len(s) - 1) /\ ~(j - 1 < i) /\ (j - 1) + 1 = j
        BY <1>1, <3>2
      <4>. QED BY <4>1
    <3>. QED BY <3>1, <3>2
  <2> HIDE DEF e
  <2>. QED BY <1>7, <2>1, <2>2, <2>3 DEF Counts
<1> HIDE DEF e
<1>10. q = Without(s, {i})
  <2>1. \A k \in 1..Len(q) : q[k] = s[e[k]]
    BY <1>7, <1>8
  <2>. QED BY <1>7, <1>9, <2>1, CountedOut
<1>. QED BY <1>2, <1>3, <1>6, <1>10 DEF RemoveAt

(* Nothing left out leaves the list as it is.                              *)
LEMMA WithoutNothing ==
    ASSUME NEW T, NEW s \in Seq(T)
    PROVE  Without(s, {}) = s
<1> DEFINE e == [k \in 1..Len(s) |-> k]
<1>1. Len(s) \in Nat /\ DOMAIN s = 1..Len(s)
  BY LenProperties
<1>2. Counts(e, Len(s), DOMAIN s \ {})
  BY <1>1 DEF Counts
<1>3. \A k \in 1..Len(s) : s[k] = s[e[k]]
  OBVIOUS
<1> HIDE DEF e
<1>. QED BY <1>2, <1>3, CountedOut

(* The first message without an offer, which findIndex finds.              *)
Oldest(s) == CHOOSE i \in Plain(s) : \A j \in Plain(s) : i <= j

(* The first message without an offer exists where there is one, and its   *)
(* rank is one.                                                            *)
LEMMA OldestIs ==
    ASSUME NEW T, NEW s \in Seq(T), Plain(s) # {}
    PROVE  /\ Oldest(s) \in Plain(s) /\ \A j \in Plain(s) : Oldest(s) <= j
           /\ Rank(Oldest(s), Plain(s)) = 1
<1>1. Plain(s) \in SUBSET (1..Len(s)) /\ Len(s) \in Nat
  BY LenProperties DEF Plain
<1>2. PICK P : P = Plain(s)
  OBVIOUS
<1>3. 1 \in 1..Cardinality(P)
  <2>1. PICK i \in P : TRUE
    BY <1>2
  <2>2. Rank(i, P) \in 1..Cardinality(P)
    BY <1>1, <1>2, NthIs
  <2>3. Cardinality(P) \in Nat
    BY <1>1, <1>2, RankIs, 0 \in 0..Len(s)
  <2>. QED BY <2>2, <2>3
<1>4. PICK i \in P : Rank(i, P) = 1
  BY <1>1, <1>2, <1>3, RankHits
<1>5. \A j \in P : i <= j
  <2> SUFFICES ASSUME NEW j \in P, ~(i <= j) PROVE FALSE
    OBVIOUS
  <2>1. i \in 0..Len(s) /\ j \in 0..Len(s) /\ j < i
    BY <1>1, <1>2
  <2>2. Rank(j, P) < Rank(i, P)
    BY <1>1, <1>2, <2>1, RankRises
  <2>3. Rank(j, P) \in 1..Cardinality(P)
    BY <1>1, <1>2, NthIs
  <2>4. Cardinality(P) \in Nat
    BY <1>1, <1>2, RankIs, 0 \in 0..Len(s)
  <2>. QED BY <1>4, <2>2, <2>3, <2>4
<1>6. Oldest(s) \in P /\ \A j \in P : Oldest(s) <= j
  BY <1>2, <1>5 DEF Oldest
<1>7. Oldest(s) = i
  BY <1>1, <1>2, <1>5, <1>6
<1>. QED BY <1>2, <1>4, <1>6, <1>7

(* One round of the loop takes one place off every rank.                   *)
LEMMA RanksFollow ==
    ASSUME NEW T, NEW s \in Seq(T), Plain(s) # {},
           NEW f, f = Oldest(s), NEW r, r = Without(s, {f}),
           NEW K, K = DOMAIN s \ {f}, NEW k \in Plain(r)
    PROVE  Nth(k, K) \in Plain(s) /\ Rank(Nth(k, K), Plain(s)) = Rank(k, Plain(r)) + 1
<1>1. Selects(r, s, K) /\ r \in Seq(T)
  <2>1. Without(s, {f}) \in Seq(T) /\ Selects(Without(s, {f}), s, DOMAIN s \ {f})
    BY WithoutIs
  <2>. QED BY <2>1
<1>2. f \in Plain(s) /\ \A j \in Plain(s) : f <= j
  BY OldestIs
<1>3. DOMAIN s = 1..Len(s) /\ Len(s) \in Nat /\ DOMAIN r = 1..Len(r) /\ Len(r) \in Nat
        /\ K \in SUBSET (1..Len(s)) /\ Len(r) = Cardinality(K)
  BY <1>1, LenProperties DEF Selects
<1>4. /\ \A j \in 1..Len(r) : Nth(j, K) \in K /\ r[j] = s[Nth(j, K)]
      /\ \A j, l \in 1..Len(r) : j < l => Nth(j, K) < Nth(l, K)
      /\ \A i \in K : \E j \in 1..Len(r) : Nth(j, K) = i
  <2>1. \A i \in K : Rank(i, K) \in 1..Len(r) /\ Nth(Rank(i, K), K) = i
    BY <1>3, NthIs
  <2>. QED BY <1>1, <1>3, <2>1 DEF Selects
<1>5. \A j \in 1..Len(r) : j \in Plain(r) <=> Nth(j, K) \in Plain(s)
  BY <1>3, <1>4 DEF Plain
<1>6. k \in 1..Len(r) /\ Nth(k, K) \in Plain(s)
  BY <1>3, <1>5 DEF Plain
<1>7. PICK y : y = Nth(k, K)
  OBVIOUS
<1>16. y \in Int /\ \A j \in 1..Len(r) : Nth(j, K) \in Int
  <2>1. \A i \in K : i \in Int
    BY <1>3
  <2>. QED BY <1>4, <1>6, <1>7, <2>1
<1> DEFINE U == {j \in Plain(r) : j <= k}
           V == {j \in Plain(s) : j <= y}
           g == [j \in U |-> Nth(j, K)]
<1>8. \A j \in U : j \in 1..Len(r) /\ Nth(j, K) \in V \ {f}
  <2> TAKE j \in U
  <2>1. j \in 1..Len(r) /\ j <= k
    BY <1>3 DEF Plain
  <2>2. Nth(j, K) \in Plain(s) /\ Nth(j, K) \in K
    BY <1>4, <1>5, <2>1
  <2>3. Nth(j, K) <= y
    <3>1. j < k \/ j = k
      BY <1>6, <2>1
    <3>2. j < k => Nth(j, K) < y
      BY <1>4, <1>6, <1>7, <2>1
    <3>3. Nth(j, K) \in Int
      BY <1>16, <2>1
    <3>4. CASE j = k
      BY <1>7, <3>3, <3>4
    <3>5. CASE j < k
      BY <1>16, <3>2, <3>3, <3>5
    <3>. QED BY <3>1, <3>4, <3>5
  <2>. QED BY <2>1, <2>2, <2>3
<1>9. \A i \in V \ {f} : \E j \in U : Nth(j, K) = i
  <2> TAKE i \in V \ {f}
  <2>1. i \in Plain(s) /\ i <= y /\ i \in K
    BY DEF Plain
  <2>2. PICK j \in 1..Len(r) : Nth(j, K) = i
    BY <1>4, <2>1
  <2>3. ~(k < j)
    <3>1. k < j => y < i
      BY <1>4, <1>6, <1>7, <2>2
    <3>2. i \in Int
      BY <1>16, <2>2
    <3>. QED BY <1>16, <2>1, <3>1, <3>2
  <2>4. j \in U
    <3>1. j \in Plain(r)
      BY <1>5, <2>1, <2>2
    <3>2. j <= k
      BY <1>6, <2>2, <2>3
    <3>. QED BY <3>1, <3>2
  <2>. QED BY <2>2, <2>4
<1>10. \A j, l \in U : Nth(j, K) = Nth(l, K) => j = l
  <2> SUFFICES ASSUME NEW j \in U, NEW l \in U, Nth(j, K) = Nth(l, K), j # l PROVE FALSE
    OBVIOUS
  <2>1. j \in 1..Len(r) /\ l \in 1..Len(r)
    BY <1>8
  <2>2. j < l \/ l < j
    BY <2>1
  <2>3. Nth(j, K) \in Int /\ Nth(l, K) = Nth(j, K)
    BY <1>16, <2>1
  <2>4. ~(Nth(j, K) < Nth(l, K)) /\ ~(Nth(l, K) < Nth(j, K))
    BY <2>3
  <2>. QED BY <1>4, <2>1, <2>2, <2>4
<1>11. IsFiniteSet(U) /\ IsFiniteSet(V)
  <2>1. IsFiniteSet(1..Len(r)) /\ IsFiniteSet(1..Len(s))
    BY <1>3, FS_Interval
  <2>2. U \subseteq 1..Len(r) /\ V \subseteq 1..Len(s)
    BY <1>3 DEF Plain
  <2> HIDE DEF U, V
  <2>. QED BY <2>1, <2>2, FS_Subset
<1>12. ExistsBijection(U, V \ {f})
  <2>1. g \in [U -> V \ {f}]
    BY <1>8
  <2>2. \A i \in V \ {f} : \E j \in U : g[j] = i
    BY <1>9
  <2>3. \A j, l \in U : g[j] = g[l] => j = l
    BY <1>10
  <2> HIDE DEF U, V, g
  <2>4. g \in Bijection(U, V \ {f})
    BY <2>1, <2>2, <2>3 DEF Bijection, Injection, Surjection, IsInjective
  <2>. QED BY <2>4 DEF ExistsBijection
<1>13. f \in V
  BY <1>2, <1>6, <1>7
<1>14. Cardinality(U) = Cardinality(V) - 1 /\ Cardinality(V) \in Nat
  <2> HIDE DEF U, V
  <2>1. Cardinality(V \ {f}) = Cardinality(U)
    BY <1>11, <1>12, FS_Bijection
  <2>2. Cardinality(V \ {f}) = Cardinality(V) - 1
    BY <1>11, <1>13, FS_RemoveElement
  <2>. QED BY <1>11, <2>1, <2>2, FS_CardinalityType
<1>15. Rank(k, Plain(r)) = Cardinality(U) /\ Rank(y, Plain(s)) = Cardinality(V)
  BY DEF Rank
<1> HIDE DEF U, V
<1>. QED BY <1>6, <1>7, <1>14, <1>15

(* The loop of evict: while there is no room, the oldest message without   *)
(* an offer goes; where only offers are left, none does.                   *)
THEOREM EvictIsTheLoop ==
    ASSUME NEW T, NEW s \in Seq(T)
    PROVE  Evict(s) = IF Len(s) < MaxToasts \/ Plain(s) = {}
                      THEN s
                      ELSE Evict(RemoveAt(s, Oldest(s)))
<1> DEFINE P == Plain(s)
           n == Len(s)
           out == {i \in P : Rank(i, P) + MaxToasts <= n + 1}
<1>1. n \in Nat /\ DOMAIN s = 1..n /\ P \in SUBSET (1..n)
  BY LenProperties DEF Plain
<1>2. \A i \in P : Rank(i, P) \in 1..Cardinality(P)
  <2> HIDE DEF P, n
  <2>. QED BY <1>1, NthIs
<1>3. Cardinality(P) \in Nat
  <2> HIDE DEF P, n
  <2>. QED BY <1>1, RankIs, 0 \in 0..n
<1>4. CASE n < MaxToasts \/ P = {}
  <2>1. \A i \in P : ~(Rank(i, P) + MaxToasts <= n + 1)
    BY <1>1, <1>2, <1>3, <1>4, StackAssumption
  <2>2. out = {}
    BY <2>1, Zenon
  <2>3. Evict(s) = s
    BY <2>2, WithoutNothing DEF Evict
  <2>. QED BY <1>4, <2>3
<1>5. CASE ~(n < MaxToasts \/ P = {})
  <2>1. PICK f : f = Oldest(s)
    OBVIOUS
  <2>2. f \in P /\ f \in DOMAIN s /\ Rank(f, P) = 1
    BY <1>1, <1>5, <2>1, OldestIs
  <2>3. PICK r : r = Without(s, {f})
    OBVIOUS
  <2>4. RemoveAt(s, f) = r
    BY <2>2, <2>3, RemoveAtIs
  <2>5. PICK K : K = DOMAIN s \ {f}
    OBVIOUS
  <2>6. r \in Seq(T) /\ Selects(r, s, K)
    <3>1. Without(s, {f}) \in Seq(T) /\ Selects(Without(s, {f}), s, DOMAIN s \ {f})
      BY WithoutIs
    <3>. QED BY <2>3, <2>5, <3>1
  <2>7. PICK out2 : out2 = {i \in Plain(r) : Rank(i, Plain(r)) + MaxToasts <= Len(r) + 1}
    OBVIOUS
  <2>8. PICK q : q = Without(r, out2)
    OBVIOUS
  <2>9. Evict(r) = q
    BY <2>7, <2>8 DEF Evict
  <2>10. PICK L : L = DOMAIN r \ out2
    OBVIOUS
  <2>11. q \in Seq(T) /\ Selects(q, r, L)
    <3>1. Without(r, out2) \in Seq(T) /\ Selects(Without(r, out2), r, DOMAIN r \ out2)
      BY <2>6, WithoutIs
    <3>. QED BY <2>8, <2>10, <3>1
  <2>12. /\ DOMAIN r = 1..Len(r) /\ Len(r) \in Nat /\ DOMAIN q = 1..Len(q) /\ Len(q) \in Nat
         /\ K \in SUBSET (1..n) /\ L \in SUBSET (1..Len(r))
    BY <1>1, <2>5, <2>6, <2>10, <2>11, LenProperties
  <2>13. Len(r) = n - 1
    <3>1. IsFiniteSet(1..n) /\ Cardinality(1..n) = n
      <4> HIDE DEF n, P
      <4>. QED BY <1>1, FS_Interval
    <3>2. Cardinality((1..n) \ {f}) = n - 1
      <4> HIDE DEF n, P
      <4>. QED BY <1>1, <2>2, <3>1, FS_RemoveElement
    <3>. QED BY <1>1, <2>5, <2>6, <3>2 DEF Selects
  <2>14. f \in out
    BY <1>1, <1>5, <2>2, StackAssumption
  <2>15. \A k \in 1..Len(r) : Nth(k, K) \in K /\ (k \in out2 <=> Nth(k, K) \in out)
    <3> TAKE k \in 1..Len(r)
    <3>1. Nth(k, K) \in K /\ r[k] = s[Nth(k, K)]
      BY <2>6, <2>12 DEF Selects
    <3>2. k \in Plain(r) <=> Nth(k, K) \in P
      BY <2>5, <2>12, <3>1 DEF Plain
    <3>3. ASSUME k \in Plain(r)
          PROVE  Rank(Nth(k, K), P) = Rank(k, Plain(r)) + 1
      BY <1>5, <2>1, <2>3, <2>5, <3>3, RanksFollow
    <3>4. ASSUME k \in Plain(r)
          PROVE  Rank(k, Plain(r)) \in Int
      <4>1. Plain(r) \in SUBSET (1..Len(r))
        BY <2>12 DEF Plain
      <4>2. Rank(k, Plain(r)) \in 0..Cardinality(Plain(r))
        BY <2>12, <4>1, RankIs, k \in 0..Len(r)
      <4>3. Cardinality(Plain(r)) \in Nat
        BY <2>12, <4>1, RankIs, 0 \in 0..Len(r)
      <4>. QED BY <4>2, <4>3
    <3>5. ASSUME k \in Plain(r)
          PROVE  (Rank(k, Plain(r)) + MaxToasts <= Len(r) + 1)
                   <=> (Rank(Nth(k, K), P) + MaxToasts <= n + 1)
      <4>1. PICK a : a = Rank(k, Plain(r))
        OBVIOUS
      <4>2. a \in Int /\ Rank(Nth(k, K), P) = a + 1
        BY <3>3, <3>4, <3>5, <4>1
      <4> HIDE DEF P, n
      <4>. QED BY <1>1, <2>12, <2>13, <4>1, <4>2, StackAssumption
    <3>. QED BY <2>7, <3>1, <3>2, <3>5
  <2> DEFINE e == [k \in 1..Len(q) |-> Nth(Nth(k, L), K)]
  <2>16. \A k \in 1..Len(q) : Nth(k, L) \in L /\ Nth(k, L) \in 1..Len(r)
                               /\ q[k] = r[Nth(k, L)]
    BY <2>11, <2>12 DEF Selects
  <2>17. \A k \in 1..Len(q) : q[k] = s[e[k]] /\ e[k] \in DOMAIN s \ out
    <3> TAKE k \in 1..Len(q)
    <3>1. PICK l \in 1..Len(r) : l = Nth(k, L)
      BY <2>16
    <3>2. l \in L /\ l \notin out2 /\ q[k] = r[l]
      BY <2>10, <2>16, <3>1
    <3>3. r[l] = s[Nth(l, K)]
      BY <2>6, <2>12 DEF Selects
    <3>4. Nth(l, K) \in K /\ Nth(l, K) \notin out
      BY <2>15, <3>2
    <3> HIDE DEF out
    <3>. QED BY <2>5, <3>1, <3>2, <3>3, <3>4
  <2>18. \A k, l \in 1..Len(q) : k < l => e[k] < e[l]
    <3> SUFFICES ASSUME NEW k \in 1..Len(q), NEW l \in 1..Len(q), k < l
                 PROVE  Nth(Nth(k, L), K) < Nth(Nth(l, L), K)
      OBVIOUS
    <3>1. Nth(k, L) < Nth(l, L)
      BY <2>11, <2>12 DEF Selects
    <3>2. Nth(k, L) \in DOMAIN r /\ Nth(l, L) \in DOMAIN r
      BY <2>12, <2>16
    <3>. QED BY <2>6, <3>1, <3>2 DEF Selects
  <2>19. \A i \in DOMAIN s \ out : \E k \in 1..Len(q) : e[k] = i
    <3> TAKE i \in DOMAIN s \ out
    <3>1. i \in K
      BY <2>5, <2>14
    <3>2. Rank(i, K) \in 1..Cardinality(K) /\ Nth(Rank(i, K), K) = i
      BY <1>1, <2>12, <3>1, NthIs
    <3>3. PICK l \in 1..Len(r) : Nth(l, K) = i
      BY <2>6, <3>2 DEF Selects
    <3>4. l \in L
      <4> HIDE DEF out
      <4>. QED BY <2>10, <2>12, <2>15, <3>3
    <3>5. Rank(l, L) \in 1..Cardinality(L) /\ Nth(Rank(l, L), L) = l
      BY <2>12, <3>4, NthIs
    <3>6. PICK k \in 1..Len(q) : Nth(k, L) = l
      BY <2>11, <3>5 DEF Selects
    <3>. QED BY <3>3, <3>6
  <2>20. Counts(e, Len(q), DOMAIN s \ out)
    <3>1. e \in [1..Len(q) -> DOMAIN s \ out]
      BY <2>17
    <3> HIDE DEF e, out
    <3>. QED BY <2>12, <2>18, <2>19, <3>1 DEF Counts
  <2>21. q = Without(s, out)
    <3> HIDE DEF e, out
    <3>. QED BY <2>11, <2>17, <2>20, CountedOut
  <2>22. Without(s, out) = Evict(s)
    BY DEF Evict
  <2>. QED BY <1>5, <2>1, <2>4, <2>9, <2>21, <2>22
<1>. QED BY <1>4, <1>5

-----------------------------------------------------------------------------
(* A stack in order: what a message has left and what it has had make up   *)
(* its life.                                                               *)
Offers   == Entries \cup {None, Elsewhere}
Messages == [offer : Offers, left : 0..Life, seen : 0..Life]

InOrder(s) ==
    /\ s \in Seq(Messages)
    /\ Bounded(s)
    /\ \A i \in Plain(s) : s[i].left + s[i].seen = Life

(* Taking any messages away (dismiss, evict) leaves the stack in order.    *)
LEMMA WithoutInOrder ==
    ASSUME NEW s, InOrder(s), NEW out
    PROVE  InOrder(Without(s, out))
<1>1. s \in Seq(Messages)
  BY DEF InOrder
<1>2. Without(s, out) \in Seq(Messages) /\ Selects(Without(s, out), s, DOMAIN s \ out)
  BY <1>1, WithoutIs
<1>3. Bounded(Without(s, out))
  BY <1>1, WithoutBounded DEF InOrder
<1>4. PICK q : q = Without(s, out)
  OBVIOUS
<1>5. \A k \in DOMAIN q : \E i \in DOMAIN s : q[k] = s[i]
  BY <1>2, <1>4 DEF Selects
<1>6. \A k \in Plain(q) : q[k].left + q[k].seen = Life
  BY <1>5 DEF InOrder, Plain
<1>. QED BY <1>2, <1>3, <1>4, <1>6 DEF InOrder

(* So does a new message with the room it makes.                           *)
LEMMA ShowInOrder ==
    ASSUME NEW s, InOrder(s), NEW offer \in Offers
    PROVE  InOrder(Show(s, offer))
<1>1. s \in Seq(Messages)
  BY DEF InOrder
<1>2. PICK q : q = Evict(s)
  OBVIOUS
<1>3. q \in Seq(Messages) /\ (Len(q) < MaxToasts \/ Plain(q) = {})
  BY <1>1, <1>2, EvictMakesRoom
<1>4. InOrder(q)
  BY <1>2, WithoutInOrder DEF Evict
<1>5. Toast(offer) \in Messages /\ Toast(offer).left + Toast(offer).seen = Life
  BY StackAssumption DEF Toast, Messages
<1>6. PICK r : r = Append(q, Toast(offer))
  OBVIOUS
<1>7. /\ r \in Seq(Messages) /\ Len(r) = Len(q) + 1 /\ Len(q) \in Nat
      /\ \A i \in 1..Len(q) : r[i] = q[i]
      /\ r[Len(q) + 1] = Toast(offer)
      /\ DOMAIN q = 1..Len(q) /\ DOMAIN r = 1..Len(r)
  BY <1>3, <1>5, <1>6, AppendProperties, LenProperties
<1>8. Bounded(r)
  <2> SUFFICES ASSUME Len(r) > MaxToasts, NEW k \in Plain(r), k # Len(r) PROVE FALSE
    BY DEF Bounded
  <2>1. Plain(q) = {}
    BY <1>3, <1>7, StackAssumption
  <2>2. k \in 1..Len(q)
    BY <1>7 DEF Plain
  <2>3. k \in Plain(q)
    BY <1>7, <2>2 DEF Plain
  <2>. QED BY <2>1, <2>3
<1>9. \A k \in Plain(r) : r[k].left + r[k].seen = Life
  <2> TAKE k \in Plain(r)
  <2>1. CASE k = Len(q) + 1
    BY <1>5, <1>7, <2>1
  <2>2. CASE k # Len(q) + 1
    <3>1. k \in 1..Len(q)
      BY <1>7, <2>2 DEF Plain
    <3>2. k \in Plain(q) /\ r[k] = q[k]
      BY <1>7, <3>1 DEF Plain
    <3>. QED BY <1>4, <3>2 DEF InOrder
  <2>. QED BY <2>1, <2>2
<1>. QED BY <1>2, <1>6, <1>7, <1>8, <1>9 DEF InOrder, Show

(* And so does time, as long as no message is overdue.                     *)
LEMMA OlderInOrder ==
    ASSUME NEW s, InOrder(s), Due(s) = {}
    PROVE  InOrder(Older(s))
<1>1. s \in Seq(Messages) /\ DOMAIN s = 1..Len(s) /\ Len(s) \in Nat
  BY LenProperties DEF InOrder
<1>2. PICK q : q = Older(s)
  OBVIOUS
<1>3. ASSUME NEW i \in DOMAIN s
      PROVE  /\ q[i] \in Messages /\ q[i].offer = s[i].offer
             /\ i \in Plain(s) => q[i].left + q[i].seen = Life
  <2>1. s[i] \in Messages
    BY <1>1, ElementOfSeq
  <2>2. CASE i \in Plain(s)
    <3>1. s[i].left # 0 /\ s[i].left + s[i].seen = Life
      BY <2>2 DEF InOrder, Due
    <3>2. q[i] = [s[i] EXCEPT !.left = @ - 1, !.seen = @ + 1]
      BY <1>2, <2>2 DEF Older
    <3>3. /\ s[i].offer \in Offers /\ s[i].left \in 0..Life /\ s[i].seen \in 0..Life
          /\ q[i].offer = s[i].offer /\ q[i].left = s[i].left - 1 /\ q[i].seen = s[i].seen + 1
          /\ q[i] = [offer |-> s[i].offer, left |-> s[i].left - 1, seen |-> s[i].seen + 1]
      BY <2>1, <3>2 DEF Messages
    <3>4. s[i].left - 1 \in 0..Life /\ s[i].seen + 1 \in 0..Life
      BY <3>1, <3>3, StackAssumption
    <3>. QED BY <3>1, <3>3, <3>4, StackAssumption DEF Messages
  <2>3. CASE i \notin Plain(s)
    BY <1>2, <2>1, <2>3 DEF Older
  <2>. QED BY <2>2, <2>3
<1>4. q \in [1..Len(s) -> Messages]
  BY <1>1, <1>2, <1>3 DEF Older
<1>5. q \in Seq(Messages) /\ DOMAIN q = 1..Len(s)
  BY <1>1, <1>4, SeqDef
<1>6. Len(q) = Len(s)
  BY <1>1, <1>5, LenProperties
<1>7. Plain(q) = Plain(s)
  BY <1>1, <1>3, <1>5 DEF Plain
<1>8. Bounded(q)
  BY <1>6, <1>7 DEF Bounded, InOrder
<1>9. \A i \in Plain(q) : q[i].left + q[i].seen = Life
  BY <1>3, <1>7 DEF Plain
<1>. QED BY <1>2, <1>5, <1>8, <1>9 DEF InOrder

(* What is not taken away is still there.                                  *)
StillIn(offer, s) == \E j \in DOMAIN s : s[j].offer = offer

(* The offer of a message that is not taken away.                          *)
LEMMA OthersStay ==
    ASSUME NEW T, NEW s \in Seq(T), NEW out, NEW i \in DOMAIN s \ out
    PROVE  StillIn(s[i].offer, Without(s, out))
<1>1. Selects(Without(s, out), s, DOMAIN s \ out)
  BY WithoutIs
<1>. QED BY <1>1 DEF Selects, StillIn

(* A new message takes no offer away, however many there are.              *)
LEMMA ShowKeepsOffers ==
    ASSUME NEW T, NEW s \in Seq(T), NEW i \in DOMAIN s, s[i].offer # NoOffer, NEW offer,
           Toast(offer) \in T
    PROVE  StillIn(s[i].offer, Show(s, offer))
<1>1. PICK q : q = Evict(s)
  OBVIOUS
<1>2. StillIn(s[i].offer, q) /\ q \in Seq(T)
  <2>1. i \notin Plain(s)
    BY DEF Plain
  <2> DEFINE out == {j \in Plain(s) : Rank(j, Plain(s)) + MaxToasts <= Len(s) + 1}
  <2>2. i \in DOMAIN s \ out
    BY <2>1
  <2>3. q = Without(s, out)
    BY <1>1 DEF Evict
  <2> HIDE DEF out
  <2>. QED BY <2>2, <2>3, OthersStay, WithoutIs
<1>3. PICK j \in DOMAIN q : q[j].offer = s[i].offer
  BY <1>2 DEF StillIn
<1>4. PICK r : r = Append(q, Toast(offer))
  OBVIOUS
<1>5. j \in DOMAIN r /\ r[j] = q[j]
  BY <1>2, <1>3, <1>4, AppendProperties, LenProperties
<1>. QED BY <1>1, <1>3, <1>4, <1>5 DEF Show, StillIn

-----------------------------------------------------------------------------
(* How a start that is to come is paid for: by the click it was asked for  *)
(* with.  Ids are given in order, so no ended entry has that of the one    *)
(* running.                                                                *)
Pending ==
    IF op.want # None /\ op.at \notin {"started", "reopened", "nostart"} THEN 1 ELSE 0

Counted ==
    /\ spent \in [starts : Nat, clicks : 0..Clicks, upsets : 0..Upsets]
    /\ spent.starts + Pending <= spent.clicks + spent.upsets
    /\ op.at = "starting" => op.want # None

Numbered ==
    /\ \A e \in booked : e.id <= spent.starts
    /\ running # None => running.id <= spent.starts /\ \A e \in booked : e.id # running.id

WebInv == TypeOK /\ Counted /\ Numbered /\ InOrder(stack)

(* What a step does to the stack.                                          *)
LEMMA StackChanges ==
    ASSUME WebInv, [Next]_vars
    PROVE  \/ stack' = stack
           \/ \E offer \in Offers : stack' = Show(stack, offer)
           \/ \E i \in DOMAIN stack :
                 stack' = Dismiss(stack, i) /\ (ClickUndo(i) \/ Close(i) \/ Expire(i))
           \/ Due(stack) = {} /\ stack' = Older(stack)
<1> DEFINE Goal ==
       \/ stack' = stack
       \/ \E offer \in Offers : stack' = Show(stack, offer)
       \/ \E i \in DOMAIN stack :
             stack' = Dismiss(stack, i) /\ (ClickUndo(i) \/ Close(i) \/ Expire(i))
       \/ Due(stack) = {} /\ stack' = Older(stack)
<1> SUFFICES Goal
  OBVIOUS
<1>0. op \in Ops /\ None \in Offers /\ Elsewhere \in Offers /\ op.made \in Offers
  BY DEF WebInv, TypeOK, Ops, Offers
<1>1. CASE User
  <2>1. CASE \E t \in Todos : ClickStart(t)
    BY <2>1 DEF ClickStart
  <2>2. CASE ClickStop \/ Confirm \/ Cancel
    BY <2>2 DEF ClickStop, Confirm, Cancel
  <2>3. CASE \E i \in DOMAIN stack : ClickUndo(i) \/ Close(i)
    <3>1. PICK i \in DOMAIN stack : ClickUndo(i) \/ Close(i)
      BY <2>3
    <3>2. stack' = Dismiss(stack, i)
      BY <3>1 DEF ClickUndo, Close
    <3>. QED BY <3>1, <3>2
  <2>. QED BY <1>1, <2>1, <2>2, <2>3 DEF User
<1>2. CASE Calls
  <2>1. CASE Look \/ CallStart \/ CallStop \/ Asked
    BY <2>1 DEF Look, CallStart, CallStop, Asked
  <2>2. CASE Started
    <3>1. stack' = Show(stack, IF op.at = "reopened" THEN op.made ELSE None)
      BY <2>2 DEF Started
    <3>2. PICK offer \in Offers : offer = IF op.at = "reopened" THEN op.made ELSE None
      BY <1>0
    <3>. QED BY <3>1, <3>2
  <2>3. CASE NotStarted \/ Stopped \/ Reported \/ AskEnd \/ NotStopped
    <3>1. stack' = stack \/ stack' = Show(stack, None)
      BY <2>3 DEF NotStarted, Stopped, Reported, AskEnd, NotStopped
    <3>. QED BY <1>0, <3>1
  <2>4. CASE \E u \in undos : UndoStop(u) \/ UndoDiscard(u) \/ UndoMark(u) \/ Undone(u)
    <3>1. stack' = stack \/ stack' = Show(stack, None)
      BY <2>4 DEF UndoStop, UndoDiscard, UndoMark, Undone
    <3>. QED BY <1>0, <3>1
  <2>. QED BY <1>2, <2>1, <2>2, <2>3, <2>4 DEF Calls
<1>3. CASE Network
  BY <1>3 DEF Network, LoseCall, LoseUndo, LoseRead
<1>4. CASE Other
  <2>1. CASE Message
    <3>1. PICK offer \in {None, Elsewhere} : stack' = Show(stack, offer)
      BY <2>1 DEF Message
    <3>. QED BY <1>0, <3>1
  <2>2. CASE ~Message
    BY <1>4, <2>2 DEF Other, OtherStart, OtherMark, OtherStop, OtherRemove
  <2>. QED BY <2>1, <2>2
<1>5. CASE Time
  <2>1. CASE Tick
    BY <2>1 DEF Tick
  <2>2. CASE \E i \in DOMAIN stack : Expire(i)
    <3>1. PICK i \in DOMAIN stack : Expire(i)
      BY <2>2
    <3>2. stack' = Dismiss(stack, i)
      BY <3>1 DEF Expire
    <3>. QED BY <3>1, <3>2
  <2>. QED BY <1>5, <2>1, <2>2 DEF Time
<1>6. CASE Poll \/ (\E s \in Slots : AnswerRead(s) \/ ShowRead(s)) \/ UNCHANGED vars
  BY <1>6 DEF Poll, AnswerRead, ShowRead, vars
<1>. QED BY <1>1, <1>2, <1>3, <1>4, <1>5, <1>6 DEF Next

(* The stack stays in order by every step.                                 *)
LEMMA StackStep ==
    ASSUME WebInv, [Next]_vars
    PROVE  InOrder(stack')
<1>1. InOrder(stack)
  BY DEF WebInv
<1>2. ASSUME NEW i, stack' = Dismiss(stack, i) PROVE InOrder(stack')
  BY <1>1, <1>2, WithoutInOrder DEF Dismiss
<1>3. ASSUME NEW offer \in Offers, stack' = Show(stack, offer) PROVE InOrder(stack')
  BY <1>1, <1>3, ShowInOrder
<1>4. ASSUME Due(stack) = {}, stack' = Older(stack) PROVE InOrder(stack')
  BY <1>1, <1>4, OlderInOrder
<1>. QED BY <1>1, <1>2, <1>3, <1>4, StackChanges

(* The types but for that of the stack.                                    *)
Typed ==
    /\ running \in Entries \cup {None}
    /\ booked \subseteq Entries
    /\ done \subseteq Todos
    /\ view \in Entries \cup {None}
    /\ reads \in [Slots -> Reads]
    /\ op \in Ops
    /\ undos \subseteq Undos

(* The type invariant in its parts.                                        *)
LEMMA TypesOf == TypeOK <=> Typed /\ running \notin booked
                            /\ \A i \in DOMAIN stack : stack[i].offer \in Offers
BY DEF TypeOK, Typed, Offers

(* What an operation becomes when nothing of the bounds is used.           *)
LEMMA SameCounts ==
    ASSUME WebInv, spent' = spent, op' \in Ops, op'.want \in {op.want, None},
           op.at \in {"started", "reopened", "nostart"} =>
              op'.at \in {"started", "reopened", "nostart"} \/ op'.want = None,
           op'.at = "starting" => op'.want # None
    PROVE  Counted'
BY DEF WebInv, Counted, Pending

(* Steps that leave the service alone leave its ids alone.                 *)
LEMMA ServiceSteps ==
    ASSUME WebInv, service' = service, spent'.starts = spent.starts
    PROVE  Numbered' /\ running' = running /\ booked' = booked /\ done' = done
BY DEF WebInv, Numbered, service

(* The end of the running entry.                                           *)
LEMMA StopStep ==
    ASSUME WebInv, StopEntry, spent'.starts = spent.starts
    PROVE  /\ running \in Entries /\ running' = None /\ booked' \subseteq Entries
           /\ Numbered'
<1>1. running \in Entries /\ booked \subseteq Entries /\ running' = None
  BY DEF WebInv, TypeOK, StopEntry
<1>2. \A e \in booked' : e \in booked \/ e = running
  BY DEF StopEntry
<1>. QED BY <1>1, <1>2 DEF WebInv, Numbered, StopEntry

(* A start is within the bounds, and its id is new.                        *)
LEMMA StartStep ==
    ASSUME WebInv, NEW t \in Todos, running = None, booked' = booked,
           running' = [id |-> spent.starts + 1, todo |-> t], spent'.starts = spent.starts + 1,
           spent.starts + 1 <= Clicks + Upsets
    PROVE  running' \in Entries /\ Numbered'
<1>1. spent.starts \in Nat
  BY DEF WebInv, Counted
<1>2. spent.starts + 1 \in 1..(Clicks + Upsets)
  BY <1>1, WindowAssumption
<1>3. running' \in Entries /\ running'.id = spent.starts + 1
  BY <1>2 DEF Entries
<1>4. \A e \in booked : e.id \in Int /\ e.id <= spent.starts
  BY DEF WebInv, TypeOK, Numbered, Entries
<1>5. \A e \in booked : e.id <= spent.starts + 1 /\ e.id # spent.starts + 1
  BY <1>1, <1>4
<1>. QED BY <1>1, <1>3, <1>5 DEF Numbered

(* Using some of the bounds never takes back what starts are paid with.    *)
LEMMA SpendStep ==
    ASSUME WebInv, NEW what \in {"clicks", "upsets"},
           Spend(what, IF what = "clicks" THEN Clicks ELSE Upsets), op' = op
    PROVE  Counted' /\ spent'.starts = spent.starts
<1>1. /\ spent \in [starts : Nat, clicks : 0..Clicks, upsets : 0..Upsets]
      /\ spent.starts + Pending <= spent.clicks + spent.upsets
      /\ op.at = "starting" => op.want # None
      /\ Pending \in {0, 1} /\ Pending' = Pending
  BY DEF WebInv, Counted, Pending
<1>2. CASE what = "clicks"
  <2>1. spent' = [starts |-> spent.starts, clicks |-> spent.clicks + 1, upsets |-> spent.upsets]
          /\ spent.clicks < Clicks
    BY <1>1, <1>2 DEF Spend
  <2>. QED BY <1>1, <2>1, WindowAssumption DEF Counted
<1>3. CASE what = "upsets"
  <2>1. spent' = [starts |-> spent.starts, clicks |-> spent.clicks, upsets |-> spent.upsets + 1]
          /\ spent.upsets < Upsets
    BY <1>1, <1>3 DEF Spend
  <2>. QED BY <1>1, <2>1, WindowAssumption DEF Counted
<1>. QED BY <1>2, <1>3

(* An operation goes on with the same wish, or is over.                    *)
GoesOn ==
    /\ op' \in Ops
    /\ op'.want \in {op.want, None}
    /\ op'.at = "starting" => op'.want # None

(* No operation is under way.                                              *)
LEMMA OpEnds == Idle \in Ops /\ Idle.want = None /\ Idle.at = "idle"
BY DEF Idle, Ops

(* An operation that takes its next step.                                  *)
LEMMA OpMoves ==
    ASSUME op \in Ops,
           NEW a \in {"idle", "looking", "noting", "choosing", "stopping", "stopped",
                      "reporting", "toolong", "nostop", "starting", "started",
                      "reopened", "asked", "nostart"},
           a = "starting" => op.want # None,
           NEW d \in BOOLEAN, NEW b \in BOOLEAN,
           op' = [at |-> a, want |-> op.want, made |-> op.made, dialog |-> d, second |-> b]
    PROVE  GoesOn
<1>2. op.want \in Todos \cup {None} /\ op.made \in Entries \cup {None}
  BY DEF Ops
<1>3. op' \in Ops
  BY <1>2 DEF Ops
<1>. QED BY <1>3 DEF GoesOn

(* performStop, from wherever it is called.                                *)
LEMMA PerformStopGoesOn ==
    ASSUME op \in Ops, op.at # "starting", PerformStop(op)
    PROVE  GoesOn
<1>1. op.dialog \in BOOLEAN /\ op.second \in BOOLEAN
  BY DEF Ops
<1>2. ASSUME op' = [op EXCEPT !.at = "stopping"] PROVE GoesOn
  <2>1. op' = [at |-> "stopping", want |-> op.want, made |-> op.made,
               dialog |-> op.dialog, second |-> op.second]
    BY <1>2 DEF Ops
  <2>. QED BY <1>1, <2>1, OpMoves
<1>3. ASSUME op.want # None, op' = [op EXCEPT !.at = "starting", !.second = TRUE] PROVE GoesOn
  <2>1. op' = [at |-> "starting", want |-> op.want, made |-> op.made,
               dialog |-> op.dialog, second |-> TRUE]
    BY <1>3 DEF Ops
  <2>. QED BY <1>1, <1>3, <2>1, OpMoves
<1>4. ASSUME op.want = None, op' = IF op.dialog THEN op ELSE Idle
      PROVE  GoesOn
  BY <1>4, OpEnds DEF GoesOn
<1>. QED BY <1>1, <1>2, <1>3, <1>4 DEF PerformStop

(* What the clicks of the user do to an operation.                         *)
LEMMA UserStep ==
    ASSUME WebInv, User
    PROVE  Typed' /\ Counted' /\ Numbered'
<1>0. TypeOK /\ op \in Ops /\ undos \subseteq Undos
  BY DEF WebInv, TypeOK
<1>1. ASSUME NEW t \in Todos, ClickStart(t) PROVE Typed' /\ Counted' /\ Numbered'
  <2>1. /\ op = Idle
        /\ op' = [at |-> "starting", want |-> t, made |-> None, dialog |-> FALSE, second |-> FALSE]
    BY <1>1 DEF ClickStart, Idle
  <2>2. op' \in Ops
    BY <2>1 DEF Ops
  <2>3. spent' = [spent EXCEPT !.clicks = @ + 1] /\ spent.clicks < Clicks
    BY <1>1 DEF ClickStart, Spend
  <2>4. Pending = 0 /\ Pending' = 1 /\ t # None
    BY <2>1, NoneAssumption DEF Pending, Idle
  <2>5. Counted'
    BY <2>1, <2>3, <2>4, WindowAssumption DEF WebInv, Counted
  <2>6. Numbered'
    BY <1>1, <2>3, ServiceSteps DEF ClickStart, WebInv, Counted
  <2>7. Typed'
    BY <1>0, <1>1, <2>2 DEF ClickStart, TypeOK, Typed, service
  <2>. QED BY <2>5, <2>6, <2>7
<1>2. ASSUME ClickStop PROVE Typed' /\ Counted' /\ Numbered'
  <2>1. /\ op = Idle
        /\ op' = [at |-> "looking", want |-> None, made |-> None, dialog |-> FALSE, second |-> FALSE]
    BY <1>2 DEF ClickStop, Idle
  <2>2. op' \in Ops
    BY <2>1 DEF Ops
  <2>3. spent' = [spent EXCEPT !.clicks = @ + 1] /\ spent.clicks < Clicks
    BY <1>2 DEF ClickStop, Spend
  <2>4. Pending = 0 /\ Pending' = 0
    BY <2>1 DEF Pending, Idle
  <2>5. Counted'
    BY <2>1, <2>3, <2>4, WindowAssumption DEF WebInv, Counted
  <2>6. Numbered'
    BY <1>2, <2>3, ServiceSteps DEF ClickStop, WebInv, Counted
  <2>7. Typed'
    BY <1>0, <1>2, <2>2 DEF ClickStop, TypeOK, Typed, service
  <2>. QED BY <2>5, <2>6, <2>7
<1>3. ASSUME Confirm \/ Cancel PROVE Typed' /\ Counted' /\ Numbered'
  <2>0. GoesOn /\ op.at \in {"noting", "choosing"}
    <3>1. CASE Confirm
      BY <1>0, <3>1, PerformStopGoesOn DEF Confirm
    <3>2. CASE Cancel
      BY <3>2, OpEnds DEF Cancel, GoesOn
    <3>. QED BY <1>3, <3>1, <3>2 DEF Confirm, Cancel
  <2>1. op' \in Ops /\ op'.want \in {op.want, None} /\ (op'.at = "starting" => op'.want # None)
          /\ op.at \in {"noting", "choosing"}
    BY <2>0 DEF GoesOn
  <2>2. Counted'
    BY <1>3, <2>1, SameCounts DEF Confirm, Cancel
  <2>3. Numbered'
    BY <1>3, ServiceSteps DEF Confirm, Cancel
  <2>4. Typed'
    BY <1>0, <1>3, <2>1 DEF Confirm, Cancel, TypeOK, Typed, service
  <2>. QED BY <2>2, <2>3, <2>4
<1>4. ASSUME NEW i \in DOMAIN stack, ClickUndo(i) PROVE Typed' /\ Counted' /\ Numbered'
  <2>1. stack[i].offer \in Entries
    BY <1>0, <1>4 DEF TypeOK, ClickUndo
  <2>2. undos' \subseteq Undos
    BY <1>0, <1>4, <2>1 DEF ClickUndo, Undos
  <2>3. Counted'
    BY <1>0, <1>4, SameCounts DEF ClickUndo, WebInv, Counted
  <2>4. Numbered'
    BY <1>4, ServiceSteps DEF ClickUndo
  <2>5. Typed'
    BY <1>0, <1>4, <2>2 DEF ClickUndo, TypeOK, Typed, service
  <2>. QED BY <2>3, <2>4, <2>5
<1>5. ASSUME NEW i \in DOMAIN stack, Close(i) PROVE Typed' /\ Counted' /\ Numbered'
  <2>1. Counted' /\ spent'.starts = spent.starts
    BY <1>5, SpendStep DEF Close
  <2>2. Numbered'
    BY <1>5, <2>1, ServiceSteps DEF Close
  <2>3. Typed'
    BY <1>0, <1>5 DEF Close, TypeOK, Typed, service
  <2>. QED BY <2>1, <2>2, <2>3
<1>. QED BY <1>1, <1>2, <1>3, <1>4, <1>5 DEF User

(* A question for the timer is sent where none is under way.               *)
LEMMA RefreshTyped ==
    ASSUME TypeOK, Refresh
    PROVE  reads' \in [Slots -> Reads]
BY DEF TypeOK, Refresh, Reads

(* What the calls of an operation do.                                      *)
LEMMA CallStep ==
    ASSUME WebInv,
           \/ Look \/ CallStart \/ CallStop \/ Started
           \/ Asked \/ NotStarted
           \/ Stopped \/ Reported \/ AskEnd \/ NotStopped
    PROVE  Typed' /\ Counted' /\ Numbered'
<1>0. TypeOK /\ op \in Ops
  BY DEF WebInv, TypeOK
<1>1. ASSUME Look \/ Asked PROVE Typed' /\ Counted' /\ Numbered'
  <2>0. GoesOn /\ op.at \in {"looking", "asked"}
    <3>1. op.at \in {"looking", "asked"}
      BY <1>1 DEF Look, Asked
    <3>2. CASE PerformStop(op)
      BY <1>0, <3>1, <3>2, PerformStopGoesOn
    <3>3. ASSUME NEW a \in {"noting", "choosing"}, op' = [op EXCEPT !.at = a, !.dialog = TRUE]
          PROVE  GoesOn
      <4>1. op' = [at |-> a, want |-> op.want, made |-> op.made,
                   dialog |-> TRUE, second |-> op.second]
              /\ op.second \in BOOLEAN
        BY <1>0, <3>3 DEF Ops
      <4>. QED BY <1>0, <4>1, OpMoves
    <3>. QED BY <1>1, <3>1, <3>2, <3>3 DEF Look, Asked
  <2>1. op' \in Ops /\ op'.want \in {op.want, None} /\ (op'.at = "starting" => op'.want # None)
          /\ op.at \in {"looking", "asked"}
    BY <2>0 DEF GoesOn
  <2>2. Counted'
    BY <1>1, <2>1, SameCounts DEF Look, Asked
  <2>3. Numbered'
    BY <1>1, ServiceSteps DEF Look, Asked
  <2>4. Typed'
    BY <1>0, <1>1, <2>1 DEF Look, Asked, TypeOK, Typed, service
  <2>. QED BY <2>2, <2>3, <2>4
<1>2. ASSUME CallStart PROVE Typed' /\ Counted' /\ Numbered'
  <2>1. CASE running # None
    <3>1. op' = [op EXCEPT !.at = "asked"] /\ UNCHANGED <<service, spent, view, reads, undos, stack>>
      BY <1>2, <2>1 DEF CallStart
    <3>2. op' \in Ops /\ op'.want = op.want /\ op'.at = "asked" /\ op.at = "starting"
      BY <1>0, <1>2, <3>1 DEF CallStart, Ops
    <3>3. Counted'
      BY <3>1, <3>2, SameCounts
    <3>4. Numbered'
      BY <3>1, ServiceSteps
    <3>. QED BY <1>0, <3>1, <3>2, <3>3, <3>4 DEF TypeOK, Typed, service
  <2>2. CASE running = None
    <3>1. /\ StartEntry(op.want) /\ booked' = booked /\ op.at = "starting"
          /\ op' = [op EXCEPT !.at = IF op.want \in done THEN "reopened" ELSE "started",
                             !.made = running']
          /\ UNCHANGED <<view, reads, undos, stack>>
      BY <1>2, <2>2 DEF CallStart
    <3>2. op.want \in Todos
      BY <1>0, <3>1 DEF WebInv, Counted, Ops
    <3>3. Pending = 1
      BY <3>1, <3>2, NoneAssumption DEF Pending
    <3>4. /\ spent.starts \in Nat /\ spent.starts + 1 <= spent.clicks + spent.upsets
          /\ spent.clicks \in 0..Clicks /\ spent.upsets \in 0..Upsets
          /\ spent' = [starts |-> spent.starts + 1, clicks |-> spent.clicks, upsets |-> spent.upsets]
      BY <3>1, <3>3 DEF WebInv, Counted, StartEntry
    <3>5. spent.starts + 1 <= Clicks + Upsets
      BY <3>4, WindowAssumption
    <3>6. running' \in Entries /\ Numbered'
      BY <2>2, <3>1, <3>2, <3>4, <3>5, StartStep DEF StartEntry
    <3>7. op' \in Ops /\ op'.at \in {"started", "reopened"}
      BY <1>0, <3>1, <3>6 DEF Ops
    <3>8. Counted'
      <4>1. Pending' = 0
        BY <3>7 DEF Pending
      <4>. QED BY <3>4, <3>7, <4>1 DEF Counted
    <3>. QED BY <1>0, <3>1, <3>6, <3>7, <3>8 DEF TypeOK, Typed, StartEntry
  <2>. QED BY <2>1, <2>2
<1>3. ASSUME CallStop PROVE Typed' /\ Counted' /\ Numbered'
  <2>1. op' \in Ops /\ op'.want = op.want /\ op'.at \in {"stopped", "toolong", "nostop"}
          /\ op.at = "stopping"
    BY <1>0, <1>3 DEF CallStop, Ops
  <2>2. spent' = spent /\ UNCHANGED <<done, view, reads, undos>>
    BY <1>3 DEF CallStop
  <2>3. Counted'
    BY <2>1, <2>2, SameCounts
  <2>4. CASE StopEntry
    <3>1. running' = None /\ booked' \subseteq Entries /\ Numbered'
      BY <2>2, <2>4, StopStep
    <3>. QED BY <1>0, <2>1, <2>2, <2>3, <3>1 DEF TypeOK, Typed
  <2>5. CASE ~StopEntry
    <3>1. service' = service
      BY <1>3, <2>2, <2>5 DEF CallStop, service
    <3>2. Numbered'
      BY <2>2, <3>1, ServiceSteps
    <3>. QED BY <1>0, <2>1, <2>2, <2>3, <3>1, <3>2 DEF TypeOK, Typed, service
  <2>. QED BY <2>4, <2>5
<1>4. ASSUME Started \/ NotStarted PROVE Typed' /\ Counted' /\ Numbered'
  <2>1. op' = Idle /\ UNCHANGED <<service, view, undos, spent>> /\ (Refresh \/ reads' = reads)
    BY <1>4 DEF Started, NotStarted
  <2>2. op' \in Ops /\ op'.want = None /\ op'.at = "idle"
    BY <2>1 DEF Idle, Ops
  <2>3. Counted' /\ Numbered'
    BY <2>1, <2>2, SameCounts, ServiceSteps
  <2>4. reads' \in [Slots -> Reads]
    BY <1>0, <2>1, RefreshTyped DEF TypeOK
  <2>. QED BY <1>0, <2>1, <2>2, <2>3, <2>4 DEF TypeOK, Typed, service
<1>5. ASSUME Stopped \/ Reported \/ AskEnd \/ NotStopped
      PROVE  Typed' /\ Counted' /\ Numbered'
  <2>1. UNCHANGED <<service, undos, spent>> /\ (Refresh \/ reads' = reads) /\ view' \in {view, None}
    BY <1>5 DEF Stopped, Reported, AskEnd, NotStopped
  <2>0. GoesOn
    <3>1. CASE op' = Idle
      BY <3>1, OpEnds DEF GoesOn
    <3>2. ASSUME NEW a \in {"noting", "choosing", "reporting"}, op' = [op EXCEPT !.at = a]
          PROVE  GoesOn
      <4>1. op' = [at |-> a, want |-> op.want, made |-> op.made,
                   dialog |-> op.dialog, second |-> op.second]
              /\ op.dialog \in BOOLEAN /\ op.second \in BOOLEAN
        BY <1>0, <3>2 DEF Ops
      <4>. QED BY <1>0, <4>1, OpMoves
    <3>3. ASSUME op.want # None,
                 op' = [op EXCEPT !.at = "starting", !.dialog = FALSE, !.second = TRUE]
          PROVE  GoesOn
      <4>1. op' = [at |-> "starting", want |-> op.want, made |-> op.made,
                   dialog |-> FALSE, second |-> TRUE]
        BY <1>0, <3>3 DEF Ops
      <4>. QED BY <1>0, <3>3, <4>1, OpMoves
    <3>4. ASSUME NEW a \in {"noting", "choosing"}, op' = [op EXCEPT !.at = a, !.dialog = TRUE]
          PROVE  GoesOn
      <4>1. op' = [at |-> a, want |-> op.want, made |-> op.made,
                   dialog |-> TRUE, second |-> op.second]
              /\ op.second \in BOOLEAN
        BY <1>0, <3>4 DEF Ops
      <4>. QED BY <1>0, <4>1, OpMoves
    <3>5. GoOn => GoesOn
      BY <3>1, <3>3 DEF GoOn
    <3>. QED BY <1>5, <3>1, <3>2, <3>4, <3>5 DEF Stopped, Reported, AskEnd, NotStopped
  <2>2. op' \in Ops /\ op'.want \in {op.want, None} /\ (op'.at = "starting" => op'.want # None)
          /\ op.at \in {"stopped", "reporting", "toolong", "nostop"}
    BY <1>5, <2>0 DEF GoesOn, Stopped, Reported, AskEnd, NotStopped
  <2>3. Counted' /\ Numbered'
    BY <2>1, <2>2, SameCounts, ServiceSteps
  <2>4. reads' \in [Slots -> Reads]
    BY <1>0, <2>1, RefreshTyped DEF TypeOK
  <2>. QED BY <1>0, <2>1, <2>2, <2>3, <2>4 DEF TypeOK, Typed, service
<1>. QED BY <1>1, <1>2, <1>3, <1>4, <1>5

(* What an undo does, and what is lost on the way.                         *)
LEMMA UndoStep ==
    ASSUME WebInv, NEW u \in undos,
           UndoStop(u) \/ UndoDiscard(u) \/ UndoMark(u) \/ Undone(u) \/ LoseUndo(u)
    PROVE  Typed' /\ Counted' /\ Numbered'
<1>0. TypeOK /\ op \in Ops /\ undos \subseteq Undos /\ u \in Undos /\ op' = op
  BY DEF WebInv, TypeOK, UndoStop, UndoDiscard, UndoMark, Undone, LoseUndo
<1>1. spent' = spent => Counted'
  BY <1>0 DEF WebInv, Counted, Pending
<1>2. ASSUME NEW a \in {"stop", "discard", "mark", "marked", "failed"}, Advance(u, [u EXCEPT !.at = a])
      PROVE  undos' \subseteq Undos
  <2>1. [u EXCEPT !.at = a] \in Undos
    BY <1>0 DEF Undos
  <2>. QED BY <1>0, <1>2, <2>1 DEF Advance
<1>3. ASSUME UndoStop(u) PROVE Typed' /\ Counted' /\ Numbered'
  <2>1. UNCHANGED <<done, view, reads, op, stack, spent>>
    BY <1>3 DEF UndoStop
  <2>2. CASE StopEntry
    <3>1. running \in Entries /\ running' = None /\ booked' \subseteq Entries /\ Numbered'
      BY <2>1, <2>2, StopStep
    <3>2. PICK a \in {"discard", "mark"} : Advance(u, [u EXCEPT !.at = a, !.stopped = running])
      BY <1>3, <2>2, <3>1 DEF UndoStop, StopEntry
    <3>3. [u EXCEPT !.at = a, !.stopped = running] \in Undos
      BY <1>0, <3>1 DEF Undos
    <3>4. undos' \subseteq Undos
      BY <1>0, <3>2, <3>3 DEF Advance
    <3>. QED BY <1>0, <1>1, <2>1, <3>1, <3>4 DEF TypeOK, Typed
  <2>3. CASE ~StopEntry
    <3>1. service' = service /\ Advance(u, [u EXCEPT !.at = "failed"])
      BY <1>3, <2>1, <2>3 DEF UndoStop, service
    <3>2. undos' \subseteq Undos
      BY <1>2, <3>1
    <3>3. Numbered'
      BY <2>1, <3>1, ServiceSteps
    <3>. QED BY <1>0, <1>1, <2>1, <3>1, <3>2, <3>3 DEF TypeOK, Typed, service
  <2>. QED BY <2>2, <2>3
<1>4. ASSUME UndoDiscard(u) PROVE Typed' /\ Counted' /\ Numbered'
  <2>1. undos' \subseteq Undos
    BY <1>2, <1>4 DEF UndoDiscard
  <2>2. booked' \subseteq booked /\ UNCHANGED <<running, done, view, reads, op, stack, spent>>
    BY <1>4 DEF UndoDiscard
  <2>3. Numbered'
    BY <2>2 DEF WebInv, Numbered
  <2>. QED BY <1>0, <1>1, <2>1, <2>2, <2>3 DEF TypeOK, Typed
<1>5. ASSUME UndoMark(u) PROVE Typed' /\ Counted' /\ Numbered'
  <2>1. undos' \subseteq Undos
    BY <1>2, <1>5 DEF UndoMark
  <2>2. done' = done \cup {u.of.todo} /\ UNCHANGED <<running, booked, view, reads, op, stack, spent>>
    BY <1>5 DEF UndoMark
  <2>3. u.of.todo \in Todos
    BY <1>0 DEF Undos, Entries
  <2>4. Numbered'
    BY <2>2 DEF WebInv, Numbered
  <2>. QED BY <1>0, <1>1, <2>1, <2>2, <2>3, <2>4 DEF TypeOK, Typed
<1>6. ASSUME Undone(u) PROVE Typed' /\ Counted' /\ Numbered'
  <2>1. undos' \subseteq Undos /\ UNCHANGED <<service, view, op, spent>> /\ Refresh
    BY <1>0, <1>6 DEF Undone
  <2>2. reads' \in [Slots -> Reads]
    BY <1>0, <2>1, RefreshTyped
  <2>3. Numbered'
    BY <2>1, ServiceSteps
  <2>. QED BY <1>0, <1>1, <2>1, <2>2, <2>3 DEF TypeOK, Typed, service
<1>7. ASSUME LoseUndo(u) PROVE Typed' /\ Counted' /\ Numbered'
  <2>1. undos' \subseteq Undos
    BY <1>2, <1>7 DEF LoseUndo
  <2>2. Spend("upsets", Upsets) /\ UNCHANGED <<service, view, reads, op, stack>>
    BY <1>7 DEF LoseUndo
  <2>3. Counted' /\ spent'.starts = spent.starts
    BY <2>2, SpendStep
  <2>4. Numbered'
    BY <2>2, <2>3, ServiceSteps
  <2>. QED BY <1>0, <2>1, <2>2, <2>3, <2>4 DEF TypeOK, Typed, service
<1>. QED BY <1>3, <1>4, <1>5, <1>6, <1>7

(* A call or a read that is lost.                                          *)
LEMMA NetworkStep ==
    ASSUME WebInv, LoseCall \/ \E s \in Slots : LoseRead(s)
    PROVE  Typed' /\ Counted' /\ Numbered'
<1>0. TypeOK /\ op \in Ops
  BY DEF WebInv, TypeOK
<1>1. ASSUME LoseCall PROVE Typed' /\ Counted' /\ Numbered'
  <2>1. /\ op' = [op EXCEPT !.at = IF @ \in {"stopping", "stopped", "reporting"}
                                   THEN "nostop" ELSE "nostart"]
        /\ op.at \in {"looking", "stopping", "starting", "stopped", "reporting",
                      "started", "reopened"}
        /\ spent' = [spent EXCEPT !.upsets = @ + 1] /\ spent.upsets < Upsets
        /\ UNCHANGED <<service, view, reads, undos, stack>>
    BY <1>1 DEF LoseCall, Spend
  <2>2. op' \in Ops /\ op'.want = op.want /\ op'.at \in {"nostop", "nostart"}
          /\ (op.at \in {"started", "reopened"} => op'.at = "nostart")
    BY <1>0, <2>1 DEF Ops
  <2>3. Pending \in {0, 1} /\ Pending' \in {0, 1} /\ Pending' <= Pending
    BY <2>1, <2>2 DEF Pending
  <2>4. Counted'
    BY <2>1, <2>2, <2>3, WindowAssumption DEF WebInv, Counted
  <2>5. Numbered'
    BY <2>1, ServiceSteps DEF WebInv, Counted
  <2>. QED BY <1>0, <2>1, <2>2, <2>4, <2>5 DEF TypeOK, Typed, service
<1>2. ASSUME NEW s \in Slots, LoseRead(s) PROVE Typed' /\ Counted' /\ Numbered'
  <2>1. Spend("upsets", Upsets) /\ UNCHANGED <<service, view, op, undos, stack>>
    BY <1>2 DEF LoseRead
  <2>2. reads' \in [Slots -> Reads]
    BY <1>0, <1>2 DEF LoseRead, TypeOK, Reads
  <2>3. Counted' /\ spent'.starts = spent.starts
    BY <2>1, SpendStep
  <2>4. Numbered'
    BY <2>1, <2>3, ServiceSteps
  <2>. QED BY <1>0, <2>1, <2>2, <2>3, <2>4 DEF TypeOK, Typed, service
<1>. QED BY <1>1, <1>2

(* What other clients do.                                                  *)
LEMMA OtherStep ==
    ASSUME WebInv, Other
    PROVE  Typed' /\ Counted' /\ Numbered'
<1>0. TypeOK
  BY DEF WebInv
<1>1. ASSUME NEW t \in Todos, OtherStart(t) PROVE Typed' /\ Counted' /\ Numbered'
  <2>1. /\ spent.starts \in Nat /\ spent.starts + Pending <= spent.clicks + spent.upsets
        /\ spent.clicks \in 0..Clicks /\ spent.upsets \in 0..Upsets /\ spent.upsets < Upsets
        /\ spent' = [starts |-> spent.starts + 1, clicks |-> spent.clicks, upsets |-> spent.upsets + 1]
        /\ Pending \in {0, 1} /\ Pending' = Pending /\ op' = op
        /\ (op.at = "starting" => op.want # None)
    BY <1>1 DEF OtherStart, WebInv, Counted, Pending
  <2>2. Counted'
    BY <2>1, WindowAssumption DEF Counted
  <2>3. spent.starts + 1 <= Clicks + Upsets
    BY <2>1, WindowAssumption
  <2>4. running' \in Entries /\ Numbered'
    BY <1>1, <2>1, <2>3, StartStep DEF OtherStart
  <2>. QED BY <1>0, <1>1, <2>2, <2>4 DEF OtherStart, TypeOK, Typed
<1>2. ASSUME NEW t \in Todos, OtherMark(t) PROVE Typed' /\ Counted' /\ Numbered'
  <2>1. Spend("upsets", Upsets) /\ UNCHANGED <<running, booked, view, reads, op, undos, stack>>
          /\ done' \subseteq Todos
    BY <1>0, <1>2 DEF OtherMark, TypeOK
  <2>2. Counted' /\ spent'.starts = spent.starts
    BY <2>1, SpendStep
  <2>3. Numbered'
    BY <2>1, <2>2 DEF WebInv, Numbered
  <2>. QED BY <1>0, <2>1, <2>2, <2>3 DEF TypeOK, Typed
<1>3. ASSUME OtherStop PROVE Typed' /\ Counted' /\ Numbered'
  <2>1. Spend("upsets", Upsets) /\ StopEntry /\ UNCHANGED <<done, view, reads, op, undos, stack>>
    BY <1>3 DEF OtherStop
  <2>2. Counted' /\ spent'.starts = spent.starts
    BY <2>1, SpendStep
  <2>3. running' = None /\ booked' \subseteq Entries /\ Numbered'
    BY <2>1, <2>2, StopStep
  <2>. QED BY <1>0, <2>1, <2>2, <2>3 DEF TypeOK, Typed
<1>4. ASSUME NEW e \in booked, OtherRemove(e) PROVE Typed' /\ Counted' /\ Numbered'
  <2>1. Spend("upsets", Upsets) /\ booked' \subseteq booked
          /\ UNCHANGED <<running, done, view, reads, op, undos, stack>>
    BY <1>4 DEF OtherRemove
  <2>2. Counted' /\ spent'.starts = spent.starts
    BY <2>1, SpendStep
  <2>3. Numbered'
    BY <2>1, <2>2 DEF WebInv, Numbered
  <2>. QED BY <1>0, <2>1, <2>2, <2>3 DEF TypeOK, Typed
<1>5. ASSUME Message PROVE Typed' /\ Counted' /\ Numbered'
  <2>1. Spend("upsets", Upsets) /\ UNCHANGED <<service, view, reads, op, undos>>
    BY <1>5 DEF Message
  <2>2. Counted' /\ spent'.starts = spent.starts
    BY <2>1, SpendStep
  <2>3. Numbered'
    BY <2>1, <2>2, ServiceSteps
  <2>. QED BY <1>0, <2>1, <2>2, <2>3 DEF TypeOK, Typed, service
<1>. QED BY <1>1, <1>2, <1>3, <1>4, <1>5 DEF Other

(* Time, the reads and a step of nobody.                                   *)
LEMMA QuietStep ==
    ASSUME WebInv,
           Time \/ Poll \/ (\E s \in Slots : AnswerRead(s) \/ ShowRead(s)) \/ UNCHANGED vars
    PROVE  Typed' /\ Counted' /\ Numbered'
<1>0. TypeOK
  BY DEF WebInv
<1>1. UNCHANGED <<service, op, undos, spent>>
  BY DEF Time, Tick, Expire, Poll, AnswerRead, ShowRead, vars, service
<1>2. Numbered' /\ Counted'
  BY <1>1, ServiceSteps DEF WebInv, Counted, Pending
<1>3. reads' \in [Slots -> Reads] /\ view' \in Entries \cup {None}
  <2>1. CASE Time \/ UNCHANGED vars
    BY <1>0, <2>1 DEF Time, Tick, Expire, vars, TypeOK
  <2>2. CASE Poll
    BY <1>0, <2>2, RefreshTyped DEF Poll, TypeOK
  <2>3. ASSUME NEW s \in Slots, AnswerRead(s) \/ ShowRead(s)
        PROVE  reads' \in [Slots -> Reads] /\ view' \in Entries \cup {None}
    <3>1. reads[s] \in Reads /\ running \in Entries \cup {None} /\ view \in Entries \cup {None}
      BY <1>0 DEF TypeOK
    <3>. QED BY <1>0, <2>3, <3>1 DEF AnswerRead, ShowRead, TypeOK, Reads
  <2>. QED BY <2>1, <2>2, <2>3
<1>. QED BY <1>0, <1>1, <1>2, <1>3 DEF TypeOK, Typed, service

(* The window as it opens.                                                 *)
LEMMA WebStart == Init => WebInv
<1> SUFFICES ASSUME Init PROVE WebInv
  OBVIOUS
<1>1. stack \in Seq(Messages) /\ DOMAIN stack = {} /\ Len(stack) = 0
  BY DEF Init
<1>2. InOrder(stack)
  BY <1>1, StackAssumption DEF InOrder, Bounded, Plain
<1>3. Typed
  BY WindowAssumption, OpEnds DEF Init, Typed, Reads
<1>4. running \notin booked /\ Numbered
  BY DEF Init, Numbered
<1>5. Counted
  <2>1. Pending = 0
    BY OpEnds DEF Init, Pending
  <2>. QED BY <2>1, OpEnds, WindowAssumption DEF Init, Counted
<1>. QED BY <1>1, <1>2, <1>3, <1>4, <1>5, TypesOf DEF WebInv

(* Every step of the window, the service and others.                       *)
LEMMA WebStep == WebInv /\ [Next]_vars => WebInv'
<1> SUFFICES ASSUME WebInv, [Next]_vars PROVE WebInv'
  OBVIOUS
<1>1. Typed' /\ Counted' /\ Numbered'
  BY UserStep, CallStep, UndoStep, NetworkStep, OtherStep, QuietStep DEF Next, Calls, Network
<1>2. InOrder(stack')
  BY StackStep
<1>3. \A i \in DOMAIN stack' : stack'[i].offer \in Offers
  <2>1. stack' \in Seq(Messages)
    BY <1>2 DEF InOrder
  <2>2. \A i \in DOMAIN stack' : stack'[i] \in Messages
    BY <2>1, ElementOfSeq, LenProperties
  <2>. QED BY <2>2 DEF Messages
<1>4. running' \notin booked'
  <2>1. CASE running' = None
    BY <1>1, <2>1, NoneAssumption DEF Typed
  <2>2. CASE running' # None
    BY <1>1, <2>2 DEF Numbered
  <2>. QED BY <2>1, <2>2
<1>5. TypeOK'
  BY <1>1, <1>3, <1>4 DEF TypeOK, Typed, Offers
<1>. QED BY <1>1, <1>2, <1>5 DEF WebInv

(* The invariant of the window.                                            *)
THEOREM WebInvariance == Spec => []WebInv
BY WebStart, WebStep, PTL DEF Spec

(* Types, and that the service never counts the running entry as ended.    *)
THEOREM WebTypeCorrect == Spec => []TypeOK
<1>1. WebInv => TypeOK
  BY DEF WebInv
<1>. QED BY <1>1, WebInvariance, PTL

(* However many messages come, in whatever order they are closed, taken    *)
(* back or their time is up, and whatever the limits are.                  *)
THEOREM StackStaysInOrder == Spec => []StackInOrder
<1>1. WebInv => StackInOrder
  <2> SUFFICES ASSUME InOrder(stack), NEW i \in Plain(stack)
               PROVE  stack[i].seen <= Life
    BY DEF WebInv, StackInOrder, InOrder
  <2>1. stack[i] \in Messages
    BY ElementOfSeq, LenProperties DEF InOrder, Plain
  <2>2. stack[i].left \in 0..Life /\ stack[i].seen \in 0..Life
    BY <2>1 DEF Messages
  <2>. QED BY <2>2, StackAssumption
<1>. QED BY <1>1, WebInvariance, PTL

(* Rule 3: making room, expiring and closing another message leave every   *)
(* offer where it is.                                                      *)
THEOREM OffersAreKept == Spec => OffersStay
<1>1. ASSUME WebInv, [Next]_vars
      PROVE  [ \A i \in DOMAIN stack :
                 stack[i].offer # None /\ (\A j \in DOMAIN stack' : stack'[j].offer # stack[i].offer)
                   => ClickUndo(i) \/ Close(i) ]_vars
  <2> SUFFICES ASSUME NEW i \in DOMAIN stack, stack[i].offer # None,
                      ~StillIn(stack[i].offer, stack')
               PROVE  ClickUndo(i) \/ Close(i)
    BY DEF StillIn
  <2>1. stack \in Seq(Messages)
    BY <1>1 DEF WebInv, InOrder
  <2>2. CASE stack' = stack
    BY <2>2 DEF StillIn
  <2>3. ASSUME NEW offer \in Offers, stack' = Show(stack, offer) PROVE FALSE
    <3>1. Toast(offer) \in Messages
      BY StackAssumption DEF Toast, Messages
    <3>. QED BY <2>1, <2>3, <3>1, ShowKeepsOffers, WindowAssumption
  <2>4. ASSUME NEW k \in DOMAIN stack, stack' = Dismiss(stack, k), k # i PROVE FALSE
    <3>1. i \in DOMAIN stack \ {k}
      BY <2>4
    <3>2. StillIn(stack[i].offer, Without(stack, {k}))
      BY <2>1, <3>1, OthersStay
    <3>. QED BY <2>4, <3>2 DEF Dismiss
  <2>5. ~Expire(i)
    BY WindowAssumption DEF Expire, Due, Plain
  <2>6. ASSUME stack' = Older(stack) PROVE FALSE
    <3>1. i \in DOMAIN stack' /\ stack'[i].offer = stack[i].offer
      BY <2>6, WindowAssumption DEF Older, Plain
    <3>. QED BY <3>1 DEF StillIn
  <2>. QED BY <1>1, <2>2, <2>3, <2>4, <2>5, <2>6, StackChanges
<1>. QED BY <1>1, WebInvariance, PTL DEF Spec, OffersStay
=============================================================================
