----------------------------- MODULE Recursion -----------------------------
(***************************************************************************)
(* What a function defined by recursion over 0..n computes: it takes the   *)
(* inputs one after the other, each by Step.  tlapm cannot instantiate the *)
(* library's induction theorems, whose parameter is an operator; but a     *)
(* well-founded order has a minimal element in any set, and the parameter  *)
(* Step of this module is given a value by INSTANCE.                       *)
(***************************************************************************)
EXTENDS Integers, Sequences, WellFoundedInduction, TLAPS

CONSTANT Step(_, _)

-----------------------------------------------------------------------------
(* Induction                                                                *)

\* Any set of numbers but the empty one has a least.
LEMMA Least ==
    ASSUME NEW T \in SUBSET Nat, T # {}
    PROVE  \E n \in T : \A m \in T : n =< m
<1>1. PICK n \in T : \A m \in T : ~ (<<m, n>> \in OpToRel(<, Nat))
  BY NatLessThanWellFounded, WFMin
<1>2. \A m \in T : ~ (m < n)
  BY <1>1 DEF OpToRel
<1> QED
  BY <1>2

\* A set that has 0, and i + 1 whenever it has i, has all numbers up to n.
LEMMA Induction ==
    ASSUME NEW n \in Nat, NEW T, 0 \in T, \A i \in 0..(n - 1) : i \in T => i + 1 \in T
    PROVE  0..n \subseteq T
<1> DEFINE Bad == {i \in 0..n : i \notin T}
<1>1. SUFFICES ASSUME Bad # {} PROVE FALSE
  OBVIOUS
<1>2. Bad \in SUBSET Nat
  OBVIOUS
<1>3. PICK i \in Bad : \A j \in Bad : i =< j
  <2> HIDE DEF Bad
  <2> QED BY <1>1, <1>2, Least
<1>4. i # 0 /\ i - 1 \in 0..(n-1) /\ i - 1 \notin Bad
  BY <1>3
<1> QED
  BY <1>4

-----------------------------------------------------------------------------
(* Recursion                                                                *)

\* g is what the first n inputs lead to from start on, one by one.
Run(start, inputs, n, g) ==
    /\ DOMAIN g = 0..n /\ g = [i \in 0..n |-> g[i]]
    /\ g[0] = start
    /\ \A i \in 1..n : g[i] = Step(inputs[i], g[i - 1])

\* The recursive definition, and its end.
Result(start, inputs, n) ==
    LET after[i \in 0..n] == IF i = 0 THEN start ELSE Step(inputs[i], after[i - 1])
    IN  after[n]

\* There is such a function, which TLA+ does not grant.
LEMMA RunExists ==
    ASSUME NEW start, NEW inputs, NEW n \in Nat
    PROVE  \E g : Run(start, inputs, n, g)
<1> DEFINE T == {k \in 0..n : \E g : Run(start, inputs, k, g)}
<1>1. 0 \in T
  <2>1. Run(start, inputs, 0, [i \in 0..0 |-> start])
    BY DEF Run
  <2> QED
    BY <2>1
<1>2. ASSUME NEW k \in 0..(n - 1), k \in T PROVE k + 1 \in T
  <2>1. PICK g : Run(start, inputs, k, g)
    BY <1>2
  <2> DEFINE h == [i \in 0..(k + 1) |-> IF i = k + 1 THEN Step(inputs[k + 1], g[k]) ELSE g[i]]
  <2>2. h[0] = start /\ \A i \in 0..k : h[i] = g[i]
    BY <2>1 DEF Run
  <2>3. h[k + 1] = Step(inputs[k + 1], g[k])
    OBVIOUS
  <2>4. DOMAIN h = 0..(k + 1) /\ h = [i \in 0..(k + 1) |-> h[i]]
    OBVIOUS
  <2> HIDE DEF h
  <2>5. ASSUME NEW i \in 1..(k + 1) PROVE h[i] = Step(inputs[i], h[i - 1])
    <3>1. h[i - 1] = g[i - 1]
      BY <2>2
    <3>2. CASE i = k + 1
      BY <2>3, <3>1, <3>2
    <3>3. CASE i # k + 1
      <4>1. i \in 1..k
        BY <3>3
      <4>2. g[i] = Step(inputs[i], g[i - 1])
        BY <2>1, <4>1 DEF Run
      <4>3. h[i] = g[i]
        BY <2>2, <4>1
      <4> QED
        BY <3>1, <4>2, <4>3
    <3> QED
      BY <3>2, <3>3
  <2>6. Run(start, inputs, k + 1, h)
    BY <2>2, <2>4, <2>5 DEF Run
  <2> QED
    BY <2>6
<1>3. 0..n \subseteq T
  <2> HIDE DEF T
  <2> QED BY <1>1, <1>2, Induction
<1> QED
  BY <1>3

\* What is stated for all arguments at once is a run.
LEMMA RunEquation ==
    ASSUME NEW start, NEW inputs, NEW n \in Nat, NEW g
    PROVE  Run(start, inputs, n, g)
             <=> g = [i \in 0..n |-> IF i = 0 THEN start ELSE Step(inputs[i], g[i - 1])]
<1> DEFINE h == [i \in 0..n |-> IF i = 0 THEN start ELSE Step(inputs[i], g[i - 1])]
<1>1. ASSUME g = h PROVE Run(start, inputs, n, g)
  BY <1>1 DEF Run
<1>2. ASSUME Run(start, inputs, n, g) PROVE g = h
  <2>1. ASSUME NEW i \in 0..n PROVE g[i] = h[i]
    <3>1. g[0] = start /\ \A j \in 1..n : g[j] = Step(inputs[j], g[j - 1])
      BY <1>2 DEF Run
    <3>2. i = 0 \/ i \in 1..n
      OBVIOUS
    <3> QED
      BY <3>1, <3>2
  <2>2. g = [i \in 0..n |-> h[i]]
    BY <1>2, <2>1 DEF Run
  <2> QED
    BY <2>2
<1> QED
  BY <1>1, <1>2

\* The recursive definition denotes the end of a run.
LEMMA ResultOfRun ==
    ASSUME NEW start, NEW inputs, NEW n \in Nat
    PROVE  \E g : Run(start, inputs, n, g) /\ Result(start, inputs, n) = g[n]
<1> DEFINE Is(g) == g = [i \in 0..n |-> IF i = 0 THEN start ELSE Step(inputs[i], g[i - 1])]
<1>1. \E g : Is(g)
  <2>1. PICK g : Run(start, inputs, n, g)
    BY RunExists
  <2>2. Is(g)
    BY <2>1, RunEquation
  <2> HIDE DEF Is
  <2> QED
    BY <2>2
<1>2. Is(CHOOSE g : Is(g))
  <2> HIDE DEF Is
  <2> QED
    BY <1>1
<1>3. Run(start, inputs, n, CHOOSE g : Is(g))
  <2> DEFINE f == CHOOSE g : Is(g)
  <2>1. Is(f)
    BY <1>2
  <2> HIDE DEF f
  <2>2. Run(start, inputs, n, f)
    BY <2>1, RunEquation
  <2> QED
    BY <2>2 DEF f
<1>4. Result(start, inputs, n) = (CHOOSE g : Is(g))[n]
  BY DEF Result
<1> HIDE DEF Is
<1> QED
  BY <1>3, <1>4

\* No inputs lead nowhere.
LEMMA ResultNone == ASSUME NEW start, NEW inputs PROVE Result(start, inputs, 0) = start
<1>1. PICK g : Run(start, inputs, 0, g) /\ Result(start, inputs, 0) = g[0]
  BY ResultOfRun
<1> QED
  BY <1>1 DEF Run

\* Runs over the same inputs are the same that far.
LEMMA RunsAgree ==
    ASSUME NEW start, NEW n \in Nat, NEW inputs, NEW more, NEW g, NEW h, NEW m \in Nat, n =< m,
           \A i \in 1..n : more[i] = inputs[i],
           Run(start, inputs, n, g), Run(start, more, m, h)
    PROVE  g[n] = h[n]
<1> DEFINE T == {i \in 0..n : h[i] = g[i]}
<1>1. 0 \in T
  BY DEF Run
<1>2. ASSUME NEW i \in 0..(n - 1), i \in T PROVE i + 1 \in T
  <2>1. i + 1 \in 1..n /\ i + 1 \in 1..m /\ (i + 1) - 1 = i /\ i + 1 \in 0..n
    OBVIOUS
  <2>2. g[i + 1] = Step(inputs[i + 1], g[i]) /\ h[i + 1] = Step(more[i + 1], h[i])
    BY <2>1 DEF Run
  <2> QED
    BY <1>2, <2>1, <2>2
<1>3. 0..n \subseteq T
  <2> HIDE DEF T
  <2> QED BY <1>1, <1>2, Induction
<1> QED
  BY <1>3

\* One more input takes the result of the others one step on.
LEMMA ResultMore ==
    ASSUME NEW start, NEW n \in Nat, NEW inputs, NEW more,
           \A i \in 1..n : more[i] = inputs[i]
    PROVE  Result(start, more, n + 1) = Step(more[n + 1], Result(start, inputs, n))
<1>1. PICK g : Run(start, inputs, n, g) /\ Result(start, inputs, n) = g[n]
  BY ResultOfRun
<1>2. PICK h : Run(start, more, n + 1, h) /\ Result(start, more, n + 1) = h[n + 1]
  BY ResultOfRun
<1>3. g[n] = h[n]
  BY <1>1, <1>2, RunsAgree
<1>4. n + 1 \in 1..(n + 1) /\ (n + 1) - 1 = n
  OBVIOUS
<1>5. h[n + 1] = Step(more[n + 1], h[n])
  BY <1>2, <1>4 DEF Run
<1> QED
  BY <1>1, <1>2, <1>3, <1>5

\* What every step keeps, the result has.
LEMMA ResultWithin ==
    ASSUME NEW start, NEW inputs, NEW n \in Nat, NEW S, start \in S,
           \A i \in 1..n : \A x \in S : Step(inputs[i], x) \in S
    PROVE  Result(start, inputs, n) \in S
<1>1. PICK g : Run(start, inputs, n, g) /\ Result(start, inputs, n) = g[n]
  BY ResultOfRun
<1> DEFINE T == {i \in 0..n : g[i] \in S}
<1>2. 0 \in T
  BY <1>1 DEF Run
<1>3. ASSUME NEW i \in 0..(n - 1), i \in T PROVE i + 1 \in T
  <2>1. i + 1 \in 1..n /\ (i + 1) - 1 = i /\ i + 1 \in 0..n
    OBVIOUS
  <2>2. g[i + 1] = Step(inputs[i + 1], g[i])
    BY <1>1, <2>1 DEF Run
  <2> QED
    BY <1>3, <2>1, <2>2
<1>4. 0..n \subseteq T
  <2> HIDE DEF T
  <2> QED BY <1>2, <1>3, Induction
<1> QED
  BY <1>1, <1>4
=============================================================================
