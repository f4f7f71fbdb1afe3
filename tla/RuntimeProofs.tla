----------------------------- MODULE RuntimeProofs -----------------------------
(***************************************************************************)
(* What the operators of Runtime do, for every program, configuration and  *)
(* state of a node: which events they emit, what they leave behind, and    *)
(* that neither depends on the mode, on the step or on when a timer is due.*)
(***************************************************************************)
EXTENDS Runtime, FiniteSetTheorems, WellFoundedInduction, TLAPS

------------------------------------------------------------------------------
(* A non-empty set of naturals has a least element. *)
LEMMA LeastNumber ==
    ASSUME NEW T, T \subseteq Nat, T # {}
    PROVE  \E x \in T : \A y \in T : x <= y
<1> DEFINE R == {p \in Nat \X Nat : p[1] < p[2]}
<1>1. IsWellFoundedOn(R, Nat)
  BY NatLessThanWellFounded DEF OpToRel
<1>2. PICK x \in T : \A y \in T : ~ (<<y, x>> \in R)
  BY <1>1, WFMin, Zenon
<1>3. \A y \in T : ~ (y < x)
  BY <1>2
<1> QED
  BY <1>3

(* Induction, with the induction hypothesis as a set. *)
LEMMA Induction ==
    ASSUME NEW T, 0 \in T, \A n \in T \cap Nat : n + 1 \in T
    PROVE  Nat \subseteq T
<1> SUFFICES ASSUME Nat \ T # {} PROVE FALSE
  OBVIOUS
<1>1. PICK n \in Nat \ T : \A m \in Nat \ T : n <= m
  BY LeastNumber
<1>2. n - 1 \in Nat \ T
  BY <1>1
<1> QED
  BY <1>1, <1>2

(* A set of the numbers up to n that has n in it has n as its maximum. *)
LEMMA MaxAtEnd ==
    ASSUME NEW m \in Nat, NEW S \in SUBSET (1..(m + 1)), m + 1 \in S
    PROVE  Max(S) = m + 1
<1>1. m + 1 \in S /\ \A y \in S : m + 1 >= y
  OBVIOUS
<1>2. \A x \in S : (\A y \in S : x >= y) => x = m + 1
  OBVIOUS
<1> QED
  BY <1>1, <1>2 DEF Max

(* The sets a fold over the positions 1..n of a sequence goes through. *)
LEMMA SubsetsUpTo ==
    ASSUME NEW m \in Nat, NEW S \in SUBSET (1..(m + 1))
    PROVE  /\ m + 1 \in S => Max(S) = m + 1 /\ S \ {m + 1} \in SUBSET (1..m)
           /\ m + 1 \notin S => S \in SUBSET (1..m) /\ S \ {Max(S)} \in SUBSET (1..m)
<1>1. S \ {m + 1} \in SUBSET (1..m)
  OBVIOUS
<1>2. ASSUME m + 1 \notin S PROVE S \in SUBSET (1..m) /\ S \ {Max(S)} \in SUBSET (1..m)
  <2>1. S = S \ {m + 1}
    BY <1>2
  <2> QED
    BY <1>1, <2>1
<1> QED
  BY <1>1, <1>2, MaxAtEnd

LEMMA PrefixesUpTo ==
    ASSUME NEW n \in Nat
    PROVE  /\ 1..0 = {}
           /\ \A k \in 1..n : /\ 1..k \in SUBSET (1..n) /\ 1..k # {}
                              /\ Max(1..k) = k /\ (1..k) \ {k} = 1..(k - 1)
<1>1. ASSUME NEW k \in 1..n
      PROVE  1..k \in SUBSET (1..n) /\ 1..k # {} /\ Max(1..k) = k /\ (1..k) \ {k} = 1..(k - 1)
  <2>1. (k - 1) + 1 \in 1..((k - 1) + 1) /\ k - 1 \in Nat
    OBVIOUS
  <2>2. Max(1..((k - 1) + 1)) = (k - 1) + 1
    BY <2>1, MaxAtEnd
  <2>3. \A x \in 1..k : x \in 1..n
    OBVIOUS
  <2>4. 1 \in 1..k
    OBVIOUS
  <2> QED
    BY <2>2, <2>3, <2>4
<1> QED
  BY <1>1

------------------------------------------------------------------------------
(***************************************************************************)
(* The folds of Runtime run through their sequence from left to right:     *)
(* each has a run, a state before the first element and one after each.    *)
(***************************************************************************)
(* The actions of a handler, one after the other.  *)
PerformsBy(run, n, acc, cfg, s, q, incoming, id) ==
    /\ run[0] = acc
    /\ \A k \in 1..n : run[k] = execute_action(run[k - 1], cfg, s, q[k], incoming, id)
    /\ PerformAll(acc, cfg, s, q, incoming, id) = run[n]

LEMMA PerformRun ==
    ASSUME NEW cfg, NEW s, NEW incoming, NEW id, NEW acc, NEW q, NEW n \in Nat, DOMAIN q = 1..n
    PROVE  \E run : PerformsBy(run, n, acc, cfg, s, q, incoming, id)
<1> DEFINE Step(a, x) == execute_action(a, cfg, s, x, incoming, id)
           Iter(m, f) == f = [s0 \in SUBSET (1..m) |->
                                 IF s0 = {} THEN acc
                                 ELSE Step(f[s0 \ {Max(s0)}], q[Max(s0)])]
           T == {m \in Nat : \E f : Iter(m, f)}
<1>1. 0 \in T
  <2>1. Iter(0, [s0 \in SUBSET (1..0) |-> acc])
    OBVIOUS
  <2> QED
    BY <2>1
<1>2. ASSUME NEW m \in T PROVE m + 1 \in T
  <2>1. PICK f : Iter(m, f)
    OBVIOUS
  <2> DEFINE g == [s0 \in SUBSET (1..(m + 1)) |->
                      IF m + 1 \in s0 THEN Step(f[s0 \ {m + 1}], q[m + 1]) ELSE f[s0]]
  <2> HIDE DEF Step
  <2>2. ASSUME NEW s0 \in SUBSET (1..(m + 1))
        PROVE  g[s0] = IF s0 = {} THEN acc ELSE Step(g[s0 \ {Max(s0)}], q[Max(s0)])
    <3>1. CASE m + 1 \in s0
      <4>1. g[s0 \ {m + 1}] = f[s0 \ {m + 1}]
        BY <3>1, SubsetsUpTo
      <4> QED
        BY <3>1, <4>1, SubsetsUpTo
    <3>2. CASE m + 1 \notin s0
      <4>1. g[s0] = f[s0] /\ g[s0 \ {Max(s0)}] = f[s0 \ {Max(s0)}]
        BY <3>2, SubsetsUpTo
      <4>2. f[s0] = IF s0 = {} THEN acc ELSE Step(f[s0 \ {Max(s0)}], q[Max(s0)])
        BY <2>1, <3>2, SubsetsUpTo
      <4> QED
        BY <4>1, <4>2
    <3> QED
      BY <3>1, <3>2
  <2>3. g = [s0 \in SUBSET (1..(m + 1)) |-> g[s0]]
    OBVIOUS
  <2> HIDE DEF g
  <2>4. Iter(m + 1, g)
    BY <2>2, <2>3
  <2> HIDE DEF Iter
  <2>5. \E h : Iter(m + 1, h)
    BY <2>4
  <2> QED
    BY <2>5
<1> HIDE DEF T
<1>3. n \in T
  BY <1>1, <1>2, Induction
<1> USE DEF T
<1> DEFINE it == CHOOSE f : Iter(n, f)
<1>4. Iter(n, it)
  BY <1>3, Zenon
<1>5. PerformAll(acc, cfg, s, q, incoming, id) = it[1..n]
  BY DEF PerformAll, FoldLeft, MapThenFoldSet
<1> DEFINE run == [k \in 0..n |-> it[1..k]]
<1> HIDE DEF it, Step
<1>6. \A s0 \in SUBSET (1..n) :
         it[s0] = IF s0 = {} THEN acc ELSE Step(it[s0 \ {Max(s0)}], q[Max(s0)])
  BY <1>4
<1>7. run[0] = acc
  <2>1. run[0] = it[{}]
    BY PrefixesUpTo
  <2> QED
    BY <1>6, <2>1
<1>8. ASSUME NEW k \in 1..n PROVE run[k] = Step(run[k - 1], q[k])
  <2>1. /\ 1..k \in SUBSET (1..n) /\ 1..k # {}
        /\ Max(1..k) = k /\ (1..k) \ {k} = 1..(k - 1)
    BY PrefixesUpTo
  <2>2. it[1..k] = Step(it[1..(k - 1)], q[k])
    BY <1>6, <2>1
  <2> QED
    BY <2>2
<1>9. run[n] = it[1..n]
  OBVIOUS
<1> HIDE DEF run
<1> QED
  BY <1>5, <1>7, <1>8, <1>9 DEF Step, PerformsBy

(* The entries of an outbox.  *)
EmitsBy(run, n, acc, cfg, s, q, step) ==
    /\ run[0] = acc
    /\ \A k \in 1..n : run[k] = EmitOne(run[k - 1], cfg, s, q[k], step)
    /\ EmitAll(acc, cfg, s, q, step) = run[n]

LEMMA EmitRun ==
    ASSUME NEW cfg, NEW s, NEW step, NEW acc, NEW q, NEW n \in Nat, DOMAIN q = 1..n
    PROVE  \E run : EmitsBy(run, n, acc, cfg, s, q, step)
<1> DEFINE Step(a, x) == EmitOne(a, cfg, s, x, step)
           Iter(m, f) == f = [s0 \in SUBSET (1..m) |->
                                 IF s0 = {} THEN acc
                                 ELSE Step(f[s0 \ {Max(s0)}], q[Max(s0)])]
           T == {m \in Nat : \E f : Iter(m, f)}
<1>1. 0 \in T
  <2>1. Iter(0, [s0 \in SUBSET (1..0) |-> acc])
    OBVIOUS
  <2> QED
    BY <2>1
<1>2. ASSUME NEW m \in T PROVE m + 1 \in T
  <2>1. PICK f : Iter(m, f)
    OBVIOUS
  <2> DEFINE g == [s0 \in SUBSET (1..(m + 1)) |->
                      IF m + 1 \in s0 THEN Step(f[s0 \ {m + 1}], q[m + 1]) ELSE f[s0]]
  <2> HIDE DEF Step
  <2>2. ASSUME NEW s0 \in SUBSET (1..(m + 1))
        PROVE  g[s0] = IF s0 = {} THEN acc ELSE Step(g[s0 \ {Max(s0)}], q[Max(s0)])
    <3>1. CASE m + 1 \in s0
      <4>1. g[s0 \ {m + 1}] = f[s0 \ {m + 1}]
        BY <3>1, SubsetsUpTo
      <4> QED
        BY <3>1, <4>1, SubsetsUpTo
    <3>2. CASE m + 1 \notin s0
      <4>1. g[s0] = f[s0] /\ g[s0 \ {Max(s0)}] = f[s0 \ {Max(s0)}]
        BY <3>2, SubsetsUpTo
      <4>2. f[s0] = IF s0 = {} THEN acc ELSE Step(f[s0 \ {Max(s0)}], q[Max(s0)])
        BY <2>1, <3>2, SubsetsUpTo
      <4> QED
        BY <4>1, <4>2
    <3> QED
      BY <3>1, <3>2
  <2>3. g = [s0 \in SUBSET (1..(m + 1)) |-> g[s0]]
    OBVIOUS
  <2> HIDE DEF g
  <2>4. Iter(m + 1, g)
    BY <2>2, <2>3
  <2> HIDE DEF Iter
  <2>5. \E h : Iter(m + 1, h)
    BY <2>4
  <2> QED
    BY <2>5
<1> HIDE DEF T
<1>3. n \in T
  BY <1>1, <1>2, Induction
<1> USE DEF T
<1> DEFINE it == CHOOSE f : Iter(n, f)
<1>4. Iter(n, it)
  BY <1>3, Zenon
<1>5. EmitAll(acc, cfg, s, q, step) = it[1..n]
  BY DEF EmitAll, FoldLeft, MapThenFoldSet
<1> DEFINE run == [k \in 0..n |-> it[1..k]]
<1> HIDE DEF it, Step
<1>6. \A s0 \in SUBSET (1..n) :
         it[s0] = IF s0 = {} THEN acc ELSE Step(it[s0 \ {Max(s0)}], q[Max(s0)])
  BY <1>4
<1>7. run[0] = acc
  <2>1. run[0] = it[{}]
    BY PrefixesUpTo
  <2> QED
    BY <1>6, <2>1
<1>8. ASSUME NEW k \in 1..n PROVE run[k] = Step(run[k - 1], q[k])
  <2>1. /\ 1..k \in SUBSET (1..n) /\ 1..k # {}
        /\ Max(1..k) = k /\ (1..k) \ {k} = 1..(k - 1)
    BY PrefixesUpTo
  <2>2. it[1..k] = Step(it[1..(k - 1)], q[k])
    BY <1>6, <2>1
  <2> QED
    BY <2>2
<1>9. run[n] = it[1..n]
  OBVIOUS
<1> HIDE DEF run
<1> QED
  BY <1>5, <1>7, <1>8, <1>9 DEF Step, EmitsBy

(* The timers that are due.  *)
FiresBy(run, n, acc, cfg, q) ==
    /\ run[0] = acc
    /\ \A k \in 1..n : run[k] = FireOne(run[k - 1], cfg, q[k])
    /\ FireAll(acc, cfg, q) = run[n]

LEMMA FireRun ==
    ASSUME NEW cfg, NEW acc, NEW q, NEW n \in Nat, DOMAIN q = 1..n
    PROVE  \E run : FiresBy(run, n, acc, cfg, q)
<1> DEFINE Step(a, x) == FireOne(a, cfg, x)
           Iter(m, f) == f = [s0 \in SUBSET (1..m) |->
                                 IF s0 = {} THEN acc
                                 ELSE Step(f[s0 \ {Max(s0)}], q[Max(s0)])]
           T == {m \in Nat : \E f : Iter(m, f)}
<1>1. 0 \in T
  <2>1. Iter(0, [s0 \in SUBSET (1..0) |-> acc])
    OBVIOUS
  <2> QED
    BY <2>1
<1>2. ASSUME NEW m \in T PROVE m + 1 \in T
  <2>1. PICK f : Iter(m, f)
    OBVIOUS
  <2> DEFINE g == [s0 \in SUBSET (1..(m + 1)) |->
                      IF m + 1 \in s0 THEN Step(f[s0 \ {m + 1}], q[m + 1]) ELSE f[s0]]
  <2> HIDE DEF Step
  <2>2. ASSUME NEW s0 \in SUBSET (1..(m + 1))
        PROVE  g[s0] = IF s0 = {} THEN acc ELSE Step(g[s0 \ {Max(s0)}], q[Max(s0)])
    <3>1. CASE m + 1 \in s0
      <4>1. g[s0 \ {m + 1}] = f[s0 \ {m + 1}]
        BY <3>1, SubsetsUpTo
      <4> QED
        BY <3>1, <4>1, SubsetsUpTo
    <3>2. CASE m + 1 \notin s0
      <4>1. g[s0] = f[s0] /\ g[s0 \ {Max(s0)}] = f[s0 \ {Max(s0)}]
        BY <3>2, SubsetsUpTo
      <4>2. f[s0] = IF s0 = {} THEN acc ELSE Step(f[s0 \ {Max(s0)}], q[Max(s0)])
        BY <2>1, <3>2, SubsetsUpTo
      <4> QED
        BY <4>1, <4>2
    <3> QED
      BY <3>1, <3>2
  <2>3. g = [s0 \in SUBSET (1..(m + 1)) |-> g[s0]]
    OBVIOUS
  <2> HIDE DEF g
  <2>4. Iter(m + 1, g)
    BY <2>2, <2>3
  <2> HIDE DEF Iter
  <2>5. \E h : Iter(m + 1, h)
    BY <2>4
  <2> QED
    BY <2>5
<1> HIDE DEF T
<1>3. n \in T
  BY <1>1, <1>2, Induction
<1> USE DEF T
<1> DEFINE it == CHOOSE f : Iter(n, f)
<1>4. Iter(n, it)
  BY <1>3, Zenon
<1>5. FireAll(acc, cfg, q) = it[1..n]
  BY DEF FireAll, FoldLeft, MapThenFoldSet
<1> DEFINE run == [k \in 0..n |-> it[1..k]]
<1> HIDE DEF it, Step
<1>6. \A s0 \in SUBSET (1..n) :
         it[s0] = IF s0 = {} THEN acc ELSE Step(it[s0 \ {Max(s0)}], q[Max(s0)])
  BY <1>4
<1>7. run[0] = acc
  <2>1. run[0] = it[{}]
    BY PrefixesUpTo
  <2> QED
    BY <1>6, <2>1
<1>8. ASSUME NEW k \in 1..n PROVE run[k] = Step(run[k - 1], q[k])
  <2>1. /\ 1..k \in SUBSET (1..n) /\ 1..k # {}
        /\ Max(1..k) = k /\ (1..k) \ {k} = 1..(k - 1)
    BY PrefixesUpTo
  <2>2. it[1..k] = Step(it[1..(k - 1)], q[k])
    BY <1>6, <2>1
  <2> QED
    BY <2>2
<1>9. run[n] = it[1..n]
  OBVIOUS
<1> HIDE DEF run
<1> QED
  BY <1>5, <1>7, <1>8, <1>9 DEF Step, FiresBy

(* The envelopes released to an iteration.  *)
ReceivesBy(run, n, acc, q) ==
    /\ run[0] = acc
    /\ \A k \in 1..n : run[k] = Receive(run[k - 1], q[k])
    /\ ReceiveAll(acc, q) = run[n]

LEMMA ReceiveRun ==
    ASSUME NEW acc, NEW q, NEW n \in Nat, DOMAIN q = 1..n
    PROVE  \E run : ReceivesBy(run, n, acc, q)
<1> DEFINE Step(a, x) == Receive(a, x)
           Iter(m, f) == f = [s0 \in SUBSET (1..m) |->
                                 IF s0 = {} THEN acc
                                 ELSE Step(f[s0 \ {Max(s0)}], q[Max(s0)])]
           T == {m \in Nat : \E f : Iter(m, f)}
<1>1. 0 \in T
  <2>1. Iter(0, [s0 \in SUBSET (1..0) |-> acc])
    OBVIOUS
  <2> QED
    BY <2>1
<1>2. ASSUME NEW m \in T PROVE m + 1 \in T
  <2>1. PICK f : Iter(m, f)
    OBVIOUS
  <2> DEFINE g == [s0 \in SUBSET (1..(m + 1)) |->
                      IF m + 1 \in s0 THEN Step(f[s0 \ {m + 1}], q[m + 1]) ELSE f[s0]]
  <2> HIDE DEF Step
  <2>2. ASSUME NEW s0 \in SUBSET (1..(m + 1))
        PROVE  g[s0] = IF s0 = {} THEN acc ELSE Step(g[s0 \ {Max(s0)}], q[Max(s0)])
    <3>1. CASE m + 1 \in s0
      <4>1. g[s0 \ {m + 1}] = f[s0 \ {m + 1}]
        BY <3>1, SubsetsUpTo
      <4> QED
        BY <3>1, <4>1, SubsetsUpTo
    <3>2. CASE m + 1 \notin s0
      <4>1. g[s0] = f[s0] /\ g[s0 \ {Max(s0)}] = f[s0 \ {Max(s0)}]
        BY <3>2, SubsetsUpTo
      <4>2. f[s0] = IF s0 = {} THEN acc ELSE Step(f[s0 \ {Max(s0)}], q[Max(s0)])
        BY <2>1, <3>2, SubsetsUpTo
      <4> QED
        BY <4>1, <4>2
    <3> QED
      BY <3>1, <3>2
  <2>3. g = [s0 \in SUBSET (1..(m + 1)) |-> g[s0]]
    OBVIOUS
  <2> HIDE DEF g
  <2>4. Iter(m + 1, g)
    BY <2>2, <2>3
  <2> HIDE DEF Iter
  <2>5. \E h : Iter(m + 1, h)
    BY <2>4
  <2> QED
    BY <2>5
<1> HIDE DEF T
<1>3. n \in T
  BY <1>1, <1>2, Induction
<1> USE DEF T
<1> DEFINE it == CHOOSE f : Iter(n, f)
<1>4. Iter(n, it)
  BY <1>3, Zenon
<1>5. ReceiveAll(acc, q) = it[1..n]
  BY DEF ReceiveAll, FoldLeft, MapThenFoldSet
<1> DEFINE run == [k \in 0..n |-> it[1..k]]
<1> HIDE DEF it, Step
<1>6. \A s0 \in SUBSET (1..n) :
         it[s0] = IF s0 = {} THEN acc ELSE Step(it[s0 \ {Max(s0)}], q[Max(s0)])
  BY <1>4
<1>7. run[0] = acc
  <2>1. run[0] = it[{}]
    BY PrefixesUpTo
  <2> QED
    BY <1>6, <2>1
<1>8. ASSUME NEW k \in 1..n PROVE run[k] = Step(run[k - 1], q[k])
  <2>1. /\ 1..k \in SUBSET (1..n) /\ 1..k # {}
        /\ Max(1..k) = k /\ (1..k) \ {k} = 1..(k - 1)
    BY PrefixesUpTo
  <2>2. it[1..k] = Step(it[1..(k - 1)], q[k])
    BY <1>6, <2>1
  <2> QED
    BY <2>2
<1>9. run[n] = it[1..n]
  OBVIOUS
<1> HIDE DEF run
<1> QED
  BY <1>5, <1>7, <1>8, <1>9 DEF Step, ReceivesBy

(* The messages of the start-up.  *)
BootsBy(run, n, acc, cfg, q) ==
    /\ run[0] = acc
    /\ \A k \in 1..n : run[k] = BootOne(run[k - 1], cfg, q[k])
    /\ BootAll(acc, cfg, q) = run[n]

LEMMA BootRun ==
    ASSUME NEW cfg, NEW acc, NEW q, NEW n \in Nat, DOMAIN q = 1..n
    PROVE  \E run : BootsBy(run, n, acc, cfg, q)
<1> DEFINE Step(a, x) == BootOne(a, cfg, x)
           Iter(m, f) == f = [s0 \in SUBSET (1..m) |->
                                 IF s0 = {} THEN acc
                                 ELSE Step(f[s0 \ {Max(s0)}], q[Max(s0)])]
           T == {m \in Nat : \E f : Iter(m, f)}
<1>1. 0 \in T
  <2>1. Iter(0, [s0 \in SUBSET (1..0) |-> acc])
    OBVIOUS
  <2> QED
    BY <2>1
<1>2. ASSUME NEW m \in T PROVE m + 1 \in T
  <2>1. PICK f : Iter(m, f)
    OBVIOUS
  <2> DEFINE g == [s0 \in SUBSET (1..(m + 1)) |->
                      IF m + 1 \in s0 THEN Step(f[s0 \ {m + 1}], q[m + 1]) ELSE f[s0]]
  <2> HIDE DEF Step
  <2>2. ASSUME NEW s0 \in SUBSET (1..(m + 1))
        PROVE  g[s0] = IF s0 = {} THEN acc ELSE Step(g[s0 \ {Max(s0)}], q[Max(s0)])
    <3>1. CASE m + 1 \in s0
      <4>1. g[s0 \ {m + 1}] = f[s0 \ {m + 1}]
        BY <3>1, SubsetsUpTo
      <4> QED
        BY <3>1, <4>1, SubsetsUpTo
    <3>2. CASE m + 1 \notin s0
      <4>1. g[s0] = f[s0] /\ g[s0 \ {Max(s0)}] = f[s0 \ {Max(s0)}]
        BY <3>2, SubsetsUpTo
      <4>2. f[s0] = IF s0 = {} THEN acc ELSE Step(f[s0 \ {Max(s0)}], q[Max(s0)])
        BY <2>1, <3>2, SubsetsUpTo
      <4> QED
        BY <4>1, <4>2
    <3> QED
      BY <3>1, <3>2
  <2>3. g = [s0 \in SUBSET (1..(m + 1)) |-> g[s0]]
    OBVIOUS
  <2> HIDE DEF g
  <2>4. Iter(m + 1, g)
    BY <2>2, <2>3
  <2> HIDE DEF Iter
  <2>5. \E h : Iter(m + 1, h)
    BY <2>4
  <2> QED
    BY <2>5
<1> HIDE DEF T
<1>3. n \in T
  BY <1>1, <1>2, Induction
<1> USE DEF T
<1> DEFINE it == CHOOSE f : Iter(n, f)
<1>4. Iter(n, it)
  BY <1>3, Zenon
<1>5. BootAll(acc, cfg, q) = it[1..n]
  BY DEF BootAll, FoldLeft, MapThenFoldSet
<1> DEFINE run == [k \in 0..n |-> it[1..k]]
<1> HIDE DEF it, Step
<1>6. \A s0 \in SUBSET (1..n) :
         it[s0] = IF s0 = {} THEN acc ELSE Step(it[s0 \ {Max(s0)}], q[Max(s0)])
  BY <1>4
<1>7. run[0] = acc
  <2>1. run[0] = it[{}]
    BY PrefixesUpTo
  <2> QED
    BY <1>6, <2>1
<1>8. ASSUME NEW k \in 1..n PROVE run[k] = Step(run[k - 1], q[k])
  <2>1. /\ 1..k \in SUBSET (1..n) /\ 1..k # {}
        /\ Max(1..k) = k /\ (1..k) \ {k} = 1..(k - 1)
    BY PrefixesUpTo
  <2>2. it[1..k] = Step(it[1..(k - 1)], q[k])
    BY <1>6, <2>1
  <2> QED
    BY <2>2
<1>9. run[n] = it[1..n]
  OBVIOUS
<1> HIDE DEF run
<1> QED
  BY <1>5, <1>7, <1>8, <1>9 DEF Step, BootsBy

------------------------------------------------------------------------------
(***************************************************************************)
(* Sequences of whatever values.                                           *)
(***************************************************************************)
IsSeq(q) == q \in Seq(Range(q))

LEMMA SeqIs ==
    ASSUME NEW S, NEW q \in Seq(S)
    PROVE  IsSeq(q)
<1>1. DOMAIN q = 1..Len(q) /\ Len(q) \in Nat
  OBVIOUS
<1>2. \A i \in 1..Len(q) : q[i] \in Range(q)
  BY <1>1 DEF Range
<1>3. q = [i \in 1..Len(q) |-> q[i]]
  OBVIOUS
<1> QED
  BY <1>1, <1>2, <1>3 DEF IsSeq

LEMMA SeqMade ==
    ASSUME NEW n \in Nat, NEW q, q = [i \in 1..n |-> q[i]]
    PROVE  IsSeq(q) /\ Len(q) = n /\ DOMAIN q = 1..n
<1>1. \A i \in 1..n : q[i] \in Range(q)
  BY DEF Range
<1>2. q \in Seq(Range(q)) /\ Len(q) = n /\ DOMAIN q = 1..n
  BY <1>1
<1> QED
  BY <1>2 DEF IsSeq

LEMMA SeqAppend ==
    ASSUME NEW q, IsSeq(q), NEW e
    PROVE  /\ IsSeq(Append(q, e)) /\ Len(q) \in Nat /\ Len(Append(q, e)) = Len(q) + 1
           /\ \A i \in 1..Len(q) : Append(q, e)[i] = q[i]
           /\ Append(q, e)[Len(q) + 1] = e
<1> DEFINE S == Range(q) \cup {e}
<1> HIDE DEF S
<1>1. q \in Seq(S) /\ e \in S
  BY DEF IsSeq, S
<1>2. Append(q, e) \in Seq(S) /\ Len(q) \in Nat /\ Len(Append(q, e)) = Len(q) + 1
  BY <1>1
<1>3. /\ \A i \in 1..Len(q) : Append(q, e)[i] = q[i]
      /\ Append(q, e)[Len(q) + 1] = e
  BY <1>1
<1>4. IsSeq(Append(q, e))
  BY <1>2, SeqIs
<1> QED
  BY <1>2, <1>3, <1>4

LEMMA SeqConcat ==
    ASSUME NEW p, IsSeq(p), NEW q, IsSeq(q)
    PROVE  /\ IsSeq(p \o q) /\ Len(p) \in Nat /\ Len(q) \in Nat
           /\ Len(p \o q) = Len(p) + Len(q)
           /\ \A i \in 1..Len(p) : (p \o q)[i] = p[i]
           /\ \A i \in 1..Len(p \o q) :
                 i > Len(p) => i - Len(p) \in 1..Len(q) /\ (p \o q)[i] = q[i - Len(p)]
<1> DEFINE S == Range(p) \cup Range(q)
<1> HIDE DEF S
<1>1. p \in Seq(S) /\ q \in Seq(S)
  BY DEF IsSeq, S
<1>2. p \o q \in Seq(S) /\ Len(p \o q) = Len(p) + Len(q)
  BY <1>1
<1>3. IsSeq(p \o q)
  BY <1>2, SeqIs
<1>4. Len(p) \in Nat /\ Len(q) \in Nat
  BY <1>1
<1>5. /\ \A i \in 1..Len(p) : (p \o q)[i] = p[i]
      /\ \A i \in 1..(Len(p) + Len(q)) : i > Len(p) => (p \o q)[i] = q[i - Len(p)]
  BY <1>1
<1>6. \A i \in 1..Len(p \o q) : i > Len(p) => i - Len(p) \in 1..Len(q)
  BY <1>2, <1>4
<1> QED
  BY <1>2, <1>3, <1>4, <1>5, <1>6

LEMMA SeqTail ==
    ASSUME NEW q, IsSeq(q), q # <<>>
    PROVE  IsSeq(Tail(q)) /\ Head(q) = q[1] /\ Len(q) \in Nat \ {0}
<1> DEFINE S == Range(q)
<1> HIDE DEF S
<1>1. q \in Seq(S)
  BY DEF IsSeq, S
<1>2. Tail(q) \in Seq(S) /\ Head(q) = q[1] /\ Len(q) \in Nat \ {0}
  BY <1>1
<1>3. IsSeq(Tail(q))
  BY <1>2, SeqIs
<1> QED
  BY <1>2, <1>3

LEMMA SeqLen ==
    ASSUME NEW q, IsSeq(q)
    PROVE  Len(q) \in Nat /\ DOMAIN q = 1..Len(q) /\ q = [i \in 1..Len(q) |-> q[i]]
<1> DEFINE S == Range(q)
<1> HIDE DEF S
<1>1. q \in Seq(S)
  BY DEF IsSeq, S
<1>2. Len(q) \in Nat /\ DOMAIN q = 1..Len(q)
  BY <1>1
<1>3. q = [i \in 1..Len(q) |-> q[i]]
  BY <1>1
<1> QED
  BY <1>2, <1>3

(* The empty sequence and a single element. *)
LEMMA SeqOne ==
    /\ IsSeq(<<>>) /\ Len(<<>>) = 0
    /\ \A e : IsSeq(<<e>>) /\ Len(<<e>>) = 1 /\ <<e>>[1] = e
<1>1. IsSeq(<<>>)
  <2>1. <<>> \in Seq({})
    OBVIOUS
  <2> QED
    BY <2>1, SeqIs
<1>2. ASSUME NEW e PROVE IsSeq(<<e>>)
  <2>1. <<e>> \in Seq({e})
    OBVIOUS
  <2> QED
    BY <2>1, SeqIs
<1> QED
  BY <1>1, <1>2

LEMMA SeqPrefix ==
    ASSUME NEW q, IsSeq(q), NEW m \in Nat, NEW n \in Nat, n <= Len(q)
    PROVE  /\ IsSeq(SubSeq(q, m + 1, n))
           /\ IsSeq(SubSeq(q, 1, n)) /\ Len(SubSeq(q, 1, n)) = n
           /\ \A i \in 1..n : SubSeq(q, 1, n)[i] = q[i]
<1> DEFINE S == Range(q)
<1> HIDE DEF S
<1>1. q \in Seq(S)
  BY DEF IsSeq, S
<1>2. SubSeq(q, 1, n) \in Seq(S) /\ SubSeq(q, m + 1, n) \in Seq(S)
  BY <1>1
<1>3. Len(SubSeq(q, 1, n)) = n /\ \A i \in 1..n : SubSeq(q, 1, n)[i] = q[i]
  BY <1>1
<1> QED
  BY <1>2, <1>3, SeqIs

(***************************************************************************)
(* Edits of the trace file.                                                *)
(***************************************************************************)
LEMMA SeqPart ==
    ASSUME NEW q, IsSeq(q), NEW m \in Nat, NEW n \in Nat, m <= n, n <= Len(q)
    PROVE  /\ IsSeq(SubSeq(q, m + 1, n)) /\ Len(SubSeq(q, m + 1, n)) = n - m
           /\ \A i \in 1..(n - m) : SubSeq(q, m + 1, n)[i] = q[m + i]
<1> DEFINE S == Range(q)
<1> HIDE DEF S
<1>1. q \in Seq(S)
  BY DEF IsSeq, S
<1>2. SubSeq(q, m + 1, n) \in Seq(S) /\ Len(SubSeq(q, m + 1, n)) = n - m
  BY <1>1
<1>3. \A i \in 1..(n - m) : SubSeq(q, m + 1, n)[i] = q[m + i]
  BY <1>1
<1> QED
  BY <1>2, <1>3, SeqIs

(* What a line removed or inserted does to a sequence. *)
LEMMA Removed ==
    ASSUME NEW q, IsSeq(q), NEW i \in 1..Len(q)
    PROVE  LET z == RemoveAt(q, i)
               n == Len(q)
           IN  /\ IsSeq(z) /\ Len(z) = n - 1
               /\ \A j \in 1..(n - 1) : z[j] = IF j < i THEN q[j] ELSE q[j + 1]
<1> DEFINE n == Len(q)
           p == SubSeq(q, 1, i - 1)
           s == SubSeq(q, i + 1, n)
           z == p \o s
<1>1. n \in Nat /\ i \in Nat /\ i >= 1 /\ i <= n /\ i - 1 \in Nat /\ 0 + 1 = 1
  BY SeqLen
<1>2. /\ IsSeq(p) /\ Len(p) = i - 1 /\ \A j \in 1..(i - 1) : p[j] = q[j]
  <2>1. i - 1 <= n
    BY <1>1
  <2> QED
    BY <1>1, <2>1, SeqPrefix
<1>3. IsSeq(s) /\ Len(s) = n - i /\ \A j \in 1..(n - i) : s[j] = q[i + j]
  BY <1>1, SeqPart
<1> HIDE DEF p, s, n
<1>4. /\ IsSeq(z) /\ Len(z) = Len(p) + Len(s)
      /\ \A j \in 1..Len(p) : z[j] = p[j]
      /\ \A j \in 1..Len(z) :
            j > Len(p) => j - Len(p) \in 1..Len(s) /\ z[j] = s[j - Len(p)]
  <2>1. IsSeq(p) /\ IsSeq(s)
    BY <1>2, <1>3
  <2> QED
    BY ONLY <2>1, SeqConcat
<1> HIDE DEF z
<1>5. Len(z) = n - 1
  BY <1>1, <1>2, <1>3, <1>4
<1>6. ASSUME NEW j \in 1..(n - 1) PROVE z[j] = IF j < i THEN q[j] ELSE q[j + 1]
  <2>1. CASE j < i
    <3>1. j \in 1..(i - 1)
      BY <1>1, <2>1
    <3> QED
      BY <1>2, <1>4, <2>1, <3>1
  <2>2. CASE ~ (j < i)
    <3>1. j \in 1..Len(z) /\ j > Len(p) /\ j - Len(p) \in 1..(n - i)
          /\ i + (j - Len(p)) = j + 1
      BY <1>1, <1>2, <1>5, <2>2
    <3> QED
      BY <1>3, <1>4, <2>2, <3>1
  <2> QED
    BY <2>1, <2>2
<1>7. z = RemoveAt(q, i)
  BY DEF RemoveAt, z, p, s, n
<1> QED
  BY <1>4, <1>5, <1>6, <1>7 DEF n

LEMMA ConcatNothing ==
    ASSUME NEW p, IsSeq(p)
    PROVE  p \o <<>> = p /\ <<>> \o p = p
<1> DEFINE S == Range(p)
<1> HIDE DEF S
<1>1. p \in Seq(S)
  BY DEF IsSeq, S
<1> QED
  BY <1>1

Associates(p, q, r) == (p \o q) \o r = p \o (q \o r)

LEMMA SeqAssoc ==
    ASSUME NEW p, IsSeq(p), NEW q, IsSeq(q), NEW r, IsSeq(r)
    PROVE  Associates(p, q, r)
<1> DEFINE S == Range(p) \cup Range(q) \cup Range(r)
<1> HIDE DEF S
<1>1. p \in Seq(S) /\ q \in Seq(S) /\ r \in Seq(S)
  BY DEF IsSeq, S
<1> QED
  BY <1>1 DEF Associates

LEMMA AppendsOne ==
    ASSUME NEW p, IsSeq(p), NEW ev
    PROVE  p \o <<ev>> = Append(p, ev)
<1> DEFINE S == Range(p) \cup {ev}
<1> HIDE DEF S
<1>1. p \in Seq(S) /\ ev \in S
  BY DEF IsSeq, S
<1> QED
  BY <1>1

------------------------------------------------------------------------------
(***************************************************************************)
(* The states a node can be in, and when two are alike: they differ at     *)
(* most in the steps their timers are due and in what is on the wire.      *)
(***************************************************************************)
State(s) == [DOMAIN Program.initial[s] -> I64]

Timers(cfg, x) ==
    /\ IsFiniteSet(x.timers)
    /\ \A t \in x.timers : /\ t.id \in Nat /\ t.id < next_deterministic_timer_id(cfg, x)
                           /\ t.due_step \in Nat
                           /\ t.out.delay \in Nat /\ t.out.delay > 0
    /\ \A t, u \in x.timers : t.id = u.id => t = u

(* Only peers are written to. *)
Addressed(cfg, w) ==
    /\ IsFiniteSet(w)
    /\ \A env \in w : env.from_node = cfg.node /\ env.to_node \in cfg.peers

Node(cfg, x) ==
    /\ x = [inbox |-> x.inbox, state |-> x.state, timers |-> x.timers,
            msg_counter |-> x.msg_counter, timer_counter |-> x.timer_counter,
            wire |-> x.wire]
    /\ x.inbox = [s \in Services |-> x.inbox[s]]
    /\ \A s \in Services : IsSeq(x.inbox[s])
    /\ x.state = [s \in Services |-> x.state[s]]
    /\ \A s \in Services : x.state[s] \in State(s)
    /\ x.msg_counter \in Nat /\ x.timer_counter \in Nat
    /\ Timers(cfg, x) /\ Addressed(cfg, x.wire)

SameTimer(t, u) == t.id = u.id /\ t.from = u.from /\ t.out = u.out

Alike(x, y) ==
    /\ x.inbox = y.inbox /\ x.state = y.state
    /\ x.msg_counter = y.msg_counter /\ x.timer_counter = y.timer_counter
    /\ \A t \in x.timers : \E u \in y.timers : SameTimer(t, u)
    /\ \A u \in y.timers : \E t \in x.timers : SameTimer(t, u)

LEMMA AlikeIsEquivalence ==
    /\ \A x : Alike(x, x)
    /\ \A x, y : Alike(x, y) => Alike(y, x)
    /\ \A x, y, z : Alike(x, y) /\ Alike(y, z) => Alike(x, z)
<1>1. \A x : Alike(x, x)
  BY DEF Alike, SameTimer
<1>2. \A x, y : Alike(x, y) => Alike(y, x)
  BY DEF Alike, SameTimer
<1>3. ASSUME NEW x, NEW y, NEW z, Alike(x, y), Alike(y, z)
      PROVE  Alike(x, z)
  <2>1. ASSUME NEW t \in x.timers PROVE \E u \in z.timers : SameTimer(t, u)
    <3>1. PICK v \in y.timers : SameTimer(t, v)
      BY <1>3 DEF Alike
    <3>2. PICK u \in z.timers : SameTimer(v, u)
      BY <1>3 DEF Alike
    <3> QED
      BY <3>1, <3>2 DEF SameTimer
  <2>2. ASSUME NEW u \in z.timers PROVE \E t \in x.timers : SameTimer(t, u)
    <3>1. PICK v \in y.timers : SameTimer(v, u)
      BY <1>3 DEF Alike
    <3>2. PICK t \in x.timers : SameTimer(t, v)
      BY <1>3 DEF Alike
    <3> QED
      BY <3>1, <3>2 DEF SameTimer
  <2> QED
    BY <1>3, <2>1, <2>2 DEF Alike
<1> QED
  BY <1>1, <1>2, <1>3

(* A node before its first message. *)
LEMMA BuiltNode ==
    ASSUME NEW cfg, cfg.node \in Nat
    PROVE  Node(cfg, build_actor_system)
<1> DEFINE x == build_actor_system
<1>1. /\ x = [inbox |-> [s \in Services |-> <<>>], state |-> Program.initial,
              timers |-> {}, msg_counter |-> 1, timer_counter |-> 1, wire |-> {}]
  BY DEF build_actor_system
<1> HIDE DEF x
<1>2. \A s \in Services : Program.initial[s] \in State(s)
  BY TypesAssumption DEF State
<1>3. Program.initial = [s \in Services |-> Program.initial[s]]
  BY TypesAssumption
<1>4. Timers(cfg, x)
  BY <1>1, FS_EmptySet DEF Timers
<1>5. Addressed(cfg, x.wire)
  BY <1>1, FS_EmptySet DEF Addressed
<1>6. Node(cfg, x)
  BY <1>1, <1>2, <1>3, <1>4, <1>5, SeqOne DEF Node
<1> QED
  BY <1>6 DEF x

(* A message in an inbox. *)
LEMMA PushNode ==
    ASSUME NEW cfg, NEW x, Node(cfg, x), NEW s, NEW id, NEW msg
    PROVE  /\ Node(cfg, push(x, s, id, msg))
           /\ push(x, s, id, msg)
                 = [inbox |-> [x.inbox EXCEPT ![s] = Append(@, [id |-> id, msg |-> msg])],
                    state |-> x.state, timers |-> x.timers,
                    msg_counter |-> x.msg_counter, timer_counter |-> x.timer_counter,
                    wire |-> x.wire]
<1> DEFINE y == push(x, s, id, msg)
           entry == [id |-> id, msg |-> msg]
<1>0. y = [x EXCEPT !.inbox = [x.inbox EXCEPT ![s] = Append(@, entry)]]
  BY DEF push
<1> HIDE DEF entry, y
<1>1. y = [inbox |-> [x.inbox EXCEPT ![s] = Append(@, entry)],
           state |-> x.state, timers |-> x.timers,
           msg_counter |-> x.msg_counter, timer_counter |-> x.timer_counter,
           wire |-> x.wire]
  BY <1>0 DEF Node
<1>2. y.inbox = [r \in Services |-> IF r = s THEN Append(x.inbox[s], entry) ELSE x.inbox[r]]
  BY <1>1 DEF Node
<1>3. \A r \in Services : IsSeq(y.inbox[r])
  BY <1>2, SeqAppend DEF Node
<1>4. Timers(cfg, y)
  BY <1>1 DEF Timers, Node, next_deterministic_timer_id
<1>5. Node(cfg, y)
  BY <1>1, <1>2, <1>3, <1>4 DEF Node
<1> QED
  BY <1>1, <1>5 DEF y, entry

LEMMA PushAlike ==
    ASSUME NEW c, NEW x, Node(c, x), NEW d, NEW y, Node(d, y), Alike(x, y),
           NEW s, NEW id, NEW msg
    PROVE  Alike(push(x, s, id, msg), push(y, s, id, msg))
<1> DEFINE p == push(x, s, id, msg)
           q == push(y, s, id, msg)
<1>1. /\ p.inbox = [x.inbox EXCEPT ![s] = Append(@, [id |-> id, msg |-> msg])]
      /\ p.state = x.state /\ p.timers = x.timers
      /\ p.msg_counter = x.msg_counter /\ p.timer_counter = x.timer_counter
  BY PushNode
<1>2. /\ q.inbox = [y.inbox EXCEPT ![s] = Append(@, [id |-> id, msg |-> msg])]
      /\ q.state = y.state /\ q.timers = y.timers
      /\ q.msg_counter = y.msg_counter /\ q.timer_counter = y.timer_counter
  BY PushNode
<1> HIDE DEF p, q
<1>3. Alike(p, q)
  BY <1>1, <1>2 DEF Alike
<1> QED
  BY <1>3 DEF p, q

------------------------------------------------------------------------------
(***************************************************************************)
(* Dispatch: the event it emits depends on the next message id alone.      *)
(***************************************************************************)
Emission(cfg, x, from, out) ==
    LET id == next_deterministic_msg_id(cfg, x)
    IN  IF out.node = cfg.node THEN SendEvent(from, out.service, id, out.msg)
                               ELSE NetSendEvent(cfg, from, out, id)

LEMMA EmissionKind ==
    ASSUME NEW cfg, NEW x, NEW from, NEW out
    PROVE  Emission(cfg, x, from, out).kind \in {"Send", "NetSend"}
BY DEF Emission, SendEvent, NetSendEvent

(* A node's next message id is used up. *)
LEMMA CountedNode ==
    ASSUME NEW cfg, cfg.node \in Nat, NEW x, Node(cfg, x), NEW w, Addressed(cfg, w)
    PROVE  LET y == [inbox |-> x.inbox, state |-> x.state, timers |-> x.timers,
                     msg_counter |-> x.msg_counter + 1,
                     timer_counter |-> x.timer_counter, wire |-> w]
           IN  Node(cfg, y)
<1> DEFINE y == [inbox |-> x.inbox, state |-> x.state, timers |-> x.timers,
                 msg_counter |-> x.msg_counter + 1,
                 timer_counter |-> x.timer_counter, wire |-> w]
<1>1. /\ y.inbox = x.inbox /\ y.state = x.state /\ y.timers = x.timers
      /\ y.msg_counter = x.msg_counter + 1 /\ y.timer_counter = x.timer_counter
      /\ y.wire = w
  OBVIOUS
<1>2. y = [inbox |-> y.inbox, state |-> y.state, timers |-> y.timers,
           msg_counter |-> y.msg_counter, timer_counter |-> y.timer_counter,
           wire |-> y.wire]
  OBVIOUS
<1> HIDE DEF y
<1>3. Timers(cfg, y)
  BY <1>1 DEF Timers, Node, next_deterministic_timer_id
<1>4. Node(cfg, y)
  BY <1>1, <1>2, <1>3 DEF Node
<1> QED
  BY <1>4 DEF y

(* What a dispatch makes of the node x. *)
Envelope(cfg, x, out) ==
    [from_node |-> cfg.node, to_node |-> out.node, to |-> out.service,
     id |-> next_deterministic_msg_id(cfg, x), msg |-> out.msg]

Dispatched(cfg, x, out, y) ==
    LET entry == [id |-> next_deterministic_msg_id(cfg, x), msg |-> out.msg]
    IN  /\ y.state = x.state /\ y.timers = x.timers
        /\ y.msg_counter = x.msg_counter + 1 /\ y.timer_counter = x.timer_counter
        /\ y.inbox = IF out.node = cfg.node
                     THEN [x.inbox EXCEPT ![out.service] = Append(@, entry)]
                     ELSE x.inbox
        /\ y.wire \in {x.wire, x.wire \cup {Envelope(cfg, x, out)}}
        /\ cfg.mode # "record" \/ out.node = cfg.node => y.wire = x.wire

LEMMA Dispatch ==
    ASSUME NEW cfg, cfg.node \in Nat, NEW acc, Node(cfg, acc.sys), NEW from, NEW out
    PROVE  LET d == dispatch_outgoing(acc, cfg, from, out)
           IN  /\ Node(cfg, d.sys) /\ Dispatched(cfg, acc.sys, out, d.sys)
               /\ d.events = Append(acc.events, Emission(cfg, acc.sys, from, out))
<1> DEFINE x == acc.sys
           id == next_deterministic_msg_id(cfg, x)
           env == [from_node |-> cfg.node, to_node |-> out.node,
                   to |-> out.service, id |-> id, msg |-> out.msg]
           Counted(w) == [inbox |-> x.inbox, state |-> x.state, timers |-> x.timers,
                          msg_counter |-> x.msg_counter + 1,
                          timer_counter |-> x.timer_counter, wire |-> w]
           d == dispatch_outgoing(acc, cfg, from, out)
<1>1. [x EXCEPT !.msg_counter = @ + 1] = Counted(x.wire)
  BY DEF Node
<1>2. \A w : Addressed(cfg, w) => Node(cfg, Counted(w))
  BY CountedNode
<1>0. Addressed(cfg, x.wire)
  BY DEF Node
<1>3. CASE out.node = cfg.node
  <2>1. d = [sys |-> push(Counted(x.wire), out.service, id, out.msg),
             events |-> Append(acc.events, SendEvent(from, out.service, id, out.msg))]
    BY <1>1, <1>3 DEF dispatch_outgoing
  <2> DEFINE z == Counted(x.wire)
             y == push(z, out.service, id, out.msg)
  <2>0. /\ Node(cfg, z) /\ z.inbox = x.inbox /\ z.state = x.state
        /\ z.timers = x.timers /\ z.msg_counter = x.msg_counter + 1
        /\ z.timer_counter = x.timer_counter /\ z.wire = x.wire
    BY <1>0, <1>2
  <2> HIDE DEF id, z
  <2>4. Node(cfg, z)
    BY <2>0
  <2>5. /\ Node(cfg, y)
        /\ y = [inbox |-> [z.inbox EXCEPT ![out.service]
                             = Append(@, [id |-> id, msg |-> out.msg])],
                state |-> z.state, timers |-> z.timers,
                msg_counter |-> z.msg_counter, timer_counter |-> z.timer_counter,
                wire |-> z.wire]
    <3>1. Node(cfg, push(z, out.service, id, out.msg))
      BY <2>4, PushNode
    <3> DEFINE svc == out.service
               txt == out.msg
    <3> HIDE DEF svc, txt
    <3>2. push(z, svc, id, txt) = [inbox |-> [z.inbox EXCEPT ![svc]
                             = Append(@, [id |-> id, msg |-> txt])],
                state |-> z.state, timers |-> z.timers,
                msg_counter |-> z.msg_counter, timer_counter |-> z.timer_counter,
                wire |-> z.wire]
      BY <2>4, PushNode
    <3> QED
      BY <3>1, <3>2 DEF svc, txt
  <2> HIDE DEF y
  <2>2. /\ Node(cfg, y)
        /\ y = [inbox |-> [x.inbox EXCEPT ![out.service]
                             = Append(@, [id |-> id, msg |-> out.msg])],
                state |-> x.state, timers |-> x.timers,
                msg_counter |-> x.msg_counter + 1,
                timer_counter |-> x.timer_counter, wire |-> x.wire]
    BY <2>0, <2>5
  <2> HIDE DEF d
  <2>3. d.sys = y /\ d.events = Append(acc.events, Emission(cfg, x, from, out))
    BY <1>3, <2>1 DEF y, z, Emission, id
  <2>6. Dispatched(cfg, x, out, d.sys)
    BY <1>3, <2>2, <2>3 DEF Dispatched, id
  <2> QED
    BY <2>2, <2>3, <2>6 DEF d
<1>4. CASE out.node # cfg.node
  <2> DEFINE w == IF cfg.mode = "record" /\ out.node \in cfg.peers
                  THEN x.wire \cup {env} ELSE x.wire
  <2>1. [Counted(x.wire) EXCEPT !.wire = @ \cup {env}] = Counted(x.wire \cup {env})
    <3>1. \A v : [Counted(x.wire) EXCEPT !.wire = v] = Counted(v)
      OBVIOUS
    <3>2. Counted(x.wire).wire = x.wire
      OBVIOUS
    <3> HIDE DEF Counted, env
    <3> QED
      BY <3>1, <3>2
  <2>2. d = [sys |-> Counted(w),
             events |-> Append(acc.events, NetSendEvent(cfg, from, out, id))]
    BY <1>1, <1>4, <2>1 DEF dispatch_outgoing
  <2>7. Addressed(cfg, w)
    <3>1. CASE cfg.mode = "record" /\ out.node \in cfg.peers
      <4>1. w = x.wire \cup {env} /\ env.from_node = cfg.node /\ env.to_node \in cfg.peers
        BY <3>1
      <4> HIDE DEF w, env
      <4>2. IsFiniteSet(w)
        BY <1>0, <4>1, FS_AddElement DEF Addressed
      <4> QED
        BY <1>0, <4>1, <4>2 DEF Addressed
    <3>2. CASE ~ (cfg.mode = "record" /\ out.node \in cfg.peers)
      BY <1>0, <3>2
    <3> QED
      BY <3>1, <3>2
  <2>3. Node(cfg, Counted(w))
    <3> HIDE DEF w
    <3> QED
      BY <1>2, <2>7
  <2>4. /\ cfg.mode # "record" => w = x.wire
        /\ w \in {x.wire, x.wire \cup {Envelope(cfg, x, out)}}
    BY DEF Envelope
  <2> HIDE DEF w, env, id, d
  <2>5. d.sys = Counted(w) /\ d.events = Append(acc.events, Emission(cfg, x, from, out))
    BY <1>4, <2>2 DEF Emission, id
  <2>6. Dispatched(cfg, x, out, d.sys)
    BY <1>4, <2>4, <2>5 DEF Dispatched
  <2> QED
    BY <2>3, <2>5, <2>6 DEF d
<1> QED
  BY <1>3, <1>4

(* What two nodes dispatch is the same when they are alike. *)
LEMMA EmissionAlike ==
    ASSUME NEW c, NEW d, c.node = d.node, NEW x, NEW y, Alike(x, y), NEW from, NEW out
    PROVE  /\ next_deterministic_msg_id(c, x) = next_deterministic_msg_id(d, y)
           /\ Emission(c, x, from, out) = Emission(d, y, from, out)
BY DEF Alike, Emission, next_deterministic_msg_id, SendEvent, NetSendEvent

LEMMA DispatchAlike ==
    ASSUME NEW c, NEW d, c.node \in Nat, c.node = d.node,
           NEW p, Node(c, p.sys), NEW q, Node(d, q.sys), Alike(p.sys, q.sys),
           p.events = q.events, NEW from, NEW out
    PROVE  LET a == dispatch_outgoing(p, c, from, out)
               b == dispatch_outgoing(q, d, from, out)
           IN  Alike(a.sys, b.sys) /\ a.events = b.events
<1> DEFINE a == dispatch_outgoing(p, c, from, out)
           b == dispatch_outgoing(q, d, from, out)
<1>1. /\ next_deterministic_msg_id(c, p.sys) = next_deterministic_msg_id(d, q.sys)
      /\ Emission(c, p.sys, from, out) = Emission(d, q.sys, from, out)
  BY EmissionAlike
<1>2. /\ a.events = Append(p.events, Emission(c, p.sys, from, out))
      /\ Dispatched(c, p.sys, out, a.sys)
  BY Dispatch
<1>3. /\ b.events = Append(q.events, Emission(d, q.sys, from, out))
      /\ Dispatched(d, q.sys, out, b.sys)
  BY Dispatch
<1> HIDE DEF a, b
<1>4. Alike(a.sys, b.sys) /\ a.events = b.events
  BY <1>1, <1>2, <1>3 DEF Alike, Dispatched
<1> QED
  BY <1>4 DEF a, b

------------------------------------------------------------------------------
(***************************************************************************)
(* The entries of an outbox: what they emit follows what was emitted, and  *)
(* the timers they set are due after the step they are set in.             *)
(***************************************************************************)
Grows(cfg, step, p, q) ==
    /\ Node(cfg, q.sys) /\ q.sys.state = p.sys.state
    /\ p.sys.timers \subseteq q.sys.timers
    /\ \A t \in q.sys.timers \ p.sys.timers : t.due_step > step
    /\ cfg.mode # "record" => q.sys.wire = p.sys.wire
    /\ IsSeq(q.events) /\ Len(p.events) <= Len(q.events)
    /\ \A i \in 1..Len(p.events) : q.events[i] = p.events[i]
    /\ \A i \in 1..Len(q.events) :
          i > Len(p.events) => q.events[i].kind \in {"Send", "NetSend"}

LEMMA GrowsOn ==
    ASSUME NEW cfg, NEW step, NEW p, NEW q, NEW r, IsSeq(p.events),
           Grows(cfg, step, p, q), Grows(cfg, step, q, r)
    PROVE  Grows(cfg, step, p, r)
<1>1. Len(p.events) \in Nat /\ Len(q.events) \in Nat /\ Len(r.events) \in Nat
  BY SeqLen DEF Grows
<1>2. \A i \in 1..Len(p.events) : r.events[i] = p.events[i]
  BY <1>1 DEF Grows
<1>3. ASSUME NEW i \in 1..Len(r.events), i > Len(p.events)
      PROVE  r.events[i].kind \in {"Send", "NetSend"}
  <2>1. CASE i > Len(q.events)
    BY <1>3, <2>1 DEF Grows
  <2>2. CASE ~ (i > Len(q.events))
    <3>1. i \in 1..Len(q.events)
      BY <1>1, <2>2
    <3>2. r.events[i] = q.events[i] /\ q.events[i].kind \in {"Send", "NetSend"}
      BY <1>3, <3>1 DEF Grows
    <3> QED
      BY <3>2
  <2> QED
    BY <2>1, <2>2
<1>4. Len(p.events) <= Len(r.events)
  BY <1>1 DEF Grows
<1>5. \A t \in r.sys.timers \ p.sys.timers : t.due_step > step
  BY DEF Grows
<1> QED
  BY <1>2, <1>3, <1>4, <1>5 DEF Grows

(* A timer that is set. *)
LEMMA SetTimer ==
    ASSUME NEW cfg, cfg.node \in Nat, NEW acc, Node(cfg, acc.sys),
           NEW s, NEW out, out.delay \in Nat, out.delay > 0, NEW step \in Nat
    PROVE  LET x == acc.sys
               timer == [id |-> next_deterministic_timer_id(cfg, x),
                         due_step |-> step + out.delay, from |-> s, out |-> out]
               y == EmitOne(acc, cfg, s, out, step).sys
           IN  /\ Node(cfg, y) /\ y.timers = x.timers \cup {timer}
               /\ y.inbox = x.inbox /\ y.state = x.state
               /\ y.msg_counter = x.msg_counter
               /\ y.timer_counter = x.timer_counter + 1 /\ y.wire = x.wire
               /\ EmitOne(acc, cfg, s, out, step).events = acc.events
<1> DEFINE x == acc.sys
           id == next_deterministic_timer_id(cfg, x)
           timer == [id |-> id, due_step |-> step + out.delay, from |-> s, out |-> out]
           counted == [x EXCEPT !.timer_counter = @ + 1]
           z == [counted EXCEPT !.timers = @ \cup {timer}]
           b == EmitOne(acc, cfg, s, out, step)
           y == b.sys
<1>1. b = [sys |-> z, events |-> acc.events]
  BY DEF EmitOne
<1>2. /\ timer.id = id /\ timer.due_step = step + out.delay /\ timer.out = out
  OBVIOUS
<1> HIDE DEF timer, b
<1>3. z = [inbox |-> x.inbox, state |-> x.state, timers |-> x.timers \cup {timer},
           msg_counter |-> x.msg_counter, timer_counter |-> x.timer_counter + 1,
           wire |-> x.wire]
  <2>1. counted = [inbox |-> x.inbox, state |-> x.state, timers |-> x.timers,
                   msg_counter |-> x.msg_counter,
                   timer_counter |-> x.timer_counter + 1, wire |-> x.wire]
    BY DEF Node
  <2> HIDE DEF counted
  <2>2. counted.timers = x.timers
    BY <2>1
  <2> QED
    BY <2>1, <2>2
<1> HIDE DEF z
<1>4. y = z /\ b.events = acc.events
  BY <1>1
<1> HIDE DEF y
<1>5. /\ y.inbox = x.inbox /\ y.state = x.state /\ y.timers = x.timers \cup {timer}
      /\ y.msg_counter = x.msg_counter /\ y.timer_counter = x.timer_counter + 1
      /\ y.wire = x.wire
  BY <1>3, <1>4
<1>6. x.timer_counter \in Nat /\ Timers(cfg, x)
  BY DEF Node
<1>7. /\ id \in Nat /\ next_deterministic_timer_id(cfg, y) = id + 1
  BY <1>5, <1>6 DEF next_deterministic_timer_id, TimerOffset
<1>8. Timers(cfg, y)
  <2> HIDE DEF id, x
  <2>1. IsFiniteSet(y.timers)
    BY <1>5, <1>6, FS_AddElement DEF Timers
  <2>2. \A t \in x.timers : t.id \in Nat /\ t.id < id
    BY <1>6 DEF Timers, id
  <2>3. step + out.delay \in Nat
    OBVIOUS
  <2>4. ASSUME NEW t \in y.timers
        PROVE  /\ t.id \in Nat /\ t.id < next_deterministic_timer_id(cfg, y)
               /\ t.due_step \in Nat /\ t.out.delay \in Nat /\ t.out.delay > 0
    <3>1. CASE t \in x.timers
      BY <1>6, <1>7, <2>2, <3>1 DEF Timers
    <3>2. CASE t = timer
      BY <1>2, <1>7, <2>3, <3>2
    <3> QED
      BY <1>5, <3>1, <3>2
  <2>5. ASSUME NEW t \in y.timers, NEW u \in y.timers, t.id = u.id PROVE t = u
    <3>1. t \in x.timers \cup {timer} /\ u \in x.timers \cup {timer}
      BY <1>5
    <3>2. \A v \in x.timers : v.id # timer.id
      BY <1>2, <1>7, <2>2
    <3> QED
      BY <1>6, <2>5, <3>1, <3>2 DEF Timers
  <2> QED
    BY <2>1, <2>4, <2>5 DEF Timers
<1>9. Node(cfg, y)
  <2>1. y = [inbox |-> y.inbox, state |-> y.state, timers |-> y.timers,
             msg_counter |-> y.msg_counter, timer_counter |-> y.timer_counter,
             wire |-> y.wire]
    BY <1>3, <1>4, <1>5
  <2> QED
    BY <1>5, <1>8, <2>1 DEF Node
<1> QED
  BY <1>4, <1>5, <1>9 DEF y, b, timer

LEMMA EmitOneGrows ==
    ASSUME NEW cfg, cfg.node \in Nat, NEW acc, Node(cfg, acc.sys), IsSeq(acc.events),
           NEW s, NEW out, out.delay \in Nat, NEW step \in Nat
    PROVE  LET b == EmitOne(acc, cfg, s, out, step)
           IN  Grows(cfg, step, acc, b) /\ b = [sys |-> b.sys, events |-> b.events]
<1> DEFINE b == EmitOne(acc, cfg, s, out, step)
<1>1. Len(acc.events) \in Nat
  BY SeqLen
<1>2. CASE out.delay > 0
  <2> DEFINE timer == [id |-> next_deterministic_timer_id(cfg, acc.sys),
                       due_step |-> step + out.delay, from |-> s, out |-> out]
  <2>1. /\ Node(cfg, b.sys) /\ b.sys.timers = acc.sys.timers \cup {timer}
        /\ b.sys.state = acc.sys.state /\ b.sys.wire = acc.sys.wire
        /\ b.events = acc.events
    BY <1>2, SetTimer
  <2>2. timer.due_step > step
    BY <1>2
  <2>3. b = [sys |-> b.sys, events |-> b.events]
    <3>1. \E z, e : b = [sys |-> z, events |-> e]
      BY <1>2 DEF EmitOne
    <3> HIDE DEF b
    <3> QED
      BY <3>1
  <2> HIDE DEF b, timer
  <2>4. Grows(cfg, step, acc, b)
    BY <1>1, <2>1, <2>2 DEF Grows
  <2> QED
    BY <2>3, <2>4 DEF b
<1>3. CASE ~ (out.delay > 0)
  <2>1. b = dispatch_outgoing(acc, cfg, s, out)
    BY <1>3 DEF EmitOne
  <2>2. /\ Node(cfg, b.sys) /\ Dispatched(cfg, acc.sys, out, b.sys)
        /\ b.events = Append(acc.events, Emission(cfg, acc.sys, s, out))
    BY <2>1, Dispatch
  <2>3. b = [sys |-> b.sys, events |-> b.events]
    <3>1. \E z, e : b = [sys |-> z, events |-> e]
      BY <2>1 DEF dispatch_outgoing
    <3> HIDE DEF b
    <3> QED
      BY <3>1
  <2> HIDE DEF b
  <2> DEFINE e == Emission(cfg, acc.sys, s, out)
  <2>4. e.kind \in {"Send", "NetSend"}
    BY EmissionKind
  <2> HIDE DEF e
  <2>5. /\ IsSeq(b.events) /\ Len(b.events) = Len(acc.events) + 1
        /\ \A i \in 1..Len(acc.events) : b.events[i] = acc.events[i]
        /\ b.events[Len(acc.events) + 1] = e
    BY <2>2, SeqAppend DEF e
  <2>6. Grows(cfg, step, acc, b)
    BY <1>1, <2>2, <2>4, <2>5 DEF Grows, Dispatched
  <2> QED
    BY <2>3, <2>6 DEF b
<1> QED
  BY <1>2, <1>3

LEMMA EmitOneAlike ==
    ASSUME NEW c, NEW d, c.node \in Nat, c.node = d.node,
           NEW p, Node(c, p.sys), NEW q, Node(d, q.sys),
           Alike(p.sys, q.sys), p.events = q.events,
           NEW s, NEW out, out.delay \in Nat, NEW m \in Nat, NEW n \in Nat
    PROVE  LET a == EmitOne(p, c, s, out, m)
               b == EmitOne(q, d, s, out, n)
           IN  Alike(a.sys, b.sys) /\ a.events = b.events
<1> DEFINE a == EmitOne(p, c, s, out, m)
           b == EmitOne(q, d, s, out, n)
<1>0. d.node \in Nat
  OBVIOUS
<1>1. CASE out.delay > 0
  <2> DEFINE t == [id |-> next_deterministic_timer_id(c, p.sys),
                   due_step |-> m + out.delay, from |-> s, out |-> out]
             u == [id |-> next_deterministic_timer_id(d, q.sys),
                   due_step |-> n + out.delay, from |-> s, out |-> out]
  <2>1. /\ a.sys.timers = p.sys.timers \cup {t}
        /\ a.sys.inbox = p.sys.inbox /\ a.sys.state = p.sys.state
        /\ a.sys.msg_counter = p.sys.msg_counter
        /\ a.sys.timer_counter = p.sys.timer_counter + 1 /\ a.events = p.events
    BY <1>1, SetTimer
  <2>2. /\ b.sys.timers = q.sys.timers \cup {u}
        /\ b.sys.inbox = q.sys.inbox /\ b.sys.state = q.sys.state
        /\ b.sys.msg_counter = q.sys.msg_counter
        /\ b.sys.timer_counter = q.sys.timer_counter + 1 /\ b.events = q.events
    BY <1>0, <1>1, SetTimer
  <2>3. SameTimer(t, u)
    BY DEF SameTimer, Alike, next_deterministic_timer_id
  <2> HIDE DEF a, b, t, u
  <2>4. \A v \in a.sys.timers : \E w \in b.sys.timers : SameTimer(v, w)
    BY <2>1, <2>2, <2>3 DEF Alike
  <2>5. \A w \in b.sys.timers : \E v \in a.sys.timers : SameTimer(v, w)
    BY <2>1, <2>2, <2>3 DEF Alike
  <2>6. Alike(a.sys, b.sys) /\ a.events = b.events
    BY <2>1, <2>2, <2>4, <2>5 DEF Alike
  <2> QED
    BY <2>6 DEF a, b
<1>2. CASE ~ (out.delay > 0)
  <2>1. a = dispatch_outgoing(p, c, s, out) /\ b = dispatch_outgoing(q, d, s, out)
    BY <1>2 DEF EmitOne
  <2> HIDE DEF a, b
  <2>2. Alike(a.sys, b.sys) /\ a.events = b.events
    BY <2>1, DispatchAlike
  <2> QED
    BY <2>2 DEF a, b
<1> QED
  BY <1>1, <1>2

LEMMA EmitAllGrows ==
    ASSUME NEW cfg, cfg.node \in Nat, NEW acc, Node(cfg, acc.sys), IsSeq(acc.events),
           NEW s, NEW outbox, IsSeq(outbox),
           \A i \in 1..Len(outbox) : outbox[i].delay \in Nat, NEW step \in Nat
    PROVE  Grows(cfg, step, acc, EmitAll(acc, cfg, s, outbox, step))
<1> DEFINE n == Len(outbox)
<1>1. n \in Nat /\ DOMAIN outbox = 1..n
  BY SeqLen
<1> HIDE DEF n
<1>2. PICK run : EmitsBy(run, n, acc, cfg, s, outbox, step)
  BY <1>1, EmitRun
<1> DEFINE T == {k \in Nat : k <= n => Grows(cfg, step, acc, run[k])}
<1>3. 0 \in T
  <2>1. Len(acc.events) \in Nat
    BY SeqLen
  <2> QED
    BY <1>2, <2>1 DEF Grows, EmitsBy
<1>4. ASSUME NEW k \in T, k + 1 <= n PROVE Grows(cfg, step, acc, run[k + 1])
  <2>1. k \in Nat /\ k <= n /\ Grows(cfg, step, acc, run[k])
    BY <1>1, <1>4
  <2>2. run[k + 1] = EmitOne(run[k], cfg, s, outbox[k + 1], step)
    <3>1. k + 1 \in 1..n /\ (k + 1) - 1 = k
      BY <1>1, <1>4, <2>1
    <3> QED
      BY <1>2, <3>1 DEF EmitsBy
  <2>3. outbox[k + 1].delay \in Nat
    BY <1>1, <1>4, <2>1 DEF n
  <2>4. Node(cfg, run[k].sys) /\ IsSeq(run[k].events)
    BY <2>1 DEF Grows
  <2>5. Grows(cfg, step, run[k], run[k + 1])
    BY <2>2, <2>3, <2>4, EmitOneGrows
  <2> QED
    BY <2>1, <2>5, GrowsOn
<1>5. \A k \in T \cap Nat : k + 1 \in T
  BY <1>4
<1> HIDE DEF T
<1>6. n \in T
  BY <1>1, <1>3, <1>5, Induction
<1>7. Grows(cfg, step, acc, run[n])
  BY <1>1, <1>6 DEF T
<1> QED
  BY <1>2, <1>7 DEF EmitsBy

LEMMA EmitAllAlike ==
    ASSUME NEW c, NEW d, c.node \in Nat, c.node = d.node,
           NEW p, Node(c, p.sys), IsSeq(p.events), NEW q, Node(d, q.sys),
           Alike(p.sys, q.sys), p.events = q.events,
           NEW s, NEW outbox, IsSeq(outbox),
           \A i \in 1..Len(outbox) : outbox[i].delay \in Nat,
           NEW l \in Nat, NEW m \in Nat
    PROVE  LET a == EmitAll(p, c, s, outbox, l)
               b == EmitAll(q, d, s, outbox, m)
           IN  Alike(a.sys, b.sys) /\ a.events = b.events
<1> DEFINE n == Len(outbox)
<1>1. n \in Nat /\ DOMAIN outbox = 1..n
  BY SeqLen
<1>0. d.node \in Nat /\ IsSeq(q.events)
  OBVIOUS
<1> HIDE DEF n
<1>2. PICK f : EmitsBy(f, n, p, c, s, outbox, l)
  BY <1>1, EmitRun
<1>3. PICK g : EmitsBy(g, n, q, d, s, outbox, m)
  BY <1>1, EmitRun
<1> DEFINE Same(a, b) == /\ Node(c, a.sys) /\ IsSeq(a.events) /\ Node(d, b.sys)
                         /\ Alike(a.sys, b.sys) /\ a.events = b.events
           T == {k \in Nat : k <= n => Same(f[k], g[k])}
<1>4. 0 \in T
  BY <1>2, <1>3 DEF EmitsBy
<1>5. ASSUME NEW k \in T, k + 1 <= n PROVE Same(f[k + 1], g[k + 1])
  <2>1. k \in Nat /\ k <= n /\ Same(f[k], g[k])
    BY <1>1, <1>5
  <2>2. k + 1 \in 1..n /\ (k + 1) - 1 = k /\ outbox[k + 1].delay \in Nat
    BY <1>1, <1>5, <2>1 DEF n
  <2>3. f[k + 1] = EmitOne(f[k], c, s, outbox[k + 1], l)
    BY <1>2, <2>2 DEF EmitsBy
  <2>4. g[k + 1] = EmitOne(g[k], d, s, outbox[k + 1], m)
    BY <1>3, <2>2 DEF EmitsBy
  <2>5. Alike(f[k + 1].sys, g[k + 1].sys) /\ f[k + 1].events = g[k + 1].events
    BY <2>1, <2>2, <2>3, <2>4, EmitOneAlike
  <2>6. Grows(c, l, f[k], f[k + 1])
    BY <2>1, <2>2, <2>3, EmitOneGrows
  <2>7. Grows(d, m, g[k], g[k + 1])
    BY <1>0, <2>1, <2>2, <2>4, EmitOneGrows
  <2> QED
    BY <2>5, <2>6, <2>7 DEF Grows
<1>6. \A k \in T \cap Nat : k + 1 \in T
  BY <1>5
<1> HIDE DEF T
<1>7. n \in T
  BY <1>1, <1>4, <1>6, Induction
<1>8. Same(f[n], g[n])
  BY <1>1, <1>7 DEF T
<1> QED
  BY <1>2, <1>3, <1>8 DEF EmitsBy

------------------------------------------------------------------------------
(***************************************************************************)
(* The elements of a finite set, in the order of a numbering.              *)
(***************************************************************************)
LEMMA Enumeration ==
    ASSUME NEW S, IsFiniteSet(S), NEW key, \A x \in S : key[x] \in Nat,
           \A x, y \in S : key[x] = key[y] => x = y
    PROVE  \E q \in [1..Cardinality(S) -> S] :
              \A i, j \in DOMAIN q : i < j => key[q[i]] < key[q[j]]
<1> DEFINE Sorted(q) == \A i, j \in DOMAIN q : i < j => key[q[i]] < key[q[j]]
           T == {n \in Nat : \A A \in SUBSET S :
                    Cardinality(A) = n => \E q \in [1..n -> A] : Sorted(q)}
<1>1. 0 \in T
  <2>1. \A A \in SUBSET S : Cardinality(A) = 0 => A = {}
    BY FS_Subset, FS_EmptySet
  <2>2. <<>> \in [1..0 -> {}] /\ Sorted(<<>>)
    OBVIOUS
  <2> QED
    BY <2>1, <2>2
<1>2. ASSUME NEW n \in T, NEW A \in SUBSET S, Cardinality(A) = n + 1
      PROVE  \E q \in [1..(n + 1) -> A] : Sorted(q)
  <2>0. n \in Nat /\ IsFiniteSet(A)
    BY FS_Subset
  <2>1. A # {}
    BY <1>2, <2>0, FS_EmptySet
  <2>2. PICK m \in A : \A x \in A : key[m] <= key[x]
    <3> DEFINE K == {key[x] : x \in A}
    <3>1. K \subseteq Nat /\ K # {}
      BY <2>1
    <3>2. PICK k \in K : \A y \in K : k <= y
      <4> HIDE DEF K
      <4> QED
        BY <3>1, LeastNumber
    <3> QED
      BY <3>2
  <2> DEFINE B == A \ {m}
  <2>3. Cardinality(B) = n /\ B \in SUBSET S
    <3>1. Cardinality(B) = Cardinality(A) - 1
      BY <2>0, FS_RemoveElement
    <3> QED
      BY <1>2, <2>0, <3>1
  <2>4. PICK p \in [1..n -> B] : Sorted(p)
    BY <2>0, <2>3
  <2>5. \A x \in B : key[m] < key[x]
    BY <2>2
  <2> DEFINE q == [i \in 1..(n + 1) |-> IF i = 1 THEN m ELSE p[i - 1]]
  <2>6. q \in [1..(n + 1) -> A]
    BY <2>0
  <2>7. ASSUME NEW i \in 1..(n + 1), NEW j \in 1..(n + 1), i < j
        PROVE  key[q[i]] < key[q[j]]
    <3>1. j - 1 \in 1..n /\ q[j] = p[j - 1]
      BY <2>0, <2>7
    <3>2. CASE i = 1
      BY <2>5, <3>1, <3>2
    <3>3. CASE i # 1
      <4>1. i - 1 \in 1..n /\ q[i] = p[i - 1] /\ i - 1 < j - 1
        BY <2>0, <2>7, <3>3
      <4> HIDE DEF q
      <4> QED
        BY <2>4, <3>1, <4>1
    <3> QED
      BY <3>2, <3>3
  <2> QED
    BY <2>6, <2>7
<1>3. \A n \in T \cap Nat : n + 1 \in T
  BY <1>2
<1>4. Cardinality(S) \in Nat
  BY FS_CardinalityType
<1> HIDE DEF T
<1>5. Cardinality(S) \in T
  BY <1>1, <1>3, <1>4, Induction
<1> QED
  BY <1>5 DEF T

LEMMA SortedPeers ==
    ASSUME NEW peers \in SUBSET Nat, IsFiniteSet(peers)
    PROVE  IsSeq(sorted_peer_ids(peers))
<1> DEFINE key == [p \in peers |-> p]
           n == Cardinality(peers)
<1>1. \A x \in peers : key[x] \in Nat
  OBVIOUS
<1>2. \E q \in [1..n -> peers] : \A i, j \in DOMAIN q : i < j => key[q[i]] < key[q[j]]
  <2>1. \A x, y \in peers : key[x] = key[y] => x = y
    OBVIOUS
  <2> HIDE DEF key
  <2> QED
    BY <1>1, <2>1, Enumeration
<1>3. \E q \in [1..n -> peers] : \A i, j \in DOMAIN q : i < j => q[i] < q[j]
  BY <1>2
<1>4. sorted_peer_ids(peers) \in [1..n -> peers]
  BY <1>3 DEF sorted_peer_ids, Ascending
<1>5. n \in Nat
  BY FS_CardinalityType
<1> HIDE DEF n
<1> QED
  BY <1>4, <1>5, SeqMade

LEMMA TimersById ==
    ASSUME NEW S, IsFiniteSet(S), \A t \in S : t.id \in Nat,
           \A t, u \in S : t.id = u.id => t = u
    PROVE  LET q == ById(S)
               n == Cardinality(S)
           IN  /\ n \in Nat /\ q \in [1..n -> S]
               /\ \A i, j \in 1..n : q[i] = q[j] => i = j
               /\ \A t \in S : \E i \in 1..n : q[i] = t
<1> DEFINE key == [t \in S |-> t.id]
           n == Cardinality(S)
<1>1. \A x \in S : key[x] \in Nat
  OBVIOUS
<1>2. \E q \in [1..n -> S] : \A i, j \in DOMAIN q : i < j => key[q[i]] < key[q[j]]
  <2>1. \A x, y \in S : key[x] = key[y] => x = y
    OBVIOUS
  <2> HIDE DEF key
  <2> QED
    BY <1>1, <2>1, Enumeration
<1>3. \E q \in [1..n -> S] : \A i, j \in DOMAIN q : i < j => q[i].id < q[j].id
  BY <1>2
<1> DEFINE q == ById(S)
<1>4. q \in [1..n -> S] /\ \A i, j \in 1..n : i < j => q[i].id < q[j].id
  BY <1>3 DEF ById, Ascending
<1>5. n \in Nat
  BY FS_CardinalityType
<1> HIDE DEF q, n
<1>6. \A i, j \in 1..n : q[i] = q[j] => i = j
  BY <1>4, <1>5
<1>7. q \in Injection(1..n, S)
  BY <1>4, <1>6 DEF Injection, IsInjective
<1>8. IsFiniteSet(1..n) /\ Cardinality(1..n) = n
  BY <1>5, FS_Interval
<1>9. q \in Surjection(1..n, S)
  BY <1>7, <1>8, FS_Injection DEF n
<1> QED
  BY <1>4, <1>5, <1>6, <1>9 DEF n, q, Surjection

------------------------------------------------------------------------------
(***************************************************************************)
(* The execution of a handler.                                             *)
(***************************************************************************)
(* What a configuration is, and which two run the same node: recording and *)
(* replay differ in their mode alone.                                      *)
Host(c) == c.node \in Nat /\ c.peers \subseteq Nat /\ IsFiniteSet(c.peers)
SameHost(c, d) == c.node = d.node /\ c.peers = d.peers

Context(s, ctx) ==
    /\ ctx = [ok |-> ctx.ok, state |-> ctx.state, logs |-> ctx.logs,
              outbox |-> ctx.outbox, observed |-> ctx.observed]
    /\ ctx.ok \in BOOLEAN /\ ctx.state \in State(s)
    /\ IsSeq(ctx.logs) /\ IsSeq(ctx.outbox)
    /\ \A i \in 1..Len(ctx.outbox) : ctx.outbox[i].delay \in Nat

LEMMA TargetNodesSeq ==
    ASSUME NEW cfg, Host(cfg), NEW a, TypedAction(a), a.effect \in SendEffects, NEW incoming
    PROVE  IsSeq(TargetNodes(cfg, a, incoming))
<1>1. CASE a.effect \in {"send_local", "timer_local"}
  <2>1. TargetNodes(cfg, a, incoming) = <<cfg.node>>
    BY <1>1 DEF TargetNodes, TypedAction
  <2> QED
    BY <2>1, SeqOne
<1>2. CASE a.effect \notin {"send_local", "timer_local"}
  <2>1. a.target \in {"peers", "sender", "node"}
    BY <1>2 DEF TypedAction
  <2>2. CASE a.target = "peers"
    <3>1. TargetNodes(cfg, a, incoming) = IF cfg.peers = {} THEN <<cfg.node>>
                                          ELSE sorted_peer_ids(cfg.peers)
      BY <1>2, <2>2 DEF TargetNodes
    <3>2. IsSeq(sorted_peer_ids(cfg.peers))
      BY SortedPeers DEF Host
    <3> QED
      BY <3>1, <3>2, SeqOne
  <2>3. CASE a.target = "sender"
    <3>1. TargetNodes(cfg, a, incoming) = <<incoming.from_node>>
      BY <1>2, <2>3 DEF TargetNodes
    <3> QED
      BY <3>1, SeqOne
  <2>4. CASE a.target = "node"
    <3>1. TargetNodes(cfg, a, incoming) = <<a.node>>
      BY <1>2, <2>4 DEF TargetNodes
    <3> QED
      BY <3>1, SeqOne
  <2> QED
    BY <2>1, <2>2, <2>3, <2>4
<1> QED
  BY <1>1, <1>2

LEMMA PerformContext ==
    ASSUME NEW cfg, Host(cfg), NEW s, NEW ctx, Context(s, ctx), NEW a, TypedAction(a),
           a.effect = "state_write" => a.key \in DOMAIN Program.initial[s],
           NEW incoming, NEW id
    PROVE  Context(s, Perform(ctx, cfg, s, a, incoming, id))
<1> DEFINE y == Perform(ctx, cfg, s, a, incoming, id)
<1>1. CASE a.effect = "log"
  <2>1. y = [ctx EXCEPT !.logs = Append(@, ctx.state)]
    BY <1>1 DEF Perform
  <2> HIDE DEF y
  <2>2. y = [ok |-> ctx.ok, state |-> ctx.state, logs |-> Append(ctx.logs, ctx.state),
             outbox |-> ctx.outbox, observed |-> ctx.observed]
    BY <2>1 DEF Context
  <2>3. IsSeq(y.logs)
    BY <2>2, SeqAppend DEF Context
  <2>4. Context(s, y)
    BY <2>2, <2>3 DEF Context
  <2> QED
    BY <2>4 DEF y
<1>2. CASE a.effect = "state_write" /\ a.op = "set"
  <2>1. y = [ctx EXCEPT !.state = [ctx.state EXCEPT ![a.key] = a.value]]
    BY <1>2 DEF Perform
  <2> HIDE DEF y
  <2>2. y = [ok |-> ctx.ok, state |-> [ctx.state EXCEPT ![a.key] = a.value],
             logs |-> ctx.logs, outbox |-> ctx.outbox, observed |-> ctx.observed]
    BY <2>1 DEF Context
  <2>3. a.value \in I64
    BY <1>2 DEF TypedAction
  <2>4. y.state \in State(s)
    BY <2>2, <2>3 DEF Context, State
  <2>5. Context(s, y)
    BY <2>2, <2>4 DEF Context
  <2> QED
    BY <2>5 DEF y
<1>3. CASE a.effect = "state_write" /\ a.op = "inc"
  <2>1. CASE ctx.state[a.key] + a.by \notin I64
    <3>1. y = [ctx EXCEPT !.ok = FALSE]
      BY <1>3, <2>1 DEF Perform
    <3> HIDE DEF y
    <3>2. y = [ok |-> FALSE, state |-> ctx.state, logs |-> ctx.logs,
               outbox |-> ctx.outbox, observed |-> ctx.observed]
      BY <3>1 DEF Context
    <3>3. Context(s, y)
      BY <3>2 DEF Context
    <3> QED
      BY <3>3 DEF y
  <2>2. CASE ctx.state[a.key] + a.by \in I64
    <3> DEFINE v == ctx.state[a.key] + a.by
    <3>1. y = [ctx EXCEPT !.state = [ctx.state EXCEPT ![a.key] = v]]
      BY <1>3, <2>2 DEF Perform
    <3> HIDE DEF y, v
    <3>2. y = [ok |-> ctx.ok, state |-> [ctx.state EXCEPT ![a.key] = v],
               logs |-> ctx.logs, outbox |-> ctx.outbox, observed |-> ctx.observed]
      BY <3>1 DEF Context
    <3>3. v \in I64
      BY <2>2 DEF v
    <3>4. y.state \in State(s)
      BY <3>2, <3>3 DEF Context, State
    <3>5. Context(s, y)
      BY <3>2, <3>4 DEF Context
    <3> QED
      BY <3>5 DEF y
  <2> QED
    BY <2>1, <2>2
<1>4. CASE a.effect \in SendEffects
  <2> DEFINE nodes == TargetNodes(cfg, a, incoming)
             msg == build_outbound_message(cfg, s, a, ctx.state, incoming, id)
             more == [i \in DOMAIN nodes |-> [node |-> nodes[i], service |-> a.service,
                                              msg |-> msg, delay |-> a.steps]]
  <2>1. y = [ctx EXCEPT !.outbox = @ \o more]
    BY <1>4 DEF Perform, SendEffects, TimerEffects
  <2>2. a.steps \in Nat
    BY <1>4 DEF TypedAction
  <2>3. IsSeq(nodes)
    BY <1>4, TargetNodesSeq
  <2> HIDE DEF nodes, msg, y
  <2>4. Len(nodes) \in Nat /\ DOMAIN nodes = 1..Len(nodes)
    BY <2>3, SeqLen
  <2>5. \A i \in 1..Len(nodes) : more[i].delay = a.steps
    BY <2>4
  <2>6. more = [i \in 1..Len(nodes) |-> more[i]]
    BY <2>4
  <2> HIDE DEF more
  <2>7. IsSeq(more) /\ Len(more) = Len(nodes)
    BY <2>4, <2>6, SeqMade
  <2>8. y = [ok |-> ctx.ok, state |-> ctx.state, logs |-> ctx.logs,
             outbox |-> ctx.outbox \o more, observed |-> ctx.observed]
    BY <2>1 DEF Context
  <2>12. IsSeq(ctx.outbox)
    BY DEF Context
  <2>9. IsSeq(ctx.outbox \o more) /\ Len(ctx.outbox) \in Nat
    BY <2>7, <2>12, SeqConcat
  <2>10. ASSUME NEW i \in 1..Len(ctx.outbox \o more)
         PROVE  (ctx.outbox \o more)[i].delay \in Nat
    <3> DEFINE box == ctx.outbox
    <3>1. IsSeq(box) /\ \A k \in 1..Len(box) : box[k].delay \in Nat
      BY DEF Context
    <3> HIDE DEF box
    <3>2. CASE i <= Len(box)
      <4>1. (box \o more)[i] = box[i] /\ i \in 1..Len(box)
        BY <2>7, <3>1, <3>2, SeqConcat DEF box
      <4> QED
        BY <3>1, <4>1 DEF box
    <3>3. CASE i > Len(box)
      <4>1. i - Len(box) \in 1..Len(more) /\ (box \o more)[i] = more[i - Len(box)]
        BY <2>7, <3>1, <3>3, SeqConcat DEF box
      <4> QED
        BY <2>2, <2>5, <2>7, <4>1 DEF box
    <3> QED
      BY <2>9, <3>2, <3>3 DEF box
  <2>11. Context(s, y)
    BY <2>8, <2>9, <2>10 DEF Context
  <2> QED
    BY <2>11 DEF y
<1> QED
  BY <1>1, <1>2, <1>3, <1>4 DEF TypedAction, Effects, SendEffects, TimerEffects

LEMMA ActionContext ==
    ASSUME NEW cfg, Host(cfg), NEW s, NEW ctx, Context(s, ctx), NEW a, TypedAction(a),
           a.effect = "state_write" => a.key \in DOMAIN Program.initial[s],
           NEW incoming, NEW id
    PROVE  Context(s, execute_action(ctx, cfg, s, a, incoming, id))
<1>1. ASSUME NEW v PROVE Context(s, [ctx EXCEPT !.observed = v])
  <2> DEFINE y == [ctx EXCEPT !.observed = v]
  <2>1. y = [ok |-> ctx.ok, state |-> ctx.state, logs |-> ctx.logs,
             outbox |-> ctx.outbox, observed |-> v]
    BY DEF Context
  <2> HIDE DEF y
  <2>2. Context(s, y)
    BY <2>1 DEF Context
  <2> QED
    BY <2>2 DEF y
<1> DEFINE read == IF a.guards = {} THEN {} ELSE {"state_read"}
           seen == [ctx EXCEPT !.observed = @ \cup read]
           more == [seen EXCEPT !.observed = @ \cup {a.effect}]
<1>2. Context(s, seen)
  BY <1>1
<1>3. Context(s, more)
  <2>1. \A v : [seen EXCEPT !.observed = v] = [ctx EXCEPT !.observed = v]
    OBVIOUS
  <2> HIDE DEF seen
  <2> QED
    BY <1>1, <2>1
<1>4. Context(s, Perform(more, cfg, s, a, incoming, id))
  <2> HIDE DEF more
  <2> QED
    BY <1>3, PerformContext
<1>5. execute_action(ctx, cfg, s, a, incoming, id)
         \in {ctx, seen, Perform(more, cfg, s, a, incoming, id)}
  BY DEF execute_action
<1> HIDE DEF seen, more
<1> QED
  BY <1>2, <1>4, <1>5

(* What a handler's plan consists of. *)
LEMMA Plan ==
    ASSUME NEW s \in Services, NEW t \in DOMAIN Program.handlers[s]
    PROVE  LET q == Program.handlers[s][t].actions
           IN  /\ IsSeq(q)
               /\ \A i \in 1..Len(q) :
                     /\ TypedAction(q[i])
                     /\ q[i].effect = "state_write" => q[i].key \in DOMAIN Program.initial[s]
<1> DEFINE q == Program.handlers[s][t].actions
<1>1. q \in Seq(Range(q)) /\ \A a \in Range(q) : TypedAction(a)
  BY TypesAssumption
<1>2. \A i \in DOMAIN q : ValidAction(Program, s, q[i])
  BY ProgramAssumption DEF Loadable, Services
<1> HIDE DEF q
<1>3. DOMAIN q = 1..Len(q)
  BY <1>1
<1>4. \A i \in 1..Len(q) : q[i] \in Range(q)
  BY <1>3 DEF Range
<1>5. \A i \in 1..Len(q) :
         q[i].effect = "state_write" => q[i].key \in DOMAIN Program.initial[s]
  BY <1>2, <1>3 DEF ValidAction
<1>6. /\ IsSeq(q)
      /\ \A i \in 1..Len(q) :
            /\ TypedAction(q[i])
            /\ q[i].effect = "state_write" => q[i].key \in DOMAIN Program.initial[s]
  BY <1>1, <1>4, <1>5 DEF IsSeq
<1> QED
  BY <1>6 DEF q

Fresh(state) == [ok |-> TRUE, state |-> state, logs |-> <<>>,
                 outbox |-> <<>>, observed |-> {}]

LEMMA ExecuteContext ==
    ASSUME NEW cfg, Host(cfg), NEW s \in Services, NEW state \in State(s),
           NEW incoming, NEW id
    PROVE  Context(s, execute_actions(cfg, s, state, incoming, id))
<1> DEFINE q == Program.handlers[s][incoming.type].actions
           n == Len(q)
           out == execute_actions(cfg, s, state, incoming, id)
<1>1. Context(s, Fresh(state))
  BY SeqOne DEF Context, Fresh
<1>2. CASE incoming.type \notin DOMAIN Program.handlers[s]
  <2>1. out = Fresh(state)
    BY <1>2 DEF execute_actions, Fresh
  <2> HIDE DEF out
  <2> QED
    BY <1>1, <2>1 DEF out
<1>3. CASE incoming.type \in DOMAIN Program.handlers[s]
  <2>1. out = PerformAll(Fresh(state), cfg, s, q, incoming, id)
    BY <1>3 DEF execute_actions, Fresh
  <2>2. /\ IsSeq(q)
        /\ \A i \in 1..n :
              /\ TypedAction(q[i])
              /\ q[i].effect = "state_write" => q[i].key \in DOMAIN Program.initial[s]
    BY <1>3, Plan
  <2> HIDE DEF q
  <2>3. n \in Nat /\ DOMAIN q = 1..n
    BY <2>2, SeqLen
  <2> HIDE DEF n, out
  <2>4. PICK run : PerformsBy(run, n, Fresh(state), cfg, s, q, incoming, id)
    BY <2>3, PerformRun
  <2> DEFINE T == {k \in Nat : k <= n => Context(s, run[k])}
  <2>5. 0 \in T
    BY <1>1, <2>4 DEF PerformsBy
  <2>6. ASSUME NEW k \in T, k + 1 <= n PROVE Context(s, run[k + 1])
    <3>1. k \in Nat /\ k <= n /\ Context(s, run[k])
      BY <2>3, <2>6
    <3>2. k + 1 \in 1..n /\ (k + 1) - 1 = k
      BY <2>3, <2>6, <3>1
    <3>3. run[k + 1] = execute_action(run[k], cfg, s, q[k + 1], incoming, id)
      BY <2>4, <3>2 DEF PerformsBy
    <3>4. /\ TypedAction(q[k + 1])
          /\ q[k + 1].effect = "state_write" => q[k + 1].key \in DOMAIN Program.initial[s]
      BY <2>2, <3>2
    <3> QED
      BY <3>1, <3>3, <3>4, ActionContext
  <2>7. \A k \in T \cap Nat : k + 1 \in T
    BY <2>6
  <2> HIDE DEF T
  <2>8. n \in T
    BY <2>3, <2>5, <2>7, Induction
  <2>9. Context(s, run[n])
    BY <2>3, <2>8 DEF T
  <2>10. out = run[n]
    BY <2>1, <2>4 DEF PerformsBy
  <2> QED
    BY <2>9, <2>10 DEF out
<1> QED
  BY <1>2, <1>3

(* A handler does the same on the same host. *)
LEMMA ActionSame ==
    ASSUME NEW c, NEW d, SameHost(c, d), NEW ctx, NEW s, NEW a, NEW incoming, NEW id
    PROVE  execute_action(ctx, c, s, a, incoming, id)
              = execute_action(ctx, d, s, a, incoming, id)
<1>1. TargetNodes(c, a, incoming) = TargetNodes(d, a, incoming)
  BY DEF TargetNodes, SameHost
<1>2. \A text : build_outbound_message(c, s, a, text, incoming, id)
                  = build_outbound_message(d, s, a, text, incoming, id)
  BY DEF build_outbound_message, SameHost
<1>3. \A x : Perform(x, c, s, a, incoming, id) = Perform(x, d, s, a, incoming, id)
  BY <1>1, <1>2 DEF Perform
<1> QED
  BY <1>3 DEF execute_action

LEMMA ExecuteSame ==
    ASSUME NEW c, NEW d, SameHost(c, d), NEW s \in Services, NEW state, NEW incoming, NEW id
    PROVE  execute_actions(c, s, state, incoming, id)
              = execute_actions(d, s, state, incoming, id)
<1> DEFINE q == Program.handlers[s][incoming.type].actions
           n == Len(q)
<1>1. CASE incoming.type \notin DOMAIN Program.handlers[s]
  BY <1>1 DEF execute_actions
<1>2. CASE incoming.type \in DOMAIN Program.handlers[s]
  <2>1. IsSeq(q)
    BY <1>2, Plan
  <2>0. /\ execute_actions(c, s, state, incoming, id)
              = PerformAll(Fresh(state), c, s, q, incoming, id)
        /\ execute_actions(d, s, state, incoming, id)
              = PerformAll(Fresh(state), d, s, q, incoming, id)
    BY <1>2 DEF execute_actions, Fresh
  <2> HIDE DEF q
  <2>2. n \in Nat /\ DOMAIN q = 1..n
    BY <2>1, SeqLen
  <2> HIDE DEF n
  <2>3. PICK f : PerformsBy(f, n, Fresh(state), c, s, q, incoming, id)
    BY <2>2, PerformRun
  <2>4. PICK g : PerformsBy(g, n, Fresh(state), d, s, q, incoming, id)
    BY <2>2, PerformRun
  <2> DEFINE T == {k \in Nat : k <= n => f[k] = g[k]}
  <2>5. 0 \in T
    BY <2>3, <2>4 DEF PerformsBy
  <2>6. ASSUME NEW k \in T, k + 1 <= n PROVE f[k + 1] = g[k + 1]
    <3>1. k \in Nat /\ f[k] = g[k] /\ k + 1 \in 1..n /\ (k + 1) - 1 = k
      BY <2>2, <2>6
    <3>2. f[k + 1] = execute_action(f[k], c, s, q[k + 1], incoming, id)
      BY <2>3, <3>1 DEF PerformsBy
    <3>3. g[k + 1] = execute_action(g[k], d, s, q[k + 1], incoming, id)
      BY <2>4, <3>1 DEF PerformsBy
    <3> QED
      BY <3>1, <3>2, <3>3, ActionSame
  <2>7. \A k \in T \cap Nat : k + 1 \in T
    BY <2>6
  <2> HIDE DEF T
  <2>8. n \in T
    BY <2>2, <2>5, <2>7, Induction
  <2>9. f[n] = g[n]
    BY <2>2, <2>8 DEF T
  <2> QED
    BY <2>0, <2>3, <2>4, <2>9 DEF PerformsBy
<1> QED
  BY <1>1, <1>2

------------------------------------------------------------------------------
(***************************************************************************)
(* A delivery.                                                             *)
(***************************************************************************)
Observations == {"Log", "EffectObserved"}
Emissions == {"Send", "NetSend"} \cup Observations

(* The node while the handler of the front message of s runs. *)
Popped(x, s, state) ==
    [inbox |-> [x.inbox EXCEPT ![s] = Tail(@)], state |-> [x.state EXCEPT ![s] = state],
     timers |-> x.timers, msg_counter |-> x.msg_counter,
     timer_counter |-> x.timer_counter, wire |-> x.wire]

LEMMA PoppedNode ==
    ASSUME NEW cfg, NEW x, Node(cfg, x), NEW s \in Services, x.inbox[s] # <<>>,
           NEW state \in State(s)
    PROVE  Node(cfg, Popped(x, s, state))
<1> DEFINE y == Popped(x, s, state)
<1>1. /\ y.inbox = [x.inbox EXCEPT ![s] = Tail(@)]
      /\ y.state = [x.state EXCEPT ![s] = state] /\ y.timers = x.timers
      /\ y.msg_counter = x.msg_counter /\ y.timer_counter = x.timer_counter
      /\ y.wire = x.wire
  BY DEF Popped
<1>2. y = [inbox |-> y.inbox, state |-> y.state, timers |-> y.timers,
           msg_counter |-> y.msg_counter, timer_counter |-> y.timer_counter,
           wire |-> y.wire]
  BY DEF Popped
<1> HIDE DEF y
<1>3. y.inbox = [r \in Services |-> IF r = s THEN Tail(x.inbox[s]) ELSE x.inbox[r]]
  BY <1>1 DEF Node
<1>4. IsSeq(Tail(x.inbox[s]))
  <2>1. IsSeq(x.inbox[s])
    BY DEF Node
  <2> QED
    BY <2>1, SeqTail
<1>5. y.inbox = [r \in Services |-> y.inbox[r]] /\ \A r \in Services : IsSeq(y.inbox[r])
  BY <1>3, <1>4 DEF Node
<1>6. y.state = [r \in Services |-> IF r = s THEN state ELSE x.state[r]]
  BY <1>1 DEF Node
<1>7. y.state = [r \in Services |-> y.state[r]] /\ \A r \in Services : y.state[r] \in State(r)
  BY <1>6 DEF Node
<1>8. Timers(cfg, y)
  BY <1>1 DEF Timers, Node, next_deterministic_timer_id
<1>9. Node(cfg, y)
  BY <1>1, <1>2, <1>5, <1>7, <1>8 DEF Node
<1> QED
  BY <1>9 DEF y

(* The parts of a delivery. *)
Ran(x, cfg, s) == execute_actions(cfg, s, x.state[s], Head(x.inbox[s]).msg, Head(x.inbox[s]).id)

Observed(x, cfg, s) ==
    LET type == Head(x.inbox[s]).msg.type
        logs == Ran(x, cfg, s).logs
    IN  <<EffectEvent(cfg, s, type, Head(x.inbox[s]).id, Declared(s, type),
                      Ran(x, cfg, s).observed)>>
           \o [i \in DOMAIN logs |-> LogEvent(cfg, s, logs[i])]

Handled(x, cfg, s) == [sys    |-> Popped(x, s, Ran(x, cfg, s).state),
                       events |-> Observed(x, cfg, s)]

LEMMA DeliverParts ==
    ASSUME NEW cfg, NEW x, Node(cfg, x), NEW s \in Services, NEW step
    PROVE  LET r    == Deliver(x, cfg, step, s)
               sent == EmitAll(Handled(x, cfg, s), cfg, s, Ran(x, cfg, s).outbox, step)
           IN  /\ r.ok = Ran(x, cfg, s).ok /\ r.id = Head(x.inbox[s]).id
               /\ r.sys = sent.sys /\ r.events = sent.events
<1> DEFINE out == Ran(x, cfg, s)
           popped == [x EXCEPT !.inbox[s] = Tail(@)]
           r == Deliver(x, cfg, step, s)
<1>1. popped = [inbox |-> [x.inbox EXCEPT ![s] = Tail(@)], state |-> x.state,
                timers |-> x.timers, msg_counter |-> x.msg_counter,
                timer_counter |-> x.timer_counter, wire |-> x.wire]
  <2>1. \A v : [x EXCEPT !.inbox = v]
                  = [inbox |-> v, state |-> x.state, timers |-> x.timers,
                     msg_counter |-> x.msg_counter,
                     timer_counter |-> x.timer_counter, wire |-> x.wire]
    BY DEF Node
  <2> QED
    BY <2>1
<1>2. ASSUME NEW v PROVE [popped EXCEPT !.state[s] = v] = Popped(x, s, v)
  <2> DEFINE tail == [x.inbox EXCEPT ![s] = Tail(@)]
  <2> HIDE DEF tail
  <2>1. popped = [inbox |-> tail, state |-> x.state,
                  timers |-> x.timers, msg_counter |-> x.msg_counter,
                  timer_counter |-> x.timer_counter, wire |-> x.wire]
    BY <1>1 DEF tail
  <2> HIDE DEF popped
  <2>2. \A w : [popped EXCEPT !.state = w]
                  = [inbox |-> tail, state |-> w, timers |-> x.timers,
                     msg_counter |-> x.msg_counter,
                     timer_counter |-> x.timer_counter, wire |-> x.wire]
    BY <2>1
  <2>3. popped.state = x.state
    BY <2>1
  <2> QED
    BY <2>2, <2>3 DEF Popped, tail
<1> HIDE DEF popped
<1>3. r = [ok |-> out.ok, id |-> Head(x.inbox[s]).id,
           sys |-> EmitAll(Handled(x, cfg, s), cfg, s, out.outbox, step).sys,
           events |-> EmitAll(Handled(x, cfg, s), cfg, s, out.outbox, step).events]
  <2>1. [popped EXCEPT !.state[s] = out.state] = Popped(x, s, out.state)
    BY <1>2
  <2> QED
    BY <2>1 DEF Deliver, Handled, Observed, Ran, popped
<1> HIDE DEF r
<1>4. /\ r.ok = out.ok /\ r.id = Head(x.inbox[s]).id
      /\ r.sys = EmitAll(Handled(x, cfg, s), cfg, s, out.outbox, step).sys
      /\ r.events = EmitAll(Handled(x, cfg, s), cfg, s, out.outbox, step).events
  <2> HIDE DEF out
  <2> QED
    BY <1>3
<1> QED
  BY <1>4 DEF r

LEMMA HandledNode ==
    ASSUME NEW cfg, Host(cfg), NEW x, Node(cfg, x), NEW s \in Services, x.inbox[s] # <<>>
    PROVE  LET h == Handled(x, cfg, s)
           IN  /\ Context(s, Ran(x, cfg, s)) /\ Node(cfg, h.sys)
               /\ IsSeq(h.events) /\ Len(h.events) >= 1
               /\ \A i \in 1..Len(h.events) : h.events[i].kind \in Observations
<1> DEFINE out == Ran(x, cfg, s)
           type == Head(x.inbox[s]).msg.type
           first == EffectEvent(cfg, s, type, Head(x.inbox[s]).id, Declared(s, type),
                                out.observed)
           logs == [i \in DOMAIN out.logs |-> LogEvent(cfg, s, out.logs[i])]
           h == Handled(x, cfg, s)
<1>1. Context(s, out)
  <2>1. x.state[s] \in State(s)
    BY DEF Node
  <2> QED
    BY <2>1, ExecuteContext DEF Ran
<1>2. h.sys = Popped(x, s, out.state) /\ h.events = <<first>> \o logs
  BY DEF Handled, Observed
<1>3. Node(cfg, h.sys)
  <2>1. out.state \in State(s)
    BY <1>1 DEF Context
  <2> HIDE DEF h, out
  <2> QED
    BY <1>2, <2>1, PoppedNode
<1>4. first.kind \in Observations
  BY DEF EffectEvent, Observations
<1>5. \A i \in DOMAIN out.logs : logs[i].kind \in Observations
  BY DEF LogEvent, Observations
<1>6. IsSeq(out.logs)
  BY <1>1 DEF Context
<1>7. logs = [i \in DOMAIN out.logs |-> logs[i]]
  OBVIOUS
<1> HIDE DEF first, logs, out, h
<1>8. Len(out.logs) \in Nat /\ DOMAIN out.logs = 1..Len(out.logs)
  BY <1>6, SeqLen
<1>9. IsSeq(logs) /\ Len(logs) = Len(out.logs)
  BY <1>7, <1>8, SeqMade
<1>10. IsSeq(<<first>>) /\ Len(<<first>>) = 1 /\ <<first>>[1] = first
  BY SeqOne
<1> DEFINE one == <<first>>
<1> HIDE DEF one
<1>11. /\ IsSeq(one \o logs) /\ Len(one \o logs) = Len(one) + Len(logs)
  BY <1>9, <1>10, SeqConcat DEF one
<1>12. ASSUME NEW i \in 1..Len(one \o logs) PROVE (one \o logs)[i].kind \in Observations
  <2>1. CASE i <= Len(one)
    <3>1. (one \o logs)[i] = one[i] /\ i = 1
      BY <1>9, <1>10, <2>1, SeqConcat DEF one
    <3> QED
      BY <1>4, <1>10, <3>1 DEF one
  <2>2. CASE i > Len(one)
    <3>0. IsSeq(one) /\ IsSeq(logs)
      BY <1>9, <1>10 DEF one
    <3>1. i - Len(one) \in 1..Len(logs) /\ (one \o logs)[i] = logs[i - Len(one)]
      BY <2>2, <3>0, SeqConcat
    <3> QED
      BY <1>5, <1>8, <1>9, <3>1
  <2>3. Len(one) \in Nat
    BY <1>10 DEF one
  <2> QED
    BY <1>11, <2>1, <2>2, <2>3
<1>13. h.events = one \o logs
  BY <1>2 DEF one
<1>14. Len(h.events) >= 1
  BY <1>8, <1>9, <1>10, <1>11, <1>13 DEF one
<1> QED
  BY <1>1, <1>3, <1>11, <1>12, <1>13, <1>14 DEF h, out

(* What a delivery leaves: actor states of their types, the timers there   *)
(* were and later ones, and the evidence of what the handler did.          *)
LEMMA DeliverNode ==
    ASSUME NEW cfg, Host(cfg), NEW x, Node(cfg, x), NEW s \in Services, x.inbox[s] # <<>>,
           NEW step \in Nat
    PROVE  LET r == Deliver(x, cfg, step, s)
           IN  /\ r.ok \in BOOLEAN /\ Node(cfg, r.sys)
               /\ x.timers \subseteq r.sys.timers
               /\ \A t \in r.sys.timers \ x.timers : t.due_step > step
               /\ cfg.mode # "record" => r.sys.wire = x.wire
               /\ IsSeq(r.events) /\ Len(r.events) >= 1
               /\ \A i \in 1..Len(r.events) : r.events[i].kind \in Emissions
<1> DEFINE r == Deliver(x, cfg, step, s)
           h == Handled(x, cfg, s)
           out == Ran(x, cfg, s)
           sent == EmitAll(h, cfg, s, out.outbox, step)
<1>1. /\ r.ok = out.ok /\ r.sys = sent.sys /\ r.events = sent.events
  BY DeliverParts
<1>2. /\ Context(s, out) /\ Node(cfg, h.sys)
      /\ IsSeq(h.events) /\ Len(h.events) >= 1
      /\ \A i \in 1..Len(h.events) : h.events[i].kind \in Observations
  BY HandledNode
<1>3. h.sys.timers = x.timers /\ h.sys.wire = x.wire
  BY DEF Handled, Popped
<1> HIDE DEF r, h, out
<1>4. Grows(cfg, step, h, sent)
  <2>1. cfg.node \in Nat
    BY DEF Host
  <2>2. IsSeq(out.outbox) /\ \A i \in 1..Len(out.outbox) : out.outbox[i].delay \in Nat
    BY <1>2 DEF Context
  <2> QED
    BY <1>2, <2>1, <2>2, EmitAllGrows
<1> HIDE DEF sent
<1>5. Len(h.events) \in Nat /\ Len(sent.events) \in Nat
  BY <1>2, <1>4, SeqLen DEF Grows
<1>6. ASSUME NEW i \in 1..Len(sent.events) PROVE sent.events[i].kind \in Emissions
  <2>1. CASE i <= Len(h.events)
    <3>1. i \in 1..Len(h.events)
      BY <1>5, <2>1
    <3>2. sent.events[i] = h.events[i]
      BY <1>4, <3>1 DEF Grows
    <3> QED
      BY <1>2, <3>1, <3>2 DEF Emissions
  <2>2. CASE i > Len(h.events)
    BY <1>4, <2>2 DEF Grows, Emissions
  <2> QED
    BY <1>5, <2>1, <2>2
<1>7. Len(sent.events) >= 1
  BY <1>2, <1>4, <1>5 DEF Grows
<1>8. /\ Node(cfg, sent.sys) /\ x.timers \subseteq sent.sys.timers
      /\ \A t \in sent.sys.timers \ x.timers : t.due_step > step
      /\ cfg.mode # "record" => sent.sys.wire = x.wire
      /\ IsSeq(sent.events)
  BY <1>3, <1>4 DEF Grows
<1>9. out.ok \in BOOLEAN
  BY <1>2 DEF Context
<1> QED
  BY <1>1, <1>6, <1>7, <1>8, <1>9 DEF r

(* A delivery does the same to nodes that are alike, in whatever mode and  *)
(* at whatever step.                                                       *)
LEMMA DeliverAlike ==
    ASSUME NEW c, NEW d, Host(c), Host(d), SameHost(c, d),
           NEW x, Node(c, x), NEW y, Node(d, y), Alike(x, y),
           NEW s \in Services, x.inbox[s] # <<>>, NEW m \in Nat, NEW n \in Nat
    PROVE  LET a == Deliver(x, c, m, s)
               b == Deliver(y, d, n, s)
           IN  a.ok = b.ok /\ a.id = b.id /\ a.events = b.events /\ Alike(a.sys, b.sys)
<1>1. x.inbox = y.inbox /\ x.state = y.state
  BY DEF Alike
<1>2. c.node = d.node /\ c.node \in Nat
  BY DEF SameHost, Host
<1>3. Ran(x, c, s) = Ran(y, d, s)
  BY <1>1, ExecuteSame DEF Ran
<1>4. Observed(x, c, s) = Observed(y, d, s)
  <2>1. \A type, id, declared, seen :
           EffectEvent(c, s, type, id, declared, seen) = EffectEvent(d, s, type, id, declared, seen)
    BY <1>2 DEF EffectEvent
  <2>2. \A text : LogEvent(c, s, text) = LogEvent(d, s, text)
    BY <1>2 DEF LogEvent
  <2> DEFINE ran == Ran(x, c, s)
             type == Head(x.inbox[s]).msg.type
  <2>3. EffectEvent(c, s, type, Head(x.inbox[s]).id, Declared(s, type), ran.observed)
          = EffectEvent(d, s, type, Head(x.inbox[s]).id, Declared(s, type), ran.observed)
    BY <2>1
  <2>4. [i \in DOMAIN ran.logs |-> LogEvent(c, s, ran.logs[i])]
          = [i \in DOMAIN ran.logs |-> LogEvent(d, s, ran.logs[i])]
    BY <2>2
  <2>5. ran = Ran(y, d, s) /\ x.inbox = y.inbox
    BY <1>1, <1>3
  <2> HIDE DEF ran
  <2> QED
    BY <2>3, <2>4, <2>5 DEF Observed, ran
<1> DEFINE p == Handled(x, c, s)
           q == Handled(y, d, s)
           box == Ran(x, c, s).outbox
<1>5. Alike(Popped(x, s, Ran(x, c, s).state), Popped(y, s, Ran(x, c, s).state))
  BY DEF Alike, Popped
<1>6. Alike(p.sys, q.sys) /\ p.events = q.events
  BY <1>3, <1>4, <1>5 DEF Handled
<1>7. /\ Context(s, Ran(x, c, s)) /\ Node(c, p.sys) /\ IsSeq(p.events)
  BY HandledNode
<1>8. Node(d, q.sys)
  BY <1>1, HandledNode
<1>9. IsSeq(box) /\ \A i \in 1..Len(box) : box[i].delay \in Nat
  BY <1>7 DEF Context
<1> DEFINE a == Deliver(x, c, m, s)
           b == Deliver(y, d, n, s)
<1>10. /\ a.ok = Ran(x, c, s).ok /\ a.id = Head(x.inbox[s]).id
       /\ a.sys = EmitAll(p, c, s, box, m).sys /\ a.events = EmitAll(p, c, s, box, m).events
  BY DeliverParts
<1>11. /\ b.ok = Ran(x, c, s).ok /\ b.id = Head(x.inbox[s]).id
       /\ b.sys = EmitAll(q, d, s, box, n).sys /\ b.events = EmitAll(q, d, s, box, n).events
  <2>1. LET sent == EmitAll(q, d, s, Ran(y, d, s).outbox, n)
        IN  /\ b.ok = Ran(y, d, s).ok /\ b.id = Head(y.inbox[s]).id
            /\ b.sys = sent.sys /\ b.events = sent.events
    BY DeliverParts
  <2> HIDE DEF b, q
  <2> QED
    BY <1>1, <1>3, <2>1
<1> HIDE DEF a, b, p, q, box
<1>12. /\ Alike(EmitAll(p, c, s, box, m).sys, EmitAll(q, d, s, box, n).sys)
       /\ EmitAll(p, c, s, box, m).events = EmitAll(q, d, s, box, n).events
  BY <1>2, <1>6, <1>7, <1>8, <1>9, EmitAllAlike
<1>13. a.ok = b.ok /\ a.id = b.id /\ a.events = b.events /\ Alike(a.sys, b.sys)
  BY <1>10, <1>11, <1>12
<1> QED
  BY <1>13 DEF a, b

------------------------------------------------------------------------------
(***************************************************************************)
(* A timer that fires.                                                     *)
(***************************************************************************)
Without(x, t) == [inbox |-> x.inbox, state |-> x.state, timers |-> x.timers \ {t},
                  msg_counter |-> x.msg_counter, timer_counter |-> x.timer_counter,
                  wire |-> x.wire]

LEMMA WithoutNode ==
    ASSUME NEW cfg, NEW x, Node(cfg, x), NEW t
    PROVE  Node(cfg, Without(x, t)) /\ [x EXCEPT !.timers = @ \ {t}] = Without(x, t)
<1> DEFINE y == Without(x, t)
<1>1. [x EXCEPT !.timers = @ \ {t}] = y
  <2>1. \A v : [x EXCEPT !.timers = v]
                  = [inbox |-> x.inbox, state |-> x.state, timers |-> v,
                     msg_counter |-> x.msg_counter,
                     timer_counter |-> x.timer_counter, wire |-> x.wire]
    BY DEF Node
  <2> QED
    BY <2>1 DEF Without
<1>2. /\ y.inbox = x.inbox /\ y.state = x.state /\ y.timers = x.timers \ {t}
      /\ y.msg_counter = x.msg_counter /\ y.timer_counter = x.timer_counter
      /\ y.wire = x.wire
  BY DEF Without
<1>3. y = [inbox |-> y.inbox, state |-> y.state, timers |-> y.timers,
           msg_counter |-> y.msg_counter, timer_counter |-> y.timer_counter,
           wire |-> y.wire]
  BY DEF Without
<1> HIDE DEF y
<1>4. Timers(cfg, y)
  <2>1. IsFiniteSet(y.timers)
    BY <1>2, FS_RemoveElement DEF Timers, Node
  <2> QED
    BY <1>2, <2>1 DEF Timers, Node, next_deterministic_timer_id
<1>5. Node(cfg, y)
  BY <1>2, <1>3, <1>4 DEF Node
<1> QED
  BY <1>1, <1>5 DEF y

(* What a timer makes of the node and the events so far. *)
Fired(cfg, acc, t, b) ==
    LET n == Len(acc.events)
    IN  /\ Node(cfg, b.sys) /\ b.sys.timers = acc.sys.timers \ {t}
        /\ cfg.mode # "record" => b.sys.wire = acc.sys.wire
        /\ n \in Nat /\ IsSeq(b.events) /\ Len(b.events) = n + 2
        /\ \A i \in 1..n : b.events[i] = acc.events[i]
        /\ b.events[n + 1] = TimerFiredEvent(cfg, t)
        /\ b.events[n + 2] = Emission(cfg, Without(acc.sys, t), t.from, t.out)

LEMMA FireOneNode ==
    ASSUME NEW cfg, Host(cfg), NEW acc, Node(cfg, acc.sys), IsSeq(acc.events), NEW t
    PROVE  Fired(cfg, acc, t, FireOne(acc, cfg, t))
<1> DEFINE x == Without(acc.sys, t)
           fired == TimerFiredEvent(cfg, t)
           p == [sys |-> x, events |-> Append(acc.events, fired)]
           e == Emission(cfg, x, t.from, t.out)
           b == FireOne(acc, cfg, t)
           n == Len(acc.events)
<1>1. cfg.node \in Nat
  BY DEF Host
<1>2. Node(cfg, x)
  BY WithoutNode
<1>3. b = dispatch_outgoing(p, cfg, t.from, t.out)
  BY WithoutNode DEF FireOne
<1>4. x.timers = acc.sys.timers \ {t} /\ x.wire = acc.sys.wire
  BY DEF Without
<1>5. p.sys = x /\ p.events = Append(acc.events, fired)
  OBVIOUS
<1> HIDE DEF p, x, b, fired
<1>6. /\ Node(cfg, b.sys) /\ Dispatched(cfg, x, t.out, b.sys)
      /\ b.events = Append(p.events, e)
  <2>1. Node(cfg, p.sys)
    BY <1>2, <1>5
  <2>2. /\ Node(cfg, b.sys) /\ Dispatched(cfg, p.sys, t.out, b.sys)
        /\ b.events = Append(p.events, Emission(cfg, p.sys, t.from, t.out))
    BY <1>1, <1>3, <2>1, Dispatch
  <2> QED
    BY <1>5, <2>2
<1> HIDE DEF e
<1>7. /\ n \in Nat /\ IsSeq(p.events) /\ Len(p.events) = n + 1
      /\ \A i \in 1..n : p.events[i] = acc.events[i]
      /\ p.events[n + 1] = fired
  BY <1>5, SeqAppend
<1>8. /\ IsSeq(b.events) /\ Len(b.events) = Len(p.events) + 1
      /\ \A i \in 1..Len(p.events) : b.events[i] = p.events[i]
      /\ b.events[Len(p.events) + 1] = e
  <2> DEFINE w == p.events
             u == b.events
  <2>1. IsSeq(w) /\ u = Append(w, e)
    BY <1>6, <1>7
  <2> HIDE DEF w, u
  <2>2. IsSeq(u) /\ Len(u) = Len(w) + 1 /\ (\A i \in 1..Len(w) : u[i] = w[i])
        /\ u[Len(w) + 1] = e
    BY ONLY <2>1, SeqAppend
  <2> QED
    BY <2>2 DEF w, u
<1>9. /\ IsSeq(b.events) /\ Len(b.events) = n + 2
      /\ \A i \in 1..n : b.events[i] = acc.events[i]
      /\ b.events[n + 1] = fired /\ b.events[n + 2] = e
  <2>1. \A i \in 1..n : i \in 1..(n + 1)
    BY <1>7
  <2>2. n + 1 \in 1..(n + 1) /\ (n + 1) + 1 = n + 2
    BY <1>7
  <2> HIDE DEF n
  <2> QED
    BY <1>7, <1>8, <2>1, <2>2
<1>10. /\ b.sys.timers = acc.sys.timers \ {t}
       /\ cfg.mode # "record" => b.sys.wire = acc.sys.wire
  BY <1>4, <1>6 DEF Dispatched
<1> QED
  BY <1>6, <1>7, <1>9, <1>10 DEF b, e, x, fired, n, Fired

(* The same timer fires alike on nodes that are alike. *)
LEMMA FireOneAlike ==
    ASSUME NEW c, NEW d, Host(c), SameHost(c, d),
           NEW p, Node(c, p.sys), NEW q, Node(d, q.sys), Alike(p.sys, q.sys),
           NEW t \in p.sys.timers, NEW u \in q.sys.timers, t.id = u.id
    PROVE  /\ SameTimer(t, u)
           /\ TimerFiredEvent(c, t) = TimerFiredEvent(d, u)
           /\ Emission(c, Without(p.sys, t), t.from, t.out)
                 = Emission(d, Without(q.sys, u), u.from, u.out)
           /\ Alike(FireOne(p, c, t).sys, FireOne(q, d, u).sys)
<1> DEFINE x == Without(p.sys, t)
           y == Without(q.sys, u)
<1>1. SameTimer(t, u)
  <2>1. PICK v \in q.sys.timers : SameTimer(t, v)
    BY DEF Alike
  <2>2. v = u
    BY <2>1 DEF SameTimer, Node, Timers
  <2> QED
    BY <2>1, <2>2
<1>2. c.node = d.node /\ c.node \in Nat /\ d.node \in Nat
  BY DEF SameHost, Host
<1>3. TimerFiredEvent(c, t) = TimerFiredEvent(d, u)
  BY <1>1, <1>2 DEF TimerFiredEvent, SameTimer
<1>4. Alike(x, y)
  <2>1. /\ x.inbox = p.sys.inbox /\ x.state = p.sys.state
        /\ x.msg_counter = p.sys.msg_counter /\ x.timer_counter = p.sys.timer_counter
        /\ x.timers = p.sys.timers \ {t}
    BY DEF Without
  <2>2. /\ y.inbox = q.sys.inbox /\ y.state = q.sys.state
        /\ y.msg_counter = q.sys.msg_counter /\ y.timer_counter = q.sys.timer_counter
        /\ y.timers = q.sys.timers \ {u}
    BY DEF Without
  <2> HIDE DEF x, y
  <2>3. ASSUME NEW v \in x.timers PROVE \E w \in y.timers : SameTimer(v, w)
    <3>1. PICK w \in q.sys.timers : SameTimer(v, w)
      BY <2>1 DEF Alike
    <3>2. w # u
      <4>1. v \in p.sys.timers /\ v # t
        BY <2>1
      <4>2. v.id # t.id
        BY <4>1 DEF Node, Timers
      <4> QED
        BY <3>1, <4>2 DEF SameTimer
    <3> QED
      BY <2>2, <3>1, <3>2
  <2>4. ASSUME NEW w \in y.timers PROVE \E v \in x.timers : SameTimer(v, w)
    <3>1. PICK v \in p.sys.timers : SameTimer(v, w)
      BY <2>2 DEF Alike
    <3>2. v # t
      <4>1. w \in q.sys.timers /\ w # u
        BY <2>2
      <4>2. w.id # u.id
        BY <4>1 DEF Node, Timers
      <4> QED
        BY <3>1, <4>2 DEF SameTimer
    <3> QED
      BY <2>1, <3>1, <3>2
  <2> QED
    BY <2>1, <2>2, <2>3, <2>4 DEF Alike
<1>5. Node(c, x) /\ Node(d, y)
  BY WithoutNode
<1> DEFINE a == [sys |-> x, events |-> Append(p.events, TimerFiredEvent(c, t))]
           b == [sys |-> y, events |-> Append(q.events, TimerFiredEvent(d, u))]
           from == t.from
           out == t.out
<1>6. FireOne(p, c, t) = dispatch_outgoing(a, c, from, out)
  BY WithoutNode DEF FireOne
<1>7. FireOne(q, d, u) = dispatch_outgoing(b, d, from, out)
  BY <1>1, WithoutNode DEF FireOne, SameTimer
<1>8. a.sys = x /\ b.sys = y /\ u.from = from /\ u.out = out
  BY <1>1 DEF SameTimer
<1>9. Emission(c, x, from, out) = Emission(d, y, from, out)
  BY <1>2, <1>4, EmissionAlike
<1> HIDE DEF a, b, x, y, from, out
<1>10. /\ Dispatched(c, x, out, FireOne(p, c, t).sys)
       /\ Dispatched(d, y, out, FireOne(q, d, u).sys)
  <2>1. Dispatched(c, a.sys, out, dispatch_outgoing(a, c, from, out).sys)
    BY <1>2, <1>5, <1>8, Dispatch
  <2>2. Dispatched(d, b.sys, out, dispatch_outgoing(b, d, from, out).sys)
    BY <1>2, <1>5, <1>8, Dispatch
  <2> QED
    BY <1>6, <1>7, <1>8, <2>1, <2>2
<1>11. Alike(FireOne(p, c, t).sys, FireOne(q, d, u).sys)
  <2>1. next_deterministic_msg_id(c, x) = next_deterministic_msg_id(d, y)
    BY <1>2, <1>4, EmissionAlike
  <2> QED
    BY <1>2, <1>4, <1>10, <2>1 DEF Alike, Dispatched
<1> QED
  BY <1>1, <1>3, <1>8, <1>9, <1>11 DEF x, y, from, out

------------------------------------------------------------------------------
(***************************************************************************)
(* The timers that are due.                                                *)
(***************************************************************************)
(* The run of the timers due on x: one timer less and two events more per  *)
(* timer.                                                                  *)
Firing(f, n, q, x, cfg) ==
    /\ n \in Nat /\ DOMAIN q = 1..n
    /\ f[0] = [sys |-> x, events |-> <<>>]
    /\ \A k \in 1..n : f[k] = FireOne(f[k - 1], cfg, q[k])
    /\ \A k \in 0..n : /\ Node(cfg, f[k].sys) /\ IsSeq(f[k].events)
                       /\ f[k].sys.timers = x.timers \ {q[i] : i \in 1..k}
    /\ \A k \in 1..n : q[k] \in f[k - 1].sys.timers

LEMMA FireDueRun ==
    ASSUME NEW cfg, Host(cfg), NEW x, Node(cfg, x), NEW step
    PROVE  \E f, n, q : /\ Firing(f, n, q, x, cfg) /\ FireDue(x, cfg, step) = f[n]
                        /\ f[n].sys.timers = x.timers \ Due(x, step)
<1> DEFINE S == Due(x, step)
           q == ById(S)
           n == Cardinality(S)
           first == [sys |-> x, events |-> <<>>]
<1>1. /\ n \in Nat /\ q \in [1..n -> S]
      /\ \A i, j \in 1..n : q[i] = q[j] => i = j
      /\ \A t \in S : \E i \in 1..n : q[i] = t
  <2>1. S \in SUBSET x.timers
    BY DEF Due
  <2>2. IsFiniteSet(S)
    BY <2>1, FS_Subset DEF Node, Timers
  <2>3. (\A t \in S : t.id \in Nat) /\ \A t, u \in S : t.id = u.id => t = u
    BY <2>1 DEF Node, Timers
  <2> HIDE DEF S
  <2> QED
    BY <2>2, <2>3, TimersById
<1>2. S \subseteq x.timers
  BY DEF Due
<1>3. FireDue(x, cfg, step) = FireAll(first, cfg, q)
  BY DEF FireDue
<1> HIDE DEF q, n, S
<1>4. DOMAIN q = 1..n
  BY <1>1
<1>5. PICK f : FiresBy(f, n, first, cfg, q)
  BY <1>1, <1>4, FireRun
<1> DEFINE Fine(k) == /\ Node(cfg, f[k].sys) /\ IsSeq(f[k].events)
                      /\ f[k].sys.timers = x.timers \ {q[i] : i \in 1..k}
           T == {k \in Nat : k <= n => Fine(k)}
<1>6. 0 \in T
  <2>1. f[0] = first
    BY <1>5 DEF FiresBy
  <2>2. {q[i] : i \in 1..0} = {}
    OBVIOUS
  <2> QED
    BY <2>1, <2>2, SeqOne
<1>7. ASSUME NEW k \in T, k + 1 <= n PROVE Fine(k + 1)
  <2>1. k \in Nat /\ Fine(k) /\ k + 1 \in 1..n /\ (k + 1) - 1 = k
    BY <1>1, <1>7
  <2>2. f[k + 1] = FireOne(f[k], cfg, q[k + 1])
    BY <1>5, <2>1 DEF FiresBy
  <2>3. /\ Node(cfg, f[k + 1].sys) /\ IsSeq(f[k + 1].events)
        /\ f[k + 1].sys.timers = f[k].sys.timers \ {q[k + 1]}
    <3> DEFINE p == f[k]
               t == q[k + 1]
    <3>1. Node(cfg, p.sys) /\ IsSeq(p.events)
      BY <2>1
    <3> HIDE DEF p, t
    <3>2. Fired(cfg, p, t, FireOne(p, cfg, t))
      BY <3>1, FireOneNode
    <3> QED
      BY <2>2, <3>2 DEF p, t, Fired
  <2>4. {q[i] : i \in 1..(k + 1)} = {q[i] : i \in 1..k} \cup {q[k + 1]}
    <3>1. 1..(k + 1) = 1..k \cup {k + 1}
      BY <2>1
    <3> QED
      BY <3>1
  <2>5. f[k + 1].sys.timers = x.timers \ {q[i] : i \in 1..(k + 1)}
    BY <2>1, <2>3, <2>4
  <2> QED
    BY <2>3, <2>5
<1>8. \A k \in T \cap Nat : k + 1 \in T
  BY <1>7
<1> HIDE DEF T
<1>9. \A k \in 0..n : k \in T
  BY <1>1, <1>6, <1>8, Induction
<1>10. \A k \in 0..n : Fine(k)
  BY <1>1, <1>9 DEF T
<1>11. ASSUME NEW k \in 1..n PROVE q[k] \in f[k - 1].sys.timers
  <2>1. q[k] \in x.timers
    BY <1>1, <1>2
  <2>2. \A i \in 1..(k - 1) : q[i] # q[k]
    <3>1. ASSUME NEW i \in 1..(k - 1) PROVE i \in 1..n /\ i # k
      BY <1>1
    <3> QED
      BY <1>1, <3>1
  <2>3. k - 1 \in 0..n
    BY <1>1
  <2>4. f[k - 1].sys.timers = x.timers \ {q[i] : i \in 1..(k - 1)}
    BY <1>10, <2>3
  <2> QED
    BY <2>1, <2>2, <2>4
<1>12. Firing(f, n, q, x, cfg)
  BY <1>1, <1>4, <1>5, <1>10, <1>11 DEF Firing, FiresBy
<1>13. f[n].sys.timers = x.timers \ S
  <2>1. {q[i] : i \in 1..n} = S
    BY <1>1
  <2>2. n \in 0..n
    BY <1>1
  <2> QED
    BY <1>10, <2>1, <2>2
<1>14. FireDue(x, cfg, step) = f[n]
  BY <1>3, <1>5 DEF FiresBy
<1> QED
  BY <1>12, <1>13, <1>14 DEF S

------------------------------------------------------------------------------
(***************************************************************************)
(* The envelopes released to an iteration.                                 *)
(***************************************************************************)
LEMMA ReceiveNode ==
    ASSUME NEW cfg, NEW x, Node(cfg, x), NEW env
    PROVE  LET y == Receive(x, env)
           IN  Node(cfg, y) /\ y.timers = x.timers /\ y.wire = x.wire
<1>1. CASE env.to \in Services
  <2>1. Receive(x, env) = push(x, env.to, env.id, env.msg)
    BY <1>1 DEF Receive
  <2> DEFINE y == Receive(x, env)
             to == env.to
             id == env.id
             msg == env.msg
  <2> HIDE DEF y, to, id, msg
  <2>2. y = push(x, to, id, msg)
    BY <2>1 DEF y, to, id, msg
  <2>3. Node(cfg, y) /\ y.timers = x.timers /\ y.wire = x.wire
    <3>1. Node(cfg, push(x, to, id, msg))
      BY PushNode
    <3>2. push(x, to, id, msg)
             = [inbox |-> [x.inbox EXCEPT ![to] = Append(@, [id |-> id, msg |-> msg])],
                state |-> x.state, timers |-> x.timers,
                msg_counter |-> x.msg_counter, timer_counter |-> x.timer_counter,
                wire |-> x.wire]
      BY PushNode
    <3> QED
      BY <2>2, <3>1, <3>2
  <2> QED
    BY <2>3 DEF y
<1>2. CASE env.to \notin Services
  BY <1>2 DEF Receive
<1> QED
  BY <1>1, <1>2

LEMMA ReceiveAlike ==
    ASSUME NEW c, NEW d, NEW x, Node(c, x), NEW y, Node(d, y), Alike(x, y), NEW env
    PROVE  Alike(Receive(x, env), Receive(y, env))
<1> DEFINE to == env.to
           id == env.id
           msg == env.msg
<1> HIDE DEF to, id, msg
<1>1. CASE env.to \in Services
  <2>1. Alike(push(x, to, id, msg), push(y, to, id, msg))
    BY PushAlike
  <2> QED
    BY <1>1, <2>1 DEF Receive, to, id, msg
<1>2. CASE env.to \notin Services
  BY <1>2 DEF Receive
<1> QED
  BY <1>1, <1>2

LEMMA ReceivingNode ==
    ASSUME NEW cfg, NEW x, Node(cfg, x), NEW got, NEW n \in Nat,
           NEW f, ReceivesBy(f, n, x, got)
    PROVE  \A k \in 0..n : Node(cfg, f[k]) /\ f[k].timers = x.timers /\ f[k].wire = x.wire
<1> DEFINE Fine(y) == Node(cfg, y) /\ y.timers = x.timers /\ y.wire = x.wire
           T == {k \in Nat : k <= n => Fine(f[k])}
<1>1. 0 \in T
  BY DEF ReceivesBy
<1>2. ASSUME NEW k \in T, k + 1 <= n PROVE Fine(f[k + 1])
  <2>1. k \in Nat /\ Fine(f[k]) /\ k + 1 \in 1..n /\ (k + 1) - 1 = k
    BY <1>2
  <2>2. f[k + 1] = Receive(f[k], got[k + 1])
    BY <2>1 DEF ReceivesBy
  <2> QED
    BY <2>1, <2>2, ReceiveNode
<1>3. \A k \in T \cap Nat : k + 1 \in T
  BY <1>2
<1> HIDE DEF T
<1>4. \A k \in 0..n : k \in T
  BY <1>1, <1>3, Induction
<1> QED
  BY <1>4 DEF T

LEMMA ReceivingAlike ==
    ASSUME NEW c, NEW d, NEW x, Node(c, x), NEW y, Node(d, y), Alike(x, y),
           NEW got, NEW n \in Nat, NEW f, ReceivesBy(f, n, x, got),
           NEW g, ReceivesBy(g, n, y, got)
    PROVE  Alike(f[n], g[n])
<1> DEFINE T == {k \in Nat : k <= n => Alike(f[k], g[k])}
<1>1. 0 \in T
  BY DEF ReceivesBy
<1>2. ASSUME NEW k \in T, k + 1 <= n PROVE Alike(f[k + 1], g[k + 1])
  <2>1. k \in Nat /\ Alike(f[k], g[k]) /\ k \in 0..n /\ k + 1 \in 1..n /\ (k + 1) - 1 = k
    BY <1>2
  <2>2. f[k + 1] = Receive(f[k], got[k + 1]) /\ g[k + 1] = Receive(g[k], got[k + 1])
    BY <2>1 DEF ReceivesBy
  <2>3. Node(c, f[k]) /\ Node(d, g[k])
    BY <2>1, ReceivingNode
  <2> QED
    BY <2>1, <2>2, <2>3, ReceiveAlike
<1>3. \A k \in T \cap Nat : k + 1 \in T
  BY <1>2
<1> HIDE DEF T
<1>4. n \in T
  BY <1>1, <1>3, Induction
<1> QED
  BY <1>4 DEF T

(* The losses an iteration records, in whatever order. *)
LEMMA DropEvents ==
    ASSUME NEW cfg, NEW lost, IsFiniteSet(lost)
    PROVE  LET q == SetToSeq({DropEvent(cfg, env) : env \in lost})
           IN  IsSeq(q) /\ \A i \in 1..Len(q) : \E env \in lost : q[i] = DropEvent(cfg, env)
<1> DEFINE S == {DropEvent(cfg, env) : env \in lost}
           f == [env \in lost |-> DropEvent(cfg, env)]
           n == Cardinality(S)
           q == SetToSeq(S)
<1>1. f \in Surjection(lost, S)
  BY DEF Surjection
<1>2. IsFiniteSet(S)
  <2> HIDE DEF f, S
  <2> QED
    BY <1>1, FS_Surjection
<1>3. \A e \in S : \E env \in lost : e = DropEvent(cfg, env)
  OBVIOUS
<1> HIDE DEF f, S
<1>4. n \in Nat /\ ExistsBijection(1..n, S)
  BY <1>2, FS_CardinalityType
<1>5. \E p \in [1..n -> S] : IsInjective(p)
  BY <1>4 DEF ExistsBijection, Bijection, Injection
<1>6. q \in [1..n -> S]
  BY <1>5 DEF SetToSeq
<1> HIDE DEF q, n
<1>7. IsSeq(q) /\ Len(q) = n
  BY <1>4, <1>6, SeqMade
<1>8. IsSeq(q) /\ \A i \in 1..Len(q) : \E env \in lost : q[i] = DropEvent(cfg, env)
  BY <1>3, <1>6, <1>7
<1> QED
  BY <1>8 DEF q, S

------------------------------------------------------------------------------
(***************************************************************************)
(* The start-up, and the scheduler.                                        *)
(***************************************************************************)
Booted(cfg, acc) ==
    /\ Node(cfg, acc.sys) /\ acc.sys.timers = {} /\ acc.sys.wire = {}
    /\ IsSeq(acc.events) /\ \A i \in 1..Len(acc.events) : acc.events[i].kind \in {"Spawn", "Send"}

LEMMA CounterSet ==
    ASSUME NEW cfg, NEW x, Node(cfg, x), NEW v
    PROVE  [x EXCEPT !.msg_counter = v]
              = [inbox |-> x.inbox, state |-> x.state, timers |-> x.timers,
                 msg_counter |-> v, timer_counter |-> x.timer_counter, wire |-> x.wire]
BY DEF Node

LEMMA BootOneNode ==
    ASSUME NEW cfg, Host(cfg), NEW acc, Booted(cfg, acc), NEW idx
    PROVE  Booted(cfg, BootOne(acc, cfg, idx))
<1> DEFINE x == acc.sys
           id == next_deterministic_msg_id(cfg, x)
           msg == BootMessage(cfg, id, idx)
           z == [inbox |-> x.inbox, state |-> x.state, timers |-> x.timers,
                 msg_counter |-> x.msg_counter + 1,
                 timer_counter |-> x.timer_counter, wire |-> x.wire]
           e == SendEvent(System, entry_service, id, msg)
           b == BootOne(acc, cfg, idx)
           s == entry_service
<1>1. Node(cfg, x) /\ x.timers = {} /\ x.wire = {} /\ cfg.node \in Nat
  BY DEF Booted, Host
<1>2. [x EXCEPT !.msg_counter = @ + 1] = z
  <2> HIDE DEF x
  <2>1. [x EXCEPT !.msg_counter = x.msg_counter + 1] = z
    BY <1>1, CounterSet
  <2> QED
    BY <2>1
<1>3. Node(cfg, z) /\ z.timers = {} /\ z.wire = {}
  <2>1. Node(cfg, z)
    BY <1>1, CountedNode DEF Node
  <2> QED
    BY <1>1, <2>1
<1>4. b = [sys |-> push(z, s, id, msg), events |-> Append(acc.events, e)]
  BY <1>2 DEF BootOne
<1>5. e.kind = "Send"
  BY DEF SendEvent
<1> HIDE DEF x, id, msg, z, e, b, s
<1>6. Node(cfg, push(z, s, id, msg))
  BY <1>3, PushNode
<1>7. push(z, s, id, msg)
         = [inbox |-> [z.inbox EXCEPT ![s] = Append(@, [id |-> id, msg |-> msg])],
            state |-> z.state, timers |-> z.timers,
            msg_counter |-> z.msg_counter, timer_counter |-> z.timer_counter,
            wire |-> z.wire]
  BY <1>3, PushNode
<1>8. Node(cfg, b.sys) /\ b.sys.timers = {} /\ b.sys.wire = {}
  BY <1>3, <1>4, <1>6, <1>7
<1>9. b.events = Append(acc.events, e)
  BY <1>4
<1>10. /\ IsSeq(b.events) /\ Len(acc.events) \in Nat /\ Len(b.events) = Len(acc.events) + 1
       /\ \A i \in 1..Len(acc.events) : b.events[i] = acc.events[i]
       /\ b.events[Len(acc.events) + 1] = e
  BY <1>9, SeqAppend DEF Booted
<1>11. \A i \in 1..Len(b.events) : b.events[i].kind \in {"Spawn", "Send"}
  BY <1>5, <1>10 DEF Booted
<1> QED
  BY <1>8, <1>10, <1>11 DEF Booted, b

(* Before the first message the trace holds the Spawn events. *)
Spawned(cfg) ==
    [sys    |-> build_actor_system,
     events |-> <<SpawnEvent(cfg, System)>> \o
                [i \in DOMAIN Program.services |-> SpawnEvent(cfg, Program.services[i])]]

LEMMA SpawnedNode ==
    ASSUME NEW cfg, Host(cfg)
    PROVE  Booted(cfg, Spawned(cfg))
<1> DEFINE x == build_actor_system
           one == <<SpawnEvent(cfg, System)>>
           more == [i \in DOMAIN Program.services |-> SpawnEvent(cfg, Program.services[i])]
           n == Len(Program.services)
<1>1. Node(cfg, x) /\ x.timers = {} /\ x.wire = {}
  <2>1. cfg.node \in Nat
    BY DEF Host
  <2>2. x.timers = {} /\ x.wire = {}
    BY DEF build_actor_system
  <2> QED
    BY <2>1, <2>2, BuiltNode
<1>2. IsSeq(one) /\ Len(one) = 1 /\ one[1].kind = "Spawn"
  <2>1. SpawnEvent(cfg, System).kind = "Spawn"
    BY DEF SpawnEvent
  <2> QED
    BY <2>1, SeqOne
<1>3. n \in Nat /\ DOMAIN Program.services = 1..n
  BY TypesAssumption
<1>4. \A i \in 1..n : more[i].kind = "Spawn"
  BY <1>3 DEF SpawnEvent
<1>5. more = [i \in 1..n |-> more[i]]
  BY <1>3
<1> HIDE DEF one, more, n, x
<1>6. IsSeq(more) /\ Len(more) = n
  BY <1>3, <1>5, SeqMade
<1>7. IsSeq(one \o more) /\ Len(one \o more) = Len(one) + Len(more)
  BY <1>2, <1>6, SeqConcat
<1>8. ASSUME NEW i \in 1..Len(one \o more) PROVE (one \o more)[i].kind = "Spawn"
  <2>1. CASE i <= 1
    <3>1. i = 1 /\ i \in 1..Len(one)
      BY <1>2, <2>1
    <3>2. (one \o more)[i] = one[i]
      BY <1>2, <1>6, <3>1, SeqConcat
    <3> QED
      BY <1>2, <3>1, <3>2
  <2>2. CASE i > 1
    <3>1. i - Len(one) \in 1..Len(more) /\ (one \o more)[i] = more[i - Len(one)]
      BY <1>2, <1>6, <2>2, SeqConcat
    <3> QED
      BY <1>4, <1>6, <3>1
  <2> QED
    BY <2>1, <2>2
<1>9. Spawned(cfg).sys = x /\ Spawned(cfg).events = one \o more
  BY DEF Spawned, one, more, x
<1> QED
  BY <1>1, <1>7, <1>8, <1>9 DEF Booted

Boots(cfg) == IF cfg.bootstrap_hello THEN cfg.bootstrap_burst ELSE 1

LEMMA StartupRun ==
    ASSUME NEW cfg, Boots(cfg) \in Nat
    PROVE  LET n == Boots(cfg)
           IN  \E f : /\ BootsBy(f, n, Spawned(cfg), cfg, [i \in 1..n |-> i])
                      /\ Startup(cfg) = f[n]
<1> DEFINE n == Boots(cfg)
           q == [i \in 1..n |-> i]
<1>1. Startup(cfg) = BootAll(Spawned(cfg), cfg, q)
  BY DEF Startup, enqueue_bootstrap, Spawned, Boots
<1>2. DOMAIN q = 1..n
  OBVIOUS
<1> HIDE DEF q, n
<1>3. PICK f : BootsBy(f, n, Spawned(cfg), cfg, q)
  BY <1>2, BootRun DEF n
<1>4. Startup(cfg) = f[n]
  BY <1>1, <1>3 DEF BootsBy
<1> QED
  BY <1>3, <1>4 DEF n, q

LEMMA StartupNode ==
    ASSUME NEW cfg, Host(cfg), Boots(cfg) \in Nat
    PROVE  Booted(cfg, Startup(cfg))
<1> DEFINE n == Boots(cfg)
           q == [i \in 1..n |-> i]
<1>1. PICK f : BootsBy(f, n, Spawned(cfg), cfg, q) /\ Startup(cfg) = f[n]
  BY StartupRun
<1> HIDE DEF n, q
<1>2. n \in Nat
  BY DEF n
<1> DEFINE T == {k \in Nat : k <= n => Booted(cfg, f[k])}
<1>3. 0 \in T
  BY <1>1, SpawnedNode DEF BootsBy
<1>4. ASSUME NEW k \in T, k + 1 <= n PROVE Booted(cfg, f[k + 1])
  <2>1. k \in Nat /\ Booted(cfg, f[k]) /\ k + 1 \in 1..n /\ (k + 1) - 1 = k
    BY <1>2, <1>4
  <2>2. f[k + 1] = BootOne(f[k], cfg, q[k + 1])
    BY <1>1, <2>1 DEF BootsBy
  <2> QED
    BY <2>1, <2>2, BootOneNode
<1>5. \A k \in T \cap Nat : k + 1 \in T
  BY <1>4
<1> HIDE DEF T
<1>6. n \in T
  BY <1>2, <1>3, <1>5, Induction
<1> QED
  BY <1>1, <1>2, <1>6 DEF T

LEMMA StartupSame ==
    ASSUME NEW c, NEW d, c.node = d.node, Boots(c) = Boots(d), Boots(c) \in Nat
    PROVE  Startup(c) = Startup(d)
<1> DEFINE n == Boots(c)
           q == [i \in 1..n |-> i]
<1>1. PICK f : BootsBy(f, n, Spawned(c), c, q) /\ Startup(c) = f[n]
  BY StartupRun
<1>2. PICK g : BootsBy(g, n, Spawned(d), d, q) /\ Startup(d) = g[n]
  <2>1. \E g : BootsBy(g, Boots(d), Spawned(d), d, [i \in 1..Boots(d) |-> i])
               /\ Startup(d) = g[Boots(d)]
    BY StartupRun
  <2> QED
    BY <2>1
<1>3. Spawned(c) = Spawned(d)
  BY DEF Spawned, SpawnEvent
<1>4. \A acc, idx : BootOne(acc, c, idx) = BootOne(acc, d, idx)
  BY DEF BootOne, BootMessage, next_deterministic_msg_id
<1> HIDE DEF n, q
<1>5. n \in Nat
  BY DEF n
<1> DEFINE T == {k \in Nat : k <= n => f[k] = g[k]}
<1>6. 0 \in T
  BY <1>1, <1>2, <1>3 DEF BootsBy
<1>7. ASSUME NEW k \in T, k + 1 <= n PROVE f[k + 1] = g[k + 1]
  <2>1. k \in Nat /\ f[k] = g[k] /\ k + 1 \in 1..n /\ (k + 1) - 1 = k
    BY <1>5, <1>7
  <2>2. f[k + 1] = BootOne(f[k], c, q[k + 1]) /\ g[k + 1] = BootOne(g[k], d, q[k + 1])
    BY <1>1, <1>2, <2>1 DEF BootsBy
  <2> QED
    BY <1>4, <2>1, <2>2
<1>8. \A k \in T \cap Nat : k + 1 \in T
  BY <1>7
<1> HIDE DEF T
<1>9. n \in T
  BY <1>5, <1>6, <1>8, Induction
<1> QED
  BY <1>1, <1>2, <1>5, <1>9 DEF T

LEMMA EntryService == entry_service \in Services
<1>1. Program.services # <<>> /\ Program.services \in Seq(Services)
  BY ProgramAssumption, TypesAssumption DEF Loadable
<1>2. Program.services[1] \in Services
  BY <1>1
<1> QED
  BY <1>2 DEF entry_service

LEMMA ChoiceIsReady ==
    ASSUME NEW x, Ready(x) # {}
    PROVE  LET s == choose_next_deterministic(x)
           IN  s \in Ready(x) /\ \A t \in Ready(x) : Rank[s] <= Rank[t]
<1> DEFINE K == {Rank[s] : s \in Ready(x)}
<1>1. K \subseteq Nat /\ K # {}
  BY RankAssumption DEF Ready
<1>2. \E k \in K : \A l \in K : k <= l
  <2> HIDE DEF K
  <2> QED
    BY <1>1, LeastNumber
<1>3. \E s \in Ready(x) : \A t \in Ready(x) : Rank[s] <= Rank[t]
  BY <1>2
<1> QED
  BY <1>3, Zenon DEF choose_next_deterministic

------------------------------------------------------------------------------
(***************************************************************************)
(* An iteration of the recorder: it fires what is due, and every timer it  *)
(* sets is due later.                                                      *)
(***************************************************************************)
Prepared(cfg, x, m, pre) ==
    /\ Node(cfg, pre.sys) /\ IsSeq(pre.events)
    /\ pre.sys.timers = x.timers \ Due(x, m)

LEMMA PreludeNode ==
    ASSUME NEW cfg, Host(cfg), NEW x, Node(cfg, x), NEW m \in Nat, NEW lost, IsFiniteSet(lost),
           NEW got, IsSeq(got)
    PROVE  Prepared(cfg, x, m, Prelude(x, cfg, m, lost, got))
<1> DEFINE y == ReceiveAll(x, got)
           drops == SetToSeq({DropEvent(cfg, env) : env \in lost})
           recvs == [i \in DOMAIN got |-> NetRecvEvent(cfg, got[i])]
           fired == FireDue(y, cfg, m)
           n == Len(got)
<1>1. n \in Nat /\ DOMAIN got = 1..n
  BY SeqLen
<1>2. PICK f : ReceivesBy(f, n, x, got)
  BY <1>1, ReceiveRun
<1>3. Node(cfg, y) /\ y.timers = x.timers
  <2>1. n \in 0..n /\ y = f[n]
    BY <1>1, <1>2 DEF ReceivesBy
  <2> HIDE DEF n, y
  <2>2. \A k \in 0..n : Node(cfg, f[k]) /\ f[k].timers = x.timers /\ f[k].wire = x.wire
    BY <1>1, <1>2, ReceivingNode
  <2> QED
    BY <2>1, <2>2
<1>4. IsSeq(drops)
  BY DropEvents
<1>5. recvs = [i \in 1..n |-> recvs[i]]
  BY <1>1
<1> HIDE DEF n, y, drops, recvs
<1>6. IsSeq(recvs)
  BY <1>1, <1>5, SeqMade
<1>7. IsSeq(drops \o recvs)
  BY <1>4, <1>6, SeqConcat
<1>8. Node(cfg, fired.sys) /\ IsSeq(fired.events) /\ fired.sys.timers = y.timers \ Due(y, m)
  <2>1. PICK g, k, q : /\ Firing(g, k, q, y, cfg) /\ fired = g[k]
                       /\ g[k].sys.timers = y.timers \ Due(y, m)
    BY <1>3, FireDueRun
  <2>2. k \in 0..k
    BY <2>1 DEF Firing
  <2>3. Node(cfg, g[k].sys) /\ IsSeq(g[k].events)
    BY <2>1, <2>2 DEF Firing
  <2> QED
    BY <2>1, <2>3
<1>9. Due(y, m) = Due(x, m)
  BY <1>3 DEF Due
<1>10. Prelude(x, cfg, m, lost, got)
          = [sys |-> fired.sys, events |-> (drops \o recvs) \o fired.events]
  BY DEF Prelude, drain_network, y, drops, recvs
<1> HIDE DEF fired
<1>11. IsSeq((drops \o recvs) \o fired.events)
  BY <1>7, <1>8, SeqConcat
<1> QED
  BY <1>3, <1>8, <1>9, <1>10, <1>11 DEF Prepared

Iterated(cfg, x, m, ran) ==
    /\ ran.ok \in BOOLEAN /\ Node(cfg, ran.sys) /\ IsSeq(ran.events)
    /\ x.timers \ Due(x, m) \subseteq ran.sys.timers
    /\ \A t \in ran.sys.timers : t \in x.timers \ Due(x, m) \/ t.due_step > m

LEMMA IterationNode ==
    ASSUME NEW cfg, Host(cfg), NEW x, Node(cfg, x), NEW m \in Nat, NEW lost, IsFiniteSet(lost),
           NEW got, IsSeq(got)
    PROVE  Iterated(cfg, x, m, Iteration(x, cfg, m, lost, got))
<1> DEFINE pre == Prelude(x, cfg, m, lost, got)
<1>1. Node(cfg, pre.sys) /\ IsSeq(pre.events) /\ pre.sys.timers = x.timers \ Due(x, m)
  <2>1. Prepared(cfg, x, m, pre)
    BY PreludeNode
  <2> HIDE DEF pre
  <2> QED
    BY <2>1 DEF Prepared
<1> DEFINE s == choose_next_deterministic(pre.sys)
           r == Deliver(pre.sys, cfg, m, s)
           one == <<DeliverEvent(cfg, s, r.id)>>
           ran == Iteration(x, cfg, m, lost, got)
<1>2. CASE Ready(pre.sys) = {}
  <2>1. ran = [ok |-> TRUE, sys |-> pre.sys, events |-> pre.events]
    BY <1>2 DEF Iteration
  <2> HIDE DEF ran, pre
  <2> QED
    BY <1>1, <2>1 DEF ran, Iterated
<1>3. CASE Ready(pre.sys) # {}
  <2>1. ran = IF r.ok
              THEN [ok |-> TRUE, sys |-> r.sys, events |-> (pre.events \o one) \o r.events]
              ELSE [ok |-> FALSE, sys |-> pre.sys, events |-> pre.events \o one]
    BY <1>3 DEF Iteration
  <2>2. s \in Services /\ pre.sys.inbox[s] # <<>>
    <3>1. s \in Ready(pre.sys)
      BY <1>3, ChoiceIsReady
    <3> QED
      BY <3>1 DEF Ready
  <2> DEFINE z == pre.sys
             before == pre.events
  <2> HIDE DEF pre, s, ran
  <2>3. /\ r.ok \in BOOLEAN /\ Node(cfg, r.sys)
        /\ z.timers \subseteq r.sys.timers
        /\ \A t \in r.sys.timers \ z.timers : t.due_step > m
        /\ IsSeq(r.events)
    BY <1>1, <2>2, DeliverNode
  <2>4. IsSeq(one)
    BY SeqOne
  <2> HIDE DEF r, one, before
  <2>5. IsSeq(before \o one)
    BY <1>1, <2>4, SeqConcat DEF before
  <2>6. IsSeq((before \o one) \o r.events)
    BY <2>3, <2>5, SeqConcat
  <2>7. CASE r.ok
    <3>1. ran = [ok |-> TRUE, sys |-> r.sys, events |-> (before \o one) \o r.events]
      BY <2>1, <2>7 DEF before
    <3> QED
      BY <1>1, <2>3, <2>6, <3>1 DEF ran, Iterated
  <2>8. CASE ~ r.ok
    <3>1. ran = [ok |-> FALSE, sys |-> z, events |-> before \o one]
      BY <2>1, <2>8 DEF before
    <3> QED
      BY <1>1, <2>5, <3>1 DEF ran, Iterated
  <2> QED
    BY <2>3, <2>7, <2>8
<1> QED
  BY <1>2, <1>3

================================================================================
