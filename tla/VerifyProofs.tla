----------------------------- MODULE VerifyProofs -----------------------------
(***************************************************************************)
(* What `tool verify' makes of what a recording node writes, for every     *)
(* program and configuration and whatever its peers send.                  *)
(***************************************************************************)
EXTENDS RuntimeProofs, TraceVerify

------------------------------------------------------------------------------
(***************************************************************************)
(* The number of pending messages is a sum over the services, which a      *)
(* message that comes or goes changes by one.                              *)
(***************************************************************************)
LEMMA ServicesFinite == IsFiniteSet(Services)
<1> DEFINE n == Len(Program.services)
           f == [i \in 1..n |-> Program.services[i]]
<1>1. n \in Nat /\ DOMAIN Program.services = 1..n
  BY TypesAssumption
<1>2. f \in Surjection(1..n, Services)
  BY <1>1 DEF Surjection, Services, Range
<1>3. IsFiniteSet(1..n)
  <2>1. \A m \in Nat : IsFiniteSet(1..m)
    BY ONLY FS_Interval
  <2> HIDE DEF n
  <2> QED
    BY ONLY <1>1, <2>1
<1> HIDE DEF f, n
<1> QED
  BY <1>2, <1>3, FS_Surjection

(* The sets of up to m services. *)
UpTo(m) == {U \in SUBSET Services : Cardinality(U) <= m}

Least(U) == CHOOSE s \in U : TRUE

LEMMA UpToFewer ==
    ASSUME NEW m \in Nat
    PROVE  /\ UpTo(0) = {{}} /\ UpTo(m) \subseteq UpTo(m + 1)
           /\ \A U \in UpTo(m + 1) : U # {} => Least(U) \in U /\ U \ {Least(U)} \in UpTo(m)
           /\ UpTo(Cardinality(Services)) = SUBSET Services
           /\ Cardinality(Services) \in Nat
<1>1. \A U \in SUBSET Services : IsFiniteSet(U) /\ Cardinality(U) \in Nat
  BY ServicesFinite, FS_Subset, FS_CardinalityType
<1>2. UpTo(0) = {{}}
  <2>1. \A U \in SUBSET Services : Cardinality(U) <= 0 <=> U = {}
    BY <1>1, FS_EmptySet
  <2> QED
    BY <2>1 DEF UpTo
<1>3. UpTo(m) \subseteq UpTo(m + 1)
  BY <1>1 DEF UpTo
<1>4. ASSUME NEW U \in UpTo(m + 1), U # {}
      PROVE  Least(U) \in U /\ U \ {Least(U)} \in UpTo(m)
  <2>1. Least(U) \in U
    BY <1>4 DEF Least
  <2>2. U \in SUBSET Services /\ Cardinality(U) <= m + 1
    BY DEF UpTo
  <2>3. Cardinality(U \ {Least(U)}) = Cardinality(U) - 1
    BY <1>1, <2>1, <2>2, FS_RemoveElement
  <2> QED
    BY <1>1, <2>1, <2>2, <2>3 DEF UpTo
<1>5. UpTo(Cardinality(Services)) = SUBSET Services
  <2>1. \A U \in SUBSET Services : Cardinality(U) <= Cardinality(Services)
    BY ServicesFinite, FS_Subset
  <2> QED
    BY <2>1 DEF UpTo
<1> QED
  BY <1>1, <1>2, <1>3, <1>4, <1>5

(* The sums over all sets of services. *)
Sums(f, inbox, D) ==
    f = [U \in D |-> IF U = {} THEN 0 ELSE Len(inbox[Least(U)]) + f[U \ {Least(U)}]]

LEMMA SumsExist ==
    ASSUME NEW inbox
    PROVE  \E f : Sums(f, inbox, SUBSET Services) /\ Pending(inbox) = f[Services]
<1> DEFINE T == {m \in Nat : \E f : Sums(f, inbox, UpTo(m))}
           n == Cardinality(Services)
<1>1. 0 \in T
  <2>1. Sums([U \in UpTo(0) |-> 0], inbox, UpTo(0))
    <3>1. UpTo(0) = {{}}
      BY UpToFewer
    <3> QED
      BY <3>1 DEF Sums
  <2> QED
    BY <2>1
<1>2. ASSUME NEW m \in T \cap Nat PROVE m + 1 \in T
  <2>1. PICK f : Sums(f, inbox, UpTo(m))
    OBVIOUS
  <2> DEFINE g == [U \in UpTo(m + 1) |->
                      IF U = {} THEN 0 ELSE Len(inbox[Least(U)]) + f[U \ {Least(U)}]]
  <2>2. \A U \in UpTo(m) :
           U \in UpTo(m + 1)
           /\ f[U] = IF U = {} THEN 0 ELSE Len(inbox[Least(U)]) + f[U \ {Least(U)}]
    BY <2>1, UpToFewer DEF Sums
  <2>3. \A U \in UpTo(m) : g[U] = f[U]
    BY <2>2
  <2>4. ASSUME NEW U \in UpTo(m + 1)
        PROVE  g[U] = IF U = {} THEN 0 ELSE Len(inbox[Least(U)]) + g[U \ {Least(U)}]
    BY <2>3, UpToFewer
  <2>5. g = [U \in UpTo(m + 1) |-> g[U]]
    OBVIOUS
  <2> HIDE DEF g
  <2>6. Sums(g, inbox, UpTo(m + 1))
    BY <2>4, <2>5 DEF Sums
  <2> QED
    BY <2>6
<1> HIDE DEF T
<1>3. n \in T
  <2>1. n \in Nat
    BY ServicesFinite, FS_CardinalityType
  <2> QED
    BY <1>1, <1>2, <2>1, Induction
<1>4. \E f : Sums(f, inbox, SUBSET Services)
  <2>1. UpTo(n) = SUBSET Services
    BY UpToFewer
  <2> QED
    BY <1>3, <2>1 DEF T
<1> DEFINE it == CHOOSE f : Sums(f, inbox, SUBSET Services)
<1>5. Sums(it, inbox, SUBSET Services)
  BY <1>4, Zenon
<1>6. Pending(inbox) = it[Services]
  BY DEF Pending, MapThenSumSet, MapThenFoldSet, Sums, Least
<1> HIDE DEF it
<1> QED
  BY <1>5, <1>6

(* What one inbox gains, the sum gains. *)
Inboxes(inbox) == \A s \in Services : IsSeq(inbox[s])

LEMMA PendingDiffers ==
    ASSUME NEW x, Inboxes(x), NEW y, Inboxes(y), NEW t \in Services,
           \A s \in Services \ {t} : y[s] = x[s], NEW d \in Int,
           Len(y[t]) = Len(x[t]) + d
    PROVE  Pending(x) \in Nat /\ Pending(y) = Pending(x) + d
<1>1. PICK f : Sums(f, x, SUBSET Services) /\ Pending(x) = f[Services]
  BY SumsExist
<1>2. PICK g : Sums(g, y, SUBSET Services) /\ Pending(y) = g[Services]
  BY SumsExist
<1> DEFINE Fine(U) == f[U] \in Nat /\ g[U] = f[U] + IF t \in U THEN d ELSE 0
           T == {m \in Nat : \A U \in UpTo(m) : Fine(U)}
           n == Cardinality(Services)
<1>3. 0 \in T
  <2>1. UpTo(0) = {{}}
    BY UpToFewer
  <2>2. f[{}] = 0 /\ g[{}] = 0
    BY <1>1, <1>2 DEF Sums
  <2>3. t \notin {} /\ 0 + 0 = 0
    OBVIOUS
  <2>4. Fine({})
    BY <2>2, <2>3
  <2> HIDE DEF Fine
  <2> QED
    BY <2>1, <2>4
<1>4. ASSUME NEW m \in T \cap Nat PROVE m + 1 \in T
  <2>1. ASSUME NEW U \in UpTo(m + 1) PROVE Fine(U)
    <3> DEFINE s == Least(U)
               V == U \ {s}
    <3>1. CASE U = {}
      BY <1>1, <1>2, <3>1 DEF Sums
    <3>2. CASE U # {}
      <4>1. s \in U /\ V \in UpTo(m) /\ U \in SUBSET Services
        BY <3>2, UpToFewer DEF UpTo
      <4>2. f[U] = Len(x[s]) + f[V] /\ g[U] = Len(y[s]) + g[V]
        BY <1>1, <1>2, <3>2, <4>1 DEF Sums
      <4>3. Fine(V)
        BY <4>1
      <4>4. Len(x[s]) \in Nat /\ Len(y[s]) \in Nat
        BY <4>1, SeqLen DEF Inboxes
      <4>5. CASE s = t
        <5>1. t \in U /\ t \notin V
          BY <4>1, <4>5
        <5>2. Len(y[s]) = Len(x[s]) + d
          BY <4>5
        <5> HIDE DEF s, V
        <5> QED
          BY <4>2, <4>3, <4>4, <5>1, <5>2
      <4>6. CASE s # t
        <5>1. t \in U <=> t \in V
          BY <4>6
        <5>2. Len(y[s]) = Len(x[s])
          BY <4>1, <4>6
        <5> HIDE DEF s, V
        <5> QED
          BY <4>2, <4>3, <4>4, <5>1, <5>2
      <4> QED
        BY <4>5, <4>6
    <3> QED
      BY <3>1, <3>2
  <2> HIDE DEF Fine
  <2> QED
    BY <2>1
<1> HIDE DEF T
<1>5. n \in T
  <2>1. n \in Nat
    BY ServicesFinite, FS_CardinalityType
  <2> QED
    BY <1>3, <1>4, <2>1, Induction
<1>6. Fine(Services)
  <2>1. Services \in UpTo(n)
    BY UpToFewer
  <2> HIDE DEF Fine
  <2> QED
    BY <1>5, <2>1 DEF T
<1> QED
  BY <1>1, <1>2, <1>6

LEMMA PendingNothing ==
    ASSUME NEW x, \A s \in Services : x[s] = <<>>
    PROVE  Pending(x) = 0
<1>1. PICK f : Sums(f, x, SUBSET Services) /\ Pending(x) = f[Services]
  BY SumsExist
<1> DEFINE T == {m \in Nat : \A U \in UpTo(m) : f[U] = 0}
           n == Cardinality(Services)
<1>2. 0 \in T
  <2>1. UpTo(0) = {{}}
    BY UpToFewer
  <2> QED
    BY <1>1, <2>1 DEF Sums
<1>3. ASSUME NEW m \in T \cap Nat PROVE m + 1 \in T
  <2>1. ASSUME NEW U \in UpTo(m + 1), U # {} PROVE f[U] = 0
    <3>1. Least(U) \in U /\ U \ {Least(U)} \in UpTo(m) /\ U \in SUBSET Services
      BY <2>1, UpToFewer DEF UpTo
    <3>2. Len(x[Least(U)]) = 0 /\ f[U \ {Least(U)}] = 0
      BY <3>1
    <3>3. f[U] = Len(x[Least(U)]) + f[U \ {Least(U)}]
      BY <1>1, <2>1, <3>1 DEF Sums
    <3> HIDE DEF T
    <3> QED
      BY <3>2, <3>3
  <2>2. f[{}] = 0
    BY <1>1 DEF Sums
  <2>3. \A U \in UpTo(m + 1) : f[U] = 0
    BY <2>1, <2>2
  <2> QED
    BY <2>3
<1> HIDE DEF T
<1>4. n \in T
  <2>1. n \in Nat
    BY ServicesFinite, FS_CardinalityType
  <2> QED
    BY <1>2, <1>3, <2>1, Induction
<1>5. Services \in UpTo(n)
  BY UpToFewer
<1> QED
  BY <1>1, <1>4, <1>5 DEF T

------------------------------------------------------------------------------
(***************************************************************************)
(* The verifier told one event at a time.                                  *)
(***************************************************************************)
EventKinds == {"Spawn", "Send", "NetSend", "NetRecv", "Drop", "Deliver", "TimerFired"}
                 \cup Observations

VerifiesBy(run, e) ==
    /\ run[0] = VerifyInit
    /\ \A k \in 1..Len(e) : run[k] = VerifyEvent(run[k - 1], e[k])

(* Messages to services this program lacks. *)
IsStranger(ev) == ev.kind = "NetRecv" /\ ev.to \notin Services
Strangers(e) == {i \in 1..Len(e) : IsStranger(e[i])}

(* After the events e the verifier is at v, having met n such messages. *)
Tells(e, v, n) ==
    /\ IsSeq(e) /\ \A i \in 1..Len(e) : e[i].kind \in EventKinds
    /\ \E run : VerifiesBy(run, e) /\ run[Len(e)] = v
    /\ n \in Nat /\ n = Cardinality(Strangers(e))

LEMMA TellsNothing == Tells(<<>>, VerifyInit, 0)
<1>1. IsSeq(<<>>) /\ Len(<<>>) = 0
  BY SeqOne
<1>2. Strangers(<<>>) = {}
  BY <1>1 DEF Strangers
<1>3. VerifiesBy([k \in {0} |-> VerifyInit], <<>>)
  BY <1>1 DEF VerifiesBy
<1> QED
  BY <1>1, <1>2, <1>3, FS_EmptySet DEF Tells

LEMMA TellsOne ==
    ASSUME NEW e, NEW v, NEW n, Tells(e, v, n), NEW ev, ev.kind \in EventKinds
    PROVE  Tells(Append(e, ev), VerifyEvent(v, ev), IF IsStranger(ev) THEN n + 1 ELSE n)
<1> DEFINE l == Len(e)
           f == Append(e, ev)
           w == VerifyEvent(v, ev)
<1>1. IsSeq(e) /\ n \in Nat /\ n = Cardinality(Strangers(e))
      /\ \A i \in 1..l : e[i].kind \in EventKinds
  BY DEF Tells
<1>2. PICK run : VerifiesBy(run, e) /\ run[l] = v
  BY DEF Tells
<1>3. /\ IsSeq(f) /\ l \in Nat /\ Len(f) = l + 1
      /\ \A i \in 1..l : f[i] = e[i]
      /\ f[l + 1] = ev
  BY <1>1, SeqAppend
<1> HIDE DEF f, w
<1>4. \A i \in 1..Len(f) : f[i].kind \in EventKinds
  BY <1>1, <1>3
<1> DEFINE more == [k \in 0..(l + 1) |-> IF k = l + 1 THEN w ELSE run[k]]
<1>5. VerifiesBy(more, f) /\ more[Len(f)] = w
  <2> HIDE DEF l
  <2>1. more[0] = run[0] /\ \A k \in 1..l : more[k] = run[k] /\ more[k - 1] = run[k - 1]
    BY <1>3
  <2>2. more[l + 1] = w /\ more[(l + 1) - 1] = v
    BY <1>2, <1>3
  <2> HIDE DEF more
  <2>3. \A k \in 1..(l + 1) : more[k] = VerifyEvent(more[k - 1], f[k])
    <3>1. ASSUME NEW k \in 1..l PROVE more[k] = VerifyEvent(more[k - 1], f[k])
      BY <1>2, <1>3, <2>1 DEF VerifiesBy, l
    <3>2. more[l + 1] = VerifyEvent(more[(l + 1) - 1], f[l + 1])
      BY <1>3, <2>2 DEF w
    <3>3. \A k \in 1..(l + 1) : k \in 1..l \/ k = l + 1
      BY <1>3
    <3> QED
      BY <3>1, <3>2, <3>3
  <2> QED
    BY <1>2, <1>3, <2>1, <2>2, <2>3 DEF VerifiesBy
<1>6. IF IsStranger(ev)
      THEN Cardinality(Strangers(f)) = n + 1 ELSE Cardinality(Strangers(f)) = n
  <2> DEFINE S == Strangers(e)
             T == Strangers(f)
  <2>1. IsFiniteSet(S) /\ l + 1 \notin S
    <3>1. IsFiniteSet(1..l)
      <4> HIDE DEF l
      <4> QED
        BY <1>3, FS_Interval
    <3>2. S \subseteq 1..l
      BY DEF Strangers
    <3>3. l + 1 \notin 1..l
      BY <1>3
    <3> QED
      BY <3>1, <3>2, <3>3, FS_Subset
  <2>2. T = IF IsStranger(ev) THEN S \cup {l + 1} ELSE S
    BY <1>3 DEF Strangers
  <2>3. Cardinality(S \cup {l + 1}) = Cardinality(S) + 1
    BY <2>1, FS_AddElement
  <2> HIDE DEF S, T
  <2> QED
    BY <1>1, <2>2, <2>3 DEF S, T
<1>7. \E r : VerifiesBy(r, f) /\ r[Len(f)] = w
  BY <1>5
<1>8. CASE IsStranger(ev)
  <2>1. Tells(f, w, n + 1)
    BY <1>1, <1>3, <1>4, <1>6, <1>7, <1>8 DEF Tells
  <2> QED
    BY <1>8, <2>1 DEF f, w
<1>9. CASE ~ IsStranger(ev)
  <2>1. Tells(f, w, n)
    BY <1>1, <1>3, <1>4, <1>6, <1>7, <1>9 DEF Tells
  <2> QED
    BY <1>9, <2>1 DEF f, w
<1> QED
  BY <1>8, <1>9

(* What `tool verify' says of the whole. *)
LEMMA TellsVerdict ==
    ASSUME NEW e, NEW v, NEW n, Tells(e, v, n)
    PROVE  LET r == verify_trace(e, positions(e))
           IN  /\ r.problems = v.problems \cup If(v.timer # <<>>, "timer_at_end")
                                          \cup If(v.effect # <<>>, "deliver_at_end")
               /\ r.pending_messages = Len(v.produced)
<1> DEFINE l == Len(e)
           Judged(after) == after = [m \in 0..l |->
                        IF m = 0 THEN VerifyInit ELSE VerifyEvent(after[m - 1], e[m])]
           it == CHOOSE after : Judged(after)
           end == it[l]
<1>1. IsSeq(e) /\ l \in Nat /\ DOMAIN e = 1..l
  BY SeqLen DEF Tells
<1>2. PICK run : VerifiesBy(run, e) /\ run[l] = v
  BY DEF Tells
<1>3. \E after : Judged(after)
  <2> DEFINE it0 == [m \in 0..l |-> run[m]]
  <2> HIDE DEF l
  <2>1. \A m \in 0..l : it0[m] = IF m = 0 THEN VerifyInit ELSE VerifyEvent(it0[m - 1], e[m])
    <3>1. ASSUME NEW m \in 0..l
          PROVE  it0[m] = IF m = 0 THEN VerifyInit ELSE VerifyEvent(it0[m - 1], e[m])
      <4>1. CASE m = 0
        BY <1>2, <4>1 DEF VerifiesBy
      <4>2. CASE m # 0
        <5>1. m \in 1..l /\ m - 1 \in 0..l
          BY <1>1, <4>2
        <5> QED
          BY <1>2, <4>2, <5>1 DEF VerifiesBy, l
      <4> QED
        BY <4>1, <4>2
    <3> QED
      BY <3>1
  <2>2. it0 = [m \in 0..l |-> it0[m]]
    OBVIOUS
  <2> HIDE DEF it0
  <2> QED
    BY <2>1, <2>2
<1>4. Judged(it)
  <2> HIDE DEF Judged
  <2> QED
    BY <1>3, Zenon
<1> HIDE DEF it
<1> DEFINE T == {k \in Nat : k <= l => it[k] = run[k]}
<1>5. 0 \in T
  BY <1>1, <1>2, <1>4 DEF VerifiesBy
<1>6. ASSUME NEW k \in T, k + 1 <= l PROVE it[k + 1] = run[k + 1]
  <2>1. k \in Nat /\ it[k] = run[k] /\ k + 1 \in 1..l /\ (k + 1) - 1 = k /\ k + 1 \in 0..l
    BY <1>1, <1>6
  <2>2. it[k + 1] = VerifyEvent(it[k], e[k + 1])
    <3>1. it[k + 1] = IF k + 1 = 0 THEN VerifyInit ELSE VerifyEvent(it[(k + 1) - 1], e[k + 1])
      <4> DEFINE j == k + 1
      <4>1. j \in 0..l
        BY <2>1
      <4> HIDE DEF j, l
      <4>2. it[j] = IF j = 0 THEN VerifyInit ELSE VerifyEvent(it[j - 1], e[j])
        BY <1>4, <4>1
      <4> QED
        BY <4>2 DEF j
    <3>2. k + 1 # 0
      BY <2>1
    <3> QED
      BY <2>1, <3>1, <3>2
  <2>3. run[k + 1] = VerifyEvent(run[k], e[k + 1])
    BY <1>2, <2>1 DEF VerifiesBy
  <2> QED
    BY <2>1, <2>2, <2>3
<1>7. \A k \in T \cap Nat : k + 1 \in T
  BY <1>6
<1> HIDE DEF T
<1>8. l \in T
  BY <1>1, <1>5, <1>7, Induction
<1>9. end = v
  BY <1>1, <1>2, <1>8 DEF T
<1>10. SeqProblems(positions(e)) = {}
  <2>1. \A i \in DOMAIN e : positions(e)[i] = expected_seq(positions(e), i)
    BY <1>1 DEF positions, expected_seq
  <2>2. DOMAIN positions(e) = DOMAIN e
    BY DEF positions
  <2> QED
    BY <2>1, <2>2 DEF SeqProblems, If
<1>11. verify_trace(e, positions(e))
         = [problems |-> end.problems \cup SeqProblems(positions(e))
                           \cup If(end.timer # <<>>, "timer_at_end")
                           \cup If(end.effect # <<>>, "deliver_at_end"),
            pending_messages |-> Len(end.produced)]
  BY DEF verify_trace, it
<1> HIDE DEF end
<1> QED
  BY <1>9, <1>10, <1>11

------------------------------------------------------------------------------
(***************************************************************************)
(* What the verifier makes of each event while it has nothing to complain  *)
(* of but n messages for services this program lacks, and expects nothing  *)
(* of the next event.                                                      *)
(***************************************************************************)
Crew == Services \cup {System}

Verifier(sp, pr, li, dr, ti, ef, pb) ==
    [spawned |-> sp, produced |-> pr, lineage |-> li, dropped |-> dr,
     timer |-> ti, effect |-> ef, problems |-> pb]

Calm(pr, li, dr, n) ==
    Verifier(Crew, pr, li, dr, <<>>, <<>>, If(n # 0, "netrecv_to_unknown"))

LEMMA VerifierParts ==
    ASSUME NEW sp, NEW pr, NEW li, NEW dr, NEW ti, NEW ef, NEW pb
    PROVE  LET v == Verifier(sp, pr, li, dr, ti, ef, pb)
           IN  /\ v.spawned = sp /\ v.produced = pr /\ v.lineage = li /\ v.dropped = dr
               /\ v.timer = ti /\ v.effect = ef /\ v.problems = pb
BY DEF Verifier

LEMMA VerifierSets ==
    ASSUME NEW sp, NEW pr, NEW li, NEW dr, NEW ti, NEW ef, NEW pb
    PROVE  LET v == Verifier(sp, pr, li, dr, ti, ef, pb)
           IN  /\ \A w : [v EXCEPT !.spawned = w] = Verifier(w, pr, li, dr, ti, ef, pb)
               /\ \A w : [v EXCEPT !.produced = w] = Verifier(sp, w, li, dr, ti, ef, pb)
               /\ \A w : [v EXCEPT !.lineage = w] = Verifier(sp, pr, w, dr, ti, ef, pb)
               /\ \A w : [v EXCEPT !.dropped = w] = Verifier(sp, pr, li, w, ti, ef, pb)
               /\ \A w : [v EXCEPT !.timer = w] = Verifier(sp, pr, li, dr, w, ef, pb)
               /\ \A w : [v EXCEPT !.effect = w] = Verifier(sp, pr, li, dr, ti, w, pb)
               /\ \A w : [v EXCEPT !.problems = w] = Verifier(sp, pr, li, dr, ti, ef, w)
BY DEF Verifier

LEMMA Reported ==
    ASSUME NEW sp, NEW pr, NEW li, NEW dr, NEW ti, NEW ef, NEW pb, NEW found
    PROVE  Report(Verifier(sp, pr, li, dr, ti, ef, pb), found)
              = Verifier(sp, pr, li, dr, ti, ef, pb \cup found)
<1> DEFINE v == Verifier(sp, pr, li, dr, ti, ef, pb)
<1>1. v.problems = pb /\ \A w : [v EXCEPT !.problems = w] = Verifier(sp, pr, li, dr, ti, ef, w)
  BY VerifierParts, VerifierSets
<1> HIDE DEF v
<1>2. Report(v, found) = Verifier(sp, pr, li, dr, ti, ef, pb \cup found)
  BY <1>1 DEF Report
<1> QED
  BY <1>2 DEF v

LEMMA CalmParts ==
    ASSUME NEW pr, NEW li, NEW dr, NEW n
    PROVE  LET v == Calm(pr, li, dr, n)
           IN  /\ v.spawned = Crew /\ v.produced = pr /\ v.lineage = li /\ v.dropped = dr
               /\ v.timer = <<>> /\ v.effect = <<>>
               /\ v.problems = If(n # 0, "netrecv_to_unknown")
               /\ \A s \in Crew : ~ Unknown(v, s)
               /\ \A ev : VerifyEvent(v, ev) = OnEvent(v, ev)
<1> DEFINE v == Calm(pr, li, dr, n)
<1>1. /\ v.spawned = Crew /\ v.produced = pr /\ v.lineage = li /\ v.dropped = dr
      /\ v.timer = <<>> /\ v.effect = <<>>
      /\ v.problems = If(n # 0, "netrecv_to_unknown")
  BY VerifierParts DEF Calm
<1> HIDE DEF v
<1> QED
  BY <1>1 DEF Unknown, VerifyEvent, v

Post(to, id, msg) == [to |-> to, id |-> id, msg |-> msg]

LEMMA Producing ==
    ASSUME NEW sp, NEW pr, NEW li, NEW dr, NEW ti, NEW ef, NEW pb, NEW ev
    PROVE  Produce(Verifier(sp, pr, li, dr, ti, ef, pb), ev)
              = Verifier(sp, Append(pr, Post(ev.to, ev.id, ev.msg)), li, dr, ti, ef, pb)
<1> DEFINE v == Verifier(sp, pr, li, dr, ti, ef, pb)
           post == Post(ev.to, ev.id, ev.msg)
<1>1. v.produced = pr /\ \A w : [v EXCEPT !.produced = w] = Verifier(sp, w, li, dr, ti, ef, pb)
  BY VerifierParts, VerifierSets
<1>2. Produce(v, ev) = [v EXCEPT !.produced = Append(@, post)]
  BY DEF Produce, Post
<1> HIDE DEF v, post
<1>3. Produce(v, ev) = Verifier(sp, Append(pr, post), li, dr, ti, ef, pb)
  BY <1>1, <1>2
<1> QED
  BY <1>3 DEF v, post

LEMMA SendVerified ==
    ASSUME NEW pr, NEW li, NEW dr, NEW n, NEW from \in Crew, NEW to \in Crew, NEW id, NEW msg
    PROVE  VerifyEvent(Calm(pr, li, dr, n), SendEvent(from, to, id, msg))
              = Calm(Append(pr, Post(to, id, msg)), li, dr, n)
<1> DEFINE v == Calm(pr, li, dr, n)
           ev == SendEvent(from, to, id, msg)
           w == Calm(Append(pr, Post(to, id, msg)), li, dr, n)
<1>1. ev.kind = "Send" /\ ev.from = from /\ ev.to = to /\ ev.id = id /\ ev.msg = msg
  BY DEF SendEvent
<1>2. VerifyEvent(v, ev) = OnEvent(v, ev) /\ ~ Unknown(v, from) /\ ~ Unknown(v, to)
  BY CalmParts
<1>3. Produce(v, ev) = w
  BY <1>1, Producing DEF Calm
<1>4. Report(w, {}) = w
  BY Reported DEF Calm
<1> HIDE DEF v, ev, w
<1>5. OnEvent(v, ev) = Report(Produce(v, ev), If(Unknown(v, ev.from) \/ Unknown(v, ev.to), "send_unknown"))
  BY <1>1 DEF OnEvent
<1>6. OnEvent(v, ev) = Report(w, {})
  BY <1>1, <1>2, <1>3, <1>5 DEF If
<1>7. VerifyEvent(v, ev) = w
  BY <1>2, <1>4, <1>6
<1> QED
  BY <1>7 DEF v, ev, w

LEMMA EmitVerified ==
    ASSUME NEW pr, NEW li, NEW dr, NEW n, NEW ev, ev.kind \in {"NetSend", "Log"},
           ev.from \in Crew
    PROVE  VerifyEvent(Calm(pr, li, dr, n), ev) = Calm(pr, li, dr, n)
<1> DEFINE v == Calm(pr, li, dr, n)
<1>1. VerifyEvent(v, ev) = OnEvent(v, ev) /\ ~ Unknown(v, ev.from)
  BY CalmParts
<1>2. Report(v, {}) = v
  BY Reported DEF Calm
<1> HIDE DEF v
<1>3. OnEvent(v, ev) = Report(v, If(Unknown(v, ev.from), "emit_by_unknown"))
  BY DEF OnEvent
<1>4. VerifyEvent(v, ev) = v
  BY <1>1, <1>2, <1>3 DEF If
<1> QED
  BY <1>4 DEF v

(* A timer that fires is followed by what it emits. *)
LEMMA TimerVerified ==
    ASSUME NEW pr, NEW li, NEW dr, NEW n, NEW cfg, NEW t, NEW ev,
           ev.kind \in {"Send", "NetSend"}, ev.from = t.from
    PROVE  VerifyEvent(VerifyEvent(Calm(pr, li, dr, n), TimerFiredEvent(cfg, t)), ev)
              = VerifyEvent(Calm(pr, li, dr, n), ev)
<1> DEFINE v == Calm(pr, li, dr, n)
           fired == TimerFiredEvent(cfg, t)
           w == Verifier(Crew, pr, li, dr, <<fired>>, <<>>, If(n # 0, "netrecv_to_unknown"))
<1>1. \A e : VerifyEvent(v, e) = OnEvent(v, e)
  BY CalmParts
<1>2. fired.kind = "TimerFired" /\ fired.from = t.from
  BY DEF TimerFiredEvent
<1>3. OnEvent(v, fired) = w
  <2>1. [v EXCEPT !.timer = <<fired>>] = w
    BY VerifierSets DEF Calm
  <2> HIDE DEF v, w, fired
  <2> QED
    BY <1>2, <2>1 DEF OnEvent
<1>4. w.timer = <<fired>> /\ w.effect = <<>> /\ [w EXCEPT !.timer = <<>>] = v
  BY VerifierParts, VerifierSets DEF Calm
<1>5. Report(v, {}) = v
  BY Reported DEF Calm
<1> HIDE DEF v, w, fired
<1>6. ExpectEffect(w, ev) = w
  BY <1>4 DEF ExpectEffect
<1>7. ExpectTimerEmit(w, ev) = v
  <2>1. w.timer # <<>> /\ w.timer[1] = fired
    BY <1>4
  <2>2. ExpectTimerEmit(w, ev) = Report(v, If(ev.from # w.timer[1].from, "timer_wrong_sender"))
    BY <1>4, <2>1 DEF ExpectTimerEmit
  <2> QED
    BY <1>2, <1>5, <2>1, <2>2 DEF If
<1>8. VerifyEvent(w, ev) = OnEvent(v, ev)
  <2>1. ~ (w.timer = <<>>)
    BY <1>4
  <2> QED
    BY <1>6, <1>7, <2>1 DEF VerifyEvent
<1>9. VerifyEvent(VerifyEvent(v, fired), ev) = VerifyEvent(v, ev)
  BY <1>1, <1>3, <1>8
<1> QED
  BY <1>9 DEF v, fired

LEMMA DropVerified ==
    ASSUME NEW pr, NEW li, NEW dr, NEW n, NEW cfg, NEW env
    PROVE  VerifyEvent(Calm(pr, li, dr, n), DropEvent(cfg, env))
              = Calm(pr, li, dr \cup {<<env.from_node, env.to, env.id>>}, n)
<1> DEFINE v == Calm(pr, li, dr, n)
           ev == DropEvent(cfg, env)
           key == <<env.from_node, env.to, env.id>>
<1>1. VerifyEvent(v, ev) = OnEvent(v, ev) /\ v.dropped = dr
  BY CalmParts
<1>2. ev.kind = "Drop" /\ <<ev.from_node, ev.to, ev.id>> = key
  BY DEF DropEvent
<1>3. \A w : [v EXCEPT !.dropped = w] = Calm(pr, li, w, n)
  BY VerifierSets DEF Calm
<1> HIDE DEF v, ev, key
<1>4. OnEvent(v, ev) = [v EXCEPT !.dropped = @ \cup {key}]
  BY <1>2 DEF OnEvent
<1>5. VerifyEvent(v, ev) = Calm(pr, li, dr \cup {key}, n)
  BY <1>1, <1>3, <1>4
<1> QED
  BY <1>5 DEF v, ev, key

LEMMA RecvVerified ==
    ASSUME NEW pr, NEW li, NEW dr, NEW n \in Nat, NEW cfg, NEW env,
           <<env.from_node, env.to, env.id>> \notin dr, env.to # System
    PROVE  VerifyEvent(Calm(pr, li, dr, n), NetRecvEvent(cfg, env))
              = Calm(Append(pr, Post(env.to, env.id, env.msg)), li, dr,
                     IF env.to \in Services THEN n ELSE n + 1)
<1> DEFINE v == Calm(pr, li, dr, n)
           ev == NetRecvEvent(cfg, env)
           q == Append(pr, Post(env.to, env.id, env.msg))
           pb == If(n # 0, "netrecv_to_unknown")
<1>1. /\ ev.kind = "NetRecv" /\ ev.from_node = env.from_node /\ ev.to = env.to
      /\ ev.id = env.id /\ ev.msg = env.msg
  BY DEF NetRecvEvent
<1>2. VerifyEvent(v, ev) = OnEvent(v, ev) /\ v.dropped = dr /\ v.spawned = Crew
  BY CalmParts
<1>3. Produce(v, ev) = Verifier(Crew, q, li, dr, <<>>, <<>>, pb)
  BY <1>1, Producing DEF Calm
<1>4. OnEvent(v, ev) = Report(Produce(v, ev), If(Unknown(v, ev.to), "netrecv_to_unknown")
                         \cup If(<<ev.from_node, ev.to, ev.id>> \in v.dropped, "received_after_drop"))
  <2> HIDE DEF v, ev
  <2> QED
    BY <1>1 DEF OnEvent
<1> HIDE DEF v, ev, q
<1>5. If(<<ev.from_node, ev.to, ev.id>> \in v.dropped, "received_after_drop") = {}
  BY <1>1, <1>2 DEF If
<1>6. Unknown(v, ev.to) <=> env.to \notin Services
  BY <1>1, <1>2 DEF Unknown, Crew
<1> DEFINE more == If(env.to \notin Services, "netrecv_to_unknown")
<1>7. VerifyEvent(v, ev) = Verifier(Crew, q, li, dr, <<>>, <<>>, pb \cup more)
  <2>1. If(Unknown(v, ev.to), "netrecv_to_unknown") = more
    BY <1>6 DEF If
  <2> HIDE DEF pb, more
  <2>2. OnEvent(v, ev) = Report(Produce(v, ev), more)
    BY <1>4, <1>5, <2>1
  <2> QED
    BY <1>2, <1>3, <2>2, Reported
<1>8. pb \cup more = If((IF env.to \in Services THEN n ELSE n + 1) # 0, "netrecv_to_unknown")
  BY DEF If
<1> QED
  BY <1>7, <1>8 DEF Calm, v, ev, q

(* A delivery of a message whose lineage is in order. *)
Entry(id, msg) ==
    LET p == msg.prov[1]
    IN  [node |-> msg.from_node, id |-> id, hops |-> p.hops,
         origin_msg |-> p.origin_msg, origin_node |-> p.origin_node,
         origin_service |-> p.origin_service]

Entered(li, id, msg) ==
    (li \ {l \in li : l.node = msg.from_node /\ l.id = id}) \cup {Entry(id, msg)}

Rooted(id, msg, p) ==
    /\ p.origin_msg = id /\ p.parent_msg = id
    /\ p.parent_node = msg.from_node /\ p.origin_node = msg.from_node
    /\ p.origin_service = msg.from_service

Descends(p, l) ==
    /\ p.hops = l.hops + 1 /\ p.origin_msg = l.origin_msg
    /\ p.origin_node = l.origin_node /\ p.origin_service = l.origin_service

Parented(li, id, msg, p) ==
    /\ ~ (p.parent_node = msg.from_node /\ p.parent_msg = id)
    /\ \A l \in li : l.node = p.parent_node /\ l.id = p.parent_msg => Descends(p, l)

Sane(li, id, msg) ==
    /\ msg.prov # <<>>
    /\ LET p == msg.prov[1]
       IN  IF p.hops = 0 THEN Rooted(id, msg, p) ELSE Parented(li, id, msg, p)

LEMMA PayloadVerified ==
    ASSUME NEW pr, NEW li, NEW dr, NEW pb, NEW ev, NEW msg, Sane(li, ev.id, msg)
    PROVE  verify_payload_lineage(Verifier(Crew, pr, li, dr, <<>>, <<>>, pb), ev, msg)
              = Verifier(Crew, pr, Entered(li, ev.id, msg), dr, <<>>, <<>>, pb)
<1> DEFINE v == Verifier(Crew, pr, li, dr, <<>>, <<>>, pb)
           p == msg.prov[1]
           entry == Entry(ev.id, msg)
           older == {l \in v.lineage : l.node = entry.node /\ l.id = entry.id}
           new == (v.lineage \ older) \cup {entry}
           w == Verifier(Crew, pr, Entered(li, ev.id, msg), dr, <<>>, <<>>, pb)
           found == IF p.hops = 0 THEN RootProblems(ev, msg, p)
                    ELSE ParentProblems(v, ev, msg, p)
<1>1. v.lineage = li
  BY VerifierParts
<1>2. found = {}
  <2>1. CASE p.hops = 0
    <3>1. Rooted(ev.id, msg, p)
      BY <2>1 DEF Sane
    <3> QED
      BY <2>1, <3>1 DEF Rooted, RootProblems, If
  <2>2. CASE p.hops # 0
    <3>1. Parented(li, ev.id, msg, p)
      BY <2>2 DEF Sane
    <3> HIDE DEF v, p
    <3>2. If(p.parent_node = msg.from_node /\ p.parent_msg = ev.id, "own_parent") = {}
      BY <3>1 DEF Parented, If
    <3>3. ASSUME NEW l \in {l \in v.lineage : l.node = p.parent_node /\ l.id = p.parent_msg}
          PROVE  If(\/ p.hops # l.hops + 1
                    \/ p.origin_msg # l.origin_msg
                    \/ p.origin_node # l.origin_node
                    \/ p.origin_service # l.origin_service, "bad_parent") = {}
      <4>1. Descends(p, l)
        BY <1>1, <3>1 DEF Parented
      <4> QED
        BY <4>1 DEF Descends, If
    <3>4. ParentProblems(v, ev, msg, p) = {}
      BY <3>2, <3>3, ZenonT(60) DEF ParentProblems
    <3> QED
      BY <2>2, <3>4
  <2> QED
    BY <2>1, <2>2
<1>3. new = Entered(li, ev.id, msg)
  BY <1>1 DEF Entered, Entry
<1>4. [v EXCEPT !.lineage = Entered(li, ev.id, msg)] = w
  BY VerifierSets
<1>5. verify_payload_lineage(v, ev, msg)
         = Report([v EXCEPT !.lineage = (@ \ older) \cup {entry}], found)
  <2>1. msg.prov # <<>>
    BY DEF Sane
  <2> HIDE DEF v
  <2> QED
    BY <2>1 DEF verify_payload_lineage, Entry
<1>6. Report(w, {}) = w
  BY Reported
<1> HIDE DEF v, w, found, older, entry
<1>7. [v EXCEPT !.lineage = (@ \ older) \cup {entry}] = w
  BY <1>3, <1>4
<1> QED
  BY <1>2, <1>5, <1>6, <1>7 DEF v, w

LEMMA DeliverVerified ==
    ASSUME NEW pr, IsSeq(pr), NEW li, NEW dr, NEW n, NEW cfg, NEW s \in Services, NEW id,
           NEW i \in 1..Len(pr), pr[i].to = s, pr[i].id = id,
           \A j \in 1..Len(pr) : pr[j].to = s => i <= j,
           Sane(li, id, pr[i].msg)
    PROVE  LET ev == DeliverEvent(cfg, s, id)
           IN  VerifyEvent(Calm(pr, li, dr, n), ev)
                  = Verifier(Crew, RemoveAt(pr, i), Entered(li, id, pr[i].msg), dr,
                             <<>>, <<ev>>, If(n # 0, "netrecv_to_unknown"))
<1> DEFINE v == Calm(pr, li, dr, n)
           ev == DeliverEvent(cfg, s, id)
           msg == pr[i].msg
           pb == If(n # 0, "netrecv_to_unknown")
           queue == {j \in DOMAIN v.produced : /\ v.produced[j].to = ev.to
                                               /\ v.produced[j].id = ev.id}
           taken == CHOOSE k \in queue : \A j \in queue : k <= j
           known == Report(v, If(Unknown(v, ev.to), "deliver_to_unknown"))
           popped == Verifier(Crew, RemoveAt(pr, i), li, dr, <<>>, <<>>, pb)
           done == Verifier(Crew, RemoveAt(pr, i), Entered(li, id, msg), dr, <<>>, <<>>, pb)
<1>1. ev.kind = "Deliver" /\ ev.to = s /\ ev.id = id
  BY DEF DeliverEvent
<1>2. VerifyEvent(v, ev) = OnEvent(v, ev) /\ v.produced = pr /\ ~ Unknown(v, s)
  BY CalmParts DEF Crew
<1>3. Len(pr) \in Nat /\ DOMAIN pr = 1..Len(pr)
  BY SeqLen
<1>4. i \in queue /\ \A j \in queue : i <= j
  BY <1>1, <1>2, <1>3
<1>5. taken = i
  <2>1. \A j \in queue : j \in Nat
    BY <1>2, <1>3
  <2> HIDE DEF queue
  <2>2. taken \in queue /\ \A j \in queue : taken <= j
    BY <1>4, Zenon
  <2> HIDE DEF taken
  <2> QED
    BY <1>4, <2>1, <2>2
<1>6. Report(v, {}) = v
  BY Reported DEF Calm
<1>7. known = v
  <2> HIDE DEF v, ev
  <2> QED
    BY <1>1, <1>2, <1>6 DEF If
<1>8. [v EXCEPT !.produced = RemoveAt(pr, i)] = popped
  BY VerifierSets DEF Calm
<1>9. verify_payload_lineage(popped, ev, msg) = done
  <2>1. Sane(li, ev.id, msg)
    BY <1>1
  <2> HIDE DEF ev, msg
  <2> QED
    BY <1>1, <2>1, PayloadVerified
<1>10. [done EXCEPT !.effect = <<ev>>]
          = Verifier(Crew, RemoveAt(pr, i), Entered(li, id, msg), dr, <<>>, <<ev>>, pb)
  BY VerifierSets
<1>11. OnEvent(v, ev) = OnDeliver(v, ev)
  <2> HIDE DEF v, ev
  <2> QED
    BY <1>1 DEF OnEvent
<1>12. OnDeliver(v, ev)
          = [(IF queue = {}
              THEN Report(known, {"deliver_without_send"})
              ELSE verify_payload_lineage([known EXCEPT !.produced = RemoveAt(@, taken)],
                                          ev, v.produced[taken].msg))
             EXCEPT !.effect = <<ev>>]
  <2> HIDE DEF v, ev
  <2> QED
    BY DEF OnDeliver
<1>13. queue # {}
  BY <1>4
<1> HIDE DEF queue, taken, known, v, ev, popped, done
<1>14. [known EXCEPT !.produced = RemoveAt(@, taken)] = popped
  BY <1>2, <1>5, <1>7, <1>8
<1>15. OnDeliver(v, ev) = [done EXCEPT !.effect = <<ev>>]
  BY <1>2, <1>5, <1>9, <1>12, <1>13, <1>14
<1> QED
  BY <1>2, <1>10, <1>11, <1>15 DEF v, ev

LEMMA EffectVerified ==
    ASSUME NEW pr, NEW li, NEW dr, NEW n, NEW cfg, NEW s \in Services, NEW id, NEW type,
           NEW declared, NEW observed, observed \subseteq declared
    PROVE  VerifyEvent(Verifier(Crew, pr, li, dr, <<>>, <<DeliverEvent(cfg, s, id)>>,
                                If(n # 0, "netrecv_to_unknown")),
                       EffectEvent(cfg, s, type, id, declared, observed))
              = Calm(pr, li, dr, n)
<1> DEFINE del == DeliverEvent(cfg, s, id)
           ev == EffectEvent(cfg, s, type, id, declared, observed)
           pb == If(n # 0, "netrecv_to_unknown")
           v == Verifier(Crew, pr, li, dr, <<>>, <<del>>, pb)
           w == Calm(pr, li, dr, n)
<1>1. del.node = cfg.node /\ del.to = s /\ del.id = id
  BY DEF DeliverEvent
<1>2. /\ ev.kind = "EffectObserved" /\ ev.node = cfg.node /\ ev.actor = s /\ ev.id = id
      /\ ev.declared = declared /\ ev.observed = observed
  BY DEF EffectEvent
<1>3. v.effect = <<del>> /\ v.timer = <<>> /\ v.spawned = Crew
  BY VerifierParts
<1>4. [v EXCEPT !.effect = <<>>] = w /\ Report(w, {}) = w
  BY VerifierSets, Reported DEF Calm
<1>5. ~ Unknown(v, s)
  BY <1>3 DEF Unknown, Crew
<1> HIDE DEF v, w, ev, del
<1>6. v.effect # <<>> /\ v.effect[1] = del
  BY <1>3
<1>7. VerifyEvent(v, ev) = OnEvent(v, ev)
  <2>1. ExpectEffect(v, ev) = v
    BY <1>2 DEF ExpectEffect
  <2>2. ExpectTimerEmit(v, ev) = v
    BY <1>3 DEF ExpectTimerEmit
  <2> QED
    BY <2>1, <2>2 DEF VerifyEvent
<1>8. OnEvent(v, ev) = OnEffect(v, ev)
  BY <1>2 DEF OnEvent
<1>9. OnEffect(v, ev) = Report(w, {})
  <2>1. If(Unknown(v, ev.actor), "effect_of_unknown") = {}
    BY <1>2, <1>5 DEF If
  <2>2. If(v.effect = <<>>, "effect_without_deliver") = {}
    BY <1>6 DEF If
  <2>3. If(/\ v.effect # <<>>
           /\ \/ ev.node # v.effect[1].node
              \/ ev.actor # v.effect[1].to
              \/ ev.id # v.effect[1].id, "effect_mismatch") = {}
    BY <1>1, <1>2, <1>6 DEF If
  <2>4. If(~(ev.observed \subseteq ev.declared), "undeclared_effect") = {}
    BY <1>2 DEF If
  <2> QED
    BY <1>4, <2>1, <2>2, <2>3, <2>4 DEF OnEffect
<1>10. VerifyEvent(v, ev) = w
  BY <1>4, <1>7, <1>8, <1>9
<1> QED
  BY <1>10 DEF v, w, ev, del

------------------------------------------------------------------------------
(***************************************************************************)
(* The messages in an inbox stand among those the verifier takes for       *)
(* pending, in their order.                                                *)
(***************************************************************************)
Places(f, pr, q, s) ==
    /\ \A k \in 1..Len(q) : f[k] \in 1..Len(pr) /\ pr[f[k]] = Post(s, q[k].id, q[k].msg)
    /\ \A j, k \in 1..Len(q) : j < k => f[j] < f[k]
    /\ \A i \in 1..Len(pr) : pr[i].to = s => \E k \in 1..Len(q) : f[k] = i

Lane(pr, q, s) == \E f : Places(f, pr, q, s)

LEMMA LaneComes ==
    ASSUME NEW pr, IsSeq(pr), NEW q, IsSeq(q), NEW s, Lane(pr, q, s), NEW id, NEW msg
    PROVE  Lane(Append(pr, Post(s, id, msg)), Append(q, [id |-> id, msg |-> msg]), s)
<1> DEFINE post == Post(s, id, msg)
           item == [id |-> id, msg |-> msg]
           l == Len(pr)
           n == Len(q)
           p2 == Append(pr, post)
           q2 == Append(q, item)
<1>1. PICK f : Places(f, pr, q, s)
  BY DEF Lane
<1>2. item.id = id /\ item.msg = msg
  OBVIOUS
<1> HIDE DEF item
<1>3. /\ l \in Nat /\ Len(p2) = l + 1 /\ p2[l + 1] = post /\ \A i \in 1..l : p2[i] = pr[i]
  BY SeqAppend
<1>4. /\ n \in Nat /\ Len(q2) = n + 1 /\ q2[n + 1] = item /\ \A i \in 1..n : q2[i] = q[i]
  BY SeqAppend
<1> DEFINE g == [k \in 1..(n + 1) |-> IF k = n + 1 THEN l + 1 ELSE f[k]]
<1> HIDE DEF p2, q2, post
<1>5. /\ \A k \in 1..n : f[k] \in 1..l /\ pr[f[k]] = Post(s, q[k].id, q[k].msg)
      /\ \A j, k \in 1..n : j < k => f[j] < f[k]
      /\ \A i \in 1..l : pr[i].to = s => \E k \in 1..n : f[k] = i
  BY <1>1 DEF Places
<1> HIDE DEF l, n
<1>6. g[n + 1] = l + 1 /\ \A k \in 1..n : g[k] = f[k] /\ g[k] \in 1..l
  BY <1>4, <1>5
<1>7. \A k \in 1..(n + 1) : k \in 1..n \/ k = n + 1
  BY <1>4
<1>8. \A i \in 1..(l + 1) : i \in 1..l \/ i = l + 1
  BY <1>3
<1>9. 1..n \subseteq 1..(n + 1) /\ 1..l \subseteq 1..(l + 1) /\ l + 1 \in 1..(l + 1)
      /\ n + 1 \in 1..(n + 1) /\ \A k \in 1..l : k < l + 1
  BY <1>3, <1>4
<1> HIDE DEF g
<1>10. ASSUME NEW k \in 1..(n + 1)
       PROVE  g[k] \in 1..(l + 1) /\ p2[g[k]] = Post(s, q2[k].id, q2[k].msg)
  <2>1. CASE k = n + 1
    BY <1>2, <1>3, <1>4, <1>6, <1>9, <2>1 DEF post
  <2>2. CASE k \in 1..n
    BY <1>3, <1>4, <1>5, <1>6, <1>9, <2>2
  <2> QED
    BY <1>7, <2>1, <2>2
<1>11. ASSUME NEW j \in 1..(n + 1), NEW k \in 1..(n + 1), j < k PROVE g[j] < g[k]
  <2>1. j \in 1..n
    BY <1>4, <1>11
  <2>2. CASE k = n + 1
    BY <1>6, <1>9, <2>1, <2>2
  <2>3. CASE k \in 1..n
    BY <1>5, <1>6, <1>11, <2>1, <2>3
  <2> QED
    BY <1>7, <2>2, <2>3
<1>12. ASSUME NEW i \in 1..(l + 1), p2[i].to = s PROVE \E k \in 1..(n + 1) : g[k] = i
  <2>1. CASE i = l + 1
    BY <1>6, <1>9, <2>1
  <2>2. CASE i \in 1..l
    <3>1. pr[i].to = s
      BY <1>3, <1>12, <2>2
    <3>2. PICK k \in 1..n : f[k] = i
      BY <1>5, <2>2, <3>1
    <3> QED
      BY <1>6, <1>9, <3>2
  <2> QED
    BY <1>8, <2>1, <2>2
<1>13. Places(g, p2, q2, s)
  BY <1>3, <1>4, <1>10, <1>11, <1>12 DEF Places
<1> QED
  BY <1>13 DEF Lane, p2, q2, post, item

LEMMA LanePasses ==
    ASSUME NEW pr, IsSeq(pr), NEW q, NEW s, Lane(pr, q, s), NEW post, post.to # s
    PROVE  Lane(Append(pr, post), q, s)
<1> DEFINE l == Len(pr)
           p2 == Append(pr, post)
<1>1. PICK f : Places(f, pr, q, s)
  BY DEF Lane
<1>2. /\ l \in Nat /\ Len(p2) = l + 1 /\ p2[l + 1] = post /\ \A i \in 1..l : p2[i] = pr[i]
  BY SeqAppend
<1> HIDE DEF p2
<1>3. \A i \in 1..(l + 1) : i \in 1..l \/ i = l + 1
  BY <1>2
<1>4. 1..l \subseteq 1..(l + 1)
  BY <1>2
<1>5. \A i \in 1..Len(p2) : p2[i].to = s => i \in 1..l /\ pr[i].to = s
  BY <1>2, <1>3
<1>6. \A k \in 1..Len(q) : f[k] \in 1..Len(p2) /\ p2[f[k]] = Post(s, q[k].id, q[k].msg)
  BY <1>1, <1>2, <1>4 DEF Places
<1>7. Places(f, p2, q, s)
  BY <1>1, <1>5, <1>6 DEF Places
<1> QED
  BY <1>7 DEF Lane, p2

(* A message for another that is taken out. *)
LEMMA LaneStays ==
    ASSUME NEW pr, IsSeq(pr), NEW q, NEW s, Lane(pr, q, s),
           NEW i \in 1..Len(pr), pr[i].to # s
    PROVE  Lane(RemoveAt(pr, i), q, s)
<1> DEFINE l == Len(pr)
           p2 == RemoveAt(pr, i)
           n == Len(q)
<1>1. PICK f : Places(f, pr, q, s)
  BY DEF Lane
<1>2. l \in Nat /\ i \in Nat /\ i >= 1 /\ i <= l
  BY SeqLen
<1>3. Len(p2) = l - 1 /\ \A j \in 1..(l - 1) : p2[j] = IF j < i THEN pr[j] ELSE pr[j + 1]
  BY Removed
<1> HIDE DEF p2
<1> DEFINE g == [k \in 1..n |-> IF f[k] < i THEN f[k] ELSE f[k] - 1]
<1>4. /\ \A k \in 1..n : f[k] \in 1..l /\ pr[f[k]] = Post(s, q[k].id, q[k].msg)
      /\ \A j, k \in 1..n : j < k => f[j] < f[k]
      /\ \A j \in 1..l : pr[j].to = s => \E k \in 1..n : f[k] = j
  BY <1>1 DEF Places
<1>5. ASSUME NEW k \in 1..n PROVE f[k] # i
  <2>1. Post(s, q[k].id, q[k].msg).to = s
    BY DEF Post
  <2>2. pr[f[k]] = Post(s, q[k].id, q[k].msg)
    BY <1>4
  <2> QED
    BY <2>1, <2>2
<1>0. n = Len(q)
  OBVIOUS
<1> HIDE DEF l, n
<1>6. ASSUME NEW k \in 1..n
      PROVE  /\ g[k] \in 1..(l - 1) /\ p2[g[k]] = pr[f[k]]
             /\ f[k] \in Int /\ g[k] \in Int
             /\ f[k] < i => g[k] = f[k]
             /\ ~ (f[k] < i) => f[k] > i /\ g[k] = f[k] - 1
  <2> DEFINE a == f[k]
             b == g[k]
  <2>1. a \in Nat /\ 1 <= a /\ a <= l /\ a # i
    BY <1>2, <1>4, <1>5
  <2>2. b = IF a < i THEN a ELSE a - 1
    OBVIOUS
  <2> HIDE DEF a, b
  <2>3. /\ b \in 1..(l - 1) /\ a \in Int /\ b \in Int
        /\ a < i => b < i /\ b = a
        /\ ~ (a < i) => a > i /\ b = a - 1 /\ ~ (b < i) /\ b + 1 = a
    BY <1>2, <2>1, <2>2
  <2>4. p2[b] = pr[a]
    BY <1>3, <2>3
  <2> QED
    BY <2>3, <2>4 DEF a, b
<1> HIDE DEF g
<1>7. ASSUME NEW j \in 1..n, NEW k \in 1..n, j < k PROVE g[j] < g[k]
  <2>1. f[j] < f[k]
    BY <1>4, <1>7
  <2>2. /\ f[j] \in Int /\ g[j] \in Int /\ (f[j] < i => g[j] = f[j])
        /\ ~ (f[j] < i) => f[j] > i /\ g[j] = f[j] - 1
    BY <1>6
  <2>3. /\ f[k] \in Int /\ g[k] \in Int /\ (f[k] < i => g[k] = f[k])
        /\ ~ (f[k] < i) => f[k] > i /\ g[k] = f[k] - 1
    BY <1>6
  <2>4. i \in Int
    BY <1>2
  <2> QED
    BY ONLY <2>1, <2>2, <2>3, <2>4
<1>8. ASSUME NEW j \in 1..(l - 1), p2[j].to = s PROVE \E k \in 1..n : g[k] = j
  <2> DEFINE a == IF j < i THEN j ELSE j + 1
  <2>1. a \in 1..l /\ p2[j] = pr[a]
    BY <1>2, <1>3
  <2>2. PICK k \in 1..n : f[k] = a
    BY <1>4, <1>8, <2>1
  <2>3. g[k] = j
    BY <1>2, <1>6, <2>2
  <2> QED
    BY <2>3
<1>9. Places(g, p2, q, s)
  BY <1>0, <1>3, <1>4, <1>6, <1>7, <1>8 DEF Places
<1> QED
  BY <1>9 DEF Lane, p2

(* The front message is the first of the pending ones for its service. *)
LEMMA LaneFront ==
    ASSUME NEW pr, IsSeq(pr), NEW q, IsSeq(q), q # <<>>, NEW s, Lane(pr, q, s)
    PROVE  \E i \in 1..Len(pr) :
              /\ pr[i] = Post(s, Head(q).id, Head(q).msg)
              /\ \A j \in 1..Len(pr) : pr[j].to = s => i <= j
              /\ Lane(RemoveAt(pr, i), Tail(q), s)
<1> DEFINE l == Len(pr)
           n == Len(q)
           q2 == Tail(q)
<1>1. PICK f : Places(f, pr, q, s)
  BY DEF Lane
<1> DEFINE i == f[1]
           p2 == RemoveAt(pr, i)
<1>2. l \in Nat /\ n \in Nat /\ n >= 1 /\ Head(q) = q[1]
  BY SeqLen, SeqTail
<1>3. Len(q2) = n - 1 /\ \A k \in 1..(n - 1) : q2[k] = q[k + 1]
  <2> DEFINE S == Range(q)
  <2> HIDE DEF S
  <2>1. q \in Seq(S)
    BY DEF IsSeq, S
  <2> QED
    BY <2>1
<1>4. /\ \A k \in 1..n : f[k] \in 1..l /\ pr[f[k]] = Post(s, q[k].id, q[k].msg)
      /\ \A j, k \in 1..n : j < k => f[j] < f[k]
      /\ \A j \in 1..l : pr[j].to = s => \E k \in 1..n : f[k] = j
  BY <1>1 DEF Places
<1>5. 1 \in 1..n /\ i \in 1..l /\ pr[i] = Post(s, Head(q).id, Head(q).msg)
  BY <1>2, <1>4
<1>6. ASSUME NEW j \in 1..l, pr[j].to = s PROVE i <= j
  <2>1. PICK k \in 1..n : f[k] = j
    BY <1>4, <1>6
  <2>2. CASE k = 1
    BY <1>5, <2>1, <2>2
  <2>3. CASE k # 1
    <3>1. 1 < k
      BY <2>3
    <3> QED
      BY <1>4, <1>5, <2>1, <3>1
  <2> QED
    BY <2>2, <2>3
<1>7. Len(p2) = l - 1 /\ \A j \in 1..(l - 1) : p2[j] = IF j < i THEN pr[j] ELSE pr[j + 1]
  BY <1>5, Removed
<1> HIDE DEF i, p2, q2, l, n
<1> DEFINE g == [k \in 1..(n - 1) |-> f[k + 1] - 1]
<1>8. ASSUME NEW k \in 1..(n - 1)
      PROVE  /\ k + 1 \in 1..n /\ g[k] = f[k + 1] - 1 /\ f[k + 1] \in Int
             /\ g[k] \in 1..(l - 1) /\ p2[g[k]] = pr[f[k + 1]]
  <2> DEFINE a == f[k + 1]
             b == g[k]
  <2>1. k + 1 \in 1..n /\ 1 < k + 1 /\ b = a - 1
    BY <1>2
  <2>2. i < a /\ a \in 1..l
    BY <1>4, <1>5, <2>1 DEF i
  <2> HIDE DEF a, b
  <2>3. i \in Nat /\ i >= 1
    BY <1>5
  <2>4. b \in 1..(l - 1) /\ ~ (b < i) /\ b + 1 = a /\ a \in Int
    BY <1>2, <2>1, <2>2, <2>3
  <2>5. p2[b] = pr[a]
    BY <1>7, <2>4
  <2> QED
    BY <2>1, <2>4, <2>5 DEF a, b
<1> HIDE DEF g
<1>9. ASSUME NEW j \in 1..(n - 1), NEW k \in 1..(n - 1), j < k PROVE g[j] < g[k]
  <2>1. j + 1 < k + 1 /\ j + 1 \in 1..n /\ k + 1 \in 1..n
    BY <1>8, <1>9
  <2>2. f[j + 1] < f[k + 1]
    BY <1>4, <2>1
  <2> QED
    BY <1>8, <2>2
<1>10. ASSUME NEW j \in 1..(l - 1), p2[j].to = s PROVE \E k \in 1..(n - 1) : g[k] = j
  <2> DEFINE a == IF j < i THEN j ELSE j + 1
  <2>1. a \in 1..l /\ p2[j] = pr[a] /\ j \in Nat /\ i \in Nat
    BY <1>2, <1>5, <1>7
  <2>2. i <= a
    BY <1>6, <1>10, <2>1
  <2>3. a = j + 1 /\ a # i
    BY <2>1, <2>2
  <2>4. PICK k \in 1..n : f[k] = a
    BY <1>4, <1>10, <2>1
  <2>5. k # 1
    BY <2>3, <2>4 DEF i
  <2>6. k - 1 \in 1..(n - 1) /\ (k - 1) + 1 = k
    BY <1>2, <2>5
  <2>7. g[k - 1] = f[k] - 1
    BY <1>8, <2>6
  <2>8. g[k - 1] = j
    BY <2>1, <2>3, <2>4, <2>7
  <2> QED
    BY <2>6, <2>8
<1>11. ASSUME NEW k \in 1..(n - 1)
       PROVE  g[k] \in 1..(l - 1) /\ p2[g[k]] = Post(s, q2[k].id, q2[k].msg)
  BY <1>3, <1>4, <1>8
<1>12. Places(g, p2, q2, s)
  BY <1>3, <1>7, <1>9, <1>10, <1>11 DEF Places
<1>13. Lane(p2, q2, s)
  BY <1>12 DEF Lane
<1> QED
  BY <1>5, <1>6, <1>13 DEF p2, q2, l

(* What is pending for the verifier: the inboxes, and n messages more that *)
(* are for no service.                                                     *)
Stocked(inbox, pr, n) ==
    /\ IsSeq(pr) /\ n \in Nat /\ Len(pr) = Pending(inbox) + n
    /\ \A s \in Services : Lane(pr, inbox[s], s)

IsInboxes(inbox) == inbox = [s \in Services |-> inbox[s]] /\ Inboxes(inbox)

LEMMA StockNothing ==
    ASSUME NEW inbox, \A s \in Services : inbox[s] = <<>>
    PROVE  Stocked(inbox, <<>>, 0)
<1>1. Pending(inbox) = 0
  BY PendingNothing
<1>2. IsSeq(<<>>) /\ Len(<<>>) = 0
  BY SeqOne
<1>3. ASSUME NEW s \in Services PROVE Lane(<<>>, inbox[s], s)
  <2>1. inbox[s] = <<>>
    OBVIOUS
  <2>2. Places(<<>>, <<>>, <<>>, s)
    BY <1>2 DEF Places
  <2> QED
    BY <2>1, <2>2 DEF Lane
<1> QED
  BY <1>1, <1>2, <1>3 DEF Stocked

LEMMA StockComes ==
    ASSUME NEW x, IsInboxes(x), NEW pr, NEW n, Stocked(x, pr, n),
           NEW s \in Services, NEW id, NEW msg,
           NEW y, y = [x EXCEPT ![s] = Append(@, [id |-> id, msg |-> msg])]
    PROVE  Stocked(y, Append(pr, Post(s, id, msg)), n) /\ IsInboxes(y)
<1> DEFINE item == [id |-> id, msg |-> msg]
           post == Post(s, id, msg)
           p2 == Append(pr, post)
<1>1. post.to = s
  BY DEF Post
<1>2. y[s] = Append(x[s], item) /\ y = [t \in Services |-> y[t]]
      /\ \A t \in Services \ {s} : y[t] = x[t]
  BY DEF IsInboxes
<1>3. IsSeq(x[s]) /\ Inboxes(x) /\ IsSeq(pr) /\ Lane(pr, x[s], s)
  BY DEF IsInboxes, Inboxes, Stocked
<1>4. Lane(p2, Append(x[s], item), s)
  BY <1>3, LaneComes
<1> HIDE DEF item, post
<1>5. IsSeq(y[s]) /\ Len(y[s]) = Len(x[s]) + 1
  BY <1>2, <1>3, SeqAppend
<1>6. Inboxes(y)
  BY <1>2, <1>3, <1>5 DEF Inboxes
<1>7. Pending(x) \in Nat /\ Pending(y) = Pending(x) + 1
  <2> DEFINE d == 1
  <2>1. d \in Int /\ Inboxes(x) /\ Inboxes(y)
    BY <1>3, <1>6
  <2>2. \A t \in Services \ {s} : y[t] = x[t]
    BY <1>2
  <2>3. Len(y[s]) = Len(x[s]) + d
    BY <1>5
  <2> HIDE DEF d
  <2>4. Pending(x) \in Nat /\ Pending(y) = Pending(x) + d
    BY ONLY s \in Services, <2>1, <2>2, <2>3, PendingDiffers
  <2> QED
    BY <2>4 DEF d
<1>8. Len(pr) \in Nat /\ IsSeq(p2) /\ Len(p2) = Len(pr) + 1
  BY <1>3, SeqAppend
<1>9. ASSUME NEW t \in Services PROVE Lane(p2, y[t], t)
  <2>1. CASE t = s
    BY <1>2, <1>4, <2>1
  <2>2. CASE t # s
    <3>1. Lane(pr, x[t], t)
      BY DEF Stocked
    <3> QED
      BY <1>1, <1>2, <1>3, <2>2, <3>1, LanePasses
  <2> QED
    BY <2>1, <2>2
<1> HIDE DEF p2
<1>10. Len(p2) = Pending(y) + n
  BY <1>7, <1>8 DEF Stocked
<1>11. Stocked(y, p2, n)
  BY <1>8, <1>9, <1>10 DEF Stocked
<1> QED
  BY <1>2, <1>6, <1>11 DEF IsInboxes, p2, post

LEMMA StockPasses ==
    ASSUME NEW x, IsInboxes(x), NEW pr, NEW n, Stocked(x, pr, n),
           NEW to, to \notin Services, NEW id, NEW msg
    PROVE  Stocked(x, Append(pr, Post(to, id, msg)), n + 1)
<1> DEFINE post == Post(to, id, msg)
           p2 == Append(pr, post)
<1>1. post.to = to
  BY DEF Post
<1> HIDE DEF post
<1>2. IsSeq(pr) /\ n \in Nat /\ Len(pr) = Pending(x) + n
  BY DEF Stocked
<1>3. Len(pr) \in Nat /\ IsSeq(p2) /\ Len(p2) = Len(pr) + 1
  BY <1>2, SeqAppend
<1>4. ASSUME NEW s \in Services PROVE Lane(p2, x[s], s)
  <2>1. Lane(pr, x[s], s) /\ post.to # s
    BY <1>1 DEF Stocked
  <2> QED
    BY <1>2, <2>1, LanePasses
<1>5. Pending(x) \in Nat
  <2>1. PICK s : s \in Services
    BY EntryService
  <2>2. Inboxes(x) /\ Len(x[s]) \in Nat
    BY <2>1, SeqLen DEF IsInboxes, Inboxes
  <2>3. Len(x[s]) = Len(x[s]) + 0 /\ 0 \in Int
    BY <2>2
  <2> QED
    BY <2>1, <2>2, <2>3, PendingDiffers
<1> HIDE DEF p2
<1>6. Len(p2) = Pending(x) + (n + 1) /\ n + 1 \in Nat
  BY <1>2, <1>3, <1>5
<1>7. Stocked(x, p2, n + 1)
  BY <1>3, <1>4, <1>6 DEF Stocked
<1> QED
  BY <1>7 DEF p2, post

(* The front message of an inbox is delivered. *)
Foremost(pr, i, s, q) ==
    /\ i \in 1..Len(pr) /\ pr[i] = Post(s, Head(q).id, Head(q).msg)
    /\ \A j \in 1..Len(pr) : pr[j].to = s => i <= j

LEMMA StockGoes ==
    ASSUME NEW x, IsInboxes(x), NEW pr, NEW n, Stocked(x, pr, n),
           NEW s \in Services, x[s] # <<>>, NEW y, y = [x EXCEPT ![s] = Tail(@)]
    PROVE  /\ \E i : Foremost(pr, i, s, x[s]) /\ Stocked(y, RemoveAt(pr, i), n)
           /\ IsInboxes(y)
<1>1. y[s] = Tail(x[s]) /\ y = [t \in Services |-> y[t]]
      /\ \A t \in Services \ {s} : y[t] = x[t]
  BY DEF IsInboxes
<1>2. IsSeq(x[s]) /\ Inboxes(x) /\ IsSeq(pr) /\ Lane(pr, x[s], s)
  BY DEF IsInboxes, Inboxes, Stocked
<1>3. PICK i \in 1..Len(pr) : /\ pr[i] = Post(s, Head(x[s]).id, Head(x[s]).msg)
                              /\ \A j \in 1..Len(pr) : pr[j].to = s => i <= j
                              /\ Lane(RemoveAt(pr, i), Tail(x[s]), s)
  BY <1>2, LaneFront
<1> DEFINE p2 == RemoveAt(pr, i)
<1>4. pr[i].to = s
  BY <1>3 DEF Post
<1>5. IsSeq(p2) /\ Len(p2) = Len(pr) - 1
  BY <1>2, Removed
<1>6. IsSeq(y[s]) /\ Len(y[s]) = Len(x[s]) + (-1)
  <2>1. IsSeq(Tail(x[s]))
    BY <1>2, SeqTail
  <2>2. Len(Tail(x[s])) = Len(x[s]) + (-1)
    <3> DEFINE q == x[s]
               S == Range(q)
    <3>1. q # <<>> /\ q \in Seq(S)
      BY <1>2 DEF IsSeq
    <3> HIDE DEF q, S
    <3>2. Len(Tail(q)) = Len(q) - 1 /\ Len(q) \in Nat
      BY <3>1
    <3> QED
      BY <3>2 DEF q
  <2> QED
    BY <1>1, <2>1, <2>2
<1>7. Inboxes(y)
  BY <1>1, <1>2, <1>6 DEF Inboxes
<1>8. Pending(x) \in Nat /\ Pending(y) = Pending(x) + (-1)
  <2> DEFINE d == -1
  <2>1. d \in Int /\ Inboxes(x) /\ Inboxes(y)
    BY <1>2, <1>7
  <2>2. \A t \in Services \ {s} : y[t] = x[t]
    BY <1>1
  <2>3. Len(y[s]) = Len(x[s]) + d
    BY <1>6
  <2> HIDE DEF d
  <2>4. Pending(x) \in Nat /\ Pending(y) = Pending(x) + d
    BY ONLY s \in Services, <2>1, <2>2, <2>3, PendingDiffers
  <2> QED
    BY <2>4 DEF d
<1>9. ASSUME NEW t \in Services PROVE Lane(p2, y[t], t)
  <2>1. CASE t = s
    BY <1>1, <1>3, <2>1
  <2>2. CASE t # s
    <3>1. Lane(pr, x[t], t) /\ pr[i].to # t
      BY <1>4, <2>2 DEF Stocked
    <3> QED
      BY <1>1, <1>2, <2>2, <3>1, LaneStays
  <2> QED
    BY <2>1, <2>2
<1> HIDE DEF p2
<1>10. Len(p2) = Pending(y) + n
  <2>1. Len(pr) = Pending(x) + n /\ n \in Nat
    BY DEF Stocked
  <2> QED
    BY <1>5, <1>8, <2>1
<1>11. n \in Nat
  BY DEF Stocked
<1>12. Stocked(y, p2, n)
  BY <1>5, <1>9, <1>10, <1>11 DEF Stocked
<1>13. Foremost(pr, i, s, x[s])
  BY <1>3 DEF Foremost
<1> QED
  BY <1>1, <1>7, <1>12, <1>13 DEF IsInboxes, p2

------------------------------------------------------------------------------
(***************************************************************************)
(* The verifier's books beside the node.  `mail' are the envelopes the     *)
(* node has written to the wire, `came' those that have reached it, and    *)
(* `next' its next message id.                                             *)
(***************************************************************************)
(* An id that a message delivered here, or still to be, may bear.          *)
Issued(cfg, next, mail, came, node, id) ==
    IF node = cfg.node THEN id \in Nat /\ id < next /\ \A w \in mail : w.id # id
                       ELSE \E env \in came : env.from_node = node /\ env.id = id

(* No two pending messages, and no pending and delivered one, are the same. *)
Distinct(pr, li) ==
    /\ \A i, j \in 1..Len(pr) :
          pr[i].msg.from_node = pr[j].msg.from_node /\ pr[i].id = pr[j].id => i = j
    /\ \A i \in 1..Len(pr) : \A l \in li :
          ~ (pr[i].msg.from_node = l.node /\ pr[i].id = l.id)

Keyed(cfg, next, pr, li, mail, came) ==
    /\ Distinct(pr, li)
    /\ \A i \in 1..Len(pr) : Issued(cfg, next, mail, came, pr[i].msg.from_node, pr[i].id)
    /\ \A l \in li : Issued(cfg, next, mail, came, l.node, l.id)

(* A message with one provenance. *)
Provenance(p) ==
    /\ p = [origin_node |-> p.origin_node, origin_service |-> p.origin_service,
            origin_msg |-> p.origin_msg, parent_node |-> p.parent_node,
            parent_msg |-> p.parent_msg, hops |-> p.hops]
    /\ p.hops \in Nat
Single(msg) == msg.prov = <<msg.prov[1]>> /\ Provenance(msg.prov[1])

Names(p, l) == l.node = p.parent_node /\ l.id = p.parent_msg

(* A bootstrap message; an answer to a delivered message; a peer's message. *)
Root(cfg, id, msg) ==
    /\ msg.from_node = cfg.node /\ Single(msg) /\ msg.prov[1].hops = 0
    /\ Rooted(id, msg, msg.prov[1])

Child(cfg, li, msg) ==
    /\ msg.from_node = cfg.node /\ Single(msg) /\ msg.prov[1].hops # 0
    /\ \E l \in li : Names(msg.prov[1], l)
    /\ \A l \in li : Names(msg.prov[1], l) => Descends(msg.prov[1], l)

Answers(cfg, mail, p) == p.parent_node = cfg.node => \E w \in mail : w.id = p.parent_msg

Guest(cfg, mail, came, id, msg) ==
    \E env \in came : env.id = id /\ env.msg = msg /\ Answers(cfg, mail, msg.prov[1])

Proper(cfg, li, out) == out.service \in Services /\ Child(cfg, li, out.msg)

Traced(cfg, timers, pr, li, mail, came) ==
    /\ \A i \in 1..Len(pr) : \/ Root(cfg, pr[i].id, pr[i].msg)
                             \/ Child(cfg, li, pr[i].msg)
                             \/ Guest(cfg, mail, came, pr[i].id, pr[i].msg)
    /\ \A t \in timers : t.from \in Services /\ Proper(cfg, li, t.out)

(* What the node has written to the wire. *)
Posted(cfg, next, li, w) ==
    /\ w.id \in Nat /\ w.id < next
    /\ w.from_node = cfg.node /\ w.to_node # cfg.node /\ w.to \in Services
    /\ Child(cfg, li, w.msg)

Mailed(cfg, next, li, mail) ==
    /\ \A w \in mail : Posted(cfg, next, li, w)
    /\ \A v, w \in mail : v.id = w.id => v = w

(* The losses and the messages for services this program lacks. *)
Noted(dr, came, n) ==
    /\ \A k \in dr : \E env \in came : k = <<env.from_node, env.to, env.id>>
    /\ n # 0 => \E env \in came : env.to \notin Services

NextId(cfg, x) == cfg.node + x.msg_counter

Books(cfg, x, mail, pr, li, dr, came, n) ==
    /\ Stocked(x.inbox, pr, n)
    /\ Keyed(cfg, NextId(cfg, x), pr, li, mail, came)
    /\ Mailed(cfg, NextId(cfg, x), li, mail)
    /\ Traced(cfg, x.timers, pr, li, mail, came)
    /\ Noted(dr, came, n)

(* What other nodes send: no two envelopes are the same message, none is a *)
(* bootstrap message, and nothing sent here is an answer to another thing  *)
(* sent here, which only this node could give.                             *)
Genuine(node, all) ==
    /\ \A env \in all :
          /\ env.from_node # node /\ env.msg.from_node = env.from_node
          /\ env.to # System /\ Single(env.msg) /\ env.msg.prov[1].hops # 0
          /\ \A e \in all : ~ (/\ e.from_node = env.msg.prov[1].parent_node
                               /\ e.id = env.msg.prov[1].parent_msg)
    /\ \A d, e \in all : d.from_node = e.from_node /\ d.id = e.id => d = e

LEMMA IssuedOn ==
    ASSUME NEW cfg, NEW next, NEW mail, NEW came, NEW node, NEW id,
           Issued(cfg, next, mail, came, node, id), next \in Nat,
           NEW next2, next2 \in Nat, next <= next2,
           NEW mail2, \A w \in mail2 : w \in mail \/ w.id = next,
           NEW came2, came \subseteq came2
    PROVE  Issued(cfg, next2, mail2, came2, node, id)
<1>1. CASE node = cfg.node
  <2>1. id \in Nat /\ id < next /\ \A w \in mail : w.id # id
    BY <1>1 DEF Issued
  <2>2. id < next2 /\ id # next
    BY <2>1
  <2>3. \A w \in mail2 : w.id # id
    BY <2>1, <2>2
  <2> QED
    BY <1>1, <2>1, <2>2, <2>3 DEF Issued
<1>2. CASE node # cfg.node
  BY <1>2 DEF Issued
<1> QED
  BY <1>1, <1>2

LEMMA KeyedOn ==
    ASSUME NEW cfg, NEW next, NEW mail, NEW came, NEW pr, NEW li,
           Keyed(cfg, next, pr, li, mail, came), next \in Nat,
           NEW next2, next2 \in Nat, next <= next2,
           NEW mail2, \A w \in mail2 : w \in mail \/ w.id = next,
           NEW came2, came \subseteq came2
    PROVE  Keyed(cfg, next2, pr, li, mail2, came2)
<1>1. ASSUME NEW node, NEW id, Issued(cfg, next, mail, came, node, id)
      PROVE  Issued(cfg, next2, mail2, came2, node, id)
  BY <1>1, IssuedOn
<1> QED
  BY <1>1 DEF Keyed

LEMMA TracedOn ==
    ASSUME NEW cfg, NEW timers, NEW pr, NEW li, NEW mail, NEW came,
           Traced(cfg, timers, pr, li, mail, came),
           NEW mail2, mail \subseteq mail2, NEW came2, came \subseteq came2,
           NEW timers2, \A t \in timers2 : t \in timers \/ (t.from \in Services /\ Proper(cfg, li, t.out))
    PROVE  Traced(cfg, timers2, pr, li, mail2, came2)
<1>1. \A id, msg : Guest(cfg, mail, came, id, msg) => Guest(cfg, mail2, came2, id, msg)
  BY DEF Guest, Answers
<1> QED
  BY <1>1 DEF Traced

LEMMA MailedOn ==
    ASSUME NEW cfg, NEW next, next \in Nat, NEW li, NEW mail, Mailed(cfg, next, li, mail),
           NEW next2, next2 \in Nat, next <= next2
    PROVE  Mailed(cfg, next2, li, mail)
<1>1. ASSUME NEW w \in mail PROVE Posted(cfg, next2, li, w)
  <2>1. Posted(cfg, next, li, w)
    BY DEF Mailed
  <2>2. w.id < next2
    BY <2>1 DEF Posted
  <2> QED
    BY <2>1, <2>2 DEF Posted
<1> QED
  BY <1>1 DEF Mailed

LEMMA KeyedAdd ==
    ASSUME NEW cfg, NEW next, NEW mail, NEW came, NEW pr, IsSeq(pr), NEW li,
           Keyed(cfg, next, pr, li, mail, came), NEW post,
           Issued(cfg, next, mail, came, post.msg.from_node, post.id),
           \A i \in 1..Len(pr) : ~ (/\ pr[i].msg.from_node = post.msg.from_node
                                    /\ pr[i].id = post.id),
           \A l \in li : ~ (l.node = post.msg.from_node /\ l.id = post.id)
    PROVE  Keyed(cfg, next, Append(pr, post), li, mail, came)
<1> DEFINE l == Len(pr)
           p2 == Append(pr, post)
<1>1. /\ l \in Nat /\ Len(p2) = l + 1 /\ p2[l + 1] = post /\ \A i \in 1..l : p2[i] = pr[i]
  BY SeqAppend
<1> HIDE DEF p2
<1>2. \A i \in 1..Len(p2) : i \in 1..l \/ i = l + 1
  BY <1>1
<1>3. ASSUME NEW i \in 1..Len(p2), NEW j \in 1..Len(p2),
             p2[i].msg.from_node = p2[j].msg.from_node, p2[i].id = p2[j].id
      PROVE  i = j
  <2>1. CASE i \in 1..l /\ j \in 1..l
    BY <1>1, <1>3, <2>1 DEF Keyed, Distinct
  <2>2. CASE i \in 1..l /\ j = l + 1
    BY <1>1, <1>3, <2>2
  <2>3. CASE i = l + 1 /\ j \in 1..l
    BY <1>1, <1>3, <2>3
  <2> QED
    BY <1>2, <2>1, <2>2, <2>3
<1>4. ASSUME NEW i \in 1..Len(p2), NEW k \in li
      PROVE  ~ (p2[i].msg.from_node = k.node /\ p2[i].id = k.id)
  <2>1. CASE i \in 1..l
    BY <1>1, <2>1 DEF Keyed, Distinct
  <2>2. CASE i = l + 1
    BY <1>1, <2>2
  <2> QED
    BY <1>2, <2>1, <2>2
<1>5. ASSUME NEW i \in 1..Len(p2)
      PROVE  Issued(cfg, next, mail, came, p2[i].msg.from_node, p2[i].id)
  <2>1. CASE i \in 1..l
    BY <1>1, <2>1 DEF Keyed
  <2>2. CASE i = l + 1
    BY <1>1, <2>2
  <2> QED
    BY <1>2, <2>1, <2>2
<1>6. Distinct(p2, li)
  BY <1>3, <1>4 DEF Distinct
<1>7. Keyed(cfg, next, p2, li, mail, came)
  BY <1>5, <1>6 DEF Keyed
<1> QED
  BY <1>7 DEF p2

LEMMA TracedAdd ==
    ASSUME NEW cfg, NEW timers, NEW pr, IsSeq(pr), NEW li, NEW mail, NEW came,
           Traced(cfg, timers, pr, li, mail, came), NEW post,
           \/ Root(cfg, post.id, post.msg)
           \/ Child(cfg, li, post.msg)
           \/ Guest(cfg, mail, came, post.id, post.msg)
    PROVE  Traced(cfg, timers, Append(pr, post), li, mail, came)
<1> DEFINE l == Len(pr)
           p2 == Append(pr, post)
           Fine(p) == \/ Root(cfg, p.id, p.msg)
                      \/ Child(cfg, li, p.msg)
                      \/ Guest(cfg, mail, came, p.id, p.msg)
<1>1. /\ l \in Nat /\ Len(p2) = l + 1 /\ p2[l + 1] = post /\ \A i \in 1..l : p2[i] = pr[i]
  BY SeqAppend
<1>2. Fine(post) /\ \A i \in 1..l : Fine(pr[i])
  BY DEF Traced
<1> HIDE DEF p2, Fine
<1>3. \A i \in 1..Len(p2) : i \in 1..l \/ i = l + 1
  BY <1>1
<1>4. \A i \in 1..Len(p2) : Fine(p2[i])
  BY <1>1, <1>2, <1>3
<1>5. Traced(cfg, timers, p2, li, mail, came)
  BY <1>4 DEF Traced, Fine
<1> QED
  BY <1>5 DEF p2

LEMMA NextNat ==
    ASSUME NEW cfg, cfg.node \in Nat, NEW x, Node(cfg, x)
    PROVE  /\ NextId(cfg, x) \in Nat /\ NextId(cfg, x) + 1 \in Nat
           /\ NextId(cfg, x) <= NextId(cfg, x) + 1
           /\ next_deterministic_msg_id(cfg, x) = NextId(cfg, x)
           /\ IsInboxes(x.inbox)
           /\ \A y : y.msg_counter = x.msg_counter + 1 => NextId(cfg, y) = NextId(cfg, x) + 1
<1>1. x.msg_counter \in Nat
  BY DEF Node
<1>2. NextId(cfg, x) \in Nat
  BY <1>1 DEF NextId
<1>3. IsInboxes(x.inbox)
  BY DEF Node, IsInboxes, Inboxes
<1>4. ASSUME NEW y, y.msg_counter = x.msg_counter + 1 PROVE NextId(cfg, y) = NextId(cfg, x) + 1
  BY <1>1, <1>4 DEF NextId
<1> HIDE DEF NextId
<1> QED
  BY <1>2, <1>3, <1>4 DEF NextId, next_deterministic_msg_id

(* A message to an actor of the node. *)
LEMMA BooksAdd ==
    ASSUME NEW cfg, cfg.node \in Nat, NEW x, Node(cfg, x), NEW mail, NEW pr, NEW li, NEW dr,
           NEW came, NEW n, Books(cfg, x, mail, pr, li, dr, came, n),
           NEW s \in Services, NEW id, id = NextId(cfg, x), NEW msg, msg.from_node = cfg.node,
           Root(cfg, id, msg) \/ Child(cfg, li, msg),
           NEW y, y.inbox = [x.inbox EXCEPT ![s] = Append(@, [id |-> id, msg |-> msg])],
           y.timers = x.timers, y.msg_counter = x.msg_counter + 1
    PROVE  Books(cfg, y, mail, Append(pr, Post(s, id, msg)), li, dr, came, n)
<1> DEFINE post == Post(s, id, msg)
<1>1. /\ Stocked(x.inbox, pr, n) /\ Keyed(cfg, NextId(cfg, x), pr, li, mail, came)
      /\ Mailed(cfg, NextId(cfg, x), li, mail) /\ Traced(cfg, x.timers, pr, li, mail, came)
      /\ Noted(dr, came, n) /\ IsSeq(pr)
  BY DEF Books, Stocked
<1>2. id \in Nat /\ id + 1 \in Nat /\ id <= id + 1 /\ id < id + 1 /\ IsInboxes(x.inbox)
      /\ NextId(cfg, y) = id + 1
  BY NextNat
<1>3. post.id = id /\ post.msg = msg /\ post.to = s
  BY DEF Post
<1>4. Stocked(y.inbox, Append(pr, post), n)
  BY <1>1, <1>2, StockComes
<1> HIDE DEF post
<1>5. Keyed(cfg, id + 1, pr, li, mail, came)
  BY <1>1, <1>2, KeyedOn
<1>6. Issued(cfg, id + 1, mail, came, post.msg.from_node, post.id)
  <2>1. ASSUME NEW w \in mail PROVE w.id # id
    <3>1. w.id \in Nat /\ w.id < id
      BY <1>1 DEF Mailed, Posted
    <3> QED
      BY <1>2, <3>1
  <2> QED
    BY <1>2, <1>3, <2>1 DEF Issued
<1>7. ASSUME NEW k, Issued(cfg, id, mail, came, cfg.node, k) PROVE k # id
  <2>1. k \in Nat /\ k < id
    BY <1>7 DEF Issued
  <2> QED
    BY <1>2, <2>1
<1>8. \A i \in 1..Len(pr) : ~ (pr[i].msg.from_node = post.msg.from_node /\ pr[i].id = post.id)
  BY <1>1, <1>3, <1>7 DEF Keyed
<1>9. \A l \in li : ~ (l.node = post.msg.from_node /\ l.id = post.id)
  BY <1>1, <1>3, <1>7 DEF Keyed
<1>10. Keyed(cfg, id + 1, Append(pr, post), li, mail, came)
  BY <1>1, <1>5, <1>6, <1>8, <1>9, KeyedAdd
<1>11. Mailed(cfg, id + 1, li, mail)
  BY <1>1, <1>2, MailedOn
<1>12. Traced(cfg, y.timers, Append(pr, post), li, mail, came)
  <2>1. Root(cfg, post.id, post.msg) \/ Child(cfg, li, post.msg)
    BY <1>3
  <2> QED
    BY <1>1, <2>1, TracedAdd
<1> QED
  BY <1>1, <1>2, <1>4, <1>10, <1>11, <1>12 DEF Books, post

(* A message handed to the network, or to nobody. *)
LEMMA BooksMail ==
    ASSUME NEW cfg, cfg.node \in Nat, NEW x, Node(cfg, x), NEW mail, NEW pr, NEW li, NEW dr,
           NEW came, NEW n, Books(cfg, x, mail, pr, li, dr, came, n),
           NEW w, w.id = NextId(cfg, x), w.from_node = cfg.node, w.to_node # cfg.node,
           w.to \in Services, Child(cfg, li, w.msg),
           NEW mail2, mail2 = mail \/ mail2 = mail \cup {w},
           NEW y, y.inbox = x.inbox, y.timers = x.timers, y.msg_counter = x.msg_counter + 1
    PROVE  Books(cfg, y, mail2, pr, li, dr, came, n)
<1> DEFINE id == NextId(cfg, x)
<1>1. /\ Stocked(x.inbox, pr, n) /\ Keyed(cfg, id, pr, li, mail, came)
      /\ Mailed(cfg, id, li, mail) /\ Traced(cfg, x.timers, pr, li, mail, came)
      /\ Noted(dr, came, n)
  BY DEF Books
<1>2. id \in Nat /\ id + 1 \in Nat /\ id <= id + 1 /\ id < id + 1 /\ NextId(cfg, y) = id + 1
  BY NextNat
<1>0. w.id = id
  OBVIOUS
<1> HIDE DEF id
<1>3. mail \subseteq mail2 /\ \A v \in mail2 : v \in mail \/ v = w
  OBVIOUS
<1>4. Keyed(cfg, id + 1, pr, li, mail2, came)
  <2>1. \A v \in mail2 : v \in mail \/ v.id = id
    BY <1>0, <1>3
  <2> QED
    BY <1>1, <1>2, <2>1, KeyedOn
<1>5. Mailed(cfg, id + 1, li, mail)
  BY <1>1, <1>2, MailedOn
<1>6. Posted(cfg, id + 1, li, w)
  BY <1>0, <1>2 DEF Posted
<1>7. \A v \in mail : v.id # w.id
  <2>1. ASSUME NEW v \in mail PROVE v.id # id
    <3>1. v.id \in Nat /\ v.id < id
      BY <1>1 DEF Mailed, Posted
    <3> QED
      BY <1>2, <3>1
  <2> QED
    BY <1>0, <2>1
<1>8. Mailed(cfg, id + 1, li, mail2)
  BY <1>3, <1>5, <1>6, <1>7 DEF Mailed
<1>9. Traced(cfg, y.timers, pr, li, mail2, came)
  <2>1. came \subseteq came /\ \A t \in y.timers : t \in x.timers
    OBVIOUS
  <2> QED
    BY <1>1, <1>3, <2>1, TracedOn
<1> QED
  BY <1>1, <1>2, <1>4, <1>8, <1>9 DEF Books

(* A timer set or taken away. *)
LEMMA BooksTimers ==
    ASSUME NEW cfg, NEW x, NEW mail, NEW pr, NEW li, NEW dr,
           NEW came, NEW n, Books(cfg, x, mail, pr, li, dr, came, n),
           NEW y, y.inbox = x.inbox, y.msg_counter = x.msg_counter,
           \A t \in y.timers : t \in x.timers \/ (t.from \in Services /\ Proper(cfg, li, t.out))
    PROVE  Books(cfg, y, mail, pr, li, dr, came, n)
<1>1. NextId(cfg, y) = NextId(cfg, x)
  BY DEF NextId
<1>2. Traced(cfg, x.timers, pr, li, mail, came)
  BY DEF Books
<1>3. Traced(cfg, y.timers, pr, li, mail, came)
  BY <1>2, TracedOn
<1> QED
  BY <1>1, <1>3 DEF Books

(* Envelopes that have arrived and are not recorded yet. *)
LEMMA BooksArrive ==
    ASSUME NEW cfg, cfg.node \in Nat, NEW x, Node(cfg, x), NEW mail, NEW pr, NEW li, NEW dr,
           NEW came, NEW n, Books(cfg, x, mail, pr, li, dr, came, n),
           NEW came2, came \subseteq came2
    PROVE  Books(cfg, x, mail, pr, li, dr, came2, n)
<1> DEFINE id == NextId(cfg, x)
<1>1. /\ Stocked(x.inbox, pr, n) /\ Keyed(cfg, id, pr, li, mail, came)
      /\ Mailed(cfg, id, li, mail) /\ Traced(cfg, x.timers, pr, li, mail, came)
      /\ Noted(dr, came, n)
  BY DEF Books
<1>2. id \in Nat /\ id <= id
  BY NextNat
<1> HIDE DEF id
<1>3. Keyed(cfg, id, pr, li, mail, came2)
  <2>1. \A v \in mail : v \in mail \/ v.id = id
    OBVIOUS
  <2> QED
    BY <1>1, <1>2, <2>1, KeyedOn
<1>4. Traced(cfg, x.timers, pr, li, mail, came2)
  <2>1. mail \subseteq mail /\ \A t \in x.timers : t \in x.timers
    OBVIOUS
  <2> QED
    BY <1>1, <2>1, TracedOn
<1>5. Noted(dr, came2, n)
  BY <1>1 DEF Noted
<1> QED
  BY <1>1, <1>3, <1>4, <1>5 DEF Books, id

(* A loss that is recorded. *)
LEMMA BooksDrop ==
    ASSUME NEW cfg, NEW x, NEW mail, NEW pr, NEW li, NEW dr,
           NEW came, NEW n, Books(cfg, x, mail, pr, li, dr, came, n), NEW env \in came
    PROVE  Books(cfg, x, mail, pr, li, dr \cup {<<env.from_node, env.to, env.id>>}, came, n)
<1>1. Noted(dr, came, n)
  BY DEF Books
<1>2. Noted(dr \cup {<<env.from_node, env.to, env.id>>}, came, n)
  BY <1>1 DEF Noted
<1> QED
  BY <1>2 DEF Books

LEMMA GenuineLess ==
    ASSUME NEW node, NEW all, Genuine(node, all), NEW came, came \subseteq all
    PROVE  Genuine(node, came)
BY DEF Genuine

(* An envelope that is received. *)
(* A released envelope reaches its inbox, if the program has one. *)
Taken(x, env, y) ==
    /\ y.inbox = (IF env.to \in Services
                  THEN [x.inbox EXCEPT ![env.to] = Append(@, [id |-> env.id, msg |-> env.msg])]
                  ELSE x.inbox)
    /\ y.timers = x.timers /\ y.msg_counter = x.msg_counter

(* It is no message that was recorded as lost. *)
Unmet(env, dr) == <<env.from_node, env.to, env.id>> \notin dr /\ env.to # System

LEMMA BooksReceive ==
    ASSUME NEW cfg, cfg.node \in Nat, NEW x, Node(cfg, x), NEW mail, NEW pr, NEW li, NEW dr,
           NEW came, NEW n, Books(cfg, x, mail, pr, li, dr, came, n),
           NEW env, env \notin came, Genuine(cfg.node, came \cup {env}),
           Answers(cfg, mail, env.msg.prov[1]),
           NEW y, Taken(x, env, y),
           NEW m, m = (IF env.to \in Services THEN n ELSE n + 1)
    PROVE  /\ Books(cfg, y, mail, Append(pr, Post(env.to, env.id, env.msg)), li, dr,
                    came \cup {env}, m)
           /\ Unmet(env, dr)
<1>0. /\ y.inbox = (IF env.to \in Services
                    THEN [x.inbox EXCEPT ![env.to] = Append(@, [id |-> env.id, msg |-> env.msg])]
                    ELSE x.inbox)
      /\ y.timers = x.timers /\ y.msg_counter = x.msg_counter
  BY DEF Taken
<1> DEFINE to == env.to
           id == env.id
           msg == env.msg
           post == Post(to, id, msg)
           next == NextId(cfg, x)
           came2 == came \cup {env}
           n2 == IF to \in Services THEN n ELSE n + 1
           p2 == Append(pr, post)
<1>1. /\ Stocked(x.inbox, pr, n) /\ Keyed(cfg, next, pr, li, mail, came)
      /\ Mailed(cfg, next, li, mail) /\ Traced(cfg, x.timers, pr, li, mail, came)
      /\ Noted(dr, came, n) /\ IsSeq(pr)
  BY DEF Books, Stocked
<1>2. next \in Nat /\ next <= next /\ IsInboxes(x.inbox) /\ NextId(cfg, y) = next
  <2>1. NextId(cfg, y) = NextId(cfg, x)
    BY <1>0 DEF NextId
  <2> QED
    BY <2>1, NextNat
<1>3. /\ env.from_node # cfg.node /\ msg.from_node = env.from_node /\ to # System
      /\ \A e \in came : ~ (e.from_node = env.from_node /\ e.id = id)
  BY DEF Genuine
<1>4. post.id = id /\ post.msg = msg /\ post.to = to
  BY DEF Post
<1>5. Stocked(y.inbox, p2, n2)
  <2>1. CASE to \in Services
    <3> HIDE DEF to, id, msg
    <3>1. y.inbox = [x.inbox EXCEPT ![to] = Append(@, [id |-> id, msg |-> msg])]
      BY <1>0, <2>1 DEF to, id, msg
    <3>2. Stocked(y.inbox, p2, n)
      BY <1>1, <1>2, <2>1, <3>1, StockComes
    <3> QED
      BY <2>1, <3>2
  <2>2. CASE to \notin Services
    <3> HIDE DEF to, id, msg
    <3>1. y.inbox = x.inbox
      BY <1>0, <2>2 DEF to
    <3>2. Stocked(x.inbox, p2, n + 1)
      BY <1>1, <1>2, <2>2, StockPasses
    <3> QED
      BY <2>2, <3>1, <3>2
  <2> QED
    BY <2>1, <2>2
<1>6. Keyed(cfg, next, pr, li, mail, came2)
  <2>1. (\A v \in mail : v \in mail \/ v.id = next) /\ came \subseteq came2
    OBVIOUS
  <2> HIDE DEF next, came2
  <2> QED
    BY <1>1, <1>2, <2>1, KeyedOn
<1> HIDE DEF post, next
<1>7. ASSUME NEW node, NEW k, Issued(cfg, next, mail, came, node, k)
      PROVE  ~ (node = env.from_node /\ k = id)
  BY <1>3, <1>7 DEF Issued
<1>8. Keyed(cfg, next, p2, li, mail, came2)
  <2>1. Issued(cfg, next, mail, came2, post.msg.from_node, post.id)
    BY <1>3, <1>4 DEF Issued
  <2>2. \A i \in 1..Len(pr) : ~ (pr[i].msg.from_node = post.msg.from_node /\ pr[i].id = post.id)
    BY <1>1, <1>3, <1>4, <1>7 DEF Keyed
  <2>3. \A l \in li : ~ (l.node = post.msg.from_node /\ l.id = post.id)
    BY <1>1, <1>3, <1>4, <1>7 DEF Keyed
  <2> HIDE DEF came2
  <2> QED
    BY <1>1, <1>6, <2>1, <2>2, <2>3, KeyedAdd
<1>9. Traced(cfg, y.timers, p2, li, mail, came2)
  <2>1. Traced(cfg, x.timers, pr, li, mail, came2)
    <3>1. mail \subseteq mail /\ came \subseteq came2 /\ \A t \in x.timers : t \in x.timers
      OBVIOUS
    <3> HIDE DEF came2
    <3> QED
      BY <1>1, <3>1, TracedOn
  <2>2. Guest(cfg, mail, came2, post.id, post.msg)
    BY <1>4 DEF Guest
  <2> HIDE DEF came2
  <2> QED
    BY <1>0, <1>1, <2>1, <2>2, TracedAdd
<1>10. Noted(dr, came2, n2)
  <2>1. \A k \in dr : \E e \in came2 : k = <<e.from_node, e.to, e.id>>
    BY <1>1 DEF Noted
  <2>2. n2 # 0 => \E e \in came2 : e.to \notin Services
    BY <1>1 DEF Noted
  <2> QED
    BY <2>1, <2>2 DEF Noted
<1>11. <<env.from_node, to, id>> \notin dr
  BY <1>1, <1>3 DEF Noted
<1>12. Books(cfg, y, mail, p2, li, dr, came2, n2)
  BY <1>0, <1>1, <1>2, <1>5, <1>8, <1>9, <1>10 DEF Books, next
<1> QED
  BY <1>3, <1>11, <1>12 DEF post, Unmet

(* A pending message is in order when its turn comes. *)
Sound(li, id, msg) ==
    /\ Sane(li, id, msg) /\ Single(msg)
    /\ Entered(li, id, msg) = li \cup {Entry(id, msg)}

LEMMA BooksSane ==
    ASSUME NEW cfg, NEW x, NEW mail, NEW pr, NEW li, NEW dr,
           NEW came, NEW n, Books(cfg, x, mail, pr, li, dr, came, n),
           Genuine(cfg.node, came),
           NEW i \in 1..Len(pr)
    PROVE  Sound(li, pr[i].id, pr[i].msg)
<1> DEFINE id == pr[i].id
           msg == pr[i].msg
           p == msg.prov[1]
           next == NextId(cfg, x)
<1>1. \A l \in li : ~ (l.node = msg.from_node /\ l.id = id)
  BY DEF Books, Keyed, Distinct
<1>2. \A l \in li : Issued(cfg, next, mail, came, l.node, l.id)
  BY DEF Books, Keyed
<1>3. Root(cfg, id, msg) \/ Child(cfg, li, msg) \/ Guest(cfg, mail, came, id, msg)
  BY DEF Books, Traced
<1> DEFINE Fine == Sane(li, id, msg) /\ Single(msg)
<1>4. ASSUME Root(cfg, id, msg) PROVE Fine
  <2>1. msg.prov # <<>> /\ p.hops = 0 /\ Rooted(id, msg, p) /\ Single(msg)
    BY <1>4 DEF Root, Single
  <2> HIDE DEF id, msg
  <2>2. Sane(li, id, msg)
    BY <2>1 DEF Sane
  <2> QED
    BY <2>1, <2>2
<1>5. ASSUME Child(cfg, li, msg) PROVE Fine
  <2>1. /\ Single(msg) /\ p.hops # 0
        /\ \E l \in li : Names(p, l)
        /\ \A l \in li : Names(p, l) => Descends(p, l)
    BY <1>5 DEF Child
  <2>2. msg.prov # <<>>
    BY <2>1 DEF Single
  <2>3. ~ (p.parent_node = msg.from_node /\ p.parent_msg = id)
    BY <1>1, <2>1 DEF Names
  <2>4. Parented(li, id, msg, p)
    BY <2>1, <2>3 DEF Parented, Names
  <2> HIDE DEF id, msg
  <2>5. Sane(li, id, msg)
    BY <2>1, <2>2, <2>4 DEF Sane
  <2> QED
    BY <2>1, <2>5
<1>6. ASSUME Guest(cfg, mail, came, id, msg) PROVE Fine
  <2>1. PICK env \in came : env.id = id /\ env.msg = msg /\ Answers(cfg, mail, p)
    BY <1>6 DEF Guest
  <2>2. /\ msg.from_node = env.from_node /\ Single(msg) /\ p.hops # 0
        /\ \A e \in came : ~ (e.from_node = p.parent_node /\ e.id = p.parent_msg)
    BY <2>1 DEF Genuine
  <2>3. msg.prov # <<>>
    BY <2>2 DEF Single
  <2>4. ~ (p.parent_node = msg.from_node /\ p.parent_msg = id)
    BY <2>1, <2>2
  <2>5. ASSUME NEW l \in li, l.node = p.parent_node, l.id = p.parent_msg PROVE FALSE
    <3>1. Issued(cfg, next, mail, came, p.parent_node, p.parent_msg)
      BY <1>2, <2>5
    <3>2. CASE p.parent_node = cfg.node
      BY <2>1, <3>1, <3>2 DEF Issued, Answers
    <3>3. CASE p.parent_node # cfg.node
      BY <2>2, <3>1, <3>3 DEF Issued
    <3> QED
      BY <3>2, <3>3
  <2>6. Parented(li, id, msg, p)
    BY <2>4, <2>5 DEF Parented
  <2> HIDE DEF id, msg
  <2>7. Sane(li, id, msg)
    BY <2>2, <2>3, <2>6 DEF Sane
  <2> QED
    BY <2>2, <2>7
<1>7. Sane(li, id, msg) /\ Single(msg)
  BY <1>3, <1>4, <1>5, <1>6
<1>8. Entered(li, id, msg) = li \cup {Entry(id, msg)}
  BY <1>1 DEF Entered
<1> QED
  BY <1>7, <1>8 DEF Sound

(* Where the entries come from when one is taken out. *)
Old(i, j) == IF j < i THEN j ELSE j + 1

LEMMA RemovedOld ==
    ASSUME NEW pr, IsSeq(pr), NEW i \in 1..Len(pr)
    PROVE  /\ \A j \in 1..Len(RemoveAt(pr, i)) :
                 /\ Old(i, j) \in 1..Len(pr) /\ Old(i, j) # i
                 /\ RemoveAt(pr, i)[j] = pr[Old(i, j)]
           /\ \A j, k \in 1..Len(RemoveAt(pr, i)) : Old(i, j) = Old(i, k) => j = k
<1> DEFINE l == Len(pr)
           p2 == RemoveAt(pr, i)
<1>1. l \in Nat /\ i \in Nat /\ i >= 1 /\ i <= l
  BY SeqLen
<1>2. Len(p2) = l - 1 /\ \A j \in 1..(l - 1) : p2[j] = IF j < i THEN pr[j] ELSE pr[j + 1]
  BY Removed
<1> HIDE DEF l, p2
<1>3. ASSUME NEW j \in 1..(l - 1)
      PROVE  Old(i, j) \in 1..l /\ Old(i, j) # i /\ p2[j] = pr[Old(i, j)]
  <2>1. p2[j] = IF j < i THEN pr[j] ELSE pr[j + 1]
    BY <1>2
  <2> QED
    BY <1>1, <2>1 DEF Old
<1>4. \A j, k \in 1..(l - 1) : Old(i, j) = Old(i, k) => j = k
  BY <1>1 DEF Old
<1> QED
  BY <1>2, <1>3, <1>4 DEF l, p2

(* What the handler of a delivered message sends. *)
LEMMA AnswerIsChild ==
    ASSUME NEW cfg, NEW li, NEW id, NEW msg, Single(msg), NEW m,
           m.from_node = cfg.node, m.prov = <<next_outbound_provenance(msg, id)>>
    PROVE  Child(cfg, Entered(li, id, msg), m)
<1> DEFINE p == msg.prov[1]
           q == next_outbound_provenance(msg, id)
           e == Entry(id, msg)
           l2 == Entered(li, id, msg)
<1>1. msg.prov # <<>> /\ Provenance(p)
  BY DEF Single
<1>2. q = [p EXCEPT !.parent_node = msg.from_node, !.parent_msg = id, !.hops = @ + 1]
  BY <1>1 DEF next_outbound_provenance
<1>3. /\ e.node = msg.from_node /\ e.id = id /\ e.hops = p.hops
      /\ e.origin_msg = p.origin_msg /\ e.origin_node = p.origin_node
      /\ e.origin_service = p.origin_service
  BY DEF Entry
<1> HIDE DEF p
<1>4. q = [origin_node |-> p.origin_node, origin_service |-> p.origin_service,
           origin_msg |-> p.origin_msg, parent_node |-> msg.from_node,
           parent_msg |-> id, hops |-> p.hops + 1]
  BY <1>1, <1>2 DEF Provenance
<1> HIDE DEF q, e
<1>5. Provenance(q) /\ q.hops # 0 /\ q.parent_node = msg.from_node /\ q.parent_msg = id
  <2>1. p.hops \in Nat
    BY <1>1 DEF Provenance
  <2>2. p.hops + 1 \in Nat /\ p.hops + 1 # 0
    BY <2>1
  <2> QED
    BY <1>4, <2>2 DEF Provenance
<1>6. Descends(q, e) /\ Names(q, e)
  BY <1>3, <1>4 DEF Descends, Names
<1>7. e \in l2 /\ \A l \in l2 : Names(q, l) => l = e
  BY <1>5 DEF Entered, Names, e
<1>8. m.prov[1] = q /\ Single(m)
  BY <1>5 DEF Single, q
<1> HIDE DEF l2
<1>9. Child(cfg, l2, m)
  BY <1>5, <1>6, <1>7, <1>8 DEF Child
<1> QED
  BY <1>9 DEF l2

(* The books while the handler of the front message of s runs. *)
(* The message that is produced first for a service. *)
Leads(pr, i, s, id, msg) ==
    /\ i \in 1..Len(pr) /\ pr[i] = Post(s, id, msg)
    /\ \A j \in 1..Len(pr) : pr[j].to = s => i <= j

Popping(x, y, s) ==
    /\ y.inbox = [x.inbox EXCEPT ![s] = Tail(@)]
    /\ y.timers = x.timers /\ y.msg_counter = x.msg_counter

LEMMA BooksGo ==
    ASSUME NEW cfg, cfg.node \in Nat, NEW x, Node(cfg, x), NEW mail, NEW pr, NEW li, NEW dr,
           NEW came, NEW n, Books(cfg, x, mail, pr, li, dr, came, n),
           Genuine(cfg.node, came),
           NEW s \in Services, x.inbox[s] # <<>>,
           NEW id, id = Head(x.inbox[s]).id, NEW msg, msg = Head(x.inbox[s]).msg,
           NEW y, Popping(x, y, s)
    PROVE  /\ Sound(li, id, msg) /\ IsSeq(pr)
           /\ \E i : /\ Leads(pr, i, s, id, msg)
                     /\ Books(cfg, y, mail, RemoveAt(pr, i), Entered(li, id, msg), dr, came, n)
<1>0. /\ y.inbox = [x.inbox EXCEPT ![s] = Tail(@)]
      /\ y.timers = x.timers /\ y.msg_counter = x.msg_counter
  BY DEF Popping
<1> DEFINE next == NextId(cfg, x)
<1>1. /\ Stocked(x.inbox, pr, n) /\ Keyed(cfg, next, pr, li, mail, came)
      /\ Mailed(cfg, next, li, mail) /\ Traced(cfg, x.timers, pr, li, mail, came)
      /\ Noted(dr, came, n) /\ IsSeq(pr)
  BY DEF Books, Stocked
<1>2. IsInboxes(x.inbox) /\ NextId(cfg, y) = next
  <2>1. NextId(cfg, y) = NextId(cfg, x)
    BY <1>0 DEF NextId
  <2> QED
    BY <2>1, NextNat
<1>3. PICK i : Foremost(pr, i, s, x.inbox[s]) /\ Stocked(y.inbox, RemoveAt(pr, i), n)
  <2>1. \E i : Foremost(pr, i, s, x.inbox[s]) /\ Stocked(y.inbox, RemoveAt(pr, i), n)
    BY <1>0, <1>1, <1>2, StockGoes
  <2> QED
    BY <2>1
<1> DEFINE p2 == RemoveAt(pr, i)
           l2 == Entered(li, id, msg)
           e == Entry(id, msg)
<1>4. /\ i \in 1..Len(pr) /\ pr[i] = Post(s, id, msg)
      /\ \A j \in 1..Len(pr) : pr[j].to = s => i <= j
  BY <1>3 DEF Foremost
<1>5. pr[i].id = id /\ pr[i].msg = msg
  BY <1>4 DEF Post
<1>6. Sane(li, id, msg) /\ Single(msg) /\ l2 = li \cup {e}
  <2>1. Sound(li, pr[i].id, pr[i].msg)
    BY <1>4, BooksSane
  <2> QED
    BY <1>5, <2>1 DEF Sound
<1>7. e.node = msg.from_node /\ e.id = id
  BY DEF Entry
<1>8. /\ \A j \in 1..Len(p2) : Old(i, j) \in 1..Len(pr) /\ Old(i, j) # i /\ p2[j] = pr[Old(i, j)]
      /\ \A j, k \in 1..Len(p2) : Old(i, j) = Old(i, k) => j = k
  BY <1>1, <1>4, RemovedOld
<1> HIDE DEF next, p2, l2, e
<1>9. Distinct(p2, l2)
  <2>1. Distinct(pr, li)
    BY <1>1 DEF Keyed
  <2>2. ASSUME NEW j \in 1..Len(p2), NEW k \in 1..Len(p2),
               p2[j].msg.from_node = p2[k].msg.from_node, p2[j].id = p2[k].id
        PROVE  j = k
    <3>1. Old(i, j) = Old(i, k)
      BY <1>8, <2>1, <2>2 DEF Distinct
    <3> QED
      BY <1>8, <3>1
  <2>3. ASSUME NEW j \in 1..Len(p2), NEW l \in l2
        PROVE  ~ (p2[j].msg.from_node = l.node /\ p2[j].id = l.id)
    <3>1. CASE l \in li
      BY <1>8, <2>1, <3>1 DEF Distinct
    <3>2. CASE l = e
      <4>1. /\ Old(i, j) \in 1..Len(pr) /\ Old(i, j) # i /\ p2[j] = pr[Old(i, j)]
        BY <1>8
      <4>2. ~ (pr[Old(i, j)].msg.from_node = pr[i].msg.from_node /\ pr[Old(i, j)].id = pr[i].id)
        BY <1>4, <2>1, <4>1 DEF Distinct
      <4> QED
        BY <1>5, <1>7, <3>2, <4>1, <4>2
    <3> QED
      BY <1>6, <3>1, <3>2
  <2> QED
    BY <2>2, <2>3 DEF Distinct
<1>10. Keyed(cfg, next, p2, l2, mail, came)
  <2>1. \A j \in 1..Len(p2) : Issued(cfg, next, mail, came, p2[j].msg.from_node, p2[j].id)
    BY <1>1, <1>8 DEF Keyed
  <2>2. \A l \in l2 : Issued(cfg, next, mail, came, l.node, l.id)
    BY <1>1, <1>4, <1>5, <1>6, <1>7 DEF Keyed
  <2> QED
    BY <1>9, <2>1, <2>2 DEF Keyed
<1>11. ASSUME NEW m, Child(cfg, li, m) PROVE Child(cfg, l2, m)
  <2> DEFINE p == m.prov[1]
  <2>1. /\ m.from_node = cfg.node /\ Single(m) /\ p.hops # 0
        /\ \A l \in li : Names(p, l) => Descends(p, l)
    BY <1>11 DEF Child
  <2>2. PICK l \in li : Names(p, l)
    BY <1>11 DEF Child
  <2> HIDE DEF p
  <2>3. ~ Names(p, e)
    <3>1. SUFFICES ASSUME Names(p, e) PROVE FALSE
      OBVIOUS
    <3>2. l.node = pr[i].msg.from_node /\ l.id = pr[i].id
      BY <1>5, <1>7, <2>2, <3>1 DEF Names
    <3> QED
      BY <1>1, <1>4, <3>2 DEF Keyed, Distinct
  <2>4. l \in l2 /\ \A k \in l2 : Names(p, k) => Descends(p, k)
    BY <1>6, <2>1, <2>2, <2>3
  <2> QED
    BY <2>1, <2>2, <2>4 DEF Child, p
<1>12. Mailed(cfg, next, l2, mail)
  BY <1>1, <1>11 DEF Mailed, Posted
<1>13. Traced(cfg, y.timers, p2, l2, mail, came)
  <2>1. ASSUME NEW j \in 1..Len(p2)
        PROVE  \/ Root(cfg, p2[j].id, p2[j].msg)
               \/ Child(cfg, l2, p2[j].msg)
               \/ Guest(cfg, mail, came, p2[j].id, p2[j].msg)
    <3>1. Old(i, j) \in 1..Len(pr) /\ p2[j] = pr[Old(i, j)]
      BY <1>8
    <3>2. \/ Root(cfg, p2[j].id, p2[j].msg)
          \/ Child(cfg, li, p2[j].msg)
          \/ Guest(cfg, mail, came, p2[j].id, p2[j].msg)
      BY <1>1, <3>1 DEF Traced
    <3> QED
      BY <1>11, <3>2
  <2>2. \A t \in y.timers : t.from \in Services /\ Proper(cfg, l2, t.out)
    BY <1>0, <1>1, <1>11 DEF Traced, Proper
  <2> QED
    BY <2>1, <2>2 DEF Traced
<1>14. Books(cfg, y, mail, p2, l2, dr, came, n)
  BY <1>1, <1>2, <1>3, <1>10, <1>12, <1>13 DEF Books, p2
<1>15. Sound(li, id, msg)
  BY <1>4, <1>5, BooksSane
<1> QED
  BY <1>1, <1>4, <1>14, <1>15 DEF p2, l2, Leads

------------------------------------------------------------------------------
(***************************************************************************)
(* After the events e the verifier has nothing to say of the node x but    *)
(* what it counted, and its books are in order.  `past' are the envelopes  *)
(* that have left the wire, which no message on it repeats.                *)
(***************************************************************************)
Apart(past, wire) == \A w \in past : w \notin wire

Audited(cfg, e, x, came, past, li) ==
    /\ Apart(past, x.wire)
    /\ \E pr, dr, n : /\ Tells(e, Calm(pr, li, dr, n), n)
                      /\ Books(cfg, x, past \cup x.wire, pr, li, dr, came, n)

LEMMA TellsMore ==
    ASSUME NEW e, NEW v, NEW n, Tells(e, v, n), NEW ev, ev.kind \in EventKinds \ {"NetRecv"}
    PROVE  Tells(Append(e, ev), VerifyEvent(v, ev), n)
<1>1. ~ IsStranger(ev) /\ ev.kind \in EventKinds
  BY DEF IsStranger
<1> QED
  BY <1>1, TellsOne

LEMMA TellsIs ==
    ASSUME NEW e, NEW v, NEW n, Tells(e, v, n)
    PROVE  IsSeq(e) /\ n \in Nat /\ \A i \in 1..Len(e) : e[i].kind \in EventKinds
BY DEF Tells

(* The verifier takes ev without a word; what is pending becomes p2. *)
Heeds(pr, p2, li, dr, n, ev) ==
    VerifyEvent(Calm(pr, li, dr, n), ev) = Calm(p2, li, dr, n)

LEMMA DispatchBooks ==
    ASSUME NEW cfg, cfg.node \in Nat, NEW x, Node(cfg, x), NEW past, NEW pr, NEW li, NEW dr,
           NEW came, NEW n, Books(cfg, x, past \cup x.wire, pr, li, dr, came, n),
           Apart(past, x.wire), NEW from \in Services, NEW out, Proper(cfg, li, out),
           NEW y, Dispatched(cfg, x, out, y)
    PROVE  \E p2 : /\ Apart(past, y.wire)
                   /\ Heeds(pr, p2, li, dr, n, Emission(cfg, x, from, out))
                   /\ Books(cfg, y, past \cup y.wire, p2, li, dr, came, n)
<1> DEFINE id == next_deterministic_msg_id(cfg, x)
           s == out.service
           msg == out.msg
           ev == Emission(cfg, x, from, out)
<1>1. id = NextId(cfg, x)
  BY DEF NextId, next_deterministic_msg_id
<1>2. s \in Services /\ Child(cfg, li, msg) /\ msg.from_node = cfg.node
  BY DEF Proper, Child
<1>3. from \in Crew /\ s \in Crew
  BY <1>2 DEF Crew
<1>4. y.timers = x.timers /\ y.msg_counter = x.msg_counter + 1
  BY DEF Dispatched
<1>5. CASE out.node = cfg.node
  <2>1. ev = SendEvent(from, s, id, msg)
    BY <1>5 DEF Emission
  <2>2. y.wire = x.wire /\ y.inbox = [x.inbox EXCEPT ![s] = Append(@, [id |-> id, msg |-> msg])]
    BY <1>5 DEF Dispatched
  <2> HIDE DEF ev, id, s, msg
  <2>3. VerifyEvent(Calm(pr, li, dr, n), ev) = Calm(Append(pr, Post(s, id, msg)), li, dr, n)
    BY <1>3, <2>1, SendVerified
  <2>4. Books(cfg, y, past \cup x.wire, Append(pr, Post(s, id, msg)), li, dr, came, n)
    BY <1>1, <1>2, <1>4, <2>2, BooksAdd
  <2>5. Apart(past, y.wire)
    BY <2>2
  <2> QED
    BY <2>2, <2>3, <2>4, <2>5 DEF ev, Heeds
<1>6. CASE out.node # cfg.node
  <2> DEFINE w == Envelope(cfg, x, out)
  <2>1. ev = NetSendEvent(cfg, from, out, id)
    BY <1>6 DEF Emission
  <2>2. ev.kind = "NetSend" /\ ev.from = from
    BY <2>1 DEF NetSendEvent
  <2>3. /\ w.id = NextId(cfg, x) /\ w.from_node = cfg.node /\ w.to_node # cfg.node
        /\ w.to \in Services /\ Child(cfg, li, w.msg)
    BY <1>1, <1>2, <1>6 DEF Envelope
  <2>4. y.wire \in {x.wire, x.wire \cup {w}} /\ y.inbox = x.inbox
    BY <1>6 DEF Dispatched
  <2> HIDE DEF w, ev
  <2>5. VerifyEvent(Calm(pr, li, dr, n), ev) = Calm(pr, li, dr, n)
    BY <1>3, <2>2, EmitVerified
  <2> DEFINE mail == past \cup x.wire
             mail2 == past \cup y.wire
  <2>6. mail2 = mail \/ mail2 = mail \cup {w}
    BY <2>4
  <2>7. Books(cfg, x, mail, pr, li, dr, came, n)
    OBVIOUS
  <2> HIDE DEF mail, mail2
  <2>8. y.inbox = x.inbox /\ y.timers = x.timers /\ y.msg_counter = x.msg_counter + 1
    BY <1>4, <2>4
  <2>9. Books(cfg, y, mail2, pr, li, dr, came, n)
    BY <2>3, <2>6, <2>7, <2>8, BooksMail
  <2>10. Apart(past, y.wire)
    <3>1. ASSUME NEW v \in past PROVE v # w
      <4>1. v \in mail /\ Mailed(cfg, NextId(cfg, x), li, mail)
        BY <2>7 DEF mail, Books
      <4>2. v.id \in Nat /\ v.id < NextId(cfg, x)
        BY <4>1 DEF Mailed, Posted
      <4>3. v.id # w.id
        BY <2>3, <4>2
      <4> QED
        BY <4>3
    <3> QED
      BY <2>4, <3>1 DEF Apart
  <2> QED
    BY <2>5, <2>9, <2>10 DEF ev, mail2, Heeds
<1> QED
  BY <1>5, <1>6

LEMMA EmissionTold ==
    ASSUME NEW cfg, NEW x, NEW from, NEW out
    PROVE  Emission(cfg, x, from, out).kind \in EventKinds \ {"NetRecv"}
BY EmissionKind DEF EventKinds

LEMMA DispatchAudited ==
    ASSUME NEW cfg, cfg.node \in Nat, NEW x, Node(cfg, x), NEW e, NEW past, NEW came, NEW li,
           Audited(cfg, e, x, came, past, li),
           NEW from \in Services, NEW out, Proper(cfg, li, out),
           NEW y, Dispatched(cfg, x, out, y)
    PROVE  Audited(cfg, Append(e, Emission(cfg, x, from, out)), y, came, past, li)
<1> DEFINE ev == Emission(cfg, x, from, out)
<1>1. PICK pr, dr, n : /\ Tells(e, Calm(pr, li, dr, n), n)
                       /\ Books(cfg, x, past \cup x.wire, pr, li, dr, came, n)
  BY DEF Audited
<1>2. PICK p2 : /\ Apart(past, y.wire)
                /\ Heeds(pr, p2, li, dr, n, ev)
                /\ Books(cfg, y, past \cup y.wire, p2, li, dr, came, n)
  <2>1. Apart(past, x.wire)
    BY DEF Audited
  <2> QED
    BY <1>1, <2>1, DispatchBooks
<1>3. ev.kind \in EventKinds \ {"NetRecv"}
  BY EmissionTold
<1> HIDE DEF ev
<1>4. Tells(Append(e, ev), Calm(p2, li, dr, n), n)
  <2>1. Tells(Append(e, ev), VerifyEvent(Calm(pr, li, dr, n), ev), n)
    BY <1>1, <1>3, TellsMore
  <2> QED
    BY <1>2, <2>1 DEF Heeds
<1> QED
  BY <1>2, <1>4 DEF Audited, ev

LEMMA PrefixAppend ==
    ASSUME NEW h, IsSeq(h), NEW q, IsSeq(q), NEW ev
    PROVE  h \o Append(q, ev) = Append(h \o q, ev) /\ IsSeq(h \o q) /\ IsSeq(Append(q, ev))
<1>1. IsSeq(<<ev>>) /\ IsSeq(h \o q)
  BY SeqOne, SeqConcat
<1>2. Associates(h, q, <<ev>>)
  BY <1>1, SeqAssoc
<1>3. q \o <<ev>> = Append(q, ev) /\ (h \o q) \o <<ev>> = Append(h \o q, ev)
  BY <1>1, AppendsOne
<1>4. IsSeq(Append(q, ev))
  BY SeqAppend
<1> QED
  BY <1>1, <1>2, <1>3, <1>4 DEF Associates

(* A node and the events it has emitted since the trace was h. *)
Auditing(cfg, h, acc, came, past, li) ==
    /\ Node(cfg, acc.sys) /\ IsSeq(acc.events) /\ IsSeq(h)
    /\ Audited(cfg, h \o acc.events, acc.sys, came, past, li)

(* An entry of an outbox. *)
LEMMA EmitOneAudited ==
    ASSUME NEW cfg, cfg.node \in Nat, NEW h, NEW acc, NEW past, NEW came, NEW li,
           Auditing(cfg, h, acc, came, past, li),
           NEW s \in Services, NEW out, Proper(cfg, li, out), out.delay \in Nat, NEW step \in Nat
    PROVE  Auditing(cfg, h, EmitOne(acc, cfg, s, out, step), came, past, li)
<1> DEFINE x == acc.sys
           q == acc.events
           e == h \o q
           b == EmitOne(acc, cfg, s, out, step)
           y == b.sys
<1>0. Node(cfg, x) /\ IsSeq(q) /\ IsSeq(h) /\ Audited(cfg, e, x, came, past, li)
  BY DEF Auditing
<1>1. CASE out.delay > 0
  <2> DEFINE timer == [id |-> next_deterministic_timer_id(cfg, x),
                       due_step |-> step + out.delay, from |-> s, out |-> out]
  <2>1. /\ y.timers = x.timers \cup {timer} /\ y.inbox = x.inbox
        /\ y.msg_counter = x.msg_counter /\ y.wire = x.wire /\ b.events = q /\ Node(cfg, y)
    BY <1>0, <1>1, SetTimer
  <2>2. timer.from = s /\ timer.out = out
    OBVIOUS
  <2>3. PICK pr, dr, n : /\ Tells(e, Calm(pr, li, dr, n), n)
                         /\ Books(cfg, x, past \cup x.wire, pr, li, dr, came, n)
    BY <1>0 DEF Audited
  <2>7. Apart(past, x.wire)
    BY <1>0 DEF Audited
  <2> HIDE DEF timer, x, y, e, b, q
  <2>4. \A t \in y.timers : t \in x.timers \/ (t.from \in Services /\ Proper(cfg, li, t.out))
    BY <2>1, <2>2
  <2>5. Books(cfg, y, past \cup x.wire, pr, li, dr, came, n)
    BY <2>1, <2>3, <2>4, BooksTimers
  <2>6. Audited(cfg, e, y, came, past, li)
    BY <2>1, <2>3, <2>5, <2>7 DEF Audited
  <2> QED
    BY <1>0, <2>1, <2>6 DEF e, y, b, Auditing
<1>2. CASE ~ (out.delay > 0)
  <2>1. b = dispatch_outgoing(acc, cfg, s, out)
    BY <1>2 DEF EmitOne
  <2>2. Node(cfg, y) /\ Dispatched(cfg, x, out, y) /\ b.events = Append(q, Emission(cfg, x, s, out))
    BY <1>0, <2>1, Dispatch
  <2> HIDE DEF x, e, y, b, q
  <2>4. Audited(cfg, Append(e, Emission(cfg, x, s, out)), y, came, past, li)
    BY <1>0, <2>2, DispatchAudited
  <2>5. h \o b.events = Append(e, Emission(cfg, x, s, out)) /\ IsSeq(b.events)
    BY <1>0, <2>2, PrefixAppend DEF e
  <2> QED
    BY <1>0, <2>2, <2>4, <2>5 DEF y, b, Auditing
<1> QED
  BY <1>1, <1>2

LEMMA EmitAllAudited ==
    ASSUME NEW cfg, cfg.node \in Nat, NEW h, NEW acc, NEW past, NEW came, NEW li,
           Auditing(cfg, h, acc, came, past, li),
           NEW s \in Services, NEW outbox, IsSeq(outbox),
           \A i \in 1..Len(outbox) : Proper(cfg, li, outbox[i]) /\ outbox[i].delay \in Nat,
           NEW step \in Nat
    PROVE  Auditing(cfg, h, EmitAll(acc, cfg, s, outbox, step), came, past, li)
<1> DEFINE n == Len(outbox)
<1>1. n \in Nat /\ DOMAIN outbox = 1..n
  BY SeqLen
<1> HIDE DEF n
<1>2. PICK run : EmitsBy(run, n, acc, cfg, s, outbox, step)
  BY <1>1, EmitRun
<1> DEFINE T == {k \in Nat : k <= n => Auditing(cfg, h, run[k], came, past, li)}
<1>3. 0 \in T
  BY <1>2 DEF EmitsBy
<1>4. ASSUME NEW k \in T, k + 1 <= n PROVE Auditing(cfg, h, run[k + 1], came, past, li)
  <2>1. k \in Nat /\ k + 1 \in 1..n /\ (k + 1) - 1 = k /\ Auditing(cfg, h, run[k], came, past, li)
    BY <1>1, <1>4
  <2>2. run[k + 1] = EmitOne(run[k], cfg, s, outbox[k + 1], step)
    BY <1>2, <2>1 DEF EmitsBy
  <2>3. Proper(cfg, li, outbox[k + 1]) /\ outbox[k + 1].delay \in Nat
    BY <2>1 DEF n
  <2> QED
    BY <2>1, <2>2, <2>3, EmitOneAudited
<1>5. \A k \in T \cap Nat : k + 1 \in T
  BY <1>4
<1> HIDE DEF T
<1>6. n \in T
  BY <1>1, <1>3, <1>5, Induction
<1>7. Auditing(cfg, h, run[n], came, past, li)
  BY <1>1, <1>6 DEF T
<1> QED
  BY <1>2, <1>7 DEF EmitsBy

(* The prefixes of a sequence, one element at a time. *)
LEMMA SubSeqStep ==
    ASSUME NEW q, IsSeq(q), NEW k \in Nat, k + 1 \in 1..Len(q)
    PROVE  IsSeq(SubSeq(q, 1, k)) /\ SubSeq(q, 1, k + 1) = Append(SubSeq(q, 1, k), q[k + 1])
<1>1. k <= Len(q) /\ k + 1 <= Len(q) /\ k + 1 \in Nat /\ Len(q) \in Nat
  BY SeqLen
<1>2. IsSeq(SubSeq(q, 1, k))
  BY <1>1, SeqPrefix
<1>3. q \in Seq(Range(q))
  BY DEF IsSeq
<1>4. 1 \in 1..(Len(q) + 1) /\ k + 1 \in 1..Len(q) /\ (k + 1) - 1 = k
  BY <1>1
<1>5. SubSeq(q, 1, k + 1) = Append(SubSeq(q, 1, (k + 1) - 1), q[k + 1])
  BY ONLY <1>3, <1>4
<1> QED
  BY <1>2, <1>4, <1>5

LEMMA SubSeqWhole ==
    ASSUME NEW q, IsSeq(q)
    PROVE  SubSeq(q, 1, Len(q)) = q /\ SubSeq(q, 1, 0) = <<>>
<1>1. q \in Seq(Range(q))
  BY DEF IsSeq
<1>2. SubSeq(q, 1, Len(q)) = q
  BY <1>1
<1>3. IsSeq(SubSeq(q, 1, 0)) /\ Len(SubSeq(q, 1, 0)) = 0
  BY SeqLen, SeqPrefix
<1>4. \A z : IsSeq(z) /\ Len(z) = 0 => z = <<>>
  BY DEF IsSeq
<1> QED
  BY <1>2, <1>3, <1>4

(* A due timer. *)
LEMMA FireOneAudited ==
    ASSUME NEW cfg, cfg.node \in Nat, NEW h, NEW acc, NEW past, NEW came, NEW li,
           Auditing(cfg, h, acc, came, past, li), NEW t \in acc.sys.timers
    PROVE  Auditing(cfg, h, FireOne(acc, cfg, t), came, past, li)
<1> DEFINE x == Without(acc.sys, t)
           fired == TimerFiredEvent(cfg, t)
           p == [sys |-> x, events |-> Append(acc.events, fired)]
           em == Emission(cfg, x, t.from, t.out)
           b == FireOne(acc, cfg, t)
           e == h \o acc.events
           y == b.sys
<1>1. Node(cfg, acc.sys) /\ IsSeq(acc.events) /\ IsSeq(h) /\ Audited(cfg, e, acc.sys, came, past, li)
  BY DEF Auditing
<1>2. Node(cfg, x)
  BY <1>1, WithoutNode
<1>3. b = dispatch_outgoing(p, cfg, t.from, t.out)
  BY <1>1, WithoutNode DEF FireOne
<1>4. p.sys = x /\ p.events = Append(acc.events, fired)
  OBVIOUS
<1>5. PICK pr, dr, n : /\ Tells(e, Calm(pr, li, dr, n), n)
                       /\ Books(cfg, acc.sys, past \cup acc.sys.wire, pr, li, dr, came, n)
  BY <1>1 DEF Audited
<1>6. t.from \in Services /\ Proper(cfg, li, t.out)
  BY <1>5 DEF Books, Traced
<1>7. /\ x.inbox = acc.sys.inbox /\ x.msg_counter = acc.sys.msg_counter
      /\ x.wire = acc.sys.wire /\ \A u \in x.timers : u \in acc.sys.timers
  BY DEF Without
<1>8. fired.kind \in EventKinds \ {"NetRecv"}
  BY DEF fired, TimerFiredEvent, EventKinds
<1>9. em.kind \in {"Send", "NetSend"} /\ em.from = t.from
  BY DEF Emission, SendEvent, NetSendEvent
<1> HIDE DEF p, x, b, fired, em, e
<1>10. Node(cfg, y) /\ Dispatched(cfg, x, t.out, y) /\ b.events = Append(p.events, em)
  <2>1. Node(cfg, p.sys)
    BY <1>2, <1>4
  <2>2. /\ Node(cfg, y) /\ Dispatched(cfg, p.sys, t.out, y)
        /\ b.events = Append(p.events, Emission(cfg, p.sys, t.from, t.out))
    BY <1>3, <2>1, Dispatch
  <2> QED
    BY <1>4, <2>2 DEF em
<1>11. Books(cfg, x, past \cup x.wire, pr, li, dr, came, n)
  BY <1>5, <1>7, BooksTimers
<1> HIDE DEF y
<1>16. Apart(past, x.wire)
  <2>1. Apart(past, acc.sys.wire)
    BY <1>1 DEF Audited
  <2> QED
    BY <1>7, <2>1
<1>12. PICK p2 : /\ Apart(past, y.wire)
                 /\ Heeds(pr, p2, li, dr, n, em)
                 /\ Books(cfg, y, past \cup y.wire, p2, li, dr, came, n)
  BY <1>2, <1>6, <1>10, <1>11, <1>16, DispatchBooks DEF em
<1>13. Tells(Append(Append(e, fired), em), Calm(p2, li, dr, n), n)
  <2>1. Tells(Append(e, fired), VerifyEvent(Calm(pr, li, dr, n), fired), n)
    BY <1>5, <1>8, TellsMore
  <2>2. em.kind \in EventKinds \ {"NetRecv"}
    BY <1>9 DEF EventKinds
  <2>3. Tells(Append(Append(e, fired), em),
              VerifyEvent(VerifyEvent(Calm(pr, li, dr, n), fired), em), n)
    BY <2>1, <2>2, TellsMore
  <2>4. VerifyEvent(VerifyEvent(Calm(pr, li, dr, n), fired), em) = VerifyEvent(Calm(pr, li, dr, n), em)
    BY <1>9, TimerVerified DEF fired
  <2> QED
    BY <1>12, <2>3, <2>4 DEF Heeds
<1>14. Audited(cfg, Append(Append(e, fired), em), y, came, past, li)
  BY <1>12, <1>13 DEF Audited
<1>15. h \o b.events = Append(Append(e, fired), em) /\ IsSeq(b.events)
  <2>1. h \o p.events = Append(e, fired) /\ IsSeq(p.events)
    BY <1>1, <1>4, PrefixAppend DEF e
  <2>2. /\ h \o Append(p.events, em) = Append(h \o p.events, em)
        /\ IsSeq(Append(p.events, em))
    BY <1>1, <2>1, PrefixAppend, SMTT(60), ZenonT(30)
  <2> QED
    BY <1>10, <2>1, <2>2
<1> QED
  BY <1>1, <1>10, <1>14, <1>15 DEF b, y, Auditing

LEMMA FireDueAudited ==
    ASSUME NEW cfg, Host(cfg), NEW h, NEW x, Node(cfg, x), NEW past, NEW came, NEW li,
           IsSeq(h), Audited(cfg, h, x, came, past, li), NEW m
    PROVE  Auditing(cfg, h, FireDue(x, cfg, m), came, past, li)
<1>1. PICK f, n, q : Firing(f, n, q, x, cfg) /\ FireDue(x, cfg, m) = f[n]
  BY FireDueRun
<1>2. n \in Nat /\ cfg.node \in Nat
  BY <1>1 DEF Firing, Host
<1> DEFINE T == {k \in Nat : k <= n => Auditing(cfg, h, f[k], came, past, li)}
<1>3. 0 \in T
  <2>1. f[0] = [sys |-> x, events |-> <<>>]
    BY <1>1 DEF Firing
  <2>2. IsSeq(<<>>) /\ h \o <<>> = h
    BY SeqOne, ConcatNothing
  <2>3. Auditing(cfg, h, f[0], came, past, li)
    BY <2>1, <2>2 DEF Auditing
  <2> QED
    BY <2>3
<1>4. ASSUME NEW k \in T, k + 1 <= n PROVE Auditing(cfg, h, f[k + 1], came, past, li)
  <2>1. k \in Nat /\ k + 1 \in 1..n /\ (k + 1) - 1 = k /\ Auditing(cfg, h, f[k], came, past, li)
    BY <1>2, <1>4
  <2>2. f[k + 1] = FireOne(f[k], cfg, q[k + 1]) /\ q[k + 1] \in f[k].sys.timers
    BY <1>1, <2>1 DEF Firing
  <2> QED
    BY <1>2, <2>1, <2>2, FireOneAudited
<1>5. \A k \in T \cap Nat : k + 1 \in T
  BY <1>4
<1> HIDE DEF T
<1>6. n \in T
  BY <1>2, <1>3, <1>5, Induction
<1> QED
  BY <1>1, <1>2, <1>6 DEF T

(* The losses that are recorded. *)
LEMMA DropsAudited ==
    ASSUME NEW cfg, NEW h, IsSeq(h), NEW x, NEW past, NEW came, NEW li,
           Audited(cfg, h, x, came, past, li),
           NEW q, IsSeq(q), \A i \in 1..Len(q) : \E env \in came : q[i] = DropEvent(cfg, env)
    PROVE  Audited(cfg, h \o q, x, came, past, li)
<1> DEFINE n == Len(q)
           Sofar(k) == h \o SubSeq(q, 1, k)
<1>1. n \in Nat
  BY SeqLen
<1> HIDE DEF n
<1> DEFINE T == {k \in Nat : k <= n => Audited(cfg, Sofar(k), x, came, past, li)}
<1>2. 0 \in T
  <2>1. SubSeq(q, 1, 0) = <<>> /\ h \o <<>> = h
    BY SubSeqWhole, ConcatNothing
  <2> QED
    BY <2>1
<1>3. ASSUME NEW k \in T, k + 1 <= n PROVE Audited(cfg, Sofar(k + 1), x, came, past, li)
  <2>1. k \in Nat /\ k + 1 \in 1..n /\ Audited(cfg, Sofar(k), x, came, past, li)
    BY <1>1, <1>3
  <2>2. IsSeq(SubSeq(q, 1, k)) /\ SubSeq(q, 1, k + 1) = Append(SubSeq(q, 1, k), q[k + 1])
    BY <2>1, SubSeqStep DEF n
  <2> DEFINE ev == q[k + 1]
             g == SubSeq(q, 1, k)
  <2>3. h \o Append(g, ev) = Append(h \o g, ev)
    BY <2>2, PrefixAppend
  <2>4. PICK env \in came : ev = DropEvent(cfg, env)
    BY <2>1 DEF n
  <2>5. PICK pr, dr, c : /\ Tells(h \o g, Calm(pr, li, dr, c), c)
                         /\ Books(cfg, x, past \cup x.wire, pr, li, dr, came, c)
    BY <2>1 DEF Audited
  <2>11. Apart(past, x.wire)
    BY DEF Audited
  <2> DEFINE d2 == dr \cup {<<env.from_node, env.to, env.id>>}
  <2>6. Books(cfg, x, past \cup x.wire, pr, li, d2, came, c)
    BY <2>5, BooksDrop
  <2>7. ev.kind \in EventKinds \ {"NetRecv"}
    BY <2>4 DEF DropEvent, EventKinds
  <2> HIDE DEF g, ev
  <2>8. Tells(Append(h \o g, ev), VerifyEvent(Calm(pr, li, dr, c), ev), c)
    BY <2>5, <2>7, TellsMore
  <2>9. VerifyEvent(Calm(pr, li, dr, c), ev) = Calm(pr, li, d2, c)
    BY <2>4, DropVerified
  <2> HIDE DEF d2
  <2>10. Audited(cfg, Append(h \o g, ev), x, came, past, li)
    BY <2>6, <2>8, <2>9, <2>11 DEF Audited
  <2> QED
    BY <2>2, <2>3, <2>10 DEF g, ev
<1>4. \A k \in T \cap Nat : k + 1 \in T
  BY <1>3
<1> HIDE DEF T
<1>5. n \in T
  BY <1>1, <1>2, <1>4, Induction
<1>6. SubSeq(q, 1, n) = q
  BY SubSeqWhole DEF n
<1>7. Audited(cfg, Sofar(n), x, came, past, li)
  BY <1>1, <1>5 DEF T
<1> QED
  BY <1>6, <1>7

(* What the network releases: new, and no two alike. *)
Released(cfg, mail, came, got) ==
    /\ IsSeq(got) /\ \A i, j \in 1..Len(got) : got[i] = got[j] => i = j
    /\ Genuine(cfg.node, came \cup {got[i] : i \in 1..Len(got)})
    /\ \A i \in 1..Len(got) : got[i] \notin came /\ Answers(cfg, mail, got[i].msg.prov[1])

LEMMA ReceiveOneAudited ==
    ASSUME NEW cfg, cfg.node \in Nat, NEW h, IsSeq(h), NEW x, Node(cfg, x), NEW past, NEW came,
           NEW li, Audited(cfg, h, x, came, past, li),
           NEW env, env \notin came, Genuine(cfg.node, came \cup {env}),
           Answers(cfg, past \cup x.wire, env.msg.prov[1])
    PROVE  Audited(cfg, Append(h, NetRecvEvent(cfg, env)), Receive(x, env), came \cup {env},
                   past, li)
<1> DEFINE ev == NetRecvEvent(cfg, env)
           y == Receive(x, env)
<1>1. PICK pr, dr, n : /\ Tells(h, Calm(pr, li, dr, n), n)
                       /\ Books(cfg, x, past \cup x.wire, pr, li, dr, came, n)
  BY DEF Audited
<1> DEFINE p2 == Append(pr, Post(env.to, env.id, env.msg))
           n2 == IF env.to \in Services THEN n ELSE n + 1
<1>2. Taken(x, env, y) /\ y.wire = x.wire
  <2>1. CASE env.to \in Services
    <3> DEFINE to == env.to
               id == env.id
               msg == env.msg
    <3>1. y = push(x, to, id, msg)
      BY <2>1 DEF Receive
    <3> HIDE DEF to, id, msg, y
    <3>2. push(x, to, id, msg)
             = [inbox |-> [x.inbox EXCEPT ![to] = Append(@, [id |-> id, msg |-> msg])],
                state |-> x.state, timers |-> x.timers,
                msg_counter |-> x.msg_counter, timer_counter |-> x.timer_counter,
                wire |-> x.wire]
      BY PushNode
    <3>3. /\ y.inbox = [x.inbox EXCEPT ![to] = Append(@, [id |-> id, msg |-> msg])]
          /\ y.timers = x.timers /\ y.msg_counter = x.msg_counter /\ y.wire = x.wire
      BY <3>1, <3>2
    <3> QED
      BY <2>1, <3>3 DEF to, id, msg, Taken
  <2>2. CASE env.to \notin Services
    BY <2>2 DEF Receive, Taken
  <2> QED
    BY <2>1, <2>2
<1>3. ev.kind = "NetRecv" /\ ev.to = env.to
  BY DEF NetRecvEvent
<1> HIDE DEF y, ev
<1>4. Books(cfg, y, past \cup x.wire, p2, li, dr, came \cup {env}, n2) /\ Unmet(env, dr)
  BY <1>1, <1>2, BooksReceive
<1>9. Apart(past, x.wire)
  BY DEF Audited
<1>5. n \in Nat
  BY <1>1 DEF Tells
<1>6. VerifyEvent(Calm(pr, li, dr, n), ev) = Calm(p2, li, dr, n2)
  BY <1>4, <1>5, RecvVerified DEF ev, Unmet
<1>7. (IF IsStranger(ev) THEN n + 1 ELSE n) = n2 /\ ev.kind \in EventKinds
  BY <1>3 DEF IsStranger, EventKinds
<1> HIDE DEF p2, n2
<1>8. Tells(Append(h, ev), Calm(p2, li, dr, n2), n2)
  <2>1. Tells(Append(h, ev), VerifyEvent(Calm(pr, li, dr, n), ev),
              IF IsStranger(ev) THEN n + 1 ELSE n)
    BY <1>1, <1>7, TellsOne
  <2> QED
    BY <1>6, <1>7, <2>1
<1> QED
  BY <1>2, <1>4, <1>8, <1>9 DEF Audited, ev, y

LEMMA ReceivedAudited ==
    ASSUME NEW cfg, cfg.node \in Nat, NEW h, IsSeq(h), NEW x, Node(cfg, x), NEW past, NEW came,
           NEW li, Audited(cfg, h, x, came, past, li),
           NEW got, Released(cfg, past \cup x.wire, came, got),
           NEW q, q = [i \in DOMAIN got |-> NetRecvEvent(cfg, got[i])]
    PROVE  Audited(cfg, h \o q, ReceiveAll(x, got), came \cup {got[i] : i \in 1..Len(got)},
                   past, li)
<1> DEFINE n == Len(got)
           Sofar(k) == h \o SubSeq(q, 1, k)
           all(k) == came \cup {got[i] : i \in 1..k}
<1>1. n \in Nat /\ DOMAIN got = 1..n /\ IsSeq(q) /\ Len(q) = n
  <2>1. n \in Nat /\ DOMAIN got = 1..n
    BY SeqLen DEF Released
  <2>2. q = [i \in 1..n |-> q[i]]
    BY <2>1
  <2> QED
    BY <2>1, <2>2, SeqMade
<1> HIDE DEF n
<1>2. PICK f : ReceivesBy(f, n, x, got)
  BY <1>1, ReceiveRun
<1>3. \A k \in 0..n : Node(cfg, f[k]) /\ f[k].wire = x.wire
  BY <1>1, <1>2, ReceivingNode
<1> DEFINE T == {k \in Nat : k <= n => Audited(cfg, Sofar(k), f[k], all(k), past, li)}
<1>4. 0 \in T
  <2>1. SubSeq(q, 1, 0) = <<>> /\ h \o <<>> = h
    BY <1>1, SubSeqWhole, ConcatNothing
  <2>2. all(0) = came
    OBVIOUS
  <2> QED
    BY <1>2, <2>1, <2>2 DEF ReceivesBy
<1>5. ASSUME NEW k \in T, k + 1 <= n
      PROVE  Audited(cfg, Sofar(k + 1), f[k + 1], all(k + 1), past, li)
  <2> DEFINE env == got[k + 1]
             g == SubSeq(q, 1, k)
             old == all(k)
             y == f[k]
  <2>1. /\ k \in Nat /\ k \in 0..n /\ k + 1 \in 1..n /\ (k + 1) - 1 = k
        /\ Audited(cfg, h \o g, y, old, past, li)
    BY <1>1, <1>5
  <2>2. IsSeq(g) /\ SubSeq(q, 1, k + 1) = Append(g, q[k + 1])
    BY <1>1, <2>1, SubSeqStep
  <2>3. q[k + 1] = NetRecvEvent(cfg, env)
    BY <1>1, <2>1
  <2>4. f[k + 1] = Receive(y, env) /\ Node(cfg, y) /\ y.wire = x.wire
    BY <1>2, <1>3, <2>1 DEF ReceivesBy
  <2>5. all(k + 1) = old \cup {env}
    <3>1. 1..(k + 1) = (1..k) \cup {k + 1}
      BY <2>1
    <3> QED
      BY <3>1
  <2>6. env \notin old
    <3>1. \A i \in 1..k : i \in 1..n /\ i # k + 1
      BY <1>1, <2>1
    <3>2. env \notin came
      BY <2>1 DEF Released, n
    <3>3. \A i \in 1..k : got[i] # env
      BY <2>1, <3>1 DEF Released, n
    <3> QED
      BY <3>2, <3>3
  <2>7. Genuine(cfg.node, old \cup {env})
    <3>1. all(k + 1) \subseteq all(n)
      <4>1. \A i \in 1..(k + 1) : i \in 1..n
        BY <1>1, <2>1
      <4> QED
        BY <4>1
    <3>2. Genuine(cfg.node, all(n))
      BY DEF Released, n
    <3> QED
      BY <2>5, <3>1, <3>2, GenuineLess
  <2>8. Answers(cfg, past \cup y.wire, env.msg.prov[1])
    BY <2>1, <2>4 DEF Released, n
  <2> HIDE DEF g, env, old, y
  <2>9. Append(h \o g, q[k + 1]) = h \o Append(g, q[k + 1]) /\ IsSeq(h \o g)
    <3> DEFINE ev == q[k + 1]
    <3> HIDE DEF ev
    <3>1. h \o Append(g, ev) = Append(h \o g, ev) /\ IsSeq(h \o g)
      BY <2>2, PrefixAppend, SMTT(60), ZenonT(30)
    <3> QED
      BY <3>1 DEF ev
  <2>10. Audited(cfg, Append(h \o g, NetRecvEvent(cfg, env)), Receive(y, env), old \cup {env},
                 past, li)
    BY <2>1, <2>4, <2>6, <2>7, <2>8, <2>9, ReceiveOneAudited
  <2> QED
    BY <2>2, <2>3, <2>4, <2>5, <2>9, <2>10
<1> HIDE DEF Sofar, all
<1>6. \A k \in T \cap Nat : k + 1 \in T
  BY <1>5
<1> HIDE DEF T
<1>7. n \in T
  BY <1>1, <1>4, <1>6, Induction
<1>8. SubSeq(q, 1, n) = q /\ f[n] = ReceiveAll(x, got)
  BY <1>1, <1>2, SubSeqWhole DEF ReceivesBy
<1>9. Audited(cfg, Sofar(n), f[n], all(n), past, li)
  BY <1>1, <1>7 DEF T
<1> QED
  BY <1>8, <1>9 DEF n, Sofar, all

------------------------------------------------------------------------------
(***************************************************************************)
(* What a handler does: its evidence is within what its plan declares, and *)
(* its messages answer the message it handles.                             *)
(***************************************************************************)
Replies(cfg, incoming, id, out) ==
    /\ out.service \in Services /\ out.msg.from_node = cfg.node
    /\ out.msg.prov = <<next_outbound_provenance(incoming, id)>>

Acts(cfg, incoming, id, allowed, ctx) ==
    /\ ctx.observed \subseteq allowed
    /\ \A i \in 1..Len(ctx.outbox) : Replies(cfg, incoming, id, ctx.outbox[i])

(* An action that is in the plan. *)
Planned(a, allowed) ==
    /\ a.effect \in allowed /\ (a.guards # {} => "state_read" \in allowed)
    /\ a.effect \in SendEffects => a.service \in Services

LEMMA PerformActs ==
    ASSUME NEW cfg, Host(cfg), NEW s, NEW ctx, Context(s, ctx), NEW a, TypedAction(a),
           NEW incoming, NEW id, NEW allowed, Planned(a, allowed),
           Acts(cfg, incoming, id, allowed, ctx)
    PROVE  Acts(cfg, incoming, id, allowed, Perform(ctx, cfg, s, a, incoming, id))
<1> DEFINE y == Perform(ctx, cfg, s, a, incoming, id)
<1>0. ctx = [ok |-> ctx.ok, state |-> ctx.state, logs |-> ctx.logs,
             outbox |-> ctx.outbox, observed |-> ctx.observed] /\ IsSeq(ctx.outbox)
  BY DEF Context
<1>1. CASE a.effect \notin SendEffects
  <2>1. \/ y = [ctx EXCEPT !.logs = Append(@, ctx.state)]
        \/ y = [ctx EXCEPT !.state = [ctx.state EXCEPT ![a.key] = a.value]]
        \/ y = [ctx EXCEPT !.ok = FALSE]
        \/ y = [ctx EXCEPT !.state = [ctx.state EXCEPT ![a.key] = @ + a.by]]
    BY <1>1 DEF Perform, TypedAction, Effects, SendEffects, TimerEffects
  <2> HIDE DEF y
  <2>2. y.outbox = ctx.outbox /\ y.observed = ctx.observed
    BY <1>0, <2>1
  <2>3. Acts(cfg, incoming, id, allowed, y)
    BY <2>2 DEF Acts
  <2> QED
    BY <2>3 DEF y
<1>2. CASE a.effect \in SendEffects
  <2> DEFINE nodes == TargetNodes(cfg, a, incoming)
             msg == build_outbound_message(cfg, s, a, ctx.state, incoming, id)
             more == [i \in DOMAIN nodes |-> [node |-> nodes[i], service |-> a.service,
                                              msg |-> msg, delay |-> a.steps]]
  <2>1. y = [ctx EXCEPT !.outbox = @ \o more]
    BY <1>2 DEF Perform, SendEffects, TimerEffects
  <2>2. msg.from_node = cfg.node /\ msg.prov = <<next_outbound_provenance(incoming, id)>>
    BY DEF build_outbound_message
  <2>3. IsSeq(nodes)
    BY <1>2, TargetNodesSeq
  <2> HIDE DEF nodes, msg, y
  <2>4. Len(nodes) \in Nat /\ DOMAIN nodes = 1..Len(nodes)
    BY <2>3, SeqLen
  <2>5. \A i \in 1..Len(nodes) : Replies(cfg, incoming, id, more[i])
    BY <1>2, <2>2, <2>4 DEF Replies, Planned
  <2>6. more = [i \in 1..Len(nodes) |-> more[i]]
    BY <2>4
  <2> HIDE DEF more
  <2>7. IsSeq(more) /\ Len(more) = Len(nodes)
    BY <2>4, <2>6, SeqMade
  <2> DEFINE box == ctx.outbox
  <2>8. y.outbox = box \o more /\ y.observed = ctx.observed
    BY <1>0, <2>1
  <2>9. IsSeq(box) /\ \A i \in 1..Len(box) : Replies(cfg, incoming, id, box[i])
    BY <1>0 DEF Acts
  <2> HIDE DEF box
  <2>10. ASSUME NEW i \in 1..Len(box \o more) PROVE Replies(cfg, incoming, id, (box \o more)[i])
    <3>0. Len(box) \in Nat /\ Len(box \o more) \in Nat /\ Len(box \o more) = Len(box) + Len(more)
      BY <2>7, <2>9, SeqConcat, SeqLen
    <3>1. CASE i <= Len(box)
      <4>1. (box \o more)[i] = box[i] /\ i \in 1..Len(box)
        BY <2>7, <2>9, <3>0, <3>1, SeqConcat
      <4> QED
        BY <2>9, <4>1
    <3>2. CASE i > Len(box)
      <4>1. i - Len(box) \in 1..Len(more) /\ (box \o more)[i] = more[i - Len(box)]
        BY <2>7, <2>9, <3>2, SeqConcat
      <4> QED
        BY <2>5, <2>7, <4>1
    <3> QED
      BY <3>0, <3>1, <3>2
  <2>11. ctx.observed \subseteq allowed
    BY DEF Acts
  <2>12. Acts(cfg, incoming, id, allowed, y)
    BY <2>8, <2>10, <2>11 DEF Acts
  <2> QED
    BY <2>12 DEF y
<1> QED
  BY <1>1, <1>2

LEMMA ActionActs ==
    ASSUME NEW cfg, Host(cfg), NEW s, NEW ctx, Context(s, ctx), NEW a, TypedAction(a),
           NEW incoming, NEW id, NEW allowed, Planned(a, allowed),
           Acts(cfg, incoming, id, allowed, ctx)
    PROVE  Acts(cfg, incoming, id, allowed, execute_action(ctx, cfg, s, a, incoming, id))
<1>1. ASSUME NEW v, v \subseteq allowed
      PROVE  LET y == [ctx EXCEPT !.observed = v]
             IN  Context(s, y) /\ Acts(cfg, incoming, id, allowed, y)
  <2> DEFINE y == [ctx EXCEPT !.observed = v]
  <2>1. y = [ok |-> ctx.ok, state |-> ctx.state, logs |-> ctx.logs,
             outbox |-> ctx.outbox, observed |-> v]
    BY DEF Context
  <2> HIDE DEF y
  <2>2. Context(s, y)
    BY <2>1 DEF Context
  <2>3. Acts(cfg, incoming, id, allowed, y)
    BY <1>1, <2>1 DEF Acts
  <2> QED
    BY <2>2, <2>3 DEF y
<1> DEFINE read == IF a.guards = {} THEN {} ELSE {"state_read"}
           seen == [ctx EXCEPT !.observed = @ \cup read]
           more == [seen EXCEPT !.observed = @ \cup {a.effect}]
<1>2. ctx.observed \cup read \subseteq allowed /\ a.effect \in allowed
  BY DEF Acts, Planned
<1>3. Acts(cfg, incoming, id, allowed, seen)
  BY <1>1, <1>2
<1>4. Context(s, more) /\ Acts(cfg, incoming, id, allowed, more)
  <2> DEFINE v == (ctx.observed \cup read) \cup {a.effect}
  <2>1. more = [ctx EXCEPT !.observed = v]
    BY DEF Context
  <2>2. v \subseteq allowed
    BY <1>2
  <2> HIDE DEF more, v
  <2> QED
    BY <1>1, <2>1, <2>2
<1>5. Acts(cfg, incoming, id, allowed, Perform(more, cfg, s, a, incoming, id))
  <2> HIDE DEF more
  <2> QED
    BY <1>4, PerformActs
<1>6. execute_action(ctx, cfg, s, a, incoming, id)
         \in {ctx, seen, Perform(more, cfg, s, a, incoming, id)}
  BY DEF execute_action
<1> HIDE DEF seen, more
<1> QED
  BY <1>3, <1>5, <1>6

LEMMA PlanDeclares ==
    ASSUME NEW s \in Services, NEW t \in DOMAIN Program.handlers[s]
    PROVE  LET q == Program.handlers[s][t].actions
           IN  \A i \in 1..Len(q) : Planned(q[i], Declared(s, t))
<1> DEFINE q == Program.handlers[s][t].actions
<1>1. IsSeq(q)
  BY Plan
<1>2. \A i \in DOMAIN q : ValidAction(Program, s, q[i])
  BY ProgramAssumption DEF Loadable, Services
<1>3. Declared(s, t) = infer_effects(q)
  BY ProgramAssumption DEF Loadable, Services, Declared
<1> HIDE DEF q
<1>4. DOMAIN q = 1..Len(q)
  BY <1>1, SeqLen
<1> SUFFICES ASSUME NEW i \in 1..Len(q) PROVE Planned(q[i], infer_effects(q))
  BY <1>3 DEF q
<1>5. q[i].effect \in infer_effects(q) /\ (q[i].guards # {} => "state_read" \in infer_effects(q))
  BY <1>4 DEF infer_effects
<1>6. q[i].effect \in SendEffects => q[i].service \in Services
  BY <1>2, <1>4 DEF ValidAction, Services
<1> QED
  BY <1>5, <1>6 DEF Planned

LEMMA ExecuteActs ==
    ASSUME NEW cfg, Host(cfg), NEW s \in Services, NEW state \in State(s),
           NEW incoming, NEW id
    PROVE  Acts(cfg, incoming, id, Declared(s, incoming.type),
                execute_actions(cfg, s, state, incoming, id))
<1> DEFINE q == Program.handlers[s][incoming.type].actions
           n == Len(q)
           out == execute_actions(cfg, s, state, incoming, id)
           allowed == Declared(s, incoming.type)
           Fine(c) == Context(s, c) /\ Acts(cfg, incoming, id, allowed, c)
<1>1. Fine(Fresh(state))
  <2>1. Context(s, Fresh(state))
    BY SeqOne DEF Context, Fresh
  <2>2. Acts(cfg, incoming, id, allowed, Fresh(state))
    BY SeqOne DEF Acts, Fresh
  <2> QED
    BY <2>1, <2>2
<1>2. CASE incoming.type \notin DOMAIN Program.handlers[s]
  <2>1. out = Fresh(state)
    BY <1>2 DEF execute_actions, Fresh
  <2> HIDE DEF out
  <2> QED
    BY <1>1, <2>1 DEF out
<1>3. CASE incoming.type \in DOMAIN Program.handlers[s]
  <2>1. out = PerformAll(Fresh(state), cfg, s, q, incoming, id)
    BY <1>3 DEF execute_actions, Fresh
  <2>2. IsSeq(q) /\ \A i \in 1..n : TypedAction(q[i])
                       /\ (q[i].effect = "state_write" => q[i].key \in DOMAIN Program.initial[s])
    BY <1>3, Plan
  <2>3. \A i \in 1..n : Planned(q[i], allowed)
    BY <1>3, PlanDeclares
  <2> HIDE DEF q, allowed
  <2>4. n \in Nat /\ DOMAIN q = 1..n
    BY <2>2, SeqLen
  <2> HIDE DEF n, out
  <2>5. PICK run : PerformsBy(run, n, Fresh(state), cfg, s, q, incoming, id)
    BY <2>4, PerformRun
  <2> DEFINE T == {k \in Nat : k <= n => Fine(run[k])}
  <2>6. 0 \in T
    BY <1>1, <2>5 DEF PerformsBy
  <2>7. ASSUME NEW k \in T, k + 1 <= n PROVE Fine(run[k + 1])
    <3>1. k \in Nat /\ k + 1 \in 1..n /\ (k + 1) - 1 = k /\ Fine(run[k])
      BY <2>4, <2>7
    <3>2. run[k + 1] = execute_action(run[k], cfg, s, q[k + 1], incoming, id)
      BY <2>5, <3>1 DEF PerformsBy
    <3>3. /\ TypedAction(q[k + 1]) /\ Planned(q[k + 1], allowed)
          /\ q[k + 1].effect = "state_write" => q[k + 1].key \in DOMAIN Program.initial[s]
      BY <2>2, <2>3, <3>1
    <3>4. Context(s, run[k + 1])
      BY <3>1, <3>2, <3>3, ActionContext
    <3>5. Acts(cfg, incoming, id, allowed, run[k + 1])
      BY <3>1, <3>2, <3>3, ActionActs
    <3> QED
      BY <3>4, <3>5
  <2> HIDE DEF Fine
  <2>8. \A k \in T \cap Nat : k + 1 \in T
    BY <2>7
  <2> HIDE DEF T
  <2>9. n \in T
    BY <2>4, <2>6, <2>8, Induction
  <2>10. Fine(run[n])
    BY <2>4, <2>9 DEF T
  <2>11. out = run[n]
    BY <2>1, <2>5 DEF PerformsBy
  <2> QED
    BY <2>10, <2>11 DEF Fine, out, allowed
<1> QED
  BY <1>2, <1>3

------------------------------------------------------------------------------
(***************************************************************************)
(* Whole iterations.                                                       *)
(***************************************************************************)
LEMMA PreludeAudited ==
    ASSUME NEW cfg, Host(cfg), NEW h, IsSeq(h), NEW x, Node(cfg, x), NEW past, NEW came,
           NEW li, Audited(cfg, h, x, came, past, li), NEW m \in Nat,
           NEW lost, IsFiniteSet(lost), NEW got, Released(cfg, past \cup x.wire, came \cup lost, got)
    PROVE  LET all == (came \cup lost) \cup {got[i] : i \in 1..Len(got)}
           IN  Auditing(cfg, h, Prelude(x, cfg, m, lost, got), all, past, li)
<1> DEFINE drops == SetToSeq({DropEvent(cfg, env) : env \in lost})
           recvs == [i \in DOMAIN got |-> NetRecvEvent(cfg, got[i])]
           y == ReceiveAll(x, got)
           fired == FireDue(y, cfg, m)
           pre == Prelude(x, cfg, m, lost, got)
           more == came \cup lost
           all == more \cup {got[i] : i \in 1..Len(got)}
<1>1. cfg.node \in Nat /\ IsSeq(got)
  BY DEF Host, Released
<1>2. Audited(cfg, h, x, more, past, li)
  <2>1. PICK pr, dr, n : /\ Tells(h, Calm(pr, li, dr, n), n)
                         /\ Books(cfg, x, past \cup x.wire, pr, li, dr, came, n)
    BY DEF Audited
  <2>2. came \subseteq more
    OBVIOUS
  <2> HIDE DEF more
  <2>3. Books(cfg, x, past \cup x.wire, pr, li, dr, more, n)
    BY <1>1, <2>1, <2>2, BooksArrive
  <2>4. Apart(past, x.wire)
    BY DEF Audited
  <2> QED
    BY <2>1, <2>3, <2>4 DEF Audited
<1>3. IsSeq(drops) /\ \A i \in 1..Len(drops) : \E env \in more : drops[i] = DropEvent(cfg, env)
  <2>1. IsSeq(drops) /\ \A i \in 1..Len(drops) : \E env \in lost : drops[i] = DropEvent(cfg, env)
    BY DropEvents
  <2> HIDE DEF drops
  <2> QED
    BY <2>1
<1>4. IsSeq(recvs)
  <2>1. Len(got) \in Nat /\ DOMAIN got = 1..Len(got)
    BY <1>1, SeqLen
  <2>2. recvs = [i \in 1..Len(got) |-> recvs[i]]
    BY <2>1
  <2> HIDE DEF recvs
  <2> QED
    BY <2>1, <2>2, SeqMade
<1>5. Node(cfg, y) /\ y.wire = x.wire
  <2>1. Len(got) \in Nat /\ DOMAIN got = 1..Len(got) /\ Len(got) \in 0..Len(got)
    BY <1>1, SeqLen
  <2>2. PICK f : ReceivesBy(f, Len(got), x, got)
    BY <2>1, ReceiveRun
  <2>3. \A k \in 0..Len(got) : Node(cfg, f[k]) /\ f[k].wire = x.wire
    BY <2>1, <2>2, ReceivingNode
  <2> QED
    BY <2>1, <2>2, <2>3 DEF ReceivesBy
<1>6. pre = [sys |-> fired.sys, events |-> (drops \o recvs) \o fired.events]
  BY DEF Prelude, drain_network
<1> HIDE DEF drops, more
<1> DEFINE a == h \o drops
<1>7. Audited(cfg, a, x, more, past, li) /\ IsSeq(a)
  BY <1>2, <1>3, DropsAudited, SeqConcat
<1>8. recvs = [i \in DOMAIN got |-> NetRecvEvent(cfg, got[i])]
  OBVIOUS
<1> DEFINE b == a \o recvs
<1>9. Audited(cfg, b, y, all, past, li)
  <2>1. Released(cfg, past \cup x.wire, more, got)
    BY DEF more
  <2> HIDE DEF a, recvs
  <2> QED
    BY <1>1, <1>7, <1>8, <2>1, ReceivedAudited
<1>10. IsSeq(b)
  BY <1>4, <1>7, SeqConcat
<1> HIDE DEF recvs, y, pre, all
<1>11. Auditing(cfg, b, fired, all, past, li)
  <2> HIDE DEF b
  <2> QED
    BY <1>5, <1>9, <1>10, FireDueAudited
<1>12. Node(cfg, fired.sys) /\ IsSeq(fired.events) /\ Audited(cfg, b \o fired.events, fired.sys, all, past, li)
  BY <1>11 DEF Auditing
<1> HIDE DEF fired
<1>13. /\ IsSeq(drops \o recvs) /\ IsSeq((drops \o recvs) \o fired.events)
       /\ b \o fired.events = h \o ((drops \o recvs) \o fired.events)
  <2>1. IsSeq(drops \o recvs)
    BY <1>3, <1>4, SeqConcat
  <2>2. Associates(h, drops, recvs)
    BY <1>3, <1>4, SeqAssoc
  <2>3. Associates(h, drops \o recvs, fired.events)
    BY <1>12, <2>1, SeqAssoc
  <2>4. IsSeq((drops \o recvs) \o fired.events)
    BY <1>12, <2>1, SeqConcat
  <2> QED
    BY <2>1, <2>2, <2>3, <2>4 DEF Associates
<1>14. pre.sys = fired.sys /\ pre.events = (drops \o recvs) \o fired.events
  BY <1>6
<1>15. Auditing(cfg, h, pre, all, past, li)
  BY <1>12, <1>13, <1>14 DEF Auditing
<1> QED
  BY <1>15 DEF pre, all, more

LEMMA LogsAudited ==
    ASSUME NEW cfg, NEW h, IsSeq(h), NEW x, NEW past, NEW came, NEW li,
           Audited(cfg, h, x, came, past, li),
           NEW q, IsSeq(q), \A i \in 1..Len(q) : q[i].kind = "Log" /\ q[i].from \in Crew
    PROVE  Audited(cfg, h \o q, x, came, past, li)
<1> DEFINE n == Len(q)
           Sofar(k) == h \o SubSeq(q, 1, k)
<1>1. n \in Nat
  BY SeqLen
<1> HIDE DEF n
<1>0. PICK pr, dr, c : /\ Tells(h, Calm(pr, li, dr, c), c)
                       /\ Books(cfg, x, past \cup x.wire, pr, li, dr, came, c)
  BY DEF Audited
<1>8. Apart(past, x.wire)
  BY DEF Audited
<1> DEFINE T == {k \in Nat : k <= n => Tells(Sofar(k), Calm(pr, li, dr, c), c)}
<1>2. 0 \in T
  <2>1. SubSeq(q, 1, 0) = <<>> /\ h \o <<>> = h
    BY SubSeqWhole, ConcatNothing
  <2> QED
    BY <1>0, <2>1
<1>3. ASSUME NEW k \in T, k + 1 <= n PROVE Tells(Sofar(k + 1), Calm(pr, li, dr, c), c)
  <2> DEFINE ev == q[k + 1]
             g == SubSeq(q, 1, k)
  <2>1. k \in Nat /\ k + 1 \in 1..n /\ Tells(h \o g, Calm(pr, li, dr, c), c)
    BY <1>1, <1>3
  <2>2. IsSeq(g) /\ SubSeq(q, 1, k + 1) = Append(g, ev)
    BY <2>1, SubSeqStep DEF n
  <2>3. h \o Append(g, ev) = Append(h \o g, ev)
    BY <2>2, PrefixAppend
  <2>4. ev.kind = "Log" /\ ev.from \in Crew /\ ev.kind \in EventKinds \ {"NetRecv"}
    BY <2>1 DEF n, EventKinds, Observations
  <2> HIDE DEF g, ev
  <2>5. Tells(Append(h \o g, ev), VerifyEvent(Calm(pr, li, dr, c), ev), c)
    BY <2>1, <2>4, TellsMore
  <2>6. VerifyEvent(Calm(pr, li, dr, c), ev) = Calm(pr, li, dr, c)
    BY <2>4, EmitVerified
  <2> QED
    BY <2>2, <2>3, <2>5, <2>6 DEF g, ev
<1> HIDE DEF Sofar
<1>4. \A k \in T \cap Nat : k + 1 \in T
  BY <1>3
<1> HIDE DEF T
<1>5. n \in T
  BY <1>1, <1>2, <1>4, Induction
<1>6. Tells(Sofar(n), Calm(pr, li, dr, c), c)
  BY <1>1, <1>5 DEF T
<1>7. SubSeq(q, 1, n) = q
  BY SubSeqWhole DEF n
<1> QED
  BY <1>0, <1>6, <1>7, <1>8 DEF Audited, Sofar

(* The front message is taken, its handler runs, its evidence is recorded. *)
LEMMA DeliverAudited ==
    ASSUME NEW cfg, Host(cfg), NEW h, IsSeq(h), NEW x, Node(cfg, x), NEW past, NEW came,
           NEW li, Audited(cfg, h, x, came, past, li), Genuine(cfg.node, came),
           NEW s \in Services, x.inbox[s] # <<>>, NEW m \in Nat
    PROVE  LET r == Deliver(x, cfg, m, s)
           IN  \E l2 : Auditing(cfg, Append(h, DeliverEvent(cfg, s, r.id)), r, came, past, l2)
<1> DEFINE id == Head(x.inbox[s]).id
           msg == Head(x.inbox[s]).msg
           ran == Ran(x, cfg, s)
           y == Popped(x, s, ran.state)
           dev == DeliverEvent(cfg, s, id)
           e == Append(h, dev)
           allowed == Declared(s, msg.type)
           eff == EffectEvent(cfg, s, msg.type, id, allowed, ran.observed)
           logs == [i \in DOMAIN ran.logs |-> LogEvent(cfg, s, ran.logs[i])]
           start == Handled(x, cfg, s)
           r == Deliver(x, cfg, m, s)
           l2 == Entered(li, id, msg)
<1>1. cfg.node \in Nat
  BY DEF Host
<1>2. PICK pr, dr, n : /\ Tells(h, Calm(pr, li, dr, n), n)
                       /\ Books(cfg, x, past \cup x.wire, pr, li, dr, came, n)
  BY DEF Audited
<1>3. Context(s, ran) /\ Node(cfg, y)
  BY HandledNode DEF Handled
<1>4. Acts(cfg, msg, id, allowed, ran)
  <2>1. x.state[s] \in State(s)
    BY DEF Node
  <2> HIDE DEF id, msg
  <2>2. Acts(cfg, msg, id, allowed, execute_actions(cfg, s, x.state[s], msg, id))
    BY <2>1, ExecuteActs
  <2> QED
    BY <2>2 DEF Ran, id, msg
<1>5. /\ y.inbox = [x.inbox EXCEPT ![s] = Tail(@)] /\ y.timers = x.timers
      /\ y.msg_counter = x.msg_counter /\ y.wire = x.wire
  BY DEF Popped
<1>6. start = [sys |-> y, events |-> <<eff>> \o logs]
  BY DEF Handled, Observed
<1>7. r.id = id /\ r.sys = EmitAll(start, cfg, s, ran.outbox, m).sys
      /\ r.events = EmitAll(start, cfg, s, ran.outbox, m).events
  BY DeliverParts
<1>8. IsSeq(logs) /\ \A i \in 1..Len(logs) : logs[i].kind = "Log" /\ logs[i].from \in Crew
  <2>1. IsSeq(ran.logs)
    BY <1>3 DEF Context
  <2>2. Len(ran.logs) \in Nat /\ DOMAIN ran.logs = 1..Len(ran.logs)
    BY <2>1, SeqLen
  <2>3. logs = [i \in 1..Len(ran.logs) |-> logs[i]]
    BY <2>2
  <2>4. \A i \in 1..Len(ran.logs) : logs[i].kind = "Log" /\ logs[i].from \in Crew
    BY <2>2 DEF LogEvent, Crew
  <2> HIDE DEF logs
  <2>5. IsSeq(logs) /\ Len(logs) = Len(ran.logs)
    BY <2>2, <2>3, SeqMade
  <2> QED
    BY <2>4, <2>5
<1> HIDE DEF logs, y, start, r, ran
<1>9. Single(msg) /\ Sane(li, id, msg) /\ IsSeq(pr)
      /\ \E i : /\ Leads(pr, i, s, id, msg)
                /\ Books(cfg, y, past \cup x.wire, RemoveAt(pr, i), l2, dr, came, n)
  <2> DEFINE mail == past \cup x.wire
  <2>1. Books(cfg, x, mail, pr, li, dr, came, n) /\ Popping(x, y, s)
    BY <1>2, <1>5 DEF Popping
  <2>2. id = Head(x.inbox[s]).id /\ msg = Head(x.inbox[s]).msg
    OBVIOUS
  <2> HIDE DEF mail, id, msg
  <2>3. /\ Sound(li, id, msg) /\ IsSeq(pr)
        /\ \E i : /\ Leads(pr, i, s, id, msg)
                  /\ Books(cfg, y, mail, RemoveAt(pr, i), Entered(li, id, msg), dr, came, n)
    BY <1>1, <2>1, <2>2, BooksGo
  <2> QED
    BY <2>3 DEF mail, id, msg, Sound
<1>10. PICK i : /\ Leads(pr, i, s, id, msg)
                /\ Books(cfg, y, past \cup x.wire, RemoveAt(pr, i), l2, dr, came, n)
  BY <1>9
<1>22. /\ i \in 1..Len(pr) /\ pr[i] = Post(s, id, msg)
       /\ \A j \in 1..Len(pr) : pr[j].to = s => i <= j
  BY <1>10 DEF Leads
<1> HIDE DEF id, msg
<1>11. pr[i].to = s /\ pr[i].id = id /\ pr[i].msg = msg
  BY <1>22 DEF Post
<1> DEFINE p2 == RemoveAt(pr, i)
           mid == Verifier(Crew, p2, l2, dr, <<>>, <<dev>>, If(n # 0, "netrecv_to_unknown"))
<1>12. VerifyEvent(Calm(pr, li, dr, n), dev) = mid
  <2>1. Sane(li, id, pr[i].msg)
    BY <1>9, <1>11
  <2>2. VerifyEvent(Calm(pr, li, dr, n), DeliverEvent(cfg, s, id))
          = Verifier(Crew, RemoveAt(pr, i), Entered(li, id, pr[i].msg), dr,
                     <<>>, <<DeliverEvent(cfg, s, id)>>, If(n # 0, "netrecv_to_unknown"))
    BY <1>9, <1>11, <1>22, <2>1, DeliverVerified
  <2> QED
    BY <1>11, <2>2
<1>13. VerifyEvent(mid, eff) = Calm(p2, l2, dr, n)
  <2>1. ran.observed \subseteq allowed
    BY <1>4 DEF Acts
  <2> HIDE DEF p2, l2, allowed
  <2> QED
    BY <2>1, EffectVerified
<1>14. dev.kind \in EventKinds \ {"NetRecv"} /\ eff.kind \in EventKinds \ {"NetRecv"}
  BY DEF DeliverEvent, EffectEvent, EventKinds, Observations
<1> HIDE DEF dev, eff, mid, p2, l2
<1>15. Tells(Append(e, eff), Calm(p2, l2, dr, n), n)
  <2>1. Tells(Append(h, dev), mid, n)
    <3>1. Tells(Append(h, dev), VerifyEvent(Calm(pr, li, dr, n), dev), n)
      BY <1>2, <1>14, TellsMore
    <3> QED
      BY <1>12, <3>1
  <2>2. Tells(Append(Append(h, dev), eff), VerifyEvent(mid, eff), n)
    BY <1>14, <2>1, TellsMore
  <2> QED
    BY <1>13, <2>2
<1>16. Audited(cfg, Append(e, eff), y, came, past, l2)
  <2>1. Books(cfg, y, past \cup y.wire, p2, l2, dr, came, n)
    BY <1>5, <1>10 DEF p2, l2
  <2>2. Apart(past, x.wire)
    BY DEF Audited
  <2>3. Apart(past, y.wire)
    BY <1>5, <2>2
  <2> QED
    BY <1>15, <2>1, <2>3 DEF Audited
<1>17. IsSeq(e) /\ IsSeq(Append(e, eff))
  BY SeqAppend
<1>18. Auditing(cfg, e, start, came, past, l2)
  <2>1. Audited(cfg, Append(e, eff) \o logs, y, came, past, l2)
    BY <1>8, <1>16, <1>17, LogsAudited
  <2>2. IsSeq(<<eff>>) /\ IsSeq(<<eff>> \o logs) /\ e \o <<eff>> = Append(e, eff)
    BY <1>8, <1>17, SeqOne, SeqConcat, AppendsOne
  <2>3. Associates(e, <<eff>>, logs)
    BY <1>8, <1>17, <2>2, SeqAssoc
  <2>4. Append(e, eff) \o logs = e \o (<<eff>> \o logs)
    BY <2>2, <2>3 DEF Associates
  <2>5. start.sys = y /\ start.events = <<eff>> \o logs
    BY <1>6
  <2> HIDE DEF e
  <2> QED
    BY <1>3, <1>17, <2>1, <2>2, <2>4, <2>5 DEF Auditing
<1>19. /\ IsSeq(ran.outbox)
       /\ \A k \in 1..Len(ran.outbox) : Proper(cfg, l2, ran.outbox[k]) /\ ran.outbox[k].delay \in Nat
  <2>1. IsSeq(ran.outbox) /\ \A k \in 1..Len(ran.outbox) : ran.outbox[k].delay \in Nat
    BY <1>3 DEF Context
  <2>2. ASSUME NEW k \in 1..Len(ran.outbox) PROVE Proper(cfg, l2, ran.outbox[k])
    <3>1. Replies(cfg, msg, id, ran.outbox[k])
      BY <1>4 DEF Acts
    <3>2. Child(cfg, Entered(li, id, msg), ran.outbox[k].msg)
      BY <1>9, <3>1, AnswerIsChild DEF Replies
    <3> QED
      BY <3>1, <3>2 DEF Proper, Replies, l2
  <2> QED
    BY <2>1, <2>2
<1>20. Auditing(cfg, e, EmitAll(start, cfg, s, ran.outbox, m), came, past, l2)
  <2> HIDE DEF e
  <2> QED
    BY <1>1, <1>18, <1>19, EmitAllAudited
<1>21. Auditing(cfg, e, r, came, past, l2)
  BY <1>7, <1>20 DEF Auditing
<1> QED
  BY <1>7, <1>21 DEF r, e, dev

(* The Deliver event of the message at the front of an inbox. *)
Taking(cfg, x, s) == DeliverEvent(cfg, s, Head(x.inbox[s]).id)

(* One iteration: the trace it leaves is in order, but for the Deliver     *)
(* event at its end if the handler failed.                                 *)
AuditedRun(cfg, h, ran, all, past) ==
    \E e, l2 : /\ Audited(cfg, e, ran.sys, all, past, l2)
               /\ IF ran.ok THEN h \o ran.events = e
                  ELSE \E s : /\ s \in Services /\ ran.sys.inbox[s] # <<>>
                              /\ h \o ran.events = Append(e, Taking(cfg, ran.sys, s))

(* The envelopes that have come, with those of an iteration. *)
Come(came, lost, got) == (came \cup lost) \cup {got[i] : i \in 1..Len(got)}

LEMMA IterationAudited ==
    ASSUME NEW cfg, Host(cfg), NEW h, IsSeq(h), NEW x, Node(cfg, x), NEW past, NEW came,
           NEW li, Audited(cfg, h, x, came, past, li), NEW m \in Nat,
           NEW lost, IsFiniteSet(lost), NEW got, Released(cfg, past \cup x.wire, came \cup lost, got)
    PROVE  AuditedRun(cfg, h, Iteration(x, cfg, m, lost, got), Come(came, lost, got), past)
<1> DEFINE pre == Prelude(x, cfg, m, lost, got)
           z == pre.sys
           before == pre.events
           ran == Iteration(x, cfg, m, lost, got)
           all == (came \cup lost) \cup {got[i] : i \in 1..Len(got)}
           s == choose_next_deterministic(z)
           r == Deliver(z, cfg, m, s)
           one == <<DeliverEvent(cfg, s, r.id)>>
           q == h \o before
<1>1. /\ Node(cfg, z) /\ IsSeq(before) /\ Audited(cfg, q, z, all, past, li)
      /\ Genuine(cfg.node, all)
  <2>1. Auditing(cfg, h, pre, all, past, li)
    BY PreludeAudited
  <2>2. Genuine(cfg.node, all)
    BY DEF Released
  <2> HIDE DEF pre, all
  <2> QED
    BY <2>1, <2>2 DEF Auditing
<1>2. IsSeq(q)
  <2> HIDE DEF pre
  <2> QED
    BY <1>1, SeqConcat
<1>3. CASE Ready(z) = {}
  <2>1. ran = [ok |-> TRUE, sys |-> z, events |-> before]
    BY <1>3 DEF Iteration
  <2> HIDE DEF pre, ran, all
  <2>2. Audited(cfg, h \o ran.events, ran.sys, all, past, li) /\ ran.ok
    BY <1>1, <2>1
  <2> QED
    BY <2>2 DEF AuditedRun, ran, all, Come
<1>4. CASE Ready(z) # {}
  <2>1. ran = IF r.ok THEN [ok |-> TRUE, sys |-> r.sys, events |-> (before \o one) \o r.events]
              ELSE [ok |-> FALSE, sys |-> z, events |-> before \o one]
    BY <1>4 DEF Iteration
  <2>2. s \in Services /\ z.inbox[s] # <<>>
    BY <1>4, ChoiceIsReady DEF Ready
  <2>3. Append(q, DeliverEvent(cfg, s, r.id)) = h \o (before \o one)
        /\ IsSeq(one) /\ IsSeq(before \o one)
    <3>1. IsSeq(one) /\ q \o one = Append(q, DeliverEvent(cfg, s, r.id))
      <4> HIDE DEF q, pre, r, s
      <4> QED
        BY <1>2, SeqOne, AppendsOne
    <3>2. Associates(h, before, one) /\ IsSeq(before \o one)
      <4> HIDE DEF pre, one
      <4> QED
        BY <1>1, <3>1, SeqAssoc, SeqConcat
    <3> QED
      BY <3>1, <3>2 DEF Associates
  <2> HIDE DEF pre, all, ran, s
  <2>4. CASE r.ok
    <3>1. PICK l2 : Auditing(cfg, Append(q, DeliverEvent(cfg, s, r.id)), r, all, past, l2)
      <4> HIDE DEF q
      <4> QED
        BY <1>1, <1>2, <2>2, DeliverAudited
    <3> HIDE DEF r, one, q
    <3>2. Audited(cfg, (h \o (before \o one)) \o r.events, r.sys, all, past, l2) /\ IsSeq(r.events)
      BY <2>3, <3>1 DEF Auditing
    <3>3. Associates(h, before \o one, r.events)
      BY <2>3, <3>2, SeqAssoc
    <3>4. ran.ok /\ ran.sys = r.sys /\ ran.events = (before \o one) \o r.events
      BY <2>1, <2>4
    <3>5. Audited(cfg, h \o ran.events, ran.sys, all, past, l2)
      BY <3>2, <3>3, <3>4 DEF Associates
    <3> QED
      BY <3>4, <3>5 DEF AuditedRun, ran, all, Come
  <2>5. CASE ~ r.ok
    <3>1. ~ ran.ok /\ ran.sys = z /\ ran.events = before \o one
      BY <2>1, <2>5
    <3>2. h \o ran.events = Append(q, DeliverEvent(cfg, s, r.id))
      BY <2>3, <3>1
    <3>3. DeliverEvent(cfg, s, r.id) = Taking(cfg, ran.sys, s)
      <4> HIDE DEF z
      <4>1. r.id = Head(z.inbox[s]).id
        BY <1>1, <2>2, DeliverParts
      <4> HIDE DEF r
      <4> QED
        BY <3>1, <4>1 DEF Taking
    <3> HIDE DEF q, one, r
    <3>4. Audited(cfg, q, ran.sys, all, past, li)
      BY <1>1, <3>1
    <3>5. h \o ran.events = Append(q, Taking(cfg, ran.sys, s)) /\ ran.sys.inbox[s] # <<>>
      BY <2>2, <3>1, <3>2, <3>3
    <3> QED
      BY <2>2, <3>1, <3>4, <3>5 DEF AuditedRun, ran, all, Come
  <2> QED
    BY <2>4, <2>5
<1> QED
  BY <1>3, <1>4

(* After that event the verifier waits for the evidence of the handler,    *)
(* and has nothing else to say.                                            *)
Waits(v, n) ==
    /\ v.timer = <<>> /\ v.effect # <<>>
    /\ v.problems = If(n # 0, "netrecv_to_unknown")

Pauses(g, came) ==
    \E v, n : /\ Tells(g, v, n) /\ Waits(v, n)
              /\ n # 0 => \E env \in came : env.to \notin Services

LEMMA TakingTold ==
    ASSUME NEW cfg, cfg.node \in Nat, NEW e, NEW x, Node(cfg, x), NEW past, NEW came, NEW li,
           Audited(cfg, e, x, came, past, li), Genuine(cfg.node, came),
           NEW s \in Services, x.inbox[s] # <<>>
    PROVE  Pauses(Append(e, Taking(cfg, x, s)), came)
<1> DEFINE id == Head(x.inbox[s]).id
           msg == Head(x.inbox[s]).msg
           y == Popped(x, s, x.state[s])
           dev == DeliverEvent(cfg, s, id)
<1>1. PICK pr, dr, n : /\ Tells(e, Calm(pr, li, dr, n), n)
                       /\ Books(cfg, x, past \cup x.wire, pr, li, dr, came, n)
  BY DEF Audited
<1>2. PICK i : Sane(li, id, msg) /\ IsSeq(pr) /\ Leads(pr, i, s, id, msg)
  <2> DEFINE mail == past \cup x.wire
  <2>1. Books(cfg, x, mail, pr, li, dr, came, n) /\ Popping(x, y, s)
    BY <1>1 DEF Popping, Popped
  <2>2. id = Head(x.inbox[s]).id /\ msg = Head(x.inbox[s]).msg
    OBVIOUS
  <2> HIDE DEF mail, id, msg, y
  <2>3. /\ Sound(li, id, msg) /\ IsSeq(pr)
        /\ \E i : /\ Leads(pr, i, s, id, msg)
                  /\ Books(cfg, y, mail, RemoveAt(pr, i), Entered(li, id, msg), dr, came, n)
    BY <2>1, <2>2, BooksGo
  <2> QED
    BY <2>3 DEF Sound
<1> HIDE DEF id, msg
<1>3. /\ i \in 1..Len(pr) /\ pr[i].to = s /\ pr[i].id = id /\ pr[i].msg = msg
      /\ \A j \in 1..Len(pr) : pr[j].to = s => i <= j
  BY <1>2 DEF Leads, Post
<1> DEFINE v == Verifier(Crew, RemoveAt(pr, i), Entered(li, id, pr[i].msg), dr, <<>>, <<dev>>,
                         If(n # 0, "netrecv_to_unknown"))
<1>4. VerifyEvent(Calm(pr, li, dr, n), dev) = v
  BY <1>2, <1>3, DeliverVerified
<1>5. Waits(v, n)
  <2>1. <<dev>> # <<>>
    <3> HIDE DEF dev
    <3> QED
      OBVIOUS
  <2> HIDE DEF dev
  <2> QED
    BY SMTT(60), <2>1, VerifierParts DEF Waits
<1> HIDE DEF v
<1>6. Tells(Append(e, dev), v, n)
  <2>1. dev.kind \in EventKinds \ {"NetRecv"}
    BY DEF DeliverEvent, EventKinds
  <2> HIDE DEF dev
  <2> QED
    BY <1>1, <1>4, <2>1, TellsMore
<1>7. n # 0 => \E env \in came : env.to \notin Services
  BY <1>1 DEF Books, Noted
<1>8. dev = Taking(cfg, x, s)
  BY DEF Taking, id
<1> HIDE DEF dev
<1>9. Pauses(Append(e, dev), came)
  BY <1>5, <1>6, <1>7 DEF Pauses
<1> QED
  BY <1>8, <1>9

------------------------------------------------------------------------------
(***************************************************************************)
(* The start-up.                                                           *)
(***************************************************************************)
Manned(sp) == Verifier(sp, <<>>, {}, {}, <<>>, <<>>, {})

LEMMA SpawnVerified ==
    ASSUME NEW sp, NEW s, s \notin sp, NEW cfg
    PROVE  VerifyEvent(Manned(sp), SpawnEvent(cfg, s)) = Manned(sp \cup {s})
<1> DEFINE v == Manned(sp)
           ev == SpawnEvent(cfg, s)
           w == Manned(sp \cup {s})
<1>1. v.effect = <<>> /\ v.timer = <<>> /\ v.spawned = sp
  BY VerifierParts DEF Manned
<1>2. ev.kind = "Spawn" /\ ev.service = s
  BY DEF SpawnEvent
<1>3. \A u : [v EXCEPT !.spawned = u] = Manned(u)
  BY VerifierSets DEF Manned
<1>4. Report(w, {}) = w
  BY Reported DEF Manned
<1> HIDE DEF v, ev, w
<1>5. VerifyEvent(v, ev) = OnEvent(v, ev)
  BY <1>1 DEF VerifyEvent
<1>6. OnEvent(v, ev) = Report([v EXCEPT !.spawned = @ \cup {ev.service}],
                              If(ev.service \in v.spawned, "duplicate_spawn"))
  BY <1>2 DEF OnEvent
<1>7. If(ev.service \in v.spawned, "duplicate_spawn") = {}
  BY <1>1, <1>2 DEF If
<1>8. [v EXCEPT !.spawned = @ \cup {ev.service}] = w
  BY <1>1, <1>2, <1>3 DEF w
<1> QED
  BY <1>4, <1>5, <1>6, <1>7, <1>8 DEF v, ev, w

(* The Spawn events: every service once, and none of them is System. *)
LEMMA SpawnedTold ==
    ASSUME System \notin Services, NEW cfg
    PROVE  Tells(Spawned(cfg).events, Calm(<<>>, {}, {}, 0), 0)
<1> DEFINE names == Program.services
           n == Len(names)
           one == <<SpawnEvent(cfg, System)>>
           q == [i \in DOMAIN names |-> SpawnEvent(cfg, names[i])]
           crew(k) == {System} \cup {names[i] : i \in 1..k}
           Sofar(k) == one \o SubSeq(q, 1, k)
<1>1. n \in Nat /\ DOMAIN names = 1..n /\ Services = {names[i] : i \in 1..n}
  <2>1. n \in Nat /\ DOMAIN names = 1..n
    BY TypesAssumption
  <2> QED
    BY <2>1 DEF Services, Range
<1>2. \A i, j \in 1..n : names[i] = names[j] => i = j
  BY <1>1, ProgramAssumption DEF Loadable, IsInjective
<1>3. IsSeq(q) /\ Len(q) = n /\ \A i \in 1..n : q[i] = SpawnEvent(cfg, names[i])
  <2>1. q = [i \in 1..n |-> q[i]] /\ \A i \in 1..n : q[i] = SpawnEvent(cfg, names[i])
    BY <1>1
  <2> HIDE DEF q, n
  <2> QED
    BY <1>1, <2>1, SeqMade
<1>4. IsSeq(one) /\ one = Append(<<>>, SpawnEvent(cfg, System))
  BY SeqOne
<1>5. \A s : SpawnEvent(cfg, s).kind \in EventKinds \ {"NetRecv"}
  BY DEF SpawnEvent, EventKinds
<1> HIDE DEF q, n, names
<1> DEFINE T == {k \in Nat : k <= n => Tells(Sofar(k), Manned(crew(k)), 0)}
<1>6. 0 \in T
  <2>1. SubSeq(q, 1, 0) = <<>> /\ one \o <<>> = one
    BY <1>3, <1>4, SubSeqWhole, ConcatNothing
  <2>2. VerifyInit = Manned({})
    BY DEF VerifyInit, Manned, Verifier
  <2>3. VerifyEvent(VerifyInit, SpawnEvent(cfg, System)) = Manned(crew(0))
    <3>1. {} \cup {System} = crew(0)
      OBVIOUS
    <3> HIDE DEF crew
    <3> QED
      BY <2>2, <3>1, SpawnVerified
  <2>4. Tells(Append(<<>>, SpawnEvent(cfg, System)), VerifyEvent(VerifyInit, SpawnEvent(cfg, System)), 0)
    BY <1>5, TellsNothing, TellsMore
  <2>5. Tells(Sofar(0), Manned(crew(0)), 0)
    BY <1>4, <2>1, <2>3, <2>4
  <2> QED
    BY <2>5
<1>7. ASSUME NEW k \in T, k + 1 <= n PROVE Tells(Sofar(k + 1), Manned(crew(k + 1)), 0)
  <2> DEFINE s == names[k + 1]
             ev == q[k + 1]
             g == SubSeq(q, 1, k)
  <2>1. k \in Nat /\ k + 1 \in 1..n /\ Tells(one \o g, Manned(crew(k)), 0)
    BY <1>1, <1>7
  <2>2. IsSeq(g) /\ SubSeq(q, 1, k + 1) = Append(g, ev)
    BY <1>3, <2>1, SubSeqStep
  <2>3. one \o Append(g, ev) = Append(one \o g, ev)
    BY <1>4, <2>2, PrefixAppend
  <2>4. ev = SpawnEvent(cfg, s)
    BY <1>3, <2>1
  <2>5. s \notin crew(k)
    <3>1. \A i \in 1..k : i \in 1..n /\ i # k + 1
      BY <1>1, <2>1
    <3>2. s \in Services
      BY <1>1, <2>1
    <3> QED
      BY <1>2, <2>1, <3>1, <3>2
  <2>6. crew(k + 1) = crew(k) \cup {s}
    <3>1. 1..(k + 1) = (1..k) \cup {k + 1}
      BY <2>1
    <3> QED
      BY <3>1
  <2> HIDE DEF g, ev, one, s, crew
  <2>7. Tells(Append(one \o g, ev), VerifyEvent(Manned(crew(k)), ev), 0)
    BY <1>5, <2>1, <2>4, TellsMore
  <2>8. VerifyEvent(Manned(crew(k)), ev) = Manned(crew(k) \cup {s})
    BY <2>4, <2>5, SpawnVerified
  <2> QED
    BY <2>2, <2>3, <2>6, <2>7, <2>8 DEF g, ev
<1>8. Manned(crew(n)) = Calm(<<>>, {}, {}, 0)
  <2>1. crew(n) = Crew
    BY <1>1 DEF Crew
  <2>2. If(0 # 0, "netrecv_to_unknown") = {}
    BY DEF If
  <2> QED
    BY <2>1, <2>2 DEF Manned, Calm
<1> HIDE DEF Sofar, crew
<1>9. \A k \in T \cap Nat : k + 1 \in T
  BY <1>7
<1> HIDE DEF T
<1>10. n \in T
  BY <1>1, <1>6, <1>9, Induction
<1>11. Tells(Sofar(n), Manned(crew(n)), 0)
  BY <1>1, <1>10 DEF T
<1>12. SubSeq(q, 1, n) = q
  BY <1>3, SubSeqWhole
<1>13. Spawned(cfg).events = one \o q
  BY DEF Spawned, q, names
<1> QED
  BY <1>8, <1>11, <1>12, <1>13 DEF Sofar

LEMMA SpawnedAudited ==
    ASSUME System \notin Services, NEW cfg, Host(cfg)
    PROVE  Audited(cfg, Spawned(cfg).events, Spawned(cfg).sys, {}, {}, {})
<1> DEFINE x == build_actor_system
<1>1. /\ \A s \in Services : x.inbox[s] = <<>>
      /\ x.timers = {} /\ x.wire = {} /\ x.msg_counter = 1
  BY DEF build_actor_system
<1> HIDE DEF x
<1>2. Stocked(x.inbox, <<>>, 0)
  BY <1>1, StockNothing
<1>3. Len(<<>>) = 0
  BY SeqOne
<1>4. Keyed(cfg, NextId(cfg, x), <<>>, {}, {}, {}) /\ Mailed(cfg, NextId(cfg, x), {}, {})
      /\ Traced(cfg, x.timers, <<>>, {}, {}, {}) /\ Noted({}, {}, 0)
  BY <1>1, <1>3 DEF Keyed, Distinct, Mailed, Traced, Noted
<1>5. Books(cfg, x, {} \cup x.wire, <<>>, {}, {}, {}, 0)
  BY <1>1, <1>2, <1>4 DEF Books
<1>6. Tells(Spawned(cfg).events, Calm(<<>>, {}, {}, 0), 0) /\ Spawned(cfg).sys = x
  BY SpawnedTold DEF Spawned, x
<1>7. Apart({}, x.wire)
  BY DEF Apart
<1> QED
  BY <1>5, <1>6, <1>7 DEF Audited

LEMMA BootOneAudited ==
    ASSUME NEW cfg, Host(cfg), NEW acc, Booted(cfg, acc),
           Audited(cfg, acc.events, acc.sys, {}, {}, {}), NEW idx
    PROVE  LET b == BootOne(acc, cfg, idx) IN Audited(cfg, b.events, b.sys, {}, {}, {})
<1> DEFINE x == acc.sys
           id == next_deterministic_msg_id(cfg, x)
           msg == BootMessage(cfg, id, idx)
           z == [inbox |-> x.inbox, state |-> x.state, timers |-> x.timers,
                 msg_counter |-> x.msg_counter + 1,
                 timer_counter |-> x.timer_counter, wire |-> x.wire]
           s == entry_service
           ev == SendEvent(System, s, id, msg)
           b == BootOne(acc, cfg, idx)
           y == b.sys
<1>1. Node(cfg, x) /\ x.wire = {} /\ cfg.node \in Nat
  BY DEF Booted, Host
<1>2. [x EXCEPT !.msg_counter = @ + 1] = z
  <2> HIDE DEF x
  <2>1. [x EXCEPT !.msg_counter = x.msg_counter + 1] = z
    BY <1>1, CounterSet
  <2> QED
    BY <2>1
<1>3. Node(cfg, z)
  BY <1>1, CountedNode DEF Node
<1>4. b = [sys |-> push(z, s, id, msg), events |-> Append(acc.events, ev)]
  BY <1>2 DEF BootOne
<1>5. Root(cfg, id, msg)
  <2>1. msg.from_node = cfg.node /\ msg.from_service = System
        /\ msg.prov = << [origin_node |-> cfg.node, origin_service |-> System,
                          origin_msg |-> id, parent_node |-> cfg.node,
                          parent_msg |-> id, hops |-> 0] >>
    BY DEF BootMessage
  <2> HIDE DEF msg
  <2> DEFINE p == msg.prov[1]
  <2>2. p = [origin_node |-> cfg.node, origin_service |-> System, origin_msg |-> id,
             parent_node |-> cfg.node, parent_msg |-> id, hops |-> 0]
    BY <2>1
  <2>3. msg.prov = <<p>>
    BY <2>1
  <2> HIDE DEF p, id
  <2>4. Provenance(p) /\ p.hops = 0 /\ Rooted(id, msg, p)
    BY <2>1, <2>2 DEF Provenance, Rooted
  <2> QED
    BY <2>1, <2>3, <2>4 DEF Root, Single, p
<1>6. s \in Services /\ s \in Crew /\ System \in Crew
  BY EntryService DEF Crew
<1>7. id = NextId(cfg, x) /\ msg.from_node = cfg.node
  BY DEF NextId, next_deterministic_msg_id, BootMessage
<1>8. ev.kind \in EventKinds \ {"NetRecv"}
  BY DEF SendEvent, EventKinds
<1>9. PICK pr, dr, n : /\ Tells(acc.events, Calm(pr, {}, dr, n), n)
                       /\ Books(cfg, x, {} \cup x.wire, pr, {}, dr, {}, n)
  BY DEF Audited
<1>10. z.inbox = x.inbox /\ z.timers = x.timers /\ z.msg_counter = x.msg_counter + 1
       /\ z.wire = x.wire
  OBVIOUS
<1> HIDE DEF x, id, msg, z, s, ev, b
<1>11. push(z, s, id, msg)
          = [inbox |-> [z.inbox EXCEPT ![s] = Append(@, [id |-> id, msg |-> msg])],
             state |-> z.state, timers |-> z.timers,
             msg_counter |-> z.msg_counter, timer_counter |-> z.timer_counter,
             wire |-> z.wire]
  BY <1>3, PushNode
<1>12. /\ y.inbox = [x.inbox EXCEPT ![s] = Append(@, [id |-> id, msg |-> msg])]
       /\ y.timers = x.timers /\ y.msg_counter = x.msg_counter + 1 /\ y.wire = {}
       /\ b.events = Append(acc.events, ev)
  <2>1. y = push(z, s, id, msg) /\ b.events = Append(acc.events, ev)
    BY <1>4
  <2> HIDE DEF y
  <2>2. /\ y.inbox = [z.inbox EXCEPT ![s] = Append(@, [id |-> id, msg |-> msg])]
        /\ y.timers = z.timers /\ y.msg_counter = z.msg_counter /\ y.wire = z.wire
    BY <1>11, <2>1
  <2> QED
    BY <1>1, <1>10, <2>1, <2>2
<1> DEFINE p2 == Append(pr, Post(s, id, msg))
<1>13. Books(cfg, y, {} \cup y.wire, p2, {}, dr, {}, n)
  <2>1. Books(cfg, x, {}, pr, {}, dr, {}, n)
    BY <1>1, <1>9
  <2>2. y.inbox = [x.inbox EXCEPT ![s] = Append(@, [id |-> id, msg |-> msg])]
    BY <1>12
  <2>3. y.timers = x.timers
    BY <1>12
  <2>4. y.msg_counter = x.msg_counter + 1
    BY <1>12
  <2> HIDE DEF y
  <2>5. Books(cfg, y, {}, Append(pr, Post(s, id, msg)), {}, dr, {}, n)
    BY <1>1, <1>5, <1>6, <1>7, <2>1, <2>2, <2>3, <2>4, BooksAdd
  <2>6. {} \cup y.wire = {}
    BY <1>12
  <2> QED
    BY <2>5, <2>6
<1>14. Tells(Append(acc.events, ev), Calm(p2, {}, dr, n), n)
  <2>1. Tells(Append(acc.events, ev), VerifyEvent(Calm(pr, {}, dr, n), ev), n)
    BY <1>8, <1>9, TellsMore
  <2>2. VerifyEvent(Calm(pr, {}, dr, n), ev) = Calm(p2, {}, dr, n)
    BY <1>6, SendVerified DEF ev
  <2> QED
    BY <2>1, <2>2
<1> HIDE DEF p2
<1>15. Audited(cfg, b.events, y, {}, {}, {})
  <2>1. Apart({}, y.wire)
    BY DEF Apart
  <2> QED
    BY <1>12, <1>13, <1>14, <2>1 DEF Audited
<1> QED
  BY <1>15 DEF b

LEMMA StartupAudited ==
    ASSUME System \notin Services, NEW cfg, Host(cfg), Boots(cfg) \in Nat
    PROVE  Audited(cfg, Startup(cfg).events, Startup(cfg).sys, {}, {}, {})
<1> DEFINE n == Boots(cfg)
           q == [i \in 1..n |-> i]
           Fine(a) == Booted(cfg, a) /\ Audited(cfg, a.events, a.sys, {}, {}, {})
<1>1. PICK f : BootsBy(f, n, Spawned(cfg), cfg, q) /\ Startup(cfg) = f[n]
  BY StartupRun
<1> HIDE DEF n, q
<1>2. n \in Nat
  BY DEF n
<1> DEFINE T == {k \in Nat : k <= n => Fine(f[k])}
<1>3. 0 \in T
  <2>1. Fine(Spawned(cfg))
    BY SpawnedNode, SpawnedAudited
  <2> QED
    BY <1>1, <2>1 DEF BootsBy
<1>4. ASSUME NEW k \in T, k + 1 <= n PROVE Fine(f[k + 1])
  <2>1. k \in Nat /\ Fine(f[k]) /\ k + 1 \in 1..n /\ (k + 1) - 1 = k
    BY <1>2, <1>4
  <2>2. f[k + 1] = BootOne(f[k], cfg, q[k + 1])
    BY <1>1, <2>1 DEF BootsBy
  <2> QED
    BY <2>1, <2>2, BootOneNode, BootOneAudited
<1> HIDE DEF Fine
<1>5. \A k \in T \cap Nat : k + 1 \in T
  BY <1>4
<1> HIDE DEF T
<1>6. n \in T
  BY <1>2, <1>3, <1>5, Induction
<1>7. Fine(f[n])
  BY <1>2, <1>6 DEF T
<1> QED
  BY <1>1, <1>7 DEF Fine

------------------------------------------------------------------------------
(***************************************************************************)
(* What the verifier has once said it does not take back: of the beginning *)
(* of a trace it says no more than of the whole, but what it misses at the *)
(* end.                                                                    *)
(***************************************************************************)
IsVerifier(v) ==
    v = Verifier(v.spawned, v.produced, v.lineage, v.dropped, v.timer, v.effect, v.problems)

Says(v, w) == IsVerifier(w) /\ v.problems \subseteq w.problems

LEMMA SaysOn ==
    ASSUME NEW u, NEW v, NEW w, Says(u, v), Says(v, w)
    PROVE  Says(u, w)
BY DEF Says

LEMMA SaysSets ==
    ASSUME NEW v, IsVerifier(v)
    PROVE  /\ Says(v, v)
           /\ \A u : Says(v, [v EXCEPT !.spawned = u]) /\ Says(v, [v EXCEPT !.produced = u])
           /\ \A u : Says(v, [v EXCEPT !.lineage = u]) /\ Says(v, [v EXCEPT !.dropped = u])
           /\ \A u : Says(v, [v EXCEPT !.timer = u]) /\ Says(v, [v EXCEPT !.effect = u])
           /\ \A u : Says(v, Report(v, u))
<1>1. PICK sp, pr, li, dr, ti, ef, pb : v = Verifier(sp, pr, li, dr, ti, ef, pb)
  BY DEF IsVerifier
<1>2. \A a, b, c, d, f, g, h : /\ IsVerifier(Verifier(a, b, c, d, f, g, h))
                               /\ Verifier(a, b, c, d, f, g, h).problems = h
  BY DEF IsVerifier, Verifier
<1>3. v.problems = pb
  BY <1>1, <1>2
<1>5. \A u : Report(v, u) = Verifier(sp, pr, li, dr, ti, ef, pb \cup u)
  BY <1>1, Reported
<1>6. \A a, b, c, d, f, g, h : pb \subseteq h => Says(v, Verifier(a, b, c, d, f, g, h))
  BY <1>2, <1>3 DEF Says
<1>7. /\ \A u : Says(v, [v EXCEPT !.spawned = u]) /\ Says(v, [v EXCEPT !.produced = u])
      /\ \A u : Says(v, [v EXCEPT !.lineage = u]) /\ Says(v, [v EXCEPT !.dropped = u])
      /\ \A u : Says(v, [v EXCEPT !.timer = u]) /\ Says(v, [v EXCEPT !.effect = u])
  <2>1. ASSUME NEW u PROVE Says(v, [v EXCEPT !.spawned = u])
    <3> DEFINE w == [v EXCEPT !.spawned = u]
    <3>1. w = Verifier(u, pr, li, dr, ti, ef, pb)
      BY <1>1, VerifierSets
    <3> HIDE DEF w
    <3>2. Says(v, w)
      BY <1>6, <3>1
    <3> QED
      BY <3>2 DEF w
  <2>2. ASSUME NEW u PROVE Says(v, [v EXCEPT !.produced = u])
    <3> DEFINE w == [v EXCEPT !.produced = u]
    <3>1. w = Verifier(sp, u, li, dr, ti, ef, pb)
      BY <1>1, VerifierSets
    <3> HIDE DEF w
    <3>2. Says(v, w)
      BY <1>6, <3>1
    <3> QED
      BY <3>2 DEF w
  <2>3. ASSUME NEW u PROVE Says(v, [v EXCEPT !.lineage = u])
    <3> DEFINE w == [v EXCEPT !.lineage = u]
    <3>1. w = Verifier(sp, pr, u, dr, ti, ef, pb)
      BY <1>1, VerifierSets
    <3> HIDE DEF w
    <3>2. Says(v, w)
      BY <1>6, <3>1
    <3> QED
      BY <3>2 DEF w
  <2>4. ASSUME NEW u PROVE Says(v, [v EXCEPT !.dropped = u])
    <3> DEFINE w == [v EXCEPT !.dropped = u]
    <3>1. w = Verifier(sp, pr, li, u, ti, ef, pb)
      BY <1>1, VerifierSets
    <3> HIDE DEF w
    <3>2. Says(v, w)
      BY <1>6, <3>1
    <3> QED
      BY <3>2 DEF w
  <2>5. ASSUME NEW u PROVE Says(v, [v EXCEPT !.timer = u])
    <3> DEFINE w == [v EXCEPT !.timer = u]
    <3>1. w = Verifier(sp, pr, li, dr, u, ef, pb)
      BY <1>1, VerifierSets
    <3> HIDE DEF w
    <3>2. Says(v, w)
      BY <1>6, <3>1
    <3> QED
      BY <3>2 DEF w
  <2>6. ASSUME NEW u PROVE Says(v, [v EXCEPT !.effect = u])
    <3> DEFINE w == [v EXCEPT !.effect = u]
    <3>1. w = Verifier(sp, pr, li, dr, ti, u, pb)
      BY <1>1, VerifierSets
    <3> HIDE DEF w
    <3>2. Says(v, w)
      BY <1>6, <3>1
    <3> QED
      BY <3>2 DEF w
  <2> QED
    BY <2>1, <2>2, <2>3, <2>4, <2>5, <2>6
<1>8. Says(v, v) /\ \A u : Says(v, Report(v, u))
  BY <1>1, <1>5, <1>6
<1> QED
  BY <1>7, <1>8

LEMMA SaysPayload ==
    ASSUME NEW v, IsVerifier(v), NEW ev, NEW msg
    PROVE  Says(v, verify_payload_lineage(v, ev, msg))
<1>1. CASE msg.prov = <<>>
  <2>1. verify_payload_lineage(v, ev, msg) = Report(v, {"no_provenance"})
    BY <1>1 DEF verify_payload_lineage
  <2> QED
    BY <2>1, SaysSets
<1>2. CASE msg.prov # <<>>
  <2>1. \E u, found : verify_payload_lineage(v, ev, msg) = Report([v EXCEPT !.lineage = u], found)
    BY <1>2 DEF verify_payload_lineage
  <2>2. PICK u, found : verify_payload_lineage(v, ev, msg)
                          = Report([v EXCEPT !.lineage = u], found)
    BY <2>1
  <2> DEFINE w == [v EXCEPT !.lineage = u]
  <2>3. Says(v, w)
    BY SaysSets
  <2> HIDE DEF w
  <2>4. Says(w, Report(w, found))
    BY <2>3, SaysSets DEF Says
  <2> QED
    BY <2>2, <2>3, <2>4, SaysOn DEF w
<1> QED
  BY <1>1, <1>2

LEMMA SaysDeliver ==
    ASSUME NEW v, IsVerifier(v), NEW ev
    PROVE  Says(v, OnDeliver(v, ev))
<1> DEFINE known == Report(v, If(Unknown(v, ev.to), "deliver_to_unknown"))
<1>1. Says(v, known)
  BY SaysSets
<1>2. \E done : OnDeliver(v, ev) = [done EXCEPT !.effect = <<ev>>] /\ Says(known, done)
  <2> DEFINE queue == {i \in DOMAIN v.produced : /\ v.produced[i].to = ev.to
                                                 /\ v.produced[i].id = ev.id}
             taken == CHOOSE i \in queue : \A j \in queue : i <= j
             rest == [known EXCEPT !.produced = RemoveAt(@, taken)]
             paid == verify_payload_lineage(rest, ev, v.produced[taken].msg)
             lone == Report(known, {"deliver_without_send"})
  <2>1. OnDeliver(v, ev) = [(IF queue = {} THEN lone ELSE paid) EXCEPT !.effect = <<ev>>]
    BY DEF OnDeliver
  <2> HIDE DEF queue, taken, known
  <2>2. Says(known, lone)
    BY <1>1, SaysSets DEF Says
  <2>3. Says(known, rest)
    BY <1>1, SaysSets DEF Says
  <2> HIDE DEF rest
  <2>4. Says(rest, paid)
    BY <2>3, SaysPayload DEF Says
  <2>5. Says(known, paid)
    BY <2>3, <2>4, SaysOn
  <2> HIDE DEF lone, paid
  <2> DEFINE done == IF queue = {} THEN lone ELSE paid
  <2>6. Says(known, done)
    BY <2>2, <2>5
  <2> HIDE DEF done
  <2> QED
    BY <2>1, <2>6 DEF done
<1>3. PICK done : OnDeliver(v, ev) = [done EXCEPT !.effect = <<ev>>] /\ Says(known, done)
  BY <1>2
<1> HIDE DEF known
<1>4. Says(done, [done EXCEPT !.effect = <<ev>>])
  BY <1>3, SaysSets DEF Says
<1> QED
  BY <1>1, <1>3, <1>4, SaysOn

LEMMA SaysEvent ==
    ASSUME NEW v, IsVerifier(v), NEW ev, ev.kind \in EventKinds
    PROVE  Says(v, OnEvent(v, ev))
<1>1. CASE ev.kind = "Spawn"
  <2>1. \E u, found : OnEvent(v, ev) = Report([v EXCEPT !.spawned = u], found)
    BY <1>1 DEF OnEvent
  <2>2. PICK u, found : OnEvent(v, ev) = Report([v EXCEPT !.spawned = u], found)
    BY <2>1
  <2> DEFINE w == [v EXCEPT !.spawned = u]
  <2>3. Says(v, w)
    BY SaysSets
  <2> HIDE DEF w
  <2>4. Says(w, Report(w, found))
    BY <2>3, SaysSets DEF Says
  <2> QED
    BY <2>2, <2>3, <2>4, SaysOn DEF w
<1>2. CASE ev.kind \in {"Send", "NetRecv"}
  <2>1. \E u, found : OnEvent(v, ev) = Report([v EXCEPT !.produced = u], found)
    BY <1>2 DEF OnEvent, Produce
  <2>2. PICK u, found : OnEvent(v, ev) = Report([v EXCEPT !.produced = u], found)
    BY <2>1
  <2> DEFINE w == [v EXCEPT !.produced = u]
  <2>3. Says(v, w)
    BY SaysSets
  <2> HIDE DEF w
  <2>4. Says(w, Report(w, found))
    BY <2>3, SaysSets DEF Says
  <2> QED
    BY <2>2, <2>3, <2>4, SaysOn DEF w
<1>3. CASE ev.kind = "Deliver"
  <2>1. OnEvent(v, ev) = OnDeliver(v, ev)
    BY <1>3 DEF OnEvent
  <2> QED
    BY <2>1, SaysDeliver
<1>4. CASE ev.kind \in {"NetSend", "Log"}
  <2>1. OnEvent(v, ev) = Report(v, If(Unknown(v, ev.from), "emit_by_unknown"))
    BY <1>4 DEF OnEvent
  <2> QED
    BY <2>1, SaysSets
<1>5. CASE ev.kind = "EffectObserved"
  <2>1. \E found : OnEvent(v, ev) = Report([v EXCEPT !.effect = <<>>], found)
    BY <1>5 DEF OnEvent, OnEffect
  <2>2. PICK found : OnEvent(v, ev) = Report([v EXCEPT !.effect = <<>>], found)
    BY <2>1
  <2> DEFINE w == [v EXCEPT !.effect = <<>>]
  <2>3. Says(v, w)
    BY SaysSets
  <2> HIDE DEF w
  <2>4. Says(w, Report(w, found))
    BY <2>3, SaysSets DEF Says
  <2> QED
    BY <2>2, <2>3, <2>4, SaysOn DEF w
<1>6. CASE ev.kind = "Drop"
  <2>1. \E u : OnEvent(v, ev) = [v EXCEPT !.dropped = u]
    BY <1>6 DEF OnEvent
  <2>2. PICK u : OnEvent(v, ev) = [v EXCEPT !.dropped = u]
    BY <2>1
  <2>3. Says(v, [v EXCEPT !.dropped = u])
    BY SaysSets
  <2> QED
    BY <2>2, <2>3
<1>7. CASE ev.kind = "TimerFired"
  <2>1. \E u : OnEvent(v, ev) = [v EXCEPT !.timer = u]
    BY <1>7 DEF OnEvent
  <2>2. PICK u : OnEvent(v, ev) = [v EXCEPT !.timer = u]
    BY <2>1
  <2>3. Says(v, [v EXCEPT !.timer = u])
    BY SaysSets
  <2> QED
    BY <2>2, <2>3
<1> QED
  BY <1>1, <1>2, <1>3, <1>4, <1>5, <1>6, <1>7 DEF EventKinds, Observations

LEMMA SaysVerify ==
    ASSUME NEW v, IsVerifier(v), NEW ev, ev.kind \in EventKinds
    PROVE  Says(v, VerifyEvent(v, ev))
<1> DEFINE w == ExpectEffect(v, ev)
           z == ExpectTimerEmit(w, ev)
<1>1. Says(v, w)
  <2> DEFINE u == [v EXCEPT !.effect = <<>>]
  <2>1. Says(v, u) /\ Says(v, v)
    BY SaysSets
  <2>2. w \in {v, Report(u, {"deliver_without_effect"})}
    BY DEF ExpectEffect
  <2> HIDE DEF u
  <2>3. Says(u, Report(u, {"deliver_without_effect"}))
    BY <2>1, SaysSets DEF Says
  <2> QED
    BY <2>1, <2>2, <2>3, SaysOn
<1> HIDE DEF w
<1>2. Says(w, z)
  <2> DEFINE u == [w EXCEPT !.timer = <<>>]
  <2>1. IsVerifier(w)
    BY <1>1 DEF Says
  <2>2. Says(w, u) /\ Says(w, w)
    BY <2>1, SaysSets
  <2>3. \E found : z \in {w, Report(u, found)}
    BY DEF ExpectTimerEmit
  <2>4. PICK found : z \in {w, Report(u, found)}
    BY <2>3
  <2> HIDE DEF u
  <2>5. Says(u, Report(u, found))
    BY <2>2, SaysSets DEF Says
  <2> QED
    BY <2>2, <2>4, <2>5, SaysOn
<1> HIDE DEF z
<1>3. Says(z, OnEvent(z, ev))
  BY <1>2, SaysEvent DEF Says
<1>4. Says(v, OnEvent(v, ev)) /\ Says(v, OnEvent(z, ev))
  BY <1>1, <1>2, <1>3, SaysEvent, SaysOn
<1>5. VerifyEvent(v, ev) \in {OnEvent(v, ev), OnEvent(z, ev)}
  BY DEF VerifyEvent, w, z
<1> QED
  BY <1>4, <1>5

LEMMA PrefixTold ==
    ASSUME NEW e, NEW v, NEW n, Tells(e, v, n), NEW k \in 0..Len(e)
    PROVE  \E w, c : Tells(SubSeq(e, 1, k), w, c) /\ w.problems \subseteq v.problems
<1> DEFINE l == Len(e)
           g == SubSeq(e, 1, k)
           c == Cardinality(Strangers(g))
<1>1. IsSeq(e) /\ l \in Nat /\ \A i \in 1..l : e[i].kind \in EventKinds
  BY SeqLen DEF Tells
<1>2. PICK run : VerifiesBy(run, e) /\ run[l] = v
  BY DEF Tells
<1>3. k \in Nat /\ k <= l
  BY <1>1
<1>4. IsSeq(g) /\ Len(g) = k /\ \A i \in 1..k : g[i] = e[i] /\ i \in 1..l
  BY <1>1, <1>3, SeqPrefix
<1> HIDE DEF l, g
<1>5. c \in Nat
  <2>1. IsFiniteSet(1..k) /\ Strangers(g) \subseteq 1..k
    BY <1>3, <1>4, FS_Interval DEF Strangers
  <2> QED
    BY <2>1, FS_Subset, FS_CardinalityType
<1>6. VerifiesBy(run, g)
  <2>1. \A i \in 1..k : run[i] = VerifyEvent(run[i - 1], e[i])
    BY <1>2, <1>4 DEF VerifiesBy, l
  <2> QED
    BY <1>2, <1>4, <2>1 DEF VerifiesBy
<1>7. Tells(g, run[k], c)
  BY <1>1, <1>4, <1>5, <1>6 DEF Tells
<1> DEFINE Kept(j) == IsVerifier(run[j]) /\ (k <= j => run[k].problems \subseteq run[j].problems)
           T == {j \in Nat : j <= l => Kept(j)}
<1>8. 0 \in T
  <2>1. run[0] = VerifyInit /\ IsVerifier(VerifyInit)
    BY <1>2 DEF VerifiesBy, VerifyInit, IsVerifier, Verifier
  <2>2. k <= 0 => k = 0
    BY <1>3
  <2> QED
    BY <2>1, <2>2
<1>9. ASSUME NEW j \in T, j + 1 <= l PROVE Kept(j + 1)
  <2>1. j \in Nat /\ j <= l /\ j + 1 \in 1..l /\ (j + 1) - 1 = j
    BY <1>1, <1>9
  <2>2. Kept(j)
    BY <2>1
  <2>3. run[j + 1] = VerifyEvent(run[j], e[j + 1]) /\ e[j + 1].kind \in EventKinds
    BY <1>1, <1>2, <2>1 DEF VerifiesBy, l
  <2>4. Says(run[j], run[j + 1])
    BY <2>2, <2>3, SaysVerify
  <2>5. k <= j + 1 => k <= j \/ k = j + 1
    BY <1>3, <2>1
  <2> QED
    BY <2>2, <2>4, <2>5 DEF Says
<1> HIDE DEF Kept
<1>10. \A j \in T \cap Nat : j + 1 \in T
  BY <1>9
<1> HIDE DEF T
<1>11. l \in T
  BY <1>1, <1>8, <1>10, Induction
<1>12. run[k].problems \subseteq v.problems
  BY <1>1, <1>2, <1>3, <1>11 DEF T, Kept
<1> QED
  BY <1>7, <1>12 DEF g
===============================================================================
