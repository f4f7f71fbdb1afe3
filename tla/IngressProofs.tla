---------------------------- MODULE IngressProofs ----------------------------
(***************************************************************************)
(* Proofs about the inbound path, for every set of envelopes, every fault  *)
(* configuration and every number of steps.                                *)
(***************************************************************************)
EXTENDS Ingress, TLAPS, SequenceTheorems, WellFoundedInduction

------------------------------------------------------------------------------
(* A non-empty set of naturals has a least element. *)
LEMMA LeastNat ==
    ASSUME NEW T, T \subseteq Nat, T # {}
    PROVE  \E x \in T : \A y \in T : x <= y
<1> DEFINE R == {p \in Nat \X Nat : p[1] < p[2]}
<1>1. IsWellFoundedOn(R, Nat)
  BY NatLessThanWellFounded DEF OpToRel
<1>2. PICK x \in T : \A y \in T : ~ (<<y, x>> \in R)
  BY <1>1, WFMin, Zenon
<1>3. \A y \in T : ~ (y < x)
  BY <1>2
<1> QED
  BY <1>3

(* policy_for_step returns a policy of the configuration. *)
LEMMA PolicyOfConfig ==
    ASSUME NEW s \in Nat
    PROVE  /\ policy_for_step(Cfg, s) \in FaultPolicy
           /\ policy_for_step(Cfg, s).delay_steps <= MaxDelay
<1> DEFINE active == {i \in DOMAIN Cfg.phases : is_active(Cfg.phases[i], s)}
           last == CHOOSE i \in active : \A j \in active : j <= i
<1>1. Cfg.phases \in Seq(FaultPhase) /\ Cfg.base \in FaultPolicy
  BY CfgAssumption DEF FaultConfig
<1>2. CASE active = {}
  BY <1>1, <1>2, DelayAssumption DEF policy_for_step
<1>3. CASE active # {}
  <2> DEFINE n == Len(Cfg.phases)
             T == {n - i : i \in active}
  <2>1. n \in Nat /\ active \subseteq 1..n
    BY <1>1
  <2>2. T \subseteq Nat /\ T # {}
    <3>1. \A i \in active : n - i \in Nat
      BY <2>1
    <3> QED
      BY <1>3, <3>1
  <2>3. PICK x \in T : \A y \in T : x <= y
    BY <2>2, LeastNat
  <2>4. PICK k \in active : x = n - k
    OBVIOUS
  <2>5. \A j \in active : j <= k
    <3> TAKE j \in active
    <3>1. n - k <= n - j
      BY <2>3, <2>4
    <3> QED
      BY <2>1, <3>1
  <2>6. last \in active
    BY <2>5, Zenon
  <2>7. policy_for_step(Cfg, s) = Cfg.phases[last].policy
    BY <1>3 DEF policy_for_step
  <2> HIDE DEF last
  <2>8. Cfg.phases[last] \in FaultPhase
    BY <1>1, <2>6
  <2>9. Cfg.phases[last].policy.delay_steps <= MaxDelay
    BY <2>6, DelayAssumption
  <2> QED
    BY <2>7, <2>8, <2>9 DEF FaultPhase
<1> QED
  BY <1>2, <1>3

------------------------------------------------------------------------------
(* Facts about queues of envelopes.                                        *)

(* Concatenation: the envelopes of both parts, distinct if they are        *)
(* distinct in each part and the parts share none.                         *)
LEMMA ConcatEnvs ==
    ASSUME NEW S, NEW s \in Seq(S), NEW t \in Seq(S)
    PROVE  /\ EnvsOf(s \o t) = EnvsOf(s) \cup EnvsOf(t)
           /\ Distinct(s) /\ Distinct(t) /\ EnvsOf(s) \cap EnvsOf(t) = {}
                => Distinct(s \o t)
<1> DEFINE u == s \o t
<1>1. /\ u \in Seq(S) /\ Len(u) = Len(s) + Len(t)
      /\ DOMAIN u = 1..(Len(s) + Len(t))
      /\ DOMAIN s = 1..Len(s) /\ DOMAIN t = 1..Len(t)
      /\ Len(s) \in Nat /\ Len(t) \in Nat
  BY ConcatProperties
<1>a. \A i \in 1..(Len(s) + Len(t)) :
         u[i] = IF i <= Len(s) THEN s[i] ELSE t[i - Len(s)]
  BY ConcatProperties
<1> HIDE DEF u
<1>2. \A i \in DOMAIN s : i \in DOMAIN u /\ u[i] = s[i]
  BY <1>1, <1>a
<1>3. \A i \in DOMAIN t : Len(s) + i \in DOMAIN u /\ u[Len(s) + i] = t[i]
  <2> TAKE i \in DOMAIN t
  <2>1. Len(s) + i \in 1..(Len(s) + Len(t)) /\ ~(Len(s) + i <= Len(s))
        /\ Len(s) + i - Len(s) = i
    BY <1>1
  <2> QED
    BY <1>1, <1>a, <2>1
<1>4. \A i \in DOMAIN u : \/ i \in DOMAIN s /\ u[i] = s[i]
                          \/ i - Len(s) \in DOMAIN t /\ u[i] = t[i - Len(s)]
  BY <1>1, <1>a
<1>5. EnvsOf(u) = EnvsOf(s) \cup EnvsOf(t)
  BY <1>2, <1>3, <1>4 DEF EnvsOf
<1>6. ASSUME Distinct(s), Distinct(t), EnvsOf(s) \cap EnvsOf(t) = {}
      PROVE  Distinct(u)
  <2> SUFFICES ASSUME NEW i \in DOMAIN u, NEW j \in DOMAIN u,
                      u[i].env = u[j].env
               PROVE  i = j
      BY DEF Distinct
  <2>1. CASE i \in DOMAIN s /\ u[i] = s[i] /\ j \in DOMAIN s /\ u[j] = s[j]
    BY <1>6, <2>1 DEF Distinct
  <2>2. CASE /\ i - Len(s) \in DOMAIN t /\ u[i] = t[i - Len(s)]
             /\ j - Len(s) \in DOMAIN t /\ u[j] = t[j - Len(s)]
    <3>1. i - Len(s) = j - Len(s)
      BY <1>6, <2>2 DEF Distinct
    <3> QED
      BY <1>1, <3>1
  <2>3. CASE /\ i \in DOMAIN s /\ u[i] = s[i]
             /\ j - Len(s) \in DOMAIN t /\ u[j] = t[j - Len(s)]
    BY <1>6, <2>3 DEF EnvsOf
  <2>4. CASE /\ j \in DOMAIN s /\ u[j] = s[j]
             /\ i - Len(s) \in DOMAIN t /\ u[i] = t[i - Len(s)]
    BY <1>6, <2>4 DEF EnvsOf
  <2> QED
    BY <1>4, <2>1, <2>2, <2>3, <2>4
<1> QED
  BY <1>5, <1>6 DEF u

(* Reversal keeps the envelopes and their distinctness. *)
LEMMA ReverseEnvs ==
    ASSUME NEW S, NEW s \in Seq(S)
    PROVE  /\ Reverse(s) \in Seq(S)
           /\ Len(Reverse(s)) = Len(s)
           /\ DOMAIN Reverse(s) = 1..Len(s)
           /\ \A i \in 1..Len(s) : Reverse(s)[i] = s[Len(s) - i + 1]
           /\ EnvsOf(Reverse(s)) = EnvsOf(s)
           /\ Distinct(s) => Distinct(Reverse(s))
<1> DEFINE r == Reverse(s)
           n == Len(s)
<1>1. /\ r \in Seq(S) /\ Len(r) = n /\ DOMAIN r = 1..n
      /\ \A i \in 1..n : r[i] = s[n - i + 1]
      /\ n \in Nat /\ DOMAIN s = 1..n
  BY DEF Reverse
<1>2. \A i \in 1..n : n - i + 1 \in 1..n /\ n - (n - i + 1) + 1 = i
  BY <1>1
<1>3. EnvsOf(r) = EnvsOf(s)
  <2>1. \A i \in DOMAIN r : n - i + 1 \in DOMAIN s /\ r[i] = s[n - i + 1]
    BY <1>1, <1>2
  <2>2. \A i \in DOMAIN s : n - i + 1 \in DOMAIN r /\ s[i] = r[n - i + 1]
    BY <1>1, <1>2
  <2> QED
    BY <2>1, <2>2 DEF EnvsOf
<1>4. ASSUME Distinct(s) PROVE Distinct(r)
  <2> SUFFICES ASSUME NEW i \in 1..n, NEW j \in 1..n, r[i].env = r[j].env
               PROVE  i = j
      BY <1>1 DEF Distinct
  <2>1. s[n - i + 1].env = s[n - j + 1].env
    BY <1>1
  <2>2. n - i + 1 = n - j + 1
    BY SMTT(60), ZenonT(60), <1>1, <1>2, <1>4, <2>1 DEF Distinct
  <2> QED
    BY <1>1, <2>2
<1> QED
  BY <1>1, <1>3, <1>4

(* Cutting a queue after its n-th envelope. *)
LEMMA SplitEnvs ==
    ASSUME NEW S, NEW s \in Seq(S), NEW n \in 0..Len(s)
    PROVE  LET a == SubSeq(s, 1, n)
               b == SubSeq(s, n + 1, Len(s))
           IN  /\ a \in Seq(S) /\ b \in Seq(S)
               /\ Len(a) = n /\ Len(b) = Len(s) - n
               /\ \A i \in 1..n : a[i] = s[i]
               /\ \A i \in 1..(Len(s) - n) : b[i] = s[n + i]
               /\ EnvsOf(s) = EnvsOf(a) \cup EnvsOf(b)
               /\ Distinct(s) => /\ Distinct(a) /\ Distinct(b)
                                 /\ EnvsOf(a) \cap EnvsOf(b) = {}
<1> DEFINE a == SubSeq(s, 1, n)
           b == SubSeq(s, n + 1, Len(s))
           m == Len(s)
<1>1. m \in Nat /\ n \in Nat /\ n <= m /\ DOMAIN s = 1..m
  OBVIOUS
<1>2. /\ a \in Seq(S) /\ Len(a) = n /\ DOMAIN a = 1..n
      /\ \A i \in 1..n : a[i] = s[i]
  BY <1>1
<1>3. /\ b \in Seq(S) /\ Len(b) = m - n /\ DOMAIN b = 1..(m - n)
      /\ \A i \in 1..(m - n) : b[i] = s[n + i]
  <2>1. n + 1 \in 1..(m + 1) /\ m \in n..m
    BY <1>1
  <2>2. /\ b \in Seq(S)
        /\ Len(b) = IF n + 1 <= m THEN m - (n + 1) + 1 ELSE 0
        /\ \A i \in 1..(m - (n + 1) + 1) : b[i] = s[(n + 1) + i - 1]
    BY <1>1, <2>1, SubSeqProperties
  <2> HIDE DEF b, m
  <2>3. Len(b) = m - n /\ m - (n + 1) + 1 = m - n
    BY <1>1, <2>2
  <2>4. \A i \in 1..(m - n) : (n + 1) + i - 1 = n + i
    BY <1>1
  <2>5. DOMAIN b = 1..(m - n)
    BY <2>2, <2>3
  <2> QED
    BY <2>2, <2>3, <2>4, <2>5
<1> HIDE DEF a, b, m
<1>4. EnvsOf(s) = EnvsOf(a) \cup EnvsOf(b)
  <2>1. \A i \in DOMAIN s : \/ i \in DOMAIN a /\ s[i] = a[i]
                            \/ i - n \in DOMAIN b /\ s[i] = b[i - n]
    BY <1>1, <1>2, <1>3
  <2>2. \A i \in DOMAIN a : i \in DOMAIN s /\ a[i] = s[i]
    BY <1>1, <1>2
  <2>3. \A i \in DOMAIN b : n + i \in DOMAIN s /\ b[i] = s[n + i]
    BY <1>1, <1>3
  <2> QED
    BY <2>1, <2>2, <2>3 DEF EnvsOf
<1>5. ASSUME Distinct(s)
      PROVE  Distinct(a) /\ Distinct(b) /\ EnvsOf(a) \cap EnvsOf(b) = {}
  <2>1. Distinct(a)
    BY <1>1, <1>2, <1>5 DEF Distinct
  <2>2. Distinct(b)
    <3> SUFFICES ASSUME NEW i \in 1..(m - n), NEW j \in 1..(m - n),
                        b[i].env = b[j].env
                 PROVE  i = j
        BY <1>3 DEF Distinct
    <3>1. /\ n + i \in DOMAIN s /\ n + j \in DOMAIN s
          /\ s[n + i].env = s[n + j].env
      BY <1>1, <1>3
    <3>2. n + i = n + j
      BY <1>5, <3>1 DEF Distinct
    <3> QED
      BY <1>1, <3>2
  <2>3. ASSUME NEW i \in 1..n, NEW j \in 1..(m - n), a[i].env = b[j].env
        PROVE  FALSE
    <3>1. /\ i \in DOMAIN s /\ n + j \in DOMAIN s
          /\ s[i].env = s[n + j].env
      BY <1>1, <1>2, <1>3, <2>3
    <3>2. i = n + j
      BY <1>5, <3>1 DEF Distinct
    <3> QED
      BY <1>1, <3>2
  <2> QED
    BY <1>2, <1>3, <2>1, <2>2, <2>3 DEF EnvsOf
<1> QED
  BY <1>2, <1>3, <1>4, <1>5 DEF a, b, m

------------------------------------------------------------------------------
(* Facts about the trace.                                                  *)

Fates(trace) == RecordedIn(trace, "Drop") \cup RecordedIn(trace, "NetRecv")

Neutral == {"FaultPolicy", "Delay", "Reorder"}

(* The events of two pieces of trace, and when their fates stay unique. *)
LEMMA ConcatFates ==
    ASSUME NEW S, NEW t \in Seq(S), NEW x \in Seq(S)
    PROVE  /\ \A k \in {"Drop", "NetRecv"} :
                  RecordedIn(t \o x, k) = RecordedIn(t, k) \cup RecordedIn(x, k)
           /\ UniqueFates(t) /\ UniqueFates(x) /\ Fates(t) \cap Fates(x) = {}
                => UniqueFates(t \o x)
<1> DEFINE u == t \o x
           n == Len(t)
<1>1. /\ n \in Nat /\ Len(x) \in Nat
      /\ DOMAIN u = 1..(n + Len(x)) /\ DOMAIN t = 1..n /\ DOMAIN x = 1..Len(x)
      /\ \A i \in 1..(n + Len(x)) : u[i] = IF i <= n THEN t[i] ELSE x[i - n]
  BY ConcatProperties
<1> HIDE DEF u, n
<1>2. \A i \in DOMAIN t : i \in DOMAIN u /\ u[i] = t[i]
  BY <1>1
<1>3. ASSUME NEW i \in DOMAIN x
      PROVE  n + i \in DOMAIN u /\ u[n + i] = x[i]
  <2>1. n + i \in 1..(n + Len(x)) /\ ~(n + i <= n) /\ (n + i) - n = i
    BY <1>1
  <2> QED
    BY <1>1, <2>1
<1>4. \A i \in DOMAIN u : \/ i \in DOMAIN t /\ u[i] = t[i]
                          \/ i - n \in DOMAIN x /\ u[i] = x[i - n]
  BY <1>1
<1>5. ASSUME NEW k \in {"Drop", "NetRecv"}
      PROVE  RecordedIn(u, k) = RecordedIn(t, k) \cup RecordedIn(x, k)
  <2>1. ASSUME NEW e \in RecordedIn(u, k)
        PROVE  e \in RecordedIn(t, k) \cup RecordedIn(x, k)
    <3>1. PICK i \in DOMAIN u : u[i].kind = k /\ u[i].env = e
      BY <2>1 DEF RecordedIn
    <3> QED
      BY <1>4, <3>1 DEF RecordedIn
  <2>2. ASSUME NEW e \in RecordedIn(t, k) PROVE e \in RecordedIn(u, k)
    BY <1>2, <2>2 DEF RecordedIn
  <2>3. ASSUME NEW e \in RecordedIn(x, k) PROVE e \in RecordedIn(u, k)
    BY <1>3, <2>3 DEF RecordedIn
  <2> QED
    BY <2>1, <2>2, <2>3
<1>6. ASSUME UniqueFates(t), UniqueFates(x), Fates(t) \cap Fates(x) = {}
      PROVE  UniqueFates(u)
  <2> SUFFICES ASSUME NEW i \in DOMAIN u, NEW j \in DOMAIN u,
                      u[i].kind \in {"Drop", "NetRecv"},
                      u[j].kind \in {"Drop", "NetRecv"},
                      u[i].env = u[j].env
               PROVE  i = j
      BY DEF UniqueFates
  <2>1. CASE i \in DOMAIN t /\ u[i] = t[i] /\ j \in DOMAIN t /\ u[j] = t[j]
    BY <1>6, <2>1 DEF UniqueFates
  <2>2. CASE /\ i - n \in DOMAIN x /\ u[i] = x[i - n]
             /\ j - n \in DOMAIN x /\ u[j] = x[j - n]
    <3>1. i - n = j - n
      BY <1>6, <2>2 DEF UniqueFates
    <3> QED
      BY <1>1, <3>1
  <2>3. CASE /\ i \in DOMAIN t /\ u[i] = t[i]
             /\ j - n \in DOMAIN x /\ u[j] = x[j - n]
    <3>1. u[i].env \in Fates(t) /\ u[j].env \in Fates(x)
      BY <2>3 DEF Fates, RecordedIn
    <3> QED
      BY <1>6, <3>1
  <2>4. CASE /\ j \in DOMAIN t /\ u[j] = t[j]
             /\ i - n \in DOMAIN x /\ u[i] = x[i - n]
    <3>1. u[j].env \in Fates(t) /\ u[i].env \in Fates(x)
      BY <2>4 DEF Fates, RecordedIn
    <3> QED
      BY <1>6, <3>1
  <2> QED
    BY <1>4, <2>1, <2>2, <2>3, <2>4
<1> QED
  BY <1>5, <1>6 DEF u

(* A trace only grows. *)
LEMMA RecordsGrow ==
    ASSUME NEW S, NEW t \in Seq(S), NEW x \in Seq(S), NEW k
    PROVE  RecordedIn(t, k) \cup RecordedIn(x, k) \subseteq RecordedIn(t \o x, k)
<1> DEFINE u == t \o x
           n == Len(t)
<1>1. /\ n \in Nat /\ Len(x) \in Nat
      /\ DOMAIN u = 1..(n + Len(x)) /\ DOMAIN t = 1..n /\ DOMAIN x = 1..Len(x)
      /\ \A i \in 1..(n + Len(x)) : u[i] = IF i <= n THEN t[i] ELSE x[i - n]
  BY ConcatProperties
<1> HIDE DEF u, n
<1>2. \A i \in DOMAIN t : i \in DOMAIN u /\ u[i] = t[i]
  BY <1>1
<1>3. ASSUME NEW i \in DOMAIN x
      PROVE  n + i \in DOMAIN u /\ u[n + i] = x[i]
  <2>1. n + i \in 1..(n + Len(x)) /\ ~(n + i <= n) /\ (n + i) - n = i
    BY <1>1
  <2> QED
    BY <1>1, <2>1
<1>4. RecordedIn(t, k) \subseteq RecordedIn(u, k)
  BY <1>2 DEF RecordedIn
<1>5. RecordedIn(x, k) \subseteq RecordedIn(u, k)
  BY <1>3 DEF RecordedIn
<1> QED
  BY <1>4, <1>5 DEF u

(* Policy, Delay and Reorder events settle nothing. *)
LEMMA NeutralFates ==
    ASSUME NEW S, NEW t \in Seq(S), NEW x \in Seq(S),
           \A i \in DOMAIN x : x[i].kind \in Neutral
    PROVE  /\ RecordedIn(t \o x, "Drop") = RecordedIn(t, "Drop")
           /\ RecordedIn(t \o x, "NetRecv") = RecordedIn(t, "NetRecv")
           /\ UniqueFates(t) => UniqueFates(t \o x)
<1>1. RecordedIn(x, "Drop") = {} /\ RecordedIn(x, "NetRecv") = {}
  BY DEF RecordedIn, Neutral
<1>2. UniqueFates(x)
  BY DEF UniqueFates, Neutral
<1>3. /\ RecordedIn(t \o x, "Drop") = RecordedIn(t, "Drop") \cup RecordedIn(x, "Drop")
      /\ RecordedIn(t \o x, "NetRecv") = RecordedIn(t, "NetRecv") \cup RecordedIn(x, "NetRecv")
      /\ UniqueFates(t) /\ UniqueFates(x) /\ Fates(t) \cap Fates(x) = {}
            => UniqueFates(t \o x)
  BY ConcatFates
<1> QED
  BY <1>1, <1>2, <1>3 DEF Fates

(* One more Drop event for an envelope without a fate. *)
LEMMA DropFates ==
    ASSUME NEW t \in Seq(IngressEvent), NEW env \in Local, env \notin Fates(t)
    PROVE  LET u == Append(t, DropEvent(env))
           IN  /\ RecordedIn(u, "Drop") = RecordedIn(t, "Drop") \cup {env}
               /\ RecordedIn(u, "NetRecv") = RecordedIn(t, "NetRecv")
               /\ UniqueFates(t) => UniqueFates(u)
<1> DEFINE x == <<DropEvent(env)>>
<1>1. x \in Seq(IngressEvent) /\ Append(t, DropEvent(env)) = t \o x
  BY AppendIsConcat DEF IngressEvent, DropEvent
<1>2. /\ RecordedIn(x, "Drop") = {env} /\ RecordedIn(x, "NetRecv") = {}
      /\ UniqueFates(x)
  BY DEF RecordedIn, UniqueFates, DropEvent
<1> HIDE DEF x
<1>3. /\ RecordedIn(t \o x, "Drop") = RecordedIn(t, "Drop") \cup RecordedIn(x, "Drop")
      /\ RecordedIn(t \o x, "NetRecv") = RecordedIn(t, "NetRecv") \cup RecordedIn(x, "NetRecv")
      /\ UniqueFates(t) /\ UniqueFates(x) /\ Fates(t) \cap Fates(x) = {}
            => UniqueFates(t \o x)
  BY <1>1, ConcatFates
<1> QED
  BY <1>1, <1>2, <1>3 DEF Fates

(* x is the NetRecv events of a released batch. *)
Receipts(x, out) ==
    /\ x \in Seq(IngressEvent)
    /\ DOMAIN x = DOMAIN out
    /\ \A i \in DOMAIN out : x[i] = NetRecvEvent(out[i].env)

(* The NetRecv events of a released batch of distinct envelopes. *)
LEMMA ReceiveFates ==
    ASSUME NEW t \in Seq(IngressEvent), NEW out \in Seq(Staged), NEW x,
           Receipts(x, out), Distinct(out), Fates(t) \cap EnvsOf(out) = {}
    PROVE  /\ RecordedIn(t \o x, "Drop") = RecordedIn(t, "Drop")
           /\ RecordedIn(t \o x, "NetRecv") = RecordedIn(t, "NetRecv") \cup EnvsOf(out)
           /\ UniqueFates(t) => UniqueFates(t \o x)
<1>1. /\ x \in Seq(IngressEvent) /\ DOMAIN x = DOMAIN out
      /\ \A i \in DOMAIN out : x[i].kind = "NetRecv" /\ x[i].env = out[i].env
  BY DEF Receipts, NetRecvEvent
<1>2. RecordedIn(x, "Drop") = {} /\ RecordedIn(x, "NetRecv") = EnvsOf(out)
  BY <1>1 DEF RecordedIn, EnvsOf
<1>3. UniqueFates(x)
  BY <1>1 DEF UniqueFates, Distinct
<1>4. /\ RecordedIn(t \o x, "Drop") = RecordedIn(t, "Drop") \cup RecordedIn(x, "Drop")
      /\ RecordedIn(t \o x, "NetRecv") = RecordedIn(t, "NetRecv") \cup RecordedIn(x, "NetRecv")
      /\ UniqueFates(t) /\ UniqueFates(x) /\ Fates(t) \cap Fates(x) = {}
            => UniqueFates(t \o x)
  BY <1>1, ConcatFates
<1> QED
  BY <1>2, <1>3, <1>4 DEF Fates

------------------------------------------------------------------------------
(* What each operation of the injector does, on an injector q.             *)

(* q and r differ in their queues and trace only. *)
SamePolicy(q, r) ==
    /\ r.seen_inbound = q.seen_inbound
    /\ r.active_policy = q.active_policy
    /\ r.policy_initialized = q.policy_initialized

(* The trace of r extends that of q by events that settle no fate. *)
NeutralExtension(q, r) ==
    \E x \in Seq(IngressEvent) :
        /\ r.trace = q.trace \o x
        /\ \A i \in DOMAIN x : x[i].kind \in Neutral

(* The envelopes of a chunk of two or more carry Reorder evidence. *)
Evident(buf, trace) ==
    Len(buf) > 1 => EnvsOf(buf) \subseteq RecordedIn(trace, "Reorder")

(* flush_chunk on a buffer no longer than the window empties it. *)
LEMMA FlushChunk ==
    ASSUME NEW q \in Injector, NEW w \in Nat, Len(q.reorder_buf) <= w
    PROVE  LET r == flush_chunk(q, w)
           IN  /\ r \in Injector
               /\ SamePolicy(q, r)
               /\ r.reorder_buf = <<>>
               /\ r.pending = q.pending \o Reverse(q.reorder_buf)
               /\ NeutralExtension(q, r)
               /\ Evident(q.reorder_buf, r.trace)
<1> DEFINE buf   == q.reorder_buf
           len   == Len(buf)
           take  == IF w <= len THEN w ELSE len
           chunk == SubSeq(buf, 1, take)
           x     == [i \in 1..take |-> ReorderEvent(chunk[i].env, w)]
           r     == flush_chunk(q, w)
<1>1. /\ buf \in Seq(Staged) /\ q.pending \in Seq(Staged)
      /\ q.trace \in Seq(IngressEvent)
      /\ len \in Nat
  BY DEF Injector
<1>2. take = len
  BY <1>1
<1>3. chunk = buf /\ SubSeq(buf, take + 1, len) = <<>>
  <2>1. SubSeq(buf, 1, len) = buf
    BY <1>1, SubSeqFull
  <2>2. SubSeq(buf, len + 1, len) = <<>>
    BY <1>1, SubSeqEmpty
  <2> QED
    BY <1>2, <2>1, <2>2
<1>4. \A i \in 1..take : ReorderEvent(chunk[i].env, w) \in IngressEvent
  <2> TAKE i \in 1..take
  <2>1. chunk[i] \in Staged
    BY <1>1, <1>2, <1>3
  <2> QED
    BY <2>1 DEF ReorderEvent, IngressEvent, Staged
<1>5. /\ x \in Seq(IngressEvent)
      /\ \A i \in DOMAIN x : x[i].kind \in Neutral
  BY <1>1, <1>2, <1>4 DEF ReorderEvent, Neutral
<1> DEFINE b == <<>>
           p == q.pending \o Reverse(buf)
           t == IF take > 1 THEN q.trace \o x ELSE q.trace
<1>6. r = [q EXCEPT !.reorder_buf = b, !.pending = p, !.trace = t]
  BY <1>3 DEF flush_chunk
<1>e. Evident(buf, t)
  <2> SUFFICES ASSUME len > 1, NEW i \in DOMAIN buf
               PROVE  buf[i].env \in RecordedIn(t, "Reorder")
      BY DEF Evident, EnvsOf
  <2>1. i \in DOMAIN x /\ x[i].kind = "Reorder" /\ x[i].env = buf[i].env
    BY <1>1, <1>2, <1>3 DEF ReorderEvent
  <2>2. t = q.trace \o x
    BY <1>2
  <2> HIDE DEF x, t
  <2>3. buf[i].env \in RecordedIn(x, "Reorder")
    BY <2>1, Zenon DEF RecordedIn
  <2> QED
    BY <1>1, <1>5, <2>2, <2>3, RecordsGrow
<1> HIDE DEF chunk, take, x, r
<1>7. p \in Seq(Staged) /\ b \in Seq(Staged)
  BY <1>1, ReverseEnvs, ConcatProperties
<1>8. /\ t \in Seq(IngressEvent)
      /\ \E y \in Seq(IngressEvent) : /\ t = q.trace \o y
                                      /\ \A i \in DOMAIN y : y[i].kind \in Neutral
  <2>1. CASE take > 1
    BY <1>1, <1>5, <2>1, ConcatProperties
  <2>2. CASE ~(take > 1)
    <3>1. <<>> \in Seq(IngressEvent) /\ q.trace = q.trace \o <<>> /\ DOMAIN <<>> = {}
      BY <1>1, ConcatEmptySeq
    <3> QED
      BY <1>1, <2>2, <3>1
  <2> QED
    BY <2>1, <2>2
<1> HIDE DEF b, p, t
<1>9. /\ r \in Injector /\ SamePolicy(q, r)
      /\ r.reorder_buf = b /\ r.pending = p /\ r.trace = t
  BY <1>6, <1>7, <1>8 DEF Injector, SamePolicy
<1> QED
  BY <1>8, <1>9, <1>e DEF r, b, p, NeutralExtension

(* The effects of the operations, as relations between injectors. *)
Flushed(q, r) ==
    /\ r.reorder_buf = <<>>
    /\ r.pending = q.pending \o Reverse(q.reorder_buf)
    /\ NeutralExtension(q, r)
    /\ Evident(q.reorder_buf, r.trace)

Pushed(q, r, staged) ==
    /\ NeutralExtension(q, r)
    /\ \/ r.reorder_buf = Append(q.reorder_buf, staged) /\ r.pending = q.pending
       \/ /\ r.pending = Append(q.pending, staged)
          /\ q.reorder_buf = <<>> /\ r.reorder_buf = <<>>

Dropped(q, r, env) ==
    /\ r.reorder_buf = q.reorder_buf /\ r.pending = q.pending
    /\ r.trace = Append(q.trace, DropEvent(env))

WindowOK(q) ==
    q.reorder_buf # <<>> => Len(q.reorder_buf) < q.active_policy.reorder_window

(* An unchanged trace, and one more neutral event. *)
LEMMA NeutralSame ==
    ASSUME NEW q \in Injector, NEW r, r.trace = q.trace
    PROVE  NeutralExtension(q, r)
<1>1. q.trace \in Seq(IngressEvent)
  BY DEF Injector
<1>2. <<>> \in Seq(IngressEvent) /\ q.trace = q.trace \o <<>> /\ DOMAIN <<>> = {}
  BY <1>1, ConcatEmptySeq
<1> QED
  BY <1>2 DEF NeutralExtension

(* So is one appended event that settles no fate. *)
LEMMA NeutralAppend ==
    ASSUME NEW q \in Injector, NEW r, NEW e \in IngressEvent, e.kind \in Neutral,
           r.trace = Append(q.trace, e)
    PROVE  NeutralExtension(q, r) /\ r.trace \in Seq(IngressEvent)
<1>1. q.trace \in Seq(IngressEvent)
  BY DEF Injector
<1> DEFINE x == <<e>>
<1>2. r.trace = q.trace \o x /\ x \in Seq(IngressEvent)
  BY <1>1, AppendIsConcat
<1>3. \A i \in DOMAIN x : x[i].kind \in Neutral
  OBVIOUS
<1>4. r.trace \in Seq(IngressEvent)
  BY <1>1, AppendProperties
<1> HIDE DEF x
<1> QED
  BY <1>2, <1>3, <1>4 DEF NeutralExtension

(* flush_remainder empties a buffer that respects the window, also when it *)
(* returns early for a window of one.                                      *)
LEMMA FlushRemainder ==
    ASSUME NEW q \in Injector, WindowOK(q)
    PROVE  LET r == flush_remainder(q)
           IN  r \in Injector /\ SamePolicy(q, r) /\ Flushed(q, r)
<1> DEFINE w == q.active_policy.reorder_window
           r == flush_remainder(q)
<1>1. /\ q.active_policy \in FaultPolicy /\ w \in Nat
      /\ q.reorder_buf \in Seq(Staged) /\ q.pending \in Seq(Staged)
  BY DEF Injector, FaultPolicy
<1>2. CASE q.reorder_buf = <<>>
  <2>1. r = q
    BY <1>2 DEF flush_remainder, flush_remainder_with_window
  <2>2. Reverse(q.reorder_buf) = <<>>
    <3>1. Reverse(q.reorder_buf) \in Seq(Staged) /\ Len(Reverse(q.reorder_buf)) = 0
      BY <1>1, <1>2, ReverseEnvs
    <3> QED
      BY <3>1, EmptySeq
  <2>3. q.pending = q.pending \o <<>>
    BY <1>1, ConcatEmptySeq
  <2>4. Evident(q.reorder_buf, r.trace)
    BY <1>2 DEF Evident
  <2>5. NeutralExtension(q, r)
    BY <2>1, NeutralSame
  <2> QED
    BY <1>2, <2>1, <2>2, <2>3, <2>4, <2>5 DEF Flushed, SamePolicy
<1>3. CASE q.reorder_buf # <<>>
  <2>1. Len(q.reorder_buf) \in Nat /\ Len(q.reorder_buf) > 0 /\ Len(q.reorder_buf) < w
    BY <1>1, <1>3, EmptySeq DEF WindowOK
  <2>2. r = flush_chunk(q, w)
    BY <1>1, <1>3, <2>1 DEF flush_remainder, flush_remainder_with_window
  <2> HIDE DEF r, w
  <2>3. w \in Nat /\ Len(q.reorder_buf) <= w
    BY <1>1, <2>1
  <2>4. r \in Injector /\ SamePolicy(q, r) /\ Flushed(q, r)
    BY <2>2, <2>3, FlushChunk DEF Flushed
  <2> QED
    BY <2>4 DEF r
<1> QED
  BY <1>2, <1>3

(* sync_policy outside the drain, where the buffer is empty. *)
LEMMA SyncPolicy ==
    ASSUME NEW q \in Injector, q.reorder_buf = <<>>, NEW n \in Nat
    PROVE  LET r == sync_policy(q, Cfg, n)
           IN  /\ r \in Injector
               /\ r.policy_initialized
               /\ r.active_policy = policy_for_step(Cfg, n)
               /\ r.reorder_buf = <<>> /\ r.pending = q.pending
               /\ NeutralExtension(q, r)
<1> DEFINE next == policy_for_step(Cfg, n)
           r == sync_policy(q, Cfg, n)
           e == PolicyEvent(next, n)
           adopted == [q EXCEPT !.active_policy = next, !.policy_initialized = TRUE,
                                !.trace = Append(q.trace, e)]
<1>1. next \in FaultPolicy
  BY PolicyOfConfig
<1> HIDE DEF next
<1>2. flush_remainder(q) = q
  BY DEF flush_remainder, flush_remainder_with_window
<1>3. e \in IngressEvent /\ e.kind \in Neutral
  BY <1>1 DEF PolicyEvent, IngressEvent, Neutral
<1>4. Append(q.trace, e) \in Seq(IngressEvent)
  BY <1>3, AppendProperties DEF Injector
<1>5. r = adopted \/ (r = q /\ q.policy_initialized /\ next = q.active_policy)
  BY <1>2 DEF sync_policy, record_policy_event, next, Injector
<1>6. CASE r = adopted
  <2> DEFINE t == Append(q.trace, e)
  <2>1. t \in Seq(IngressEvent)
    BY <1>4
  <2> HIDE DEF t, r, e
  <2>2. /\ r \in Injector /\ r.policy_initialized /\ r.active_policy = next
        /\ r.reorder_buf = <<>> /\ r.pending = q.pending /\ r.trace = t
    BY <1>1, <1>6, <2>1 DEF Injector, t
  <2> QED
    BY <1>3, <2>2, NeutralAppend DEF t, r, next
<1>7. CASE r = q /\ q.policy_initialized /\ next = q.active_policy
  BY <1>7, NeutralSame DEF next
<1> QED
  BY <1>5, <1>6, <1>7

(* stage appends to the pending queue or to the buffer, and flushes the    *)
(* buffer as soon as it holds a window.                                    *)
LEMMA StageEffect ==
    ASSUME NEW q \in Injector, WindowOK(q), NEW n \in Nat, NEW env \in Local
    PROVE  LET r == stage(q, env, n)
               st == [env |-> env, release_step |-> n + q.active_policy.delay_steps]
           IN  /\ r \in Injector /\ SamePolicy(q, r) /\ WindowOK(r)
               /\ \/ Pushed(q, r, st)
                  \/ \E m \in Injector : Pushed(q, m, st) /\ Flushed(m, r)
<1> DEFINE policy == q.active_policy
           w  == policy.reorder_window
           r  == stage(q, env, n)
           st == [env |-> env, release_step |-> n + policy.delay_steps]
           e  == DelayEvent(env, policy.delay_steps)
           marked == IF policy.delay_steps > 0
                     THEN [q EXCEPT !.trace = Append(q.trace, e)] ELSE q
           pushed == [marked EXCEPT !.reorder_buf = Append(@, st)]
<1>1. /\ policy \in FaultPolicy /\ w \in Nat /\ policy.delay_steps \in Nat
      /\ q.reorder_buf \in Seq(Staged) /\ q.pending \in Seq(Staged)
      /\ q.trace \in Seq(IngressEvent)
  BY DEF Injector, FaultPolicy
<1>2. st \in Staged
  BY <1>1 DEF Staged
<1>3. e \in IngressEvent /\ e.kind \in Neutral
  BY <1>1 DEF DelayEvent, IngressEvent, Neutral
<1>4. r = IF w <= 1 THEN [marked EXCEPT !.pending = Append(@, st)]
          ELSE IF Len(pushed.reorder_buf) >= w THEN flush_chunk(pushed, w) ELSE pushed
  BY DEF stage
<1> HIDE DEF r, st, e
<1>5. /\ marked \in Injector /\ SamePolicy(q, marked)
      /\ marked.reorder_buf = q.reorder_buf /\ marked.pending = q.pending
      /\ NeutralExtension(q, marked)
  <2>1. CASE policy.delay_steps > 0
    <3> DEFINE t == Append(q.trace, e)
    <3>1. t \in Seq(IngressEvent)
      BY <1>1, <1>3, AppendProperties
    <3>2. marked = [q EXCEPT !.trace = t]
      BY <2>1
    <3> HIDE DEF t, marked
    <3>3. /\ marked \in Injector /\ SamePolicy(q, marked) /\ marked.trace = t
          /\ marked.reorder_buf = q.reorder_buf /\ marked.pending = q.pending
      BY <3>1, <3>2 DEF Injector, SamePolicy
    <3> QED
      BY <1>3, <3>3, NeutralAppend DEF t
  <2>2. CASE ~(policy.delay_steps > 0)
    BY <2>2, NeutralSame DEF SamePolicy
  <2> QED
    BY <2>1, <2>2
<1> HIDE DEF marked
<1>6. Append(q.pending, st) \in Seq(Staged) /\ Append(q.reorder_buf, st) \in Seq(Staged)
      /\ Len(Append(q.reorder_buf, st)) = Len(q.reorder_buf) + 1
      /\ Len(q.reorder_buf) \in Nat
  BY <1>1, <1>2, AppendProperties
<1>7. CASE w <= 1
  <2> DEFINE p == Append(q.pending, st)
  <2>1. r = [marked EXCEPT !.pending = p]
    BY <1>4, <1>5, <1>7
  <2>2. p \in Seq(Staged)
    BY <1>6
  <2> HIDE DEF p
  <2>3. /\ r \in Injector /\ SamePolicy(marked, r) /\ r.pending = p
        /\ r.reorder_buf = q.reorder_buf /\ r.trace = marked.trace
    BY <1>5, <2>1, <2>2 DEF Injector, SamePolicy
  <2>4. NeutralExtension(q, r)
    BY <1>5, <2>3 DEF NeutralExtension
  <2>5. SamePolicy(q, r)
    BY <1>5, <2>3 DEF SamePolicy
  <2>6. WindowOK(r)
    BY <2>3, <2>5 DEF WindowOK, SamePolicy
  <2>7. q.reorder_buf = <<>>
    BY <1>1, <1>6, <1>7, EmptySeq DEF WindowOK
  <2>8. Pushed(q, r, st)
    BY <2>3, <2>4, <2>7 DEF Pushed, p
  <2> QED
    BY <2>3, <2>5, <2>6, <2>8 DEF r, st
<1>8. CASE ~(w <= 1)
  <2> DEFINE b == Append(q.reorder_buf, st)
  <2>1. pushed = [marked EXCEPT !.reorder_buf = b]
    BY <1>5
  <2>2. b \in Seq(Staged) /\ Len(b) = Len(q.reorder_buf) + 1
    BY <1>6
  <2> HIDE DEF b, pushed
  <2>3. /\ pushed \in Injector /\ SamePolicy(marked, pushed)
        /\ pushed.reorder_buf = b /\ pushed.pending = q.pending
        /\ pushed.trace = marked.trace
    BY <1>5, <2>1, <2>2 DEF Injector, SamePolicy
  <2>4. SamePolicy(q, pushed) /\ Pushed(q, pushed, st)
    BY <1>5, <2>3 DEF SamePolicy, Pushed, NeutralExtension, b
  <2>5. Len(b) <= w
    <3>1. CASE q.reorder_buf = <<>>
      BY <1>1, <1>8, <2>2, <3>1
    <3>2. CASE q.reorder_buf # <<>>
      BY <1>1, <1>6, <2>2, <3>2 DEF WindowOK
    <3> QED
      BY <3>1, <3>2
  <2>6. CASE Len(b) >= w
    <3>1. r = flush_chunk(pushed, w)
      BY <1>4, <1>8, <2>3, <2>6
    <3>2. r \in Injector /\ SamePolicy(pushed, r) /\ Flushed(pushed, r)
      <4> HIDE DEF w
      <4> QED
        BY <1>1, <2>3, <2>5, <3>1, FlushChunk DEF Flushed
    <3>3. SamePolicy(q, r) /\ WindowOK(r)
      BY <2>4, <3>2 DEF SamePolicy, WindowOK, Flushed
    <3> QED
      BY <2>3, <2>4, <3>2, <3>3 DEF r, st
  <2>7. CASE ~(Len(b) >= w)
    <3>1. r = pushed
      BY <1>4, <1>8, <2>3, <2>7
    <3>2. WindowOK(r)
      BY <1>1, <2>2, <2>3, <2>4, <2>7, <1>6, <3>1 DEF WindowOK, SamePolicy
    <3> QED
      BY <2>3, <2>4, <3>1, <3>2 DEF r, st
  <2> QED
    BY <2>6, <2>7
<1> QED
  BY <1>7, <1>8

(* ingest inside the drain, where the policy of the step is active. *)
LEMMA IngestEffect ==
    ASSUME NEW q \in Injector, WindowOK(q), NEW n \in Nat, NEW env \in Local,
           q.policy_initialized, q.active_policy = policy_for_step(Cfg, n)
    PROVE  LET r == ingest(q, Cfg, env, n)
               st == [env |-> env, release_step |-> n + q.active_policy.delay_steps]
           IN  /\ r \in Injector /\ WindowOK(r)
               /\ r.policy_initialized /\ r.active_policy = q.active_policy
               /\ \/ Dropped(q, r, env)
                  \/ Pushed(q, r, st)
                  \/ \E m \in Injector : Pushed(q, m, st) /\ Flushed(m, r)
<1> DEFINE c == [q EXCEPT !.seen_inbound = q.seen_inbound + 1]
           r == ingest(q, Cfg, env, n)
           st == [env |-> env, release_step |-> n + q.active_policy.delay_steps]
<1>1. sync_policy(q, Cfg, n) = q
  BY DEF sync_policy
<1>2. r = IF drops(c.active_policy, c.seen_inbound)
          THEN [c EXCEPT !.trace = Append(c.trace, DropEvent(env))]
          ELSE stage(c, env, n)
  BY <1>1 DEF ingest
<1>3. /\ c \in Injector /\ c.active_policy = q.active_policy
      /\ c.policy_initialized = q.policy_initialized
      /\ c.reorder_buf = q.reorder_buf /\ c.pending = q.pending
      /\ c.trace = q.trace
  <2> DEFINE k == q.seen_inbound + 1
  <2>1. k \in Nat /\ c = [q EXCEPT !.seen_inbound = k]
    BY DEF Injector
  <2> HIDE DEF c, k
  <2> QED
    BY <2>1 DEF Injector
<1>4. WindowOK(c)
  BY <1>3 DEF WindowOK
<1> HIDE DEF c, r
<1>5. CASE drops(c.active_policy, c.seen_inbound)
  <2> DEFINE t == Append(c.trace, DropEvent(env))
  <2>1. t \in Seq(IngressEvent)
    <3>1. DropEvent(env) \in IngressEvent
      BY DEF DropEvent, IngressEvent
    <3> QED
      BY <1>3, <3>1, AppendProperties DEF Injector
  <2>2. r = [c EXCEPT !.trace = t]
    BY <1>2, <1>5
  <2> HIDE DEF t
  <2>3. /\ r \in Injector /\ r.active_policy = c.active_policy
        /\ r.policy_initialized = c.policy_initialized
        /\ r.reorder_buf = c.reorder_buf /\ r.pending = c.pending /\ r.trace = t
    BY <1>3, <2>1, <2>2 DEF Injector
  <2>4. Dropped(q, r, env) /\ WindowOK(r)
    BY <1>3, <1>4, <2>3 DEF Dropped, WindowOK, t
  <2> QED
    BY <1>3, <2>3, <2>4 DEF r
<1>6. CASE ~drops(c.active_policy, c.seen_inbound)
  <2>1. r = stage(c, env, n)
    BY <1>2, <1>6
  <2>2. st = [env |-> env, release_step |-> n + c.active_policy.delay_steps]
    BY <1>3
  <2> HIDE DEF st
  <2>3. /\ r \in Injector /\ SamePolicy(c, r) /\ WindowOK(r)
        /\ \/ Pushed(c, r, st)
           \/ \E m \in Injector : Pushed(c, m, st) /\ Flushed(m, r)
    BY <1>3, <1>4, <2>1, <2>2, StageEffect
  <2>4. ASSUME NEW m, Pushed(c, m, st) PROVE Pushed(q, m, st)
    BY <1>3, <2>4 DEF Pushed, NeutralExtension
  <2> QED
    BY <1>3, <2>3, <2>4 DEF SamePolicy, r, st
<1> QED
  BY <1>5, <1>6

(* release_due cuts the pending queue before its first blocked envelope:   *)
(* what it takes out is due, and what then comes first is not.             *)
LEMMA ReleaseEffect ==
    ASSUME NEW q \in Injector, NEW n \in Nat
    PROVE  \E c \in 0..Len(q.pending) :
             LET r   == release_due(q, n)
                 out == SubSeq(q.pending, 1, c)
             IN  /\ r \in Injector /\ SamePolicy(q, r)
                 /\ r.reorder_buf = q.reorder_buf
                 /\ r.pending = SubSeq(q.pending, c + 1, Len(q.pending))
                 /\ \E x : Receipts(x, out) /\ r.trace = q.trace \o x
                 /\ \A i \in 1..c : q.pending[i].release_step <= n
                 /\ c < Len(q.pending) => q.pending[c + 1].release_step > n
<1> DEFINE Q == q.pending
           m == Len(Q)
           Good(i) == /\ i = m + 1 \/ Q[i].release_step > n
                      /\ \A j \in 1..(i - 1) : Q[j].release_step <= n
           T == {i \in 1..(m + 1) : i = m + 1 \/ Q[i].release_step > n}
           f == first_blocked(Q, n)
           c == f - 1
           out == SubSeq(Q, 1, c)
           r == release_due(q, n)
<1>1. Q \in Seq(Staged) /\ m \in Nat /\ q.trace \in Seq(IngressEvent)
  BY DEF Injector
<1>2. \A i \in 1..m : Q[i].release_step \in Nat
  <2> TAKE i \in 1..m
  <2>1. Q[i] \in Staged
    BY <1>1
  <2> QED
    BY <2>1 DEF Staged
<1>3. f \in 1..(m + 1) /\ Good(f)
  <2> HIDE DEF m
  <2>1. T \subseteq Nat /\ m + 1 \in T
    BY <1>1
  <2> HIDE DEF T
  <2>2. PICK x \in T : \A y \in T : x <= y
    BY <2>1, LeastNat
  <2>3. x \in 1..(m + 1) /\ (x = m + 1 \/ Q[x].release_step > n)
    BY <2>2 DEF T
  <2>4. ASSUME NEW j \in 1..(x - 1) PROVE Q[j].release_step <= n
    <3>1. j \in 1..m /\ j \in 1..(m + 1) /\ ~(x <= j) /\ j # m + 1
      BY <1>1, <2>3
    <3>2. j \notin T
      BY <2>2, <3>1
    <3>3. ~(Q[j].release_step > n)
      BY <3>1, <3>2 DEF T
    <3> QED
      BY <1>2, <3>1, <3>3
  <2>5. \E i \in 1..(m + 1) : Good(i)
    BY <2>3, <2>4
  <2>6. f = CHOOSE i \in 1..(m + 1) : Good(i)
    BY DEF first_blocked, m
  <2> HIDE DEF Good, f
  <2> QED
    BY <2>5, <2>6
<1>4. c \in 0..m /\ c + 1 = f
  <2> HIDE DEF f, m
  <2> QED
    BY <1>1, <1>3
<1>5. /\ \A i \in 1..c : Q[i].release_step <= n
      /\ c < m => Q[c + 1].release_step > n
  <2> HIDE DEF f, m
  <2> QED
    BY <1>1, <1>3, <1>4
<1>6. out \in Seq(Staged) /\ Len(out) = c /\ SubSeq(Q, c + 1, m) \in Seq(Staged)
  <2> HIDE DEF c
  <2> QED
    BY <1>1, <1>4, SplitEnvs
<1> DEFINE x == [i \in 1..Len(out) |-> NetRecvEvent(out[i].env)]
           p == SubSeq(Q, c + 1, m)
           t == q.trace \o x
<1>7. r = [q EXCEPT !.pending = SubSeq(Q, Len(out) + 1, m), !.trace = t]
  BY DEF release_due, released
<1>8. r = [q EXCEPT !.pending = p, !.trace = t]
  <2> HIDE DEF out, c, r
  <2> QED
    BY <1>6, <1>7
<1>9. x \in Seq(IngressEvent) /\ Receipts(x, out)
  <2> HIDE DEF out
  <2>1. \A i \in 1..Len(out) : NetRecvEvent(out[i].env) \in IngressEvent
    <3> TAKE i \in 1..Len(out)
    <3>1. out[i] \in Staged
      BY <1>6
    <3> QED
      BY <3>1 DEF IngressEvent, NetRecvEvent, Staged
  <2> QED
    BY <1>6, <2>1 DEF Receipts
<1>10. t \in Seq(IngressEvent)
  <2> HIDE DEF x
  <2> QED
    BY <1>1, <1>9, ConcatProperties
<1>11. /\ r \in Injector /\ SamePolicy(q, r)
       /\ r.reorder_buf = q.reorder_buf /\ r.pending = p /\ r.trace = t
  <2>1. p \in Seq(Staged)
    BY <1>6
  <2> HIDE DEF p, t, r
  <2> QED
    BY <1>8, <1>10, <2>1 DEF Injector, SamePolicy
<1>12. \E y : Receipts(y, out) /\ r.trace = q.trace \o y
  BY <1>9, <1>11
<1> HIDE DEF c, r
<1> QED
  BY <1>4, <1>5, <1>11, <1>12 DEF r

------------------------------------------------------------------------------
(* Every envelope has one fate: the operations keep it so.                 *)

OneFateOf(q, S) ==
    /\ Distinct(q.reorder_buf) /\ Distinct(q.pending) /\ UniqueFates(q.trace)
    /\ EnvsOf(q.reorder_buf) \cap EnvsOf(q.pending) = {}
    /\ Fates(q.trace) \cap (EnvsOf(q.reorder_buf) \cup EnvsOf(q.pending)) = {}
    /\ S = Fates(q.trace) \cup EnvsOf(q.reorder_buf) \cup EnvsOf(q.pending)

(* Neutral events leave the fates alone. *)
LEMMA NeutralKeeps ==
    ASSUME NEW q \in Injector, NEW r, NeutralExtension(q, r)
    PROVE  Fates(r.trace) = Fates(q.trace)
           /\ (UniqueFates(q.trace) => UniqueFates(r.trace))
<1>1. PICK x \in Seq(IngressEvent) : /\ r.trace = q.trace \o x
                                     /\ \A i \in DOMAIN x : x[i].kind \in Neutral
  BY DEF NeutralExtension
<1>2. q.trace \in Seq(IngressEvent)
  BY DEF Injector
<1>3. /\ RecordedIn(q.trace \o x, "Drop") = RecordedIn(q.trace, "Drop")
      /\ RecordedIn(q.trace \o x, "NetRecv") = RecordedIn(q.trace, "NetRecv")
      /\ UniqueFates(q.trace) => UniqueFates(q.trace \o x)
  BY <1>1, <1>2, NeutralFates
<1> QED
  BY <1>1, <1>3 DEF Fates

(* A flush moves the buffered envelopes to the pending queue. *)
LEMMA FlushFate ==
    ASSUME NEW q \in Injector, NEW r, NEW S, OneFateOf(q, S), Flushed(q, r)
    PROVE  OneFateOf(r, S)
<1> DEFINE v == Reverse(q.reorder_buf)
<1>1. q.reorder_buf \in Seq(Staged) /\ q.pending \in Seq(Staged)
  BY DEF Injector
<1>2. v \in Seq(Staged) /\ EnvsOf(v) = EnvsOf(q.reorder_buf) /\ Distinct(v)
  BY <1>1, ReverseEnvs DEF OneFateOf
<1>3. r.pending = q.pending \o v /\ r.reorder_buf = <<>> /\ NeutralExtension(q, r)
  BY DEF Flushed
<1> HIDE DEF v
<1>4. /\ EnvsOf(r.pending) = EnvsOf(q.pending) \cup EnvsOf(v)
      /\ Distinct(r.pending)
  BY <1>1, <1>2, <1>3, ConcatEnvs DEF OneFateOf
<1>5. EnvsOf(r.reorder_buf) = {} /\ Distinct(r.reorder_buf)
  BY <1>3 DEF EnvsOf, Distinct
<1>6. Fates(r.trace) = Fates(q.trace) /\ UniqueFates(r.trace)
  BY <1>3, NeutralKeeps DEF OneFateOf
<1> QED
  BY <1>2, <1>4, <1>5, <1>6 DEF OneFateOf

(* The queue with one more envelope. *)
LEMMA AppendEnvs ==
    ASSUME NEW s \in Seq(Staged), NEW st \in Staged, st.env \notin EnvsOf(s)
    PROVE  /\ EnvsOf(Append(s, st)) = EnvsOf(s) \cup {st.env}
           /\ Distinct(s) => Distinct(Append(s, st))
<1> DEFINE x == <<st>>
<1>1. x \in Seq(Staged) /\ Append(s, st) = s \o x
  BY AppendIsConcat
<1>2. EnvsOf(x) = {st.env} /\ Distinct(x)
  BY DEF EnvsOf, Distinct
<1> HIDE DEF x
<1>3. /\ EnvsOf(s \o x) = EnvsOf(s) \cup EnvsOf(x)
      /\ Distinct(s) /\ Distinct(x) /\ EnvsOf(s) \cap EnvsOf(x) = {}
            => Distinct(s \o x)
  BY <1>1, ConcatEnvs
<1> QED
  BY <1>1, <1>2, <1>3

(* A push adds an envelope that had no fate yet. *)
LEMMA PushFate ==
    ASSUME NEW q \in Injector, NEW r, NEW st \in Staged, NEW S,
           OneFateOf(q, S), st.env \notin S, Pushed(q, r, st)
    PROVE  OneFateOf(r, S \cup {st.env})
<1>1. q.reorder_buf \in Seq(Staged) /\ q.pending \in Seq(Staged)
  BY DEF Injector
<1>2. Fates(r.trace) = Fates(q.trace) /\ UniqueFates(r.trace)
  BY NeutralKeeps DEF OneFateOf, Pushed
<1>3. /\ st.env \notin EnvsOf(q.reorder_buf) /\ st.env \notin EnvsOf(q.pending)
      /\ st.env \notin Fates(q.trace)
  BY DEF OneFateOf
<1>4. CASE r.reorder_buf = Append(q.reorder_buf, st) /\ r.pending = q.pending
  <2>1. /\ EnvsOf(r.reorder_buf) = EnvsOf(q.reorder_buf) \cup {st.env}
        /\ Distinct(r.reorder_buf)
    BY <1>1, <1>3, <1>4, AppendEnvs DEF OneFateOf
  <2> QED
    BY <1>2, <1>3, <1>4, <2>1 DEF OneFateOf
<1>5. CASE r.pending = Append(q.pending, st) /\ r.reorder_buf = q.reorder_buf
  <2>1. /\ EnvsOf(r.pending) = EnvsOf(q.pending) \cup {st.env}
        /\ Distinct(r.pending)
    BY <1>1, <1>3, <1>5, AppendEnvs DEF OneFateOf
  <2> QED
    BY <1>2, <1>3, <1>5, <2>1 DEF OneFateOf
<1> QED
  BY <1>4, <1>5 DEF Pushed

(* A drop settles the fate of the envelope at once. *)
LEMMA DropFate ==
    ASSUME NEW q \in Injector, NEW r, NEW env \in Local, NEW S,
           OneFateOf(q, S), env \notin S, Dropped(q, r, env)
    PROVE  OneFateOf(r, S \cup {env})
<1>1. q.trace \in Seq(IngressEvent)
  BY DEF Injector
<1>2. env \notin Fates(q.trace)
  BY DEF OneFateOf
<1>3. /\ RecordedIn(r.trace, "Drop") = RecordedIn(q.trace, "Drop") \cup {env}
      /\ RecordedIn(r.trace, "NetRecv") = RecordedIn(q.trace, "NetRecv")
      /\ UniqueFates(q.trace) => UniqueFates(r.trace)
  BY <1>1, <1>2, DropFates DEF Dropped
<1>4. Fates(r.trace) = Fates(q.trace) \cup {env} /\ UniqueFates(r.trace)
  BY <1>3 DEF Fates, OneFateOf
<1> QED
  BY <1>2, <1>4 DEF OneFateOf, Dropped

(* A release turns the front of the pending queue into NetRecv events. *)
LEMMA ReleaseFate ==
    ASSUME NEW q \in Injector, NEW r, NEW S, NEW c \in 0..Len(q.pending),
           OneFateOf(q, S),
           r.reorder_buf = q.reorder_buf,
           r.pending = SubSeq(q.pending, c + 1, Len(q.pending)),
           \E x : /\ Receipts(x, SubSeq(q.pending, 1, c))
                  /\ r.trace = q.trace \o x
    PROVE  /\ OneFateOf(r, S)
           /\ RecordedIn(r.trace, "Drop") = RecordedIn(q.trace, "Drop")
           /\ RecordedIn(r.trace, "NetRecv") =
                  RecordedIn(q.trace, "NetRecv") \cup EnvsOf(SubSeq(q.pending, 1, c))
<1> DEFINE out == SubSeq(q.pending, 1, c)
           left == SubSeq(q.pending, c + 1, Len(q.pending))
<1>1. q.pending \in Seq(Staged) /\ q.trace \in Seq(IngressEvent)
  BY DEF Injector
<1>a. /\ out \in Seq(Staged)
      /\ EnvsOf(q.pending) = EnvsOf(out) \cup EnvsOf(left)
      /\ Distinct(q.pending) => /\ Distinct(out) /\ Distinct(left)
                                /\ EnvsOf(out) \cap EnvsOf(left) = {}
  BY <1>1, SplitEnvs
<1>b. r.pending = left
  OBVIOUS
<1> HIDE DEF left
<1>2. /\ out \in Seq(Staged)
      /\ EnvsOf(q.pending) = EnvsOf(out) \cup EnvsOf(r.pending)
      /\ Distinct(out) /\ Distinct(r.pending)
      /\ EnvsOf(out) \cap EnvsOf(r.pending) = {}
  BY <1>a, <1>b DEF OneFateOf
<1>3. PICK x : Receipts(x, out) /\ r.trace = q.trace \o x
  OBVIOUS
<1> HIDE DEF out
<1>4. Fates(q.trace) \cap EnvsOf(out) = {}
  BY <1>2 DEF OneFateOf
<1>5. /\ RecordedIn(r.trace, "Drop") = RecordedIn(q.trace, "Drop")
      /\ RecordedIn(r.trace, "NetRecv") = RecordedIn(q.trace, "NetRecv") \cup EnvsOf(out)
      /\ UniqueFates(q.trace) => UniqueFates(r.trace)
  BY <1>1, <1>2, <1>3, <1>4, ReceiveFates
<1>6. Fates(r.trace) = Fates(q.trace) \cup EnvsOf(out) /\ UniqueFates(r.trace)
  BY <1>5 DEF Fates, OneFateOf
<1>7. OneFateOf(r, S)
  BY <1>2, <1>6 DEF OneFateOf
<1> QED
  BY <1>5, <1>7 DEF out

------------------------------------------------------------------------------
(* How long an envelope has been waiting: the queues against the history h *)
(* of ingest calls.                                                        *)

(* The release step of a queued envelope is the one its ingest computed. *)
MatchedBy(queue, h) ==
    \A i \in DOMAIN queue, k \in DOMAIN h :
        queue[i].env = h[k].env =>
            queue[i].release_step = h[k].step + h[k].policy.delay_steps

(* A queue is in the order of the steps of ingestion. *)
OrderedIn(queue, h) ==
    \A i, j \in DOMAIN queue, k, l \in DOMAIN h :
        i < j /\ queue[i].env = h[k].env /\ queue[j].env = h[l].env =>
            h[k].step <= h[l].step

AllAt(queue, h, n) ==
    \A i \in DOMAIN queue, k \in DOMAIN h :
        queue[i].env = h[k].env => h[k].step = n

Ages(q, h, n) ==
    /\ MatchedBy(q.reorder_buf, h) /\ MatchedBy(q.pending, h)
    /\ OrderedIn(q.pending, h)
    /\ AllAt(q.reorder_buf, h, n)

(* Every ingestion of a staged envelope in the history is of step n and   *)
(* accounts for its release step.                                          *)
StampedBy(staged, h, n) ==
    \A k \in DOMAIN h : h[k].env = staged.env =>
        /\ h[k].step = n
        /\ staged.release_step = h[k].step + h[k].policy.delay_steps

History == Seq(IngestCall)

HistoryUpTo(h, n) ==
    \A k \in DOMAIN h : h[k].step <= n /\ h[k].policy.delay_steps <= MaxDelay

(* Appending envelopes of step n to a queue of steps up to n. *)
LEMMA ConcatAges ==
    ASSUME NEW h \in History, NEW n \in Nat, HistoryUpTo(h, n),
           NEW s \in Seq(Staged), NEW t \in Seq(Staged),
           MatchedBy(s, h), OrderedIn(s, h), MatchedBy(t, h), AllAt(t, h, n)
    PROVE  MatchedBy(s \o t, h) /\ OrderedIn(s \o t, h)
<1> DEFINE u == s \o t
           m == Len(s)
<1>1. /\ m \in Nat /\ Len(t) \in Nat
      /\ DOMAIN u = 1..(m + Len(t)) /\ DOMAIN s = 1..m /\ DOMAIN t = 1..Len(t)
      /\ \A i \in 1..(m + Len(t)) : u[i] = IF i <= m THEN s[i] ELSE t[i - m]
  BY ConcatProperties
<1> HIDE DEF u, m
<1>2. \A i \in DOMAIN u : \/ i \in DOMAIN s /\ u[i] = s[i]
                          \/ i - m \in DOMAIN t /\ u[i] = t[i - m] /\ i > m
  BY <1>1
<1>3. \A k \in DOMAIN h : h[k].step \in Nat /\ h[k].step <= n
  <2> TAKE k \in DOMAIN h
  <2>1. h[k] \in IngestCall
    BY DEF History
  <2> QED
    BY <2>1 DEF HistoryUpTo, IngestCall
<1>4. MatchedBy(u, h)
  BY <1>2 DEF MatchedBy
<1>5. ASSUME NEW i \in DOMAIN u, NEW j \in DOMAIN u,
             NEW k \in DOMAIN h, NEW l \in DOMAIN h,
             i < j, u[i].env = h[k].env, u[j].env = h[l].env
      PROVE  h[k].step <= h[l].step
  <2>1. CASE j - m \in DOMAIN t /\ u[j] = t[j - m]
    <3>1. h[l].step = n
      BY <1>5, <2>1 DEF AllAt
    <3> QED
      BY <1>3, <3>1
  <2>2. CASE j \in DOMAIN s /\ u[j] = s[j]
    <3>1. i \in DOMAIN s /\ u[i] = s[i]
      BY <1>1, <1>2, <1>5, <2>2
    <3> QED
      BY <1>5, <2>2, <3>1 DEF OrderedIn
  <2> QED
    BY <1>2, <2>1, <2>2
<1>6. OrderedIn(u, h)
  BY <1>5 DEF OrderedIn
<1> QED
  BY <1>4, <1>6 DEF u

(* A flush keeps the pending queue in order: what it appends was ingested  *)
(* in this step.                                                           *)
LEMMA FlushAges ==
    ASSUME NEW q \in Injector, NEW r, NEW h \in History, NEW n \in Nat,
           HistoryUpTo(h, n), Ages(q, h, n), Flushed(q, r)
    PROVE  Ages(r, h, n)
<1> DEFINE v == Reverse(q.reorder_buf)
           b == q.reorder_buf
<1>1. b \in Seq(Staged) /\ q.pending \in Seq(Staged)
  BY DEF Injector
<1>2. /\ v \in Seq(Staged) /\ DOMAIN v = 1..Len(b)
      /\ \A i \in 1..Len(b) : v[i] = b[Len(b) - i + 1]
      /\ Len(b) \in Nat /\ DOMAIN b = 1..Len(b)
  BY <1>1, ReverseEnvs
<1>3. MatchedBy(b, h) /\ AllAt(b, h, n)
  BY DEF Ages
<1> HIDE DEF v, b
<1>4. \A i \in DOMAIN v : \E j \in DOMAIN b : v[i] = b[j]
  <2> TAKE i \in DOMAIN v
  <2>1. Len(b) - i + 1 \in DOMAIN b
    BY <1>2
  <2> QED
    BY <1>2, <2>1
<1>5. MatchedBy(v, h) /\ AllAt(v, h, n)
  BY <1>3, <1>4 DEF MatchedBy, AllAt
<1>6. MatchedBy(q.pending \o v, h) /\ OrderedIn(q.pending \o v, h)
  BY <1>1, <1>2, <1>5, ConcatAges DEF Ages
<1>7. r.pending = q.pending \o v /\ r.reorder_buf = <<>>
  BY DEF Flushed, v
<1>8. MatchedBy(r.reorder_buf, h) /\ AllAt(r.reorder_buf, h, n)
  BY <1>7 DEF MatchedBy, AllAt
<1> QED
  BY <1>6, <1>7, <1>8 DEF Ages

(* A push of an envelope ingested in this step. *)
LEMMA PushAges ==
    ASSUME NEW q \in Injector, NEW r, NEW h \in History, NEW n \in Nat,
           NEW st \in Staged, HistoryUpTo(h, n), Ages(q, h, n), Pushed(q, r, st),
           StampedBy(st, h, n)
    PROVE  Ages(r, h, n)
<1> DEFINE x == <<st>>
<1>1. q.reorder_buf \in Seq(Staged) /\ q.pending \in Seq(Staged)
  BY DEF Injector
<1>2. x \in Seq(Staged) /\ DOMAIN x = {1} /\ x[1] = st
  OBVIOUS
<1>3. \A s \in Seq(Staged) : Append(s, st) = s \o x
  BY AppendIsConcat
<1> HIDE DEF x
<1>4. MatchedBy(x, h) /\ AllAt(x, h, n)
  BY <1>2 DEF MatchedBy, AllAt, StampedBy
<1>5. CASE r.pending = Append(q.pending, st) /\ r.reorder_buf = q.reorder_buf
  <2>1. MatchedBy(q.pending \o x, h) /\ OrderedIn(q.pending \o x, h)
    BY <1>1, <1>2, <1>4, ConcatAges DEF Ages
  <2> QED
    BY <1>1, <1>3, <1>5, <2>1 DEF Ages
<1>6. CASE r.reorder_buf = Append(q.reorder_buf, st) /\ r.pending = q.pending
  <2> DEFINE b == q.reorder_buf
             m == Len(b)
  <2>1. /\ m \in Nat /\ DOMAIN b = 1..m
        /\ DOMAIN r.reorder_buf = 1..(m + 1)
        /\ \A i \in 1..m : r.reorder_buf[i] = b[i]
        /\ r.reorder_buf[m + 1] = st
    BY <1>1, <1>6, AppendProperties
  <2>2. MatchedBy(b, h) /\ AllAt(b, h, n)
    BY DEF Ages
  <2> HIDE DEF b, m
  <2>3. \A i \in DOMAIN r.reorder_buf : \/ r.reorder_buf[i] = st
                                        \/ \E j \in DOMAIN b : r.reorder_buf[i] = b[j]
    BY <2>1
  <2>4. MatchedBy(r.reorder_buf, h) /\ AllAt(r.reorder_buf, h, n)
    BY <2>2, <2>3 DEF MatchedBy, AllAt, StampedBy
  <2> QED
    BY <1>6, <2>4 DEF Ages
<1> QED
  BY <1>5, <1>6 DEF Pushed

(* A release keeps the rest of the queue as it is. *)
LEMMA ReleaseAges ==
    ASSUME NEW q \in Injector, NEW r, NEW h \in History, NEW n \in Nat,
           NEW c \in 0..Len(q.pending), Ages(q, h, n),
           r.reorder_buf = q.reorder_buf,
           r.pending = SubSeq(q.pending, c + 1, Len(q.pending))
    PROVE  Ages(r, h, n)
<1> DEFINE Q == q.pending
           P == r.pending
           m == Len(Q)
<1>1. Q \in Seq(Staged)
  BY DEF Injector
<1>2. /\ P \in Seq(Staged) /\ Len(P) = m - c
      /\ \A i \in 1..(m - c) : P[i] = Q[c + i]
  <2>1. P = SubSeq(Q, c + 1, Len(Q)) /\ c \in 0..Len(Q)
    OBVIOUS
  <2> HIDE DEF P, Q
  <2> QED
    BY ONLY <1>1, <2>1, SplitEnvs DEF m
<1>3. m \in Nat /\ c \in Nat /\ c <= m /\ DOMAIN P = 1..(m - c) /\ DOMAIN Q = 1..m
  BY <1>1, <1>2
<1>4. MatchedBy(Q, h) /\ OrderedIn(Q, h)
  BY DEF Ages
<1> HIDE DEF P, Q, m
<1>5. \A i \in DOMAIN P : c + i \in DOMAIN Q /\ P[i] = Q[c + i]
  BY <1>2, <1>3
<1>6. \A i, j \in DOMAIN P : i < j => c + i < c + j
  BY <1>3
<1>7. MatchedBy(P, h)
  BY <1>4, <1>5 DEF MatchedBy
<1>8. OrderedIn(P, h)
  BY <1>4, <1>5, <1>6 DEF OrderedIn
<1> QED
  BY <1>7, <1>8 DEF Ages, P

(* A new ingest call does not concern the envelopes already queued. *)
LEMMA ExtendAges ==
    ASSUME NEW q \in Injector, NEW h \in History, NEW n \in Nat,
           NEW g \in IngestCall,
           g.env \notin EnvsOf(q.reorder_buf) \cup EnvsOf(q.pending),
           Ages(q, h, n)
    PROVE  Ages(q, Append(h, g), n)
<1> DEFINE h2 == Append(h, g)
<1>1. \A k \in DOMAIN h2 : (k \in DOMAIN h /\ h2[k] = h[k]) \/ h2[k] = g
  BY AppendProperties DEF History
<1>2. /\ \A i \in DOMAIN q.reorder_buf : q.reorder_buf[i].env # g.env
      /\ \A i \in DOMAIN q.pending : q.pending[i].env # g.env
  BY DEF EnvsOf
<1> HIDE DEF h2
<1>3. MatchedBy(q.reorder_buf, h2) /\ MatchedBy(q.pending, h2)
  BY <1>1, <1>2 DEF Ages, MatchedBy
<1>4. AllAt(q.reorder_buf, h2, n)
  BY <1>1, <1>2 DEF Ages, AllAt
<1>5. OrderedIn(q.pending, h2)
  BY <1>1, <1>2 DEF Ages, OrderedIn
<1> QED
  BY <1>3, <1>4, <1>5 DEF Ages, h2

------------------------------------------------------------------------------
(* The inductive invariant.                                                *)

(* Between the sync at the start of the drain and its end, the policy of   *)
(* the step is in force, so the sync inside ingest changes nothing.        *)
PolicyInForce ==
    pc = "recv" =>
        inj.policy_initialized /\ inj.active_policy = policy_for_step(Cfg, step)

(* An envelope is on the wire, in the channel or ingested, and only once. *)
Fresh ==
    /\ \A i, j \in DOMAIN rx : rx[i] = rx[j] => i = j
    /\ \A i \in DOMAIN rx : rx[i] \notin net /\ rx[i] \notin EnvsOf(ingests)
    /\ net \cap EnvsOf(ingests) = {}

IInv ==
    /\ TypeOK
    /\ WindowOK(inj) /\ NoStranding /\ PolicyInForce
    /\ Fresh
    /\ OneFateOf(inj, EnvsOf(ingests))
    /\ HistoryUpTo(ingests, step)
    /\ Ages(inj, ingests, step)
    /\ BoundedWait

(* The initial state satisfies the invariant. *)
LEMMA InitIInv == Init => IInv
<1> SUFFICES ASSUME Init PROVE IInv
    OBVIOUS
<1>1. inj \in Injector
  <2>1. policy_for_step(Cfg, 0) \in FaultPolicy
    BY PolicyOfConfig
  <2> QED
    BY <2>1 DEF Init, new, Injector
<1>2. /\ inj.reorder_buf = <<>> /\ inj.pending = <<>> /\ inj.trace = <<>>
      /\ rx = <<>> /\ ingests = <<>> /\ net = Envs /\ step = 0
      /\ pc \in {"sync", "done"}
  BY DEF Init, new
<1>3. TypeOK
  BY <1>1, <1>2 DEF TypeOK
<1>4. WindowOK(inj) /\ NoStranding /\ PolicyInForce /\ BoundedWait
  BY <1>2 DEF WindowOK, NoStranding, PolicyInForce, BoundedWait
<1>5. Fresh
  BY <1>2 DEF Fresh, EnvsOf
<1>6. OneFateOf(inj, EnvsOf(ingests))
  BY <1>2 DEF OneFateOf, EnvsOf, Distinct, UniqueFates, Fates, RecordedIn
<1>7. HistoryUpTo(ingests, step) /\ Ages(inj, ingests, step)
  BY <1>2 DEF HistoryUpTo, Ages, MatchedBy, OrderedIn, AllAt
<1> QED
  BY <1>3, <1>4, <1>5, <1>6, <1>7 DEF IInv

(* A listener thread touches the channel only. *)
LEMMA ListenStep ==
    ASSUME IInv, NEW env \in Envs, Listen(env) PROVE IInv'
<1>1. /\ rx \in Seq(Envs) /\ net' = net \ {env} /\ env \in net
      /\ UNCHANGED <<inj, step, pc, ingests>> /\ rx' = Append(rx, env)
  BY DEF IInv, TypeOK, Listen
<1>2. /\ rx' \in Seq(Envs)
      /\ DOMAIN rx = 1..Len(rx) /\ Len(rx) \in Nat
      /\ DOMAIN rx' = 1..(Len(rx) + 1)
      /\ rx'[Len(rx) + 1] = env
      /\ \A i \in DOMAIN rx : rx'[i] = rx[i]
  BY <1>1, AppendProperties
<1>3. Fresh'
  <2>1. \A i \in DOMAIN rx' : (i \in DOMAIN rx /\ rx'[i] = rx[i])
                            \/ (i = Len(rx) + 1 /\ rx'[i] = env)
    BY <1>2
  <2> QED
    BY <1>1, <2>1 DEF IInv, Fresh, EnvsOf
<1>4. TypeOK'
  BY <1>1, <1>2 DEF IInv, TypeOK
<1>5. /\ WindowOK(inj)' /\ NoStranding' /\ PolicyInForce' /\ BoundedWait'
      /\ OneFateOf(inj, EnvsOf(ingests))'
      /\ HistoryUpTo(ingests, step)' /\ Ages(inj, ingests, step)'
  BY <1>1 DEF IInv, NoStranding, PolicyInForce, BoundedWait
<1> QED
  BY <1>3, <1>4, <1>5 DEF IInv

(* The sync at the start of a drain finds the buffer empty. *)
LEMMA SyncStep == ASSUME IInv, Sync PROVE IInv'
<1>1. /\ inj \in Injector /\ step \in Nat /\ inj.reorder_buf = <<>>
      /\ pc' = "recv" /\ UNCHANGED <<net, rx, step, ingests>>
      /\ inj' = sync_policy(inj, Cfg, step)
  BY DEF IInv, TypeOK, Sync, NoStranding
<1>2. /\ inj' \in Injector
      /\ inj'.policy_initialized
      /\ inj'.active_policy = policy_for_step(Cfg, step)
      /\ inj'.reorder_buf = <<>> /\ inj'.pending = inj.pending
      /\ NeutralExtension(inj, inj')
  BY <1>1, SyncPolicy
<1>3. Fates(inj'.trace) = Fates(inj.trace)
      /\ (UniqueFates(inj.trace) => UniqueFates(inj'.trace))
  BY <1>1, <1>2, NeutralKeeps
<1>4. OneFateOf(inj', EnvsOf(ingests))
  BY <1>1, <1>2, <1>3 DEF IInv, OneFateOf
<1>5. Ages(inj', ingests, step)
  BY <1>1, <1>2 DEF IInv, Ages
<1>6. TypeOK'
  BY <1>1, <1>2 DEF IInv, TypeOK
<1>7. WindowOK(inj') /\ NoStranding' /\ PolicyInForce' /\ BoundedWait'
  BY <1>1, <1>2 DEF WindowOK, NoStranding, PolicyInForce, BoundedWait
<1> QED
  BY <1>1, <1>4, <1>5, <1>6, <1>7 DEF IInv, Fresh, EnvsOf, HistoryUpTo

(* Taking the front envelope off the channel. *)
LEMMA TailFresh ==
    ASSUME TypeOK, Fresh, rx # <<>>
    PROVE  /\ Head(rx) \in Envs /\ Tail(rx) \in Seq(Envs)
           /\ Head(rx) \notin net /\ Head(rx) \notin EnvsOf(ingests)
           /\ \A i \in DOMAIN Tail(rx) : /\ Tail(rx)[i] # Head(rx)
                                         /\ Tail(rx)[i] \notin net
                                         /\ Tail(rx)[i] \notin EnvsOf(ingests)
           /\ \A i, j \in DOMAIN Tail(rx) : Tail(rx)[i] = Tail(rx)[j] => i = j
<1> DEFINE t == Tail(rx)
<1>1. rx \in Seq(Envs) /\ Len(rx) \in Nat /\ Len(rx) > 0 /\ DOMAIN rx = 1..Len(rx)
  BY EmptySeq DEF TypeOK
<1>2. /\ Head(rx) \in Envs /\ t \in Seq(Envs) /\ Len(t) = Len(rx) - 1
      /\ \A i \in 1..Len(t) : t[i] = rx[i + 1]
      /\ Head(rx) = rx[1]
  BY <1>1, HeadTailProperties
<1> HIDE DEF t
<1>3. \A i \in DOMAIN t : i + 1 \in DOMAIN rx /\ t[i] = rx[i + 1] /\ i + 1 # 1
  BY <1>1, <1>2
<1>4. 1 \in DOMAIN rx
  BY <1>1
<1>5. \A i, j \in DOMAIN t : i + 1 = j + 1 => i = j
  BY <1>1, <1>2
<1> QED
  BY <1>2, <1>3, <1>4, <1>5 DEF Fresh, t

(* A misrouted envelope leaves no mark. *)
LEMMA MisroutedStep == ASSUME IInv, Misrouted PROVE IInv'
<1>1. rx # <<>> /\ rx' = Tail(rx) /\ UNCHANGED <<net, inj, step, pc, ingests>>
  BY DEF Misrouted
<1>2. Fresh'
  <2> DEFINE t == Tail(rx)
  <2>1. /\ \A i \in DOMAIN t : t[i] \notin net /\ t[i] \notin EnvsOf(ingests)
        /\ \A i, j \in DOMAIN t : t[i] = t[j] => i = j
    BY <1>1, TailFresh DEF IInv
  <2>2. rx' = t
    BY <1>1
  <2> HIDE DEF t
  <2> QED
    BY <1>1, <2>1, <2>2 DEF IInv, Fresh, EnvsOf
<1>3. TypeOK'
  BY <1>1, TailFresh DEF IInv, TypeOK
<1>4. /\ WindowOK(inj)' /\ NoStranding' /\ PolicyInForce' /\ BoundedWait'
      /\ OneFateOf(inj, EnvsOf(ingests))'
      /\ HistoryUpTo(ingests, step)' /\ Ages(inj, ingests, step)'
  BY <1>1 DEF IInv, NoStranding, PolicyInForce, BoundedWait
<1> QED
  BY <1>2, <1>3, <1>4 DEF IInv

(* Ingest: a drop, a push, or a push that fills the window. *)
LEMMA IngestStep == ASSUME IInv, Ingest PROVE IInv'
<1> DEFINE env == Head(rx)
           g == [env |-> env, step |-> step, policy |-> inj'.active_policy]
           st == [env |-> env, release_step |-> step + inj.active_policy.delay_steps]
           S == EnvsOf(ingests)
<1>1. /\ inj \in Injector /\ step \in Nat /\ ingests \in History
      /\ pc = "recv" /\ rx # <<>> /\ env \in Local
      /\ rx' = Tail(rx) /\ UNCHANGED <<net, step, pc>>
      /\ inj' = ingest(inj, Cfg, env, step)
      /\ ingests' = Append(ingests, g)
      /\ WindowOK(inj)
      /\ inj.policy_initialized /\ inj.active_policy = policy_for_step(Cfg, step)
  BY DEF IInv, TypeOK, Ingest, PolicyInForce, History
<1>2. /\ env \notin net /\ env \notin S
      /\ Tail(rx) \in Seq(Envs)
      /\ \A i \in DOMAIN Tail(rx) : /\ Tail(rx)[i] # env
                                    /\ Tail(rx)[i] \notin net
                                    /\ Tail(rx)[i] \notin S
      /\ \A i, j \in DOMAIN Tail(rx) : Tail(rx)[i] = Tail(rx)[j] => i = j
  BY <1>1, TailFresh DEF IInv
<1>3. /\ inj' \in Injector /\ WindowOK(inj')
      /\ inj'.policy_initialized /\ inj'.active_policy = inj.active_policy
      /\ \/ Dropped(inj, inj', env)
         \/ Pushed(inj, inj', st)
         \/ \E m \in Injector : Pushed(inj, m, st) /\ Flushed(m, inj')
  <2> HIDE DEF env
  <2> QED
    BY <1>1, IngestEffect
<1>4. /\ inj.active_policy \in FaultPolicy
      /\ inj.active_policy.delay_steps <= MaxDelay
      /\ inj.active_policy.delay_steps \in Nat
  BY <1>1, PolicyOfConfig DEF FaultPolicy
<1>5. g \in IngestCall /\ st \in Staged /\ st.env = env /\ g.env = env
      /\ g.step = step /\ g.policy = inj.active_policy
      /\ st.release_step = g.step + g.policy.delay_steps
  BY <1>1, <1>3, <1>4 DEF IngestCall, Staged
<1> HIDE DEF env, g, st
<1>6. /\ ingests' \in History
      /\ \A k \in DOMAIN ingests' :
            (k \in DOMAIN ingests /\ ingests'[k] = ingests[k]) \/ ingests'[k] = g
      /\ \A k \in DOMAIN ingests : k \in DOMAIN ingests' /\ ingests'[k] = ingests[k]
      /\ \E k \in DOMAIN ingests' : ingests'[k] = g
  <2>1. ingests \in Seq(IngestCall)
    BY <1>1 DEF History
  <2>2. /\ ingests' \in Seq(IngestCall) /\ Len(ingests) \in Nat
        /\ DOMAIN ingests = 1..Len(ingests)
        /\ DOMAIN ingests' = 1..(Len(ingests) + 1)
        /\ \A k \in 1..Len(ingests) : ingests'[k] = ingests[k]
        /\ ingests'[Len(ingests) + 1] = g
    BY <1>1, <1>5, <2>1, AppendProperties
  <2> QED
    BY <2>2 DEF History
<1>7. EnvsOf(ingests') = S \cup {env}
  BY <1>5, <1>6 DEF EnvsOf
<1>8. HistoryUpTo(ingests', step)
  BY <1>1, <1>4, <1>5, <1>6 DEF IInv, HistoryUpTo
<1>9. env \notin EnvsOf(inj.reorder_buf) \cup EnvsOf(inj.pending)
  BY <1>2 DEF IInv, OneFateOf
<1>10. Ages(inj, ingests', step)
  BY <1>1, <1>5, <1>9, ExtendAges DEF IInv
<1>11. StampedBy(st, ingests', step)
  <2> SUFFICES ASSUME NEW k \in DOMAIN ingests', ingests'[k].env = st.env
               PROVE  /\ ingests'[k].step = step
                      /\ st.release_step = ingests'[k].step
                                             + ingests'[k].policy.delay_steps
    BY DEF StampedBy
  <2>1. ingests'[k] = g
    BY <1>2, <1>5, <1>6 DEF EnvsOf
  <2> QED
    BY <1>5, <2>1
<1>12. OneFateOf(inj', S \cup {env}) /\ Ages(inj', ingests', step)
  <2>1. CASE Dropped(inj, inj', env)
    <3>1. OneFateOf(inj', S \cup {env})
      BY <1>1, <1>2, <2>1, DropFate DEF IInv
    <3>2. Ages(inj', ingests', step)
      BY <1>10, <2>1 DEF Ages, Dropped
    <3> QED
      BY <3>1, <3>2
  <2>2. ASSUME NEW m, Pushed(inj, m, st)
        PROVE  OneFateOf(m, S \cup {env}) /\ Ages(m, ingests', step)
    <3>1. OneFateOf(m, S \cup {st.env})
      BY <1>1, <1>2, <1>5, <2>2, PushFate DEF IInv
    <3>2. Ages(m, ingests', step)
      BY <1>1, <1>5, <1>6, <1>8, <1>10, <1>11, <2>2, PushAges
    <3> QED
      BY <1>5, <3>1, <3>2
  <2>3. ASSUME NEW m \in Injector, Pushed(inj, m, st), Flushed(m, inj')
        PROVE  OneFateOf(inj', S \cup {env}) /\ Ages(inj', ingests', step)
    <3>1. OneFateOf(m, S \cup {env}) /\ Ages(m, ingests', step)
      BY <2>2, <2>3
    <3>2. OneFateOf(inj', S \cup {env})
      BY <2>3, <3>1, FlushFate
    <3>3. Ages(inj', ingests', step)
      BY <1>1, <1>6, <1>8, <2>3, <3>1, FlushAges
    <3> QED
      BY <3>2, <3>3
  <2> QED
    BY <1>3, <2>1, <2>2, <2>3
<1>13. Fresh'
  <2> DEFINE t == Tail(rx)
  <2>1. rx' = t
    BY <1>1
  <2>2. /\ \A i \in DOMAIN t : t[i] # env /\ t[i] \notin net /\ t[i] \notin S
        /\ \A i, j \in DOMAIN t : t[i] = t[j] => i = j
    BY <1>2
  <2>3. net \cap S = {}
    BY DEF IInv, Fresh
  <2> HIDE DEF t, S
  <2>4. net' = net /\ EnvsOf(ingests)' = S \cup {env}
    BY <1>1, <1>7
  <2> QED
    BY <1>2, <2>1, <2>2, <2>3, <2>4 DEF Fresh
<1>14. TypeOK'
  BY <1>1, <1>2, <1>3, <1>6 DEF IInv, TypeOK, History
<1>15. NoStranding' /\ PolicyInForce' /\ BoundedWait'
  BY <1>1, <1>3 DEF NoStranding, PolicyInForce, BoundedWait
<1>16. /\ OneFateOf(inj, EnvsOf(ingests))' /\ HistoryUpTo(ingests, step)'
       /\ Ages(inj, ingests, step)'
  BY <1>1, <1>7, <1>8, <1>12
<1> QED
  BY <1>3, <1>13, <1>14, <1>15, <1>16 DEF IInv

(* Once the front of a queue in ingestion order is not due, nothing behind *)
(* it has waited longer than the front may wait.                           *)
LEMMA FrontBounds ==
    ASSUME NEW q \in Injector, NEW h \in History, NEW n \in Nat,
           HistoryUpTo(h, n), Ages(q, h, n),
           EnvsOf(q.pending) \subseteq EnvsOf(h),
           q.pending # <<>> => q.pending[1].release_step > n,
           NEW k \in DOMAIN h, h[k].env \in EnvsOf(q.pending)
    PROVE  n < h[k].step + MaxDelay
<1>1. q.pending \in Seq(Staged)
  BY DEF Injector
<1>2. PICK i \in DOMAIN q.pending : q.pending[i].env = h[k].env
  BY DEF EnvsOf
<1>3. 1 \in DOMAIN q.pending /\ i >= 1 /\ i \in Nat /\ q.pending # <<>>
  BY <1>1, <1>2
<1>4. PICK l \in DOMAIN h : h[l].env = q.pending[1].env
  BY <1>3 DEF EnvsOf
<1>5. /\ h[l].step \in Nat /\ h[k].step \in Nat
      /\ h[l].policy.delay_steps \in Nat /\ h[l].policy.delay_steps <= MaxDelay
  <2>1. h[l] \in IngestCall /\ h[k] \in IngestCall
    BY DEF History
  <2> QED
    BY <2>1 DEF IngestCall, FaultPolicy, HistoryUpTo
<1>6. q.pending[1].release_step = h[l].step + h[l].policy.delay_steps
  BY <1>3, <1>4 DEF Ages, MatchedBy
<1>7. q.pending[1].release_step > n
  BY <1>3
<1>8. CASE i = 1
  <2>1. q.pending[1].release_step = h[k].step + h[k].policy.delay_steps
    BY <1>2, <1>3, <1>8 DEF Ages, MatchedBy
  <2>2. h[k].policy.delay_steps \in Nat /\ h[k].policy.delay_steps <= MaxDelay
    <3>1. h[k] \in IngestCall
      BY DEF History
    <3> QED
      BY <3>1 DEF IngestCall, FaultPolicy, HistoryUpTo
  <2> QED
    BY <1>5, <1>7, <2>1, <2>2, DelayAssumption
<1>9. CASE i # 1
  <2>1. h[l].step <= h[k].step
    BY <1>2, <1>3, <1>4, <1>9 DEF Ages, OrderedIn
  <2> QED
    BY <1>5, <1>6, <1>7, <2>1, DelayAssumption
<1> QED
  BY <1>8, <1>9

(* The end of the drain: flush, then release. *)
LEMMA ReleaseStep ==
    ASSUME IInv, Release
    PROVE  /\ IInv'
           /\ Recorded("Drop")' = Recorded("Drop")
           /\ \E out \in Seq(Staged) :
                 /\ Recorded("NetRecv")' = Recorded("NetRecv") \cup EnvsOf(out)
                 /\ EnvsOf(out) \subseteq EnvsOf(inj.reorder_buf) \cup EnvsOf(inj.pending)
                 /\ EnvsOf(inj'.pending) =
                        (EnvsOf(inj.reorder_buf) \cup EnvsOf(inj.pending)) \ EnvsOf(out)
                 /\ inj'.reorder_buf = <<>>
                 /\ MatchedBy(out, ingests)
                 /\ \A i \in DOMAIN out : out[i].release_step <= step
<1> DEFINE m == flush_remainder(inj)
           S == EnvsOf(ingests)
<1>1. /\ inj \in Injector /\ step \in Nat /\ ingests \in History
      /\ pc' = "rest" /\ UNCHANGED <<net, rx, step, ingests>>
      /\ inj' = release_due(m, step)
      /\ WindowOK(inj)
  BY DEF IInv, TypeOK, Release, History
<1>2. m \in Injector /\ SamePolicy(inj, m) /\ Flushed(inj, m)
  BY <1>1, FlushRemainder
<1> HIDE DEF m
<1>3. OneFateOf(m, S) /\ Ages(m, ingests, step)
  BY <1>1, <1>2, FlushFate, FlushAges DEF IInv
<1>4. PICK c \in 0..Len(m.pending) :
         /\ inj' \in Injector /\ SamePolicy(m, inj')
         /\ inj'.reorder_buf = m.reorder_buf
         /\ inj'.pending = SubSeq(m.pending, c + 1, Len(m.pending))
         /\ \E x : Receipts(x, SubSeq(m.pending, 1, c)) /\ inj'.trace = m.trace \o x
         /\ \A i \in 1..c : m.pending[i].release_step <= step
         /\ c < Len(m.pending) => m.pending[c + 1].release_step > step
  BY <1>1, <1>2, ReleaseEffect
<1> DEFINE out == SubSeq(m.pending, 1, c)
<1>5. /\ OneFateOf(inj', S)
      /\ RecordedIn(inj'.trace, "Drop") = RecordedIn(m.trace, "Drop")
      /\ RecordedIn(inj'.trace, "NetRecv") = RecordedIn(m.trace, "NetRecv") \cup EnvsOf(out)
  BY <1>2, <1>3, <1>4, ReleaseFate
<1>6. Ages(inj', ingests, step)
  BY <1>1, <1>2, <1>3, <1>4, ReleaseAges
<1>7. m.pending \in Seq(Staged) /\ Len(m.pending) \in Nat
  BY <1>2 DEF Injector
<1>8. /\ out \in Seq(Staged) /\ Len(out) = c /\ \A i \in 1..c : out[i] = m.pending[i]
      /\ inj'.pending \in Seq(Staged) /\ Len(inj'.pending) = Len(m.pending) - c
      /\ \A i \in 1..(Len(m.pending) - c) : inj'.pending[i] = m.pending[c + i]
      /\ EnvsOf(m.pending) = EnvsOf(out) \cup EnvsOf(inj'.pending)
      /\ EnvsOf(out) \cap EnvsOf(inj'.pending) = {}
  <2> DEFINE left == SubSeq(m.pending, c + 1, Len(m.pending))
  <2>1. /\ out \in Seq(Staged) /\ Len(out) = c /\ \A i \in 1..c : out[i] = m.pending[i]
        /\ left \in Seq(Staged) /\ Len(left) = Len(m.pending) - c
        /\ \A i \in 1..(Len(m.pending) - c) : left[i] = m.pending[c + i]
        /\ EnvsOf(m.pending) = EnvsOf(out) \cup EnvsOf(left)
        /\ Distinct(m.pending) => EnvsOf(out) \cap EnvsOf(left) = {}
    BY <1>7, SplitEnvs
  <2>2. Distinct(m.pending)
    BY <1>3 DEF OneFateOf
  <2> HIDE DEF out
  <2> QED
    BY <1>4, <2>1, <2>2
<1> HIDE DEF out
<1>9. inj'.pending # <<>> => inj'.pending[1].release_step > step
  <2> HAVE inj'.pending # <<>>
  <2>1. Len(inj'.pending) \in Nat /\ Len(inj'.pending) > 0
    BY <1>8, EmptySeq
  <2>2. 1 \in 1..(Len(m.pending) - c) /\ c < Len(m.pending)
    BY <1>7, <1>8, <2>1
  <2> QED
    BY <1>4, <1>8, <2>2
<1>10. EnvsOf(inj'.pending) \subseteq S
  BY <1>5 DEF OneFateOf
<1>11. BoundedWait'
  <2> SUFFICES ASSUME NEW k \in DOMAIN ingests,
                      ingests[k].env \in EnvsOf(inj'.pending)
               PROVE  step < ingests[k].step + MaxDelay
      BY <1>1 DEF BoundedWait
  <2> QED
    BY <1>1, <1>4, <1>6, <1>9, <1>10, FrontBounds DEF IInv
<1>12. inj'.reorder_buf = <<>>
  BY <1>2, <1>4 DEF Flushed
<1>13. WindowOK(inj') /\ NoStranding' /\ PolicyInForce'
  BY <1>1, <1>12 DEF WindowOK, NoStranding, PolicyInForce
<1>14. TypeOK'
  BY <1>1, <1>4 DEF IInv, TypeOK
<1>15. IInv'
  BY <1>1, <1>5, <1>6, <1>11, <1>13, <1>14 DEF IInv, Fresh, EnvsOf, HistoryUpTo
<1>16. /\ RecordedIn(m.trace, "Drop") = RecordedIn(inj.trace, "Drop")
       /\ RecordedIn(m.trace, "NetRecv") = RecordedIn(inj.trace, "NetRecv")
  <2>1. PICK y \in Seq(IngressEvent) : /\ m.trace = inj.trace \o y
                                       /\ \A i \in DOMAIN y : y[i].kind \in Neutral
    BY <1>2 DEF Flushed, NeutralExtension
  <2>2. inj.trace \in Seq(IngressEvent)
    BY <1>1 DEF Injector
  <2> QED
    BY <2>1, <2>2, NeutralFates
<1>17. EnvsOf(m.pending) = EnvsOf(inj.reorder_buf) \cup EnvsOf(inj.pending)
  <2> DEFINE v == Reverse(inj.reorder_buf)
  <2>1. /\ inj.pending \in Seq(Staged) /\ v \in Seq(Staged)
        /\ EnvsOf(v) = EnvsOf(inj.reorder_buf) /\ m.pending = inj.pending \o v
    BY <1>1, <1>2, ReverseEnvs DEF Injector, Flushed
  <2> HIDE DEF v
  <2> QED
    BY <2>1, ConcatEnvs
<1>18. MatchedBy(out, ingests) /\ \A i \in DOMAIN out : out[i].release_step <= step
  <2>1. \A i \in DOMAIN out : i \in DOMAIN m.pending /\ i \in 1..c /\ out[i] = m.pending[i]
    BY <1>7, <1>8
  <2>2. MatchedBy(m.pending, ingests)
    BY <1>3 DEF Ages
  <2>3. MatchedBy(out, ingests)
    BY <2>1, <2>2 DEF MatchedBy
  <2>4. \A i \in DOMAIN out : out[i].release_step <= step
    BY <1>4, <2>1
  <2> QED
    BY <2>3, <2>4
<1> QED
  BY <1>5, <1>8, <1>12, <1>15, <1>16, <1>17, <1>18 DEF Recorded

(* The step counter moves on with an empty buffer. *)
LEMMA RestStep == ASSUME IInv, Rest PROVE IInv'
<1>1. /\ step \in Nat /\ step' \in Nat /\ step <= step'
      /\ pc = "rest" /\ pc' \in {"sync", "done"}
      /\ UNCHANGED <<net, rx, inj, ingests>>
      /\ inj.reorder_buf = <<>>
  BY DEF IInv, TypeOK, Rest, NoStranding
<1>2. HistoryUpTo(ingests, step')
  <2> SUFFICES ASSUME NEW k \in DOMAIN ingests
               PROVE  /\ ingests[k].step <= step'
                      /\ ingests[k].policy.delay_steps <= MaxDelay
      BY DEF HistoryUpTo
  <2>1. ingests[k] \in IngestCall
    BY DEF IInv, TypeOK
  <2> QED
    BY <1>1, <2>1 DEF IngestCall, IInv, HistoryUpTo
<1>3. Ages(inj, ingests, step')
  BY <1>1 DEF IInv, Ages, AllAt
<1>4. TypeOK' /\ NoStranding' /\ PolicyInForce' /\ BoundedWait'
  BY <1>1 DEF IInv, TypeOK, NoStranding, PolicyInForce, BoundedWait
<1>5. WindowOK(inj)' /\ OneFateOf(inj, EnvsOf(ingests))'
      /\ HistoryUpTo(ingests, step)' /\ Ages(inj, ingests, step)'
  BY <1>1, <1>2, <1>3 DEF IInv
<1> QED
  BY <1>1, <1>4, <1>5 DEF IInv, Fresh, EnvsOf

(* Every step preserves the invariant. *)
LEMMA NextIInv == IInv /\ [Next]_vars => IInv'
<1> SUFFICES ASSUME IInv, [Next]_vars PROVE IInv'
    OBVIOUS
<1>1. ASSUME NEW env \in Envs, Listen(env) PROVE IInv'
  BY <1>1, ListenStep
<1>2. CASE Sync
  BY <1>2, SyncStep
<1>3. CASE Misrouted
  BY <1>3, MisroutedStep
<1>4. CASE Ingest
  BY <1>4, IngestStep
<1>5. CASE Release
  BY <1>5, ReleaseStep
<1>6. CASE Rest
  BY <1>6, RestStep
<1>7. CASE Done \/ UNCHANGED vars
  <2>1. UNCHANGED <<net, rx, inj, step, pc, ingests>>
    BY <1>7 DEF Done, vars
  <2>2. /\ WindowOK(inj)' /\ NoStranding' /\ PolicyInForce' /\ BoundedWait'
        /\ OneFateOf(inj, EnvsOf(ingests))'
        /\ HistoryUpTo(ingests, step)' /\ Ages(inj, ingests, step)'
    BY <2>1 DEF IInv, NoStranding, PolicyInForce, BoundedWait
  <2>3. TypeOK' /\ Fresh'
    BY <2>1 DEF IInv, TypeOK, Fresh, EnvsOf
  <2> QED
    BY <2>2, <2>3 DEF IInv
<1> QED
  BY <1>1, <1>2, <1>3, <1>4, <1>5, <1>6, <1>7 DEF Next

------------------------------------------------------------------------------
(* The inductive invariant holds in every reachable state. *)
THEOREM InvariantHolds == Spec => []IInv
  BY InitIInv, NextIInv, PTL DEF Spec

(* Type correctness of the inbound path. *)
THEOREM TypeCorrect == Spec => []TypeOK
<1>1. IInv => TypeOK
  BY DEF IInv
<1> QED
  BY <1>1, InvariantHolds, PTL

(* Nothing is ever stranded in the reorder buffer: it is empty between     *)
(* drains, for every fault configuration.                                  *)
THEOREM NothingStranded == Spec => []NoStranding
<1>1. IInv => NoStranding
  BY DEF IInv
<1> QED
  BY <1>1, InvariantHolds, PTL

(* The reorder buffer never holds a full window of the policy in force.    *)
THEOREM WindowsAreRespected == Spec => []WindowRespected
<1>1. IInv => WindowRespected
  BY DEF IInv, WindowOK, WindowRespected
<1> QED
  BY <1>1, InvariantHolds, PTL

(* Every ingested envelope has exactly one fate, and the trace records it. *)
THEOREM FateIsUnique == Spec => []OneFate
<1>1. IInv => OneFate
  BY DEF IInv, OneFateOf, OneFate, Recorded, Fates
<1> QED
  BY <1>1, InvariantHolds, PTL

(* Head-of-line blocking never holds an envelope for MaxDelay steps.       *)
THEOREM WaitIsBounded == Spec => []BoundedWait
<1>1. IInv => BoundedWait
  BY DEF IInv
<1> QED
  BY <1>1, InvariantHolds, PTL

==============================================================================
