---------------------------- MODULE ClusterProofs ----------------------------
(***************************************************************************)
(* Several nodes and the network between them, for every program, every    *)
(* configuration and every order of arrival.                               *)
(***************************************************************************)
EXTENDS Cluster, VerifyProofs

Statuses == {"down", "up", "stopped", "failed", "killed"}

(* What the network carries: the sender's life is part of it. *)
Flying(f) ==
    /\ f = [env |-> f.env, life |-> f.life]
    /\ f.env.from_node \in Nodes /\ f.env.to_node \in Config[f.env.from_node].peers
    /\ f.life \in 1..life[f.env.from_node]

Fit(n) ==
    /\ Node(Config[n], sys[n]) /\ sys[n].wire = {}
    /\ step[n] \in 0..Config[n].steps /\ IsSeq(trace[n])
    /\ status[n] = "down" <=> life[n] = 0

NodesInv ==
    /\ status \in [Nodes -> Statuses] /\ life \in [Nodes -> 0..MaxLives]
    /\ sys = [n \in Nodes |-> sys[n]] /\ step = [n \in Nodes |-> step[n]]
    /\ trace = [n \in Nodes |-> trace[n]]
    /\ \A n \in Nodes : Fit(n)
    /\ IsFiniteSet(flight) /\ \A f \in flight : Flying(f)

LEMMA Configured ==
    ASSUME NEW n \in Nodes
    PROVE  /\ Host(Config[n]) /\ Boots(Config[n]) \in Nat /\ Config[n].node = n /\ n \in Nat
           /\ Config[n].steps \in Nat
BY ConfigAssumption DEF Host, Boots, Nodes

LEMMA NodesInit == Init => NodesInv
<1> SUFFICES ASSUME Init PROVE NodesInv
  OBVIOUS
<1>1. ASSUME NEW n \in Nodes PROVE Fit(n)
  <2>1. sys[n] = build_actor_system /\ step[n] = 0 /\ trace[n] = <<>>
        /\ status[n] = "down" /\ life[n] = 0
    BY DEF Init
  <2>2. Node(Config[n], build_actor_system) /\ build_actor_system.wire = {}
    BY Configured, BuiltNode DEF Host, build_actor_system
  <2>3. IsSeq(<<>>) /\ 0 \in 0..Config[n].steps
    BY Configured, SeqOne
  <2> QED
    BY <2>1, <2>2, <2>3 DEF Fit
<1>2. status \in [Nodes -> Statuses] /\ life \in [Nodes -> 0..MaxLives]
  BY BoundAssumption DEF Init, Statuses
<1>3. IsFiniteSet(flight) /\ flight = {}
  BY FS_EmptySet DEF Init
<1> QED
  BY <1>1, <1>2, <1>3 DEF Init, NodesInv

(* What a life begins with. *)
LEMMA NodesStart ==
    ASSUME NodesInv, NEW n \in Nodes, Start(n)
    PROVE  NodesInv'
<1> DEFINE up == Startup(Config[n])
<1>1. Booted(Config[n], up)
  BY Configured, StartupNode
<1>2. /\ status' = [status EXCEPT ![n] = "up"] /\ life' = [life EXCEPT ![n] = @ + 1]
      /\ sys' = [sys EXCEPT ![n] = up.sys] /\ trace' = [trace EXCEPT ![n] = up.events]
      /\ step' = [step EXCEPT ![n] = 0] /\ flight' = flight /\ life[n] < MaxLives
  BY DEF Start
<1> HIDE DEF up
<1>3. life[n] \in Nat /\ life[n] + 1 \in 0..MaxLives
  BY <1>2, BoundAssumption DEF NodesInv
<1>4. status' \in [Nodes -> Statuses] /\ life' \in [Nodes -> 0..MaxLives]
  BY <1>2, <1>3 DEF NodesInv, Statuses
<1>5. /\ sys' = [m \in Nodes |-> IF m = n THEN up.sys ELSE sys[m]]
      /\ trace' = [m \in Nodes |-> IF m = n THEN up.events ELSE trace[m]]
      /\ step' = [m \in Nodes |-> IF m = n THEN 0 ELSE step[m]]
  BY <1>2 DEF NodesInv
<1>6. ASSUME NEW m \in Nodes PROVE Fit(m)'
  <2>1. CASE m = n
    <3>1. Node(Config[m], sys'[m]) /\ sys'[m].wire = {} /\ IsSeq(trace'[m])
      BY <1>1, <1>5, <2>1 DEF Booted
    <3>2. step'[m] \in 0..Config[m].steps /\ (status'[m] = "down" <=> life'[m] = 0)
      BY <1>2, <1>3, <1>5, <2>1, Configured DEF NodesInv
    <3> QED
      BY <3>1, <3>2 DEF Fit
  <2>2. CASE m # n
    BY <1>2, <1>5, <2>2 DEF Fit, NodesInv
  <2> QED
    BY <2>1, <2>2
<1>7. ASSUME NEW f \in flight PROVE Flying(f)'
  <2>1. Flying(f)
    BY DEF NodesInv
  <2>2. life'[f.env.from_node] \in {life[f.env.from_node], life[f.env.from_node] + 1}
        /\ life[f.env.from_node] \in Nat
    BY <1>2, <2>1 DEF Flying, NodesInv
  <2>3. \A k \in Nat : 1..k \subseteq 1..(k + 1)
    OBVIOUS
  <2> QED
    BY <2>1, <2>2, <2>3 DEF Flying
<1> QED
  BY <1>2, <1>4, <1>5, <1>6, <1>7 DEF NodesInv

(* The end of a life. *)
LEMMA NodesEnd ==
    ASSUME NodesInv, NEW n \in Nodes, Stop(n) \/ Kill(n)
    PROVE  NodesInv'
<1>1. /\ \E s \in Statuses \ {"down"} : status' = [status EXCEPT ![n] = s]
      /\ status[n] = "up"
      /\ life' = life /\ sys' = sys /\ step' = step /\ flight' = flight
      /\ \/ trace' = trace
         \/ \E k \in 0..Len(trace[n]) : trace' = [trace EXCEPT ![n] = SubSeq(@, 1, k)]
  BY DEF Stop, Kill, Statuses
<1>2. status' \in [Nodes -> Statuses]
  BY <1>1 DEF NodesInv
<1>3. ASSUME NEW m \in Nodes PROVE IsSeq(trace[m]) /\ Len(trace[m]) \in Nat
  BY SeqLen DEF NodesInv, Fit
<1>4. trace' = [m \in Nodes |-> trace'[m]] /\ \A m \in Nodes : IsSeq(trace'[m])
  <2>1. CASE trace' = trace
    BY <1>3, <2>1 DEF NodesInv
  <2>2. ASSUME NEW k \in 0..Len(trace[n]), trace' = [trace EXCEPT ![n] = SubSeq(@, 1, k)]
        PROVE  trace' = [m \in Nodes |-> trace'[m]] /\ \A m \in Nodes : IsSeq(trace'[m])
    <3>1. k \in Nat /\ k <= Len(trace[n])
      BY <1>3
    <3>2. IsSeq(SubSeq(trace[n], 1, k))
      BY <1>3, <3>1, SeqPrefix
    <3>3. trace' = [m \in Nodes |-> IF m = n THEN SubSeq(trace[n], 1, k) ELSE trace[m]]
      BY <2>2 DEF NodesInv
    <3> QED
      BY <1>3, <3>2, <3>3
  <2> QED
    BY <1>1, <2>1, <2>2
<1>5. ASSUME NEW m \in Nodes PROVE Fit(m)'
  <2>1. status'[m] = "down" <=> status[m] = "down"
    BY <1>1 DEF NodesInv
  <2> QED
    BY <1>1, <1>4, <2>1 DEF NodesInv, Fit
<1>6. \A f \in flight : Flying(f)'
  BY <1>1 DEF NodesInv, Flying
<1> QED
  BY <1>1, <1>2, <1>4, <1>5, <1>6 DEF NodesInv

(***************************************************************************)
(* What an iteration is handed, and what it hands to the network.          *)
(***************************************************************************)
Envelopes(F) == {f.env : f \in F}
Opened(got) == [i \in DOMAIN got |-> got[i].env]
Launched(wire, l) == {[env |-> env, life |-> l] : env \in wire}

Ran1(n, lost, got) ==
    Iteration(sys[n], Config[n], step[n], Envelopes(lost), Opened(got))

(* Envelopes lost, and others released in some order. *)
Handed(n, lost, got) ==
    /\ IsFiniteSet(lost) /\ IsFiniteSet(Envelopes(lost)) /\ lost \subseteq flight
    /\ IsSeq(got) /\ IsSeq(Opened(got)) /\ Len(Opened(got)) = Len(got)
    /\ \A i \in 1..Len(got) : /\ got[i] \in flight /\ got[i] \notin lost
                              /\ Opened(got)[i] = got[i].env
    /\ \A i, j \in 1..Len(got) : got[i] = got[j] => i = j
    /\ Range(got) = {got[i] : i \in 1..Len(got)}
    /\ \A f \in lost \cup Range(got) : f \in flight /\ f.env.to_node = n

LEMMA ImageFinite ==
    ASSUME NEW S, IsFiniteSet(S), NEW T, NEW f, f \in Surjection(S, T)
    PROVE  IsFiniteSet(T)
BY FS_Surjection

LEMMA ArrivalsHanded ==
    ASSUME NodesInv, NEW n \in Nodes, NEW arrived \in Arrivals(n),
           NEW lost \in Losses(n, arrived), NEW got \in SetToSeqs(arrived \ lost)
    PROVE  Handed(n, lost, got)
<1> DEFINE S == arrived \ lost
           k == Cardinality(S)
<1>1. arrived \subseteq flight /\ lost \subseteq arrived /\ \A f \in arrived : f.env.to_node = n
  BY DEF Arrivals, Losses
<1>2. IsFiniteSet(arrived) /\ IsFiniteSet(lost) /\ IsFiniteSet(S)
  BY <1>1, FS_Subset DEF NodesInv
<1>3. k \in Nat
  BY <1>2, FS_CardinalityType
<1>4. got \in [1..k -> S] /\ \A i, j \in 1..k : i # j => got[i] # got[j]
  BY DEF SetToSeqs
<1> HIDE DEF k
<1>5. IsSeq(got) /\ Len(got) = k
  BY <1>3, <1>4, SeqMade
<1>6. \A i \in 1..Len(got) : got[i] \in arrived /\ got[i] \notin lost
  BY <1>4, <1>5
<1>7. IsSeq(Opened(got)) /\ Len(Opened(got)) = Len(got)
      /\ \A i \in 1..Len(got) : Opened(got)[i] = got[i].env
  <2>1. DOMAIN got = 1..k
    BY <1>4
  <2>2. Opened(got) = [i \in 1..k |-> Opened(got)[i]]
    BY <2>1 DEF Opened
  <2>3. \A i \in 1..k : Opened(got)[i] = got[i].env
    BY <2>1 DEF Opened
  <2> QED
    BY <1>3, <1>5, <2>2, <2>3, SeqMade
<1>8. Range(got) = {got[i] : i \in 1..Len(got)}
  BY <1>4, <1>5 DEF Range
<1>9. IsFiniteSet(Envelopes(lost))
  <2>1. [f \in lost |-> f.env] \in Surjection(lost, Envelopes(lost))
    BY DEF Surjection, Envelopes
  <2> QED
    BY <1>2, <2>1, ImageFinite
<1>10. \A i, j \in 1..Len(got) : got[i] = got[j] => i = j
  BY <1>4, <1>5
<1>11. \A f \in lost \cup Range(got) : f \in flight /\ f.env.to_node = n
  BY <1>1, <1>6, <1>8
<1> QED
  BY <1>1, <1>2, <1>5, <1>6, <1>7, <1>8, <1>9, <1>10, <1>11 DEF Handed

(* What a step of node n changes. *)
Stepped(n, lost, got, ran) ==
    /\ ran = Ran1(n, lost, got)
    /\ status[n] = "up" /\ step[n] + 1 \in 0..Config[n].steps /\ step[n] \in Nat
    /\ sys' = [m \in Nodes |-> IF m = n THEN [ran.sys EXCEPT !.wire = {}] ELSE sys[m]]
    /\ trace' = [m \in Nodes |-> IF m = n THEN trace[n] \o ran.events ELSE trace[m]]
    /\ step' = [m \in Nodes |-> IF m = n THEN step[n] + 1 ELSE step[m]]
    /\ status' = [m \in Nodes |-> IF m = n THEN IF ran.ok THEN "up" ELSE "failed"
                                  ELSE status[m]]
    /\ flight' = (flight \ (lost \cup Range(got))) \cup Launched(ran.sys.wire, life[n])
    /\ drained' = drained \cup {[sent |-> f, received |-> FALSE] : f \in lost}
                          \cup {[sent |-> f, received |-> TRUE] : f \in Range(got)}
    /\ life' = life

LEMMA StepParts ==
    ASSUME NodesInv, NEW n \in Nodes, NEW lost, NEW got, Step(n, lost, got)
    PROVE  \E ran : Stepped(n, lost, got, ran)
<1> DEFINE ran == Ran1(n, lost, got)
<1>1. ran = Iteration(sys[n], Config[n], step[n], {f.env : f \in lost},
                      [i \in DOMAIN got |-> got[i].env])
  BY DEF Ran1, Envelopes, Opened
<1> HIDE DEF ran
<1>2. /\ sys' = [sys EXCEPT ![n] = [ran.sys EXCEPT !.wire = {}]]
      /\ trace' = [trace EXCEPT ![n] = @ \o ran.events]
      /\ flight' = (flight \ (lost \cup Range(got)))
                     \cup {[env |-> env, life |-> life[n]] : env \in ran.sys.wire}
      /\ status' = [status EXCEPT ![n] = IF ran.ok THEN "up" ELSE "failed"]
  BY <1>1 DEF Step
<1>3. step' = [step EXCEPT ![n] = @ + 1] /\ life' = life /\ status[n] = "up"
      /\ step[n] < Config[n].steps
  BY DEF Step
<1>4. step[n] \in 0..Config[n].steps /\ Config[n].steps \in Nat
  BY Configured DEF NodesInv, Fit
<1>5. step[n] + 1 \in 0..Config[n].steps /\ step[n] \in Nat
  BY <1>3, <1>4
<1>6. drained' = drained \cup {[sent |-> f, received |-> FALSE] : f \in lost}
                         \cup {[sent |-> f, received |-> TRUE] : f \in Range(got)}
  BY DEF Step
<1>7. flight' = (flight \ (lost \cup Range(got))) \cup Launched(ran.sys.wire, life[n])
  BY <1>2 DEF Launched
<1>8. /\ sys' = [m \in Nodes |-> IF m = n THEN [ran.sys EXCEPT !.wire = {}] ELSE sys[m]]
      /\ trace' = [m \in Nodes |-> IF m = n THEN trace[n] \o ran.events ELSE trace[m]]
  BY <1>2 DEF NodesInv
<1>9. /\ step' = [m \in Nodes |-> IF m = n THEN step[n] + 1 ELSE step[m]]
      /\ status' = [m \in Nodes |-> IF m = n THEN IF ran.ok THEN "up" ELSE "failed"
                                    ELSE status[m]]
  BY <1>2, <1>3 DEF NodesInv
<1> QED
  BY <1>3, <1>5, <1>6, <1>7, <1>8, <1>9 DEF Stepped, ran

(* A node whose messages are with the network. *)
LEMMA SentAway ==
    ASSUME NEW cfg, NEW x, Node(cfg, x), NEW y, y = [x EXCEPT !.wire = {}]
    PROVE  /\ Node(cfg, y) /\ y.wire = {} /\ y.inbox = x.inbox /\ y.timers = x.timers
           /\ y.msg_counter = x.msg_counter
<1>1. y = [inbox |-> x.inbox, state |-> x.state, timers |-> x.timers,
           msg_counter |-> x.msg_counter, timer_counter |-> x.timer_counter,
           wire |-> {}]
  BY DEF Node
<1>2. /\ y.inbox = x.inbox /\ y.state = x.state /\ y.timers = x.timers
      /\ y.msg_counter = x.msg_counter /\ y.timer_counter = x.timer_counter
      /\ y.wire = {}
      /\ y = [inbox |-> y.inbox, state |-> y.state, timers |-> y.timers,
              msg_counter |-> y.msg_counter, timer_counter |-> y.timer_counter,
              wire |-> y.wire]
  BY <1>1
<1> HIDE <1>1
<1>3. Timers(cfg, y)
  <2>1. next_deterministic_timer_id(cfg, y) = next_deterministic_timer_id(cfg, x)
    BY <1>2 DEF next_deterministic_timer_id
  <2> QED
    BY <1>2, <2>1 DEF Node, Timers
<1>4. Addressed(cfg, y.wire)
  BY <1>2, FS_EmptySet DEF Addressed
<1> QED
  BY <1>2, <1>3, <1>4 DEF Node

LEMMA NodesStep ==
    ASSUME NodesInv, NEW n \in Nodes, NEW lost, NEW got, Handed(n, lost, got),
           NEW ran, Stepped(n, lost, got, ran)
    PROVE  NodesInv' /\ Iterated(Config[n], sys[n], step[n], ran)
<1>1. Node(Config[n], sys[n]) /\ step[n] \in Nat /\ IsSeq(trace[n]) /\ life[n] \in 0..MaxLives
  BY DEF NodesInv, Fit, Stepped
<1>2. Iterated(Config[n], sys[n], step[n], ran)
  BY <1>1, Configured, IterationNode DEF Stepped, Ran1, Handed
<1>3. Node(Config[n], ran.sys) /\ IsSeq(ran.events) /\ ran.ok \in BOOLEAN
  BY <1>2 DEF Iterated
<1>4. ASSUME NEW m \in Nodes PROVE Fit(m)'
  <2>1. CASE m = n
    <3> DEFINE y == [ran.sys EXCEPT !.wire = {}]
    <3>1. sys'[m] = y /\ trace'[m] = trace[n] \o ran.events /\ step'[m] = step[n] + 1
      BY <2>1 DEF Stepped
    <3>2. Node(Config[n], y) /\ y.wire = {}
      BY <1>3, SentAway
    <3> HIDE DEF y
    <3>3. IsSeq(trace[n] \o ran.events)
      BY <1>1, <1>3, SeqConcat
    <3>4. status'[m] # "down" /\ life'[m] # 0 /\ step[n] + 1 \in 0..Config[m].steps
      BY <2>1 DEF NodesInv, Fit, Stepped
    <3> QED
      BY <2>1, <3>1, <3>2, <3>3, <3>4 DEF Fit
  <2>2. CASE m # n
    BY <2>2 DEF Fit, NodesInv, Stepped
  <2> QED
    BY <2>1, <2>2
<1>5. IsFiniteSet(ran.sys.wire) /\ \A env \in ran.sys.wire : /\ env.from_node = n
                                                             /\ env.to_node \in Config[n].peers
  BY <1>3, Configured DEF Node, Addressed
<1>6. IsFiniteSet(Launched(ran.sys.wire, life[n]))
  <2>1. [env \in ran.sys.wire |-> [env |-> env, life |-> life[n]]]
          \in Surjection(ran.sys.wire, Launched(ran.sys.wire, life[n]))
    BY DEF Surjection, Launched
  <2> QED
    BY <1>5, <2>1, ImageFinite
<1>7. IsFiniteSet(flight')
  <2>1. IsFiniteSet(flight \ (lost \cup Range(got)))
    BY FS_Subset DEF NodesInv
  <2> QED
    BY <1>6, <2>1, FS_Union DEF Stepped
<1>8. life[n] \in 1..life[n]
  BY <1>1 DEF NodesInv, Fit, Stepped
<1>9. \A f \in flight' : Flying(f)'
  <2>1. ASSUME NEW f \in flight PROVE Flying(f)'
    BY DEF NodesInv, Flying, Stepped
  <2>2. ASSUME NEW f \in Launched(ran.sys.wire, life[n]) PROVE Flying(f)'
    <3>1. PICK env \in ran.sys.wire : f = [env |-> env, life |-> life[n]]
      BY DEF Launched
    <3> QED
      BY <1>5, <1>8, <3>1 DEF Flying, Stepped
  <2> QED
    BY <2>1, <2>2 DEF Stepped
<1>10. status' \in [Nodes -> Statuses] /\ life' \in [Nodes -> 0..MaxLives]
  BY <1>3 DEF NodesInv, Stepped, Statuses
<1> QED
  BY <1>2, <1>4, <1>7, <1>9, <1>10 DEF NodesInv, Stepped

LEMMA NodesNext == NodesInv /\ [Next]_vars => NodesInv'
<1> SUFFICES ASSUME NodesInv, [Next]_vars PROVE NodesInv'
  OBVIOUS
<1>1. ASSUME NEW n \in Nodes, Start(n) \/ Stop(n) \/ Kill(n) PROVE NodesInv'
  BY <1>1, NodesStart, NodesEnd
<1>2. ASSUME NEW n \in Nodes, NEW arrived \in Arrivals(n), NEW lost \in Losses(n, arrived),
             NEW got \in SetToSeqs(arrived \ lost), Step(n, lost, got)
      PROVE  NodesInv'
  <2>1. PICK ran : Stepped(n, lost, got, ran)
    BY <1>2, StepParts
  <2> QED
    BY <2>1, ArrivalsHanded, NodesStep
<1>3. CASE UNCHANGED vars
  BY <1>3 DEF vars, NodesInv, Fit, Flying
<1> QED
  BY <1>1, <1>2, <1>3 DEF Next, Finished

LEMMA NodesHold == Spec => []NodesInv
BY NodesInit, NodesNext, PTL DEF Spec

(* Node states, and an envelope in flight comes from a node that has been  *)
(* started as often as the envelope says, and goes to one of its peers.    *)
THEOREM ClusterTypes == Spec => []TypeOK
<1>1. NodesInv => TypeOK
  <2> SUFFICES ASSUME NodesInv PROVE TypeOK
    OBVIOUS
  <2>1. ASSUME NEW n \in Nodes
        PROVE  /\ step[n] \in 0..Config[n].steps
               /\ DOMAIN sys[n].inbox = Services /\ sys[n].wire = {}
               /\ \A t \in sys[n].timers : t.out.delay > 0
    <3>1. Node(Config[n], sys[n]) /\ sys[n].wire = {} /\ step[n] \in 0..Config[n].steps
      BY DEF NodesInv, Fit
    <3>2. sys[n].inbox = [s \in Services |-> sys[n].inbox[s]]
      BY <3>1 DEF Node
    <3>3. \A t \in sys[n].timers : t.out.delay > 0
      BY <3>1 DEF Node, Timers
    <3> DEFINE box == sys[n].inbox
    <3>4. DOMAIN box = Services
      <4>1. box = [s \in Services |-> box[s]]
        BY <3>2
      <4> HIDE DEF box
      <4> QED
        BY <4>1
    <3> QED
      BY <3>1, <3>3, <3>4
  <2>2. status \in [Nodes -> {"down", "up", "stopped", "failed", "killed"}]
        /\ life \in [Nodes -> 0..MaxLives]
    BY DEF NodesInv, Statuses
  <2>3. \A f \in flight : /\ f.env.from_node \in Nodes
                          /\ f.env.to_node \in Config[f.env.from_node].peers
                          /\ f.life \in 1..life[f.env.from_node]
    BY DEF NodesInv, Flying
  <2> QED
    BY <2>1, <2>2, <2>3 DEF TypeOK
<1> QED
  BY <1>1, NodesHold, PTL


------------------------------------------------------------------------------
(***************************************************************************)
(* Every node started at most once: what the nodes have sent each other is *)
(* genuine, and `tool verify' has nothing to say of a trace but what is    *)
(* missing at its end.                                                     *)
(***************************************************************************)
Found(e) == verify_trace(e, positions(e)).problems

Drained == {d.sent.env : d \in drained}
Ever == Envelopes(flight) \cup Drained
Mail(n) == {w \in Ever : w.from_node = n}
Came(n) == {w \in Drained : w.to_node = n}
ToNode(n) == {w \in Ever : w.to_node = n}

Kept(n) ==
    \E e, li : /\ Audited(Config[n], e, sys[n], Came(n), Mail(n), li)
               /\ status[n] = "up" => e = trace[n]

Verdict(n) ==
    /\ status[n] = "stopped" => Found(trace[n]) = {}
    /\ status[n] = "failed" => Found(trace[n]) = {"deliver_at_end"}
    /\ status[n] = "killed" => Found(trace[n]) \subseteq {"deliver_at_end", "timer_at_end"}

Local(n) ==
    /\ status[n] = "down" => Mail(n) = {} /\ Came(n) = {}
    /\ status[n] # "down" => Kept(n)
    /\ Verdict(n)

LocalInv ==
    /\ \A w \in Ever : w.from_node \in Nodes
    /\ \A w \in Envelopes(flight) : w \notin Drained
    /\ \A n \in Nodes : Local(n)

(* One start for each, and a program without a service of the name the     *)
(* bootstrap messages are sent under.                                      *)
Once == MaxLives = 1 /\ System \notin Services

(* The verdict on a whole trace, on its beginning, and on one that ends    *)
(* with the delivery of a message whose handler failed.                    *)
Quiet(v) == v.timer = <<>> /\ v.effect = <<>> /\ v.problems = {}

LEMMA AuditedQuiet ==
    ASSUME NEW cfg, NEW e, NEW x, NEW came, NEW past, NEW li,
           Audited(cfg, e, x, came, past, li), \A env \in came : env.to \in Services
    PROVE  \E v, n : Tells(e, v, n) /\ Quiet(v)
<1>1. PICK pr, dr, n : /\ Tells(e, Calm(pr, li, dr, n), n)
                       /\ Books(cfg, x, past \cup x.wire, pr, li, dr, came, n)
  BY DEF Audited
<1>2. n = 0
  BY <1>1 DEF Books, Noted
<1> DEFINE v == Calm(pr, li, dr, n)
<1>3. v.timer = <<>> /\ v.effect = <<>> /\ v.problems = If(n # 0, "netrecv_to_unknown")
  BY CalmParts
<1>4. Tells(e, v, n)
  BY <1>1
<1> HIDE DEF v
<1>5. Quiet(v)
  BY <1>2, <1>3 DEF Quiet, If
<1> QED
  BY <1>4, <1>5

LEMMA WholeVerdict ==
    ASSUME NEW cfg, NEW e, NEW x, NEW came, NEW past, NEW li,
           Audited(cfg, e, x, came, past, li), \A env \in came : env.to \in Services
    PROVE  Found(e) = {}
<1>1. PICK v, n : Tells(e, v, n) /\ Quiet(v)
  BY AuditedQuiet
<1>2. Found(e) = v.problems \cup If(v.timer # <<>>, "timer_at_end")
                            \cup If(v.effect # <<>>, "deliver_at_end")
  BY <1>1, TellsVerdict DEF Found
<1> QED
  BY <1>1, <1>2 DEF Quiet, If

LEMMA CutVerdict ==
    ASSUME NEW cfg, NEW e, NEW x, NEW came, NEW past, NEW li,
           Audited(cfg, e, x, came, past, li), \A env \in came : env.to \in Services,
           NEW k \in 0..Len(e)
    PROVE  Found(SubSeq(e, 1, k)) \subseteq {"deliver_at_end", "timer_at_end"}
<1> DEFINE g == SubSeq(e, 1, k)
<1>1. PICK v, n : Tells(e, v, n) /\ Quiet(v)
  BY AuditedQuiet
<1>2. PICK w, c : Tells(g, w, c) /\ w.problems \subseteq v.problems
  BY <1>1, PrefixTold
<1> HIDE DEF g
<1>3. Found(g) = w.problems \cup If(w.timer # <<>>, "timer_at_end")
                            \cup If(w.effect # <<>>, "deliver_at_end")
  BY <1>2, TellsVerdict DEF Found
<1>4. Found(g) \subseteq {"deliver_at_end", "timer_at_end"}
  BY <1>1, <1>2, <1>3 DEF Quiet, If
<1> QED
  BY <1>4 DEF g

LEMMA FailedVerdict ==
    ASSUME NEW cfg, cfg.node \in Nat, NEW e, NEW x, Node(cfg, x), NEW came, NEW past, NEW li,
           Audited(cfg, e, x, came, past, li), Genuine(cfg.node, came),
           \A env \in came : env.to \in Services,
           NEW s \in Services, x.inbox[s] # <<>>
    PROVE  Found(Append(e, Taking(cfg, x, s))) = {"deliver_at_end"}
<1> DEFINE g == Append(e, Taking(cfg, x, s))
<1>5. Pauses(g, came)
  BY TakingTold
<1> HIDE DEF g
<1>1. PICK v, n : /\ Tells(g, v, n) /\ Waits(v, n)
                  /\ n # 0 => \E env \in came : env.to \notin Services
  BY <1>5 DEF Pauses
<1>2. n = 0
  BY <1>1
<1>3. Found(g) = v.problems \cup If(v.timer # <<>>, "timer_at_end")
                            \cup If(v.effect # <<>>, "deliver_at_end")
  BY <1>1, TellsVerdict DEF Found
<1>4. Found(g) = {"deliver_at_end"}
  BY <1>1, <1>2, <1>3 DEF Waits, If
<1> QED
  BY <1>4 DEF g

(* The books of a node that was started. *)
LEMMA BooksKept ==
    ASSUME NodesInv, LocalInv, NEW n \in Nodes, status[n] # "down"
    PROVE  \E pr, li, dr, c : Books(Config[n], sys[n], Mail(n), pr, li, dr, Came(n), c)
<1>1. PICK e, li : Audited(Config[n], e, sys[n], Came(n), Mail(n), li)
  BY DEF LocalInv, Local, Kept
<1>2. sys[n].wire = {}
  BY DEF NodesInv, Fit
<1>3. Mail(n) \cup sys[n].wire = Mail(n)
  BY <1>2
<1> QED
  BY <1>1, <1>3 DEF Audited

(* A message between nodes has been written in answer to one its sender    *)
(* has delivered.                                                          *)
Written(n, env) ==
    /\ env.to_node # n /\ env.to \in Services
    /\ env.msg.from_node = n /\ Single(env.msg) /\ env.msg.prov[1].hops # 0
    /\ LET p == env.msg.prov[1]
       IN  IF p.parent_node = n THEN \A w \in Mail(n) : w.id # p.parent_msg
           ELSE \E w \in Came(n) : w.from_node = p.parent_node /\ w.id = p.parent_msg

LEMMA MailWritten ==
    ASSUME NodesInv, LocalInv, NEW n \in Nodes
    PROVE  /\ \A env \in Mail(n) : Written(n, env)
           /\ \A v, w \in Mail(n) : v.id = w.id => v = w
<1>1. CASE status[n] = "down"
  BY <1>1 DEF LocalInv, Local
<1>2. CASE status[n] # "down"
  <2>1. PICK pr, li, dr, c : Books(Config[n], sys[n], Mail(n), pr, li, dr, Came(n), c)
    BY <1>2, BooksKept
  <2>2. Config[n].node = n
    BY Configured
  <2> DEFINE mail == Mail(n)
             came == Came(n)
             next == NextId(Config[n], sys[n])
  <2>3. Mailed(Config[n], next, li, mail) /\ Keyed(Config[n], next, pr, li, mail, came)
    BY <2>1 DEF Books
  <2> HIDE DEF mail, came, next
  <2>4. ASSUME NEW env \in mail PROVE Written(n, env)
    <3> DEFINE p == env.msg.prov[1]
    <3>1. env.to_node # n /\ env.to \in Services /\ Child(Config[n], li, env.msg)
      BY <2>2, <2>3 DEF Mailed, Posted
    <3>2. env.msg.from_node = n /\ Single(env.msg) /\ p.hops # 0
      BY <2>2, <3>1 DEF Child
    <3>3. PICK l \in li : Names(p, l)
      BY <3>1 DEF Child
    <3>4. l.node = p.parent_node /\ l.id = p.parent_msg
          /\ Issued(Config[n], next, mail, came, l.node, l.id)
      BY <2>3, <3>3 DEF Keyed, Names
    <3>5. IF p.parent_node = n THEN \A w \in mail : w.id # p.parent_msg
          ELSE \E w \in came : w.from_node = p.parent_node /\ w.id = p.parent_msg
      BY <2>2, <3>4 DEF Issued
    <3> QED
      BY <3>1, <3>2, <3>5 DEF Written, mail, came
  <2>5. \A v, w \in mail : v.id = w.id => v = w
    BY <2>3 DEF Mailed
  <2> QED
    BY <2>4, <2>5 DEF mail
<1> QED
  BY <1>1, <1>2

LEMMA MailGenuine ==
    ASSUME Once, NodesInv, LocalInv, NEW n \in Nodes
    PROVE  /\ Genuine(n, ToNode(n))
           /\ \A env \in ToNode(n) : /\ Answers(Config[n], Mail(n), env.msg.prov[1])
                                     /\ env.to \in Services
<1>1. ASSUME NEW env \in ToNode(n)
      PROVE  /\ env.from_node \in Nodes /\ env.from_node # n /\ env \in Mail(env.from_node)
             /\ Written(env.from_node, env)
  <2>1. env \in Ever /\ env.to_node = n /\ env.from_node \in Nodes
    BY DEF ToNode, LocalInv
  <2>2. env \in Mail(env.from_node)
    BY <2>1 DEF Mail
  <2>3. Written(env.from_node, env)
    BY <2>1, <2>2, MailWritten
  <2> QED
    BY <2>1, <2>2, <2>3 DEF Written
<1>2. ASSUME NEW d \in ToNode(n), NEW e \in ToNode(n), d.from_node = e.from_node, d.id = e.id
      PROVE  d = e
  BY <1>1, <1>2, MailWritten
<1>3. ASSUME NEW env \in ToNode(n), NEW e \in ToNode(n),
             e.from_node = env.msg.prov[1].parent_node, e.id = env.msg.prov[1].parent_msg
      PROVE  FALSE
  <2> DEFINE a == env.from_node
             p == env.msg.prov[1]
  <2>1. Written(a, env) /\ a \in Nodes /\ a # n /\ e.to_node = n
    BY <1>1 DEF ToNode
  <2>2. e \in Mail(e.from_node) /\ e.from_node \in Nodes
    BY <1>1
  <2>3. CASE p.parent_node = a
    <3>1. \A w \in Mail(a) : w.id # p.parent_msg
      BY <2>1, <2>3 DEF Written
    <3> QED
      BY <1>3, <2>2, <2>3, <3>1
  <2>4. CASE p.parent_node # a
    <3>1. PICK w \in Came(a) : w.from_node = p.parent_node /\ w.id = p.parent_msg
      BY <2>1, <2>4 DEF Written
    <3>2. w \in Mail(e.from_node) /\ w.to_node = a
      BY <1>3, <3>1 DEF Came, Mail, Ever
    <3>3. w = e
      BY <1>3, <2>2, <3>1, <3>2, MailWritten
    <3> QED
      BY <2>1, <3>2, <3>3
  <2> QED
    BY <2>3, <2>4
<1>4. ASSUME NEW env \in ToNode(n)
      PROVE  /\ env.from_node # n /\ env.msg.from_node = env.from_node /\ env.to # System
             /\ Single(env.msg) /\ env.msg.prov[1].hops # 0 /\ env.to \in Services
             /\ Answers(Config[n], Mail(n), env.msg.prov[1])
  <2> DEFINE a == env.from_node
             p == env.msg.prov[1]
  <2>1. Written(a, env) /\ a # n
    BY <1>1
  <2>2. env.to \in Services /\ env.msg.from_node = a /\ Single(env.msg) /\ p.hops # 0
    BY <2>1 DEF Written
  <2>3. Answers(Config[n], Mail(n), p)
    <3>1. ASSUME p.parent_node = n PROVE \E w \in Mail(n) : w.id = p.parent_msg
      <4>1. PICK w \in Came(a) : w.from_node = n /\ w.id = p.parent_msg
        BY <2>1, <3>1 DEF Written
      <4>2. w \in Mail(n)
        BY <4>1 DEF Came, Mail, Ever
      <4> QED
        BY <4>1, <4>2
    <3>2. Config[n].node = n
      BY Configured
    <3> QED
      BY <3>1, <3>2 DEF Answers
  <2> QED
    BY <2>1, <2>2, <2>3 DEF Once
<1>5. Genuine(n, ToNode(n))
  BY <1>2, <1>3, <1>4 DEF Genuine
<1> QED
  BY <1>4, <1>5


(* Nothing changed at node m, and nothing it has sent or received. *)
Unmoved(m) ==
    /\ status'[m] = status[m] /\ sys'[m] = sys[m] /\ trace'[m] = trace[m]
    /\ Mail(m)' = Mail(m) /\ Came(m)' = Came(m)

LEMMA LocalUnmoved ==
    ASSUME NEW m \in Nodes, Local(m), Unmoved(m)
    PROVE  Local(m)'
BY DEF Local, Unmoved, Kept, Verdict

LEMMA SameMail ==
    ASSUME flight' = flight, drained' = drained
    PROVE  /\ Ever' = Ever /\ Drained' = Drained /\ Envelopes(flight)' = Envelopes(flight)
           /\ \A m : Mail(m)' = Mail(m) /\ Came(m)' = Came(m)
BY DEF Ever, Drained, Mail, Came, Envelopes

LEMMA LocalInit == Init => LocalInv
<1> SUFFICES ASSUME Init PROVE LocalInv
  OBVIOUS
<1>1. flight = {} /\ drained = {} /\ \A n \in Nodes : status[n] = "down"
  BY DEF Init
<1>2. Ever = {} /\ Drained = {} /\ Envelopes(flight) = {}
  BY <1>1 DEF Ever, Drained, Envelopes
<1> QED
  BY <1>1, <1>2 DEF LocalInv, Local, Mail, Came, Verdict

(* What a started node has received is for services of its program. *)
LEMMA CameServed ==
    ASSUME Once, NodesInv, LocalInv, NEW n \in Nodes
    PROVE  \A env \in Came(n) : env.to \in Services
<1>1. Came(n) \subseteq ToNode(n)
  BY DEF Came, ToNode, Ever
<1> QED
  BY <1>1, MailGenuine

LEMMA LocalStart ==
    ASSUME Once, NodesInv, LocalInv, NEW n \in Nodes, Start(n)
    PROVE  LocalInv'
<1> DEFINE up == Startup(Config[n])
<1>1. Audited(Config[n], up.events, up.sys, {}, {}, {})
  BY Configured, StartupAudited DEF Once
<1>2. /\ status' = [status EXCEPT ![n] = "up"] /\ sys' = [sys EXCEPT ![n] = up.sys]
      /\ trace' = [trace EXCEPT ![n] = up.events]
      /\ flight' = flight /\ drained' = drained /\ life[n] < MaxLives
  BY DEF Start
<1> HIDE DEF up
<1>3. status[n] = "down"
  <2>1. life[n] \in 0..1 /\ life[n] < 1
    BY <1>2 DEF Once, NodesInv
  <2>2. life[n] = 0
    BY <2>1
  <2> QED
    BY <2>2 DEF NodesInv, Fit
<1>4. /\ Ever' = Ever /\ Drained' = Drained /\ Envelopes(flight)' = Envelopes(flight)
      /\ \A m : Mail(m)' = Mail(m) /\ Came(m)' = Came(m)
  BY <1>2, SameMail
<1>5. Mail(n)' = {} /\ Came(n)' = {}
  BY <1>3, <1>4 DEF LocalInv, Local
<1>6. status'[n] = "up" /\ sys'[n] = up.sys /\ trace'[n] = up.events
  BY <1>2 DEF NodesInv
<1>7. Kept(n)'
  BY <1>1, <1>5, <1>6 DEF Kept
<1>8. Local(n)'
  BY <1>6, <1>7 DEF Local, Verdict
<1>9. ASSUME NEW m \in Nodes, m # n PROVE Local(m)'
  <2>1. Unmoved(m)
    BY <1>2, <1>4, <1>9 DEF Unmoved, NodesInv
  <2> QED
    BY <2>1, LocalUnmoved DEF LocalInv
<1> QED
  BY <1>4, <1>8, <1>9 DEF LocalInv

LEMMA LocalEnd ==
    ASSUME Once, NodesInv, LocalInv, NEW n \in Nodes, Stop(n) \/ Kill(n)
    PROVE  LocalInv'
<1>1. status[n] = "up" /\ sys' = sys /\ flight' = flight /\ drained' = drained
  BY DEF Stop, Kill
<1>2. /\ Ever' = Ever /\ Drained' = Drained /\ Envelopes(flight)' = Envelopes(flight)
      /\ \A m : Mail(m)' = Mail(m) /\ Came(m)' = Came(m)
  BY <1>1, SameMail
<1>3. PICK li : Audited(Config[n], trace[n], sys[n], Came(n), Mail(n), li)
  BY <1>1 DEF LocalInv, Local, Kept
<1>4. \A env \in Came(n) : env.to \in Services
  BY CameServed
<1>5. \/ status'[n] = "stopped" /\ trace'[n] = trace[n]
      \/ /\ status'[n] = "killed"
         /\ \E k \in 0..Len(trace[n]) : trace'[n] = SubSeq(trace[n], 1, k)
  BY DEF Stop, Kill, NodesInv
<1>6. Verdict(n)'
  <2>1. CASE status'[n] = "stopped" /\ trace'[n] = trace[n]
    <3>1. Found(trace[n]) = {}
      BY <1>3, <1>4, WholeVerdict
    <3> QED
      BY <2>1, <3>1 DEF Verdict
  <2>2. ASSUME NEW k \in 0..Len(trace[n]), status'[n] = "killed",
               trace'[n] = SubSeq(trace[n], 1, k)
        PROVE  Verdict(n)'
    <3>1. Found(SubSeq(trace[n], 1, k)) \subseteq {"deliver_at_end", "timer_at_end"}
      BY <1>3, <1>4, CutVerdict
    <3> QED
      BY <2>2, <3>1 DEF Verdict
  <2> QED
    BY <1>5, <2>1, <2>2
<1>7. Kept(n)'
  <2>1. status'[n] # "up" /\ sys'[n] = sys[n]
    BY <1>1, <1>5
  <2> QED
    BY <1>2, <1>3, <2>1 DEF Kept
<1>8. Local(n)'
  BY <1>5, <1>6, <1>7 DEF Local
<1>9. ASSUME NEW m \in Nodes, m # n PROVE Local(m)'
  <2>1. status'[m] = status[m] /\ trace'[m] = trace[m]
    BY <1>9 DEF Stop, Kill, NodesInv
  <2>2. Unmoved(m)
    BY <1>1, <1>2, <2>1 DEF Unmoved
  <2> QED
    BY <2>2, LocalUnmoved DEF LocalInv
<1> QED
  BY <1>2, <1>8, <1>9 DEF LocalInv

(* An envelope is in flight once. *)
LEMMA FlightOnce ==
    ASSUME Once, NodesInv, NEW f \in flight, NEW g \in flight, f.env = g.env
    PROVE  f = g
<1>1. Flying(f) /\ Flying(g)
  BY DEF NodesInv
<1>2. \A a \in Nodes : life[a] \in 0..1
  BY DEF NodesInv, Once
<1>3. f.life = 1 /\ g.life = 1
  <2>1. f.life \in 1..life[f.env.from_node] /\ life[f.env.from_node] \in 0..1
    BY <1>1, <1>2 DEF Flying
  <2>2. g.life \in 1..life[g.env.from_node] /\ life[g.env.from_node] \in 0..1
    BY <1>1, <1>2 DEF Flying
  <2> QED
    BY <2>1, <2>2
<1> QED
  BY <1>1, <1>3 DEF Flying

(* What the network hands a node is new to it and genuine. *)
LEMMA HandedReleased ==
    ASSUME Once, NodesInv, LocalInv, NEW n \in Nodes, NEW lost, NEW got, Handed(n, lost, got)
    PROVE  Released(Config[n], Mail(n) \cup sys[n].wire, Came(n) \cup Envelopes(lost), Opened(got))
<1> DEFINE q == Opened(got)
           came == Came(n) \cup Envelopes(lost)
<1>1. /\ IsSeq(q) /\ Len(q) = Len(got)
      /\ \A j \in 1..Len(got) : got[j] \in flight /\ got[j] \notin lost /\ q[j] = got[j].env
      /\ \A j, k \in 1..Len(got) : got[j] = got[k] => j = k
      /\ \A f \in lost : f \in flight /\ f.env.to_node = n
      /\ \A j \in 1..Len(got) : got[j].env.to_node = n
  BY DEF Handed
<1>2. ASSUME NEW f \in flight, NEW g \in flight, f.env = g.env PROVE f = g
  BY <1>2, FlightOnce
<1>3. Config[n].node = n /\ sys[n].wire = {}
  BY Configured DEF NodesInv, Fit
<1>4. \A f \in flight : f.env \in Ever /\ f.env \notin Drained
  BY DEF LocalInv, Ever, Envelopes
<1> HIDE DEF q
<1>5. \A j, k \in 1..Len(q) : q[j] = q[k] => j = k
  BY <1>1, <1>2
<1>6. \A j \in 1..Len(q) : q[j] \in ToNode(n) /\ q[j] \notin came
  <2>1. ASSUME NEW j \in 1..Len(q) PROVE q[j] \in ToNode(n) /\ q[j] \notin came
    <3>1. got[j] \in flight /\ got[j] \notin lost /\ q[j] = got[j].env /\ got[j].env.to_node = n
      BY <1>1
    <3>2. q[j] \in ToNode(n)
      BY <1>4, <3>1 DEF ToNode
    <3>3. q[j] \notin Came(n)
      BY <1>4, <3>1 DEF Came
    <3>4. \A f \in lost : f.env # q[j]
      BY <1>1, <1>2, <3>1
    <3> QED
      BY <3>2, <3>3, <3>4 DEF Envelopes
  <2> QED
    BY <2>1
<1>7. came \subseteq ToNode(n)
  BY <1>1, <1>4 DEF ToNode, Came, Ever, Envelopes
<1> HIDE DEF came
<1>8. Genuine(n, came \cup {q[j] : j \in 1..Len(q)})
  <2>1. came \cup {q[j] : j \in 1..Len(q)} \subseteq ToNode(n)
    BY <1>6, <1>7
  <2> QED
    BY <2>1, MailGenuine, GenuineLess
<1>9. \A j \in 1..Len(q) : Answers(Config[n], Mail(n), q[j].msg.prov[1])
  BY <1>6, MailGenuine
<1>10. Mail(n) \cup sys[n].wire = Mail(n)
  BY <1>3
<1>11. Released(Config[n], Mail(n), came, q)
  BY <1>1, <1>3, <1>5, <1>6, <1>8, <1>9 DEF Released
<1> QED
  BY <1>10, <1>11 DEF came, q


(* The messages are the network's: the wire of the node is empty again. *)
LEMMA AuditedAway ==
    ASSUME NEW cfg, NEW e, NEW x, Node(cfg, x), NEW came, NEW past, NEW li,
           Audited(cfg, e, x, came, past, li), NEW y, y = [x EXCEPT !.wire = {}]
    PROVE  Audited(cfg, e, y, came, past \cup x.wire, li)
<1> DEFINE mail == past \cup x.wire
<1>1. PICK pr, dr, n : /\ Tells(e, Calm(pr, li, dr, n), n)
                       /\ Books(cfg, x, mail, pr, li, dr, came, n)
  BY DEF Audited
<1>2. /\ y.wire = {} /\ y.inbox = x.inbox /\ y.timers = x.timers
      /\ y.msg_counter = x.msg_counter
  BY SentAway
<1>3. NextId(cfg, y) = NextId(cfg, x)
  BY <1>2 DEF NextId
<1> HIDE DEF mail
<1>4. Books(cfg, y, mail, pr, li, dr, came, n)
  BY <1>1, <1>2, <1>3 DEF Books
<1>5. mail \cup y.wire = mail /\ Apart(mail, y.wire)
  BY <1>2 DEF Apart
<1> QED
  BY <1>1, <1>4, <1>5 DEF Audited, mail

LEMMA EnvelopesBoth ==
    ASSUME NEW a, NEW b
    PROVE  {f.env : f \in a \cup b} = Envelopes(a) \cup Envelopes(b)
BY DEF Envelopes

LEMMA LaunchedOf ==
    ASSUME NEW wire, NEW l
    PROVE  Envelopes(Launched(wire, l)) = wire
<1> DEFINE F == Launched(wire, l)
<1>1. \A w \in wire : [env |-> w, life |-> l] \in F
  BY DEF Launched
<1>2. \A f \in F : \E w \in wire : f.env = w
  BY DEF Launched
<1>3. \A w \in wire : \E f \in F : f.env = w
  BY <1>1
<1> HIDE DEF F
<1>4. Envelopes(F) = wire
  BY <1>2, <1>3 DEF Envelopes
<1> QED
  BY <1>4 DEF F

Sents(D) == {d.sent.env : d \in D}

LEMMA SentsBoth ==
    ASSUME NEW a, NEW b
    PROVE  Sents(a \cup b) = Sents(a) \cup Sents(b)
BY DEF Sents

LEMMA SentsOf ==
    ASSUME NEW F, NEW mark
    PROVE  Sents({[sent |-> f, received |-> mark] : f \in F}) = Envelopes(F)
<1> DEFINE D == {[sent |-> f, received |-> mark] : f \in F}
<1>1. \A f \in F : [sent |-> f, received |-> mark] \in D
  OBVIOUS
<1>2. \A d \in D : \E f \in F : d.sent = f
  OBVIOUS
<1>3. \A f \in F : \E d \in D : d.sent = f
  BY <1>1
<1> HIDE DEF D
<1>4. Sents(D) = Envelopes(F)
  BY <1>2, <1>3 DEF Sents, Envelopes
<1> QED
  BY <1>4 DEF D

(* What an iteration changes in what was sent and received. *)
Moved(got) == {got[j].env : j \in 1..Len(got)}

LEMMA MailMoves ==
    ASSUME NodesInv, NEW n \in Nodes, NEW lost, NEW got, Handed(n, lost, got),
           NEW ran, Stepped(n, lost, got, ran),
           \A w \in ran.sys.wire : w.from_node = n
    PROVE  /\ Ever' = Ever \cup ran.sys.wire
           /\ Drained' = (Drained \cup Envelopes(lost)) \cup Moved(got)
           /\ Mail(n)' = Mail(n) \cup ran.sys.wire
           /\ \A m \in Nodes : m # n => Mail(m)' = Mail(m) /\ Came(m)' = Came(m)
           /\ Came(n)' = Come(Came(n), Envelopes(lost), Opened(got))
           /\ Envelopes(flight)' = Envelopes(flight \ (lost \cup Range(got))) \cup ran.sys.wire
<1> DEFINE wire == ran.sys.wire
           moved == {got[j].env : j \in 1..Len(got)}
           rest == Envelopes(flight \ (lost \cup Range(got)))
<1>1. /\ lost \subseteq flight /\ Range(got) = {got[j] : j \in 1..Len(got)}
      /\ \A j \in 1..Len(got) : got[j] \in flight /\ got[j].env.to_node = n
      /\ \A f \in lost : f.env.to_node = n
      /\ Len(Opened(got)) = Len(got)
      /\ \A j \in 1..Len(got) : Opened(got)[j] = got[j].env
  BY DEF Handed
<1>2. /\ flight' = (flight \ (lost \cup Range(got))) \cup Launched(wire, life[n])
      /\ drained' = drained \cup {[sent |-> f, received |-> FALSE] : f \in lost}
                            \cup {[sent |-> f, received |-> TRUE] : f \in Range(got)}
  BY DEF Stepped
<1>3. Envelopes(Launched(wire, life[n])) = wire
  BY LaunchedOf
<1> HIDE DEF wire
<1>4. Envelopes(flight)' = rest \cup wire
  <2> DEFINE a == flight \ (lost \cup Range(got))
             b == Launched(wire, life[n])
  <2>1. Envelopes(flight)' = {f.env : f \in flight'} /\ flight' = a \cup b
    BY <1>2 DEF Envelopes
  <2> HIDE DEF a, b
  <2>3. {f.env : f \in a \cup b} = Envelopes(a) \cup Envelopes(b)
    BY EnvelopesBoth
  <2>2. Envelopes(flight)' = Envelopes(a) \cup Envelopes(b)
    BY <2>1, <2>3, Zenon
  <2> QED
    BY <1>3, <2>2 DEF a, b
<1>5. Drained' = (Drained \cup Envelopes(lost)) \cup moved
  <2> DEFINE a == {[sent |-> f, received |-> FALSE] : f \in lost}
             b == {[sent |-> f, received |-> TRUE] : f \in Range(got)}
  <2>1. Sents(a) = Envelopes(lost) /\ Sents(b) = Envelopes(Range(got))
    BY SentsOf
  <2>2. Envelopes(Range(got)) = moved
    <3> DEFINE R == {got[j] : j \in 1..Len(got)}
    <3>1. \A w : w \in moved => \E j \in 1..Len(got) : w = got[j].env
      OBVIOUS
    <3>2. \A j \in 1..Len(got) : got[j].env \in moved
      OBVIOUS
    <3>3. \A j \in 1..Len(got) : got[j] \in R
      OBVIOUS
    <3>4. \A f \in R : \E j \in 1..Len(got) : f = got[j]
      OBVIOUS
    <3> HIDE DEF moved, R
    <3>5. \A w \in Envelopes(R) : \E f \in R : w = f.env
      BY DEF Envelopes
    <3>6. \A f \in R : f.env \in Envelopes(R)
      BY DEF Envelopes
    <3>7. Envelopes(R) \subseteq moved
      BY <3>2, <3>4, <3>5
    <3>8. moved \subseteq Envelopes(R)
      BY <3>1, <3>3, <3>6
    <3> QED
      BY <1>1, <3>7, <3>8 DEF R
  <2>3. drained' = (drained \cup a) \cup b
    BY <1>2
  <2> HIDE DEF a, b, moved
  <2>4. Drained = Sents(drained) /\ Drained' = Sents(drained')
    BY DEF Drained, Sents
  <2>6. Sents((drained \cup a) \cup b) = Sents(drained \cup a) \cup Sents(b)
    BY SentsBoth
  <2>7. Sents(drained \cup a) = Sents(drained) \cup Sents(a)
    BY SentsBoth
  <2>5. Sents(drained') = (Sents(drained) \cup Sents(a)) \cup Sents(b)
    BY <2>3, <2>6, <2>7
  <2> QED
    BY <2>1, <2>2, <2>4, <2>5
<1>6. Envelopes(flight) = (rest \cup Envelopes(lost)) \cup moved
  BY <1>1 DEF Envelopes
<1>7. \A w \in Envelopes(lost) \cup moved : w.to_node = n
  BY <1>1 DEF Envelopes
<1> HIDE DEF rest
<1>8. Ever' = Ever \cup wire
  BY <1>4, <1>5, <1>6 DEF Ever
<1>9. \A m : Mail(m)' = {w \in Ever' : w.from_node = m}
  BY DEF Mail
<1>10. Mail(n)' = Mail(n) \cup wire
  BY <1>8, <1>9 DEF Mail, wire
<1>11. \A m \in Nodes : m # n => Mail(m)' = Mail(m)
  BY <1>8, <1>9 DEF Mail, wire
<1>12. \A m : Came(m)' = {w \in Drained' : w.to_node = m}
  BY DEF Came
<1>13. \A m \in Nodes : m # n => Came(m)' = Came(m)
  BY <1>5, <1>7, <1>12 DEF Came
<1>14. Came(n)' = (Came(n) \cup Envelopes(lost)) \cup moved
  BY <1>5, <1>7, <1>12 DEF Came
<1>15. moved = {Opened(got)[j] : j \in 1..Len(Opened(got))}
  BY <1>1
<1>16. Came(n)' = Come(Came(n), Envelopes(lost), Opened(got))
  BY <1>14, <1>15 DEF Come
<1> QED
  BY <1>4, <1>5, <1>8, <1>10, <1>11, <1>13, <1>16 DEF wire, rest, Moved


LEMMA LocalStep ==
    ASSUME Once, NodesInv, LocalInv, NEW n \in Nodes, NEW lost, NEW got, Handed(n, lost, got),
           NEW ran, Stepped(n, lost, got, ran)
    PROVE  LocalInv'
<1> DEFINE q == Opened(got)
           moved == Moved(got)
           all == Come(Came(n), Envelopes(lost), q)
           wire == ran.sys.wire
<1>1. /\ ran = Iteration(sys[n], Config[n], step[n], Envelopes(lost), q)
      /\ status[n] = "up" /\ step[n] \in Nat
      /\ sys'[n] = [ran.sys EXCEPT !.wire = {}]
      /\ trace'[n] = trace[n] \o ran.events
      /\ status'[n] = (IF ran.ok THEN "up" ELSE "failed")
      /\ \A m \in Nodes : m # n => /\ sys'[m] = sys[m] /\ trace'[m] = trace[m]
                                   /\ status'[m] = status[m]
  BY DEF Stepped, Ran1
<1>2. Host(Config[n]) /\ Config[n].node = n /\ n \in Nat
  BY Configured
<1>3. Node(Config[n], sys[n]) /\ IsSeq(trace[n])
  BY DEF NodesInv, Fit
<1>4. Node(Config[n], ran.sys)
  BY NodesStep DEF Iterated
<1>5. IsFiniteSet(Envelopes(lost))
  BY DEF Handed
<1>6. PICK li : Audited(Config[n], trace[n], sys[n], Came(n), Mail(n), li)
  BY <1>1 DEF LocalInv, Local, Kept
<1>7. Released(Config[n], Mail(n) \cup sys[n].wire, Came(n) \cup Envelopes(lost), q)
  BY HandedReleased
<1>8. Genuine(n, all) /\ Came(n) \subseteq all
  BY <1>2, <1>7 DEF Released, Come
<1>9. AuditedRun(Config[n], trace[n], ran, all, Mail(n))
  <2> HIDE DEF q
  <2>1. AuditedRun(Config[n], trace[n],
                   Iteration(sys[n], Config[n], step[n], Envelopes(lost), q), all, Mail(n))
    BY ONLY <1>1, <1>2, <1>3, <1>5, <1>6, <1>7, IterationAudited DEF all
  <2> QED
    BY <1>1, <2>1
<1>10. \A w \in wire : w.from_node = n
  BY <1>2, <1>4 DEF Node, Addressed
<1>11. /\ Ever' = Ever \cup wire
       /\ Drained' = (Drained \cup Envelopes(lost)) \cup moved
       /\ Mail(n)' = Mail(n) \cup wire /\ Came(n)' = all
       /\ \A m \in Nodes : m # n => Mail(m)' = Mail(m) /\ Came(m)' = Came(m)
       /\ Envelopes(flight)' = Envelopes(flight \ (lost \cup Range(got))) \cup wire
  BY <1>10, MailMoves
<1> HIDE DEF q, all, moved
<1>12. PICK e, l2 :
          /\ Audited(Config[n], e, ran.sys, all, Mail(n), l2)
          /\ IF ran.ok THEN trace[n] \o ran.events = e
             ELSE \E s : /\ s \in Services /\ ran.sys.inbox[s] # <<>>
                         /\ trace[n] \o ran.events = Append(e, Taking(Config[n], ran.sys, s))
  BY <1>9 DEF AuditedRun
<1>13. Audited(Config[n], e, sys'[n], Came(n)', Mail(n)', l2)
  <2> DEFINE y == [ran.sys EXCEPT !.wire = {}]
  <2>1. Audited(Config[n], e, y, all, Mail(n) \cup ran.sys.wire, l2)
    BY <1>4, <1>12, AuditedAway
  <2> HIDE DEF y
  <2>2. sys'[n] = y
    BY <1>1 DEF y
  <2> QED
    BY <1>11, <2>1, <2>2
<1>14. Kept(n)'
  <2>1. status'[n] = "up" => e = trace'[n]
    BY <1>1, <1>12
  <2> QED
    BY <1>13, <2>1 DEF Kept
<1>15. \A env \in all : env.to \in Services
  <2>1. all \subseteq ToNode(n)
    <3>1. /\ \A f \in lost : f \in flight /\ f.env.to_node = n
          /\ \A j \in 1..Len(got) : q[j] = got[j].env /\ got[j] \in flight /\ got[j].env.to_node = n
          /\ Len(q) = Len(got)
      BY DEF Handed, q
    <3>2. Came(n) \subseteq ToNode(n) /\ Envelopes(lost) \subseteq ToNode(n)
      BY <3>1 DEF Came, ToNode, Ever, Envelopes
    <3>3. \A j \in 1..Len(q) : q[j] \in ToNode(n)
      BY <3>1 DEF ToNode, Ever, Envelopes
    <3> QED
      BY <3>2, <3>3 DEF all, Come
  <2> QED
    BY <2>1, MailGenuine
<1>16. Verdict(n)'
  <2>1. CASE ran.ok
    BY <1>1, <2>1 DEF Verdict
  <2>2. CASE ~ ran.ok
    <3>1. PICK s \in Services :
             /\ ran.sys.inbox[s] # <<>>
             /\ trace[n] \o ran.events = Append(e, Taking(Config[n], ran.sys, s))
      BY <1>12, <2>2
    <3>2. Found(Append(e, Taking(Config[n], ran.sys, s))) = {"deliver_at_end"}
      BY <1>2, <1>4, <1>8, <1>12, <1>15, <3>1, FailedVerdict
    <3>3. trace'[n] = Append(e, Taking(Config[n], ran.sys, s)) /\ status'[n] = "failed"
      BY <1>1, <2>2, <3>1
    <3> QED
      BY <3>2, <3>3 DEF Verdict
  <2> QED
    BY <2>1, <2>2
<1>17. Local(n)'
  <2>1. status'[n] # "down"
    BY <1>1
  <2> QED
    BY <1>14, <1>16, <2>1 DEF Local
<1>18. ASSUME NEW m \in Nodes, m # n PROVE Local(m)'
  <2>1. Unmoved(m)
    BY <1>1, <1>11, <1>18 DEF Unmoved
  <2> QED
    BY <2>1, LocalUnmoved DEF LocalInv
<1>19. \A w \in Ever' : w.from_node \in Nodes
  BY <1>10, <1>11 DEF LocalInv
<1>20. \A w \in Envelopes(flight)' : w \notin Drained'
  <2>1. Drained \cup Envelopes(lost) \cup moved \subseteq Ever
    BY DEF Handed, Ever, Envelopes, moved, Moved
  <2>2. ASSUME NEW w \in wire PROVE w \notin Drained'
    <3>1. w \notin Mail(n)
      BY <1>12 DEF Audited, Apart
    <3>2. w \notin Ever
      BY <1>10, <3>1 DEF Mail
    <3> QED
      BY <1>11, <2>1, <3>2
  <2>3. ASSUME NEW f \in flight, f \notin lost, f \notin Range(got) PROVE f.env \notin Drained'
    <3>1. f.env \notin Drained
      BY DEF LocalInv, Envelopes
    <3>2. \A g \in lost : g \in flight /\ g # f
      BY <2>3 DEF Handed
    <3>3. \A j \in 1..Len(got) : got[j] \in flight /\ got[j] # f
      BY <2>3 DEF Handed
    <3>4. \A g \in flight : g.env = f.env => g = f
      BY FlightOnce
    <3> QED
      BY <1>11, <3>1, <3>2, <3>3, <3>4 DEF Envelopes, moved, Moved
  <2>4. \A w \in Envelopes(flight \ (lost \cup Range(got))) : w \notin Drained'
    BY <2>3 DEF Envelopes
  <2> QED
    BY <1>11, <2>2, <2>4
<1> QED
  BY <1>17, <1>18, <1>19, <1>20 DEF LocalInv

LEMMA LocalNext == Once /\ NodesInv /\ LocalInv /\ [Next]_vars => LocalInv'
<1> SUFFICES ASSUME Once, NodesInv, LocalInv, [Next]_vars PROVE LocalInv'
  OBVIOUS
<1>1. ASSUME NEW n \in Nodes, Start(n) \/ Stop(n) \/ Kill(n) PROVE LocalInv'
  BY <1>1, LocalStart, LocalEnd
<1>2. ASSUME NEW n \in Nodes, NEW arrived \in Arrivals(n), NEW lost \in Losses(n, arrived),
             NEW got \in SetToSeqs(arrived \ lost), Step(n, lost, got)
      PROVE  LocalInv'
  <2>1. PICK ran : Stepped(n, lost, got, ran)
    BY <1>2, StepParts
  <2> QED
    BY <2>1, ArrivalsHanded, LocalStep
<1>3. CASE UNCHANGED vars
  <2>1. flight' = flight /\ drained' = drained /\ status' = status /\ sys' = sys /\ trace' = trace
    BY <1>3 DEF vars
  <2>2. /\ Ever' = Ever /\ Drained' = Drained /\ Envelopes(flight)' = Envelopes(flight)
        /\ \A m : Mail(m)' = Mail(m) /\ Came(m)' = Came(m)
    BY <2>1, SameMail
  <2>3. ASSUME NEW m \in Nodes PROVE Local(m)'
    BY <2>1, <2>2, LocalUnmoved DEF Unmoved, LocalInv
  <2> QED
    BY <2>2, <2>3 DEF LocalInv
<1> QED
  BY <1>1, <1>2, <1>3 DEF Next, Finished

(* However the messages between them are lost, killed nodes apart, and in  *)
(* whatever order they arrive: `tool verify' finds no fault in the trace   *)
(* of a node that ran to its end, and in a failed or killed node's only    *)
(* what is missing at the end.                                             *)
THEOREM LocalTracesVerify == Once => (Spec => []LocalAgrees)
<1> SUFFICES ASSUME Once PROVE Spec => []LocalAgrees
  OBVIOUS
<1>1. LocalInv => LocalAgrees
  <2> SUFFICES ASSUME LocalInv, AllEnded, NEW n \in Nodes
               PROVE  CASE status[n] = "stopped" -> Found(trace[n]) = {}
                        [] status[n] = "failed"  -> Found(trace[n]) = {"deliver_at_end"}
                        [] status[n] = "killed"  -> Found(trace[n]) \subseteq
                                                       {"deliver_at_end", "timer_at_end"}
    BY DEF LocalAgrees, Found
  <2>1. Verdict(n) /\ status[n] \in {"stopped", "failed", "killed"}
    BY DEF LocalInv, Local, AllEnded, Ended
  <2> QED
    BY <2>1 DEF Verdict
<1>2. Init => LocalInv
  BY LocalInit
<1>3. NodesInv /\ LocalInv /\ [Next]_vars => LocalInv'
  BY LocalNext
<1> QED
  BY <1>1, <1>2, <1>3, NodesHold, PTL DEF Spec
==============================================================================
