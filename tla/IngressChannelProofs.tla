------------------------- MODULE IngressChannelProofs -------------------------
(***************************************************************************)
(* For every set of envelopes, every fault configuration and every number  *)
(* of steps: nothing is released early, the inbound path implements the    *)
(* channel of bounded delay, and an inversion of arrival order is confined *)
(* to one window of one step and leaves evidence.                          *)
(*                                                                         *)
(* Each step of Ingress maps to one step of BoundedChannel or to none: a   *)
(* call of ingest to Accept or Lose, the release at the end of the drain   *)
(* to one HandOver, the end of the loop body to Tick.                      *)
(*                                                                         *)
(* The envelopes received, followed by those pending, form a line that     *)
(* operations only extend at its end: by one envelope if the buffer is     *)
(* empty, by the reversed buffer otherwise.  The buffer is the surviving   *)
(* tail of the ingest history, so whatever is in line arrived before it,   *)
(* and an inversion arises within one flushed chunk or not at all.         *)
(***************************************************************************)
EXTENDS IngressProofs, FiniteSetTheorems

(* The events and the envelopes in queues, of an injector. *)
WaitingIn(q) == EnvsOf(q.reorder_buf) \cup EnvsOf(q.pending)
DroppedIn(q)  == RecordedIn(q.trace, "Drop")
ReceivedIn(q) == RecordedIn(q.trace, "NetRecv")

(* Neutral events record neither a drop nor a receipt. *)
LEMMA NeutralRecords ==
    ASSUME NEW q \in Injector, NEW r, NeutralExtension(q, r)
    PROVE  DroppedIn(r) = DroppedIn(q) /\ ReceivedIn(r) = ReceivedIn(q)
<1>1. PICK x \in Seq(IngressEvent) : /\ r.trace = q.trace \o x
                                     /\ \A i \in DOMAIN x : x[i].kind \in Neutral
  BY DEF NeutralExtension
<1>2. q.trace \in Seq(IngressEvent)
  BY DEF Injector
<1> QED
  BY <1>1, <1>2, NeutralFates DEF DroppedIn, ReceivedIn

(* A flush moves envelopes from one queue to the other. *)
LEMMA FlushWaiting ==
    ASSUME NEW q \in Injector, NEW r, Flushed(q, r)
    PROVE  /\ WaitingIn(r) = WaitingIn(q)
           /\ DroppedIn(r) = DroppedIn(q) /\ ReceivedIn(r) = ReceivedIn(q)
<1> DEFINE v == Reverse(q.reorder_buf)
<1>1. /\ q.pending \in Seq(Staged) /\ v \in Seq(Staged)
      /\ EnvsOf(v) = EnvsOf(q.reorder_buf) /\ r.pending = q.pending \o v
  BY ReverseEnvs DEF Injector, Flushed
<1>2. EnvsOf(r.reorder_buf) = {}
  BY DEF Flushed, EnvsOf
<1> HIDE DEF v
<1>3. EnvsOf(r.pending) = EnvsOf(q.pending) \cup EnvsOf(v)
  BY <1>1, ConcatEnvs
<1> QED
  BY <1>1, <1>2, <1>3, NeutralRecords DEF Flushed, WaitingIn

(* A push adds one envelope to the queues. *)
LEMMA PushWaiting ==
    ASSUME NEW q \in Injector, NEW r, NEW st \in Staged, Pushed(q, r, st),
           st.env \notin WaitingIn(q)
    PROVE  /\ WaitingIn(r) = WaitingIn(q) \cup {st.env}
           /\ DroppedIn(r) = DroppedIn(q) /\ ReceivedIn(r) = ReceivedIn(q)
<1>1. q.reorder_buf \in Seq(Staged) /\ q.pending \in Seq(Staged)
  BY DEF Injector
<1>2. /\ EnvsOf(Append(q.reorder_buf, st)) = EnvsOf(q.reorder_buf) \cup {st.env}
      /\ EnvsOf(Append(q.pending, st)) = EnvsOf(q.pending) \cup {st.env}
  BY <1>1, AppendEnvs DEF WaitingIn
<1> QED
  BY <1>2, NeutralRecords DEF Pushed, WaitingIn

------------------------------------------------------------------------------
(* What each step does to the channel's view.                              *)

(* A call of ingest loses the front envelope or accepts it. *)
LEMMA IngestView ==
    ASSUME IInv, Ingest
    PROVE  LET env == Head(rx)
           IN  /\ env \in Local /\ env \notin EnvsOf(ingests)
               /\ ReceivedIn(inj') = ReceivedIn(inj)
               /\ \/ /\ DroppedIn(inj') = DroppedIn(inj) \cup {env}
                     /\ WaitingIn(inj') = WaitingIn(inj)
                  \/ /\ DroppedIn(inj') = DroppedIn(inj)
                     /\ WaitingIn(inj') = WaitingIn(inj) \cup {env}
<1> DEFINE env == Head(rx)
           st == [env |-> env, release_step |-> step + inj.active_policy.delay_steps]
<1>1. /\ inj \in Injector /\ step \in Nat /\ rx # <<>> /\ env \in Local
      /\ inj' = ingest(inj, Cfg, env, step) /\ WindowOK(inj)
      /\ inj.policy_initialized /\ inj.active_policy = policy_for_step(Cfg, step)
  BY DEF IInv, TypeOK, Ingest, PolicyInForce
<1>2. env \notin EnvsOf(ingests)
  BY <1>1, TailFresh DEF IInv
<1>3. \/ Dropped(inj, inj', env)
      \/ Pushed(inj, inj', st)
      \/ \E m \in Injector : Pushed(inj, m, st) /\ Flushed(m, inj')
  <2> HIDE DEF env
  <2> QED
    BY <1>1, IngestEffect
<1>4. st \in Staged /\ st.env = env
  <2>1. inj.active_policy.delay_steps \in Nat
    BY <1>1, PolicyOfConfig DEF FaultPolicy
  <2> QED
    BY <1>1, <2>1 DEF Staged
<1> HIDE DEF env, st
<1>5. env \notin WaitingIn(inj) /\ env \notin Fates(inj.trace)
  BY <1>2 DEF IInv, OneFateOf, WaitingIn
<1>6. CASE Dropped(inj, inj', env)
  <2>1. inj.trace \in Seq(IngressEvent)
    BY <1>1 DEF Injector
  <2>2. /\ RecordedIn(inj'.trace, "Drop") = RecordedIn(inj.trace, "Drop") \cup {env}
        /\ RecordedIn(inj'.trace, "NetRecv") = RecordedIn(inj.trace, "NetRecv")
    BY <1>1, <1>5, <1>6, <2>1, DropFates DEF Dropped
  <2> QED
    BY <1>1, <1>2, <1>6, <2>2 DEF Dropped, DroppedIn, ReceivedIn, WaitingIn, env
<1>7. CASE Pushed(inj, inj', st)
  BY <1>1, <1>2, <1>4, <1>5, <1>7, PushWaiting DEF env
<1>8. CASE \E m \in Injector : Pushed(inj, m, st) /\ Flushed(m, inj')
  <2>1. PICK m \in Injector : Pushed(inj, m, st) /\ Flushed(m, inj')
    BY <1>8
  <2>2. /\ WaitingIn(m) = WaitingIn(inj) \cup {env}
        /\ DroppedIn(m) = DroppedIn(inj) /\ ReceivedIn(m) = ReceivedIn(inj)
    BY <1>1, <1>4, <1>5, <2>1, PushWaiting
  <2> QED
    BY <1>1, <1>2, <2>1, <2>2, FlushWaiting DEF env
<1> QED
  BY <1>3, <1>6, <1>7, <1>8

(* The sync at the start of the drain changes nothing of it. *)
LEMMA SyncView ==
    ASSUME IInv, Sync
    PROVE  /\ WaitingIn(inj') = WaitingIn(inj)
           /\ DroppedIn(inj') = DroppedIn(inj) /\ ReceivedIn(inj') = ReceivedIn(inj)
<1>1. /\ inj \in Injector /\ step \in Nat /\ inj.reorder_buf = <<>>
      /\ inj' = sync_policy(inj, Cfg, step)
  BY DEF IInv, TypeOK, Sync, NoStranding
<1>2. /\ inj'.reorder_buf = <<>> /\ inj'.pending = inj.pending
      /\ NeutralExtension(inj, inj')
  BY <1>1, SyncPolicy
<1> QED
  BY <1>1, <1>2, NeutralRecords DEF WaitingIn

------------------------------------------------------------------------------
(* NeverEarly.                                                             *)

ReleasedInTime ==
    \A k \in DOMAIN ingests :
        /\ ingests[k].env \notin Recorded("NetRecv")
        /\ ingests[k].env \in Recorded("NetRecv")'
        => step >= ingests[k].step + ingests[k].policy.delay_steps

(* Only the release at the end of a drain records receipts, and those of   *)
(* envelopes whose release step has come.                                  *)
LEMMA StepInTime == ASSUME IInv, [Next]_vars PROVE ReleasedInTime
<1>1. CASE Release
  <2>1. PICK out \in Seq(Staged) :
           /\ Recorded("NetRecv")' = Recorded("NetRecv") \cup EnvsOf(out)
           /\ MatchedBy(out, ingests)
           /\ \A i \in DOMAIN out : out[i].release_step <= step
    BY <1>1, ReleaseStep
  <2> SUFFICES ASSUME NEW k \in DOMAIN ingests,
                      ingests[k].env \notin Recorded("NetRecv"),
                      ingests[k].env \in Recorded("NetRecv")'
               PROVE  step >= ingests[k].step + ingests[k].policy.delay_steps
      BY DEF ReleasedInTime
  <2>2. PICK i \in DOMAIN out : out[i].env = ingests[k].env
    BY <2>1 DEF EnvsOf
  <2>3. out[i].release_step = ingests[k].step + ingests[k].policy.delay_steps
    BY <2>1, <2>2 DEF MatchedBy
  <2>4. out[i] \in Staged /\ step \in Nat
    BY DEF IInv, TypeOK
  <2> QED
    BY <2>1, <2>2, <2>3, <2>4 DEF Staged
<1>2. CASE Recorded("NetRecv")' = Recorded("NetRecv")
  BY <1>2 DEF ReleasedInTime
<1>3. ASSUME Ingest PROVE Recorded("NetRecv")' = Recorded("NetRecv")
  BY <1>3, IngestView DEF ReceivedIn, Recorded
<1>4. ASSUME Sync PROVE Recorded("NetRecv")' = Recorded("NetRecv")
  BY <1>4, SyncView DEF ReceivedIn, Recorded
<1>5. ASSUME inj' = inj PROVE Recorded("NetRecv")' = Recorded("NetRecv")
  BY <1>5 DEF Recorded
<1>6. \/ Release \/ Ingest \/ Sync \/ inj' = inj
  BY DEF Next, vars, Listen, Misrouted, Rest, Done
<1> QED
  BY <1>1, <1>2, <1>3, <1>4, <1>5, <1>6

(* No envelope reaches an inbox before its delay has passed, for every     *)
(* fault configuration.                                                    *)
THEOREM NothingIsEarly == Spec => NeverEarly
  BY InvariantHolds, StepInTime, PTL DEF Spec, NeverEarly, ReleasedInTime

------------------------------------------------------------------------------
(* The refinement of BoundedChannel.                                       *)

(* The calls of h whose envelopes are in W, as the channel sees them.      *)
HeldOf(h, W) ==
    {[msg |-> h[k].env, since |-> h[k].step] : k \in {i \in DOMAIN h : h[i].env \in W}}

(* They carry the envelopes of W that h has calls for.                     *)
LEMMA HeldMsgs ==
    ASSUME NEW h, NEW W, W \subseteq EnvsOf(h)
    PROVE  {m.msg : m \in HeldOf(h, W)} = W
<1>1. ASSUME NEW m \in HeldOf(h, W) PROVE m.msg \in W
  BY DEF HeldOf
<1>2. ASSUME NEW e \in W PROVE \E m \in HeldOf(h, W) : m.msg = e
  <2>1. PICK k \in DOMAIN h : h[k].env = e
    BY DEF EnvsOf
  <2>2. [msg |-> h[k].env, since |-> h[k].step] \in HeldOf(h, W)
    BY <1>2, <2>1 DEF HeldOf
  <2> QED
    BY <2>1, <2>2
<1> QED
  BY <1>1, <1>2

(* A call for an envelope that is not in W, and one for an envelope added. *)
LEMMA HeldAppend ==
    ASSUME NEW h \in History, NEW W, NEW g \in IngestCall, g.env \notin EnvsOf(h),
           W \subseteq EnvsOf(h)
    PROVE  /\ HeldOf(Append(h, g), W) = HeldOf(h, W)
           /\ HeldOf(Append(h, g), W \cup {g.env}) =
                  HeldOf(h, W) \cup {[msg |-> g.env, since |-> g.step]}
<1> DEFINE u == Append(h, g)
           n == Len(h)
           added == [msg |-> g.env, since |-> g.step]
<1>1. /\ n \in Nat /\ DOMAIN h = 1..n /\ DOMAIN u = 1..(n + 1)
      /\ \A k \in DOMAIN h : u[k] = h[k]
      /\ u[n + 1] = g
  BY AppendProperties DEF History
<1> HIDE DEF u, n
<1>2. /\ \A k \in DOMAIN h : k \in DOMAIN u
      /\ \A k \in DOMAIN u : k \in DOMAIN h \/ (k = n + 1 /\ u[k] = g)
      /\ n + 1 \in DOMAIN u
  BY <1>1
<1>3. g.env \notin W /\ \A k \in DOMAIN h : h[k].env # g.env
  BY DEF EnvsOf
<1>4. HeldOf(u, W) = HeldOf(h, W)
  BY <1>1, <1>2, <1>3 DEF HeldOf
<1>5. HeldOf(u, W \cup {g.env}) = HeldOf(h, W) \cup {added}
  <2>1. ASSUME NEW x \in HeldOf(u, W \cup {g.env})
        PROVE  x \in HeldOf(h, W) \cup {added}
    <3>1. PICK k \in DOMAIN u : /\ u[k].env \in W \cup {g.env}
                                /\ x = [msg |-> u[k].env, since |-> u[k].step]
      BY DEF HeldOf
    <3> QED
      BY <1>1, <1>2, <1>3, <3>1 DEF HeldOf
  <2>2. HeldOf(h, W) \subseteq HeldOf(u, W \cup {g.env})
    BY <1>1, <1>2 DEF HeldOf
  <2>3. added \in HeldOf(u, W \cup {g.env})
    BY <1>1, <1>2 DEF HeldOf
  <2> QED
    BY <2>1, <2>2, <2>3
<1> QED
  BY <1>4, <1>5 DEF u

(* Taking envelopes out of W takes their records out.                      *)
LEMMA HeldMinus ==
    ASSUME NEW h, NEW W, NEW D, NEW m
    PROVE  m \in HeldOf(h, W \ D) <=> m \in HeldOf(h, W) /\ m.msg \notin D
<1>1. ASSUME m \in HeldOf(h, W \ D)
      PROVE  m \in HeldOf(h, W) /\ m.msg \notin D
  BY <1>1 DEF HeldOf
<1>2. ASSUME m \in HeldOf(h, W), m.msg \notin D
      PROVE  m \in HeldOf(h, W \ D)
  BY <1>2 DEF HeldOf
<1> QED
  BY <1>1, <1>2

(* What waits was ingested.                                                *)
LEMMA WaitingIngested == IInv => WaitingIn(inj) \subseteq EnvsOf(ingests)
  BY DEF IInv, OneFateOf, WaitingIn

CView == <<step, HeldEnvs, Recorded("Drop"), Recorded("NetRecv")>>

(* An ingest call is Lose or Accept.                                       *)
LEMMA IngestRefines ==
    ASSUME IInv, Ingest
    PROVE  \E m \in Local : Channel!Accept(m) \/ Channel!Lose(m)
<1> DEFINE env == Head(rx)
           g   == [env |-> env, step |-> step, policy |-> inj'.active_policy]
           W   == WaitingIn(inj)
<1>1. /\ env \in Local /\ env \notin EnvsOf(ingests)
      /\ ReceivedIn(inj') = ReceivedIn(inj)
      /\ \/ /\ DroppedIn(inj') = DroppedIn(inj) \cup {env}
            /\ WaitingIn(inj') = W
         \/ /\ DroppedIn(inj') = DroppedIn(inj)
            /\ WaitingIn(inj') = W \cup {env}
  BY IngestView
<1>2. /\ ingests' = Append(ingests, g) /\ ingests \in History /\ step' = step
      /\ step \in Nat
  BY DEF Ingest, IInv, TypeOK, History
<1>3. g \in IngestCall
  <2>1. inj'.active_policy \in FaultPolicy
    BY IngestStep DEF IInv, TypeOK, Injector
  <2> QED
    BY <1>1, <1>2, <2>1 DEF IngestCall
<1>4. W \subseteq EnvsOf(ingests)
  BY WaitingIngested
<1>5. /\ HeldEnvs = HeldOf(ingests, W)
      /\ HeldEnvs' = HeldOf(ingests', WaitingIn(inj'))
  BY DEF HeldEnvs, HeldOf, Waiting, WaitingIn
<1>6. /\ DroppedIn(inj) = Recorded("Drop") /\ DroppedIn(inj') = Recorded("Drop")'
      /\ ReceivedIn(inj) = Recorded("NetRecv")
      /\ ReceivedIn(inj') = Recorded("NetRecv")'
  BY DEF DroppedIn, ReceivedIn, Recorded
<1>7. g.env = env /\ g.step = step
  OBVIOUS
<1> HIDE DEF env, g, W
<1>8. Channel!Unseen(env)
  <2>1. {m.msg : m \in HeldEnvs} = W
    BY <1>4, <1>5, HeldMsgs
  <2>2. env \notin Recorded("Drop") \cup Recorded("NetRecv") \cup W
    BY <1>1, <1>4 DEF IInv, OneFateOf, Fates, Recorded
  <2> QED
    BY <2>1, <2>2 DEF Channel!Unseen
<1>9. /\ HeldOf(ingests', W) = HeldOf(ingests, W)
      /\ HeldOf(ingests', W \cup {env}) =
             HeldOf(ingests, W) \cup {[msg |-> env, since |-> step]}
  BY ZenonT(60), <1>1, <1>2, <1>3, <1>4, <1>7, HeldAppend
<1>10. CASE /\ Recorded("Drop")' = Recorded("Drop") \cup {env}
            /\ WaitingIn(inj') = W
  BY <1>1, <1>2, <1>5, <1>6, <1>8, <1>9, <1>10 DEF Channel!Lose
<1>11. CASE /\ Recorded("Drop")' = Recorded("Drop")
            /\ WaitingIn(inj') = W \cup {env}
  BY <1>1, <1>2, <1>5, <1>6, <1>8, <1>9, <1>11 DEF Channel!Accept
<1> QED
  BY <1>1, <1>6, <1>10, <1>11

(* The release at the end of the drain hands over a batch.                 *)
LEMMA ReleaseRefines == ASSUME IInv, Release PROVE Channel!HandOver
<1>1. PICK out \in Seq(Staged) :
         /\ Recorded("NetRecv")' = Recorded("NetRecv") \cup EnvsOf(out)
         /\ EnvsOf(out) \subseteq WaitingIn(inj)
         /\ EnvsOf(inj'.pending) = WaitingIn(inj) \ EnvsOf(out)
         /\ inj'.reorder_buf = <<>>
         /\ Recorded("Drop")' = Recorded("Drop")
  BY ReleaseStep DEF WaitingIn
<1>2. step' = step /\ ingests' = ingests
  BY DEF Release
<1>3. WaitingIn(inj') = WaitingIn(inj) \ EnvsOf(out)
  <2>1. EnvsOf(inj'.reorder_buf) = {}
    BY <1>1 DEF EnvsOf
  <2> QED
    BY <1>1, <2>1 DEF WaitingIn
<1>4. /\ HeldEnvs = HeldOf(ingests, WaitingIn(inj))
      /\ HeldEnvs' = HeldOf(ingests', WaitingIn(inj'))
  BY DEF HeldEnvs, HeldOf, Waiting, WaitingIn
<1> DEFINE batch == {m \in HeldEnvs : m.msg \in EnvsOf(out)}
<1>5. HeldEnvs' = HeldEnvs \ batch
  <2>1. HeldEnvs' = HeldOf(ingests, WaitingIn(inj) \ EnvsOf(out))
    BY <1>2, <1>3, <1>4
  <2>2. \A m : m \in HeldEnvs' <=> m \in HeldEnvs /\ m.msg \notin EnvsOf(out)
    BY <1>4, <2>1, HeldMinus
  <2> QED
    BY <2>2
<1>6. {m.msg : m \in batch} = EnvsOf(out)
  <2>1. {m.msg : m \in HeldEnvs} = WaitingIn(inj)
    BY <1>4, HeldMsgs, WaitingIngested
  <2> QED
    BY <1>1, <2>1
<1>7. batch \in SUBSET HeldEnvs
  OBVIOUS
<1> HIDE DEF batch
<1> QED
  BY <1>1, <1>2, <1>5, <1>6, <1>7 DEF Channel!HandOver

(* At the end of the loop body time may move on: BoundedWait.              *)
LEMMA RestRefines ==
    ASSUME IInv, Rest PROVE Channel!Tick \/ UNCHANGED CView
<1>1. /\ pc = "rest" /\ UNCHANGED <<inj, ingests>>
      /\ step' = step + 1 \/ step' = step
      /\ inj.reorder_buf = <<>>
  BY DEF Rest, IInv, NoStranding
<1>2. UNCHANGED <<HeldEnvs, Recorded("Drop"), Recorded("NetRecv")>>
  BY <1>1 DEF HeldEnvs, Waiting, Recorded
<1>3. ASSUME NEW m \in HeldEnvs PROVE step < m.since + MaxDelay
  <2>1. PICK k \in DOMAIN ingests :
           /\ ingests[k].env \in Waiting
           /\ m = [msg |-> ingests[k].env, since |-> ingests[k].step]
    BY DEF HeldEnvs
  <2>2. ingests[k].env \in EnvsOf(inj.pending)
    <3>1. EnvsOf(inj.reorder_buf) = {}
      BY <1>1 DEF EnvsOf
    <3> QED
      BY <2>1, <3>1 DEF Waiting
  <2>3. step < ingests[k].step + MaxDelay
    BY <1>1, <2>2 DEF IInv, BoundedWait
  <2> QED
    BY <2>1, <2>3
<1> QED
  BY <1>1, <1>2, <1>3 DEF Channel!Tick, CView

(* Every step is a step of the channel or leaves its view alone.           *)
LEMMA StepRefines ==
    ASSUME IInv, [Next]_vars PROVE [Channel!ChannelNext]_(Channel!cvars)
<1>1. CASE Ingest
  BY <1>1, IngestRefines DEF Channel!ChannelNext
<1>2. CASE Release
  BY <1>2, ReleaseRefines DEF Channel!ChannelNext
<1>3. CASE Rest
  BY <1>3, RestRefines DEF Channel!ChannelNext, Channel!cvars, CView
<1>4. CASE Sync
  <2>1. /\ WaitingIn(inj') = WaitingIn(inj) /\ step' = step /\ ingests' = ingests
        /\ DroppedIn(inj') = DroppedIn(inj) /\ ReceivedIn(inj') = ReceivedIn(inj)
    BY <1>4, SyncView DEF Sync
  <2>2. HeldEnvs' = HeldEnvs
    BY <2>1 DEF HeldEnvs, Waiting, WaitingIn
  <2> QED
    BY <2>1, <2>2 DEF Channel!cvars, DroppedIn, ReceivedIn, Recorded
<1>5. CASE UNCHANGED <<inj, step, ingests>>
  BY <1>5 DEF Channel!cvars, HeldEnvs, Waiting, Recorded
<1>6. \/ Ingest \/ Release \/ Rest \/ Sync \/ UNCHANGED <<inj, step, ingests>>
  BY DEF Next, vars, Listen, Misrouted, Done
<1> QED
  BY <1>1, <1>2, <1>3, <1>4, <1>5, <1>6

LEMMA InitRefines == Init => Channel!ChannelInit
<1> SUFFICES ASSUME Init PROVE Channel!ChannelInit
    OBVIOUS
<1>1. step = 0 /\ ingests = <<>> /\ inj.trace = <<>>
  BY DEF Init, new
<1> QED
  BY <1>1 DEF Channel!ChannelInit, HeldEnvs, Recorded, RecordedIn

(* The inbound path implements the channel of bounded delay: an accepted   *)
(* envelope is lost at once or handed over within MaxDelay steps, never    *)
(* twice, for every fault configuration and every order of arrival.        *)
THEOREM ChannelImplemented == Spec => ImplementsChannel
  BY InvariantHolds, InitRefines, StepRefines, PTL
     DEF Spec, ImplementsChannel, Channel!ChannelSpec

------------------------------------------------------------------------------
(***************************************************************************)
(* The order of arrival.                                                   *)
(***************************************************************************)
ReorderedIn(q) == RecordedIn(q.trace, "Reorder")

Precedes(queue, x, y) ==
    \E i, j \in DOMAIN queue : i < j /\ queue[i].env = x /\ queue[j].env = y

ReceivedBefore(trace, x, y) ==
    \E i, j \in DOMAIN trace :
        /\ i < j
        /\ trace[i].kind = "NetRecv" /\ trace[i].env = x
        /\ trace[j].kind = "NetRecv" /\ trace[j].env = y

(* x is ahead of y in the line of received and pending envelopes. *)
Ahead(q, x, y) ==
    \/ ReceivedBefore(q.trace, x, y)
    \/ x \in ReceivedIn(q) /\ y \in EnvsOf(q.pending)
    \/ Precedes(q.pending, x, y)

(* The calls after the a-th, up to the b-th, whose envelopes survived. *)
Survivors(q, h, a, b) == {k \in (a + 1)..b : h[k].env \notin DroppedIn(q)}

Owned(q, h, a, b) ==
    /\ h[a].step = h[b].step /\ h[a].policy = h[b].policy
    /\ {h[a].env, h[b].env} \subseteq ReorderedIn(q)
    /\ Cardinality(Survivors(q, h, a, b)) < h[a].policy.reorder_window

InversionsOwned(q, h) ==
    \A a, b \in DOMAIN h :
        a < b /\ Ahead(q, h[b].env, h[a].env) => Owned(q, h, a, b)

(* The buffer is in order of arrival, *)
ArrivalOrder(q, h) ==
    \A i, j \in DOMAIN q.reorder_buf, k, l \in DOMAIN h :
        /\ i < j
        /\ q.reorder_buf[i].env = h[k].env /\ q.reorder_buf[j].env = h[l].env
        => k < l

(* holds whatever arrived after one of its envelopes and was not dropped,  *)
SurvivingTail(q, h) ==
    \A k, l \in DOMAIN h :
        k <= l /\ h[k].env \in EnvsOf(q.reorder_buf)
            => h[l].env \in EnvsOf(q.reorder_buf) \cup DroppedIn(q)

(* and was filled in one step under one policy.                            *)
OnePolicy(q, h, p, n) ==
    \A k \in DOMAIN h :
        h[k].env \in EnvsOf(q.reorder_buf) => h[k].policy = p /\ h[k].step = n

Line(q, h, p, n) ==
    /\ Distinct(h)
    /\ InversionsOwned(q, h)
    /\ ArrivalOrder(q, h) /\ SurvivingTail(q, h) /\ OnePolicy(q, h, p, n)

------------------------------------------------------------------------------
(* What the operations do to the trace and the pending queue.              *)

(* Neither a policy, Delay or Reorder event nor a drop moves the line.     *)
LEMMA QuietTrace ==
    ASSUME NEW t \in Seq(IngressEvent), NEW x \in Seq(IngressEvent),
           \A i \in DOMAIN x : x[i].kind # "NetRecv",
           NEW e, NEW f, ReceivedBefore(t \o x, e, f)
    PROVE  ReceivedBefore(t, e, f)
<1> DEFINE u == t \o x
           n == Len(t)
<1>1. /\ n \in Nat /\ Len(x) \in Nat
      /\ DOMAIN u = 1..(n + Len(x)) /\ DOMAIN t = 1..n /\ DOMAIN x = 1..Len(x)
      /\ \A i \in 1..(n + Len(x)) : u[i] = IF i <= n THEN t[i] ELSE x[i - n]
  BY ConcatProperties
<1> HIDE DEF u, n
<1>2. \A i \in DOMAIN u : \/ i \in DOMAIN t /\ u[i] = t[i]
                          \/ i - n \in DOMAIN x /\ u[i] = x[i - n]
  BY <1>1
<1>3. \A i \in DOMAIN u : u[i].kind = "NetRecv" => i \in DOMAIN t /\ u[i] = t[i]
  BY <1>2
<1> QED
  BY <1>3 DEF ReceivedBefore, u

(* What was dropped is neither received nor pending. *)
LEMMA DroppedIsNotInLine ==
    ASSUME NEW q, NEW S, OneFateOf(q, S)
    PROVE  DroppedIn(q) \cap (ReceivedIn(q) \cup EnvsOf(q.pending)) = {}
<1>1. DroppedIn(q) \cap EnvsOf(q.pending) = {}
  BY DEF OneFateOf, Fates, DroppedIn
<1>2. ASSUME NEW e \in DroppedIn(q), e \in ReceivedIn(q) PROVE FALSE
  <2>1. PICK i \in DOMAIN q.trace : q.trace[i].kind = "Drop" /\ q.trace[i].env = e
    BY DEF DroppedIn, RecordedIn
  <2>2. PICK j \in DOMAIN q.trace : q.trace[j].kind = "NetRecv" /\ q.trace[j].env = e
    BY <1>2 DEF ReceivedIn, RecordedIn
  <2>3. i = j
    BY <2>1, <2>2 DEF OneFateOf, UniqueFates
  <2> QED
    BY <2>1, <2>2, <2>3
<1> QED
  BY <1>1, <1>2

(* What a trace extended by neutral events still says. *)
LEMMA NeutralLine ==
    ASSUME NEW q \in Injector, NEW r, NeutralExtension(q, r)
    PROVE  /\ DroppedIn(r) = DroppedIn(q) /\ ReceivedIn(r) = ReceivedIn(q)
           /\ ReorderedIn(q) \subseteq ReorderedIn(r)
           /\ \A e, f : ReceivedBefore(r.trace, e, f) => ReceivedBefore(q.trace, e, f)
<1>1. PICK x \in Seq(IngressEvent) : /\ r.trace = q.trace \o x
                                     /\ \A i \in DOMAIN x : x[i].kind \in Neutral
  BY DEF NeutralExtension
<1>2. q.trace \in Seq(IngressEvent)
  BY DEF Injector
<1>3. \A i \in DOMAIN x : x[i].kind # "NetRecv"
  BY <1>1 DEF Neutral
<1>4. \A e, f : ReceivedBefore(r.trace, e, f) => ReceivedBefore(q.trace, e, f)
  BY <1>1, <1>2, <1>3, QuietTrace
<1>5. DroppedIn(r) = DroppedIn(q) /\ ReceivedIn(r) = ReceivedIn(q)
  BY <1>1, <1>2, NeutralFates DEF DroppedIn, ReceivedIn
<1>6. ReorderedIn(q) \subseteq ReorderedIn(r)
  BY <1>1, <1>2, RecordsGrow DEF ReorderedIn
<1> QED
  BY <1>4, <1>5, <1>6

(* What a queue extended by another one says of its order. *)
LEMMA ConcatPrecedes ==
    ASSUME NEW s \in Seq(Staged), NEW t \in Seq(Staged),
           NEW e, NEW f, Precedes(s \o t, e, f)
    PROVE  \/ Precedes(s, e, f) \/ Precedes(t, e, f)
           \/ e \in EnvsOf(s) /\ f \in EnvsOf(t)
<1> DEFINE u == s \o t
           n == Len(s)
<1>1. /\ n \in Nat /\ Len(t) \in Nat
      /\ DOMAIN u = 1..(n + Len(t)) /\ DOMAIN s = 1..n /\ DOMAIN t = 1..Len(t)
      /\ \A i \in 1..(n + Len(t)) : u[i] = IF i <= n THEN s[i] ELSE t[i - n]
  BY ConcatProperties
<1>2. PICK i \in DOMAIN u, j \in DOMAIN u : i < j /\ u[i].env = e /\ u[j].env = f
  BY DEF Precedes
<1> HIDE DEF u, n
<1>3. CASE j <= n
  <2>1. /\ i \in DOMAIN s /\ u[i] = s[i]
        /\ j \in DOMAIN s /\ u[j] = s[j]
    BY <1>1, <1>2, <1>3
  <2> QED
    BY <1>2, <2>1 DEF Precedes
<1>4. CASE i <= n /\ ~(j <= n)
  <2>1. /\ i \in DOMAIN s /\ u[i] = s[i]
        /\ j - n \in DOMAIN t /\ u[j] = t[j - n]
    BY <1>1, <1>2, <1>4
  <2> QED
    BY <1>2, <2>1 DEF EnvsOf
<1>5. CASE ~(i <= n)
  <2>1. /\ i - n \in DOMAIN t /\ u[i] = t[i - n]
        /\ j - n \in DOMAIN t /\ u[j] = t[j - n] /\ i - n < j - n
    BY <1>1, <1>2, <1>5
  <2> QED
    BY <1>2, <2>1 DEF Precedes
<1> QED
  BY <1>1, <1>2, <1>3, <1>4, <1>5

(* A reversed queue has the opposite order. *)
LEMMA ReversePrecedes ==
    ASSUME NEW s \in Seq(Staged), NEW e, NEW f, Precedes(Reverse(s), e, f)
    PROVE  Precedes(s, f, e)
<1> DEFINE v == Reverse(s)
           n == Len(s)
<1>1. /\ DOMAIN v = 1..n /\ \A i \in 1..n : v[i] = s[n - i + 1]
      /\ n \in Nat /\ DOMAIN s = 1..n
  BY ReverseEnvs
<1>2. PICK i \in DOMAIN v, j \in DOMAIN v : i < j /\ v[i].env = e /\ v[j].env = f
  BY DEF Precedes
<1> HIDE DEF v, n
<1>3. /\ n - i + 1 \in DOMAIN s /\ v[i] = s[n - i + 1]
      /\ n - j + 1 \in DOMAIN s /\ v[j] = s[n - j + 1]
      /\ n - j + 1 < n - i + 1
  BY <1>1, <1>2
<1> QED
  BY <1>2, <1>3 DEF Precedes

(* Of the calls from a buffered envelope on, fewer survived than the       *)
(* buffer holds: each has a place of its own in the buffer, and the first  *)
(* place is taken.                                                         *)
LEMMA SurvivorsFit ==
    ASSUME NEW q \in Injector, NEW h \in History, Distinct(h), SurvivingTail(q, h),
           NEW a \in DOMAIN h, NEW b \in DOMAIN h, h[a].env \in EnvsOf(q.reorder_buf)
    PROVE  /\ Cardinality(Survivors(q, h, a, b)) \in Nat
           /\ Cardinality(Survivors(q, h, a, b)) < Len(q.reorder_buf)
<1> DEFINE buf == q.reorder_buf
           n == Len(buf)
           K == Survivors(q, h, a, b)
           place(k) == CHOOSE j \in DOMAIN buf : buf[j].env = h[k].env
<1>1. buf \in Seq(Staged) /\ n \in Nat /\ DOMAIN buf = 1..n
  BY DEF Injector
<1>2. DOMAIN h = 1..Len(h) /\ Len(h) \in Nat
  BY DEF History
<1>3. PICK i \in DOMAIN buf : buf[i].env = h[a].env
  BY DEF EnvsOf
<1> DEFINE T == (1..n) \ {i}
<1>4. \A k \in K : k \in DOMAIN h /\ a < k /\ h[k].env \notin DroppedIn(q)
  BY <1>2 DEF Survivors
<1> HIDE DEF K, buf, n
<1>5. \A k \in K : h[k].env \in EnvsOf(buf)
  BY <1>2, <1>4 DEF SurvivingTail, buf
<1>6. \A k \in K : place(k) \in DOMAIN buf /\ buf[place(k)].env = h[k].env
  <2> TAKE k \in K
  <2>1. \E j \in DOMAIN buf : buf[j].env = h[k].env
    BY <1>5 DEF EnvsOf
  <2> QED
    BY <2>1
<1> HIDE DEF place
<1>7. \A k \in K : place(k) \in T
  <2> TAKE k \in K
  <2>1. h[k].env # h[a].env
    BY <1>2, <1>4 DEF Distinct
  <2> QED
    BY <1>1, <1>3, <1>6, <2>1
<1>8. \A k, l \in K : place(k) = place(l) => k = l
  <2> TAKE k, l \in K
  <2> HAVE place(k) = place(l)
  <2>1. h[k].env = h[l].env
    BY <1>6
  <2> QED
    BY <1>4, <2>1 DEF Distinct
<1> DEFINE f == [k \in K |-> place(k)]
<1>9. f \in Injection(K, T)
  BY <1>7, <1>8 DEF Injection, IsInjective
<1>10. IsFiniteSet(1..n) /\ Cardinality(1..n) = n
  <2>1. \A m \in Nat : IsFiniteSet(1..m) /\ Cardinality(1..m) = m
    BY ONLY FS_Interval
  <2> QED
    BY <1>1, <2>1
<1>11. IsFiniteSet(T) /\ Cardinality(T) = n - 1
  BY ZenonT(60), <1>1, <1>3, <1>10, FS_RemoveElement
<1> HIDE DEF f, T
<1>12. IsFiniteSet(K) /\ Cardinality(K) <= Cardinality(T)
  BY <1>9, <1>11, FS_Injection
<1>13. Cardinality(K) \in Nat
  BY <1>12, FS_CardinalityType
<1> QED
  BY <1>1, <1>11, <1>12, <1>13 DEF K, n, buf

------------------------------------------------------------------------------
(* What the operations do to the line.                                     *)

(* Whoever is in line was received or waits in the pending queue. *)
LEMMA AheadInLine ==
    ASSUME NEW q, NEW e, NEW f, Ahead(q, e, f)
    PROVE  {e, f} \subseteq ReceivedIn(q) \cup EnvsOf(q.pending)
<1>1. CASE ReceivedBefore(q.trace, e, f)
  BY <1>1 DEF ReceivedBefore, ReceivedIn, RecordedIn
<1>2. CASE e \in ReceivedIn(q) /\ f \in EnvsOf(q.pending)
  BY <1>2
<1>3. CASE Precedes(q.pending, e, f)
  BY <1>3 DEF Precedes, EnvsOf
<1> QED
  BY <1>1, <1>2, <1>3 DEF Ahead

(* An operation that lets nobody ahead of another keeps the invariant. *)
LEMMA SameLine ==
    ASSUME NEW q, NEW r, NEW h, InversionsOwned(q, h),
           DroppedIn(r) = DroppedIn(q), ReorderedIn(q) \subseteq ReorderedIn(r),
           \A e, f : Ahead(r, e, f) => Ahead(q, e, f)
    PROVE  InversionsOwned(r, h)
<1> SUFFICES ASSUME NEW a \in DOMAIN h, NEW b \in DOMAIN h,
                    a < b, Ahead(r, h[b].env, h[a].env)
             PROVE  Owned(r, h, a, b)
    BY DEF InversionsOwned
<1>1. Owned(q, h, a, b)
  BY DEF InversionsOwned
<1>2. Survivors(r, h, a, b) = Survivors(q, h, a, b)
  BY DEF Survivors
<1> QED
  BY <1>1, <1>2 DEF Owned

(* So does an ingest call that puts its envelope at the end of the line at *)
(* most.                                                                   *)
LEMMA LongerLine ==
    ASSUME NEW q, NEW r, NEW h \in History, NEW g \in IngestCall,
           Distinct(h), g.env \notin EnvsOf(h), InversionsOwned(q, h),
           DroppedIn(r) \cap EnvsOf(h) = DroppedIn(q) \cap EnvsOf(h),
           ReorderedIn(q) \subseteq ReorderedIn(r),
           \A e, f : Ahead(r, e, f) => f = g.env \/ (Ahead(q, e, f) /\ e # g.env)
    PROVE  /\ Distinct(Append(h, g))
           /\ InversionsOwned(r, Append(h, g))
<1> DEFINE h2 == Append(h, g)
           n == Len(h)
<1>1. /\ n \in Nat /\ DOMAIN h = 1..n /\ DOMAIN h2 = 1..(n + 1)
      /\ \A k \in 1..n : h2[k] = h[k]
      /\ h2[n + 1] = g
  BY AppendProperties DEF History
<1> HIDE DEF h2, n
<1>2. \A k \in DOMAIN h2 : k = n + 1 \/ (k \in DOMAIN h /\ h2[k] = h[k])
  BY <1>1
<1>3. \A k \in DOMAIN h : h[k].env # g.env /\ h[k].env \in EnvsOf(h)
  BY DEF EnvsOf
<1>4. Distinct(h2)
  BY <1>1, <1>2, <1>3 DEF Distinct
<1>5. ASSUME NEW a \in DOMAIN h2, NEW b \in DOMAIN h2,
             a < b, Ahead(r, h2[b].env, h2[a].env)
      PROVE  Owned(r, h2, a, b)
  <2>1. a \in DOMAIN h /\ h2[a] = h[a]
    BY <1>1, <1>5
  <2>2. Ahead(q, h2[b].env, h2[a].env) /\ h2[b].env # g.env
    BY <1>3, <1>5, <2>1
  <2>3. b \in DOMAIN h /\ h2[b] = h[b]
    BY <1>1, <1>2, <2>2
  <2>4. Owned(q, h, a, b)
    BY <1>5, <2>1, <2>2, <2>3 DEF InversionsOwned
  <2>5. \A k \in (a + 1)..b : k \in DOMAIN h /\ h2[k] = h[k]
    BY <1>1, <2>1, <2>3
  <2>6. Survivors(r, h2, a, b) = Survivors(q, h, a, b)
    BY <1>3, <2>5 DEF Survivors
  <2> QED
    BY <2>1, <2>3, <2>4, <2>6 DEF Owned
<1> QED
  BY <1>4, <1>5 DEF InversionsOwned, h2

(* A dropped envelope enters neither the line nor the buffer. *)
LEMMA DropLine ==
    ASSUME NEW q \in Injector, NEW r, NEW h \in History, NEW g \in IngestCall,
           NEW p, NEW n, OneFateOf(q, EnvsOf(h)), g.env \notin EnvsOf(h),
           Line(q, h, p, n), Dropped(q, r, g.env)
    PROVE  Line(r, Append(h, g), p, n)
<1> DEFINE h2 == Append(h, g)
           len == Len(h)
<1>1. /\ len \in Nat /\ DOMAIN h = 1..len /\ DOMAIN h2 = 1..(len + 1)
      /\ \A k \in 1..len : h2[k] = h[k]
      /\ h2[len + 1] = g
  BY AppendProperties DEF History
<1>2. g.env \in Local
  BY DEF IngestCall
<1> DEFINE x == <<DropEvent(g.env)>>
<1>3. /\ q.trace \in Seq(IngressEvent) /\ x \in Seq(IngressEvent)
      /\ r.trace = q.trace \o x /\ \A i \in DOMAIN x : x[i].kind # "NetRecv"
  <2>1. DropEvent(g.env) \in IngressEvent
    BY <1>2 DEF DropEvent, IngressEvent
  <2>2. q.trace \in Seq(IngressEvent)
    BY DEF Injector
  <2>3. Append(q.trace, DropEvent(g.env)) = q.trace \o x
    BY <2>1, <2>2, AppendIsConcat
  <2> QED
    BY <2>1, <2>2, <2>3 DEF Dropped, DropEvent
<1> HIDE DEF x
<1>4. g.env \notin Fates(q.trace) /\ g.env \notin EnvsOf(q.reorder_buf)
      /\ g.env \notin EnvsOf(q.pending)
  BY DEF OneFateOf
<1>5. DroppedIn(r) = DroppedIn(q) \cup {g.env} /\ ReceivedIn(r) = ReceivedIn(q)
  <2> DEFINE t == q.trace
             e == g.env
  <2>1. /\ t \in Seq(IngressEvent) /\ e \in Local /\ e \notin Fates(t)
        /\ r.trace = Append(t, DropEvent(e))
    BY <1>2, <1>3, <1>4 DEF Dropped
  <2> HIDE DEF t, e
  <2>2. /\ RecordedIn(r.trace, "Drop") = RecordedIn(t, "Drop") \cup {e}
        /\ RecordedIn(r.trace, "NetRecv") = RecordedIn(t, "NetRecv")
    BY <2>1, DropFates
  <2> QED
    BY <2>2 DEF DroppedIn, ReceivedIn, t, e
<1>6. ReorderedIn(q) \subseteq ReorderedIn(r)
  BY <1>3, RecordsGrow DEF ReorderedIn
<1>7. r.reorder_buf = q.reorder_buf /\ r.pending = q.pending
  BY DEF Dropped
<1>8. \A e, f : Ahead(r, e, f) => Ahead(q, e, f) /\ e # g.env
  <2> TAKE e, f
  <2> HAVE Ahead(r, e, f)
  <2>1. ReceivedBefore(r.trace, e, f) => ReceivedBefore(q.trace, e, f)
    BY <1>3, QuietTrace
  <2>2. Ahead(q, e, f)
    BY <1>5, <1>7, <2>1 DEF Ahead
  <2>3. e \in ReceivedIn(q) \cup EnvsOf(q.pending)
    BY <2>2, AheadInLine
  <2> QED
    BY <1>4, <2>2, <2>3 DEF Fates, ReceivedIn
<1>9. Distinct(h2) /\ InversionsOwned(r, h2)
  <2>1. DroppedIn(r) \cap EnvsOf(h) = DroppedIn(q) \cap EnvsOf(h)
    BY <1>5
  <2>2. Distinct(h) /\ InversionsOwned(q, h)
    BY DEF Line
  <2> HIDE DEF h2
  <2> QED
    BY <1>6, <1>8, <2>1, <2>2, LongerLine DEF h2
<1> HIDE DEF h2, len
<1>10. \A k \in DOMAIN h2 : \/ k \in DOMAIN h /\ h2[k] = h[k]
                            \/ k = len + 1 /\ h2[k].env \notin EnvsOf(q.reorder_buf)
  BY <1>1, <1>4
<1>11. ArrivalOrder(r, h2)
  <2>1. \A i \in DOMAIN q.reorder_buf : q.reorder_buf[i].env \in EnvsOf(q.reorder_buf)
    BY DEF EnvsOf
  <2> QED
    BY <1>7, <1>10, <2>1 DEF Line, ArrivalOrder
<1>12. SurvivingTail(r, h2)
  BY <1>1, <1>5, <1>7, <1>10 DEF Line, SurvivingTail
<1>13. OnePolicy(r, h2, p, n)
  BY <1>7, <1>10 DEF Line, OnePolicy
<1> QED
  BY <1>9, <1>11, <1>12, <1>13 DEF Line, h2

(* A pushed envelope goes to the end of the line or of the buffer. *)
LEMMA PushLine ==
    ASSUME NEW q \in Injector, NEW r, NEW h \in History, NEW g \in IngestCall,
           NEW st \in Staged, st.env = g.env,
           OneFateOf(q, EnvsOf(h)), g.env \notin EnvsOf(h),
           Line(q, h, g.policy, g.step), Pushed(q, r, st)
    PROVE  Line(r, Append(h, g), g.policy, g.step)
<1> DEFINE h2 == Append(h, g)
           n == Len(h)
           buf == q.reorder_buf
<1>1. /\ n \in Nat /\ DOMAIN h = 1..n /\ DOMAIN h2 = 1..(n + 1)
      /\ \A k \in 1..n : h2[k] = h[k]
      /\ h2[n + 1] = g
  BY AppendProperties DEF History
<1>2. /\ buf \in Seq(Staged) /\ q.pending \in Seq(Staged)
  BY DEF Injector
<1>3. /\ g.env \notin Fates(q.trace) /\ g.env \notin EnvsOf(buf)
      /\ g.env \notin EnvsOf(q.pending)
  BY DEF OneFateOf
<1>4. /\ DroppedIn(r) = DroppedIn(q) /\ ReceivedIn(r) = ReceivedIn(q)
      /\ ReorderedIn(q) \subseteq ReorderedIn(r)
      /\ \A e, f : ReceivedBefore(r.trace, e, f) => ReceivedBefore(q.trace, e, f)
  BY NeutralLine DEF Pushed
<1>5. ASSUME NEW e, NEW f, Ahead(q, e, f) PROVE e # g.env
  <2>1. e \in ReceivedIn(q) \cup EnvsOf(q.pending)
    BY <1>5, AheadInLine
  <2> QED
    BY <1>3, <2>1 DEF Fates, ReceivedIn
<1> HIDE DEF h2, n, buf
<1>6. CASE r.reorder_buf = Append(buf, st) /\ r.pending = q.pending
  <2> DEFINE m == Len(buf)
             c == r.reorder_buf
  <2>1. /\ m \in Nat /\ DOMAIN buf = 1..m /\ DOMAIN c = 1..(m + 1)
        /\ \A i \in 1..m : c[i] = buf[i]
        /\ c[m + 1] = st
    BY <1>2, <1>6, AppendProperties
  <2>2. EnvsOf(c) = EnvsOf(buf) \cup {g.env}
    BY <1>2, <1>3, <1>6, AppendEnvs
  <2>3. \A e, f : Ahead(r, e, f) => Ahead(q, e, f)
    BY <1>4, <1>6 DEF Ahead
  <2>4. Distinct(h2) /\ InversionsOwned(r, h2)
    BY <1>4, <1>5, <2>3, LongerLine DEF Line, h2
  <2> HIDE DEF c, m
  <2>5. \A k \in DOMAIN h2 : \/ k \in DOMAIN h /\ h2[k] = h[k] /\ h[k].env # g.env
                             \/ k = n + 1 /\ h2[k] = g
    BY <1>1 DEF EnvsOf
  <2>6. \A i \in DOMAIN c : \/ i \in DOMAIN buf /\ c[i] = buf[i] /\ c[i].env # g.env
                            \/ i = m + 1 /\ c[i].env = g.env
    BY <1>3, <2>1 DEF EnvsOf
  <2>7. ArrivalOrder(r, h2)
    <3> SUFFICES ASSUME NEW i \in DOMAIN c, NEW j \in DOMAIN c,
                        NEW k \in DOMAIN h2, NEW l \in DOMAIN h2,
                        i < j, c[i].env = h2[k].env, c[j].env = h2[l].env
                 PROVE  k < l
        BY DEF ArrivalOrder, c
    <3>1. i \in DOMAIN buf /\ c[i] = buf[i] /\ c[i].env # g.env
      BY <2>1, <2>6
    <3>2. k \in DOMAIN h /\ h2[k] = h[k]
      BY <2>5, <3>1
    <3>3. CASE l = n + 1
      BY <1>1, <3>2, <3>3
    <3>4. CASE l \in DOMAIN h /\ h2[l] = h[l] /\ h[l].env # g.env
      <4>1. j \in DOMAIN buf /\ c[j] = buf[j]
        BY <2>6, <3>4
      <4> QED
        BY <3>1, <3>2, <3>4, <4>1 DEF Line, ArrivalOrder, buf
    <3> QED
      BY <2>5, <3>3, <3>4
  <2>8. SurvivingTail(r, h2)
    <3> SUFFICES ASSUME NEW k \in DOMAIN h2, NEW l \in DOMAIN h2,
                        k <= l, h2[k].env \in EnvsOf(c)
                 PROVE  h2[l].env \in EnvsOf(c) \cup DroppedIn(r)
        BY DEF SurvivingTail, c
    <3>1. CASE l = n + 1
      BY <1>1, <2>2, <3>1
    <3>2. CASE l # n + 1
      <4>1. /\ k \in DOMAIN h /\ h2[k] = h[k] /\ h[k].env # g.env
            /\ l \in DOMAIN h /\ h2[l] = h[l]
        BY <1>1, <2>5, <3>2
      <4>2. h[l].env \in EnvsOf(buf) \cup DroppedIn(q)
        BY <2>2, <4>1 DEF Line, SurvivingTail, buf
      <4> QED
        BY <1>4, <2>2, <4>1, <4>2
    <3> QED
      BY <3>1, <3>2
  <2>9. OnePolicy(r, h2, g.policy, g.step)
    <3> SUFFICES ASSUME NEW k \in DOMAIN h2, h2[k].env \in EnvsOf(c)
                 PROVE  h2[k].policy = g.policy /\ h2[k].step = g.step
        BY DEF OnePolicy, c
    <3> QED
      BY <2>2, <2>5 DEF Line, OnePolicy, buf
  <2> QED
    BY <2>4, <2>7, <2>8, <2>9 DEF Line, h2
<1>7. CASE r.pending = Append(q.pending, st) /\ buf = <<>> /\ r.reorder_buf = <<>>
  <2> DEFINE x == <<st>>
  <2>1. x \in Seq(Staged) /\ r.pending = q.pending \o x
    BY <1>2, <1>7, AppendIsConcat
  <2>2. EnvsOf(x) = {g.env} /\ \A e, f : ~Precedes(x, e, f)
    BY DEF EnvsOf, Precedes
  <2> HIDE DEF x
  <2>3. EnvsOf(r.pending) = EnvsOf(q.pending) \cup {g.env}
    BY <1>2, <2>1, <2>2, ConcatEnvs
  <2>4. ASSUME NEW e, NEW f, Precedes(r.pending, e, f)
        PROVE  Precedes(q.pending, e, f) \/ f = g.env
    <3>1. Precedes(q.pending \o x, e, f)
      BY <2>1, <2>4
    <3>2. \/ Precedes(q.pending, e, f) \/ Precedes(x, e, f)
          \/ e \in EnvsOf(q.pending) /\ f \in EnvsOf(x)
      BY <1>2, <2>1, <3>1, ConcatPrecedes
    <3> QED
      BY <2>2, <3>2
  <2>5. \A e, f : Ahead(r, e, f) => Ahead(q, e, f) \/ f = g.env
    BY <1>4, <2>3, <2>4 DEF Ahead
  <2>6. Distinct(h2) /\ InversionsOwned(r, h2)
    BY <1>4, <1>5, <2>5, LongerLine DEF Line, h2
  <2>7. EnvsOf(r.reorder_buf) = {} /\ DOMAIN r.reorder_buf = {}
    BY <1>7 DEF EnvsOf
  <2>8. ArrivalOrder(r, h2) /\ SurvivingTail(r, h2) /\ OnePolicy(r, h2, g.policy, g.step)
    BY <2>7 DEF ArrivalOrder, SurvivingTail, OnePolicy
  <2> QED
    BY <2>6, <2>8 DEF Line, h2
<1> QED
  BY <1>6, <1>7 DEF Pushed, buf

(* A flush puts the buffer at the end of the line, reversed: an inversion  *)
(* for every two of its envelopes, and no other.                           *)
LEMMA FlushLine ==
    ASSUME NEW q \in Injector, NEW r, NEW h \in History, NEW p, NEW n, NEW S,
           OneFateOf(q, S), Line(q, h, p, n),
           p.reorder_window \in Nat, Len(q.reorder_buf) <= p.reorder_window,
           Flushed(q, r)
    PROVE  Line(r, h, p, n)
<1> DEFINE buf == q.reorder_buf
           v == Reverse(buf)
<1>1. /\ buf \in Seq(Staged) /\ q.pending \in Seq(Staged)
      /\ Len(buf) \in Nat /\ DOMAIN buf = 1..Len(buf)
  BY DEF Injector
<1>2. /\ v \in Seq(Staged) /\ EnvsOf(v) = EnvsOf(buf)
      /\ \A e, f : Precedes(v, e, f) => Precedes(buf, f, e)
  BY <1>1, ReverseEnvs, ReversePrecedes
<1>3. r.pending = q.pending \o v /\ r.reorder_buf = <<>>
  BY DEF Flushed
<1>4. /\ DroppedIn(r) = DroppedIn(q) /\ ReceivedIn(r) = ReceivedIn(q)
      /\ ReorderedIn(q) \subseteq ReorderedIn(r)
      /\ \A e, f : ReceivedBefore(r.trace, e, f) => ReceivedBefore(q.trace, e, f)
  BY NeutralLine DEF Flushed
<1>5. Len(buf) > 1 => EnvsOf(buf) \subseteq ReorderedIn(r)
  BY DEF Flushed, Evident, ReorderedIn
<1>6. EnvsOf(buf) \cap (ReceivedIn(q) \cup DroppedIn(q) \cup EnvsOf(q.pending)) = {}
  BY DEF OneFateOf, Fates, ReceivedIn, DroppedIn
<1> HIDE DEF v, buf
<1>7. /\ EnvsOf(r.pending) = EnvsOf(q.pending) \cup EnvsOf(buf)
      /\ \A e, f : Precedes(r.pending, e, f) =>
            \/ Precedes(q.pending, e, f) \/ Precedes(buf, f, e)
            \/ e \in EnvsOf(q.pending) /\ f \in EnvsOf(buf)
  BY <1>1, <1>2, <1>3, ConcatEnvs, ConcatPrecedes
<1>8. \A e, f : Ahead(r, e, f) =>
         \/ Ahead(q, e, f)
         \/ e \in ReceivedIn(q) \cup EnvsOf(q.pending) /\ f \in EnvsOf(buf)
         \/ Precedes(buf, f, e)
  BY <1>4, <1>7 DEF Ahead
<1>9. InversionsOwned(r, h)
  <2> SUFFICES ASSUME NEW a \in DOMAIN h, NEW b \in DOMAIN h,
                      a < b, Ahead(r, h[b].env, h[a].env)
               PROVE  Owned(r, h, a, b)
      BY DEF InversionsOwned
  <2>1. Survivors(r, h, a, b) = Survivors(q, h, a, b)
    BY <1>4 DEF Survivors
  <2>2. CASE Ahead(q, h[b].env, h[a].env)
    <3>1. Owned(q, h, a, b)
      BY <2>2 DEF Line, InversionsOwned
    <3> QED
      BY <1>4, <2>1, <3>1 DEF Owned
  <2>3. CASE /\ h[b].env \in ReceivedIn(q) \cup EnvsOf(q.pending)
             /\ h[a].env \in EnvsOf(buf)
    <3>1. h[b].env \in EnvsOf(buf) \cup DroppedIn(q)
      BY <2>3 DEF Line, SurvivingTail, buf, History
    <3>2. DroppedIn(q) \cap (ReceivedIn(q) \cup EnvsOf(q.pending)) = {}
      BY DroppedIsNotInLine
    <3> QED
      BY <1>6, <2>3, <3>1, <3>2
  <2>4. CASE Precedes(buf, h[a].env, h[b].env)
    <3>1. PICK i \in DOMAIN buf, j \in DOMAIN buf :
             i < j /\ buf[i].env = h[a].env /\ buf[j].env = h[b].env
      BY <2>4 DEF Precedes
    <3>2. {h[a].env, h[b].env} \subseteq EnvsOf(buf)
      BY <3>1 DEF EnvsOf
    <3>3. Len(buf) > 1
      BY <1>1, <3>1
    <3>4. /\ h[a].step = h[b].step
          /\ h[a].policy = p /\ h[b].policy = p
      BY <3>2 DEF Line, OnePolicy, buf
    <3>6. /\ Cardinality(Survivors(q, h, a, b)) \in Nat
          /\ Cardinality(Survivors(q, h, a, b)) < Len(buf)
      BY <3>2, SurvivorsFit DEF Line, buf
    <3>7. Cardinality(Survivors(q, h, a, b)) < p.reorder_window
      <4>1. Len(buf) <= p.reorder_window
        BY DEF buf
      <4> HIDE DEF buf
      <4> QED
        BY <1>1, <3>6, <4>1
    <3> QED
      BY <1>5, <2>1, <3>2, <3>3, <3>4, <3>7 DEF Owned
  <2> QED
    BY <1>8, <2>2, <2>3, <2>4
<1>10. EnvsOf(r.reorder_buf) = {} /\ DOMAIN r.reorder_buf = {}
  BY <1>3 DEF EnvsOf
<1>11. ArrivalOrder(r, h) /\ SurvivingTail(r, h) /\ OnePolicy(r, h, p, n)
  BY <1>10 DEF ArrivalOrder, SurvivingTail, OnePolicy
<1> QED
  BY <1>9, <1>11 DEF Line

(* The front of a queue that a release turns into events, and the rest.    *)
FrontReceived(Q, c, x) ==
    /\ x \in Seq(IngressEvent) /\ DOMAIN x = 1..c
    /\ \A i \in 1..c : x[i].kind = "NetRecv" /\ x[i].env = Q[i].env

RestOf(Q, c, P) ==
    /\ DOMAIN P = 1..(Len(Q) - c)
    /\ \A i \in 1..(Len(Q) - c) : P[i] = Q[c + i]

LEMMA CutQueue ==
    ASSUME NEW Q \in Seq(Staged), NEW c \in 0..Len(Q), NEW x,
           Receipts(x, SubSeq(Q, 1, c))
    PROVE  /\ FrontReceived(Q, c, x)
           /\ RestOf(Q, c, SubSeq(Q, c + 1, Len(Q)))
<1> DEFINE out == SubSeq(Q, 1, c)
           P == SubSeq(Q, c + 1, Len(Q))
<1>1. /\ out \in Seq(Staged) /\ P \in Seq(Staged)
      /\ Len(out) = c /\ Len(P) = Len(Q) - c
      /\ \A i \in 1..c : out[i] = Q[i]
      /\ \A i \in 1..(Len(Q) - c) : P[i] = Q[c + i]
  BY SMTT(60), ZenonT(30), SplitEnvs
<1>2. /\ x \in Seq(IngressEvent) /\ DOMAIN x = DOMAIN out
      /\ \A i \in DOMAIN out : x[i] = NetRecvEvent(out[i].env)
  BY DEF Receipts
<1> HIDE DEF out, P
<1>3. DOMAIN out = 1..c /\ DOMAIN P = 1..(Len(Q) - c)
  BY <1>1
<1>4. \A i \in 1..c : x[i] = NetRecvEvent(Q[i].env)
  BY <1>1, <1>2, <1>3
<1>5. \A i \in 1..c : x[i].kind = "NetRecv" /\ x[i].env = Q[i].env
  <2> TAKE i \in 1..c
  <2> DEFINE e == Q[i].env
             y == x[i]
  <2>1. y = NetRecvEvent(e)
    BY <1>4
  <2> HIDE DEF e, y
  <2>2. y.kind = "NetRecv" /\ y.env = e
    BY <2>1 DEF NetRecvEvent
  <2> QED
    BY <2>2 DEF e, y
<1>6. FrontReceived(Q, c, x)
  BY <1>2, <1>3, <1>5 DEF FrontReceived
<1>7. RestOf(Q, c, P)
  BY <1>1, <1>3 DEF RestOf
<1> QED
  BY <1>6, <1>7 DEF P

(* Two receipts are both old, or an old one and one from the front of the  *)
(* queue, or both from there and in its order.                             *)
LEMMA ReceiptsInOrder ==
    ASSUME NEW t \in Seq(IngressEvent), NEW Q \in Seq(Staged), NEW c \in 0..Len(Q),
           NEW x, FrontReceived(Q, c, x),
           NEW e, NEW f, ReceivedBefore(t \o x, e, f)
    PROVE  \/ ReceivedBefore(t, e, f)
           \/ e \in RecordedIn(t, "NetRecv") /\ f \in EnvsOf(Q)
           \/ Precedes(Q, e, f)
<1> DEFINE u == t \o x
           n == Len(t)
<1>1. /\ n \in Nat /\ DOMAIN t = 1..n /\ c \in Nat
      /\ Len(Q) \in Nat /\ DOMAIN Q = 1..Len(Q) /\ 1..c \subseteq DOMAIN Q
  OBVIOUS
<1>2. /\ x \in Seq(IngressEvent) /\ DOMAIN x = 1..c
      /\ \A i \in 1..c : x[i].kind = "NetRecv" /\ x[i].env = Q[i].env
  BY DEF FrontReceived
<1>3. Len(x) = c
  BY <1>1, <1>2
<1>4. /\ DOMAIN u = 1..(n + c)
      /\ \A i \in 1..(n + c) : u[i] = IF i <= n THEN t[i] ELSE x[i - n]
  <2>1. /\ DOMAIN u = 1..(n + Len(x))
        /\ \A i \in 1..(n + Len(x)) : u[i] = IF i <= n THEN t[i] ELSE x[i - n]
    BY <1>2, ConcatProperties
  <2> HIDE DEF u, n
  <2> QED
    BY <1>3, <2>1
<1>5. PICK i \in DOMAIN u, j \in DOMAIN u :
         /\ i < j
         /\ u[i].kind = "NetRecv" /\ u[i].env = e
         /\ u[j].kind = "NetRecv" /\ u[j].env = f
  BY DEF ReceivedBefore
<1> HIDE DEF u, n
<1>6. \A k \in DOMAIN u : \/ k <= n /\ k \in DOMAIN t /\ u[k] = t[k]
                          \/ /\ k > n /\ k - n \in DOMAIN Q
                             /\ u[k].env = Q[k - n].env
  BY <1>1, <1>2, <1>4
<1>7. i \in Int /\ j \in Int
  BY <1>1, <1>4
<1>8. CASE j <= n
  <2>1. i \in DOMAIN t /\ j \in DOMAIN t /\ u[i] = t[i] /\ u[j] = t[j]
    BY <1>1, <1>5, <1>6, <1>7, <1>8
  <2> QED
    BY <1>5, <2>1 DEF ReceivedBefore
<1>9. CASE i <= n /\ j > n
  <2>1. /\ i \in DOMAIN t /\ u[i] = t[i]
        /\ j - n \in DOMAIN Q /\ u[j].env = Q[j - n].env
    BY <1>1, <1>6, <1>7, <1>9
  <2> QED
    BY <1>5, <2>1 DEF RecordedIn, EnvsOf
<1>10. CASE i > n
  <2>1. /\ i - n \in DOMAIN Q /\ u[i].env = Q[i - n].env
        /\ j - n \in DOMAIN Q /\ u[j].env = Q[j - n].env /\ i - n < j - n
    BY <1>1, <1>5, <1>6, <1>7, <1>10
  <2> QED
    BY <1>5, <2>1 DEF Precedes
<1> QED
  BY <1>1, <1>7, <1>8, <1>9, <1>10

(* The order of a queue is that of its front before its rest. *)
LEMMA CutInOrder ==
    ASSUME NEW Q \in Seq(Staged), NEW c \in 0..Len(Q), NEW P, RestOf(Q, c, P),
           NEW e, NEW f
    PROVE  /\ EnvsOf(P) \subseteq EnvsOf(Q)
           /\ Precedes(P, e, f) => Precedes(Q, e, f)
           /\ e \in EnvsOf(SubSeq(Q, 1, c)) /\ f \in EnvsOf(P) => Precedes(Q, e, f)
<1> DEFINE m == Len(Q)
           out == SubSeq(Q, 1, c)
<1>1. m \in Nat /\ DOMAIN Q = 1..m /\ c \in 0..m
  OBVIOUS
<1>2. DOMAIN P = 1..(m - c) /\ \A i \in 1..(m - c) : P[i] = Q[c + i]
  BY DEF RestOf
<1>3. out \in Seq(Staged) /\ Len(out) = c /\ \A i \in 1..c : out[i] = Q[i]
  BY SplitEnvs
<1> HIDE DEF m, out
<1>4. \A i \in DOMAIN P : c + i \in DOMAIN Q /\ P[i] = Q[c + i]
  BY <1>1, <1>2
<1>5. \A i, j \in DOMAIN P : i < j => c + i < c + j
  BY <1>1, <1>2
<1>6. \A i \in DOMAIN out : i \in DOMAIN Q /\ out[i] = Q[i]
  BY <1>1, <1>3
<1>7. \A i \in DOMAIN out, j \in DOMAIN P : i < c + j
  BY <1>1, <1>2, <1>3
<1>8. EnvsOf(P) \subseteq EnvsOf(Q)
  BY <1>4 DEF EnvsOf
<1>9. Precedes(P, e, f) => Precedes(Q, e, f)
  BY <1>4, <1>5 DEF Precedes
<1>10. e \in EnvsOf(out) /\ f \in EnvsOf(P) => Precedes(Q, e, f)
  BY <1>4, <1>6, <1>7 DEF Precedes, EnvsOf
<1> QED
  BY <1>8, <1>9, <1>10 DEF out

(* A release moves the front of the pending queue to the end of the trace. *)
LEMMA ReleaseLine ==
    ASSUME NEW q \in Injector, NEW r \in Injector, NEW h \in History,
           NEW p, NEW n, NEW S,
           NEW c \in 0..Len(q.pending), OneFateOf(q, S), Line(q, h, p, n),
           r.reorder_buf = q.reorder_buf,
           r.pending = SubSeq(q.pending, c + 1, Len(q.pending)),
           \E x : /\ Receipts(x, SubSeq(q.pending, 1, c))
                  /\ r.trace = q.trace \o x
    PROVE  Line(r, h, p, n)
<1>0. /\ OneFateOf(r, S)
      /\ RecordedIn(r.trace, "Drop") = RecordedIn(q.trace, "Drop")
      /\ RecordedIn(r.trace, "NetRecv") =
             RecordedIn(q.trace, "NetRecv") \cup EnvsOf(SubSeq(q.pending, 1, c))
  BY ReleaseFate
<1> DEFINE Q == q.pending
           t == q.trace
           out == SubSeq(Q, 1, c)
<1>1. Q \in Seq(Staged) /\ t \in Seq(IngressEvent) /\ c \in 0..Len(Q)
  BY DEF Injector
<1>2. /\ RecordedIn(r.trace, "Drop") = RecordedIn(t, "Drop")
      /\ RecordedIn(r.trace, "NetRecv") = RecordedIn(t, "NetRecv") \cup EnvsOf(out)
  BY <1>0
<1>3. PICK x : Receipts(x, SubSeq(q.pending, 1, c)) /\ r.trace = q.trace \o x
  BY Zenon
<1> HIDE DEF Q, t
<1>4. FrontReceived(Q, c, x) /\ RestOf(Q, c, r.pending)
  BY <1>1, <1>3, CutQueue DEF Q
<1>5. ReorderedIn(q) \subseteq ReorderedIn(r)
  <2>1. x \in Seq(IngressEvent) /\ r.trace = t \o x
    BY <1>3 DEF Receipts, t
  <2>2. RecordedIn(t, "Reorder") \subseteq RecordedIn(r.trace, "Reorder")
    BY <1>1, <2>1, RecordsGrow
  <2> QED
    BY <2>2 DEF ReorderedIn, t
<1>6. ASSUME NEW e, NEW f, Ahead(r, e, f) PROVE Ahead(q, e, f)
  <2>1. CASE ReceivedBefore(r.trace, e, f)
    <3>1. ReceivedBefore(t \o x, e, f)
      BY <1>3, <2>1 DEF t
    <3>2. \/ ReceivedBefore(t, e, f)
          \/ e \in RecordedIn(t, "NetRecv") /\ f \in EnvsOf(Q)
          \/ Precedes(Q, e, f)
      BY <1>1, <1>4, <3>1, ReceiptsInOrder
    <3> QED
      BY <3>2 DEF Ahead, ReceivedIn, Q, t
  <2>2. CASE e \in ReceivedIn(r) /\ f \in EnvsOf(r.pending)
    <3>1. e \in RecordedIn(t, "NetRecv") \/ e \in EnvsOf(out)
      BY <1>2, <2>2 DEF ReceivedIn
    <3>2. EnvsOf(r.pending) \subseteq EnvsOf(Q)
          /\ (e \in EnvsOf(out) /\ f \in EnvsOf(r.pending) => Precedes(Q, e, f))
      BY <1>1, <1>4, CutInOrder
    <3> QED
      BY <2>2, <3>1, <3>2 DEF Ahead, ReceivedIn, Q, t
  <2>3. CASE Precedes(r.pending, e, f)
    <3>1. Precedes(Q, e, f)
      BY <1>1, <1>4, <2>3, CutInOrder
    <3> QED
      BY <3>1 DEF Ahead, Q
  <2> QED
    BY <1>6, <2>1, <2>2, <2>3 DEF Ahead
<1>7. DroppedIn(r) = DroppedIn(q)
  BY <1>2 DEF DroppedIn, t
<1>8. InversionsOwned(r, h)
  BY <1>5, <1>6, <1>7, SameLine DEF Line
<1>9. ArrivalOrder(r, h) /\ SurvivingTail(r, h) /\ OnePolicy(r, h, p, n)
  BY <1>7 DEF Line, ArrivalOrder, SurvivingTail, OnePolicy
<1> QED
  BY <1>8, <1>9 DEF Line

(* The sync at the start of a drain finds the buffer empty. *)
LEMMA SyncLine ==
    ASSUME NEW q \in Injector, NEW r, NEW h \in History,
           NEW p, NEW n, NEW p2, NEW n2, Line(q, h, p, n),
           r.reorder_buf = <<>>, r.pending = q.pending, NeutralExtension(q, r)
    PROVE  Line(r, h, p2, n2)
<1>1. /\ DroppedIn(r) = DroppedIn(q) /\ ReceivedIn(r) = ReceivedIn(q)
      /\ ReorderedIn(q) \subseteq ReorderedIn(r)
      /\ \A e, f : ReceivedBefore(r.trace, e, f) => ReceivedBefore(q.trace, e, f)
  BY NeutralLine
<1>2. \A e, f : Ahead(r, e, f) => Ahead(q, e, f)
  BY <1>1 DEF Ahead
<1>3. InversionsOwned(r, h)
  BY <1>1, <1>2, SameLine DEF Line
<1>4. EnvsOf(r.reorder_buf) = {} /\ DOMAIN r.reorder_buf = {}
  BY DEF EnvsOf
<1>5. ArrivalOrder(r, h) /\ SurvivingTail(r, h) /\ OnePolicy(r, h, p2, n2)
  BY <1>4 DEF ArrivalOrder, SurvivingTail, OnePolicy
<1> QED
  BY <1>3, <1>5 DEF Line

------------------------------------------------------------------------------
(* The inductive invariant.                                                *)
LineInv == Line(inj, ingests, inj.active_policy, step)

(* Nothing is in line at the start. *)
LEMMA InitLineInv == Init => LineInv
<1> SUFFICES ASSUME Init PROVE LineInv
    OBVIOUS
<1>1. ingests = <<>> /\ DOMAIN ingests = {}
  BY DEF Init
<1> QED
  BY <1>1 DEF LineInv, Line, Distinct, InversionsOwned, ArrivalOrder,
              SurvivingTail, OnePolicy

(* Ingest: a drop, a push, or a push that fills the window. *)
LEMMA IngestLineInv == ASSUME IInv, LineInv, Ingest PROVE LineInv'
<1> DEFINE env == Head(rx)
           w == inj.active_policy.reorder_window
           g == [env |-> env, step |-> step, policy |-> inj'.active_policy]
           st == [env |-> env, release_step |-> step + inj.active_policy.delay_steps]
           S == EnvsOf(ingests)
<1>1. /\ inj \in Injector /\ step \in Nat /\ ingests \in History
      /\ pc = "recv" /\ rx # <<>> /\ env \in Local /\ step' = step
      /\ inj' = ingest(inj, Cfg, env, step)
      /\ ingests' = Append(ingests, g)
      /\ WindowOK(inj) /\ OneFateOf(inj, S)
      /\ inj.policy_initialized /\ inj.active_policy = policy_for_step(Cfg, step)
  BY DEF IInv, TypeOK, Ingest, PolicyInForce, History
<1>2. env \notin S
  BY <1>1, TailFresh DEF IInv
<1>3. /\ inj' \in Injector /\ inj'.active_policy = inj.active_policy
      /\ \/ Dropped(inj, inj', env)
         \/ Pushed(inj, inj', st)
         \/ \E m \in Injector : Pushed(inj, m, st) /\ Flushed(m, inj')
  <2> HIDE DEF env
  <2> QED
    BY <1>1, IngestEffect
<1>4. inj.active_policy \in FaultPolicy
  BY <1>1, PolicyOfConfig
<1>5. w \in Nat /\ w # 0 /\ inj.active_policy.delay_steps \in Nat
  BY <1>4 DEF FaultPolicy
<1>6. g \in IngestCall /\ st \in Staged /\ st.env = env /\ g.env = env
      /\ g.step = step /\ g.policy = inj.active_policy
  BY <1>1, <1>3, <1>4, <1>5 DEF IngestCall, Staged
<1>7. Line(inj, ingests, g.policy, g.step)
  BY <1>6 DEF LineInv
<1> HIDE DEF env, g, st, S, w
<1>8. CASE Dropped(inj, inj', env)
  <2>1. Line(inj', ingests', g.policy, g.step)
    BY <1>1, <1>2, <1>6, <1>7, <1>8, DropLine DEF S
  <2> QED
    BY <1>1, <1>3, <1>6, <2>1 DEF LineInv
<1>9. ASSUME NEW m, Pushed(inj, m, st)
      PROVE  Line(m, ingests', g.policy, g.step)
  BY <1>1, <1>2, <1>6, <1>7, <1>9, PushLine DEF S
<1>10. CASE Pushed(inj, inj', st)
  <2>1. Line(inj', ingests', g.policy, g.step)
    BY <1>9, <1>10
  <2> QED
    BY <1>1, <1>3, <1>6, <2>1 DEF LineInv
<1>11. CASE \E m \in Injector : Pushed(inj, m, st) /\ Flushed(m, inj')
  <2>1. PICK m \in Injector : Pushed(inj, m, st) /\ Flushed(m, inj')
    BY <1>11
  <2>2. OneFateOf(m, S \cup {st.env})
    BY <1>1, <1>2, <1>6, <2>1, PushFate
  <2>3. Len(m.reorder_buf) <= w
    <3>1. inj.reorder_buf \in Seq(Staged) /\ Len(inj.reorder_buf) \in Nat
      BY <1>1 DEF Injector
    <3>2. inj.reorder_buf # <<>> => Len(inj.reorder_buf) < w
      BY <1>1 DEF WindowOK, w
    <3>3. CASE m.reorder_buf = Append(inj.reorder_buf, st)
      <4>1. Len(m.reorder_buf) = Len(inj.reorder_buf) + 1
        BY <3>1, <3>3, <1>6, AppendProperties
      <4> QED
        BY <1>5, <3>1, <3>2, <4>1
    <3>4. CASE m.reorder_buf = <<>>
      BY <1>5, <3>4
    <3> QED
      BY <2>1, <3>3, <3>4 DEF Pushed
  <2>4. Line(m, ingests', g.policy, g.step)
    BY <1>9, <2>1
  <2>5. ingests' \in History /\ g.policy.reorder_window = w
    BY <1>1, <1>6, AppendProperties DEF History, w
  <2>6. Line(inj', ingests', g.policy, g.step)
    BY <1>5, <2>1, <2>2, <2>3, <2>4, <2>5, FlushLine
  <2> QED
    BY <1>1, <1>3, <1>6, <2>6 DEF LineInv
<1> QED
  BY <1>3, <1>8, <1>10, <1>11

(* The end of the drain: flush, then release. *)
LEMMA ReleaseLineInv == ASSUME IInv, LineInv, Release PROVE LineInv'
<1> DEFINE m == flush_remainder(inj)
           S == EnvsOf(ingests)
           p == inj.active_policy
<1>1. /\ inj \in Injector /\ step \in Nat /\ ingests \in History
      /\ UNCHANGED <<step, ingests>>
      /\ inj' = release_due(m, step)
      /\ WindowOK(inj) /\ OneFateOf(inj, S)
  BY DEF IInv, TypeOK, Release, History
<1>2. m \in Injector /\ SamePolicy(inj, m) /\ Flushed(inj, m)
  BY <1>1, FlushRemainder
<1> HIDE DEF m
<1>3. p.reorder_window \in Nat /\ Len(inj.reorder_buf) <= p.reorder_window
  <2>1. p \in FaultPolicy /\ inj.reorder_buf \in Seq(Staged)
    BY <1>1 DEF Injector
  <2>2. p.reorder_window \in Nat /\ p.reorder_window # 0
    BY <2>1 DEF FaultPolicy
  <2>3. CASE inj.reorder_buf = <<>>
    BY <2>2, <2>3
  <2>4. CASE inj.reorder_buf # <<>>
    BY <1>1, <2>1, <2>2, <2>4 DEF WindowOK
  <2> QED
    BY <2>2, <2>3, <2>4
<1>4. OneFateOf(m, S)
  BY <1>1, <1>2, FlushFate
<1>5. Line(inj, ingests, p, step)
  BY DEF LineInv
<1> HIDE DEF S, p
<1>6. Line(m, ingests, p, step)
  BY <1>1, <1>2, <1>3, <1>5, FlushLine
<1>7. PICK c \in 0..Len(m.pending) :
         /\ inj' \in Injector /\ SamePolicy(m, inj')
         /\ inj'.reorder_buf = m.reorder_buf
         /\ inj'.pending = SubSeq(m.pending, c + 1, Len(m.pending))
         /\ \E x : Receipts(x, SubSeq(m.pending, 1, c)) /\ inj'.trace = m.trace \o x
  BY <1>1, <1>2, ReleaseEffect
<1>8. Line(inj', ingests, p, step)
  BY <1>1, <1>2, <1>4, <1>6, <1>7, ReleaseLine
<1> QED
  BY <1>1, <1>2, <1>7, <1>8 DEF LineInv, SamePolicy, p

(* Every step preserves the line. *)
LEMMA NextLineInv == IInv /\ LineInv /\ [Next]_vars => LineInv'
<1> SUFFICES ASSUME IInv, LineInv, [Next]_vars PROVE LineInv'
    OBVIOUS
<1>1. CASE Ingest
  BY <1>1, IngestLineInv
<1>2. CASE Release
  BY <1>2, ReleaseLineInv
<1>3. CASE Sync
  <2>1. /\ inj \in Injector /\ step \in Nat /\ inj.reorder_buf = <<>>
        /\ UNCHANGED <<step, ingests>> /\ ingests \in History
        /\ inj' = sync_policy(inj, Cfg, step)
    BY <1>3 DEF IInv, TypeOK, Sync, NoStranding, History
  <2>2. /\ inj'.reorder_buf = <<>> /\ inj'.pending = inj.pending
        /\ NeutralExtension(inj, inj')
    BY <2>1, SyncPolicy
  <2>3. Line(inj', ingests, inj'.active_policy, step)
    BY <2>1, <2>2, SyncLine DEF LineInv
  <2> QED
    BY <2>1, <2>3 DEF LineInv
<1>4. CASE Rest
  <2>1. UNCHANGED <<inj, ingests>> /\ inj.reorder_buf = <<>>
    BY <1>4 DEF Rest, IInv, NoStranding
  <2>2. OnePolicy(inj, ingests, inj.active_policy, step')
    BY <2>1 DEF OnePolicy, EnvsOf
  <2>3. Line(inj, ingests, inj.active_policy, step')
    BY <2>2 DEF LineInv, Line
  <2> QED
    BY <2>1, <2>3 DEF LineInv
<1>5. CASE UNCHANGED <<inj, ingests, step>>
  BY <1>5 DEF LineInv
<1>6. \/ Ingest \/ Release \/ Sync \/ Rest \/ UNCHANGED <<inj, ingests, step>>
  BY DEF Next, vars, Listen, Misrouted, Done
<1> QED
  BY <1>1, <1>2, <1>3, <1>4, <1>5, <1>6

------------------------------------------------------------------------------
(* A received envelope's place in the trace. *)
LEMMA ReceivedPlace ==
    ASSUME TypeOK, NEW e \in Recorded("NetRecv")
    PROVE  /\ ReceivedAt(e) \in DOMAIN inj.trace
           /\ inj.trace[ReceivedAt(e)] = NetRecvEvent(e)
<1>1. PICK i \in DOMAIN inj.trace : inj.trace[i].kind = "NetRecv" /\ inj.trace[i].env = e
  BY DEF Recorded, RecordedIn
<1>2. inj.trace[i] \in IngressEvent
  BY DEF TypeOK, Injector
<1>3. inj.trace[i] \in [kind : {"Drop", "NetRecv"}, env : Local]
  BY <1>1, <1>2 DEF IngressEvent
<1>4. inj.trace[i] = NetRecvEvent(e)
  BY <1>1, <1>3 DEF NetRecvEvent
<1> QED
  BY <1>4 DEF ReceivedAt

(* An inversion of receipts is one of the line. *)
LEMMA LineConfined == IInv /\ LineInv => ReorderConfined
<1> SUFFICES ASSUME IInv, LineInv, NEW a \in DOMAIN ingests, NEW b \in DOMAIN ingests,
                    a < b,
                    {ingests[a].env, ingests[b].env} \subseteq Recorded("NetRecv"),
                    ReceivedAt(ingests[b].env) < ReceivedAt(ingests[a].env)
             PROVE  /\ ingests[a].step = ingests[b].step
                    /\ ingests[a].policy = ingests[b].policy
                    /\ {ingests[a].env, ingests[b].env} \subseteq Recorded("Reorder")
                    /\ Cardinality({k \in (a + 1)..b :
                                      ingests[k].env \notin Recorded("Drop")})
                         < ingests[a].policy.reorder_window
    BY DEF ReorderConfined
<1> DEFINE e == ingests[a].env
           f == ingests[b].env
<1>1. TypeOK
  BY DEF IInv
<1>2. /\ ReceivedAt(e) \in DOMAIN inj.trace /\ ReceivedAt(f) \in DOMAIN inj.trace
      /\ inj.trace[ReceivedAt(e)] = NetRecvEvent(e)
      /\ inj.trace[ReceivedAt(f)] = NetRecvEvent(f)
  BY <1>1, ReceivedPlace
<1>3. ReceivedAt(f) < ReceivedAt(e)
  OBVIOUS
<1> HIDE DEF e, f
<1>4. ReceivedBefore(inj.trace, f, e)
  BY <1>2, <1>3 DEF ReceivedBefore, NetRecvEvent
<1>5. Owned(inj, ingests, a, b)
  BY <1>4 DEF LineInv, Line, InversionsOwned, Ahead, e, f
<1> QED
  BY <1>5 DEF Owned, Survivors, DroppedIn, ReorderedIn, Recorded

(* Whatever the arrivals and the fault phases, messages are received out   *)
(* of order only within one window of one step, and the trace says so.     *)
THEOREM ReorderingIsConfined == Spec => []ReorderConfined
<1>1. Spec => []LineInv
  BY InvariantHolds, InitLineInv, NextLineInv, PTL DEF Spec
<1> QED
  BY <1>1, InvariantHolds, LineConfined, PTL

=============================================================================
