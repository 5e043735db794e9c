-------------------------- MODULE ChangeGate_proofs --------------------------
(***************************************************************************)
(* What TLAPS proves of ChangeGate for any handlers, requests and graph:   *)
(* the sandbox runs a change exactly when its latest simulation still      *)
(* stands, and the event log tells of every write once.                    *)
(*                                                                         *)
(* The graphs, the scenarios and the runs only ever grow at their ends, so *)
(* what a handler has read of them stays true of the part it has read.     *)
(* The invariant says what each handler has read.                          *)
(***************************************************************************)
EXTENDS ChangeGate, TLAPS, SequenceTheorems, FiniteSetTheorems, WellFoundedInduction

-----------------------------------------------------------------------------
(* Sequences that grow.                                                    *)

IsSeq(s) == s \in Seq(ToSet(s))

\* Every sequence is one of its own elements.
LEMMA SeqIs ==
  ASSUME NEW S, NEW s \in Seq(S)
  PROVE  IsSeq(s) /\ ToSet(s) \subseteq S
<1>1. Len(s) \in Nat /\ DOMAIN s = 1 .. Len(s) /\ s = [i \in 1 .. Len(s) |-> s[i]]
  OBVIOUS
<1>2. \A i \in 1 .. Len(s) : s[i] \in ToSet(s) /\ s[i] \in S
  BY <1>1 DEF ToSet
<1>3. s \in [1 .. Len(s) -> ToSet(s)]
  BY <1>1, <1>2
<1>4. s \in Seq(ToSet(s))
  BY <1>1, <1>3
<1>5. ToSet(s) \subseteq S
  BY <1>1, <1>2 DEF ToSet
<1> QED
  BY <1>4, <1>5 DEF IsSeq

\* What an append makes of a sequence.
LEMMA Grown ==
  ASSUME NEW s, IsSeq(s), NEW x
  PROVE  /\ IsSeq(Append(s, x)) /\ Len(s) \in Nat /\ Len(Append(s, x)) = Len(s) + 1
         /\ DOMAIN s = 1 .. Len(s) /\ DOMAIN Append(s, x) = 1 .. Len(s) + 1
         /\ \A i \in 1 .. Len(s) : Append(s, x)[i] = s[i]
         /\ Append(s, x)[Len(s) + 1] = x
         /\ ToSet(Append(s, x)) = ToSet(s) \cup {x}
<1> DEFINE S == ToSet(s) \cup {x}
<1>1. s \in Seq(S) /\ x \in S
  <2>1. s \in Seq(ToSet(s))
    BY DEF IsSeq
  <2>2. s \in [1 .. Len(s) -> ToSet(s)] /\ Len(s) \in Nat
    BY <2>1
  <2>3. s \in [1 .. Len(s) -> S]
    BY <2>2
  <2> QED
    BY <2>2, <2>3
<1> HIDE DEF S
<1>2. Append(s, x) \in Seq(S)
  BY <1>1
<1>3. /\ Len(s) \in Nat /\ Len(Append(s, x)) = Len(s) + 1
      /\ DOMAIN s = 1 .. Len(s) /\ DOMAIN Append(s, x) = 1 .. Len(s) + 1
      /\ \A i \in 1 .. Len(s) : Append(s, x)[i] = s[i]
      /\ Append(s, x)[Len(s) + 1] = x
  BY <1>1
<1>4. 1 .. Len(s) + 1 = (1 .. Len(s)) \cup {Len(s) + 1}
  BY <1>3
<1>5. ToSet(Append(s, x)) = ToSet(s) \cup {x}
  BY <1>3, <1>4 DEF ToSet
<1> QED
  BY <1>2, <1>3, <1>5, SeqIs

\* What is left of a request after its first step, and a step put in its place.
LEMMA RestIs ==
  ASSUME NEW s, IsSeq(s), s # <<>>
  PROVE  /\ IsSeq(Tail(s)) /\ ToSet(Tail(s)) \subseteq ToSet(s) /\ Head(s) \in ToSet(s)
         /\ Tail(s) # <<>> => Head(Tail(s)) \in ToSet(Tail(s)) /\ ToSet(Tail(Tail(s))) \subseteq ToSet(Tail(s))
<1>1. ASSUME NEW q, IsSeq(q), q # <<>>
      PROVE  IsSeq(Tail(q)) /\ ToSet(Tail(q)) \subseteq ToSet(q) /\ Head(q) \in ToSet(q)
  <2>1. Tail(q) \in Seq(ToSet(q)) /\ Head(q) \in ToSet(q)
    BY <1>1, HeadTailProperties DEF IsSeq
  <2> QED
    BY <2>1, SeqIs
<1> QED
  BY <1>1

\* What putting an element before a sequence makes of it.
LEMMA PutFirst ==
  ASSUME NEW s, IsSeq(s), NEW x
  PROVE  /\ IsSeq(<<x>> \o s) /\ <<x>> \o s # <<>>
         /\ Head(<<x>> \o s) = x /\ Tail(<<x>> \o s) = s
<1> DEFINE S == ToSet(s) \cup {x}
<1>1. s \in Seq(S) /\ <<x>> \in Seq(S)
  <2>1. s \in [1 .. Len(s) -> ToSet(s)] /\ Len(s) \in Nat
    BY DEF IsSeq
  <2>2. s \in [1 .. Len(s) -> S]
    BY <2>1
  <2> QED
    BY <2>1, <2>2
<1> HIDE DEF S
<1>2. <<x>> \o s \in Seq(S) /\ <<x>> \o s # <<>> /\ Head(<<x>> \o s) = x
  BY <1>1
<1>3. Tail(<<x>> \o s) = s
  BY <1>1
<1> QED
  BY <1>2, <1>3, SeqIs

\* How often an event is in a sequence
Times(s, e) == Cardinality({i \in DOMAIN s : s[i] = e})

\* An append counts the element it adds once more and no other.
LEMMA TimesIs ==
  ASSUME NEW s, IsSeq(s), NEW x, NEW e
  PROVE  /\ Times(s, e) \in Nat
         /\ Times(Append(s, x), e) = Times(s, e) + IF x = e THEN 1 ELSE 0
<1> DEFINE Old == {i \in DOMAIN s : s[i] = e}
           New == {i \in DOMAIN Append(s, x) : Append(s, x)[i] = e}
<1>1. /\ Len(s) \in Nat /\ DOMAIN s = 1 .. Len(s) /\ DOMAIN Append(s, x) = 1 .. Len(s) + 1
      /\ \A i \in 1 .. Len(s) : Append(s, x)[i] = s[i]
      /\ Append(s, x)[Len(s) + 1] = x
  BY Grown
<1>2. IsFiniteSet(Old) /\ Len(s) + 1 \notin Old
  <2>1. IsFiniteSet(1 .. Len(s))
    BY <1>1, FS_Interval
  <2> QED
    BY <1>1, <2>1, FS_Subset
<1>3. New = IF x = e THEN Old \cup {Len(s) + 1} ELSE Old
  BY <1>1
<1>4. Cardinality(Old) \in Nat /\ Cardinality(Old \cup {Len(s) + 1}) = Cardinality(Old) + 1
  BY <1>2, FS_AddElement, FS_CardinalityType
<1>5. Times(s, e) = Cardinality(Old) /\ Times(Append(s, x), e) = Cardinality(New)
  BY DEF Times
<1> HIDE DEF Old, New
<1>6. CASE x = e
  BY <1>3, <1>4, <1>5, <1>6
<1>7. CASE x # e
  BY <1>3, <1>4, <1>5, <1>7
<1> QED
  BY <1>6, <1>7

\* A set of indices that is not empty has a largest one.
LEMMA MaxIs ==
  ASSUME NEW n \in Nat, NEW T \in SUBSET (1 .. n), T # {}
  PROVE  Max(T) \in T /\ \A j \in T : j <= Max(T)
<1>1. \E m \in T : \A j \in T : j <= m
  <2> DEFINE Down == {n - k : k \in T}
             R == OpToRel(<, Nat)
  <2>1. Down \subseteq Nat /\ Down # {}
    <3>1. ASSUME NEW k \in T PROVE n - k \in Nat
      OBVIOUS
    <3>2. PICK k \in T : TRUE
      OBVIOUS
    <3>3. n - k \in Down
      BY <3>2
    <3> QED
      BY <3>1, <3>3
  <2>2. IsWellFoundedOn(R, Nat)
    BY NatLessThanWellFounded
  <2> HIDE DEF Down, R
  <2>3. \E d \in Down : \A c \in Down : ~(<<c, d>> \in R)
    BY <2>1, <2>2, WFMin
  <2> USE DEF Down
  <2>4. PICK m \in T : \A c \in Down : ~(<<c, n - m>> \in R)
    BY <2>3
  <2>5. ASSUME NEW j \in T PROVE j <= m
    <3>1. n - j \in Down /\ n - j \in Nat /\ n - m \in Nat
      OBVIOUS
    <3>2. ~(n - j < n - m)
      BY <2>4, <3>1 DEF R, OpToRel
    <3> QED
      BY <3>2
  <2> QED
    BY <2>5
<1> QED
  BY <1>1 DEF Max

-----------------------------------------------------------------------------
(* The invariant.                                                          *)

\* The fields of what a handler still has to do
Shape ==
  thread \in [Threads -> [todo  : {thread[t].todo : t \in Threads},
                          say   : {thread[t].say : t \in Threads},
                          found : {thread[t].found : t \in Threads},
                          hash  : {thread[t].hash : t \in Threads},
                          seen  : {thread[t].seen : t \in Threads},
                          now   : {thread[t].now : t \in Threads}]]

\* The steps a client can ask for
ClientSteps == UNION { ToSet(r) : r \in DOMAIN Requests }

\* A handler in the middle of a step has read what the step says it has: the state of the
\* affected nodes in some graph, or the latest simulation among those recorded so far.
Looking(h) ==
  /\ Head(h.todo).do = "witness"
  /\ Head(h.todo) = [SimulateStep(Head(h.todo).proposal, Head(h.todo).diff, Head(h.todo).changed,
                                  Head(h.todo).depth, Head(h.todo).viable) EXCEPT !.do = "witness"]
Witnessed(h, graphs) ==
  /\ Head(h.todo).do = "verdict"
  /\ h.now \in 1 .. Len(graphs) /\ h.hash = StateIn(graphs[h.now], h.found)
LookedUp(h, scens) ==
  /\ Head(h.todo).do = "check"
  /\ h.now \in 0 .. Len(scens)
  /\ LET own == {k \in 1 .. h.now : scens[k].proposal = Head(h.todo).proposal}
     IN  \/ own = {} /\ h.seen = 0
         \/ h.seen \in own /\ \A j \in own : j <= h.seen

HandlerOk(h, scens, graphs) ==
  /\ IsSeq(h.todo)
  /\ h.todo # <<>> =>
       /\ ToSet(Tail(h.todo)) \subseteq ClientSteps
       /\ \/ Head(h.todo) \in ClientSteps
          \/ Looking(h)
          \/ Witnessed(h, graphs)
          \/ LookedUp(h, scens)

\* A recorded simulation carries the state of its nodes in the graph it looked at.
ScenarioOk(c, graphs) == c.at \in 1 .. Len(graphs) /\ c.hash = StateIn(graphs[c.at], c.witness)

\* RunsExactlyWhatStands for one answer of the sandbox
RunOk(r, scens, graphs) ==
  /\ r.known \in 0 .. Len(scens) /\ r.at \in 1 .. Len(graphs)
  /\ r.scheduled <=>
       \E k \in { k \in 1 .. r.known : scens[k].proposal = r.proposal } :
         /\ \A j \in { j \in 1 .. r.known : scens[j].proposal = r.proposal } : j <= k
         /\ scens[k].passed /\ scens[k].diff = r.diff
         /\ \A n \in scens[k].witness :
              StateIn(graphs[r.at], {n}) = StateIn(graphs[scens[k].at], {n})

IsMap(g) == g = [i \in DOMAIN g |-> g[i]]

GraphInv ==
  /\ past = [graphs |-> past.graphs, written |-> past.written]
  /\ IsSeq(past.graphs) /\ Len(past.graphs) >= 1
  /\ nodes = past.graphs[Len(past.graphs)] /\ IsMap(nodes)

GateInv ==
  /\ IsSeq(scenarios) /\ IsSeq(runs)
  /\ \A t \in Threads : HandlerOk(thread[t], scenarios, past.graphs)
  /\ \A k \in 1 .. Len(scenarios) : ScenarioOk(scenarios[k], past.graphs)
  /\ \A i \in 1 .. Len(runs) : RunOk(runs[i], scenarios, past.graphs)

\* The handlers that have an event to tell
Waiting(th, e) == {t \in Threads : th[t].say = e}

LogInv ==
  /\ IsSeq(log) /\ IsSeq(past.written)
  /\ <<>> \notin ToSet(log) \cup ToSet(past.written)
  /\ \A e : e # <<>> => Times(past.written, e) = Times(log, e) + Cardinality(Waiting(thread, e))

IInv == Shape /\ GraphInv /\ GateInv /\ LogInv

-----------------------------------------------------------------------------
(* A handler's step changes only that handler.                             *)

Handler(todo, say, found, hash, seen, now) ==
  [todo |-> todo, say |-> say, found |-> found, hash |-> hash, seen |-> seen, now |-> now]

\* The handlers, with another of what one of them holds
Put(t, h) == [thread EXCEPT ![t] = h]

\* A handler has what it was given.
LEMMA Has ==
  ASSUME NEW a, NEW b, NEW c, NEW d, NEW e, NEW f, NEW h, h = Handler(a, b, c, d, e, f)
  PROVE  h.todo = a /\ h.say = b /\ h.found = c /\ h.hash = d /\ h.seen = e /\ h.now = f
BY DEF Handler

\* What a handler holds is made of its six fields.
LEMMA HandlerIs ==
  ASSUME Shape, NEW t \in Threads
  PROVE  thread[t] = Handler(thread[t].todo, thread[t].say, thread[t].found, thread[t].hash,
                             thread[t].seen, thread[t].now)
<1> DEFINE T == {thread[u].todo : u \in Threads}  S == {thread[u].say : u \in Threads}
           F == {thread[u].found : u \in Threads} H == {thread[u].hash : u \in Threads}
           N == {thread[u].seen : u \in Threads}  M == {thread[u].now : u \in Threads}
<1>1. thread \in [Threads -> [todo : T, say : S, found : F, hash : H, seen : N, now : M]]
  BY DEF Shape
<1> HIDE DEF T, S, F, H, N, M
<1> QED
  BY <1>1 DEF Handler

\* A handler that is given new fields has them, and the others keep theirs.
LEMMA Given ==
  ASSUME Shape, NEW t \in Threads, NEW todo, NEW say, NEW found, NEW hash, NEW seen, NEW now,
         thread' = Put(t, Handler(todo, say, found, hash, seen, now))
  PROVE  /\ Shape'
         /\ thread'[t] = Handler(todo, say, found, hash, seen, now)
         /\ \A u \in Threads : u # t => thread'[u] = thread[u]
<1> DEFINE T == {thread[u].todo : u \in Threads} \cup {todo}
           S == {thread[u].say : u \in Threads} \cup {say}
           F == {thread[u].found : u \in Threads} \cup {found}
           H == {thread[u].hash : u \in Threads} \cup {hash}
           N == {thread[u].seen : u \in Threads} \cup {seen}
           M == {thread[u].now : u \in Threads} \cup {now}
<1>1. /\ \A u \in Threads : thread[u].todo \in T /\ thread[u].say \in S /\ thread[u].found \in F
      /\ \A u \in Threads : thread[u].hash \in H /\ thread[u].seen \in N /\ thread[u].now \in M
      /\ todo \in T /\ say \in S /\ found \in F /\ hash \in H /\ seen \in N /\ now \in M
  OBVIOUS
<1> HIDE DEF T, S, F, H, N, M
<1>2. ASSUME NEW u \in Threads
      PROVE  thread[u] \in [todo : T, say : S, found : F, hash : H, seen : N, now : M]
  <2>1. thread[u] = Handler(thread[u].todo, thread[u].say, thread[u].found, thread[u].hash,
                            thread[u].seen, thread[u].now)
    BY HandlerIs
  <2> QED
    BY <1>1, <2>1 DEF Handler
<1>3. /\ thread'[t] = Handler(todo, say, found, hash, seen, now)
      /\ \A u \in Threads : u # t => thread'[u] = thread[u]
      /\ DOMAIN thread' = Threads /\ thread' = [u \in Threads |-> thread'[u]]
  <2>1. DOMAIN thread = Threads /\ thread = [u \in Threads |-> thread[u]]
    BY DEF Shape
  <2> QED
    BY <2>1 DEF Put
<1>4. \A u \in Threads : thread'[u] \in [todo : T, say : S, found : F, hash : H, seen : N, now : M]
  BY <1>1, <1>2, <1>3 DEF Handler
<1> DEFINE T2 == {thread'[u].todo : u \in Threads}  S2 == {thread'[u].say : u \in Threads}
           F2 == {thread'[u].found : u \in Threads} H2 == {thread'[u].hash : u \in Threads}
           N2 == {thread'[u].seen : u \in Threads}  M2 == {thread'[u].now : u \in Threads}
<1>5. /\ \A u \in Threads : thread'[u].todo \in T2 /\ thread'[u].say \in S2 /\ thread'[u].found \in F2
      /\ \A u \in Threads : thread'[u].hash \in H2 /\ thread'[u].seen \in N2 /\ thread'[u].now \in M2
  OBVIOUS
<1> HIDE DEF T2, S2, F2, H2, N2, M2
<1>6. \A u \in Threads : thread'[u] \in [todo : T2, say : S2, found : F2, hash : H2, seen : N2, now : M2]
  BY <1>4, <1>5
<1>7. thread' \in [Threads -> [todo : T2, say : S2, found : F2, hash : H2, seen : N2, now : M2]]
  BY <1>3, <1>6
<1>8. Shape'
  BY <1>7 DEF Shape, T2, S2, F2, H2, N2, M2
<1> QED
  BY <1>3, <1>8

-----------------------------------------------------------------------------
(* What stays true while the graphs and the scenarios grow.                *)

Extends(s2, s) ==
  /\ IsSeq(s) /\ IsSeq(s2) /\ Len(s) \in Nat /\ Len(s2) \in Nat /\ Len(s) <= Len(s2)
  /\ \A i \in 1 .. Len(s) : s2[i] = s[i]

\* A sequence that is left alone, or to whose end something is added, grows.
LEMMA GrowsIs ==
  ASSUME NEW s, IsSeq(s), NEW x
  PROVE  Extends(s, s) /\ Extends(Append(s, x), s)
<1>1. Len(s) \in Nat
  BY Grown
<1> QED
  BY <1>1, Grown DEF Extends

\* What a handler has read it has read still.
LEMMA HandlerKept ==
  ASSUME NEW h, NEW sc, NEW sc2, NEW gs, NEW gs2, Extends(sc2, sc), Extends(gs2, gs), HandlerOk(h, sc, gs)
  PROVE  HandlerOk(h, sc2, gs2)
<1>1. Witnessed(h, gs) => Witnessed(h, gs2)
  BY DEF Witnessed, Extends
<1>2. ASSUME LookedUp(h, sc) PROVE LookedUp(h, sc2)
  <2>1. h.now \in 0 .. Len(sc2) /\ \A k \in 1 .. h.now : sc2[k] = sc[k]
    BY <1>2 DEF LookedUp, Extends
  <2>2. {k \in 1 .. h.now : sc2[k].proposal = Head(h.todo).proposal}
          = {k \in 1 .. h.now : sc[k].proposal = Head(h.todo).proposal}
    BY <2>1
  <2> QED
    BY <1>2, <2>1, <2>2 DEF LookedUp
<1> QED
  BY <1>1, <1>2 DEF HandlerOk

\* The simulations still rest on the graph they looked at.
LEMMA ScenarioKept ==
  ASSUME NEW c, NEW gs, NEW gs2, Extends(gs2, gs), ScenarioOk(c, gs)
  PROVE  ScenarioOk(c, gs2)
BY DEF ScenarioOk, Extends

\* The answers given are still the right ones.
LEMMA RunKept ==
  ASSUME NEW r, NEW sc, NEW sc2, NEW gs, NEW gs2, Extends(sc2, sc), Extends(gs2, gs),
         \A k \in 1 .. Len(sc) : ScenarioOk(sc[k], gs), RunOk(r, sc, gs)
  PROVE  RunOk(r, sc2, gs2)
<1>1. /\ r.known \in 0 .. Len(sc2) /\ r.at \in 1 .. Len(gs2)
      /\ \A k \in 1 .. r.known : sc2[k] = sc[k]
      /\ \A k \in 1 .. r.known : gs2[sc[k].at] = gs[sc[k].at]
      /\ gs2[r.at] = gs[r.at]
  <2>1. r.known \in 0 .. Len(sc) /\ r.at \in 1 .. Len(gs)
    BY DEF RunOk
  <2>2. /\ Len(sc) \in Nat /\ Len(sc2) \in Nat /\ Len(sc) <= Len(sc2) /\ \A i \in 1 .. Len(sc) : sc2[i] = sc[i]
        /\ Len(gs) \in Nat /\ Len(gs2) \in Nat /\ Len(gs) <= Len(gs2) /\ \A i \in 1 .. Len(gs) : gs2[i] = gs[i]
    BY DEF Extends
  <2>3. \A k \in 1 .. Len(sc) : sc[k].at \in 1 .. Len(gs)
    BY DEF ScenarioOk
  <2>4. ASSUME NEW k \in 1 .. r.known
        PROVE  k \in 1 .. Len(sc) /\ sc2[k] = sc[k] /\ gs2[sc[k].at] = gs[sc[k].at]
    <3>1. k \in 1 .. Len(sc)
      BY <2>1, <2>2
    <3> QED
      BY <2>2, <2>3, <3>1
  <2>5. r.known \in 0 .. Len(sc2) /\ r.at \in 1 .. Len(gs2) /\ gs2[r.at] = gs[r.at]
    BY <2>1, <2>2
  <2> QED
    BY <2>4, <2>5
<1>2. {k \in 1 .. r.known : sc2[k].proposal = r.proposal} = {k \in 1 .. r.known : sc[k].proposal = r.proposal}
  BY <1>1
<1>3. ASSUME NEW k \in 1 .. r.known
      PROVE  /\ sc2[k].passed = sc[k].passed /\ sc2[k].diff = sc[k].diff /\ sc2[k].witness = sc[k].witness
             /\ \A n : StateIn(gs2[r.at], {n}) = StateIn(gs2[sc2[k].at], {n})
                         <=> StateIn(gs[r.at], {n}) = StateIn(gs[sc[k].at], {n})
  BY <1>1
<1> DEFINE Own == {k \in 1 .. r.known : sc[k].proposal = r.proposal}
           Newest(k) == \A j \in Own : j <= k
<1>4. r.scheduled <=>
        \E k \in Own : /\ Newest(k) /\ sc[k].passed /\ sc[k].diff = r.diff
                       /\ \A n \in sc[k].witness : StateIn(gs[r.at], {n}) = StateIn(gs[sc[k].at], {n})
  BY DEF RunOk
<1>5. r.scheduled <=>
        \E k \in Own : /\ Newest(k) /\ sc2[k].passed /\ sc2[k].diff = r.diff
                       /\ \A n \in sc2[k].witness : StateIn(gs2[r.at], {n}) = StateIn(gs2[sc2[k].at], {n})
  <2> HIDE DEF Newest
  <2> QED
    BY <1>3, <1>4
<1> QED
  BY <1>1, <1>2, <1>5 DEF RunOk

Agree(g, h, W) == \A n \in W : StateIn(g, {n}) = StateIn(h, {n})

\* Two graphs agree on some nodes when they agree on each of them.
LEMMA StateOfEach ==
  ASSUME NEW g, NEW h, NEW W
  PROVE  StateIn(g, W) = StateIn(h, W) <=> Agree(g, h, W)
<1>1. ASSUME StateIn(g, W) = StateIn(h, W), NEW n \in W
      PROVE  StateIn(g, {n}) = StateIn(h, {n})
  <2>1. W \cap DOMAIN g = W \cap DOMAIN h
    BY <1>1 DEF StateIn
  <2>2. {n} \cap DOMAIN g = {n} \cap DOMAIN h
    BY <1>1, <2>1
  <2>3. ASSUME NEW i \in {n} \cap DOMAIN g PROVE g[i] = h[i]
    <3>1. StateIn(g, W)[i] = g[i] /\ StateIn(h, W)[i] = h[i]
      BY <1>1, <2>1, <2>3 DEF StateIn
    <3> QED
      BY <1>1, <3>1
  <2> QED
    BY <2>2, <2>3 DEF StateIn
<1>2. ASSUME \A n \in W : StateIn(g, {n}) = StateIn(h, {n})
      PROVE  StateIn(g, W) = StateIn(h, W)
  <2>1. ASSUME NEW n \in W
        PROVE  (n \in DOMAIN g <=> n \in DOMAIN h) /\ (n \in DOMAIN g => g[n] = h[n])
    <3>1. {n} \cap DOMAIN g = {n} \cap DOMAIN h
      <4>1. DOMAIN StateIn(g, {n}) = {n} \cap DOMAIN g /\ DOMAIN StateIn(h, {n}) = {n} \cap DOMAIN h
        BY DEF StateIn
      <4> QED
        BY <1>2, <4>1
    <3>2. ASSUME n \in DOMAIN g PROVE g[n] = h[n]
      <4>1. StateIn(g, {n})[n] = g[n] /\ StateIn(h, {n})[n] = h[n]
        BY <3>1, <3>2 DEF StateIn
      <4> QED
        BY <1>2, <4>1
    <3> QED
      BY <3>1, <3>2
  <2>2. W \cap DOMAIN g = W \cap DOMAIN h /\ \A i \in W \cap DOMAIN g : g[i] = h[i]
    BY <2>1
  <2> QED
    BY <2>2 DEF StateIn
<1> QED
  BY <1>1, <1>2 DEF Agree

\* How the handlers that wait change when one of them changes what it has to say
LEMMA WaitingIs ==
  ASSUME NEW th, NEW th2, NEW t \in Threads, \A u \in Threads : u # t => th2[u] = th[u], NEW e
  PROVE  /\ th2[t].say = th[t].say => Waiting(th2, e) = Waiting(th, e)
         /\ th2[t].say = e /\ th[t].say # e => Cardinality(Waiting(th2, e)) = Cardinality(Waiting(th, e)) + 1
         /\ th2[t].say # e /\ th[t].say = e => Cardinality(Waiting(th, e)) = Cardinality(Waiting(th2, e)) + 1
         /\ th2[t].say # e /\ th[t].say # e => Waiting(th2, e) = Waiting(th, e)
         /\ Cardinality(Waiting(th, e)) \in Nat
<1>1. IsFiniteSet(Waiting(th, e)) /\ IsFiniteSet(Waiting(th2, e))
  BY GateAssumption, FS_Subset DEF Waiting
<1>2. th2[t].say = e /\ th[t].say # e => Waiting(th2, e) = Waiting(th, e) \cup {t} /\ t \notin Waiting(th, e)
  BY DEF Waiting
<1>3. th2[t].say # e /\ th[t].say = e => Waiting(th, e) = Waiting(th2, e) \cup {t} /\ t \notin Waiting(th2, e)
  BY DEF Waiting
<1>4. /\ th2[t].say = th[t].say => Waiting(th2, e) = Waiting(th, e)
      /\ th2[t].say # e /\ th[t].say # e => Waiting(th2, e) = Waiting(th, e)
  BY DEF Waiting
<1>5. /\ t \notin Waiting(th, e) => Cardinality(Waiting(th, e) \cup {t}) = Cardinality(Waiting(th, e)) + 1
      /\ t \notin Waiting(th2, e) => Cardinality(Waiting(th2, e) \cup {t}) = Cardinality(Waiting(th2, e)) + 1
  BY <1>1, FS_AddElement
<1>6. Cardinality(Waiting(th, e)) \in Nat
  BY <1>1, FS_CardinalityType
<1> QED
  BY <1>2, <1>3, <1>4, <1>5, <1>6

-----------------------------------------------------------------------------
(* What a step must show to keep the invariant.                            *)

\* A handler that goes on to its next step goes on to one that a client asked for.
LEMMA GoesOn ==
  ASSUME NEW h, NEW h2, NEW sc, NEW sc2, NEW gs, NEW gs2,
         HandlerOk(h, sc, gs), h.todo # <<>>, h2.todo = Tail(h.todo)
  PROVE  HandlerOk(h2, sc2, gs2)
BY RestIs DEF HandlerOk

\* A handler whose step becomes another one keeps the rest of its request.
LEMMA Becomes ==
  ASSUME NEW h, NEW h2, NEW x, NEW sc, NEW sc2, NEW gs, NEW gs2,
         HandlerOk(h, sc, gs), h.todo # <<>>, h2.todo = <<x>> \o Tail(h.todo)
  PROVE  /\ Head(h2.todo) = x
         /\ Looking(h2) \/ Witnessed(h2, gs2) \/ LookedUp(h2, sc2) => HandlerOk(h2, sc2, gs2)
<1>1. IsSeq(Tail(h.todo)) /\ ToSet(Tail(h.todo)) \subseteq ClientSteps
  BY RestIs DEF HandlerOk
<1>2. IsSeq(h2.todo) /\ Head(h2.todo) = x /\ Tail(h2.todo) = Tail(h.todo)
  BY <1>1, PutFirst
<1> QED
  BY <1>1, <1>2 DEF HandlerOk

\* A step of one handler that adds to the scenarios, the graphs or the answers only what
\* is right keeps what was right.
LEMMA GateStep ==
  ASSUME GateInv, NEW t \in Threads, \A u \in Threads : u # t => thread'[u] = thread[u],
         Extends(scenarios', scenarios), Extends(past.graphs', past.graphs), IsSeq(runs'),
         HandlerOk(thread'[t], scenarios', past.graphs'),
         \A k \in 1 .. Len(scenarios') : k \in 1 .. Len(scenarios) \/ ScenarioOk(scenarios'[k], past.graphs'),
         \A i \in 1 .. Len(runs') : \/ i \in 1 .. Len(runs) /\ runs'[i] = runs[i]
                                    \/ RunOk(runs'[i], scenarios', past.graphs')
  PROVE  GateInv'
<1>1. \A u \in Threads : HandlerOk(thread'[u], scenarios', past.graphs')
  <2>1. ASSUME NEW u \in Threads, u # t PROVE HandlerOk(thread'[u], scenarios', past.graphs')
    <3>1. HandlerOk(thread[u], scenarios, past.graphs)
      BY DEF GateInv
    <3>2. HandlerOk(thread[u], scenarios', past.graphs')
      BY <3>1, HandlerKept
    <3> QED
      BY <2>1, <3>2
  <2> QED
    BY <2>1
<1>2. \A k \in 1 .. Len(scenarios) : ScenarioOk(scenarios[k], past.graphs)
  BY DEF GateInv
<1>3. \A k \in 1 .. Len(scenarios') : ScenarioOk(scenarios'[k], past.graphs')
  <2>1. ASSUME NEW k \in 1 .. Len(scenarios) PROVE ScenarioOk(scenarios[k], past.graphs')
    BY <1>2, ScenarioKept
  <2>2. \A k \in 1 .. Len(scenarios) : scenarios'[k] = scenarios[k]
    BY DEF Extends
  <2> QED
    BY <2>1, <2>2
<1>4. \A i \in 1 .. Len(runs') : RunOk(runs'[i], scenarios', past.graphs')
  <2>1. ASSUME NEW i \in 1 .. Len(runs) PROVE RunOk(runs[i], scenarios', past.graphs')
    <3>1. RunOk(runs[i], scenarios, past.graphs)
      BY DEF GateInv
    <3> QED
      BY <1>2, <3>1, RunKept
  <2> QED
    BY <2>1
<1>5. IsSeq(scenarios')
  BY DEF Extends
<1> QED
  BY <1>1, <1>3, <1>4, <1>5 DEF GateInv

\* A step of one handler may write something and have it to tell, tell what it had to, or do both at once.
LEMMA LogStep ==
  ASSUME LogInv, NEW t \in Threads, \A u \in Threads : u # t => thread'[u] = thread[u], NEW w, w # <<>>,
         \/ thread'[t].say = thread[t].say /\ log' = log /\ past.written' = past.written
         \/ /\ thread[t].say = <<>> /\ thread'[t].say = w
            /\ log' = log /\ past.written' = Append(past.written, w)
         \/ /\ thread[t].say = w /\ thread'[t].say = <<>>
            /\ log' = Append(log, w) /\ past.written' = past.written
         \/ /\ thread'[t].say = thread[t].say
            /\ log' = Append(log, w) /\ past.written' = Append(past.written, w)
  PROVE  LogInv'
<1>1. IsSeq(log') /\ IsSeq(past.written') /\ <<>> \notin ToSet(log') \cup ToSet(past.written')
  <2>1. /\ IsSeq(Append(log, w)) /\ ToSet(Append(log, w)) = ToSet(log) \cup {w}
        /\ IsSeq(Append(past.written, w)) /\ ToSet(Append(past.written, w)) = ToSet(past.written) \cup {w}
    BY Grown DEF LogInv
  <2>2. IsSeq(log) /\ IsSeq(past.written) /\ <<>> \notin ToSet(log) \cup ToSet(past.written)
    BY DEF LogInv
  <2>3. log' = log \/ log' = Append(log, w)
    OBVIOUS
  <2>4. past.written' = past.written \/ past.written' = Append(past.written, w)
    OBVIOUS
  <2>5. IsSeq(log') /\ <<>> \notin ToSet(log')
    BY <2>1, <2>2, <2>3
  <2>6. IsSeq(past.written') /\ <<>> \notin ToSet(past.written')
    BY <2>1, <2>2, <2>4
  <2> QED
    BY <2>5, <2>6
<1>2. ASSUME NEW e, e # <<>>
      PROVE  Times(past.written', e) = Times(log', e) + Cardinality(Waiting(thread', e))
  <2> DEFINE W == Cardinality(Waiting(thread, e))  W2 == Cardinality(Waiting(thread', e))
             One == IF w = e THEN 1 ELSE 0
  <2>1. /\ Times(log, e) \in Nat /\ Times(Append(log, w), e) = Times(log, e) + One
        /\ Times(past.written, e) \in Nat
        /\ Times(Append(past.written, w), e) = Times(past.written, e) + One
    BY TimesIs DEF LogInv
  <2>2. Times(past.written, e) = Times(log, e) + W
    BY <1>2 DEF LogInv
  <2>3. /\ thread'[t].say = thread[t].say => W2 = W
        /\ thread'[t].say = e /\ thread[t].say # e => W2 = W + 1
        /\ thread'[t].say # e /\ thread[t].say = e => W = W2 + 1
        /\ thread'[t].say # e /\ thread[t].say # e => W2 = W
        /\ W \in Nat /\ W2 \in Nat
    BY WaitingIs, SMTT(30)
  <2> HIDE DEF W, W2
  <2>4. CASE thread'[t].say = thread[t].say /\ log' = log /\ past.written' = past.written
    BY <2>1, <2>2, <2>3, <2>4 DEF W2
  <2>5. CASE /\ thread[t].say = <<>> /\ thread'[t].say = w
             /\ log' = log /\ past.written' = Append(past.written, w)
    <3>1. W2 = W + One
      BY <1>2, <2>3, <2>5
    <3> QED
      BY <2>1, <2>2, <2>3, <2>5, <3>1 DEF W2
  <2>6. CASE /\ thread[t].say = w /\ thread'[t].say = <<>>
             /\ log' = Append(log, w) /\ past.written' = past.written
    <3>1. W = W2 + One
      BY <1>2, <2>3, <2>6
    <3> QED
      BY <2>1, <2>2, <2>3, <2>6, <3>1 DEF W2
  <2>7. CASE /\ thread'[t].say = thread[t].say
             /\ log' = Append(log, w) /\ past.written' = Append(past.written, w)
    BY <2>1, <2>2, <2>3, <2>7 DEF W2
  <2> QED
    BY <2>4, <2>5, <2>6, <2>7
<1> QED
  BY <1>1, <1>2 DEF LogInv

-----------------------------------------------------------------------------
(* The steps of a handler.                                                 *)

\* The graphs after a write, and after an event of its own.
LEMMA Past ==
  ASSUME GraphInv, NEW g, NEW w
  PROVE  /\ Written(g, w) /\ nodes' = g /\ IsMap(g)
              => GraphInv' /\ Extends(past.graphs', past.graphs) /\ past.written' = Append(past.written, w)
         /\ past' = [past EXCEPT !.written = Append(@, w)] /\ nodes' = nodes
              => GraphInv' /\ Extends(past.graphs', past.graphs) /\ past.written' = Append(past.written, w)
         /\ past' = past /\ nodes' = nodes
              => GraphInv' /\ Extends(past.graphs', past.graphs) /\ past.written' = past.written
<1>1. /\ past = [graphs |-> past.graphs, written |-> past.written]
      /\ IsSeq(past.graphs) /\ Len(past.graphs) >= 1 /\ nodes = past.graphs[Len(past.graphs)] /\ IsMap(nodes)
  BY DEF GraphInv
<1>2. Extends(past.graphs, past.graphs) /\ Extends(Append(past.graphs, g), past.graphs)
  BY <1>1, GrowsIs
<1>3. ASSUME Written(g, w), nodes' = g, IsMap(g)
      PROVE  GraphInv' /\ Extends(past.graphs', past.graphs) /\ past.written' = Append(past.written, w)
  <2>1. /\ past' = [graphs |-> Append(past.graphs, g), written |-> Append(past.written, w)]
        /\ past'.graphs = Append(past.graphs, g) /\ past'.written = Append(past.written, w)
    BY <1>3 DEF Written
  <2>2. /\ IsSeq(past'.graphs) /\ Len(past.graphs) \in Nat /\ Len(past'.graphs) = Len(past.graphs) + 1
        /\ past'.graphs[Len(past'.graphs)] = g
    BY <1>1, <2>1, Grown
  <2> QED
    BY <1>1, <1>2, <1>3, <2>1, <2>2 DEF GraphInv
<1>4. ASSUME past' = [past EXCEPT !.written = Append(@, w)], nodes' = nodes
      PROVE  GraphInv' /\ Extends(past.graphs', past.graphs) /\ past.written' = Append(past.written, w)
  <2>1. past' = [graphs |-> past.graphs, written |-> Append(past.written, w)]
    BY <1>1, <1>4
  <2>2. past'.graphs = past.graphs /\ past'.written = Append(past.written, w)
    BY <2>1
  <2> QED
    BY <1>1, <1>2, <1>4, <2>1, <2>2 DEF GraphInv
<1>5. ASSUME past' = past, nodes' = nodes
      PROVE  GraphInv' /\ Extends(past.graphs', past.graphs) /\ past.written' = past.written
  BY <1>2, <1>5 DEF GraphInv
<1> QED
  BY <1>3, <1>4, <1>5

\* An event is not the empty one.
LEMMA Something ==
  /\ \A a : <<a>> # <<>>
  /\ \A a, b : <<a, b>> # <<>>
  /\ \A a, b, c : <<a, b, c>> # <<>>
<1>1. \A a : Len(<<a>>) = 1
  OBVIOUS
<1>2. \A a, b : Len(<<a, b>>) = 2
  OBVIOUS
<1>3. \A a, b, c : Len(<<a, b, c>>) = 3
  OBVIOUS
<1>4. Len(<<>>) = 0
  OBVIOUS
<1> QED
  BY <1>1, <1>2, <1>3, <1>4

\* A write: the graph, the edges, and the event the handler has to tell. A handler that
\* goes on without having anything to tell is one of these too.
LEMMA Writes ==
  ASSUME IInv, NEW t \in Threads, NEW g, thread[t].todo # <<>>, thread[t].say = <<>>,
         nodes' = g, IsMap(g), NEW say, NEW todo, NEW found, NEW hash, NEW seen, NEW now,
         thread' = Put(t, Handler(todo, say, found, hash, seen, now)),
         todo = Rest(t) \/ todo = <<>>,
         \/ say # <<>> /\ Written(g, say)
         \/ say = <<>> /\ UNCHANGED <<nodes, past>>,
         UNCHANGED <<log, scenarios, runs>>
  PROVE  IInv'
<1>0. Shape
  BY DEF IInv
<1>1. /\ Shape' /\ thread'[t] = Handler(todo, say, found, hash, seen, now)
      /\ \A u \in Threads : u # t => thread'[u] = thread[u]
  BY <1>0, Given
<1>2. thread'[t].todo = todo /\ thread'[t].say = say
  BY <1>1 DEF Handler
<1>3. GraphInv' /\ Extends(past.graphs', past.graphs)
  BY Past DEF IInv
<1>4. LogInv'
  <2>1. CASE say # <<>>
    <3>1. past.written' = Append(past.written, say)
      BY <2>1, Past DEF IInv
    <3> QED
      BY <1>1, <1>2, <2>1, <3>1, LogStep DEF IInv
  <2>2. CASE say = <<>>
    <3>1. past.written' = past.written /\ thread'[t].say = thread[t].say /\ log' = log
      BY <1>2, <2>2
    <3>2. <<"w">> # <<>>
      BY Something
    <3> QED
      BY <1>1, <3>1, <3>2, LogStep DEF IInv
  <2> QED
    BY <2>1, <2>2
<1>5. HandlerOk(thread'[t], scenarios', past.graphs')
  <2>1. HandlerOk(thread[t], scenarios, past.graphs)
    BY DEF IInv, GateInv
  <2>2. CASE todo = Rest(t)
    BY <1>2, <2>1, <2>2, GoesOn DEF Rest
  <2>3. CASE todo = <<>>
    <3>1. IsSeq(<<>>)
      BY DEF IsSeq
    <3> QED
      BY <1>2, <2>3, <3>1 DEF HandlerOk
  <2> QED
    BY <2>2, <2>3
<1>6. GateInv'
  <2>1. Extends(scenarios', scenarios) /\ IsSeq(runs')
    BY GrowsIs DEF IInv, GateInv
  <2>2. \A i \in 1 .. Len(runs') : i \in 1 .. Len(runs) /\ runs'[i] = runs[i]
    OBVIOUS
  <2>3. \A k \in 1 .. Len(scenarios') : k \in 1 .. Len(scenarios)
    OBVIOUS
  <2>4. GateInv
    BY DEF IInv
  <2> QED
    BY <1>1, <1>3, <1>5, <2>1, <2>2, <2>3, <2>4, GateStep
<1> QED
  BY <1>1, <1>3, <1>4, <1>6 DEF IInv

\* A handler with one of its fields set.
WithTodo(h, x)  == [h EXCEPT !.todo = x]
WithSay(h, x)   == [h EXCEPT !.say = x]
WithFound(h, x) == [h EXCEPT !.found = x]
WithHash(h, x)  == [h EXCEPT !.hash = x]
WithSeen(h, x)  == [h EXCEPT !.seen = x]
WithNow(h, x)   == [h EXCEPT !.now = x]

\* The records a handler is given, field by field.
LEMMA Fields ==
  ASSUME NEW a, NEW b, NEW c, NEW d, NEW e, NEW f, NEW h, h = Handler(a, b, c, d, e, f), NEW x
  PROVE  /\ WithTodo(h, x) = Handler(x, b, c, d, e, f)
         /\ WithSay(h, x) = Handler(a, x, c, d, e, f)
         /\ WithFound(h, x) = Handler(a, b, x, d, e, f)
         /\ WithHash(h, x) = Handler(a, b, c, x, e, f)
         /\ WithSeen(h, x) = Handler(a, b, c, d, x, f)
         /\ WithNow(h, x) = Handler(a, b, c, d, e, x)
<1>1. WithTodo(h, x) = Handler(x, b, c, d, e, f)
  BY DEF Handler, WithTodo
<1>2. WithSay(h, x) = Handler(a, x, c, d, e, f)
  BY DEF Handler, WithSay
<1>3. WithFound(h, x) = Handler(a, b, x, d, e, f)
  BY DEF Handler, WithFound
<1>4. WithHash(h, x) = Handler(a, b, c, x, e, f)
  BY DEF Handler, WithHash
<1>5. WithSeen(h, x) = Handler(a, b, c, d, x, f)
  BY DEF Handler, WithSeen
<1>6. WithNow(h, x) = Handler(a, b, c, d, e, x)
  BY DEF Handler, WithNow
<1> QED
  BY <1>1, <1>2, <1>3, <1>4, <1>5, <1>6

\* The handler of no request
LEMMA IdleIs ==
  Idle = Handler(<<>>, <<>>, {}, <<>>, 0, 0)
BY DEF Handler, Idle

\* Going on to the next step, with something to tell or without.
LEMMA NextIs ==
  ASSUME Shape, NEW t \in Threads, NEW say
  PROVE  LET h == thread[t]
         IN  /\ Next1(t) = Handler(Rest(t), h.say, h.found, h.hash, h.seen, h.now)
             /\ [Next1(t) EXCEPT !.say = say] = Handler(Rest(t), say, h.found, h.hash, h.seen, h.now)
             /\ [h EXCEPT !.say = say] = Handler(h.todo, say, h.found, h.hash, h.seen, h.now)
<1> DEFINE h == thread[t]
<1>1. h = Handler(h.todo, h.say, h.found, h.hash, h.seen, h.now)
  BY HandlerIs
<1>2. /\ Next1(t) = WithTodo(h, Rest(t))
      /\ [Next1(t) EXCEPT !.say = say] = WithSay(Next1(t), say)
      /\ [h EXCEPT !.say = say] = WithSay(h, say)
  BY DEF Next1, WithTodo, WithSay
<1>3. Next1(t) = Handler(Rest(t), h.say, h.found, h.hash, h.seen, h.now)
  BY <1>1, <1>2, Fields
<1>4. [h EXCEPT !.say = say] = Handler(h.todo, say, h.found, h.hash, h.seen, h.now)
  BY <1>1, <1>2, Fields
<1>5. [Next1(t) EXCEPT !.say = say] = Handler(Rest(t), say, h.found, h.hash, h.seen, h.now)
  BY <1>2, <1>3, Fields
<1> QED
  BY <1>3, <1>4, <1>5

\* The handler that rests again after the last step it has a hand in.
LEMMA RestsIs ==
  ASSUME NEW x, NEW y
  PROVE  /\ [Idle EXCEPT !.todo = x] = Handler(x, <<>>, {}, <<>>, 0, 0)
         /\ [Idle EXCEPT !.todo = x, !.say = y] = Handler(x, y, {}, <<>>, 0, 0)
<1>1. /\ [Idle EXCEPT !.todo = x] = WithTodo(Idle, x)
      /\ [Idle EXCEPT !.todo = x, !.say = y] = WithSay(WithTodo(Idle, x), y)
  BY DEF WithTodo, WithSay
<1>2. WithTodo(Idle, x) = Handler(x, <<>>, {}, <<>>, 0, 0)
  BY IdleIs, Fields
<1>3. WithSay(WithTodo(Idle, x), y) = Handler(x, y, {}, <<>>, 0, 0)
  BY <1>2, Fields
<1> QED
  BY <1>1, <1>2, <1>3

\* The writes of a graph handler: a node, an edge, the removal of a repository.
LEMMA WritesKeep ==
  ASSUME IInv, NEW t \in Threads, WriteNode(t) \/ WriteEdge(t) \/ RemoveRepository(t)
  PROVE  IInv'
<1> DEFINE h == thread[t]  s == Step(t)
<1>1. Shape
  BY DEF IInv
<1>2. ASSUME WriteNode(t) PROVE IInv'
  <2> DEFINE w == <<"node", s.stable>>  g == Upserted(s.stable, s.ver)
  <2>1. h.todo # <<>> /\ h.say = <<>> /\ nodes' = g /\ Written(g, w) /\ UNCHANGED <<log, scenarios, runs>>
    BY <1>2 DEF WriteNode, Does
  <2>2. thread' = Put(t, Handler(Rest(t), w, h.found, h.hash, h.seen, h.now))
    BY <1>1, <1>2, NextIs DEF WriteNode, Put
  <2>3. w # <<>>
    BY Something
  <2>4. IsMap(g)
    BY DEF IsMap, Upserted
  <2> HIDE DEF w, g
  <2> QED
    BY <2>1, <2>2, <2>3, <2>4, Writes
<1>3. ASSUME WriteEdge(t) PROVE IInv'
  <2> DEFINE w == <<"edge", s.from, s.to>>
  <2>1. h.todo # <<>> /\ h.say = <<>> /\ nodes' = nodes /\ UNCHANGED <<log, scenarios, runs>> /\ w # <<>>
    BY <1>3, Something DEF WriteEdge, Does
  <2>2. \/ /\ Written(nodes, w)
           /\ thread' = Put(t, Handler(Rest(t), w, h.found, h.hash, h.seen, h.now))
        \/ /\ past' = past
           /\ thread' = Put(t, Handler(<<>>, <<>>, {}, <<>>, 0, 0))
    BY <1>1, <1>3, NextIs, IdleIs DEF WriteEdge, Put
  <2>3. IsMap(nodes)
    BY DEF IInv, GraphInv
  <2> HIDE DEF w
  <2> QED
    BY <2>1, <2>2, <2>3, Writes
<1>4. ASSUME RemoveRepository(t) PROVE IInv'
  <2> DEFINE w == <<"removed">>  g == Without(Owned)
  <2>1. h.todo # <<>> /\ h.say = <<>> /\ nodes' = g /\ UNCHANGED <<log, scenarios, runs>> /\ w # <<>>
    BY <1>4, Something DEF RemoveRepository, Does
  <2>2. thread' = Put(t, Handler(Rest(t), RemovalEvent, h.found, h.hash, h.seen, h.now))
    BY <1>1, <1>4, NextIs DEF RemoveRepository, Put
  <2>5. IsMap(g)
    BY DEF IsMap, Without
  <2>3. CASE Owned = {}
    <3>1. RemovalEvent = <<>> /\ past' = past
      BY <1>4, <2>3 DEF RemovalEvent, RemoveRepository
    <3>2. nodes' = nodes
      <4>1. DOMAIN nodes \ Owned = DOMAIN nodes
        BY <2>3
      <4>2. nodes = [i \in DOMAIN nodes |-> nodes[i]]
        BY DEF IInv, GraphInv, IsMap
      <4> QED
        BY <2>1, <4>1, <4>2 DEF Without
    <3>3. thread' = Put(t, Handler(Rest(t), <<>>, h.found, h.hash, h.seen, h.now))
      BY <2>2, <3>1
    <3> HIDE DEF w, g
    <3> QED
      BY <2>1, <2>5, <3>1, <3>2, <3>3, Writes
  <2>4. CASE Owned # {}
    <3>1. RemovalEvent = w /\ Written(g, w)
      BY <1>4, <2>4 DEF RemovalEvent, RemoveRepository
    <3> HIDE DEF w, g
    <3> QED
      BY <2>1, <2>2, <2>5, <3>1, Writes
  <2> QED
    BY <2>3, <2>4
<1> QED
  BY <1>2, <1>3, <1>4

\* The steps that tell of a write: the event appended to the log and its announcement.
LEMMA TellsKeep ==
  ASSUME IInv, NEW t \in Threads, AppendEvent(t) \/ Announce(t)
  PROVE  IInv'
<1> DEFINE h == thread[t]
<1>1. Shape /\ GateInv /\ GraphInv /\ LogInv /\ HandlerOk(h, scenarios, past.graphs)
  BY DEF IInv, GateInv
<1>2. /\ Extends(scenarios', scenarios) /\ IsSeq(runs')
      /\ \A i \in 1 .. Len(runs') : i \in 1 .. Len(runs) /\ runs'[i] = runs[i]
      /\ \A k \in 1 .. Len(scenarios') : k \in 1 .. Len(scenarios)
  BY <1>1, GrowsIs DEF AppendEvent, Announce, GateInv
<1>3. ASSUME AppendEvent(t) PROVE IInv'
  <2>1. h.say # <<>> /\ log' = Append(log, h.say) /\ past' = past /\ nodes' = nodes
    BY <1>3 DEF AppendEvent
  <2>2. thread' = Put(t, Handler(h.todo, <<>>, h.found, h.hash, h.seen, h.now))
    <3>1. thread' = [thread EXCEPT ![t] = [h EXCEPT !.say = <<>>]]
      BY <1>3 DEF AppendEvent
    <3> QED
      BY <1>1, <3>1, NextIs DEF Put
  <2>3. /\ Shape' /\ thread'[t] = Handler(h.todo, <<>>, h.found, h.hash, h.seen, h.now)
        /\ \A u \in Threads : u # t => thread'[u] = thread[u]
    BY <1>1, <2>2, Given
  <2>4. GraphInv' /\ Extends(past.graphs', past.graphs) /\ past.written' = past.written
    BY <1>1, <2>1, Past
  <2>5. LogInv'
    <3>1. thread'[t].say = <<>>
      BY <2>3 DEF Handler
    <3> QED
      BY <1>1, <2>1, <2>3, <2>4, <3>1, LogStep
  <2>6. HandlerOk(thread'[t], scenarios', past.graphs')
    <3>1. HandlerOk(h, scenarios', past.graphs')
      BY <1>1, <1>2, <2>4, HandlerKept
    <3>2. /\ thread'[t].todo = h.todo /\ thread'[t].found = h.found /\ thread'[t].hash = h.hash
          /\ thread'[t].seen = h.seen /\ thread'[t].now = h.now
      BY <2>3 DEF Handler
    <3> QED
      BY <3>1, <3>2 DEF HandlerOk, Looking, Witnessed, LookedUp
  <2>7. GateInv'
    BY <1>1, <1>2, <2>3, <2>4, <2>6, GateStep
  <2> QED
    BY <2>3, <2>4, <2>5, <2>7 DEF IInv
<1>4. ASSUME Announce(t) PROVE IInv'
  <2> DEFINE w == <<Step(t).event>>
  <2>1. /\ h.todo # <<>> /\ log' = Append(log, w) /\ nodes' = nodes /\ w # <<>>
        /\ past' = [past EXCEPT !.written = Append(@, w)]
    BY <1>4, Something DEF Announce, Does
  <2> HIDE DEF w
  <2>2. thread' = Put(t, Handler(Rest(t), h.say, h.found, h.hash, h.seen, h.now))
    BY <1>1, <1>4, NextIs DEF Announce, Put
  <2>3. /\ Shape' /\ thread'[t] = Handler(Rest(t), h.say, h.found, h.hash, h.seen, h.now)
        /\ \A u \in Threads : u # t => thread'[u] = thread[u]
    BY <1>1, <2>2, Given
  <2>4. GraphInv' /\ Extends(past.graphs', past.graphs) /\ past.written' = Append(past.written, w)
    BY <1>1, <2>1, Past
  <2>5. thread'[t].say = h.say /\ thread'[t].todo = Tail(h.todo)
    BY <2>3 DEF Handler, Rest
  <2>6. LogInv'
    BY <1>1, <2>1, <2>3, <2>4, <2>5, LogStep
  <2>7. HandlerOk(thread'[t], scenarios', past.graphs')
    BY <1>1, <2>1, <2>5, GoesOn
  <2>8. GateInv'
    BY <1>1, <1>2, <2>3, <2>4, <2>7, GateStep
  <2> QED
    BY <2>3, <2>4, <2>6, <2>8 DEF IInv
<1> QED
  BY <1>3, <1>4

\* The step a handler is at comes from its client, or is one it is in the middle of.
LEMMA AtStep ==
  ASSUME IInv, NEW t \in Threads, thread[t].todo # <<>>
  PROVE  LET h == thread[t]
         IN  /\ Step(t).do = "simulate" =>
                  Step(t) = SimulateStep(Step(t).proposal, Step(t).diff, Step(t).changed, Step(t).depth, Step(t).viable)
             /\ Step(t).do = "run" => Step(t) = RunStep(Step(t).proposal, Step(t).diff)
             /\ Step(t).do = "witness" => Looking(h)
             /\ Step(t).do = "verdict" => Witnessed(h, past.graphs)
             /\ Step(t).do = "check" => LookedUp(h, scenarios)
<1> DEFINE h == thread[t]
<1>1. \/ Step(t) \in ClientSteps
      \/ Looking(h) \/ Witnessed(h, past.graphs) \/ LookedUp(h, scenarios)
  BY DEF IInv, GateInv, HandlerOk, Step
<1>2. CASE Step(t) \in ClientSteps
  <2>1. IsStep(Step(t))
    BY <1>2, GateAssumption DEF ClientSteps
  <2> QED
    BY <2>1 DEF IsStep
<1>3. CASE Looking(h)
  BY <1>3 DEF Looking, Step
<1>4. CASE Witnessed(h, past.graphs)
  BY <1>4 DEF Witnessed, Step
<1>5. CASE LookedUp(h, scenarios)
  BY <1>5 DEF LookedUp, Step
<1> QED
  BY <1>1, <1>2, <1>3, <1>4, <1>5

\* The step a handler is in the middle of, and what comes after it.
LEMMA WithinIs ==
  ASSUME NEW t \in Threads, NEW part
  PROVE  LET x == [Step(t) EXCEPT !.do = part] IN Within(t, part) = <<x>> \o Tail(thread[t].todo)
BY DEF Within, Rest

\* The simulation works out what is affected, and has to say so.
LEMMA TraverseKeeps ==
  ASSUME IInv, NEW t \in Threads, Traverse(t)
  PROVE  IInv'
<1> DEFINE h == thread[t]  s == Step(t)  x == [s EXCEPT !.do = "witness"]  todo == Within(t, "witness")
           changed == Ids(s.changed)
           found == changed \cup Radius(changed, s.depth)  seen == Cardinality(Radius(changed, s.depth))
           w == <<"radius">>
<1>1. /\ h.todo # <<>> /\ h.say = <<>> /\ s.do = "simulate" /\ UNCHANGED <<nodes, log, scenarios, runs>>
      /\ past' = [past EXCEPT !.written = Append(@, w)] /\ w # <<>>
  BY Something DEF Traverse, Does
<1>2. Shape /\ GateInv /\ GraphInv /\ LogInv /\ HandlerOk(h, scenarios, past.graphs)
  BY DEF IInv, GateInv
<1>3. thread' = Put(t, Handler(todo, w, found, h.hash, seen, h.now))
  <2>1. thread' = Put(t, WithSay(WithSeen(WithFound(WithTodo(h, todo), found), seen), w))
    BY DEF Traverse, Put, WithSay, WithSeen, WithFound, WithTodo
  <2>2. h = Handler(h.todo, h.say, h.found, h.hash, h.seen, h.now)
    BY <1>2, HandlerIs
  <2> HIDE DEF h, s, x, todo, changed, found, seen, w
  <2>3. WithTodo(h, todo) = Handler(todo, h.say, h.found, h.hash, h.seen, h.now)
    BY <2>2, Fields
  <2>4. WithFound(WithTodo(h, todo), found) = Handler(todo, h.say, found, h.hash, h.seen, h.now)
    BY <2>3, Fields
  <2>5. WithSeen(WithFound(WithTodo(h, todo), found), seen) = Handler(todo, h.say, found, h.hash, seen, h.now)
    BY <2>4, Fields
  <2> QED
    BY <2>1, <2>5, Fields
<1>4. s = SimulateStep(s.proposal, s.diff, s.changed, s.depth, s.viable)
  BY <1>1, AtStep
<1>5. x = [SimulateStep(x.proposal, x.diff, x.changed, x.depth, x.viable) EXCEPT !.do = "witness"] /\ x.do = "witness"
  <2> HIDE DEF s
  <2> QED
    BY <1>4 DEF SimulateStep
<1>12. todo = <<x>> \o Tail(h.todo)
  BY WithinIs
<1> HIDE DEF s, x, todo, changed, found, seen, w
<1>6. /\ Shape' /\ thread'[t] = Handler(todo, w, found, h.hash, seen, h.now)
      /\ \A u \in Threads : u # t => thread'[u] = thread[u]
  BY <1>2, <1>3, Given
<1>7. thread'[t].todo = <<x>> \o Tail(h.todo) /\ thread'[t].say = w
  BY <1>6, <1>12 DEF Handler
<1>8. GraphInv' /\ Extends(past.graphs', past.graphs) /\ past.written' = Append(past.written, w)
  BY <1>1, <1>2, Past
<1>9. LogInv'
  <2>1. /\ thread[t].say = <<>> /\ thread'[t].say = w
        /\ log' = log /\ past.written' = Append(past.written, w)
    BY <1>1, <1>7, <1>8
  <2> QED
    BY <1>1, <1>2, <1>6, <2>1, LogStep
<1>10. HandlerOk(thread'[t], scenarios', past.graphs')
  <2>1. Head(thread'[t].todo) = x
    BY <1>1, <1>2, <1>7, Becomes
  <2>2. Looking(thread'[t])
    BY <1>5, <2>1 DEF Looking
  <2> QED
    BY <1>1, <1>2, <1>7, <2>2, Becomes
<1>11. GateInv'
  <2>1. Extends(scenarios', scenarios) /\ IsSeq(runs')
    BY <1>1, <1>2, GrowsIs DEF GateInv
  <2>2. \A i \in 1 .. Len(runs') : i \in 1 .. Len(runs) /\ runs'[i] = runs[i]
    BY <1>1
  <2>3. \A k \in 1 .. Len(scenarios') : k \in 1 .. Len(scenarios)
    BY <1>1
  <2> QED
    BY <1>2, <1>6, <1>8, <1>10, <2>1, <2>2, <2>3, GateStep
<1> QED
  BY <1>6, <1>8, <1>9, <1>11 DEF IInv

Goes(t, todo, x) == todo = <<x>> \o Tail(thread[t].todo)

\* The two steps that only read: the state of the affected nodes, and the latest simulation.
LEMMA ReadsKeep ==
  ASSUME IInv, NEW t \in Threads, NEW x, NEW hash, NEW seen, NEW now, thread[t].todo # <<>>,
         NEW todo, Goes(t, todo, x),
         thread' = Put(t, Handler(todo, thread[t].say, thread[t].found, hash, seen, now)),
         UNCHANGED <<nodes, log, scenarios, runs, past>>,
         LET h2 == thread'[t] IN h2.todo = <<x>> \o Tail(thread[t].todo) /\ Head(h2.todo) = x
             => Witnessed(h2, past.graphs') \/ LookedUp(h2, scenarios')
  PROVE  IInv'
<1> DEFINE h == thread[t]
<1>2. Shape /\ GateInv /\ GraphInv /\ LogInv /\ HandlerOk(h, scenarios, past.graphs)
  BY DEF IInv, GateInv
<1>6. /\ Shape' /\ thread'[t] = Handler(todo, h.say, h.found, hash, seen, now)
      /\ \A u \in Threads : u # t => thread'[u] = thread[u]
  BY <1>2, Given
<1>7. thread'[t].todo = <<x>> \o Tail(h.todo) /\ thread'[t].say = h.say
  <2>1. thread'[t].todo = todo /\ thread'[t].say = h.say
    BY <1>6, Has
  <2> QED
    BY <2>1 DEF Goes
<1>8. GraphInv' /\ Extends(past.graphs', past.graphs) /\ past.written' = past.written
  BY <1>2, Past
<1>9. LogInv'
  <2>1. <<"w">> # <<>>
    BY Something
  <2> QED
    BY <1>2, <1>6, <1>7, <1>8, <2>1, LogStep
<1>10. HandlerOk(thread'[t], scenarios', past.graphs')
  BY <1>2, <1>7, Becomes
<1>11. GateInv'
  <2>1. Extends(scenarios', scenarios) /\ IsSeq(runs')
    BY <1>2, GrowsIs DEF GateInv
  <2>2. \A i \in 1 .. Len(runs') : i \in 1 .. Len(runs) /\ runs'[i] = runs[i]
    OBVIOUS
  <2>3. \A k \in 1 .. Len(scenarios') : k \in 1 .. Len(scenarios)
    OBVIOUS
  <2> QED
    BY <1>2, <1>6, <1>8, <1>10, <2>1, <2>2, <2>3, GateStep
<1> QED
  BY <1>6, <1>8, <1>9, <1>11 DEF IInv

\* Taking the witness of a simulation: the hash of the state it has read.
LEMMA WitnessKeeps ==
  ASSUME IInv, NEW t \in Threads, Witness(t)
  PROVE  IInv'
<1> DEFINE h == thread[t]  x == [Step(t) EXCEPT !.do = "verdict"]  todo == Within(t, "verdict")
           hash == HashGraphState(h.found)  now == Len(past.graphs)
<1>1. h.todo # <<>> /\ Step(t).do = "witness" /\ UNCHANGED <<nodes, log, scenarios, runs, past>>
  BY DEF Witness, Does
<1>2. Shape /\ GraphInv
  BY DEF IInv
<1>3. thread' = Put(t, Handler(todo, h.say, h.found, hash, h.seen, now))
  <2>1. thread' = Put(t, WithNow(WithHash(WithTodo(h, todo), hash), now))
    BY DEF Witness, Put, WithNow, WithHash, WithTodo
  <2>2. h = Handler(h.todo, h.say, h.found, h.hash, h.seen, h.now)
    BY <1>2, HandlerIs
  <2> HIDE DEF h, x, todo, hash, now
  <2>3. WithTodo(h, todo) = Handler(todo, h.say, h.found, h.hash, h.seen, h.now)
    BY <2>2, Fields
  <2>4. WithHash(WithTodo(h, todo), hash) = Handler(todo, h.say, h.found, hash, h.seen, h.now)
    BY <2>3, Fields
  <2> QED
    BY <2>1, <2>4, Fields
<1>4. Looking(h)
  BY <1>1, AtStep
<1>5. x.do = "verdict"
  BY <1>4 DEF Looking, SimulateStep, Step
<1>12. todo = <<x>> \o Tail(h.todo) /\ Goes(t, todo, x)
  BY WithinIs DEF Goes
<1>6. thread'[t] = Handler(todo, h.say, h.found, hash, h.seen, now)
  <2> HIDE DEF x, todo, hash, now
  <2> QED
    BY <1>2, <1>3, Given
<1>7. Len(past.graphs) \in Nat /\ now \in 1 .. Len(past.graphs') /\ hash = StateIn(past.graphs'[now], h.found)
  BY <1>1, <1>2, Grown DEF GraphInv, HashGraphState
<1>8. thread'[t].now = now /\ thread'[t].hash = hash /\ thread'[t].found = h.found
  BY <1>6 DEF Handler
<1> HIDE DEF x, todo, hash, now
<1> QED
  BY <1>1, <1>3, <1>5, <1>7, <1>8, <1>12, ReadsKeep DEF Witnessed

\* Looking up the latest scenario of a proposal before a run.
LEMMA LookUpKeeps ==
  ASSUME IInv, NEW t \in Threads, LookUp(t)
  PROVE  IInv'
<1> DEFINE h == thread[t]  s == Step(t)  x == [s EXCEPT !.do = "check"]  todo == Within(t, "check")
           seen == Latest(s.proposal)  now == Len(scenarios)
<1>1. h.todo # <<>> /\ s.do = "run" /\ UNCHANGED <<nodes, log, scenarios, runs, past>>
  BY DEF LookUp, Does
<1>2. Shape /\ IsSeq(scenarios)
  BY DEF IInv, GateInv
<1>3. thread' = Put(t, Handler(todo, h.say, h.found, h.hash, seen, now))
  <2>1. thread' = Put(t, WithNow(WithSeen(WithTodo(h, todo), seen), now))
    BY DEF LookUp, Put, WithNow, WithSeen, WithTodo
  <2>2. h = Handler(h.todo, h.say, h.found, h.hash, h.seen, h.now)
    BY <1>2, HandlerIs
  <2> HIDE DEF h, s, x, todo, seen, now
  <2>3. WithTodo(h, todo) = Handler(todo, h.say, h.found, h.hash, h.seen, h.now)
    BY <2>2, Fields
  <2>4. WithSeen(WithTodo(h, todo), seen) = Handler(todo, h.say, h.found, h.hash, seen, h.now)
    BY <2>3, Fields
  <2> QED
    BY <2>1, <2>4, Fields
<1>4. s = RunStep(s.proposal, s.diff)
  BY <1>1, AtStep
<1>5. x.do = "check" /\ x.proposal = s.proposal
  <2> HIDE DEF s
  <2> QED
    BY <1>4 DEF RunStep
<1>12. todo = <<x>> \o Tail(h.todo) /\ Goes(t, todo, x)
  BY WithinIs DEF Goes
<1>6. thread'[t] = Handler(todo, h.say, h.found, h.hash, seen, now)
  <2> HIDE DEF x, todo, seen, now
  <2> QED
    BY <1>2, <1>3, Given
<1>7. thread'[t].now = now /\ thread'[t].seen = seen
  BY <1>6 DEF Handler
<1>8. /\ now \in 0 .. Len(scenarios)
      /\ LET own == {k \in 1 .. now : scenarios[k].proposal = x.proposal}
         IN  \/ own = {} /\ seen = 0
             \/ seen \in own /\ \A j \in own : j <= seen
  <2>1. now \in Nat /\ DOMAIN scenarios = 1 .. now
    BY <1>2, Grown
  <2> DEFINE own == {k \in 1 .. now : scenarios[k].proposal = x.proposal}
  <2>2. seen = IF own = {} THEN 0 ELSE Max(own)
    BY <1>5, <2>1 DEF Latest
  <2>3. own # {} => Max(own) \in own /\ \A j \in own : j <= Max(own)
    BY <2>1, MaxIs
  <2> HIDE DEF own, seen
  <2>4. (own = {} /\ seen = 0) \/ (seen \in own /\ \A j \in own : j <= seen)
    BY <2>2, <2>3
  <2> QED
    BY <2>1, <2>4 DEF own
<1> HIDE DEF s, x, todo, seen, now
<1>13. Head(thread'[t].todo) = x => LookedUp(thread'[t], scenarios')
  BY <1>1, <1>5, <1>7, <1>8 DEF LookedUp
<1> QED
  BY <1>1, <1>3, <1>12, <1>13, ReadsKeep

\* The verdict rests on the graph the witness was taken from.
LEMMA VerdictKeeps ==
  ASSUME IInv, NEW t \in Threads, RecordVerdict(t)
  PROVE  IInv'
<1> DEFINE h == thread[t]  w == <<"scenario">>
           c == [proposal |-> Step(t).proposal, diff |-> Step(t).diff, passed |-> Passes(Step(t).viable, h.seen),
                 witness |-> h.found, hash |-> h.hash, at |-> h.now]
<1>1. /\ h.todo # <<>> /\ h.say = <<>> /\ Step(t).do = "verdict" /\ UNCHANGED <<nodes, log, runs>>
      /\ past' = [past EXCEPT !.written = Append(@, w)] /\ w # <<>>
      /\ scenarios' = Append(scenarios, c)
      /\ thread' = Put(t, [Idle EXCEPT !.todo = Rest(t), !.say = w])
  BY Something DEF RecordVerdict, Does, Put
<1>2. Shape /\ GateInv /\ GraphInv /\ LogInv /\ HandlerOk(h, scenarios, past.graphs) /\ IsSeq(scenarios)
  BY DEF IInv, GateInv
<1>3. thread' = Put(t, Handler(Rest(t), w, {}, <<>>, 0, 0))
  BY <1>1, RestsIs
<1>4. Witnessed(h, past.graphs)
  BY <1>1, AtStep
<1>5. ScenarioOk(c, past.graphs)
  BY <1>4 DEF Witnessed, ScenarioOk
<1> HIDE DEF w, c
<1>6. /\ Shape' /\ thread'[t] = Handler(Rest(t), w, {}, <<>>, 0, 0)
      /\ \A u \in Threads : u # t => thread'[u] = thread[u]
  BY <1>2, <1>3, Given
<1>7. thread'[t].todo = Tail(h.todo) /\ thread'[t].say = w
  BY <1>6 DEF Handler, Rest
<1>8. GraphInv' /\ Extends(past.graphs', past.graphs) /\ past.written' = Append(past.written, w)
  BY <1>1, <1>2, Past
<1>9. LogInv'
  BY <1>1, <1>2, <1>6, <1>7, <1>8, LogStep
<1>10. HandlerOk(thread'[t], scenarios', past.graphs')
  BY <1>1, <1>2, <1>7, GoesOn
<1>11. GateInv'
  <2>1. Extends(scenarios', scenarios) /\ IsSeq(runs')
    BY <1>1, <1>2, GrowsIs DEF GateInv
  <2>2. \A i \in 1 .. Len(runs') : i \in 1 .. Len(runs) /\ runs'[i] = runs[i]
    BY <1>1
  <2>3. ScenarioOk(c, past.graphs')
    BY <1>5, <1>8, ScenarioKept
  <2>4. \A k \in 1 .. Len(scenarios') : k \in 1 .. Len(scenarios) \/ ScenarioOk(scenarios'[k], past.graphs')
    BY <1>1, <1>2, <2>3, Grown
  <2> QED
    BY <1>2, <1>6, <1>8, <1>10, <2>1, <2>2, <2>4, GateStep
<1> QED
  BY <1>6, <1>8, <1>9, <1>11 DEF IInv

\* The sandbox compares the nodes with what they were when the latest simulation looked,
\* which is all it takes.
LEMMA DecideKeeps ==
  ASSUME IInv, NEW t \in Threads, Decide(t)
  PROVE  IInv'
<1> DEFINE h == thread[t]  s == Step(t)
           r == [proposal |-> s.proposal, diff |-> s.diff, scheduled |-> Stands(h.seen, s.diff),
                 known |-> h.now, at |-> Len(past.graphs)]
<1>1. /\ h.todo # <<>> /\ h.say = <<>> /\ s.do = "check" /\ UNCHANGED <<nodes, log, scenarios, past>>
      /\ runs' = Append(runs, r)
      /\ thread' = Put(t, [Idle EXCEPT !.todo = Rest(t)])
  BY DEF Decide, Does, Put
<1>2. /\ Shape /\ GateInv /\ GraphInv /\ LogInv /\ HandlerOk(h, scenarios, past.graphs)
      /\ IsSeq(scenarios) /\ IsSeq(runs)
  BY DEF IInv, GateInv
<1>3. thread' = Put(t, Handler(Rest(t), <<>>, {}, <<>>, 0, 0))
  BY <1>1, RestsIs
<1>4. LookedUp(h, scenarios)
  BY <1>1, AtStep
<1>5. RunOk(r, scenarios, past.graphs)
  <2> DEFINE own == {k \in 1 .. h.now : scenarios[k].proposal = s.proposal}
             Fits(k) == /\ \A j \in own : j <= k
                        /\ scenarios[k].passed /\ scenarios[k].diff = s.diff
                        /\ \A n \in scenarios[k].witness :
                             StateIn(past.graphs[Len(past.graphs)], {n}) = StateIn(past.graphs[scenarios[k].at], {n})
  <2>1. /\ h.now \in 0 .. Len(scenarios) /\ Len(scenarios) \in Nat /\ own \subseteq 1 .. Len(scenarios)
        /\ (own = {} /\ h.seen = 0) \/ (h.seen \in own /\ \A j \in own : j <= h.seen)
    BY <1>2, <1>4, Grown DEF LookedUp, Step
  <2>2. Len(past.graphs) \in 1 .. Len(past.graphs) /\ nodes = past.graphs[Len(past.graphs)]
    BY <1>2, Grown DEF GraphInv
  <2>3. Stands(h.seen, s.diff) <=> \E k \in own : Fits(k)
    <3>1. CASE own = {} /\ h.seen = 0
      BY <3>1 DEF Stands
    <3>2. CASE h.seen \in own /\ \A j \in own : j <= h.seen
      <4>1. (\E k \in own : Fits(k)) <=> Fits(h.seen)
        <5>1. ASSUME NEW k \in own, Fits(k) PROVE k = h.seen
          BY <2>1, <3>2, <5>1
        <5> HIDE DEF Fits
        <5> QED
          BY <3>2, <5>1
      <4>2. ScenarioOk(scenarios[h.seen], past.graphs)
        BY <1>2, <2>1, <3>2 DEF GateInv
      <4>3. HashGraphState(scenarios[h.seen].witness) = scenarios[h.seen].hash
              <=> \A n \in scenarios[h.seen].witness :
                    StateIn(nodes, {n}) = StateIn(past.graphs[scenarios[h.seen].at], {n})
        <5> DEFINE W == scenarios[h.seen].witness  g == past.graphs[scenarios[h.seen].at]
        <5>1. HashGraphState(W) = StateIn(nodes, W) /\ scenarios[h.seen].hash = StateIn(g, W)
          BY <4>2 DEF ScenarioOk, HashGraphState
        <5> HIDE DEF W, g
        <5>2. StateIn(nodes, W) = StateIn(g, W) <=> Agree(nodes, g, W)
          BY StateOfEach
        <5>3. HashGraphState(W) = scenarios[h.seen].hash <=> \A n \in W : StateIn(nodes, {n}) = StateIn(g, {n})
          BY <5>1, <5>2 DEF Agree
        <5> QED
          BY <5>3 DEF W, g
      <4>4. h.seen # 0
        BY <2>1, <3>2
      <4> QED
        BY <2>2, <3>2, <4>1, <4>3, <4>4 DEF Stands
    <3> QED
      BY <2>1, <3>1, <3>2
  <2> QED
    BY <2>1, <2>2, <2>3 DEF RunOk
<1> HIDE DEF r, s
<1>6. /\ Shape' /\ thread'[t] = Handler(Rest(t), <<>>, {}, <<>>, 0, 0)
      /\ \A u \in Threads : u # t => thread'[u] = thread[u]
  BY <1>2, <1>3, Given
<1>7. thread'[t].todo = Tail(h.todo) /\ thread'[t].say = h.say
  <2>1. thread'[t].todo = Rest(t) /\ thread'[t].say = <<>>
    BY <1>6 DEF Handler
  <2> QED
    BY <1>1, <2>1 DEF Rest
<1>8. GraphInv' /\ Extends(past.graphs', past.graphs) /\ past.written' = past.written
  BY <1>1, <1>2, Past
<1>9. LogInv'
  <2>1. <<"w">> # <<>>
    BY Something
  <2> QED
    BY <1>1, <1>2, <1>6, <1>7, <1>8, <2>1, LogStep
<1>10. HandlerOk(thread'[t], scenarios', past.graphs')
  BY <1>1, <1>2, <1>7, GoesOn
<1>11. GateInv'
  <2>1. Extends(scenarios', scenarios) /\ IsSeq(runs')
    BY <1>1, <1>2, GrowsIs DEF Extends
  <2>2. \A i \in 1 .. Len(runs') : \/ i \in 1 .. Len(runs) /\ runs'[i] = runs[i]
                                   \/ RunOk(runs'[i], scenarios', past.graphs')
    BY <1>1, <1>2, <1>5, Grown
  <2>3. \A k \in 1 .. Len(scenarios') : k \in 1 .. Len(scenarios)
    BY <1>1
  <2> QED
    BY <1>2, <1>6, <1>8, <1>10, <2>1, <2>2, <2>3, GateStep
<1> QED
  BY <1>6, <1>8, <1>9, <1>11 DEF IInv

\* A new request brings its client's steps.
LEMMA AskKeeps ==
  ASSUME IInv, NEW t \in Threads, NEW r \in DOMAIN Requests, Ask(t, r)
  PROVE  IInv'
<1> DEFINE h == thread[t]
<1>1. /\ h.say = <<>> /\ UNCHANGED <<nodes, log, scenarios, runs, past>>
      /\ thread' = Put(t, Handler(r, <<>>, {}, <<>>, 0, 0))
  BY RestsIs DEF Ask, Ready, Put
<1>2. Shape /\ GateInv /\ GraphInv /\ LogInv /\ IsSeq(scenarios)
  BY DEF IInv, GateInv
<1>3. IsSeq(r) /\ ToSet(r) \subseteq ClientSteps
  BY GateAssumption DEF IsSeq, ClientSteps
<1>6. /\ Shape' /\ thread'[t] = Handler(r, <<>>, {}, <<>>, 0, 0)
      /\ \A u \in Threads : u # t => thread'[u] = thread[u]
  BY <1>1, <1>2, Given
<1>7. thread'[t].todo = r /\ thread'[t].say = h.say
  BY <1>1, <1>6 DEF Handler
<1>8. GraphInv' /\ Extends(past.graphs', past.graphs) /\ past.written' = past.written
  BY <1>1, <1>2, Past
<1>9. LogInv'
  <2>1. <<"w">> # <<>>
    BY Something
  <2>2. thread'[t].say = thread[t].say /\ log' = log /\ past.written' = past.written
    BY <1>1, <1>7, <1>8
  <2> QED
    BY <1>2, <1>6, <2>1, <2>2, LogStep
<1>10. HandlerOk(thread'[t], scenarios', past.graphs')
  <2>1. r # <<>> => ToSet(Tail(r)) \subseteq ClientSteps /\ Head(r) \in ClientSteps
    BY <1>3, RestIs
  <2> QED
    BY <1>3, <1>7, <2>1 DEF HandlerOk
<1>11. GateInv'
  <2>1. Extends(scenarios', scenarios) /\ IsSeq(runs')
    BY <1>1, <1>2, GrowsIs DEF GateInv
  <2>2. \A i \in 1 .. Len(runs') : i \in 1 .. Len(runs) /\ runs'[i] = runs[i]
    BY <1>1
  <2>3. \A k \in 1 .. Len(scenarios') : k \in 1 .. Len(scenarios)
    BY <1>1
  <2> QED
    BY <1>2, <1>6, <1>8, <1>10, <2>1, <2>2, <2>3, GateStep
<1> QED
  BY <1>6, <1>8, <1>9, <1>11 DEF IInv

-----------------------------------------------------------------------------
(* The theorems.                                                           *)

\* At the start nothing is recorded and nobody waits.
LEMMA InitKeeps ==
  ASSUME Init
  PROVE  IInv
<1>1. /\ scenarios = <<>> /\ runs = <<>> /\ log = <<>> /\ thread = [t \in Threads |-> Idle]
      /\ past = [graphs |-> <<nodes>>, written |-> <<>>]
  BY DEF Init
<1>2. IsSeq(<<>>) /\ IsSeq(<<nodes>>) /\ Len(<<nodes>>) = 1 /\ Len(<<>>) = 0 /\ <<nodes>>[1] = nodes
  <2>1. <<nodes>> \in Seq({nodes}) /\ <<>> \in Seq({nodes})
    OBVIOUS
  <2> QED
    BY <2>1, SeqIs
<1>3. Shape
  <2>1. \A t \in Threads : thread[t] = Handler(<<>>, <<>>, {}, <<>>, 0, 0)
    BY <1>1, IdleIs
  <2> DEFINE T == {thread[u].todo : u \in Threads}  S == {thread[u].say : u \in Threads}
             F == {thread[u].found : u \in Threads} H == {thread[u].hash : u \in Threads}
             N == {thread[u].seen : u \in Threads}  M == {thread[u].now : u \in Threads}
  <2>2. /\ \A u \in Threads : thread[u].todo \in T /\ thread[u].say \in S /\ thread[u].found \in F
        /\ \A u \in Threads : thread[u].hash \in H /\ thread[u].seen \in N /\ thread[u].now \in M
    OBVIOUS
  <2> HIDE DEF T, S, F, H, N, M
  <2>3. \A u \in Threads : thread[u] \in [todo : T, say : S, found : F, hash : H, seen : N, now : M]
    BY <2>1, <2>2 DEF Handler
  <2>4. thread \in [Threads -> [todo : T, say : S, found : F, hash : H, seen : N, now : M]]
    BY <1>1, <2>3
  <2> QED
    BY <2>4 DEF Shape, T, S, F, H, N, M
<1>4. GraphInv
  <2>1. IsMap(nodes)
    BY DEF Init, IsMap
  <2> QED
    BY <1>1, <1>2, <2>1 DEF GraphInv
<1>5. GateInv
  <2>1. \A t \in Threads : thread[t].todo = <<>>
    BY <1>1 DEF Idle
  <2> QED
    BY <1>1, <1>2, <2>1 DEF GateInv, HandlerOk
<1>6. LogInv
  <2>1. past.written = <<>> /\ \A t \in Threads : thread[t].say = <<>>
    BY <1>1 DEF Idle
  <2>2. \A e : e # <<>> => Waiting(thread, e) = {}
    BY <2>1 DEF Waiting
  <2>3. \A e : Times(<<>>, e) = 0
    <3>1. \A e : {i \in DOMAIN <<>> : <<>>[i] = e} = {}
      BY <1>2
    <3> QED
      BY <3>1, FS_EmptySet DEF Times
  <2>4. ToSet(<<>>) = {}
    BY <1>2 DEF ToSet
  <2>5. ASSUME NEW e, e # <<>>
        PROVE  Times(past.written, e) = Times(log, e) + Cardinality(Waiting(thread, e))
    <3>1. Times(past.written, e) = 0 /\ Times(log, e) = 0 /\ Cardinality(Waiting(thread, e)) = 0
      BY <1>1, <2>1, <2>2, <2>3, <2>5, FS_EmptySet
    <3> QED
      BY <3>1
  <2>6. IsSeq(log) /\ IsSeq(past.written) /\ <<>> \notin ToSet(log) \cup ToSet(past.written)
    BY <1>1, <1>2, <2>1, <2>4
  <2> QED
    BY <2>5, <2>6 DEF LogInv
<1> QED
  BY <1>3, <1>4, <1>5, <1>6 DEF IInv

\* Every step keeps the invariant.
LEMMA NextKeeps ==
  ASSUME IInv, [Next]_gateVars
  PROVE  IInv'
<1>1. CASE UNCHANGED gateVars
  BY <1>1 DEF gateVars, IInv, Shape, GraphInv, GateInv, LogInv
<1>2. ASSUME NEW t \in Threads, Handle(t) PROVE IInv'
  BY <1>2, WritesKeep, TellsKeep, TraverseKeeps, WitnessKeeps, VerdictKeeps, LookUpKeeps, DecideKeeps DEF Handle
<1>3. ASSUME NEW t \in Threads, NEW r \in DOMAIN Requests, Ask(t, r) PROVE IInv'
  BY <1>3, AskKeeps
<1> QED
  BY <1>1, <1>2, <1>3 DEF Next

\* What the invariant is for: the sandbox's answers, and the log's counts.
LEMMA Implied ==
  ASSUME IInv
  PROVE  RunsExactlyWhatStands /\ LogTellsTheWrites
<1>1. RunsExactlyWhatStands
  <2>1. DOMAIN runs = 1 .. Len(runs) /\ \A i \in 1 .. Len(runs) : RunOk(runs[i], scenarios, past.graphs)
    BY Grown DEF IInv, GateInv
  <2> QED
    BY <2>1 DEF RunsExactlyWhatStands, RunOk
<1>2. LogTellsTheWrites
  <2>1. ASSUME NEW e \in ToSet(log) \cup ToSet(past.written)
        PROVE  Times(past.written, e) = Times(log, e) + Cardinality(Waiting(thread, e))
    BY DEF IInv, LogInv
  <2> QED
    BY <2>1 DEF LogTellsTheWrites, Times, Waiting
<1> QED
  BY <1>1, <1>2

\* The invariant holds in every state of the store, the simulations and the sandbox.
THEOREM Invariance == GateSpec => []IInv
<1> QED
  BY InitKeeps, NextKeeps, PTL DEF GateSpec

\* The sandbox runs a change exactly when the latest simulation of its proposal that it could
\* know of passed, was of this diff, and looked at nodes that are as they were - whatever
\* else was written, removed or simulated in between, by however many requests.
THEOREM RunsStand == GateSpec => []RunsExactlyWhatStands
<1> QED
  BY Invariance, Implied, PTL

\* Each write that succeeded has one event, told or still to be told, and no other write has one.
THEOREM LogTells == GateSpec => []LogTellsTheWrites
<1> QED
  BY Invariance, Implied, PTL

=============================================================================
