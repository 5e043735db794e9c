-------------------------- MODULE JobManager_proofs --------------------------
(***************************************************************************)
(* What TLAPS proves of JobManager for any objects, threads, budgets and   *)
(* caps.                                                                   *)
(*                                                                         *)
(* Whatever requests overlap, the state is well formed and a cancelled job *)
(* begins no round.  As long as a Continue waits for the job to be at rest *)
(* and requests come one at a time, one thread runs the registered job, the*)
(* log on disk covers the checkpoint, a finished job stays finished, and   *)
(* the job is seen to change only as JobContract says.                     *)
(*                                                                         *)
(* The invariant speaks of a thread together with its job: where the thread*)
(* is tells the job's status, whether its last event has been emitted, and *)
(* whether the file already says so.                                       *)
(***************************************************************************)
EXTENDS JobManager, TLAPS, SequenceTheorems, FiniteSetTheorems

-----------------------------------------------------------------------------
(* Types.                                                                  *)

JobRecord ==
  [ status : Status, reason : Reason, left : Nat, auto_continues : 0 .. AutoCap,
    stalls : 0 .. MAX_STALL_RECOVERIES, cancelled : BOOLEAN, events : Seq(Event), persisted : Nat ]

FileRecord ==
  [ status : Status, reason : Reason, left : Nat, auto_continues : 0 .. AutoCap,
    stalls : 0 .. MAX_STALL_RECOVERIES, cancelled : BOOLEAN, seen : Nat ]

Places == {"none", "enter", "top", "stream", "tools", "ending", "flush", "write", "returned"}

ThreadRecord ==
  [ pc : Places, obj : Objs \cup {None}, next : {"none", "top", "enter", "returned"},
    left : Nat, calls : Nat, ending : Event \cup {None} ]

RequestRecord == [ pc : {"idle", "continue", "resume"}, obj : Objs \cup {None} ]

Typed ==
  /\ heap \in [Objs -> JobRecord]
  /\ registry \in Objs \cup {None}
  /\ runner \in [Runners -> ThreadRecord]
  /\ file \in FileRecord /\ log \in Seq(Event)
  /\ request \in [Requests -> RequestRecord]
  /\ sub \in [obj : Objs \cup {None}, index : Nat]
  /\ clicks \in Nat /\ crashes \in Nat /\ lost \in Nat

Counts(j) == j.persisted <= Len(j.events)

\* The objects that are in use, and what each of those that matter has counted.
Kept ==
  /\ \A o \in Objs : heap[o].status = "free" => ~heap[o].cancelled
  /\ registry # None => heap[registry].status # "free" /\ Counts(heap[registry])
  /\ \A t \in Runners : Running(t) =>
       /\ runner[t].obj \in Objs /\ heap[runner[t].obj].status # "free"
       /\ runner[t].pc = "ending" => runner[t].ending \in Event
  /\ \A h \in Requests : request[h].pc # "idle" =>
       /\ request[h].obj \in Objs /\ heap[request[h].obj].status # "free"
       /\ request[h].pc = "resume" => Counts(heap[request[h].obj])

IInv == Typed /\ Kept

-----------------------------------------------------------------------------
(* A thread and its job, for requests that come one at a time and wait.    *)

OneAtATime == ~ClicksMayOverlap /\ \A h, k \in Requests : h = k

Ends(j)    == j.events # <<>> /\ Last(j.events) \in Final
Pending(j) == j.status = "error" /\ j.reason = "max_rounds" /\ j.auto_continues < MAX_AUTO_CONTINUES
Closed(j)  == j.status \in Final /\ (Ends(j) \/ Pending(j))

ThreadOk(r, j, f, l) ==
  /\ r.pc \in {"top", "stream", "tools", "enter"} => j.status = "running"
  /\ r.pc \in {"flush", "write"} =>
       \/ r.next \in {"top", "enter"} /\ j.status = "running"
       \/ r.next = "returned" /\ Closed(j)
       \/ r.next = "none" /\ j.status = "error" /\ Ends(j)
  /\ r.pc = "ending" =>
       \/ r.ending \in Final /\ r.next = "returned" /\ j.status \in Final
       \/ r.ending \in Final /\ r.next = "none" /\ j.status = "error"
       \/ r.ending = "work" /\ r.next = "returned" /\ Pending(j)
  /\ r.pc = "returned" => Closed(j) /\ (l = 0 => f.status = j.status)
  /\ r.pc = "write" => j.persisted = Len(j.events)
  /\ f.status = "done" => j.status = "done"

HoldOk(j, lg) == Counts(j) /\ j.persisted <= Len(lg)

RestOk(j, f, l) ==
  /\ j.status \in Final
  /\ l = 0 => f.status = j.status
  /\ f.status = "done" => j.status = "done"
  /\ AutoCap = MAX_AUTO_CONTINUES => Ends(j)

ContinueOk(h) ==
  /\ Alive = {} /\ clicks # 0 /\ heap[request[h].obj].status = "error"
  /\ \/ request[h].obj = registry
     \/ registry = None /\ file.status = "error"

ResumeOk(h) ==
  LET j == heap[request[h].obj]
  IN  /\ registry = None
      /\ j.status = file.status /\ j.cancelled = file.cancelled
      /\ j.persisted <= Len(log)
      /\ j.status \in Final => Ends(j)

Covers(f, lg, l, c) ==
  f.status \in {"running", "interrupted"} /\ (l = 0 \/ c = 0) => f.seen <= Len(lg)

Alone ==
  /\ \A t, u \in Alive : t = u
  /\ \A t \in Alive : runner[t].obj = registry /\ ThreadOk(runner[t], heap[registry], file, lost)
  /\ registry # None => HoldOk(heap[registry], log)
  /\ registry # None /\ Alive = {} => RestOk(heap[registry], file, lost)
  /\ \A h \in Requests : /\ request[h].pc = "continue" => ContinueOk(h)
                         /\ request[h].pc = "resume" => ResumeOk(h)
  /\ Covers(file, log, lost, clicks)

AInv == IInv /\ Alone

-----------------------------------------------------------------------------
(* What a thread's step does to its job and to itself.                     *)

HeapMoves(o) ==
  /\ heap' \in [Objs -> JobRecord]
  /\ \A p \in Objs : p # o => heap'[p] = heap[p]

RunnerMoves(t, pc, next, ending) ==
  /\ runner' \in [Runners -> ThreadRecord]
  /\ \A u \in Runners : u # t => runner'[u] = runner[u]
  /\ runner'[t].pc = pc /\ runner'[t].next = next /\ runner'[t].ending = ending
  /\ runner'[t].obj = runner[t].obj

\* A job with one more event is the same job but for that.
LEMMA EmittedIs ==
  ASSUME NEW j \in JobRecord, NEW e \in Event
  PROVE  LET k == Emitted(j, e)
         IN  /\ k \in JobRecord
             /\ k.status = j.status /\ k.reason = j.reason /\ k.cancelled = j.cancelled /\ k.left = j.left
             /\ k.auto_continues = j.auto_continues /\ k.persisted = j.persisted
             /\ k.events = Append(j.events, e) /\ Len(k.events) = Len(j.events) + 1
             /\ Ends(k) <=> e \in Final
<1> DEFINE k == Emitted(j, e)
<1>1. j.events \in Seq(Event) /\ Append(j.events, e) \in Seq(Event)
  BY DEF JobRecord
<1>2. k \in JobRecord
  BY <1>1 DEF Emitted, JobRecord
<1>3. /\ k.status = j.status /\ k.reason = j.reason /\ k.cancelled = j.cancelled /\ k.left = j.left
      /\ k.auto_continues = j.auto_continues /\ k.persisted = j.persisted
      /\ k.events = Append(j.events, e)
  BY DEF Emitted, JobRecord
<1> HIDE DEF k
<1>4. Len(k.events) = Len(j.events) + 1 /\ k.events # <<>> /\ Last(k.events) = e
  BY <1>1, <1>3 DEF Last
<1> QED
  BY <1>2, <1>3, <1>4 DEF Ends, k

\* The events a flush writes, and the job after it.
LEMMA FlushedIs ==
  ASSUME NEW j \in JobRecord
  PROVE  LET k == Flushed(j)
         IN  /\ k \in JobRecord
             /\ k.status = j.status /\ k.reason = j.reason /\ k.cancelled = j.cancelled /\ k.left = j.left
             /\ k.auto_continues = j.auto_continues /\ k.events = j.events /\ k.persisted = Len(j.events)
             /\ Fresh(j) \in Seq(Event)
             /\ Counts(j) => Len(Fresh(j)) = Len(j.events) - j.persisted
<1>1. j.events \in Seq(Event) /\ j.persisted \in Nat /\ Len(j.events) \in Nat
  BY DEF JobRecord
<1>2. Flushed(j) \in JobRecord
  BY <1>1 DEF Flushed, JobRecord
<1>3. LET k == Flushed(j)
      IN  /\ k.status = j.status /\ k.reason = j.reason /\ k.cancelled = j.cancelled /\ k.left = j.left
          /\ k.auto_continues = j.auto_continues /\ k.events = j.events /\ k.persisted = Len(j.events)
  BY DEF Flushed, JobRecord
<1>4. Fresh(j) \in Seq(Event) /\ (Counts(j) => Len(Fresh(j)) = Len(j.events) - j.persisted)
  <2>1. \A i \in j.persisted + 1 .. Len(j.events) : i \in 1 .. Len(j.events)
    BY <1>1
  <2> QED
    BY <1>1, <2>1, SubSeqProperties DEF Fresh, Counts
<1> QED
  BY <1>2, <1>3, <1>4

\* Where a thread is after it has set its next place.
LEMMA ThreadEdits ==
  ASSUME Typed, NEW t \in Runners, NEW next \in {"none", "top", "enter", "returned"}, NEW event \in Event
  PROVE  /\ CheckpointThen(t, next) => RunnerMoves(t, "flush", next, runner[t].ending)
         /\ EndThen(t, event, next) => RunnerMoves(t, "ending", next, event)
         /\ Goto(t, "write") => RunnerMoves(t, "write", runner[t].next, runner[t].ending)
<1>1. runner \in [Runners -> ThreadRecord]
  BY DEF Typed
<1>2. ASSUME CheckpointThen(t, next) PROVE RunnerMoves(t, "flush", next, runner[t].ending)
  <2> DEFINE R == [runner EXCEPT ![t].pc = "flush"]
  <2>1. /\ R \in [Runners -> ThreadRecord] /\ R[t].pc = "flush" /\ R[t].ending = runner[t].ending /\ R[t].obj = runner[t].obj
        /\ \A u \in Runners : u # t => R[u] = runner[u]
    BY <1>1 DEF ThreadRecord, Places
  <2>2. runner' = [R EXCEPT ![t].next = next]
    BY <1>2 DEF CheckpointThen
  <2> HIDE DEF R
  <2>3. /\ runner' \in [Runners -> ThreadRecord] /\ runner'[t].pc = "flush" /\ runner'[t].ending = runner[t].ending
        /\ runner'[t].next = next /\ runner'[t].obj = runner[t].obj
        /\ \A u \in Runners : u # t => runner'[u] = runner[u]
    BY <2>1, <2>2 DEF ThreadRecord
  <2> QED
    BY <2>3 DEF RunnerMoves
<1>3. ASSUME EndThen(t, event, next) PROVE RunnerMoves(t, "ending", next, event)
  <2> DEFINE R == [runner EXCEPT ![t].pc = "ending"]  Q == [R EXCEPT ![t].ending = event]
  <2>1. /\ R \in [Runners -> ThreadRecord] /\ R[t].pc = "ending" /\ R[t].obj = runner[t].obj
        /\ \A u \in Runners : u # t => R[u] = runner[u]
    BY <1>1 DEF ThreadRecord, Places
  <2>2. runner' = [Q EXCEPT ![t].next = next]
    BY <1>3 DEF EndThen
  <2> HIDE DEF R
  <2>3. /\ Q \in [Runners -> ThreadRecord] /\ Q[t].pc = "ending" /\ Q[t].ending = event /\ Q[t].obj = runner[t].obj
        /\ \A u \in Runners : u # t => Q[u] = runner[u]
    BY <2>1 DEF ThreadRecord
  <2> HIDE DEF Q
  <2>4. /\ runner' \in [Runners -> ThreadRecord] /\ runner'[t].pc = "ending" /\ runner'[t].ending = event
        /\ runner'[t].next = next /\ runner'[t].obj = runner[t].obj
        /\ \A u \in Runners : u # t => runner'[u] = runner[u]
    BY <2>2, <2>3 DEF ThreadRecord
  <2> QED
    BY <2>4 DEF RunnerMoves
<1>4. ASSUME Goto(t, "write") PROVE RunnerMoves(t, "write", runner[t].next, runner[t].ending)
  BY <1>1, <1>4 DEF Goto, RunnerMoves, ThreadRecord, Places
<1> QED
  BY <1>2, <1>3, <1>4

\* What a thread's step promises: to anybody, of its job's type, its cancel flag and its
\* rounds; and when it is alone, that the job and the thread still fit, and which of the
\* changes the rest of the backend reckons with it was.
Moves(t) ==
  LET o == runner[t].obj
  IN  /\ HeapMoves(o)
      /\ runner' \in [Runners -> ThreadRecord] /\ \A u \in Runners : u # t => runner'[u] = runner[u]
      /\ file' \in FileRecord /\ log' \in Seq(Event) /\ lost' \in Nat
      /\ UNCHANGED <<registry, request, sub, clicks, crashes>>
      /\ heap'[o].status # "free" /\ heap'[o].cancelled = heap[o].cancelled
      /\ heap[o].cancelled => heap'[o].left >= heap[o].left
      /\ Counts(heap[o]) => Counts(heap'[o])
      /\ runner'[t].pc # "none" => runner'[t].obj = o
      /\ runner'[t].pc = "ending" => runner'[t].ending \in Event

Fits(t) ==
  LET j == Job(t)  k == heap'[runner[t].obj]  r == runner'[t]
  IN  /\ HoldOk(k, log') /\ lost' >= lost
      /\ IF r.pc = "none" THEN RestOk(k, file', lost') ELSE ThreadOk(r, k, file', lost')
      /\ \/ file' = file /\ Len(log') >= Len(log)
         \/ file'.seen <= Len(log')
      /\ \/ k.status = j.status /\ file' = file /\ r.pc # "none"
         \/ j.status = "running" /\ k.status \in Final /\ file' = file /\ r.pc # "none"
         \/ j.status = "error" /\ k.status = "running" /\ file' = file /\ r.pc # "none"
         \/ j.status \in Final /\ k.status = j.status /\ file' = file /\ r.pc = "none"
         \/ k.status = j.status /\ file' = OnDisk(j) /\ (r.pc = "none" => j.status \in Final)

Works(t)   == Moves(t) /\ (ThreadOk(runner[t], Job(t), file, lost) /\ HoldOk(Job(t), log) => Fits(t))

\* A thread that is somewhere in _run, and its job.
LEMMA ThreadHas ==
  ASSUME IInv, NEW t \in Runners, Running(t)
  PROVE  /\ runner \in [Runners -> ThreadRecord] /\ runner[t] \in ThreadRecord
         /\ heap \in [Objs -> JobRecord] /\ runner[t].obj \in Objs
         /\ Job(t) = heap[runner[t].obj] /\ Job(t) \in JobRecord /\ Job(t).status # "free"
         /\ Job(t).events \in Seq(Event) /\ Len(Job(t).events) \in Nat /\ Job(t).persisted \in Nat
         /\ log \in Seq(Event) /\ Len(log) \in Nat /\ file \in FileRecord /\ lost \in Nat
<1>1. /\ runner \in [Runners -> ThreadRecord] /\ heap \in [Objs -> JobRecord] /\ runner[t].obj \in Objs
      /\ heap[runner[t].obj].status # "free"
      /\ log \in Seq(Event) /\ file \in FileRecord /\ lost \in Nat
  BY DEF IInv, Typed, Kept
<1>2. Job(t) = heap[runner[t].obj] /\ Job(t) \in JobRecord
  BY <1>1 DEF Job
<1> QED
  BY <1>1, <1>2 DEF JobRecord

\* The heap with another job at one object
HeapWith(o, k) == [heap EXCEPT ![o] = k]

\* A running job runs on: it may have another event, fewer rounds if it was not cancelled,
\* one more stall.
LEMMA RunsOn ==
  ASSUME IInv, NEW t \in Runners, Running(t), NEW k \in JobRecord, heap' = HeapWith(runner[t].obj, k),
         k.status = Job(t).status, k.cancelled = Job(t).cancelled, k.persisted = Job(t).persisted,
         Len(k.events) >= Len(Job(t).events), Job(t).cancelled => k.left >= Job(t).left,
         runner[t].pc \in {"top", "stream", "tools", "enter"},
         runner' \in [Runners -> ThreadRecord], \A u \in Runners : u # t => runner'[u] = runner[u],
         runner'[t].obj = runner[t].obj,
         \/ runner'[t].pc \in {"top", "stream", "tools", "enter"}
         \/ runner'[t].pc = "flush" /\ runner'[t].next \in {"top", "enter"},
         NotTheDisk, NotRequests
  PROVE  Works(t)
<1> DEFINE o == runner[t].obj  j == Job(t)  r == runner[t]  r2 == runner'[t]
<1>2. /\ runner \in [Runners -> ThreadRecord] /\ r \in ThreadRecord /\ heap \in [Objs -> JobRecord] /\ o \in Objs
      /\ j = heap[o] /\ j \in JobRecord /\ j.status # "free" /\ log \in Seq(Event) /\ file \in FileRecord /\ lost \in Nat
      /\ Len(log) \in Nat /\ Len(j.events) \in Nat /\ j.persisted \in Nat
  BY ThreadHas
<1>3. Len(k.events) \in Nat
  BY DEF JobRecord
<1>6. HeapMoves(o) /\ heap'[o] = k
  BY <1>2 DEF HeapMoves, HeapWith
<1>8. UNCHANGED <<registry, request, sub, clicks, crashes, file, log, lost>>
  BY DEF NotTheDisk, NotRequests
<1>9. Moves(t)
  BY <1>2, <1>3, <1>6, <1>8 DEF Moves, Counts
<1>10. ASSUME ThreadOk(r, j, file, lost), HoldOk(j, log)
       PROVE  Fits(t)
  <2>1. j.status = "running"
    BY <1>10 DEF ThreadOk
  <2>2. ThreadOk(r2, k, file', lost') /\ HoldOk(k, log')
    BY <1>2, <1>3, <1>8, <1>10, <2>1 DEF ThreadOk, HoldOk, Counts
  <2>3. r2.pc # "none"
    OBVIOUS
  <2> QED
    BY <1>2, <1>6, <1>8, <2>2, <2>3 DEF Fits
<1> QED
  BY <1>9, <1>10 DEF Works

\* A job ends: its status is final, and the event that says so is about to be emitted.
LEMMA Closes ==
  ASSUME IInv, NEW t \in Runners, Running(t), NEW k \in JobRecord, heap' = HeapWith(runner[t].obj, k),
         k.status \in Final, k.cancelled = Job(t).cancelled, k.persisted = Job(t).persisted,
         k.events = Job(t).events, Job(t).cancelled => k.left >= Job(t).left,
         runner[t].pc \in {"top", "stream", "tools"},
         NEW event, NEW next, RunnerMoves(t, "ending", next, event),
         \/ event \in Final /\ next = "returned"
         \/ event \in Final /\ next = "none" /\ k.status = "error"
         \/ event = "work" /\ next = "returned" /\ Pending(k),
         NotTheDisk, NotRequests
  PROVE  Works(t)
<1> DEFINE o == runner[t].obj  j == Job(t)  r == runner[t]  r2 == runner'[t]
<1>2. /\ runner \in [Runners -> ThreadRecord] /\ r \in ThreadRecord /\ heap \in [Objs -> JobRecord] /\ o \in Objs
      /\ j = heap[o] /\ j \in JobRecord /\ j.status # "free" /\ log \in Seq(Event) /\ file \in FileRecord /\ lost \in Nat
      /\ Len(log) \in Nat /\ Len(j.events) \in Nat /\ j.persisted \in Nat
  BY ThreadHas
<1>3. /\ r2.pc = "ending" /\ r2.next = next /\ r2.ending = event /\ r2.obj = o
      /\ runner' \in [Runners -> ThreadRecord] /\ \A u \in Runners : u # t => runner'[u] = runner[u]
  BY DEF RunnerMoves
<1>6. HeapMoves(o) /\ heap'[o] = k
  BY <1>2 DEF HeapMoves, HeapWith
<1>8. UNCHANGED <<registry, request, sub, clicks, crashes, file, log, lost>>
  BY DEF NotTheDisk, NotRequests
<1>9. Moves(t)
  BY <1>2, <1>3, <1>6, <1>8 DEF Moves, Counts, Final, Event
<1>10. ASSUME ThreadOk(r, j, file, lost), HoldOk(j, log)
       PROVE  Fits(t)
  <2>1. j.status = "running"
    BY <1>10 DEF ThreadOk
  <2>2. file.status # "done"
    BY <1>10, <2>1 DEF ThreadOk
  <2>3. ThreadOk(r2, k, file', lost') /\ HoldOk(k, log')
    BY <1>2, <1>3, <1>8, <1>10, <2>2 DEF ThreadOk, HoldOk, Counts
  <2> QED
    BY <1>2, <1>3, <1>6, <1>8, <2>1, <2>3 DEF Fits
<1> QED
  BY <1>9, <1>10 DEF Works

\* A round begins.
LEMMA BeginWorks ==
  ASSUME IInv, NEW t \in Runners, BeginRound(t)
  PROVE  Works(t)
<1> DEFINE j == Job(t)  m == [j EXCEPT !.left = runner[t].left - 1]  k == Emitted(m, "work")
<1>1. runner[t].pc = "top" /\ runner[t].left > 0 /\ ~j.cancelled /\ Running(t) /\ NotTheDisk /\ NotRequests
  BY DEF BeginRound, At, TopSeesCancel, Running
<1>2. /\ runner \in [Runners -> ThreadRecord] /\ runner[t] \in ThreadRecord /\ j \in JobRecord
      /\ Len(j.events) \in Nat
  BY <1>1, ThreadHas
<1>3. runner[t].left - 1 \in Nat
  BY <1>1, <1>2 DEF ThreadRecord
<1>4. /\ m \in JobRecord /\ m.status = j.status /\ m.cancelled = j.cancelled /\ m.events = j.events
      /\ m.persisted = j.persisted
  <2> HIDE DEF j
  <2> QED
    BY <1>2, <1>3 DEF JobRecord
<1>5. /\ k \in JobRecord /\ k.status = j.status /\ k.cancelled = j.cancelled /\ k.persisted = j.persisted
      /\ Len(k.events) >= Len(j.events)
  <2> HIDE DEF m
  <2>1. "work" \in Event
    BY DEF Event
  <2> QED
    BY <1>2, <1>4, <2>1, EmittedIs
<1>6. heap' = HeapWith(runner[t].obj, k)
  BY DEF BeginRound, SetJob, HeapWith
<1>7. /\ runner' \in [Runners -> ThreadRecord] /\ \A u \in Runners : u # t => runner'[u] = runner[u]
      /\ runner'[t].pc = "stream" /\ runner'[t].obj = runner[t].obj
  <2>1. runner' = [runner EXCEPT ![t].pc = "stream", ![t].left = @ - 1]
    BY DEF BeginRound
  <2> QED
    BY <1>2, <1>3, <2>1 DEF ThreadRecord, Places
<1> HIDE DEF m, k
<1> QED
  BY <1>1, <1>5, <1>6, <1>7, RunsOn

\* A heap that is left alone.
LEMMA SameHeap ==
  ASSUME IInv, NEW t \in Runners, Running(t), heap' = heap
  PROVE  heap' = HeapWith(runner[t].obj, Job(t))
<1>1. heap \in [Objs -> JobRecord] /\ runner[t].obj \in Objs /\ Job(t) = heap[runner[t].obj]
  BY ThreadHas
<1> QED
  BY <1>1 DEF HeapWith

\* The steps of a round that leave the job alone, but for the count of its stalls.
LEMMA RoundWorks ==
  ASSUME IInv, NEW t \in Runners,
         NextRound(t) \/ Stall(t) \/ ToolCalls(t) \/ RunTool(t) \/ EnterLoop(t)
  PROVE  Works(t)
<1> DEFINE j == Job(t)
<1>1. runner[t].pc \in {"stream", "tools", "enter"} /\ Running(t) /\ NotTheDisk /\ NotRequests
  BY DEF NextRound, Stall, ToolCalls, RunTool, EnterLoop, At, Running
<1>2. /\ runner \in [Runners -> ThreadRecord] /\ runner[t] \in ThreadRecord /\ j \in JobRecord
      /\ Len(j.events) \in Nat
  BY <1>1, ThreadHas
<1>3. ASSUME NEW next \in {"top", "enter"}, CheckpointThen(t, next)
      PROVE  /\ runner' \in [Runners -> ThreadRecord] /\ \A u \in Runners : u # t => runner'[u] = runner[u]
             /\ runner'[t].pc = "flush" /\ runner'[t].next = next /\ runner'[t].obj = runner[t].obj
  <2>1. RunnerMoves(t, "flush", next, runner[t].ending)
    BY <1>3, ThreadEdits DEF IInv, Event
  <2> QED
    BY <2>1 DEF RunnerMoves
<1>4. CASE NextRound(t)
  <2>1. heap' = HeapWith(runner[t].obj, j)
    BY <1>1, <1>4, SameHeap DEF NextRound
  <2> QED
    BY <1>1, <1>2, <1>3, <1>4, <2>1, RunsOn DEF NextRound, JobRecord
<1>5. CASE Stall(t)
  <2> DEFINE k == [j EXCEPT !.stalls = @ + 1]
  <2>1. heap' = HeapWith(runner[t].obj, k)
    BY <1>5 DEF Stall, SetJob, HeapWith
  <2>2. /\ k \in JobRecord /\ k.status = j.status /\ k.cancelled = j.cancelled /\ k.persisted = j.persisted
        /\ k.events = j.events /\ k.left = j.left /\ j.left \in Nat
    <3>1. j.stalls < MAX_STALL_RECOVERIES
      BY <1>5 DEF Stall
    <3> HIDE DEF j
    <3>2. j.stalls \in 0 .. MAX_STALL_RECOVERIES /\ MAX_STALL_RECOVERIES \in Nat
      BY <1>2, JobAssumption DEF JobRecord
    <3>3. j.stalls + 1 \in 0 .. MAX_STALL_RECOVERIES
      BY <3>1, <3>2
    <3> QED
      BY <1>2, <3>3 DEF JobRecord
  <2> HIDE DEF k
  <2> QED
    BY <1>1, <1>2, <1>3, <1>5, <2>1, <2>2, RunsOn DEF Stall
<1>6. CASE ToolCalls(t)
  <2>1. heap' = HeapWith(runner[t].obj, j) /\ j.left \in Nat
    BY <1>1, <1>2, <1>6, SameHeap DEF ToolCalls, JobRecord
  <2>2. PICK n \in 1 .. MaxCalls : runner' = [runner EXCEPT ![t].pc = "tools", ![t].calls = n]
    BY <1>6 DEF ToolCalls
  <2>3. /\ runner' \in [Runners -> ThreadRecord] /\ \A u \in Runners : u # t => runner'[u] = runner[u]
        /\ runner'[t].pc = "tools" /\ runner'[t].obj = runner[t].obj
    <3> DEFINE R == [runner EXCEPT ![t].pc = "tools"]
    <3>1. /\ R \in [Runners -> ThreadRecord] /\ R[t].pc = "tools" /\ R[t].obj = runner[t].obj
          /\ \A u \in Runners : u # t => R[u] = runner[u]
      BY <1>2 DEF ThreadRecord, Places
    <3>2. runner' = [R EXCEPT ![t].calls = n]
      BY <2>2
    <3>3. n \in Nat
      OBVIOUS
    <3> HIDE DEF R
    <3> QED
      BY <3>1, <3>2, <3>3 DEF ThreadRecord
  <2> QED
    BY <1>1, <1>2, <2>1, <2>3, RunsOn
<1>7. CASE RunTool(t)
  <2>1. heap' = HeapWith(runner[t].obj, j) /\ j.left \in Nat
    BY <1>1, <1>2, <1>7, SameHeap DEF RunTool, JobRecord
  <2>2. CASE runner[t].calls > 1
    <3>1. runner' = [runner EXCEPT ![t].calls = @ - 1] /\ runner[t].calls - 1 \in Nat /\ runner[t].pc = "tools"
      BY <1>2, <1>7, <2>2 DEF RunTool, ThreadRecord, At
    <3>2. /\ runner' \in [Runners -> ThreadRecord] /\ \A u \in Runners : u # t => runner'[u] = runner[u]
          /\ runner'[t].pc = "tools" /\ runner'[t].obj = runner[t].obj
      BY <1>2, <3>1 DEF ThreadRecord
    <3> QED
      BY <1>1, <1>2, <2>1, <3>2, RunsOn
  <2>3. CASE ~(runner[t].calls > 1)
    <3> DEFINE R == [runner EXCEPT ![t].calls = 0]  Q == [R EXCEPT ![t].pc = "flush"]
    <3>1. runner' = [Q EXCEPT ![t].next = "top"]
      BY <1>7, <2>3 DEF RunTool
    <3>2. /\ R \in [Runners -> ThreadRecord] /\ R[t].obj = runner[t].obj
          /\ \A u \in Runners : u # t => R[u] = runner[u]
      BY <1>2 DEF ThreadRecord
    <3> HIDE DEF R
    <3>3. /\ Q \in [Runners -> ThreadRecord] /\ Q[t].obj = runner[t].obj /\ Q[t].pc = "flush"
          /\ \A u \in Runners : u # t => Q[u] = runner[u]
      BY <3>2 DEF ThreadRecord, Places
    <3> HIDE DEF Q
    <3>4. /\ runner' \in [Runners -> ThreadRecord] /\ \A u \in Runners : u # t => runner'[u] = runner[u]
          /\ runner'[t].pc = "flush" /\ runner'[t].next = "top" /\ runner'[t].obj = runner[t].obj
      BY <3>1, <3>3 DEF ThreadRecord
    <3> QED
      BY <1>1, <1>2, <2>1, <3>4, RunsOn
  <2> QED
    BY <2>2, <2>3
<1>8. CASE EnterLoop(t)
  <2>1. heap' = HeapWith(runner[t].obj, j) /\ j.left \in Nat
    BY <1>1, <1>2, <1>8, SameHeap DEF EnterLoop, JobRecord
  <2>2. runner' = [runner EXCEPT ![t].pc = "top", ![t].left = j.left]
    BY <1>8 DEF EnterLoop
  <2>3. /\ runner' \in [Runners -> ThreadRecord] /\ \A u \in Runners : u # t => runner'[u] = runner[u]
        /\ runner'[t].pc = "top" /\ runner'[t].obj = runner[t].obj
    <3> HIDE DEF j
    <3> QED
      BY <1>2, <2>1, <2>2 DEF ThreadRecord, Places
  <2> QED
    BY <1>1, <1>2, <2>1, <2>3, RunsOn
<1> QED
  BY <1>4, <1>5, <1>6, <1>7, <1>8

\* The steps that end a job.
LEMMA CloseWorks ==
  ASSUME IInv, NEW t \in Runners,
         \/ CancelledAtTop(t) \/ PlanEnds(t) \/ OutOfRounds(t) \/ StallOnceMore(t)
         \/ Raise(t) \/ CancelledInStream(t) \/ Finish(t)
  PROVE  Works(t)
<1> DEFINE j == Job(t)
<1>1. runner[t].pc \in {"top", "stream", "tools"} /\ Running(t) /\ NotTheDisk /\ NotRequests
  BY DEF CancelledAtTop, PlanEnds, OutOfRounds, StallOnceMore, Raise, CancelledInStream, Finish, At, Running
<1>2. /\ runner \in [Runners -> ThreadRecord] /\ runner[t] \in ThreadRecord /\ j \in JobRecord
      /\ Len(j.events) \in Nat /\ j.left \in Nat
  BY <1>1, ThreadHas DEF JobRecord
<1>3. ASSUME NEW event \in Event, NEW next \in {"none", "returned"}, EndThen(t, event, next)
      PROVE  RunnerMoves(t, "ending", next, event)
  BY <1>3, ThreadEdits DEF IInv
<1>4. "done" \in Event /\ "error" \in Event /\ "work" \in Event /\ "done" \in Final /\ "error" \in Final
  BY DEF Event, Final
<1>5. CASE CancelledAtTop(t) \/ CancelledInStream(t) \/ Finish(t)
  <2> DEFINE k == [j EXCEPT !.status = "done"]
  <2>1. heap' = HeapWith(runner[t].obj, k)
    BY <1>5 DEF CancelledAtTop, CancelledInStream, Finish, SetJob, HeapWith
  <2>2. /\ k \in JobRecord /\ k.status = "done" /\ k.cancelled = j.cancelled /\ k.persisted = j.persisted
        /\ k.events = j.events /\ k.left = j.left
    <3> HIDE DEF j
    <3> QED
      BY <1>2 DEF JobRecord, Status
  <2>3. RunnerMoves(t, "ending", "returned", "done")
    BY <1>3, <1>4, <1>5 DEF CancelledAtTop, CancelledInStream, Finish
  <2> HIDE DEF k
  <2> QED
    BY <1>1, <1>2, <1>4, <2>1, <2>2, <2>3, Closes
<1>6. CASE PlanEnds(t)
  <2> DEFINE m == [j EXCEPT !.status = "error"]  n == [m EXCEPT !.reason = "plan"]
             k == [n EXCEPT !.left = runner[t].left - 1]
  <2>1. heap' = HeapWith(runner[t].obj, k)
    BY <1>6 DEF PlanEnds, SetJob, HeapWith
  <2>2. ~j.cancelled /\ runner[t].left - 1 \in Nat
    BY <1>2, <1>6 DEF PlanEnds, TopSeesCancel, ThreadRecord
  <2>3. /\ m \in JobRecord /\ m.status = "error" /\ m.cancelled = j.cancelled /\ m.persisted = j.persisted
        /\ m.events = j.events
    <3> HIDE DEF j
    <3> QED
      BY <1>2 DEF JobRecord, Status
  <2> HIDE DEF m
  <2>4. /\ n \in JobRecord /\ n.status = "error" /\ n.cancelled = j.cancelled /\ n.persisted = j.persisted
        /\ n.events = j.events
    BY <2>3 DEF JobRecord, Reason
  <2> HIDE DEF n
  <2>5. /\ k \in JobRecord /\ k.status = "error" /\ k.cancelled = j.cancelled /\ k.persisted = j.persisted
        /\ k.events = j.events
    BY <2>2, <2>4 DEF JobRecord
  <2>6. RunnerMoves(t, "ending", "returned", "error")
    BY <1>3, <1>4, <1>6 DEF PlanEnds
  <2> HIDE DEF k
  <2> QED
    BY <1>1, <1>4, <2>1, <2>2, <2>5, <2>6, Closes
<1>7. ASSUME NEW reason \in Reason, SetJob(t, [j EXCEPT !.status = "error", !.reason = reason])
      PROVE  \E k \in JobRecord : /\ heap' = HeapWith(runner[t].obj, k) /\ k.status = "error" /\ k.reason = reason
                                  /\ k.cancelled = j.cancelled /\ k.persisted = j.persisted
                                  /\ k.events = j.events /\ k.left = j.left
                                  /\ k.auto_continues = j.auto_continues
  <2> DEFINE m == [j EXCEPT !.status = "error"]  k == [m EXCEPT !.reason = reason]
  <2>1. heap' = HeapWith(runner[t].obj, k)
    BY <1>7 DEF SetJob, HeapWith
  <2>2. /\ m \in JobRecord /\ m.status = "error" /\ m.cancelled = j.cancelled /\ m.persisted = j.persisted
        /\ m.events = j.events /\ m.left = j.left /\ m.auto_continues = j.auto_continues
    <3> HIDE DEF j
    <3> QED
      BY <1>2 DEF JobRecord, Status
  <2> HIDE DEF m
  <2>3. /\ k \in JobRecord /\ k.status = "error" /\ k.cancelled = j.cancelled /\ k.persisted = j.persisted
        /\ k.events = j.events /\ k.left = j.left /\ k.reason = reason /\ k.auto_continues = j.auto_continues
    BY <1>7, <2>2 DEF JobRecord
  <2> HIDE DEF k
  <2> QED
    BY <2>1, <2>3
<1>8. CASE OutOfRounds(t)
  <2>1. PICK k \in JobRecord : /\ heap' = HeapWith(runner[t].obj, k) /\ k.status = "error" /\ k.reason = "max_rounds"
                               /\ k.cancelled = j.cancelled /\ k.persisted = j.persisted
                               /\ k.events = j.events /\ k.left = j.left
                               /\ k.auto_continues = j.auto_continues
    BY <1>7, <1>8 DEF OutOfRounds, Reason
  <2>2. TailEvent(j) \in Event /\ (TailEvent(j) = "work" => Pending(k)) /\ (TailEvent(j) # "work" => TailEvent(j) \in Final)
    <3>1. j.auto_continues \in Nat /\ MAX_AUTO_CONTINUES \in Nat
      BY <1>2, JobAssumption DEF JobRecord
    <3> QED
      BY <1>4, <2>1, <3>1 DEF TailEvent, Pending
  <2>3. RunnerMoves(t, "ending", "returned", TailEvent(j))
    BY <1>3, <1>8, <2>2 DEF OutOfRounds
  <2>4. k.status \in Final
    BY <2>1 DEF Final
  <2> QED
    BY <1>1, <1>2, <2>1, <2>2, <2>3, <2>4, Closes
<1>9. CASE StallOnceMore(t)
  <2>1. PICK k \in JobRecord : /\ heap' = HeapWith(runner[t].obj, k) /\ k.status = "error"
                               /\ k.cancelled = j.cancelled /\ k.persisted = j.persisted
                               /\ k.events = j.events /\ k.left = j.left
    BY <1>7, <1>9 DEF StallOnceMore, Reason
  <2>2. RunnerMoves(t, "ending", "returned", "error")
    BY <1>3, <1>4, <1>9 DEF StallOnceMore
  <2> QED
    BY <1>1, <1>2, <1>4, <2>1, <2>2, Closes
<1>10. CASE Raise(t)
  <2> DEFINE k == [j EXCEPT !.status = "error"]
  <2>1. heap' = HeapWith(runner[t].obj, k)
    BY <1>10 DEF Raise, SetJob, HeapWith
  <2>2. /\ k \in JobRecord /\ k.status = "error" /\ k.cancelled = j.cancelled /\ k.persisted = j.persisted
        /\ k.events = j.events /\ k.left = j.left
    <3> HIDE DEF j
    <3> QED
      BY <1>2 DEF JobRecord, Status
  <2>3. RunnerMoves(t, "ending", "none", "error")
    BY <1>3, <1>4, <1>10 DEF Raise
  <2> HIDE DEF k
  <2> QED
    BY <1>1, <1>2, <1>4, <2>1, <2>2, <2>3, Closes
<1> QED
  BY <1>5, <1>6, <1>8, <1>9, <1>10

\* What a checkpoint leaves of a thread: it is where it was to go next.
LEMMA AfterIs ==
  ASSUME IInv, NEW t \in Runners, AfterCheckpoint(t)
  PROVE  /\ runner' \in [Runners -> ThreadRecord] /\ \A u \in Runners : u # t => runner'[u] = runner[u]
         /\ runner'[t].pc = runner[t].next
         /\ runner'[t].pc # "none" => runner'[t].obj = runner[t].obj
<1>1. runner \in [Runners -> ThreadRecord] /\ runner[t] \in ThreadRecord
  BY DEF IInv, Typed
<1>2. NoRunner \in ThreadRecord /\ NoRunner.pc = "none"
  BY DEF NoRunner, ThreadRecord, Places
<1>3. CASE runner[t].next = "none"
  <2>1. runner' = [runner EXCEPT ![t] = NoRunner]
    BY <1>3 DEF AfterCheckpoint
  <2> QED
    BY <1>1, <1>2, <1>3, <2>1
<1>4. CASE runner[t].next # "none"
  <2> DEFINE r == [runner[t] EXCEPT !.pc = runner[t].next]
  <2>1. runner' = [runner EXCEPT ![t] = r]
    BY <1>4 DEF AfterCheckpoint
  <2>2. r \in ThreadRecord /\ r.pc = runner[t].next /\ r.obj = runner[t].obj
    BY <1>1 DEF ThreadRecord, Places
  <2> HIDE DEF r
  <2> QED
    BY <1>1, <2>1, <2>2
<1> QED
  BY <1>3, <1>4

\* The event that ends a job is emitted, and flushed unless the job goes on.
LEMMA EmitWorks ==
  ASSUME IInv, NEW t \in Runners, EmitEnding(t)
  PROVE  Works(t)
<1> DEFINE o == runner[t].obj  j == Job(t)  r == runner[t]  e == r.ending  m == Emitted(j, e)
           k == IF e \in Final THEN Flushed(m) ELSE m  r2 == runner'[t]
<1>1. r.pc = "ending" /\ Running(t) /\ NotRequests /\ UNCHANGED <<file, lost>>
  BY DEF EmitEnding, At, Running
<1>2. /\ runner \in [Runners -> ThreadRecord] /\ r \in ThreadRecord /\ heap \in [Objs -> JobRecord] /\ o \in Objs
      /\ j = heap[o] /\ j \in JobRecord /\ j.status # "free" /\ log \in Seq(Event) /\ file \in FileRecord /\ lost \in Nat
      /\ Len(log) \in Nat /\ Len(j.events) \in Nat /\ j.persisted \in Nat
  BY <1>1, ThreadHas
<1>3. e \in Event
  BY <1>1 DEF IInv, Kept
<1>4. /\ m \in JobRecord /\ m.status = j.status /\ m.reason = j.reason /\ m.cancelled = j.cancelled /\ m.left = j.left
      /\ m.auto_continues = j.auto_continues /\ m.persisted = j.persisted
      /\ Len(m.events) = Len(j.events) + 1 /\ (Ends(m) <=> e \in Final)
  <2> HIDE DEF j, e
  <2> QED
    BY <1>2, <1>3, EmittedIs
<1>5. /\ Flushed(m) \in JobRecord /\ Flushed(m).status = j.status /\ Flushed(m).reason = j.reason
      /\ Flushed(m).cancelled = j.cancelled /\ Flushed(m).left = j.left
      /\ Flushed(m).auto_continues = j.auto_continues /\ Flushed(m).events = m.events
      /\ Flushed(m).persisted = Len(m.events) /\ Fresh(m) \in Seq(Event)
      /\ Counts(m) => Len(Fresh(m)) = Len(m.events) - m.persisted
  <2> HIDE DEF m
  <2> QED
    BY <1>4, FlushedIs
<1>6. /\ heap' = HeapWith(o, k)
      /\ log' = IF e \in Final THEN log \o Fresh(m) ELSE log
  BY DEF EmitEnding, SetJob, HeapWith
<1>7. /\ log' \in Seq(Event) /\ Len(log') \in Nat /\ Len(log') >= Len(log)
      /\ e \in Final /\ Counts(j) => Len(log') = Len(log) + (Len(m.events) - j.persisted)
  <2> HIDE DEF m, j
  <2>1. CASE e \in Final
    <3> HIDE DEF e
    <3>1. log' = log \o Fresh(m) /\ Fresh(m) \in Seq(Event) /\ Len(Fresh(m)) \in Nat
      BY <1>5, <1>6, <2>1
    <3>2. log' \in Seq(Event) /\ Len(log') = Len(log) + Len(Fresh(m))
      BY <1>2, <3>1
    <3>3. Counts(j) => Len(log') = Len(log) + (Len(m.events) - j.persisted)
      <4>1. Counts(j) => Counts(m)
        BY <1>2, <1>4 DEF Counts
      <4> QED
        BY <1>4, <1>5, <3>2, <4>1
    <3> QED
      BY <1>2, <3>1, <3>2, <3>3
  <2>2. CASE e \notin Final
    BY <1>2, <1>6, <2>2
  <2> QED
    BY <2>1, <2>2
<1>8. /\ k \in JobRecord /\ k.status = j.status /\ k.reason = j.reason /\ k.cancelled = j.cancelled
      /\ k.left = j.left /\ k.auto_continues = j.auto_continues
      /\ Len(k.events) = Len(j.events) + 1 /\ (Ends(k) <=> e \in Final)
      /\ k.persisted = IF e \in Final THEN Len(j.events) + 1 ELSE j.persisted
  <2> HIDE DEF m, j, e
  <2>1. CASE e \in Final
    BY <1>4, <1>5, <2>1 DEF Ends
  <2>2. CASE e \notin Final
    BY <1>4, <2>2
  <2> QED
    BY <2>1, <2>2
<1>9. /\ runner' \in [Runners -> ThreadRecord] /\ \A u \in Runners : u # t => runner'[u] = runner[u]
      /\ r2.pc = "flush" /\ r2.next = r.next /\ r2.obj = o
  <2> DEFINE R == [runner EXCEPT ![t].pc = "flush"]
  <2>1. /\ R \in [Runners -> ThreadRecord] /\ R[t].pc = "flush" /\ R[t].obj = o /\ R[t].next = r.next
        /\ \A u \in Runners : u # t => R[u] = runner[u]
    BY <1>2 DEF ThreadRecord, Places
  <2>2. runner' = [R EXCEPT ![t].ending = None]
    BY DEF EmitEnding
  <2> HIDE DEF R
  <2> QED
    BY <2>1, <2>2 DEF ThreadRecord
<1> HIDE DEF k, m
<1>10. HeapMoves(o) /\ heap'[o] = k
  BY <1>2, <1>6, <1>8 DEF HeapMoves, HeapWith
<1>11. UNCHANGED <<registry, request, sub, clicks, crashes, file, lost>>
  BY <1>1 DEF NotRequests
<1>12. k.left \in Nat /\ k.persisted \in Nat /\ Len(k.events) \in Nat
  BY <1>8 DEF JobRecord
<1>13. Counts(j) => Counts(k)
  BY <1>2, <1>8 DEF Counts
<1>14. Moves(t)
  BY <1>2, <1>7, <1>8, <1>9, <1>10, <1>11, <1>12, <1>13 DEF Moves
<1>15. ASSUME ThreadOk(r, j, file, lost), HoldOk(j, log)
       PROVE  Fits(t)
  <2>1. HoldOk(k, log')
    <3>1. CASE e \in Final
      BY <1>2, <1>4, <1>7, <1>8, <1>15, <3>1 DEF HoldOk, Counts
    <3>2. CASE e \notin Final
      BY <1>2, <1>7, <1>8, <1>15, <3>2 DEF HoldOk, Counts
    <3> QED
      BY <3>1, <3>2
  <2>2. ThreadOk(r2, k, file', lost')
    <3>1. \/ r.next = "returned" /\ Closed(k)
          \/ r.next = "none" /\ k.status = "error" /\ Ends(k)
      <4>1. CASE e \in Final
        <5>1. \/ r.next = "returned" /\ j.status \in Final
              \/ r.next = "none" /\ j.status = "error"
          BY <1>1, <1>15, <4>1 DEF ThreadOk, Pending, Final
        <5>2. Ends(k) /\ k.status = j.status
          BY <1>8, <4>1
        <5> QED
          BY <5>1, <5>2 DEF Closed
      <4>2. CASE e \notin Final
        BY <1>1, <1>8, <1>15, <4>2 DEF ThreadOk, Closed, Pending, Final
      <4> QED
        BY <4>1, <4>2
    <3>2. file'.status = "done" => k.status = "done"
      BY <1>8, <1>11, <1>15 DEF ThreadOk
    <3> HIDE DEF j, e
    <3> QED
      BY <1>9, <3>1, <3>2 DEF ThreadOk
  <2> QED
    BY <1>2, <1>7, <1>8, <1>9, <1>10, <1>11, <2>1, <2>2 DEF Fits
<1> QED
  BY <1>14, <1>15 DEF Works

\* The events of a checkpoint.
LEMMA FlushWorks ==
  ASSUME IInv, NEW t \in Runners, Flush(t)
  PROVE  Works(t)
<1> DEFINE o == runner[t].obj  j == Job(t)  r == runner[t]  k == Flushed(j)  r2 == runner'[t]
<1>1. r.pc = "flush" /\ Running(t) /\ NotRequests /\ UNCHANGED <<file, lost>>
  BY DEF Flush, At, Running
<1>2. /\ runner \in [Runners -> ThreadRecord] /\ r \in ThreadRecord /\ heap \in [Objs -> JobRecord] /\ o \in Objs
      /\ j = heap[o] /\ j \in JobRecord /\ j.status # "free" /\ log \in Seq(Event) /\ file \in FileRecord /\ lost \in Nat
      /\ Len(log) \in Nat /\ Len(j.events) \in Nat /\ j.persisted \in Nat
  BY <1>1, ThreadHas
<1>3. /\ k \in JobRecord /\ k.status = j.status /\ k.reason = j.reason /\ k.cancelled = j.cancelled
      /\ k.left = j.left /\ k.auto_continues = j.auto_continues /\ k.events = j.events
      /\ k.persisted = Len(j.events) /\ Fresh(j) \in Seq(Event)
      /\ Counts(j) => Len(Fresh(j)) = Len(j.events) - j.persisted
  <2> HIDE DEF j
  <2> QED
    BY <1>2, FlushedIs
<1>4. heap' = HeapWith(o, k) /\ log' = log \o Fresh(j)
  BY DEF Flush, SetJob, HeapWith
<1>5. /\ log' \in Seq(Event) /\ Len(log') \in Nat /\ Len(log') >= Len(log)
      /\ Counts(j) => Len(log') = Len(log) + (Len(j.events) - j.persisted)
  <2> HIDE DEF j
  <2>1. log' \in Seq(Event) /\ Len(log') = Len(log) + Len(Fresh(j)) /\ Len(Fresh(j)) \in Nat
    BY <1>2, <1>3, <1>4
  <2> QED
    BY <1>2, <1>3, <2>1
<1>6. RunnerMoves(t, "write", r.next, r.ending)
  BY ThreadEdits DEF Flush, IInv, Event
<1> HIDE DEF k
<1>7. HeapMoves(o) /\ heap'[o] = k
  BY <1>2, <1>3, <1>4 DEF HeapMoves, HeapWith
<1>8. UNCHANGED <<registry, request, sub, clicks, crashes, file, lost>>
  BY <1>1 DEF NotRequests
<1>9. k.left \in Nat /\ k.persisted \in Nat /\ Len(k.events) \in Nat
  BY <1>3 DEF JobRecord
<1>10. Moves(t)
  BY <1>2, <1>3, <1>5, <1>6, <1>7, <1>8, <1>9 DEF Moves, RunnerMoves, Counts
<1>11. ASSUME ThreadOk(r, j, file, lost), HoldOk(j, log)
       PROVE  Fits(t)
  <2>1. HoldOk(k, log')
    BY <1>2, <1>3, <1>5, <1>11 DEF HoldOk, Counts
  <2>2. ThreadOk(r2, k, file', lost')
    BY <1>1, <1>3, <1>6, <1>8, <1>11 DEF ThreadOk, Closed, Ends, Pending, RunnerMoves
  <2> QED
    BY <1>2, <1>3, <1>5, <1>6, <1>7, <1>8, <2>1, <2>2 DEF Fits, RunnerMoves
<1> QED
  BY <1>10, <1>11 DEF Works

\* The checkpoint itself, or its loss.
LEMMA WriteWorks ==
  ASSUME IInv, NEW t \in Runners, Write(t) \/ GiveUpWriting(t)
  PROVE  Works(t)
<1> DEFINE o == runner[t].obj  j == Job(t)  r == runner[t]  r2 == runner'[t]
<1>1. r.pc = "write" /\ Running(t) /\ NotRequests /\ UNCHANGED <<heap, log>> /\ AfterCheckpoint(t)
  BY DEF Write, GiveUpWriting, At, Running
<1>2. /\ runner \in [Runners -> ThreadRecord] /\ r \in ThreadRecord /\ heap \in [Objs -> JobRecord] /\ o \in Objs
      /\ j = heap[o] /\ j \in JobRecord /\ j.status # "free" /\ log \in Seq(Event) /\ file \in FileRecord /\ lost \in Nat
      /\ Len(log) \in Nat /\ Len(j.events) \in Nat /\ j.persisted \in Nat
  BY <1>1, ThreadHas
<1>3. /\ runner' \in [Runners -> ThreadRecord] /\ \A u \in Runners : u # t => runner'[u] = runner[u]
      /\ r2.pc = r.next /\ (r2.pc # "none" => r2.obj = o) /\ r.next \in {"none", "top", "enter", "returned"}
  BY <1>1, <1>2, AfterIs DEF ThreadRecord
<1>4. UNCHANGED <<registry, request, sub, clicks, crashes, heap, log>>
  BY <1>1 DEF NotRequests
<1>5. j.left \in Nat
  BY <1>2 DEF JobRecord
<1>6. \/ file' = OnDisk(j) /\ lost' = lost
      \/ file' = file /\ lost' = lost + 1
  BY DEF Write, GiveUpWriting
<1>7. OnDisk(j) \in FileRecord /\ OnDisk(j).status = j.status /\ OnDisk(j).seen = Len(j.events)
  <2> HIDE DEF j
  <2> QED
    BY <1>2 DEF OnDisk, FileRecord, JobRecord
<1>8. HeapMoves(o) /\ heap'[o] = j
  BY <1>2, <1>4 DEF HeapMoves
<1>9. file' \in FileRecord /\ lost' \in Nat /\ lost' >= lost
  BY <1>2, <1>6, <1>7
<1>10. Moves(t)
  BY <1>2, <1>3, <1>4, <1>5, <1>8, <1>9 DEF Moves
<1>11. ASSUME ThreadOk(r, j, file, lost), HoldOk(j, log)
       PROVE  Fits(t)
  <2>1. HoldOk(j, log')
    BY <1>4, <1>11 DEF HoldOk
  <2>2. \/ r.next \in {"top", "enter"} /\ j.status = "running"
        \/ r.next = "returned" /\ Closed(j)
        \/ r.next = "none" /\ j.status = "error" /\ Ends(j)
    BY <1>1, <1>11 DEF ThreadOk
  <2>3. j.persisted = Len(j.events) /\ (file.status = "done" => j.status = "done")
    BY <1>1, <1>11 DEF ThreadOk
  <2>4. /\ lost' = 0 => file'.status = j.status
        /\ file'.status = "done" => j.status = "done"
    BY <1>2, <1>6, <1>7, <2>3
  <2>5. IF r2.pc = "none" THEN RestOk(j, file', lost') ELSE ThreadOk(r2, j, file', lost')
    <3> HIDE DEF j
    <3> QED
      BY <1>3, <2>2, <2>4 DEF ThreadOk, RestOk, Final
  <2>6. \/ file' = file /\ Len(log') >= Len(log)
        \/ file'.seen <= Len(log')
    BY <1>2, <1>4, <1>6, <1>7, <1>11, <2>3 DEF HoldOk
  <2>7. r2.pc = "none" => j.status \in Final
    BY <1>3, <2>2 DEF Final
  <2> HIDE DEF j, o, r, r2
  <2> QED
    BY <1>6, <1>8, <1>9, <2>1, <2>5, <2>6, <2>7 DEF Fits, j, o, r2
<1> QED
  BY <1>10, <1>11 DEF Works

\* Another grant of what ran out: more rounds, or no stalls.
LEMMA GrantedIs ==
  ASSUME NEW j \in JobRecord
  PROVE  LET k == Granted(j)
         IN  /\ k \in JobRecord
             /\ k.status = j.status /\ k.cancelled = j.cancelled /\ k.events = j.events
             /\ k.persisted = j.persisted /\ k.auto_continues = j.auto_continues /\ k.left >= j.left
<1>1. j.left \in Nat /\ MAX_ROUNDS \in Nat /\ MAX_STALL_RECOVERIES \in Nat
  BY JobAssumption DEF JobRecord
<1>2. CASE j.reason = "max_rounds"
  <2> DEFINE k == [j EXCEPT !.left = @ + MAX_ROUNDS]
  <2>1. Granted(j) = k
    BY <1>2 DEF Granted
  <2>2. j.left + MAX_ROUNDS \in Nat /\ j.left + MAX_ROUNDS >= j.left
    BY <1>1
  <2>3. /\ k \in JobRecord /\ k.status = j.status /\ k.cancelled = j.cancelled /\ k.events = j.events
        /\ k.persisted = j.persisted /\ k.auto_continues = j.auto_continues /\ k.left = j.left + MAX_ROUNDS
    BY <2>2 DEF JobRecord
  <2> HIDE DEF k
  <2> QED
    BY <2>1, <2>2, <2>3
<1>3. CASE j.reason = "stall_exhausted"
  <2> DEFINE k == [j EXCEPT !.stalls = 0]
  <2>1. Granted(j) = k
    BY <1>3 DEF Granted
  <2>2. 0 \in 0 .. MAX_STALL_RECOVERIES
    BY <1>1
  <2>3. /\ k \in JobRecord /\ k.status = j.status /\ k.cancelled = j.cancelled /\ k.events = j.events
        /\ k.persisted = j.persisted /\ k.auto_continues = j.auto_continues /\ k.left = j.left
    BY <2>2 DEF JobRecord
  <2> HIDE DEF k
  <2> QED
    BY <1>1, <2>1, <2>3
<1>4. CASE j.reason \notin {"max_rounds", "stall_exhausted"}
  <2>1. Granted(j) = j
    BY <1>4 DEF Granted
  <2> QED
    BY <1>1, <2>1
<1> QED
  BY <1>2, <1>3, <1>4

\* A job whose budget ran out runs on, with another one.
LEMMA AutoWorks ==
  ASSUME IInv, NEW t \in Runners, AutoContinue(t)
  PROVE  Works(t)
<1> DEFINE o == runner[t].obj  j == Job(t)  r == runner[t]  r2 == runner'[t]  c == Counted(j)  g == Granted(c)
           m == [g EXCEPT !.status = "running"]  n == [m EXCEPT !.reason = None]  k == Emitted(n, "work")
<1>1. r.pc = "returned" /\ Running(t) /\ MayContinue(j) /\ NotTheDisk /\ NotRequests
  BY DEF AutoContinue, At, Running
<1>2. /\ runner \in [Runners -> ThreadRecord] /\ r \in ThreadRecord /\ heap \in [Objs -> JobRecord] /\ o \in Objs
      /\ j = heap[o] /\ j \in JobRecord /\ j.status # "free" /\ log \in Seq(Event) /\ file \in FileRecord /\ lost \in Nat
      /\ Len(log) \in Nat /\ Len(j.events) \in Nat /\ j.persisted \in Nat
  BY <1>1, ThreadHas
<1>3. /\ c \in JobRecord /\ c.cancelled = j.cancelled /\ c.events = j.events
      /\ c.persisted = j.persisted /\ c.left = j.left
  <2>1. j.auto_continues + 1 \in 0 .. AutoCap
    <3>1. j.auto_continues \in 0 .. AutoCap /\ AutoCap \in Nat
      BY <1>2, JobAssumption DEF JobRecord
    <3>2. j.auto_continues < AutoCap
      BY <1>1 DEF MayContinue
    <3> QED
      BY <3>1, <3>2
  <2> HIDE DEF j
  <2> QED
    BY <1>2, <2>1 DEF Counted, JobRecord
<1> HIDE DEF c
<1>4. /\ g \in JobRecord /\ g.cancelled = j.cancelled /\ g.events = j.events
      /\ g.persisted = j.persisted /\ g.left >= j.left
  BY <1>3, GrantedIs
<1> HIDE DEF g
<1>5. /\ m \in JobRecord /\ m.cancelled = j.cancelled /\ m.events = j.events
      /\ m.persisted = j.persisted /\ m.left >= j.left /\ m.status = "running"
  BY <1>4 DEF JobRecord, Status
<1> HIDE DEF m
<1>6. /\ n \in JobRecord /\ n.cancelled = j.cancelled /\ n.events = j.events
      /\ n.persisted = j.persisted /\ n.left >= j.left /\ n.status = "running"
  BY <1>5 DEF JobRecord, Reason
<1> HIDE DEF n
<1>7. /\ k \in JobRecord /\ k.cancelled = j.cancelled /\ Len(k.events) = Len(j.events) + 1
      /\ k.persisted = j.persisted /\ k.left >= j.left /\ k.status = "running"
  <2>1. "work" \in Event
    BY DEF Event
  <2> HIDE DEF j
  <2> QED
    BY <1>6, <2>1, EmittedIs
<1>8. heap' = HeapWith(o, k)
  BY DEF AutoContinue, SetJob, HeapWith, c, g, m, n
<1>9. RunnerMoves(t, "flush", "enter", r.ending)
  BY ThreadEdits DEF AutoContinue, IInv, Event
<1> HIDE DEF k
<1>10. HeapMoves(o) /\ heap'[o] = k
  BY <1>2, <1>7, <1>8 DEF HeapMoves, HeapWith
<1>11. UNCHANGED <<registry, request, sub, clicks, crashes, file, log, lost>>
  BY <1>1 DEF NotTheDisk, NotRequests
<1>12. k.left \in Nat /\ k.persisted \in Nat /\ Len(k.events) \in Nat /\ j.left \in Nat
  BY <1>2, <1>7 DEF JobRecord
<1>13. Moves(t)
  BY <1>2, <1>7, <1>9, <1>10, <1>11, <1>12 DEF Moves, RunnerMoves, Counts
<1>14. ASSUME ThreadOk(r, j, file, lost), HoldOk(j, log)
       PROVE  Fits(t)
  <2>1. HoldOk(k, log')
    BY <1>2, <1>7, <1>11, <1>12, <1>14 DEF HoldOk, Counts
  <2>2. j.status = "error" /\ file.status # "done"
    BY <1>1, <1>14 DEF ThreadOk, MayContinue
  <2>3. ThreadOk(r2, k, file', lost')
    BY <1>7, <1>9, <1>11, <2>2 DEF ThreadOk, RunnerMoves
  <2> QED
    BY <1>2, <1>7, <1>9, <1>10, <1>11, <2>1, <2>2, <2>3 DEF Fits, RunnerMoves
<1> QED
  BY <1>13, <1>14 DEF Works

\* The thread leaves a job that has ended for good.
LEMMA LeaveWorks ==
  ASSUME IInv, NEW t \in Runners, LeaveRun(t)
  PROVE  Works(t)
<1> DEFINE o == runner[t].obj  j == Job(t)  r == runner[t]  r2 == runner'[t]
<1>1. r.pc = "returned" /\ Running(t) /\ ~MayContinue(j) /\ NotTheDisk /\ NotRequests /\ heap' = heap
  BY DEF LeaveRun, At, Running
<1>2. /\ runner \in [Runners -> ThreadRecord] /\ r \in ThreadRecord /\ heap \in [Objs -> JobRecord] /\ o \in Objs
      /\ j = heap[o] /\ j \in JobRecord /\ j.status # "free" /\ log \in Seq(Event) /\ file \in FileRecord /\ lost \in Nat
      /\ Len(log) \in Nat /\ Len(j.events) \in Nat /\ j.persisted \in Nat
  BY <1>1, ThreadHas
<1>3. /\ runner' \in [Runners -> ThreadRecord] /\ \A u \in Runners : u # t => runner'[u] = runner[u]
      /\ r2.pc = "none"
  <2>1. NoRunner \in ThreadRecord /\ NoRunner.pc = "none"
    BY DEF NoRunner, ThreadRecord, Places
  <2>2. runner' = [runner EXCEPT ![t] = NoRunner]
    BY DEF LeaveRun
  <2> QED
    BY <1>2, <2>1, <2>2
<1>4. UNCHANGED <<registry, request, sub, clicks, crashes, file, log, lost, heap>>
  BY <1>1 DEF NotTheDisk, NotRequests
<1>5. HeapMoves(o) /\ heap'[o] = j /\ j.left \in Nat
  BY <1>2, <1>4 DEF HeapMoves, JobRecord
<1>6. Moves(t)
  BY <1>2, <1>3, <1>4, <1>5 DEF Moves
<1>7. ASSUME ThreadOk(r, j, file, lost), HoldOk(j, log)
      PROVE  Fits(t)
  <2>1. Closed(j) /\ (lost = 0 => file.status = j.status) /\ (file.status = "done" => j.status = "done")
    BY <1>1, <1>7 DEF ThreadOk
  <2>2. AutoCap = MAX_AUTO_CONTINUES => Ends(j)
    BY <1>1, <2>1 DEF Closed, Pending, MayContinue, Automatic
  <2>3. RestOk(j, file', lost') /\ HoldOk(j, log')
    BY <1>4, <1>7, <2>1, <2>2 DEF RestOk, Closed
  <2>4. j.status \in Final
    BY <2>1 DEF Closed
  <2> QED
    BY <1>2, <1>3, <1>4, <1>5, <2>3, <2>4 DEF Fits
<1> QED
  BY <1>6, <1>7 DEF Works

\* Every step of a thread keeps its job and itself together.
LEMMA StepWorks ==
  ASSUME IInv, NEW t \in Runners, Step(t)
  PROVE  Works(t) /\ Running(t)
<1>1. Running(t)
  BY DEF Step, BeginRound, CancelledAtTop, PlanEnds, OutOfRounds, NextRound, Stall, StallOnceMore, Raise,
         CancelledInStream, ToolCalls, Finish, RunTool, EmitEnding, Flush, Write, GiveUpWriting, AutoContinue,
         LeaveRun, EnterLoop, At, Running
<1>2. Works(t)
  BY BeginWorks, RoundWorks, CloseWorks, EmitWorks, FlushWorks, WriteWorks, AutoWorks, LeaveWorks DEF Step
<1> QED
  BY <1>1, <1>2

-----------------------------------------------------------------------------
(* The invariant, step by step.                                            *)

\* A thread's step keeps the state well formed,
LEMMA StepKeeps ==
  ASSUME IInv, NEW t \in Runners, Step(t)
  PROVE  IInv'
<1> DEFINE o == runner[t].obj
<1>1. Moves(t) /\ Running(t)
  BY StepWorks DEF Works
<1>2. /\ heap' \in [Objs -> JobRecord] /\ \A p \in Objs : p # o => heap'[p] = heap[p]
      /\ runner' \in [Runners -> ThreadRecord] /\ \A u \in Runners : u # t => runner'[u] = runner[u]
      /\ file' \in FileRecord /\ log' \in Seq(Event) /\ lost' \in Nat
      /\ UNCHANGED <<registry, request, sub, clicks, crashes>>
      /\ heap'[o].status # "free" /\ heap'[o].cancelled = heap[o].cancelled
      /\ Counts(heap[o]) => Counts(heap'[o])
      /\ runner'[t].pc # "none" => runner'[t].obj = o
      /\ runner'[t].pc = "ending" => runner'[t].ending \in Event
  BY <1>1 DEF Moves, HeapMoves
<1>3. o \in Objs /\ heap[o].status # "free"
  BY <1>1 DEF IInv, Kept
<1>4. Typed'
  BY <1>2 DEF IInv, Typed
<1>5. \A p \in Objs : /\ heap'[p].status = "free" => ~heap'[p].cancelled
                      /\ heap[p].status # "free" => heap'[p].status # "free"
                      /\ Counts(heap[p]) => Counts(heap'[p])
  BY <1>2, <1>3 DEF IInv, Kept
<1>6. ASSUME NEW u \in Runners, Running(u)'
      PROVE  /\ runner'[u].obj \in Objs /\ heap'[runner'[u].obj].status # "free"
             /\ runner'[u].pc = "ending" => runner'[u].ending \in Event
  <2>1. CASE u = t
    BY <1>2, <1>3, <1>6, <2>1 DEF Running
  <2>2. CASE u # t
    BY <1>2, <1>5, <1>6, <2>2 DEF Running, IInv, Kept
  <2> QED
    BY <2>1, <2>2
<1>7. registry' # None => heap'[registry'].status # "free" /\ Counts(heap'[registry'])
  BY <1>2, <1>5 DEF IInv, Typed, Kept
<1>8. ASSUME NEW h \in Requests, request'[h].pc # "idle"
      PROVE  /\ request'[h].obj \in Objs /\ heap'[request'[h].obj].status # "free"
             /\ request'[h].pc = "resume" => Counts(heap'[request'[h].obj])
  BY <1>2, <1>5, <1>8 DEF IInv, Kept
<1>9. Kept'
  BY <1>5, <1>6, <1>7, <1>8 DEF Kept, Counts
<1> QED
  BY <1>4, <1>9 DEF IInv

\* The thread that runs is the only one, its job is the registered one, and nobody
\* is about to act on it.
LEMMA AloneIs ==
  ASSUME AInv, NEW t \in Runners, Running(t)
  PROVE  /\ registry \in Objs /\ runner[t].obj = registry /\ Job(t) = heap[registry]
         /\ \A u \in Runners : Running(u) => u = t
         /\ ThreadOk(runner[t], Job(t), file, lost) /\ HoldOk(Job(t), log)
         /\ \A h \in Requests : request[h].pc \notin {"continue", "resume"}
<1>1. t \in Alive /\ \A u \in Runners : Running(u) => u \in Alive
  BY DEF Alive
<1>2. runner[t].obj = registry /\ runner[t].obj \in Objs /\ ThreadOk(runner[t], heap[registry], file, lost)
      /\ \A u \in Runners : Running(u) => u = t
  BY <1>1 DEF AInv, Alone, IInv, Kept
<1>3. registry # None
  BY <1>2, NoneIsNoObject
<1>4. \A h \in Requests : request[h].pc \notin {"continue", "resume"}
  BY <1>1, <1>3 DEF AInv, Alone, ContinueOk, ResumeOk
<1> QED
  BY <1>2, <1>3, <1>4 DEF AInv, Alone, Job

\* and when requests come one at a time it keeps it fitting its thread.
LEMMA StepFits ==
  ASSUME AInv, NEW t \in Runners, Step(t)
  PROVE  Alone' /\ Fits(t)
<1> DEFINE o == runner[t].obj  k == heap'[o]
<1>1. Works(t) /\ Running(t)
  BY StepWorks DEF AInv
<1>2. /\ registry \in Objs /\ o = registry /\ Job(t) = heap[registry]
      /\ \A u \in Runners : Running(u) => u = t
      /\ \A h \in Requests : request[h].pc \notin {"continue", "resume"}
  BY <1>1, AloneIs
<1>3. Fits(t) /\ Moves(t)
  BY <1>1, AloneIs DEF Works
<1>4. /\ \A u \in Runners : u # t => runner'[u] = runner[u]
      /\ UNCHANGED <<registry, request, clicks>>
      /\ runner'[t].pc # "none" => runner'[t].obj = o
  BY <1>3 DEF Moves
<1>5. /\ HoldOk(k, log') /\ lost' >= lost
      /\ IF runner'[t].pc = "none" THEN RestOk(k, file', lost') ELSE ThreadOk(runner'[t], k, file', lost')
      /\ \/ file' = file /\ Len(log') >= Len(log)
         \/ file'.seen <= Len(log')
  BY <1>3 DEF Fits
<1>6. \A u \in Runners : Running(u)' => u = t /\ runner'[t].pc # "none"
  BY <1>2, <1>4 DEF Running
<1>7. Alive' \subseteq {t} /\ (Alive' = {} => runner'[t].pc = "none") /\ (Alive' # {} => runner'[t].pc # "none")
  BY <1>6 DEF Alive, Running
<1>8. \A u, v \in Alive' : u = v
  BY <1>7
<1>9. \A u \in Alive' : runner'[u].obj = registry' /\ ThreadOk(runner'[u], heap'[registry'], file', lost')
  BY <1>2, <1>4, <1>5, <1>7
<1>10. registry' # None => HoldOk(heap'[registry'], log')
  BY <1>2, <1>4, <1>5
<1>11. registry' # None /\ Alive' = {} => RestOk(heap'[registry'], file', lost')
  BY <1>2, <1>4, <1>5, <1>7
<1>12. \A h \in Requests : request'[h].pc \notin {"continue", "resume"}
  BY <1>2, <1>4
<1>13. Covers(file', log', lost', clicks')
  <2>1. IInv' /\ Covers(file, log, lost, clicks)
    BY StepKeeps DEF AInv, Alone
  <2>2. lost \in Nat /\ lost' \in Nat /\ Len(log) \in Nat /\ Len(log') \in Nat /\ file \in FileRecord
    BY <2>1 DEF AInv, IInv, Typed
  <2>3. file.seen \in Nat
    BY <2>2 DEF FileRecord
  <2> QED
    BY <1>4, <1>5, <2>1, <2>2, <2>3 DEF Covers
<1> QED
  BY <1>3, <1>8, <1>9, <1>10, <1>11, <1>12, <1>13 DEF Alone

\* Cancelling sets a flag of the registered job, and nothing else.
LEMMA CancelKeeps ==
  ASSUME IInv, Cancel
  PROVE  /\ IInv' /\ (Alone => Alone')
         /\ registry \in Objs /\ heap' \in [Objs -> JobRecord]
         /\ \A p \in Objs : /\ heap'[p].status = heap[p].status /\ heap'[p].left = heap[p].left
                            /\ heap[p].cancelled => heap'[p].cancelled
                            /\ p # registry => heap'[p] = heap[p]
         /\ heap'[registry].cancelled
<1>1. /\ registry # None /\ heap' = [heap EXCEPT ![registry].cancelled = TRUE]
      /\ UNCHANGED <<registry, runner, request, sub, clicks, crashes, file, log, lost>>
  BY DEF Cancel, NotTheDisk
<1>2. registry \in Objs /\ heap \in [Objs -> JobRecord] /\ heap[registry].status # "free"
  BY <1>1 DEF IInv, Typed, Kept
<1>3. /\ heap' \in [Objs -> JobRecord] /\ heap'[registry].cancelled
      /\ \A p \in Objs : p # registry => heap'[p] = heap[p]
      /\ heap'[registry].status = heap[registry].status /\ heap'[registry].left = heap[registry].left
      /\ heap'[registry].events = heap[registry].events /\ heap'[registry].persisted = heap[registry].persisted
      /\ heap'[registry].reason = heap[registry].reason
      /\ heap'[registry].auto_continues = heap[registry].auto_continues
  BY <1>1, <1>2 DEF JobRecord
<1>4. \A p \in Objs : /\ heap'[p].status = heap[p].status /\ heap'[p].left = heap[p].left
                      /\ Counts(heap[p]) <=> Counts(heap'[p])
                      /\ heap[p].cancelled => heap'[p].cancelled
                      /\ p # registry => heap'[p] = heap[p]
  BY <1>2, <1>3 DEF Counts
<1>5. Typed'
  BY <1>1, <1>3 DEF IInv, Typed
<1>6. Kept'
  BY <1>1, <1>2, <1>4 DEF IInv, Typed, Kept, Running, Counts
<1>7. ASSUME Alone PROVE Alone'
  <2>1. Alive' = Alive
    BY <1>1 DEF Alive, Running
  <2>2. \A t \in Alive : ThreadOk(runner'[t], heap'[registry], file', lost')
    BY <1>1, <1>3, <1>7 DEF Alone, ThreadOk, Closed, Ends, Pending
  <2>3. HoldOk(heap'[registry], log')
    BY <1>1, <1>3, <1>7 DEF Alone, HoldOk, Counts
  <2>4. Alive = {} => RestOk(heap'[registry], file', lost')
    BY <1>1, <1>3, <1>7 DEF Alone, RestOk, Ends
  <2>5. ASSUME NEW h \in Requests PROVE (request[h].pc = "continue" => ContinueOk(h)') /\ request[h].pc # "resume"
    BY <1>1, <1>4, <1>7, <2>1 DEF Alone, ContinueOk, ResumeOk, IInv, Kept
  <2>6. Covers(file, log, lost, clicks)'
    BY <1>1, <1>7 DEF Alone, Covers
  <2>7. \A t \in Alive' : runner'[t].obj = registry' /\ ThreadOk(runner'[t], heap'[registry'], file', lost')
    BY <1>1, <1>7, <2>1, <2>2 DEF Alone
  <2> QED
    BY <1>1, <1>7, <2>1, <2>3, <2>4, <2>5, <2>6, <2>7 DEF Alone
<1> QED
  BY <1>2, <1>3, <1>4, <1>5, <1>6, <1>7 DEF IInv

\* What a job loaded from disk is.
LEMMA LoadedIs ==
  ASSUME Typed, NEW events \in Seq(Event)
  PROVE  LET k == FromDisk(events)
         IN  /\ k \in JobRecord /\ k.status = file.status /\ k.cancelled = file.cancelled
             /\ k.events = events /\ k.persisted = Len(log)
<1>1. file \in FileRecord /\ Len(log) \in Nat
  BY DEF Typed
<1> QED
  BY <1>1 DEF FromDisk, JobRecord, FileRecord

\* An object nobody uses is given to a request that loads the job.
Loads(h, pc, k) ==
  /\ Unused # {}
  /\ Become(h, pc, AnObject) /\ heap' = HeapWith(AnObject, k)
  /\ UNCHANGED <<registry, runner, sub, crashes, file, log, lost>>

\* A request that loads the checkpoint makes an object of it nobody else refers to.
LEMMA LoadsKeeps ==
  ASSUME IInv, NEW h \in Requests, request[h].pc = "idle", registry = None,
         NEW pc \in {"continue", "resume"}, NEW k \in JobRecord, Loads(h, pc, k),
         k.status # "free", pc = "resume" => Counts(k), clicks' \in Nat
  PROVE  /\ IInv' /\ AnObject \in Objs /\ heap[AnObject].status = "free"
         /\ heap'[AnObject] = k /\ \A p \in Objs : p # AnObject => heap'[p] = heap[p]
         /\ request' \in [Requests -> RequestRecord]
         /\ request'[h].pc = pc /\ request'[h].obj = AnObject /\ \A g \in Requests : g # h => request'[g] = request[g]
<1> DEFINE o == AnObject
<1>1. o \in Objs /\ heap[o].status = "free"
  <2>1. o \in Unused
    BY DEF Loads, AnObject
  <2> QED
    BY <2>1 DEF Unused
<1>2. /\ request' = [request EXCEPT ![h] = [pc |-> pc, obj |-> o]] /\ heap' = [heap EXCEPT ![o] = k]
      /\ UNCHANGED <<registry, runner, sub, crashes, file, log, lost>>
  BY DEF Loads, Become, HeapWith
<1> HIDE DEF o
<1>3. /\ request' \in [Requests -> RequestRecord] /\ request'[h].pc = pc /\ request'[h].obj = o
      /\ \A g \in Requests : g # h => request'[g] = request[g]
  <2> DEFINE q == [pc |-> pc, obj |-> o]
  <2>1. q \in RequestRecord /\ q.pc = pc /\ q.obj = o
    BY <1>1 DEF RequestRecord
  <2>2. request' = [request EXCEPT ![h] = q] /\ request \in [Requests -> RequestRecord]
    BY <1>2 DEF IInv, Typed
  <2> HIDE DEF q
  <2> QED
    BY <2>1, <2>2
<1>4. heap' \in [Objs -> JobRecord] /\ heap'[o] = k /\ \A p \in Objs : p # o => heap'[p] = heap[p]
  BY <1>1, <1>2 DEF IInv, Typed
<1>5. Typed'
  BY <1>2, <1>3, <1>4 DEF IInv, Typed
<1>6. Kept'
  <2>1. \A p \in Objs : heap'[p].status = "free" => ~heap'[p].cancelled
    BY <1>4 DEF IInv, Kept
  <2>2. registry' = None
    BY <1>2
  <2>3. \A t \in Runners : Running(t)' =>
           /\ runner'[t].obj \in Objs /\ heap'[runner'[t].obj].status # "free"
           /\ runner'[t].pc = "ending" => runner'[t].ending \in Event
    BY <1>1, <1>2, <1>4 DEF IInv, Kept, Running
  <2>4. ASSUME NEW g \in Requests, request'[g].pc # "idle"
        PROVE  /\ request'[g].obj \in Objs /\ heap'[request'[g].obj].status # "free"
               /\ request'[g].pc = "resume" => Counts(heap'[request'[g].obj])
    <3>1. CASE g = h
      BY <1>1, <1>3, <1>4, <3>1
    <3>2. CASE g # h
      <4>1. /\ request'[g] = request[g] /\ request[g].obj \in Objs /\ heap[request[g].obj].status # "free"
            /\ request[g].pc = "resume" => Counts(heap[request[g].obj])
        BY <1>3, <2>4, <3>2 DEF IInv, Kept
      <4>2. request[g].obj # o
        BY <1>1, <4>1
      <4> QED
        BY <1>4, <4>1, <4>2
    <3> QED
      BY <3>1, <3>2
  <2> QED
    BY <2>1, <2>2, <2>3, <2>4 DEF Kept, Counts
<1> QED
  BY <1>1, <1>3, <1>4, <1>5, <1>6 DEF IInv, o

\* A Continue is taken for a job that ended with an error, once its thread is gone.
LEMMA ContinueReadsKeeps ==
  ASSUME IInv, NEW h \in Requests, ContinueReads(h)
  PROVE  IInv' /\ (OneAtATime /\ Alone => Alone')
<1>1. /\ request[h].pc = "idle" /\ clicks' = clicks + 1 /\ (ClicksMayOverlap \/ Alive = {})
      /\ UNCHANGED <<registry, runner, sub, crashes, file, log, lost>>
  BY DEF ContinueReads, NotTheDisk
<1>2. clicks \in Nat /\ clicks' \in Nat /\ clicks' # 0 /\ registry \in Objs \cup {None}
  BY <1>1 DEF IInv, Typed
<1>3. CASE registry # None /\ Continuable(heap[registry]) /\ Become(h, "continue", registry) /\ UNCHANGED heap
  <2> DEFINE q == [pc |-> "continue", obj |-> registry]
  <2>1. request' = [request EXCEPT ![h] = q] /\ request \in [Requests -> RequestRecord] /\ q \in RequestRecord
    BY <1>2, <1>3 DEF Become, IInv, Typed, RequestRecord
  <2>2. /\ request' \in [Requests -> RequestRecord] /\ request'[h] = q
        /\ \A g \in Requests : g # h => request'[g] = request[g]
    BY <2>1
  <2>3. registry \in Objs /\ heap[registry].status = "error" /\ heap[registry].status # "free"
    BY <1>2, <1>3 DEF Continuable
  <2>4. Typed'
    BY <1>1, <1>2, <1>3, <2>2 DEF IInv, Typed
  <2>5. Kept'
    BY <1>1, <1>3, <2>2, <2>3 DEF IInv, Kept, Running, Counts
  <2>6. ASSUME OneAtATime, Alone PROVE Alone'
    <3>1. Alive = {} /\ Alive' = Alive /\ \A g \in Requests : g = h
      BY <1>1, <2>6 DEF OneAtATime, Alive, Running
    <3>2. ASSUME NEW g \in Requests
          PROVE  (request[g].pc = "continue" => ContinueOk(g))' /\ request'[g].pc # "resume"
      <4>1. request'[g].pc = "continue" /\ request'[g].obj = registry
        BY <2>2, <3>1
      <4>2. Alive' = {} /\ clicks' # 0 /\ heap'[registry].status = "error" /\ registry' = registry
        BY <1>1, <1>2, <1>3, <2>3, <3>1
      <4> QED
        BY <4>1, <4>2 DEF ContinueOk
    <3>3. Covers(file, log, lost, clicks)'
      BY <1>1, <1>2, <2>6 DEF Alone, Covers
    <3> QED
      BY <1>1, <1>3, <2>6, <3>1, <3>2, <3>3 DEF Alone
  <2> QED
    BY <2>4, <2>5, <2>6 DEF IInv
<1>4. CASE /\ registry = None /\ Continuable(file) /\ Unused # {}
           /\ Become(h, "continue", AnObject) /\ heap' = [heap EXCEPT ![AnObject] = FromDisk(<<>>)]
  <2> DEFINE k == FromDisk(<<>>)
  <2>1. Loads(h, "continue", k)
    BY <1>1, <1>4 DEF Loads, HeapWith
  <2>2. k \in JobRecord /\ k.status = file.status /\ k.status = "error"
    <3>1. <<>> \in Seq(Event) /\ Typed
      BY DEF IInv
    <3> QED
      BY <1>4, <3>1, LoadedIs DEF Continuable
  <2> HIDE DEF k
  <2>3. /\ IInv' /\ heap'[AnObject] = k
        /\ request'[h].pc = "continue" /\ request'[h].obj = AnObject
    BY <1>1, <1>2, <1>4, <2>1, <2>2, LoadsKeeps
  <2>4. ASSUME OneAtATime, Alone PROVE Alone'
    <3>1. Alive = {} /\ Alive' = Alive /\ \A g \in Requests : g = h
      BY <1>1, <2>4 DEF OneAtATime, Alive, Running
    <3>2. ASSUME NEW g \in Requests
          PROVE  (request[g].pc = "continue" => ContinueOk(g))' /\ request'[g].pc # "resume"
      BY <1>1, <1>2, <1>4, <2>2, <2>3, <3>1 DEF ContinueOk
    <3>3. Covers(file, log, lost, clicks)'
      BY <1>1, <1>2, <2>4 DEF Alone, Covers
    <3> QED
      BY <1>1, <1>4, <2>4, <3>1, <3>2, <3>3 DEF Alone
  <2> QED
    BY <2>3, <2>4
<1> QED
  BY <1>3, <1>4 DEF ContinueReads

\* The last event of the log a subscriber of a finished job reads ends the job.
LEMMA ReplayedIs ==
  ASSUME Typed
  PROVE  /\ Replayed \in Seq(Event) /\ Len(Replayed) \in Nat /\ Len(Replayed) >= Len(log)
         /\ Replayed # <<>> /\ Last(Replayed) \in Final
<1> DEFINE e == IF file.status = "done" THEN "done" ELSE "error"
<1>1. log \in Seq(Event) /\ Len(log) \in Nat /\ e \in Event /\ e \in Final
  BY DEF Typed, Event, Final
<1>2. CASE log # <<>> /\ Last(log) \in Final
  BY <1>1, <1>2 DEF Replayed
<1>3. CASE ~(log # <<>> /\ Last(log) \in Final)
  <2>1. Replayed = Append(log, e)
    BY <1>3 DEF Replayed
  <2> HIDE DEF e
  <2>2. /\ Append(log, e) \in Seq(Event) /\ Len(Append(log, e)) = Len(log) + 1
        /\ Append(log, e) # <<>> /\ Last(Append(log, e)) = e
    BY <1>1 DEF Last
  <2> QED
    BY <1>1, <2>1, <2>2
<1> QED
  BY <1>2, <1>3

\* A resume finds no job in the registry and takes what the disk has.
LEMMA ResumeReadsKeeps ==
  ASSUME IInv, NEW h \in Requests, ResumeReads(h)
  PROVE  IInv' /\ (OneAtATime /\ Alone => Alone')
<1> DEFINE events == IF file.status \in Final THEN Replayed ELSE log  k == FromDisk(events)
<1>1. /\ request[h].pc = "idle" /\ registry = None /\ file.status # "free" /\ clicks' = clicks
      /\ UNCHANGED <<registry, runner, sub, crashes, file, log, lost>>
  BY DEF ResumeReads, NotTheDisk, MustLoad
<1>2. Loads(h, "resume", k)
  BY <1>1 DEF ResumeReads, Loads, HeapWith
<1>3. /\ events \in Seq(Event) /\ Len(events) >= Len(log) /\ Len(events) \in Nat
      /\ file.status \in Final => events # <<>> /\ Last(events) \in Final
  <2>1. Typed /\ log \in Seq(Event) /\ Len(log) \in Nat
    BY DEF IInv, Typed
  <2> QED
    BY <2>1, ReplayedIs
<1> HIDE DEF events
<1>4. /\ k \in JobRecord /\ k.status = file.status /\ k.cancelled = file.cancelled
      /\ k.events = events /\ k.persisted = Len(log) /\ Counts(k)
  BY <1>3, LoadedIs DEF IInv, Counts
<1> HIDE DEF k
<1>5. /\ IInv' /\ heap'[AnObject] = k
      /\ request'[h].pc = "resume" /\ request'[h].obj = AnObject
  <2>1. clicks' \in Nat
    BY <1>1 DEF IInv, Typed
  <2> QED
    BY <1>1, <1>2, <1>4, <2>1, LoadsKeeps
<1>6. ASSUME OneAtATime, Alone PROVE Alone'
  <2>1. Alive' = Alive /\ \A g \in Requests : g = h
    BY <1>1, <1>6 DEF OneAtATime, Alive, Running
  <2>2. Alive = {}
    BY <1>1, <1>6, NoneIsNoObject DEF Alone, IInv, Kept, Alive
  <2>3. Len(log) <= Len(log')
    BY <1>1 DEF IInv, Typed
  <2>4. ASSUME NEW g \in Requests
        PROVE  request'[g].pc # "continue" /\ (request[g].pc = "resume" => ResumeOk(g))'
    BY <1>1, <1>3, <1>4, <1>5, <2>1, <2>3 DEF ResumeOk, Ends
  <2>5. Covers(file, log, lost, clicks)'
    BY <1>1, <1>6 DEF Alone, Covers
  <2> QED
    BY <1>1, <1>6, <2>1, <2>2, <2>4, <2>5 DEF Alone
<1> QED
  BY <1>5, <1>6

\* A thread is started on a job.
Starts(t, o) ==
  /\ runner' \in [Runners -> ThreadRecord] /\ \A u \in Runners : u # t => runner'[u] = runner[u]
  /\ ~Running(t) /\ runner'[t].pc = "enter" /\ runner'[t].obj = o

\* Starting a runner takes an idle thread and gives it the job's object.
LEMMA StartIs ==
  ASSUME Typed, NEW o \in Objs, StartRunner(o)
  PROVE  \E t \in Runners : Starts(t, o)
<1> DEFINE t == CHOOSE t \in Runners : ~Running(t)
           m == [NoRunner EXCEPT !.pc = "enter"]  r == [m EXCEPT !.obj = o]
<1>1. t \in Runners /\ ~Running(t)
  <2>1. \E u \in Runners : ~Running(u)
    BY DEF StartRunner, Alive
  <2> QED
    BY <2>1
<1>2. runner' = [runner EXCEPT ![t] = r]
  BY DEF StartRunner
<1> HIDE DEF t
<1>3. m \in ThreadRecord /\ m.pc = "enter"
  BY DEF NoRunner, ThreadRecord, Places
<1> HIDE DEF m
<1>4. r \in ThreadRecord /\ r.pc = "enter" /\ r.obj = o
  BY <1>3 DEF ThreadRecord
<1> HIDE DEF r
<1>5. runner \in [Runners -> ThreadRecord]
  BY DEF Typed
<1>6. runner' \in [Runners -> ThreadRecord] /\ runner'[t] = r /\ \A u \in Runners : u # t => runner'[u] = runner[u]
  BY <1>1, <1>2, <1>4, <1>5
<1> QED
  BY <1>1, <1>4, <1>6 DEF Starts

\* When the only request has acted there is one thread, and it runs the job that is
\* registered now.
LEMMA StartedAlone ==
  ASSUME OneAtATime, Alone, NEW h \in Requests, NEW t \in Runners, NEW o \in Objs, Starts(t, o), Alive = {},
         registry' = o, heap'[o].status = "running", HoldOk(heap'[o], log'), file' = file, file.status # "done",
         request'[h].pc = "idle", Covers(file', log', lost', clicks')
  PROVE  Alone'
<1>1. \A g \in Requests : g = h
  BY DEF OneAtATime
<1>2. \A u \in Runners : Running(u)' => u = t
  BY DEF Starts, Alive, Running
<1>3. Running(t)'
  BY DEF Starts, Running
<1>4. Alive' = {t}
  BY <1>2, <1>3 DEF Alive
<1>5. ThreadOk(runner'[t], heap'[o], file', lost')
  BY DEF Starts, ThreadOk
<1>6. runner'[t].obj = o
  BY DEF Starts
<1>7. \A g \in Requests : request'[g].pc = "idle"
  BY <1>1
<1> QED
  BY <1>4, <1>5, <1>6, <1>7 DEF Alone

\* An answered request is idle.
LEMMA AnsweredIs ==
  ASSUME Typed, NEW h \in Requests, request' = [request EXCEPT ![h] = NoRequest]
  PROVE  /\ request' \in [Requests -> RequestRecord] /\ request'[h].pc = "idle"
         /\ \A g \in Requests : g # h => request'[g] = request[g]
<1>1. NoRequest \in RequestRecord /\ NoRequest.pc = "idle"
  BY DEF NoRequest, RequestRecord
<1> QED
  BY <1>1 DEF Typed

\* A Continue gives the job a fresh budget and an empty log, and starts a thread.
LEMMA ContinueActsKeeps ==
  ASSUME IInv, NEW h \in Requests, ContinueActs(h)
  PROVE  /\ IInv' /\ (OneAtATime /\ Alone => Alone')
         /\ request[h].obj \in Objs /\ registry' = request[h].obj
         /\ heap'[request[h].obj].status = "running" /\ ~heap'[request[h].obj].cancelled
         /\ \A p \in Objs : p # request[h].obj => heap'[p] = heap[p]
         /\ \E t \in Runners : Starts(t, request[h].obj)
<1> DEFINE o == request[h].obj  j == heap[o]
           g == IF j.reason = "plan" THEN [j EXCEPT !.left = @ + MAX_ROUNDS] ELSE Granted(j)
           g1 == [g EXCEPT !.status = "running"]  g2 == [g1 EXCEPT !.reason = None]
           g3 == [g2 EXCEPT !.auto_continues = 0]  g4 == [g3 EXCEPT !.cancelled = FALSE]
           g5 == [g4 EXCEPT !.events = <<>>]  k == [g5 EXCEPT !.persisted = 0]
<1>1. /\ request[h].pc = "continue" /\ registry' = o /\ StartRunner(o) /\ log' = <<>>
      /\ request' = [request EXCEPT ![h] = NoRequest]
      /\ UNCHANGED <<file, sub, clicks, crashes, lost>>
  BY DEF ContinueActs, Register
<1>2. heap' = HeapWith(o, k)
  BY DEF ContinueActs, HeapWith
<1>3. o \in Objs /\ heap \in [Objs -> JobRecord] /\ j \in JobRecord /\ j.status # "free"
  BY <1>1 DEF IInv, Typed, Kept
<1>4. g \in JobRecord
  <2> HIDE DEF j
  <2>1. CASE j.reason = "plan"
    <3>1. j.left \in Nat /\ MAX_ROUNDS \in Nat
      BY <1>3, JobAssumption DEF JobRecord
    <3>2. j.left + MAX_ROUNDS \in Nat
      BY <3>1
    <3> QED
      BY <1>3, <2>1, <3>2 DEF JobRecord
  <2>2. CASE j.reason # "plan"
    BY <1>3, <2>2, GrantedIs
  <2> QED
    BY <2>1, <2>2
<1> HIDE DEF g
<1>5. g1 \in JobRecord /\ g1.status = "running"
  BY <1>4 DEF JobRecord, Status
<1> HIDE DEF g1
<1>6. g2 \in JobRecord /\ g2.status = "running"
  BY <1>5 DEF JobRecord, Reason
<1> HIDE DEF g2
<1>7. g3 \in JobRecord /\ g3.status = "running"
  <2>1. 0 \in 0 .. AutoCap
    BY JobAssumption
  <2> QED
    BY <1>6, <2>1 DEF JobRecord
<1> HIDE DEF g3
<1>8. g4 \in JobRecord /\ g4.status = "running" /\ ~g4.cancelled
  BY <1>7 DEF JobRecord
<1> HIDE DEF g4
<1>9. g5 \in JobRecord /\ g5.status = "running" /\ ~g5.cancelled /\ g5.events = <<>>
  <2>1. <<>> \in Seq(Event)
    OBVIOUS
  <2> QED
    BY <1>8, <2>1 DEF JobRecord
<1> HIDE DEF g5
<1>10. k \in JobRecord /\ k.status = "running" /\ ~k.cancelled /\ k.events = <<>> /\ k.persisted = 0
  BY <1>9 DEF JobRecord
<1> HIDE DEF k
<1>11. heap' \in [Objs -> JobRecord] /\ heap'[o] = k /\ \A p \in Objs : p # o => heap'[p] = heap[p]
  BY <1>2, <1>3, <1>10 DEF HeapWith
<1>12. PICK t \in Runners : Starts(t, o)
  BY <1>1, <1>3, StartIs DEF IInv
<1>13. /\ runner' \in [Runners -> ThreadRecord] /\ \A u \in Runners : u # t => runner'[u] = runner[u]
       /\ runner'[t].pc = "enter" /\ runner'[t].obj = o
  BY <1>12 DEF Starts
<1>14. /\ request' \in [Requests -> RequestRecord] /\ request'[h].pc = "idle"
       /\ \A q \in Requests : q # h => request'[q] = request[q]
  BY <1>1, AnsweredIs DEF IInv
<1>15. log' \in Seq(Event) /\ Len(log') = 0 /\ Counts(k) /\ HoldOk(k, log')
  BY <1>1, <1>10 DEF Counts, HoldOk
<1>16. Typed'
  BY <1>1, <1>3, <1>11, <1>13, <1>14, <1>15 DEF IInv, Typed
<1>17. Kept'
  <2>1. \A p \in Objs : /\ heap'[p].status = "free" => ~heap'[p].cancelled
                        /\ heap[p].status # "free" => heap'[p].status # "free"
                        /\ Counts(heap[p]) => Counts(heap'[p])
    BY <1>10, <1>11, <1>15 DEF IInv, Kept
  <2>2. \A u \in Runners : Running(u)' =>
          /\ runner'[u].obj \in Objs /\ heap'[runner'[u].obj].status # "free"
          /\ runner'[u].pc = "ending" => runner'[u].ending \in Event
    BY <1>3, <1>10, <1>11, <1>13, <2>1 DEF IInv, Kept, Running
  <2>3. heap'[registry'].status # "free" /\ Counts(heap'[registry'])
    BY <1>1, <1>10, <1>11, <1>15
  <2>4. \A q \in Requests : request'[q].pc # "idle" =>
          /\ request'[q].obj \in Objs /\ heap'[request'[q].obj].status # "free"
          /\ request'[q].pc = "resume" => Counts(heap'[request'[q].obj])
    BY <1>14, <2>1 DEF IInv, Kept
  <2> QED
    BY <2>1, <2>2, <2>3, <2>4 DEF Kept, Counts
<1>18. ASSUME OneAtATime, Alone PROVE Alone'
  <2>1. ContinueOk(h)
    BY <1>1, <1>18 DEF Alone
  <2>2. Alive = {} /\ clicks # 0
    BY <2>1 DEF ContinueOk
  <2>3. file.status # "done" /\ (lost = 0 => file.status = "error")
    <3>1. CASE registry = None
      BY <1>3, <2>1, <3>1, NoneIsNoObject DEF ContinueOk
    <3>2. CASE registry # None
      <4>1. RestOk(heap[registry], file, lost) /\ heap[registry].status = "error"
        BY <1>18, <2>1, <2>2, <3>2 DEF Alone, ContinueOk
      <4> QED
        BY <4>1 DEF RestOk
    <3> QED
      BY <3>1, <3>2
  <2>4. Covers(file', log', lost', clicks')
    BY <1>1, <2>2, <2>3 DEF Covers
  <2>5. HoldOk(heap'[o], log') /\ heap'[o].status = "running"
    BY <1>10, <1>11, <1>15
  <2> QED
    BY <1>1, <1>3, <1>12, <1>14, <1>18, <2>2, <2>3, <2>4, <2>5, StartedAlone
<1> QED
  BY <1>1, <1>3, <1>10, <1>11, <1>12, <1>16, <1>17, <1>18 DEF IInv

\* A resume registers the job it loaded, and starts a thread if it had not ended.
LEMMA ResumeActsKeeps ==
  ASSUME IInv, NEW h \in Requests, ResumeActs(h)
  PROVE  /\ IInv' /\ (OneAtATime /\ Alone => Alone')
         /\ request[h].obj \in Objs /\ registry' = request[h].obj
         /\ \A p \in Objs : p # request[h].obj => heap'[p] = heap[p]
         /\ heap'[request[h].obj].cancelled = heap[request[h].obj].cancelled
         /\ heap'[request[h].obj].left = heap[request[h].obj].left
         /\ IF Restartable(heap[request[h].obj])
            THEN heap'[request[h].obj].status = "running" /\ \E t \in Runners : Starts(t, request[h].obj)
            ELSE heap' = heap /\ runner' = runner
<1> DEFINE o == request[h].obj  j == heap[o]  k == [j EXCEPT !.status = "running"]
<1>1. /\ request[h].pc = "resume" /\ registry' = o
      /\ request' = [request EXCEPT ![h] = NoRequest]
      /\ UNCHANGED <<file, log, clicks, crashes, lost>>
      /\ sub' = IF sub = NoSub THEN [obj |-> o, index |-> 0] ELSE sub
  BY DEF ResumeActs, Register, NotTheDisk
<1>2. /\ o \in Objs /\ heap \in [Objs -> JobRecord] /\ j \in JobRecord /\ j.status # "free" /\ Counts(j)
      /\ j.left \in Nat
  BY <1>1 DEF IInv, Typed, Kept, JobRecord
<1>3. /\ request' \in [Requests -> RequestRecord] /\ request'[h].pc = "idle"
      /\ \A q \in Requests : q # h => request'[q] = request[q]
  BY <1>1, AnsweredIs DEF IInv
<1>4. sub' \in [obj : Objs \cup {None}, index : Nat]
  BY <1>1, <1>2 DEF IInv, Typed
<1>5. CASE Restartable(j)
  <2>1. heap' = HeapWith(o, k) /\ StartRunner(o)
    BY <1>5 DEF ResumeActs, HeapWith
  <2>2. /\ k \in JobRecord /\ k.status = "running" /\ k.cancelled = j.cancelled /\ k.left = j.left
        /\ k.events = j.events /\ k.persisted = j.persisted
    <3> HIDE DEF j
    <3> QED
      BY <1>2 DEF JobRecord, Status
  <2> HIDE DEF k
  <2>3. heap' \in [Objs -> JobRecord] /\ heap'[o] = k /\ \A p \in Objs : p # o => heap'[p] = heap[p]
    BY <1>2, <2>1, <2>2 DEF HeapWith
  <2>4. PICK t \in Runners : Starts(t, o)
    BY <1>2, <2>1, StartIs DEF IInv
  <2>5. /\ runner' \in [Runners -> ThreadRecord] /\ \A u \in Runners : u # t => runner'[u] = runner[u]
        /\ runner'[t].pc = "enter" /\ runner'[t].obj = o
    BY <2>4 DEF Starts
  <2>6. Typed'
    BY <1>1, <1>2, <1>3, <1>4, <2>3, <2>5 DEF IInv, Typed
  <2>7. Counts(k)
    BY <1>2, <2>2 DEF Counts
  <2>8. Kept'
    <3>1. \A p \in Objs : /\ heap'[p].status = "free" => ~heap'[p].cancelled
                          /\ heap[p].status # "free" => heap'[p].status # "free"
                          /\ Counts(heap[p]) => Counts(heap'[p])
      BY <2>2, <2>3, <2>7 DEF IInv, Kept
    <3>2. \A u \in Runners : Running(u)' =>
            /\ runner'[u].obj \in Objs /\ heap'[runner'[u].obj].status # "free"
            /\ runner'[u].pc = "ending" => runner'[u].ending \in Event
      BY <1>2, <2>2, <2>3, <2>5, <3>1 DEF IInv, Kept, Running
    <3>3. heap'[registry'].status # "free" /\ Counts(heap'[registry'])
      BY <1>1, <2>2, <2>3, <2>7
    <3>4. \A q \in Requests : request'[q].pc # "idle" =>
            /\ request'[q].obj \in Objs /\ heap'[request'[q].obj].status # "free"
            /\ request'[q].pc = "resume" => Counts(heap'[request'[q].obj])
      BY <1>3, <3>1 DEF IInv, Kept
    <3> QED
      BY <3>1, <3>2, <3>3, <3>4 DEF Kept, Counts
  <2>9. ASSUME OneAtATime, Alone PROVE Alone'
    <3>1. ResumeOk(h)
      BY <1>1, <2>9 DEF Alone
    <3>2. Alive = {}
      BY <2>9, <3>1, NoneIsNoObject DEF Alone, IInv, Kept, Alive, ResumeOk
    <3>3. file.status # "done"
      BY <1>5, <3>1 DEF Restartable, ResumeOk, Final
    <3>4. HoldOk(heap'[o], log') /\ heap'[o].status = "running"
      BY <1>1, <2>2, <2>3, <2>7, <3>1 DEF HoldOk, ResumeOk
    <3>5. Covers(file', log', lost', clicks')
      BY <1>1, <2>9 DEF Alone, Covers
    <3> QED
      BY <1>1, <1>2, <1>3, <2>4, <2>9, <3>2, <3>3, <3>4, <3>5, StartedAlone
  <2> QED
    BY <1>1, <1>2, <1>5, <2>2, <2>3, <2>4, <2>6, <2>8, <2>9 DEF IInv
<1>6. CASE ~Restartable(j)
  <2>1. heap' = heap /\ runner' = runner
    BY <1>6 DEF ResumeActs
  <2>2. Typed'
    BY <1>1, <1>2, <1>3, <1>4, <2>1 DEF IInv, Typed
  <2>3. Kept'
    BY <1>1, <1>2, <1>3, <2>1 DEF IInv, Kept, Running, Counts
  <2>4. ASSUME OneAtATime, Alone PROVE Alone'
    <3>1. ResumeOk(h)
      BY <1>1, <2>4 DEF Alone
    <3>2. Alive = {} /\ Alive' = Alive
      BY <2>1, <2>4, <3>1, NoneIsNoObject DEF Alone, IInv, Kept, Alive, ResumeOk, Running
    <3>3. RestOk(heap'[o], file', lost')
      BY <1>1, <1>6, <2>1, <3>1 DEF RestOk, ResumeOk, Restartable, Ends
    <3>4. HoldOk(heap'[o], log')
      BY <1>1, <1>2, <2>1, <3>1 DEF HoldOk, ResumeOk
    <3>5. Covers(file', log', lost', clicks')
      BY <1>1, <2>4 DEF Alone, Covers
    <3>6. \A q \in Requests : request'[q].pc = "idle"
      BY <1>3, <2>4 DEF OneAtATime
    <3> QED
      BY <1>1, <3>2, <3>3, <3>4, <3>5, <3>6 DEF Alone
  <2> QED
    BY <1>1, <1>2, <1>6, <2>1, <2>2, <2>3, <2>4 DEF IInv
<1> QED
  BY <1>5, <1>6

\* A crash leaves the files and nothing else.
LEMMA CrashKeeps ==
  ASSUME IInv, Crash
  PROVE  /\ IInv' /\ (Alone => Alone') /\ Alive' = {} /\ registry' = None
         /\ \A o \in Objs : heap'[o] = Free
         /\ file'.cancelled = file.cancelled
         /\ file'.status = IF file.status = "running" THEN "interrupted" ELSE file.status
<1>1. /\ heap' = [o \in Objs |-> Free] /\ registry' = None
      /\ runner' = [t \in Runners |-> NoRunner] /\ request' = [h \in Requests |-> NoRequest]
      /\ sub' = NoSub /\ crashes' = crashes + 1 /\ UNCHANGED <<log, clicks, lost>>
      /\ file' = IF file.status = "running" THEN [file EXCEPT !.status = "interrupted"] ELSE file
  BY DEF Crash
<1>2. Free \in JobRecord /\ Free.status = "free" /\ ~Free.cancelled
  <2> DEFINE n == MAX_ROUNDS - 1
  <2>1. n \in Nat /\ 0 \in 0 .. AutoCap /\ 0 \in 0 .. MAX_STALL_RECOVERIES /\ <<>> \in Seq(Event)
    BY JobAssumption
  <2> HIDE DEF n
  <2>2. NewJob = [ status |-> "running", reason |-> None, left |-> n, auto_continues |-> 0,
                   stalls |-> 0, cancelled |-> FALSE, events |-> <<>>, persisted |-> 0 ]
    BY DEF NewJob, n
  <2> QED
    BY <2>1, <2>2 DEF Free, JobRecord, Status, Reason
<1>3. NoRunner \in ThreadRecord /\ NoRunner.pc = "none"
  BY DEF NoRunner, ThreadRecord, Places
<1>4. NoRequest \in RequestRecord /\ NoRequest.pc = "idle"
  BY DEF NoRequest, RequestRecord
<1>5. NoSub \in [obj : Objs \cup {None}, index : Nat]
  BY DEF NoSub
<1>6. /\ file' \in FileRecord /\ file'.seen = file.seen /\ file'.cancelled = file.cancelled
      /\ file'.status = IF file.status = "running" THEN "interrupted" ELSE file.status
  BY <1>1 DEF IInv, Typed, FileRecord, Status
<1>7. /\ \A o \in Objs : heap'[o] = Free
      /\ \A t \in Runners : runner'[t] = NoRunner
      /\ \A h \in Requests : request'[h] = NoRequest
  BY <1>1
<1>8. Typed'
  BY <1>1, <1>2, <1>3, <1>4, <1>5, <1>6 DEF IInv, Typed
<1>9. Kept'
  BY <1>1, <1>2, <1>3, <1>4, <1>7 DEF Kept, Running
<1>10. Alive' = {}
  BY <1>3, <1>7 DEF Alive, Running
<1>11. ASSUME Alone PROVE Alone'
  <2>1. Covers(file', log', lost', clicks')
    BY <1>1, <1>6, <1>11 DEF Alone, Covers
  <2> QED
    BY <1>1, <1>4, <1>7, <1>10, <2>1 DEF Alone
<1> QED
  BY <1>1, <1>6, <1>7, <1>8, <1>9, <1>10, <1>11 DEF IInv

\* A subscriber and its stream change only its place in the events.
LEMMA ReadingKeeps ==
  ASSUME IInv, Subscribe \/ StreamStep
  PROVE  IInv' /\ (Alone => Alone') /\ UNCHANGED <<heap, registry, runner, file>>
<1>1. UNCHANGED <<heap, registry, runner, request, clicks, crashes, file, log, lost>>
  BY DEF Subscribe, StreamStep, StreamEvent, StreamLeaves, NotTheDisk
<1>2. sub' \in [obj : Objs \cup {None}, index : Nat]
  <2>1. sub \in [obj : Objs \cup {None}, index : Nat] /\ registry \in Objs \cup {None}
    BY DEF IInv, Typed
  <2>2. NoSub \in [obj : Objs \cup {None}, index : Nat]
    BY DEF NoSub
  <2>3. [obj |-> registry, index |-> 0] \in [obj : Objs \cup {None}, index : Nat]
    BY <2>1
  <2>4. [sub EXCEPT !.index = @ + 1] \in [obj : Objs \cup {None}, index : Nat]
    BY <2>1
  <2> QED
    BY <2>2, <2>3, <2>4 DEF Subscribe, StreamStep, StreamEvent, StreamLeaves
<1>3. Typed'
  BY <1>1, <1>2 DEF IInv, Typed
<1>4. Kept'
  BY <1>1 DEF IInv, Kept, Running, Counts
<1>5. Alone => Alone'
  <2>1. Alive' = Alive
    BY <1>1 DEF Alive, Running
  <2>2. \A h \in Requests : ContinueOk(h)' <=> ContinueOk(h)
    BY <1>1, <2>1 DEF ContinueOk
  <2>3. \A h \in Requests : ResumeOk(h)' <=> ResumeOk(h)
    BY <1>1 DEF ResumeOk, Counts, Ends
  <2> QED
    BY <1>1, <2>1, <2>2, <2>3 DEF Alone
<1> QED
  BY <1>1, <1>3, <1>4, <1>5 DEF IInv

\* Nothing happens.
LEMMA StutterKeeps ==
  ASSUME IInv, UNCHANGED vars
  PROVE  IInv' /\ (Alone => Alone')
<1>1. UNCHANGED <<heap, registry, runner, file, log, request, sub, clicks, crashes, lost>>
  BY DEF vars
<1>2. Typed'
  BY <1>1 DEF IInv, Typed
<1>3. Kept'
  BY <1>1 DEF IInv, Kept, Running, Counts
<1>4. Alone => Alone'
  <2>1. Alive' = Alive
    BY <1>1 DEF Alive, Running
  <2>2. \A h \in Requests : ContinueOk(h)' <=> ContinueOk(h)
    BY <1>1, <2>1 DEF ContinueOk
  <2>3. \A h \in Requests : ResumeOk(h)' <=> ResumeOk(h)
    BY <1>1 DEF ResumeOk, Counts, Ends
  <2> QED
    BY <1>1, <2>1, <2>2, <2>3 DEF Alone
<1> QED
  BY <1>2, <1>3, <1>4 DEF IInv

\* The first thread is about to write the first checkpoint of the first job.
LEMMA InitHolds ==
  ASSUME Init
  PROVE  AInv
<1> DEFINE o == CHOOSE x \in Objs : TRUE  t == CHOOSE x \in Runners : TRUE  n == MAX_ROUNDS - 1
           r == [NoRunner EXCEPT !.pc = "flush", !.obj = o, !.next = "top", !.left = MAX_ROUNDS]
<1>1. o \in Objs /\ t \in Runners
  BY JobAssumption
<1>2. /\ heap = [x \in Objs |-> IF x = o THEN NewJob ELSE Free] /\ registry = o
      /\ runner = [x \in Runners |-> IF x = t THEN r ELSE NoRunner]
      /\ file = NoFile /\ log = <<>> /\ request = [h \in Requests |-> NoRequest] /\ sub = NoSub
      /\ clicks = 0 /\ crashes = 0 /\ lost = 0
  BY DEF Init
<1> HIDE DEF o, t
<1>3. n \in Nat /\ MAX_ROUNDS \in Nat /\ 0 \in 0 .. AutoCap /\ 0 \in 0 .. MAX_STALL_RECOVERIES /\ <<>> \in Seq(Event)
  BY JobAssumption
<1> HIDE DEF n
<1>4. NewJob = [ status |-> "running", reason |-> None, left |-> n, auto_continues |-> 0,
                 stalls |-> 0, cancelled |-> FALSE, events |-> <<>>, persisted |-> 0 ]
  BY DEF NewJob, n
<1>5. NewJob \in JobRecord /\ NewJob.status = "running" /\ NewJob.events = <<>> /\ NewJob.persisted = 0
      /\ ~NewJob.cancelled
  BY <1>3, <1>4 DEF JobRecord, Status, Reason
<1>6. Free \in JobRecord /\ Free.status = "free" /\ ~Free.cancelled
  BY <1>3, <1>4 DEF Free, JobRecord, Status, Reason
<1>7. NoFile \in FileRecord /\ NoFile.status = "free"
  <2>1. OnDisk(Free) \in FileRecord
    BY <1>6 DEF OnDisk, FileRecord, JobRecord
  <2> QED
    BY <2>1 DEF NoFile, FileRecord, Status
<1>8. NoRunner \in ThreadRecord /\ NoRunner.pc = "none"
  BY DEF NoRunner, ThreadRecord, Places
<1>9. r \in ThreadRecord /\ r.pc = "flush" /\ r.obj = o /\ r.next = "top"
  BY <1>1, <1>3 DEF NoRunner, ThreadRecord, Places
<1> HIDE DEF r
<1>10. NoRequest \in RequestRecord /\ NoRequest.pc = "idle"
  BY DEF NoRequest, RequestRecord
<1>11. NoSub \in [obj : Objs \cup {None}, index : Nat]
  BY DEF NoSub
<1>12. Typed
  BY <1>1, <1>2, <1>3, <1>5, <1>6, <1>7, <1>8, <1>9, <1>10, <1>11 DEF Typed
<1>13. heap[o] = NewJob /\ Counts(NewJob)
  BY <1>1, <1>2, <1>5 DEF Counts
<1>14. /\ \A x \in Objs : heap[x] = NewJob \/ heap[x] = Free
       /\ \A u \in Runners : runner[u] = IF u = t THEN r ELSE NoRunner
       /\ \A h \in Requests : request[h] = NoRequest
  BY <1>2
<1>15. Kept
  BY <1>1, <1>2, <1>5, <1>6, <1>8, <1>9, <1>10, <1>13, <1>14 DEF Kept, Running
<1>16. Alive = {t}
  BY <1>1, <1>8, <1>9, <1>14 DEF Alive, Running
<1>17. ThreadOk(runner[t], heap[o], file, lost) /\ HoldOk(heap[o], log)
  BY <1>1, <1>2, <1>3, <1>5, <1>7, <1>9, <1>13, <1>14 DEF ThreadOk, HoldOk
<1>18. Alone
  BY <1>1, <1>2, <1>7, <1>9, <1>10, <1>14, <1>16, <1>17 DEF Alone, Covers
<1> QED
  BY <1>12, <1>15, <1>18 DEF AInv, IInv

\* What holds whatever overlaps: every step keeps the state well formed.
LEMMA NextKeeps ==
  ASSUME IInv, [Next]_vars
  PROVE  IInv' /\ (OneAtATime /\ Alone => Alone')
<1>1. CASE \E t \in Runners : Step(t)
  <2>1. PICK t \in Runners : Step(t)
    BY <1>1
  <2>2. IInv'
    BY <2>1, StepKeeps
  <2>3. Alone => Alone'
    BY <2>1, StepFits DEF AInv
  <2> QED
    BY <2>2, <2>3
<1>2. CASE \E h \in Requests : Handle(h)
  <2>1. PICK h \in Requests : Handle(h)
    BY <1>2
  <2> QED
    BY <2>1, ContinueReadsKeeps, ResumeReadsKeeps, ContinueActsKeeps, ResumeActsKeeps DEF Handle, Acts
<1>3. CASE StreamStep \/ Subscribe
  BY <1>3, ReadingKeeps
<1>4. CASE Cancel
  BY <1>4, CancelKeeps
<1>5. CASE Crash
  BY <1>5, CrashKeeps
<1>6. CASE UNCHANGED vars
  BY <1>6, StutterKeeps
<1> QED
  BY <1>1, <1>2, <1>3, <1>4, <1>5, <1>6 DEF Next

-----------------------------------------------------------------------------
(* What follows for every execution.                                       *)

\* The state stays well formed: whatever requests overlap, whatever is lost or dies.
THEOREM Invariance == Spec => []IInv
<1>1. Init => IInv
  BY InitHolds DEF AInv
<1>2. IInv /\ [Next]_vars => IInv'
  BY NextKeeps
<1> QED
  BY <1>1, <1>2, PTL DEF Spec

\* Every count of a job stays within its bounds - automatic continuations never exceed
\* the job's cap, stalls theirs, and no more is flushed than was emitted - and a thread
\* never works on an object nobody created (_run, _flush_events).
THEOREM TypesKept == Spec => []TypeOK
<1>1. ASSUME IInv PROVE TypeOK
  <2>1. \A o \in Objs : heap[o] \in JobRecord
    BY <1>1 DEF IInv, Typed
  <2>2. \A o \in Objs :
          /\ heap[o].status \in Status /\ heap[o].reason \in Reason
          /\ heap[o].left \in Nat /\ heap[o].events \in Seq(Event)
          /\ heap[o].auto_continues \in 0 .. AutoCap
          /\ heap[o].stalls \in 0 .. MAX_STALL_RECOVERIES
          /\ heap[o].persisted \in Nat
    BY <2>1 DEF JobRecord
  <2>3. \A o \in Objs : o = registry => heap[o].persisted <= Len(heap[o].events)
    BY <1>1, NoneIsNoObject DEF IInv, Kept, Counts
  <2>4. \A t \in Alive : heap[runner[t].obj].status # "free"
    BY <1>1 DEF IInv, Kept, Alive
  <2>5. registry \in Objs \cup {None} /\ log \in Seq(Event) /\ file.status \in Status /\ sub.obj \in Objs \cup {None}
    BY <1>1 DEF IInv, Typed, FileRecord
  <2> QED
    BY <2>2, <2>3, <2>4, <2>5 DEF TypeOK
<1> QED
  BY <1>1, Invariance, PTL

\* No step takes a round from a cancelled job, or gives one back its flag by chance.
LEMMA RoundsStop ==
  ASSUME IInv, [Next]_vars, NEW o \in Objs, heap[o].cancelled, heap'[o].cancelled
  PROVE  heap'[o].left >= heap[o].left
<1>1. heap[o] \in JobRecord /\ heap[o].left \in Nat /\ heap[o].status # "free"
  BY DEF IInv, Typed, Kept, JobRecord
<1>2. CASE heap'[o] = heap[o]
  BY <1>1, <1>2
<1>3. CASE \E t \in Runners : Step(t)
  <2>1. PICK t \in Runners : Step(t)
    BY <1>3
  <2>2. Moves(t)
    BY <2>1, StepWorks DEF Works
  <2>3. CASE o = runner[t].obj
    BY <2>2, <2>3 DEF Moves
  <2>4. CASE o # runner[t].obj
    BY <1>2, <2>2, <2>4 DEF Moves, HeapMoves
  <2> QED
    BY <2>3, <2>4
<1>4. CASE \E h \in Requests : ContinueReads(h) \/ ResumeReads(h)
  <2>1. \/ heap' = heap
        \/ /\ Unused # {}
           /\ \E events : heap' = HeapWith(AnObject, FromDisk(events))
    BY <1>4 DEF ContinueReads, ResumeReads, HeapWith
  <2>2. CASE heap' = heap
    BY <1>2, <2>2
  <2>3. CASE Unused # {} /\ \E events : heap' = HeapWith(AnObject, FromDisk(events))
    <3>1. AnObject \in Unused
      BY <2>3 DEF AnObject
    <3>2. AnObject # o
      BY <1>1, <3>1 DEF Unused
    <3>3. heap \in [Objs -> JobRecord]
      BY DEF IInv, Typed
    <3> QED
      BY <1>2, <2>3, <3>2, <3>3 DEF HeapWith
  <2> QED
    BY <2>1, <2>2, <2>3
<1>5. CASE \E h \in Requests : ContinueActs(h)
  <2>1. PICK h \in Requests : ContinueActs(h)
    BY <1>5
  <2>2. /\ ~heap'[request[h].obj].cancelled
        /\ \A p \in Objs : p # request[h].obj => heap'[p] = heap[p]
    BY <2>1, ContinueActsKeeps
  <2> QED
    BY <1>2, <2>2
<1>6. CASE \E h \in Requests : ResumeActs(h)
  <2>1. PICK h \in Requests : ResumeActs(h)
    BY <1>6
  <2>2. /\ heap'[request[h].obj].left = heap[request[h].obj].left
        /\ \A p \in Objs : p # request[h].obj => heap'[p] = heap[p]
    BY <2>1, ResumeActsKeeps
  <2> QED
    BY <1>1, <1>2, <2>2
<1>7. CASE StreamStep \/ Subscribe
  BY <1>2, <1>7, ReadingKeeps
<1>8. CASE Cancel
  BY <1>1, <1>8, CancelKeeps
<1>9. CASE Crash
  <2>1. heap'[o] = Free
    BY <1>9, CrashKeeps
  <2>2. ~Free.cancelled
    BY DEF Free, NewJob
  <2> QED
    BY <2>1, <2>2
<1>10. CASE UNCHANGED vars
  BY <1>2, <1>10 DEF vars
<1> QED
  BY <1>3, <1>4, <1>5, <1>6, <1>7, <1>8, <1>9, <1>10 DEF Next, Handle, Acts

\* A cancelled job begins no further round until it is continued, whatever overlaps:
\* neither an automatic continuation nor a restart makes its round advance (cancel).
THEOREM RoundsEnd == Spec => CancelStopsRounds
<1>1. IInv /\ [Next]_vars =>
        [\A o \in Objs : heap[o].cancelled /\ heap'[o].cancelled => heap'[o].left >= heap[o].left]_vars
  BY RoundsStop
<1> QED
  BY <1>1, Invariance, PTL DEF Spec, CancelStopsRounds

\* When requests come one at a time and Continue waits, a thread, its job and the file fit.
THEOREM Fitting == OneAtATime => (Spec => []AInv)
<1> SUFFICES ASSUME OneAtATime PROVE Spec => []AInv
  OBVIOUS
<1>1. Init => AInv
  BY InitHolds
<1>2. AInv /\ [Next]_vars => AInv'
  BY NextKeeps DEF AInv
<1> QED
  BY <1>1, <1>2, PTL DEF Spec

\* Then one thread runs the job, and it works on the object that cancel() reaches.
THEOREM OneRunner == OneAtATime => (Spec => []OneRegisteredRunner)
<1>1. ASSUME AInv PROVE OneRegisteredRunner
  <2>1. Cardinality(Alive) <= 1
    <3>1. CASE Alive = {}
      BY <3>1, FS_EmptySet
    <3>2. CASE Alive # {}
      <4>1. PICK t \in Alive : TRUE
        BY <3>2
      <4>2. Alive = {t}
        BY <1>1, <4>1 DEF AInv, Alone
      <4>3. Cardinality({t}) = 1
        BY FS_Singleton
      <4> QED
        BY <4>2, <4>3
    <3> QED
      BY <3>1, <3>2
  <2>2. \A t \in Alive : runner[t].obj = registry
    BY <1>1 DEF AInv, Alone
  <2> QED
    BY <2>1, <2>2 DEF OneRegisteredRunner, AtMostOneRunner, RunnerIsRegistered
<1> SUFFICES ASSUME OneAtATime PROVE Spec => []OneRegisteredRunner
  OBVIOUS
<1>2. Spec => []AInv
  BY Fitting
<1> QED
  BY <1>1, <1>2, PTL

\* The log on disk covers the checkpoint, whatever write or crash comes between, and for
\* a job of a build - whose cap of continuations is the one the tail of _loop asks -
\* what a subscriber reads ends with the event that ended the job.
THEOREM LogTells ==
  OneAtATime => /\ Spec => []LogCoversCheckpoint
                /\ AutoCap = MAX_AUTO_CONTINUES => (Spec => []LogTellsTheRun)
<1>1. AInv => LogCoversCheckpoint
  BY DEF AInv, Alone, Covers, LogCoversCheckpoint
<1>2. ASSUME AutoCap = MAX_AUTO_CONTINUES PROVE AInv => LogTellsTheRun
  BY <1>1, <1>2 DEF AInv, Alone, RestOk, Ends, RestHasItsEnding, LogTellsTheRun
<1> SUFFICES ASSUME OneAtATime
             PROVE  /\ Spec => []LogCoversCheckpoint
                    /\ AutoCap = MAX_AUTO_CONTINUES => (Spec => []LogTellsTheRun)
  OBVIOUS
<1>3. Spec => []AInv
  BY Fitting
<1>4. Spec => []LogCoversCheckpoint
  BY <1>1, <1>3, PTL
<1>5. ASSUME AutoCap = MAX_AUTO_CONTINUES PROVE Spec => []LogTellsTheRun
  <2>1. AInv => LogTellsTheRun
    BY <1>2, <1>5
  <2> QED
    BY <1>3, <2>1, PTL
<1> QED
  BY <1>4, <1>5

\* A job that is done stays done on disk.
THEOREM DoneStays == OneAtATime => (Spec => DoneIsFinal)
<1>1. ASSUME AInv, [Next]_vars, file.status = "done" PROVE file'.status = "done"
  <2>1. CASE \E t \in Runners : Step(t)
    <3>1. PICK t \in Runners : Step(t)
      BY <2>1
    <3>2. Fits(t) /\ Moves(t) /\ Running(t)
      BY <1>1, <3>1, StepFits, StepWorks DEF AInv, Works
    <3>3. Job(t).status = "done" /\ Job(t).status # "free"
      BY <1>1, <3>2, AloneIs DEF ThreadOk
    <3>4. file' = file \/ file' = OnDisk(Job(t))
      BY <3>2 DEF Fits
    <3> QED
      BY <1>1, <3>3, <3>4 DEF OnDisk
  <2>2. CASE \E h \in Requests : Handle(h)
    BY <1>1, <2>2 DEF Handle, Acts, ContinueReads, ContinueActs, ResumeReads, ResumeActs, NotTheDisk
  <2>3. CASE StreamStep \/ Subscribe \/ Cancel
    BY <1>1, <2>3 DEF StreamStep, StreamEvent, StreamLeaves, Subscribe, Cancel, NotTheDisk
  <2>4. CASE Crash
    BY <1>1, <2>4 DEF Crash
  <2>5. CASE UNCHANGED vars
    BY <1>1, <2>5 DEF vars
  <2> QED
    BY <1>1, <2>1, <2>2, <2>3, <2>4, <2>5 DEF Next
<1>2. AInv /\ [Next]_vars => [file.status = "done" => file'.status = "done"]_vars
  BY <1>1
<1> SUFFICES ASSUME OneAtATime PROVE Spec => DoneIsFinal
  OBVIOUS
<1>3. Spec => []AInv
  BY Fitting
<1> QED
  BY <1>2, <1>3, PTL DEF Spec, DoneIsFinal

-----------------------------------------------------------------------------
(* JobManager implements JobContract.                                      *)

\* Records of the contract's fields.
Shown == [ status : Status \cup {"none"}, alive : BOOLEAN, cancelled : BOOLEAN,
           disk : Status \cup {"none"}, diskCancelled : BOOLEAN ]

SameDisk(j, k) == k.disk = j.disk /\ (k.diskCancelled <=> j.diskCancelled)

\* Two of them that agree in every field are the same
LEMMA ShownIs ==
  ASSUME NEW j \in Shown, NEW k \in Shown, k.status = j.status, k.alive <=> j.alive,
         k.cancelled <=> j.cancelled, SameDisk(j, k)
  PROVE  k = j
BY DEF Shown, SameDisk

\* What the steps of the contract come to, field by field.
LEMMA ContractSteps ==
  ASSUME NEW j \in Shown, NEW k \in Shown
  PROVE  /\ /\ j.alive /\ j.status = "running" /\ k.status \in Final /\ k.alive
            /\ (k.cancelled <=> j.cancelled) /\ SameDisk(j, k)
            => k \in Contract!Ended(j)
         /\ /\ j.alive /\ j.status = "error" /\ k.status = "running" /\ k.alive
            /\ (k.cancelled <=> j.cancelled) /\ SameDisk(j, k)
            => k \in Contract!Recovered(j)
         /\ /\ j.alive /\ j.status \in Final /\ k.status = j.status /\ ~k.alive
            /\ (k.cancelled <=> j.cancelled) /\ SameDisk(j, k)
            => k \in Contract!Left(j)
         /\ /\ j.alive /\ k.status = j.status /\ k.alive /\ (k.cancelled <=> j.cancelled)
            /\ k.disk = j.status /\ (k.diskCancelled <=> j.cancelled)
            => k \in Contract!Saved(j)
         /\ /\ j.status # "none" /\ k.status = j.status /\ (k.alive <=> j.alive) /\ k.cancelled /\ SameDisk(j, k)
            => k \in Contract!Cancelled(j)
         /\ /\ ~j.alive /\ (j.status = "error" \/ (j.status = "none" /\ j.disk = "error"))
            /\ k.status = "running" /\ k.alive /\ ~k.cancelled /\ SameDisk(j, k)
            => k \in Contract!Continued(j)
         /\ /\ j.status = "none" /\ j.disk # "none" /\ (k.cancelled <=> j.diskCancelled) /\ SameDisk(j, k)
            /\ IF j.disk \in Final THEN k.status = j.disk /\ (k.alive <=> j.alive)
                                   ELSE k.status = "running" /\ k.alive
            => k \in Contract!Resumed(j)
         /\ /\ k.status = "none" /\ ~k.alive /\ ~k.cancelled /\ (k.diskCancelled <=> j.diskCancelled)
            /\ k.disk = IF j.disk = "running" THEN "interrupted" ELSE j.disk
            => k = Contract!Died(j)
<1>1. ASSUME j.alive, j.status = "running", k.status \in Final, k.alive,
             k.cancelled <=> j.cancelled, SameDisk(j, k)
      PROVE  k \in Contract!Ended(j)
  <2>1. [j EXCEPT !.status = k.status] \in Shown
    BY DEF Shown
  <2>2. k = [j EXCEPT !.status = k.status]
    BY <1>1, <2>1 DEF Shown, SameDisk
  <2> QED
    BY <1>1, <2>2 DEF Contract!Ended, Contract!Stopped, Final
<1>2. ASSUME j.alive, j.status = "error", k.status = "running", k.alive,
             k.cancelled <=> j.cancelled, SameDisk(j, k)
      PROVE  k \in Contract!Recovered(j)
  <2>1. [j EXCEPT !.status = "running"] \in Shown
    BY DEF Shown, Status
  <2>2. k = [j EXCEPT !.status = "running"]
    BY <1>2, <2>1 DEF Shown, SameDisk
  <2> QED
    BY <1>2, <2>2 DEF Contract!Recovered
<1>3. ASSUME j.alive, j.status \in Final, k.status = j.status, ~k.alive,
             k.cancelled <=> j.cancelled, SameDisk(j, k)
      PROVE  k \in Contract!Left(j)
  <2>1. [j EXCEPT !.alive = FALSE] \in Shown
    BY DEF Shown
  <2>2. k = [j EXCEPT !.alive = FALSE]
    BY <1>3, <2>1 DEF Shown, SameDisk
  <2> QED
    BY <1>3, <2>2 DEF Contract!Left, Contract!Stopped, Final
<1>4. ASSUME j.alive, k.status = j.status, k.alive, k.cancelled <=> j.cancelled,
             k.disk = j.status, k.diskCancelled <=> j.cancelled
      PROVE  k \in Contract!Saved(j)
  <2> DEFINE m == [j EXCEPT !.disk = j.status]  n == [m EXCEPT !.diskCancelled = j.cancelled]
  <2>1. m \in Shown /\ m.disk = j.status /\ m.status = j.status /\ (m.alive <=> j.alive) /\ (m.cancelled <=> j.cancelled)
    BY DEF Shown
  <2>2. [j EXCEPT !.disk = j.status, !.diskCancelled = j.cancelled] = n
    OBVIOUS
  <2> HIDE DEF m
  <2>3. n \in Shown
    BY <2>1 DEF Shown
  <2>4. k = n
    BY <1>4, <2>1, <2>3 DEF Shown
  <2> HIDE DEF n
  <2> QED
    BY <1>4, <2>2, <2>4 DEF Contract!Saved
<1>5. ASSUME j.status # "none", k.status = j.status, k.alive <=> j.alive, k.cancelled, SameDisk(j, k)
      PROVE  k \in Contract!Cancelled(j)
  <2>1. [j EXCEPT !.cancelled = TRUE] \in Shown
    BY DEF Shown
  <2>2. k = [j EXCEPT !.cancelled = TRUE]
    BY <1>5, <2>1 DEF Shown, SameDisk
  <2> QED
    BY <1>5, <2>2 DEF Contract!Cancelled
<1>6. ASSUME ~j.alive, j.status = "error" \/ (j.status = "none" /\ j.disk = "error"),
             k.status = "running", k.alive, ~k.cancelled, SameDisk(j, k)
      PROVE  k \in Contract!Continued(j)
  <2> DEFINE n == [j EXCEPT !.status = "running", !.alive = TRUE, !.cancelled = FALSE]
  <2>1. n \in Shown
    BY DEF Shown, Status
  <2>2. k = n
    BY <1>6, <2>1 DEF Shown, SameDisk
  <2> QED
    BY <1>6, <2>2 DEF Contract!Continued
<1>7. ASSUME j.status = "none", j.disk # "none", k.cancelled <=> j.diskCancelled, SameDisk(j, k),
             IF j.disk \in Final THEN k.status = j.disk /\ (k.alive <=> j.alive)
                                 ELSE k.status = "running" /\ k.alive
      PROVE  k \in Contract!Resumed(j)
  <2>1. CASE j.disk \in Final
    <3> DEFINE n == [j EXCEPT !.status = j.disk, !.cancelled = j.diskCancelled]
    <3>1. n \in Shown
      BY DEF Shown, Status
    <3>2. k = n
      BY <1>7, <2>1, <3>1 DEF Shown, SameDisk
    <3> QED
      BY <1>7, <2>1, <3>2 DEF Contract!Resumed, Contract!Stopped, Final
  <2>2. CASE j.disk \notin Final
    <3> DEFINE n == [j EXCEPT !.status = "running", !.alive = TRUE, !.cancelled = j.diskCancelled]
    <3>1. n \in Shown
      BY DEF Shown, Status
    <3>2. k = n
      BY <1>7, <2>2, <3>1 DEF Shown, SameDisk
    <3> QED
      BY <1>7, <2>2, <3>2 DEF Contract!Resumed, Contract!Stopped, Final
  <2> QED
    BY <2>1, <2>2
<1>8. ASSUME k.status = "none", ~k.alive, ~k.cancelled, k.diskCancelled <=> j.diskCancelled,
             k.disk = IF j.disk = "running" THEN "interrupted" ELSE j.disk
      PROVE  k = Contract!Died(j)
  <2> DEFINE n == [j EXCEPT !.status = "none", !.alive = FALSE, !.cancelled = FALSE,
                            !.disk = IF @ = "running" THEN "interrupted" ELSE @]
  <2>1. n \in Shown
    BY DEF Shown, Status
  <2>2. k = n
    BY <1>8, <2>1 DEF Shown
  <2> QED
    BY <2>2 DEF Contract!Died
<1> QED
  BY <1>1, <1>2, <1>3, <1>4, <1>5, <1>6, <1>7, <1>8

\* A job that raised is saved and left in one step.
LEMMA SavedAndLeftIs ==
  ASSUME NEW j \in Shown, NEW k \in Shown, j.alive, j.status \in Final, k.status = j.status, ~k.alive,
         k.cancelled <=> j.cancelled, k.disk = j.status, k.diskCancelled <=> j.cancelled
  PROVE  k \in Contract!SavedAndLeft(j)
<1> DEFINE m == [k EXCEPT !.alive = TRUE]
<1>1. /\ m \in Shown /\ m.alive /\ m.status = k.status /\ (m.cancelled <=> k.cancelled)
      /\ SameDisk(k, m) /\ SameDisk(m, k)
  BY DEF Shown, SameDisk
<1> HIDE DEF m
<1>2. m.disk = j.status /\ (m.diskCancelled <=> j.cancelled) /\ (m.cancelled <=> j.cancelled) /\ m.status = j.status
  BY <1>1 DEF SameDisk
<1>3. m \in Contract!Saved(j)
  BY <1>1, <1>2, ContractSteps
<1>4. k \in Contract!Left(m)
  BY <1>1, <1>2, ContractSteps
<1> QED
  BY <1>3, <1>4 DEF Contract!SavedAndLeft

\* What the rest of the backend sees of a well-formed state.
LEMMA AsJobIs ==
  ASSUME IInv
  PROVE  /\ AsJob \in Shown
         /\ AsJob.status = IF registry = None THEN "none" ELSE heap[registry].status
         /\ AsJob.alive <=> Alive # {}
         /\ AsJob.cancelled <=> (registry # None /\ heap[registry].cancelled)
         /\ AsJob.disk = IF file.status = "free" THEN "none" ELSE file.status
         /\ AsJob.diskCancelled <=> file.cancelled
<1>1. registry # None => heap[registry].status \in Status /\ heap[registry].cancelled \in BOOLEAN
  BY DEF IInv, Typed, JobRecord
<1>2. file.status \in Status /\ file.cancelled \in BOOLEAN
  BY DEF IInv, Typed, FileRecord
<1> QED
  BY <1>1, <1>2 DEF AsJob, Shown

\* and of the state after a step.
LEMMA AsJobIsThen ==
  ASSUME IInv'
  PROVE  /\ AsJob' \in Shown
         /\ AsJob'.status = IF registry' = None THEN "none" ELSE heap'[registry'].status
         /\ AsJob'.alive <=> Alive' # {}
         /\ AsJob'.cancelled <=> (registry' # None /\ heap'[registry'].cancelled)
         /\ AsJob'.disk = IF file'.status = "free" THEN "none" ELSE file'.status
         /\ AsJob'.diskCancelled <=> file'.cancelled
<1>1. registry' # None => heap'[registry'].status \in Status /\ heap'[registry'].cancelled \in BOOLEAN
  BY DEF IInv, Typed, JobRecord
<1>2. file'.status \in Status /\ file'.cancelled \in BOOLEAN
  BY DEF IInv, Typed, FileRecord
<1> QED
  BY <1>1, <1>2 DEF AsJob, Shown

\* A step that changes neither the registered status and flag, nor whether a thread lives,
\* nor the file, is not seen.
LEMMA Unseen ==
  ASSUME IInv, IInv', file' = file, registry' = registry, Alive' = {} <=> Alive = {},
         registry # None => /\ heap'[registry].status = heap[registry].status
                            /\ heap'[registry].cancelled <=> heap[registry].cancelled
  PROVE  AsJob' = AsJob
BY AsJobIs, AsJobIsThen, ShownIs DEF SameDisk


\* A thread's steps are the contract's Ended, Recovered, Left, Saved and SavedAndLeft,
LEMMA StepMaps ==
  ASSUME AInv, NEW t \in Runners, Step(t)
  PROVE  [Contract!Next]_AsJob
<1> DEFINE j == Job(t)  k == heap'[registry]  r == runner'[t]
<1>1. IInv /\ IInv' /\ Works(t) /\ Running(t) /\ Fits(t) /\ Moves(t)
  BY StepWorks, StepKeeps, StepFits DEF AInv, Works
<1>2. /\ registry \in Objs /\ registry # None /\ runner[t].obj = registry /\ j = heap[registry]
      /\ \A u \in Runners : Running(u) => u = t
  BY <1>1, AloneIs, NoneIsNoObject
<1>3. /\ UNCHANGED registry /\ \A u \in Runners : u # t => runner'[u] = runner[u]
      /\ k.cancelled = j.cancelled
  BY <1>1, <1>2 DEF Moves
<1>4. Alive # {} /\ (Alive' # {} <=> r.pc # "none")
  <2>1. t \in Alive
    BY <1>1 DEF Alive
  <2>2. \A u \in Runners : Running(u)' => u = t
    BY <1>2, <1>3 DEF Running
  <2>3. Running(t)' <=> r.pc # "none"
    BY DEF Running
  <2> QED
    BY <2>1, <2>2, <2>3 DEF Alive
<1>5. j.status # "free"
  BY <1>1, <1>2 DEF IInv, Kept
<1>6. /\ AsJob \in Shown /\ AsJob.status = j.status /\ AsJob.alive /\ (AsJob.cancelled <=> j.cancelled)
      /\ AsJob' \in Shown /\ AsJob'.status = k.status /\ (AsJob'.alive <=> r.pc # "none")
      /\ AsJob'.cancelled <=> AsJob.cancelled
  BY <1>1, <1>2, <1>3, <1>4, AsJobIs, AsJobIsThen
<1>7. file' = file => SameDisk(AsJob, AsJob')
  BY <1>1, AsJobIs, AsJobIsThen DEF SameDisk
<1>8. file' = OnDisk(j) => AsJob'.disk = j.status /\ (AsJob'.diskCancelled <=> j.cancelled)
  BY <1>1, <1>5, AsJobIsThen DEF OnDisk
<1>9. \/ k.status = j.status /\ file' = file /\ r.pc # "none"
      \/ j.status = "running" /\ k.status \in Final /\ file' = file /\ r.pc # "none"
      \/ j.status = "error" /\ k.status = "running" /\ file' = file /\ r.pc # "none"
      \/ j.status \in Final /\ k.status = j.status /\ file' = file /\ r.pc = "none"
      \/ k.status = j.status /\ file' = OnDisk(j) /\ (r.pc = "none" => j.status \in Final)
  BY <1>1, <1>2 DEF Fits
<1> HIDE DEF j, k, r
<1>10. \/ AsJob' = AsJob
       \/ AsJob' \in Contract!Works(AsJob)
  <2>1. CASE k.status = j.status /\ file' = file /\ r.pc # "none"
    BY <1>6, <1>7, <2>1, ShownIs
  <2>2. CASE j.status = "running" /\ k.status \in Final /\ file' = file /\ r.pc # "none"
    <3>1. AsJob' \in Contract!Ended(AsJob)
      BY <1>6, <1>7, <2>2, ContractSteps
    <3> QED
      BY <3>1 DEF Contract!Works
  <2>3. CASE j.status = "error" /\ k.status = "running" /\ file' = file /\ r.pc # "none"
    <3>1. AsJob' \in Contract!Recovered(AsJob)
      BY <1>6, <1>7, <2>3, ContractSteps
    <3> QED
      BY <3>1 DEF Contract!Works
  <2>4. CASE j.status \in Final /\ k.status = j.status /\ file' = file /\ r.pc = "none"
    <3>1. AsJob' \in Contract!Left(AsJob)
      BY <1>6, <1>7, <2>4, ContractSteps
    <3> QED
      BY <3>1 DEF Contract!Works
  <2>5. CASE k.status = j.status /\ file' = OnDisk(j) /\ r.pc # "none"
    <3>1. AsJob' \in Contract!Saved(AsJob)
      BY <1>6, <1>8, <2>5, ContractSteps
    <3> QED
      BY <3>1 DEF Contract!Works
  <2>6. CASE k.status = j.status /\ file' = OnDisk(j) /\ r.pc = "none" /\ j.status \in Final
    <3>1. AsJob' \in Contract!SavedAndLeft(AsJob)
      BY <1>6, <1>8, <2>6, SavedAndLeftIs
    <3> QED
      BY <3>1 DEF Contract!Works
  <2> QED
    BY <1>9, <2>1, <2>2, <2>3, <2>4, <2>5, <2>6
<1> QED
  BY <1>10 DEF Contract!Next

\* and those of the requests its Continued, Resumed and Cancelled, or are not seen.
LEMMA HandleMaps ==
  ASSUME AInv, OneAtATime, NEW h \in Requests, Handle(h)
  PROVE  [Contract!Next]_AsJob
<1>1. IInv /\ IInv' /\ Alone
  BY NextKeeps DEF AInv, Next
<1>2. CASE ContinueReads(h) \/ ResumeReads(h)
  <2>1. registry' = registry /\ file' = file /\ runner' = runner /\ (registry = None \/ heap' = heap)
    BY <1>2 DEF ContinueReads, ResumeReads, NotTheDisk, MustLoad
  <2>2. Alive' = Alive
    BY <2>1 DEF Alive, Running
  <2>3. AsJob' = AsJob
    BY <1>1, <2>1, <2>2, Unseen
  <2> QED
    BY <2>3
<1>3. CASE ContinueActs(h)
  <2> DEFINE o == request[h].obj
  <2>1. /\ o \in Objs /\ registry' = o /\ heap'[o].status = "running" /\ ~heap'[o].cancelled
        /\ \E t \in Runners : Starts(t, o)
    BY <1>1, <1>3, ContinueActsKeeps
  <2>2. file' = file /\ ContinueOk(h)
    BY <1>1, <1>3 DEF ContinueActs, Alone
  <2>3. Alive' # {} /\ o # None
    BY <2>1, NoneIsNoObject DEF Starts, Alive, Running
  <2>4. /\ AsJob \in Shown /\ ~AsJob.alive
        /\ AsJob.status = "error" \/ (AsJob.status = "none" /\ AsJob.disk = "error")
    BY <1>1, <2>2, <2>3, AsJobIs DEF ContinueOk
  <2>5. /\ AsJob' \in Shown /\ AsJob'.status = "running" /\ AsJob'.alive /\ ~AsJob'.cancelled
        /\ SameDisk(AsJob, AsJob')
    BY <1>1, <2>1, <2>2, <2>3, AsJobIs, AsJobIsThen DEF SameDisk
  <2>6. AsJob' \in Contract!Continued(AsJob)
    BY <2>4, <2>5, ContractSteps
  <2> QED
    BY <2>6 DEF Contract!Next
<1>4. CASE ResumeActs(h)
  <2> DEFINE o == request[h].obj
  <2>1. /\ o \in Objs /\ registry' = o /\ heap'[o].cancelled = heap[o].cancelled
        /\ IF Restartable(heap[o])
           THEN heap'[o].status = "running" /\ \E t \in Runners : Starts(t, o)
           ELSE heap' = heap /\ runner' = runner
    BY <1>1, <1>4, ResumeActsKeeps
  <2>2. file' = file /\ request[h].pc = "resume"
    BY <1>4 DEF ResumeActs, NotTheDisk
  <2>3. ResumeOk(h) /\ heap[o].status # "free" /\ o # None
    BY <1>1, <2>1, <2>2, NoneIsNoObject DEF Alone, IInv, Kept
  <2>4. registry = None /\ heap[o].status = file.status /\ heap[o].cancelled = file.cancelled
    BY <2>3 DEF ResumeOk
  <2>5. Alive = {}
    BY <1>1, <2>4, NoneIsNoObject DEF Alone, IInv, Kept, Alive
  <2>6. /\ AsJob \in Shown /\ AsJob.status = "none" /\ ~AsJob.alive /\ AsJob.disk = file.status
        /\ AsJob.disk # "none" /\ (AsJob.diskCancelled <=> file.cancelled)
    <3>1. file.status # "none"
      BY <1>1 DEF IInv, Typed, FileRecord, Status
    <3> QED
      BY <1>1, <2>3, <2>4, <2>5, <3>1, AsJobIs
  <2>7. /\ AsJob' \in Shown /\ AsJob'.status = heap'[o].status /\ (AsJob'.alive <=> Alive' # {})
        /\ (AsJob'.cancelled <=> file.cancelled) /\ SameDisk(AsJob, AsJob')
    BY <1>1, <2>1, <2>2, <2>3, <2>4, AsJobIs, AsJobIsThen DEF SameDisk
  <2>8. IF file.status \in Final THEN AsJob'.status = file.status /\ ~AsJob'.alive
                                 ELSE AsJob'.status = "running" /\ AsJob'.alive
    <3>1. CASE file.status \in Final
      <4>1. heap' = heap /\ runner' = runner
        BY <2>1, <2>4, <3>1 DEF Restartable
      <4>2. Alive' = {}
        BY <2>5, <4>1 DEF Alive, Running
      <4> QED
        BY <2>4, <2>7, <3>1, <4>1, <4>2
    <3>2. CASE file.status \notin Final
      <4>1. heap'[o].status = "running" /\ \E t \in Runners : Starts(t, o)
        BY <2>1, <2>4, <3>2 DEF Restartable
      <4>2. Alive' # {}
        BY <4>1 DEF Starts, Alive, Running
      <4> QED
        BY <2>7, <3>2, <4>1, <4>2
    <3> QED
      BY <3>1, <3>2
  <2>9. AsJob' \in Contract!Resumed(AsJob)
    BY <2>6, <2>7, <2>8, ContractSteps
  <2> QED
    BY <2>9 DEF Contract!Next
<1> QED
  BY <1>2, <1>3, <1>4 DEF Handle, Acts

\* JobManager implements JobContract: whatever threads, requests, checkpoints and crashes do,
\* the job is seen to take only the steps that the rest of the backend reckons with.
THEOREM Implements == OneAtATime => (Spec => KeepsContract)
<1>1. ASSUME Init PROVE Contract!Init
  <2> DEFINE o == CHOOSE x \in Objs : TRUE  t == CHOOSE x \in Runners : TRUE
  <2>1. AInv /\ registry = o /\ heap = [x \in Objs |-> IF x = o THEN NewJob ELSE Free] /\ file = NoFile
    BY <1>1, InitHolds DEF Init
  <2>2. o \in Objs /\ t \in Runners /\ o # None
    BY JobAssumption, NoneIsNoObject
  <2>3. runner[t].pc = "flush"
    <3> DEFINE r == [NoRunner EXCEPT !.pc = "flush", !.obj = o, !.next = "top", !.left = MAX_ROUNDS]
    <3>1. r.pc = "flush"
      BY DEF NoRunner
    <3> HIDE DEF r
    <3>2. runner = [x \in Runners |-> IF x = t THEN r ELSE NoRunner]
      BY <1>1 DEF Init, r
    <3> QED
      BY <2>2, <3>1, <3>2
  <2>4. t \in Alive
    BY <2>2, <2>3 DEF Alive, Running
  <2> HIDE DEF o, t
  <2>5. heap[registry] = NewJob /\ NewJob.status = "running" /\ NewJob.cancelled = FALSE
    BY <2>1, <2>2 DEF NewJob
  <2>6. file.status = "free" /\ file.cancelled = FALSE
    BY <2>1 DEF NoFile, OnDisk, Free, NewJob
  <2>7. /\ AsJob \in Shown /\ AsJob.status = "running" /\ AsJob.alive /\ ~AsJob.cancelled
        /\ AsJob.disk = "none" /\ ~AsJob.diskCancelled
    BY <2>1, <2>2, <2>4, <2>5, <2>6, AsJobIs DEF AInv
  <2>8. /\ Contract!Started(Contract!Created) \in Shown /\ Contract!Started(Contract!Created).status = "running"
        /\ Contract!Started(Contract!Created).alive /\ ~Contract!Started(Contract!Created).cancelled
        /\ Contract!Started(Contract!Created).disk = "none" /\ ~Contract!Started(Contract!Created).diskCancelled
    BY DEF Contract!Started, Contract!Created, Contract!Absent, Shown, Status
  <2>9. AsJob = Contract!Started(Contract!Created)
    BY <2>7, <2>8, ShownIs DEF SameDisk
  <2> QED
    BY <2>9 DEF Contract!Init
<1>2. ASSUME OneAtATime, AInv, [Next]_vars PROVE [Contract!Next]_AsJob
  <2>1. IInv /\ IInv'
    BY <1>2, NextKeeps DEF AInv
  <2>2. CASE \E t \in Runners : Step(t)
    BY <1>2, <2>2, StepMaps
  <2>3. CASE \E h \in Requests : Handle(h)
    BY <1>2, <2>3, HandleMaps
  <2>4. CASE StreamStep \/ Subscribe \/ UNCHANGED vars
    <3>1. UNCHANGED <<heap, registry, runner, file>>
      BY <2>1, <2>4, ReadingKeeps DEF vars
    <3>2. Alive' = Alive
      BY <3>1 DEF Alive, Running
    <3>3. AsJob' = AsJob
      BY <2>1, <3>1, <3>2, Unseen
    <3> QED
      BY <3>3
  <2>5. CASE Cancel
    <3>1. /\ registry \in Objs /\ registry # None /\ heap'[registry].status = heap[registry].status
          /\ heap'[registry].cancelled
      BY <2>1, <2>5, CancelKeeps, NoneIsNoObject
    <3>2. UNCHANGED <<registry, file, runner>>
      BY <2>5 DEF Cancel, NotTheDisk
    <3>3. Alive' = Alive
      BY <3>2 DEF Alive, Running
    <3>4. heap[registry].status # "none"
      BY <2>1, <3>1 DEF IInv, Typed, JobRecord, Status
    <3>5. /\ AsJob \in Shown /\ AsJob.status = heap[registry].status /\ (AsJob.alive <=> Alive # {})
          /\ AsJob' \in Shown /\ AsJob'.status = AsJob.status /\ (AsJob'.alive <=> AsJob.alive)
          /\ AsJob'.cancelled /\ SameDisk(AsJob, AsJob')
      BY <2>1, <3>1, <3>2, <3>3, AsJobIs, AsJobIsThen DEF SameDisk
    <3>6. AsJob' \in Contract!Cancelled(AsJob)
      BY <3>4, <3>5, ContractSteps
    <3> QED
      BY <3>6 DEF Contract!Next
  <2>6. CASE Crash
    <3>1. /\ Alive' = {} /\ registry' = None /\ file'.cancelled = file.cancelled
          /\ file'.status = IF file.status = "running" THEN "interrupted" ELSE file.status
      BY <2>1, <2>6, CrashKeeps
    <3>2. /\ AsJob \in Shown /\ AsJob' \in Shown /\ AsJob'.status = "none" /\ ~AsJob'.alive /\ ~AsJob'.cancelled
          /\ AsJob'.diskCancelled <=> AsJob.diskCancelled
      BY <2>1, <3>1, AsJobIs, AsJobIsThen
    <3>3. AsJob'.disk = IF AsJob.disk = "running" THEN "interrupted" ELSE AsJob.disk
      BY <2>1, <3>1, AsJobIs, AsJobIsThen
    <3>4. AsJob' = Contract!Died(AsJob)
      BY <3>2, <3>3, ContractSteps
    <3> QED
      BY <3>4 DEF Contract!Next
  <2> QED
    BY <1>2, <2>2, <2>3, <2>4, <2>5, <2>6 DEF Next
<1> SUFFICES ASSUME OneAtATime PROVE Spec => KeepsContract
  OBVIOUS
<1>3. Spec => []AInv
  BY Fitting
<1>4. AInv /\ [Next]_vars => [Contract!Next]_AsJob
  BY <1>2
<1> QED
  BY <1>1, <1>3, <1>4, PTL DEF Spec, KeepsContract, Contract!Spec

=============================================================================
