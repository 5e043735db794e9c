----------------------------- MODULE JobManager -----------------------------
(***************************************************************************)
(* The life of one job (backend/agents/jobs.py, backend/chat/api.py): the  *)
(* thread that runs its rounds, the requests that cancel, continue, resume *)
(* and watch it, its checkpoint and event log on disk, and crashes of the  *)
(* process.                                                                *)
(*                                                                         *)
(* Requests run in a thread pool beside the job's own thread, and nothing  *)
(* but the registry is under JobManager's lock, so each request is two     *)
(* steps: what it reads, and what it does about it.  A checkpoint is two   *)
(* steps as well, the event log and then the file.  What happens to the    *)
(* plan within a round is the subject of ExecutionController; a round here *)
(* is one of its outcomes.                                                 *)
(***************************************************************************)
EXTENDS Naturals, Sequences, FiniteSets, SequencesExt

CONSTANTS
  Objs,                    \* Job objects: several can exist for the one id
  Runners,                 \* threads that can be in _run
  Requests,                \* continue and stream requests under way at a time
  MAX_ROUNDS,
  MAX_AUTO_CONTINUES,
  AutoCap,                 \* the cap of this job: lower for investigative intents
  MAX_STALL_RECOVERIES,
  MaxCalls,                \* bound: tool calls of a round
  MaxClicks, MaxCrashes,   \* bounds: Continue requests, crashes
  MaxLost,                 \* bound: checkpoints given up on
  ClicksMayOverlap         \* whether Continue may arrive while a thread of the job lives

ASSUME JobAssumption ==
  /\ Objs # {} /\ Runners # {}
  /\ MAX_ROUNDS \in Nat \ {0} /\ MAX_AUTO_CONTINUES \in Nat
  /\ AutoCap \in 0 .. MAX_AUTO_CONTINUES
  /\ MAX_STALL_RECOVERIES \in Nat /\ MaxCalls \in Nat \ {0}
  /\ MaxClicks \in Nat /\ MaxCrashes \in Nat /\ MaxLost \in Nat
  /\ ClicksMayOverlap \in BOOLEAN

None == "none"
ASSUME NoneIsNoObject == None \notin Objs

VARIABLES
  heap,        \* the Job objects of this process
  registry,    \* JobManager._jobs[id]
  runner,      \* the threads in _run
  file, log,   \* <id>.json and <id>.events.jsonl
  request,     \* continue_job and resume between reading and acting
  sub,         \* one event_stream
  clicks, crashes, lost

vars == <<heap, registry, runner, file, log, request, sub, clicks, crashes, lost>>

-----------------------------------------------------------------------------
(* Jobs.  `left` is the number of rounds the budget still holds after the  *)
(* last completed one, round_budget - (round + 1).  Events are told apart  *)
(* as far as a subscriber or the end of a job does.                        *)

Event     == {"work", "error", "done"}
Status    == {"free", "running", "interrupted", "done", "error"}
Reason    == {None, "max_rounds", "stall_exhausted", "plan"}
Automatic == {"max_rounds", "stall_exhausted"}
Final     == {"done", "error"}

NewJob ==
  [ status |-> "running", reason |-> None, left |-> MAX_ROUNDS - 1, auto_continues |-> 0,
    stalls |-> 0, cancelled |-> FALSE, events |-> <<>>, persisted |-> 0 ]

Free == [NewJob EXCEPT !.status = "free"]

\* to_disk drops the events; `seen` records how many there were.
OnDisk(j) ==
  [ status |-> j.status, reason |-> j.reason, left |-> j.left,
    auto_continues |-> j.auto_continues, stalls |-> j.stalls,
    cancelled |-> j.cancelled, seen |-> Len(j.events) ]

NoFile == [OnDisk(Free) EXCEPT !.status = "free"]

FromDisk(events) ==
  [ status |-> file.status, reason |-> file.reason, left |-> file.left,
    auto_continues |-> file.auto_continues, stalls |-> file.stalls,
    cancelled |-> file.cancelled, events |-> events, persisted |-> Len(log) ]

(* Threads: pc is where _run is, next where it goes after its checkpoint,  *)
(* left what remains of the range its loop was entered with.               *)

NoRunner == [ pc |-> "none", obj |-> None, next |-> "none", left |-> 0, calls |-> 0, ending |-> None ]

Running(t) == runner[t].pc # "none"
Alive      == {t \in Runners : Running(t)}
Unused     == {o \in Objs : heap[o].status = "free"}
AnObject   == CHOOSE o \in Unused : TRUE

Job(t) == heap[runner[t].obj]

NoRequest == [ pc |-> "idle", obj |-> None ]
NoSub     == [ obj |-> None, index |-> 0 ]

TypeOK ==
  /\ \A o \in Objs :
       /\ heap[o].status \in Status /\ heap[o].reason \in Reason
       /\ heap[o].left \in Nat /\ heap[o].events \in Seq(Event)
       /\ heap[o].auto_continues \in 0 .. AutoCap
       /\ heap[o].stalls \in 0 .. MAX_STALL_RECOVERIES
       /\ heap[o].persisted \in Nat
       /\ o = registry => heap[o].persisted <= Len(heap[o].events)
  /\ registry \in Objs \cup {None}
  /\ \A t \in Alive : heap[runner[t].obj].status # "free"
  /\ log \in Seq(Event)
  /\ file.status \in Status
  /\ sub.obj \in Objs \cup {None}

\* create and start: the thread has just built the plan and is about to write
\* the first checkpoint.
Init ==
  LET o == CHOOSE x \in Objs : TRUE
      t == CHOOSE x \in Runners : TRUE
  IN
    /\ heap = [x \in Objs |-> IF x = o THEN NewJob ELSE Free]
    /\ registry = o
    /\ runner = [x \in Runners |->
                   IF x = t THEN [NoRunner EXCEPT !.pc = "flush", !.obj = o,
                                                  !.next = "top", !.left = MAX_ROUNDS]
                   ELSE NoRunner]
    /\ file = NoFile /\ log = <<>>
    /\ request = [h \in Requests |-> NoRequest]
    /\ sub = NoSub
    /\ clicks = 0 /\ crashes = 0 /\ lost = 0

-----------------------------------------------------------------------------
(* Pieces of the thread's steps.                                           *)

At(t, pc) == runner[t].pc = pc

SetJob(t, j) == heap' = [heap EXCEPT ![runner[t].obj] = j]

Goto(t, pc) == runner' = [runner EXCEPT ![t].pc = pc]

\* A checkpoint, and where the thread goes from there.
CheckpointThen(t, next) == runner' = [runner EXCEPT ![t].pc = "flush", ![t].next = next]

\* The status is set, the event that says so comes a step later.
EndThen(t, event, next) ==
  runner' = [runner EXCEPT ![t].pc = "ending", ![t].ending = event, ![t].next = next]

Emitted(j, event) == [j EXCEPT !.events = Append(@, event)]

NotTheDisk  == UNCHANGED <<file, log, lost>>
NotRequests == UNCHANGED <<registry, request, sub, clicks, crashes>>

-----------------------------------------------------------------------------
(* The loop: the top of a round.                                           *)

TopNeverLooks(t) == FALSE

\* The for loop enters a round, unless the job was cancelled.
TopSeesCancel(t) == Job(t).cancelled

BeginRound(t) ==
  /\ At(t, "top") /\ runner[t].left > 0 /\ ~TopSeesCancel(t)
  /\ SetJob(t, Emitted([Job(t) EXCEPT !.left = runner[t].left - 1], "work"))
  /\ runner' = [runner EXCEPT ![t].pc = "stream", ![t].left = @ - 1]
  /\ NotTheDisk /\ NotRequests

CancelledAtTop(t) ==
  /\ At(t, "top") /\ runner[t].left > 0 /\ TopSeesCancel(t)
  /\ SetJob(t, [Job(t) EXCEPT !.status = "done"])
  /\ EndThen(t, "done", "returned")
  /\ NotTheDisk /\ NotRequests

\* The controller finds no task: plan_blocked or tasks_failed.
PlanEnds(t) ==
  /\ At(t, "top") /\ runner[t].left > 0 /\ ~TopSeesCancel(t)
  /\ SetJob(t, [Job(t) EXCEPT !.status = "error", !.reason = "plan", !.left = runner[t].left - 1])
  /\ EndThen(t, "error", "returned")
  /\ NotTheDisk /\ NotRequests

TailNeverSays(j) == "work"

\* The tail of _loop, after the range: an error event only if _run will not
\* continue - by the cap of builds.
TailEvent(j) == IF j.auto_continues >= MAX_AUTO_CONTINUES THEN "error" ELSE "work"

OutOfRounds(t) ==
  /\ At(t, "top") /\ runner[t].left = 0
  /\ SetJob(t, [Job(t) EXCEPT !.status = "error", !.reason = "max_rounds"])
  /\ EndThen(t, TailEvent(Job(t)), "returned")
  /\ NotTheDisk /\ NotRequests

-----------------------------------------------------------------------------
(* How the stream ends.                                                    *)

\* Cut, or a claim that was rejected: back to the top.
NextRound(t) ==
  /\ At(t, "stream")
  /\ CheckpointThen(t, "top")
  /\ NotTheDisk /\ NotRequests /\ UNCHANGED heap

Stall(t) ==
  /\ At(t, "stream") /\ Job(t).stalls < MAX_STALL_RECOVERIES
  /\ SetJob(t, [Job(t) EXCEPT !.stalls = @ + 1])
  /\ CheckpointThen(t, "top")
  /\ NotTheDisk /\ NotRequests

StallOnceMore(t) ==
  /\ At(t, "stream") /\ Job(t).stalls >= MAX_STALL_RECOVERIES
  /\ SetJob(t, [Job(t) EXCEPT !.status = "error", !.reason = "stall_exhausted"])
  /\ EndThen(t, "error", "returned")
  /\ NotTheDisk /\ NotRequests

\* Anything raised in _loop ends in _run's handler, which checkpoints and leaves.
Raise(t) ==
  /\ runner[t].pc \in {"stream", "tools"}
  /\ SetJob(t, [Job(t) EXCEPT !.status = "error"])
  /\ EndThen(t, "error", "none")
  /\ NotTheDisk /\ NotRequests

CancelledInStream(t) ==
  /\ At(t, "stream") /\ Job(t).cancelled
  /\ SetJob(t, [Job(t) EXCEPT !.status = "done"])
  /\ EndThen(t, "done", "returned")
  /\ NotTheDisk /\ NotRequests

ToolCalls(t) ==
  /\ At(t, "stream") /\ ~Job(t).cancelled
  /\ \E n \in 1 .. MaxCalls : runner' = [runner EXCEPT ![t].pc = "tools", ![t].calls = n]
  /\ NotTheDisk /\ NotRequests /\ UNCHANGED heap

Finish(t) ==
  /\ At(t, "stream") /\ ~Job(t).cancelled
  /\ SetJob(t, [Job(t) EXCEPT !.status = "done"])
  /\ EndThen(t, "done", "returned")
  /\ NotTheDisk /\ NotRequests

\* One call of the round; the checkpoint comes after the last.
RunTool(t) ==
  /\ At(t, "tools")
  /\ IF runner[t].calls > 1
     THEN runner' = [runner EXCEPT ![t].calls = @ - 1]
     ELSE runner' = [runner EXCEPT ![t].calls = 0, ![t].pc = "flush", ![t].next = "top"]
  /\ NotTheDisk /\ NotRequests /\ UNCHANGED heap

-----------------------------------------------------------------------------
(* The end event, the checkpoint, and what _run does when _loop returns.   *)

Flushed(j) == [j EXCEPT !.persisted = Len(j.events)]
Fresh(j)   == SubSeq(j.events, j.persisted + 1, Len(j.events))

\* _emit flushes a final event at once.
EmitEnding(t) ==
  /\ At(t, "ending")
  /\ LET j == Emitted(Job(t), runner[t].ending)
     IN  IF runner[t].ending \in Final
         THEN SetJob(t, Flushed(j)) /\ log' = log \o Fresh(j)
         ELSE SetJob(t, j) /\ UNCHANGED log
  /\ runner' = [runner EXCEPT ![t].pc = "flush", ![t].ending = None]
  /\ UNCHANGED <<file, lost>> /\ NotRequests

FlushNothing(t) ==
  /\ At(t, "flush") /\ Goto(t, "write")
  /\ NotTheDisk /\ NotRequests /\ UNCHANGED heap

\* _checkpoint: first the events emitted since the last flush ...
Flush(t) ==
  /\ At(t, "flush")
  /\ SetJob(t, Flushed(Job(t))) /\ log' = log \o Fresh(Job(t))
  /\ Goto(t, "write")
  /\ UNCHANGED <<file, lost>> /\ NotRequests

AfterCheckpoint(t) ==
  runner' = [runner EXCEPT ![t] = IF runner[t].next = "none" THEN NoRunner
                                  ELSE [runner[t] EXCEPT !.pc = runner[t].next]]

\* ... then the job itself ...
Write(t) ==
  /\ At(t, "write")
  /\ file' = OnDisk(Job(t))
  /\ AfterCheckpoint(t)
  /\ UNCHANGED <<heap, log, lost>> /\ NotRequests

RetryForever(t) ==
  /\ At(t, "write") /\ Goto(t, "flush")
  /\ NotTheDisk /\ NotRequests /\ UNCHANGED heap

\* ... unless the file stays locked for every attempt: the job goes on without.
GiveUpWriting(t) ==
  /\ At(t, "write")
  /\ lost < MaxLost /\ lost' = lost + 1
  /\ AfterCheckpoint(t)
  /\ UNCHANGED <<heap, file, log>> /\ NotRequests

MayContinueForever(j) == j.status = "error" /\ j.reason \in Automatic

MayContinue(j) == j.status = "error" /\ j.reason \in Automatic /\ j.auto_continues < AutoCap

CountedNot(j) == j

Counted(j) == [j EXCEPT !.auto_continues = @ + 1]

\* Another grant of whatever ran out.
Granted(j) == IF j.reason = "max_rounds" THEN [j EXCEPT !.left = @ + MAX_ROUNDS]
              ELSE IF j.reason = "stall_exhausted" THEN [j EXCEPT !.stalls = 0] ELSE j

AutoContinue(t) ==
  /\ At(t, "returned") /\ MayContinue(Job(t))
  /\ SetJob(t, Emitted([Granted(Counted(Job(t))) EXCEPT !.status = "running", !.reason = None], "work"))
  /\ CheckpointThen(t, "enter")
  /\ NotTheDisk /\ NotRequests

LeaveRun(t) ==
  /\ At(t, "returned") /\ ~MayContinue(Job(t))
  /\ runner' = [runner EXCEPT ![t] = NoRunner]
  /\ NotTheDisk /\ NotRequests /\ UNCHANGED heap

\* _loop with resuming: range(job.round + 1, job.round_budget).
EnterLoop(t) ==
  /\ At(t, "enter")
  /\ runner' = [runner EXCEPT ![t].pc = "top", ![t].left = Job(t).left]
  /\ NotTheDisk /\ NotRequests /\ UNCHANGED heap

-----------------------------------------------------------------------------
(* Requests.                                                               *)

\* A new thread; which of the idle ones stands for it does not matter.
StartRunner(o) ==
  /\ Alive # Runners
  /\ LET t == CHOOSE t \in Runners : ~Running(t)
     IN  runner' = [runner EXCEPT ![t] = [NoRunner EXCEPT !.pc = "enter", !.obj = o]]

Become(h, pc, o) == request' = [request EXCEPT ![h] = [pc |-> pc, obj |-> o]]

\* Sets the flag of the registered job; a job that is not in the registry is 404.
Cancel ==
  /\ registry # None
  /\ heap' = [heap EXCEPT ![registry].cancelled = TRUE]
  /\ UNCHANGED <<registry, runner, request, sub, clicks, crashes>> /\ NotTheDisk

Continuable(j) == j.status = "error" /\ j.reason # None

\* continue_job up to its check: the registered job, else the one on disk.
ContinueReads(h) ==
  /\ request[h].pc = "idle"
  /\ clicks < MaxClicks /\ clicks' = clicks + 1
  /\ ClicksMayOverlap \/ Alive = {}
  /\ \/ /\ registry # None /\ Continuable(heap[registry])
        /\ Become(h, "continue", registry)
        /\ UNCHANGED heap
     \/ /\ registry = None /\ Continuable(file)
        /\ Unused # {}
        /\ Become(h, "continue", AnObject) /\ heap' = [heap EXCEPT ![AnObject] = FromDisk(<<>>)]
  /\ UNCHANGED <<registry, runner, sub, crashes>> /\ NotTheDisk

RegisterNothing(o) == UNCHANGED registry

Register(o) == registry' = o

\* The rest of continue_job: a fresh budget, a fresh event log, a new thread.
ContinueActs(h) ==
  /\ request[h].pc = "continue"
  /\ LET o == request[h].obj
         j == heap[o]
         g == IF j.reason = "plan" THEN [j EXCEPT !.left = @ + MAX_ROUNDS] ELSE Granted(j)
     IN  /\ heap' = [heap EXCEPT ![o] = [g EXCEPT !.status = "running", !.reason = None,
                                                  !.auto_continues = 0, !.cancelled = FALSE,
                                                  !.events = <<>>, !.persisted = 0]]
         /\ Register(o)
         /\ StartRunner(o)
  /\ log' = <<>>
  /\ request' = [request EXCEPT ![h] = NoRequest]
  /\ UNCHANGED <<file, sub, clicks, crashes, lost>>

\* event_stream is opened on the registered job and reads from the start.
Subscribe ==
  /\ sub = NoSub /\ registry # None
  /\ sub' = [obj |-> registry, index |-> 0]
  /\ UNCHANGED <<heap, registry, runner, request, clicks, crashes>> /\ NotTheDisk

\* What a subscriber of a finished job that is only on disk will read.
Replayed ==
  IF log # <<>> /\ Last(log) \in Final THEN log
  ELSE Append(log, IF file.status = "done" THEN "done" ELSE "error")

AlwaysLoads == TRUE

MustLoad == registry = None

\* agent_stream without a registered job: resume up to its load from disk.
ResumeReads(h) ==
  /\ request[h].pc = "idle" /\ MustLoad /\ file.status # "free"
  /\ Unused # {}
  /\ heap' = [heap EXCEPT ![AnObject] = FromDisk(IF file.status \in Final THEN Replayed ELSE log)]
  /\ Become(h, "resume", AnObject)
  /\ UNCHANGED <<registry, runner, sub, clicks, crashes>> /\ NotTheDisk

RestartableAlways(j) == TRUE

Restartable(j) == j.status \notin Final

\* resume: a finished job is only registered, any other one runs again.
ResumeActs(h) ==
  /\ request[h].pc = "resume"
  /\ LET o == request[h].obj
     IN  /\ Register(o)
         /\ sub' = IF sub = NoSub THEN [obj |-> o, index |-> 0] ELSE sub
         /\ IF Restartable(heap[o])
            THEN heap' = [heap EXCEPT ![o].status = "running"] /\ StartRunner(o)
            ELSE UNCHANGED <<heap, runner>>
  /\ request' = [request EXCEPT ![h] = NoRequest]
  /\ UNCHANGED <<clicks, crashes>> /\ NotTheDisk

-----------------------------------------------------------------------------
(* event_stream.                                                           *)

Behind == sub.index < Len(heap[sub.obj].events)

StreamEvent ==
  /\ sub # NoSub /\ Behind
  /\ sub' = IF heap[sub.obj].events[sub.index + 1] = "done" THEN NoSub
            ELSE [sub EXCEPT !.index = @ + 1]
  /\ UNCHANGED <<heap, registry, runner, request, clicks, crashes>> /\ NotTheDisk

\* Nothing buffered and the job has stopped, as far as its status tells.
SeesItStopped(j) == j.status \in Final

StreamLeaves ==
  /\ sub # NoSub /\ ~Behind /\ SeesItStopped(heap[sub.obj])
  /\ sub' = NoSub
  /\ UNCHANGED <<heap, registry, runner, request, clicks, crashes>> /\ NotTheDisk

-----------------------------------------------------------------------------
(* A crash, and the start of the next process (load_interrupted_ids).      *)

Crash ==
  /\ crashes < MaxCrashes /\ crashes' = crashes + 1
  /\ heap' = [o \in Objs |-> Free]
  /\ registry' = None
  /\ runner' = [t \in Runners |-> NoRunner]
  /\ request' = [h \in Requests |-> NoRequest]
  /\ sub' = NoSub
  /\ file' = IF file.status = "running" THEN [file EXCEPT !.status = "interrupted"] ELSE file
  /\ UNCHANGED <<log, clicks, lost>>

-----------------------------------------------------------------------------

Step(t) ==
  \/ BeginRound(t) \/ CancelledAtTop(t) \/ PlanEnds(t) \/ OutOfRounds(t)
  \/ NextRound(t) \/ Stall(t) \/ StallOnceMore(t) \/ Raise(t)
  \/ CancelledInStream(t) \/ ToolCalls(t) \/ Finish(t) \/ RunTool(t)
  \/ EmitEnding(t) \/ Flush(t) \/ Write(t) \/ GiveUpWriting(t)
  \/ AutoContinue(t) \/ LeaveRun(t) \/ EnterLoop(t)

Acts(h)    == ContinueActs(h) \/ ResumeActs(h)
Handle(h)  == ContinueReads(h) \/ ResumeReads(h) \/ Acts(h)
StreamStep == StreamEvent \/ StreamLeaves

Next ==
  \/ \E t \in Runners : Step(t)
  \/ \E h \in Requests : Handle(h)
  \/ StreamStep
  \/ Cancel \/ Subscribe \/ Crash

\* A thread, a request that has begun and an open stream are never starved: the
\* watchdog ends every stream of the model, so a round always ends.
Fairness ==
  /\ \A t \in Runners : WF_vars(Step(t))
  /\ \A h \in Requests : WF_vars(Acts(h))
  /\ WF_vars(StreamStep)

Spec == Init /\ [][Next]_vars /\ Fairness

-----------------------------------------------------------------------------
(* Properties.                                                             *)

\* One job is run by one thread, as long as Continue waits for the job to be at
\* rest: resume returns the registered job rather than a second one.
AtMostOneRunner == Cardinality(Alive) <= 1

\* However requests and automatic continuation interleave, one job never has two
\* rounds under way ("None if ... a job that's still actually running").
OneRoundAtATime == Cardinality({t \in Runners : runner[t].pc \in {"stream", "tools"}}) <= 1

\* Whatever runs can be cancelled: the object a thread works on is the one the
\* registry hands to cancel().
RunnerIsRegistered == \A t \in Alive : runner[t].obj = registry

\* One thread runs a job, and it can be reached: the registry and the threads agree
\* about the job across resumes, continuations and restarts (JobManager.resume,
\* continue_job and cancel).
OneRegisteredRunner == AtMostOneRunner /\ RunnerIsRegistered

\* "The log on disk always covers at least what the checkpoint can resume from"
\* (_flush_events), also when the process dies between the two writes, or when a
\* checkpoint is lost.  (A Continue empties the log, so a checkpoint lost before
\* it is left out here.)
LogCoversCheckpoint ==
  file.status \in {"running", "interrupted"} /\ (lost = 0 \/ clicks = 0) => file.seen <= Len(log)

\* A job that is at rest has told its subscribers: what they read ends with the
\* event that ended the job, whether it was emitted in this process or loaded.
RestHasItsEnding ==
  registry # None /\ Alive = {} /\ heap[registry].status \in Final =>
    heap[registry].events # <<>> /\ Last(heap[registry].events) \in Final

\* The log tells what a restart and a subscriber need: all that the checkpoint has
\* seen, and how the job ended (_flush_events, agent_stream).
LogTellsTheRun == LogCoversCheckpoint /\ RestHasItsEnding

\* A finished job is never run again: not by a reconnecting subscriber, not by a
\* crash, not by Continue, which takes errors it can recover only.
DoneIsFinal == [][file.status = "done" => file'.status = "done"]_vars

\* A job that was cancelled begins no further round (cancel: "no further rounds
\* ... run") until it is continued: neither an automatic continuation nor a
\* restart makes its round advance.
CancelStopsRounds ==
  [][ \A o \in Objs :
        heap[o].cancelled /\ heap'[o].cancelled => heap'[o].left >= heap[o].left ]_vars

\* What the registry and the file say of the job, to anybody who does not look
\* inside: the registered object, whether its thread lives, and the checkpoint.
AsJob ==
  [ status        |-> IF registry = None THEN "none" ELSE heap[registry].status,
    alive         |-> Alive # {},
    cancelled     |-> registry # None /\ heap[registry].cancelled,
    disk          |-> IF file.status = "free" THEN "none" ELSE file.status,
    diskCancelled |-> file.cancelled ]

Contract == INSTANCE JobContract WITH job <- AsJob

\* JobManager implements JobContract: whatever requests, threads, checkpoints and
\* crashes do, a job is seen to change only by the steps the rest of the backend
\* reckons with - it ends by its own thread, runs again by its own thread, by a
\* Continue after an error or by a resume of an unfinished checkpoint, and the
\* file holds a status it really had.
KeepsContract == Contract!Spec

\* A stream leaves only a job that has truly stopped (agent_stream: by the time no
\* event is buffered "the auto-continue (if any) has already happened"), never one
\* whose own thread is about to continue it.
StreamLeavesWhenStopped ==
  [][ StreamLeaves => \A t \in Alive : runner[t].obj = sub.obj => ~MayContinue(Job(t)) ]_vars

\* The job stops for good - rounds, automatic continuations and stalls are all
\* bounded, and only a click or a restart starts it again - and every event
\* stream ends, whatever the job's status was when its reader looked.
\* (jobs.py, _run and _loop; chat/api.py, agent_stream)
Terminates == <>[](Alive = {})
StreamEnds == [](sub # NoSub => <>(sub = NoSub))
JobAndStreamsEnd == Terminates /\ StreamEnds

=============================================================================
