------------------------- MODULE PhasedBuild_proofs -------------------------
(***************************************************************************)
(* What TLAPS proves of PhasedBuild for any number of phases and any       *)
(* bounds on crashes, lost checkpoints, recoveries and clicks.             *)
(*                                                                         *)
(* A build exists in up to four copies: the object in memory, its file,    *)
(* and the snapshots that the thread and a cancelling request are about to *)
(* write.  The invariant says what every copy satisfies, how far the other *)
(* three may lag behind the first, and what each place of the thread       *)
(* knows of the phase it is at.                                            *)
(***************************************************************************)
EXTENDS PhasedBuild, TLAPS, FiniteSetTheorems

-----------------------------------------------------------------------------
(* The inductive invariant.                                                *)

StatusIn(b, p) == b.phases[p].status

Copies == {build, file, runner.snapshot, canceller.snapshot}

\* A phase follows the done phases before it, whose jobs have come to an end.
Chained(b) ==
  \A p, q \in Phases : q < p /\ Reached(b, p) => StatusIn(b, q) = "done"

DoneHasOutcome(b) == \A p \in Phases : StatusIn(b, p) = "done" => outcome[p] # "open"

\* current is the last phase reached; a phase has a job only once it is reached.
CurrentIsLast(b) == \A p \in Phases : Reached(b, p) => p <= b.current
JobsOfReached(b) == \A p \in Phases : b.phases[p].job => Reached(b, p)

\* No copy is ahead of the build in memory.
NotAhead(b) ==
  \A p \in Phases : /\ Reached(b, p) => Reached(build, p)
                    /\ StatusIn(b, p) = "done" => StatusIn(build, p) = "done"

CopyInv(b) ==
  Chained(b) /\ DoneHasOutcome(b) /\ CurrentIsLast(b) /\ JobsOfReached(b) /\ NotAhead(b)

CopiesInv == \A b \in Copies : CopyInv(b)

\* Where the thread is, or goes to from the checkpoint it is writing
Heading == IF runner.pc \in {"snapshot", "write"} THEN runner.next ELSE runner.pc

ThreadInv ==
  /\ \A q \in Phases : q < runner.phase => StatusIn(build, q) = "done"
  /\ Heading \in {"select", "job", "start", "poll", "ended"} =>
       runner.phase \in Phases /\ StatusIn(build, runner.phase) # "done"
  /\ Heading \in {"job", "start", "poll", "ended"} => Reached(build, runner.phase)
  /\ Heading \in {"start", "poll", "ended"} => build.phases[runner.phase].job

\* A build that no process knows has no thread and is not taken up again; what get()
\* reads of it is its file.
ForgottenInv ==
  ~known => /\ runner = NoThread /\ ~Resumable(file)
            /\ file.phases = build.phases /\ file.current = build.current
            /\ canceller.pc = "write" =>
                 /\ canceller.snapshot.phases = build.phases
                 /\ canceller.snapshot.current = build.current

\* What a job is when its phase is done, or not begun
JobsInv ==
  \A p \in Phases :
    /\ Heading = "start" /\ p = runner.phase => jobs[p].status # "none"
    /\ jobs[p].alive => jobs[p].status # "none"
    /\ jobs[p].status = "done" \/ jobs[p].disk = "done" => outcome[p] # "open"
    /\ ~Reached(build, p) => ~jobs[p].alive
    /\ spent["requests"] = 0 /\ StatusIn(build, p) = "done" =>
         ~jobs[p].alive \/ jobs[p].status = "done"
    /\ spent["crashes"] = 0 /\ build.phases[p].job => jobs[p].status # "none"
    /\ spent["crashes"] = 0 /\ StatusIn(build, p) = "done" => jobs[p].status = "done"

\* The request that cancels has set the flag, and the thread is at most one phase on.
CancelInv ==
  /\ canceller.pc \in {"job", "status"} => build.cancelled
  /\ canceller.pc = "write" => canceller.snapshot.cancelled
  /\ build.cancelled /\ known =>
       /\ build.current <= canceller.reached + 1
       /\ runner.pc = "select" => runner.phase <= canceller.reached + 1

\* A copy that a restart could go on from knows the job of every phase begun.
BegunInv ==
  spent["lost"] = 0 => \A p \in Phases :
    /\ begun[p] <= 1
    /\ known /\ begun[p] > 0 => build.phases[p].job
    /\ known /\ begun[p] > 0 => file.cancelled \/ file.phases[p].job
    /\ runner.pc = "write" /\ begun[p] > 0 => runner.snapshot.phases[p].job
    /\ Heading = "start" /\ p = runner.phase =>
         /\ begun[p] = 0
         /\ runner.pc = "write" => runner.snapshot.phases[p].job
         /\ runner.pc = "start" => file.cancelled \/ file.phases[p].job

IInv ==
  TypeOK /\ CopiesInv /\ ThreadInv /\ ForgottenInv /\ JobsInv /\ CancelInv /\ BegunInv

-----------------------------------------------------------------------------
(* Jobs.                                                                   *)

\* What each step of a job's thread leaves: the job is still registered, and once
\* done it stays done.
LEMMA ThreadOfJob ==
  ASSUME NEW j \in Job, NEW k \in Ended(j) \cup Recovered(j) \cup Saved(j) \cup Left(j)
  PROVE  /\ k \in Job /\ j.alive
         /\ k.status = "none" <=> j.status = "none"
         /\ j.status = "done" => k.status = "done"
         /\ k.status = "done" => j.status = "done" \/ k \in Ended(j)
         /\ k.disk = "done" => j.status = "done" \/ j.disk = "done"
<1>1. CASE k \in Ended(j)
  BY <1>1 DEF Job, Stopped, Ended
<1>2. CASE k \in Recovered(j)
  BY <1>2 DEF Job, Stopped, Recovered
<1>3. CASE k \in Saved(j)
  BY <1>3 DEF Job, Stopped, Saved
<1>4. CASE k \in Left(j)
  BY <1>4 DEF Job, Stopped, Left
<1> QED
  BY <1>1, <1>2, <1>3, <1>4

\* A request registers a job, and does not touch one that is done.
LEMMA RequestOfJob ==
  ASSUME NEW j \in Job, NEW k \in Continued(j) \cup Resumed(j) \cup Cancelled(j)
  PROVE  /\ k \in Job /\ k.status # "none"
         /\ j.status = "done" => k.status = "done" /\ k.alive = j.alive
         /\ k.status = "done" \/ k.disk = "done" => j.status = "done" \/ j.disk = "done"
         /\ k \in Cancelled(j) => k.alive = j.alive /\ k.status = j.status
<1>1. CASE k \in Continued(j)
  <2>1. j.status # "done" /\ j.disk = k.disk /\ k.status = "running" /\ k \in Job
    BY <1>1 DEF Job, Stopped, Continued
  <2>2. k \in Cancelled(j) => k.alive = j.alive /\ k.status = j.status
    BY DEF Job, Cancelled
  <2> QED
    BY <2>1, <2>2
<1>2. CASE k \in Resumed(j)
  <2>1. /\ j.status = "none" /\ j.disk = k.disk /\ k.status \in {"running", "error", "done"}
        /\ k.status = "done" => j.disk = "done"
    BY <1>2 DEF Job, Stopped, Resumed
  <2>2. k \in Job
    BY <1>2 DEF Job, Stopped, Resumed
  <2>3. k \in Cancelled(j) => k.alive = j.alive /\ k.status = j.status
    BY DEF Job, Cancelled
  <2> QED
    BY <2>1, <2>2, <2>3
<1>3. CASE k \in Cancelled(j)
  BY <1>3 DEF Job, Stopped, Cancelled
<1> QED
  BY <1>1, <1>2, <1>3

\* A job that was just created, and one whose thread was just started.
LEMMA NewJob ==
  /\ Created \in Job /\ Created.status = "running" /\ ~Created.alive /\ Created.disk = "none"
  /\ \A j \in Job : /\ Started(j) \in Job /\ Started(j).alive
                    /\ Started(j).status = j.status /\ Started(j).disk = j.disk
BY DEF Job, Stopped, Created, Absent, Started

\* What a crash leaves of a job: its checkpoint, if it had one.
LEMMA DeadJob ==
  ASSUME NEW j \in Job
  PROVE  Died(j) \in Job /\ ~Died(j).alive /\ Died(j).status = "none"
         /\ (Died(j).disk = "done" <=> j.disk = "done")
BY DEF Job, Stopped, Died

-----------------------------------------------------------------------------
(* Types.                                                                  *)

\* A build that was just started: every phase pending, none with a job.
LEMMA NewBuildIs ==
  /\ NewBuild \in Build
  /\ \A p \in Phases : NewBuild.phases[p] = [status |-> "pending", job |-> FALSE]
  /\ NewBuild.current = 0 /\ ~NewBuild.cancelled
BY PhasedAssumption DEF NewBuild, Build, Phases, PhaseStatus, BuildStatus

\* What PhaseBecomes changes of a build
LEMMA PhaseBecomesIs ==
  ASSUME NEW b \in Build, NEW p \in Phases, NEW status \in PhaseStatus
  PROVE  /\ PhaseBecomes(b, p, status) \in Build
         /\ \A q \in Phases : /\ StatusIn(PhaseBecomes(b, p, status), q)
                                   = IF q = p THEN status ELSE StatusIn(b, q)
                              /\ PhaseBecomes(b, p, status).phases[q].job = b.phases[q].job
         /\ PhaseBecomes(b, p, status).current = b.current
         /\ PhaseBecomes(b, p, status).status = b.status
         /\ PhaseBecomes(b, p, status).cancelled = b.cancelled
BY DEF PhaseBecomes, Build, StatusIn

\* The first state has the types.
LEMMA InitType == Init => TypeOK
<1> SUFFICES ASSUME Init PROVE TypeOK
  OBVIOUS
<1>1. Absent \in Job
  BY DEF Absent, Job, Stopped
<1>2. 1 \in 1 .. NPhases + 1 /\ 0 \in 0 .. NPhases
  BY PhasedAssumption
<1> QED
  BY <1>1, <1>2, NewBuildIs DEF Init, TypeOK, Thread, Request, AtFirstPhase, NoCanceller, Outcome, Counted

\* What the other updates of a build make of it
LEMMA BuildUpdates ==
  ASSUME NEW b \in Build
  PROVE  /\ \A s \in BuildStatus : [b EXCEPT !.status = s] \in Build
         /\ [b EXCEPT !.cancelled = TRUE] \in Build
         /\ \A p \in Phases : [b EXCEPT !.phases[p].job = TRUE] \in Build
BY DEF Build

\* Spending counts one and leaves the other counters alone.
LEMMA SpendIs ==
  ASSUME TypeOK, NEW c \in Counted, NEW max, Spend(c, max)
  PROVE  /\ spent' \in [Counted -> Nat] /\ spent'[c] = spent[c] + 1
         /\ \A d \in Counted \ {c} : spent'[d] = spent[d]
BY DEF Spend, TypeOK

\* Where the thread may go
LEMMA ThreadUpdates ==
  ASSUME NEW r \in Thread
  PROVE  /\ \A pc \in {"idle", "top", "select", "job", "start", "poll", "ended"} :
              [r EXCEPT !.pc = pc] \in Thread
         /\ \A next \in {"idle", "top", "job", "start"} :
              [r EXCEPT !.pc = "snapshot", !.next = next] \in Thread
         /\ \A b \in Build : [r EXCEPT !.pc = "write", !.snapshot = b] \in Thread
         /\ [r EXCEPT !.pc = r.next, !.next = "idle", !.snapshot = NewBuild] \in Thread
BY NewBuildIs DEF Thread

\* Every step keeps the types.
LEMMA RunnerTypes ==
  ASSUME TypeOK, ThreadInv, Top \/ AllDone \/ Select \/ Snapshot \/ Write
  PROVE  TypeOK'
<1>0. /\ \A p \in 1 .. NPhases : p + 1 \in 1 .. NPhases + 1 /\ p \in 0 .. NPhases
      /\ NewBuild \in Build
  BY PhasedAssumption, NewBuildIs
<1>1. CASE Top
  <2>1. build' \in Build
    BY <1>1, BuildUpdates DEF Top, TypeOK, BuildStatus
  <2>2. runner' \in Thread
    <3>1. runner' = [runner EXCEPT !.phase = @ + 1] => runner' \in Thread
      BY <1>0, <1>1 DEF Top, Phases, Thread, TypeOK
    <3> QED
      BY <1>1, <3>1, ThreadUpdates DEF Top, SaveThen, Goto, TypeOK
  <2> QED
    BY <1>1, <2>1, <2>2 DEF Top, TypeOK
<1>2. CASE AllDone
  BY <1>0, <1>2 DEF AllDone, TypeOK, Thread, Build, BuildStatus, Phases, SaveThen, Goto
<1>3. CASE Select
  <2>1. runner.phase \in Phases
    BY <1>3 DEF Select, ThreadInv, Heading
  <2>2. PhaseBecomes(build, runner.phase, "running") \in Build
    BY <2>1, PhaseBecomesIs DEF TypeOK, PhaseStatus
  <2>3. build' \in Build
    BY <1>0, <1>3, <2>1, <2>2 DEF Select, Build, BuildStatus, Phases
  <2> QED
    BY <1>3, <2>3 DEF Select, TypeOK, Thread, SaveThen
<1>4. CASE Snapshot
  <2>1. runner' \in Thread
    BY <1>4 DEF Snapshot, TypeOK, Thread
  <2>2. UNCHANGED <<build, known, file, canceller, jobs, begun, outcome, spent>>
    BY <1>4 DEF Snapshot
  <2> QED
    BY <2>1, <2>2 DEF TypeOK
<1>5. CASE Write
  <2>1. runner' = [runner EXCEPT !.pc = runner.next, !.next = "idle", !.snapshot = NewBuild]
    BY <1>5 DEF Write
  <2>3. runner' \in Thread
    BY <2>1, ThreadUpdates DEF TypeOK
  <2>4. file' \in Build
    BY <1>5 DEF Write, TypeOK, Thread
  <2>2. spent' \in [Counted -> Nat]
    BY <1>5, SpendIs DEF Write, TypeOK, Counted
  <2> QED
    BY <1>5, <2>2, <2>3, <2>4 DEF Write, TypeOK
<1> QED
  BY <1>1, <1>2, <1>3, <1>4, <1>5

\* The steps in which the build's thread touches a job keep the types.
LEMMA JobStepTypes ==
  ASSUME TypeOK, ThreadInv, ResumeJob \/ CreateJob \/ StartJob \/ Poll \/ Judge
  PROVE  TypeOK'
<1>0. /\ \A p \in 1 .. NPhases : p + 1 \in 1 .. NPhases + 1
      /\ runner.phase \in Phases
  BY PhasedAssumption DEF ThreadInv, Heading, ResumeJob, CreateJob, StartJob, Poll, Judge
<1>1. CASE ResumeJob
  <2>1. jobs' \in [Phases -> Job]
    BY <1>0, <1>1, RequestOfJob DEF ResumeJob, AfterResume, TypeOK
  <2> QED
    BY <1>1, <2>1, ThreadUpdates DEF ResumeJob, TypeOK, Goto
<1>2. CASE CreateJob
  <2>1. build' \in Build
    BY <1>0, <1>2, BuildUpdates DEF CreateJob, TypeOK
  <2> QED
    BY <1>0, <1>2, <2>1, NewJob DEF CreateJob, TypeOK, Thread, SaveThen, Outcome
<1>3. CASE StartJob
  BY <1>0, <1>3, NewJob DEF StartJob, TypeOK, Thread, Goto
<1>4. CASE Poll
  BY <1>4 DEF Poll, TypeOK, Thread, Goto
<1>5. CASE Judge
  <2>1. \A s \in {"cancelled", "error", "done"} : PhaseBecomes(build, runner.phase, s) \in Build
    BY <1>0, PhaseBecomesIs DEF TypeOK, PhaseStatus
  <2>2. build' \in Build
    BY <1>5, <2>1 DEF Judge, Build, BuildStatus
  <2> QED
    BY <1>0, <1>5, <2>2 DEF Judge, TypeOK, Thread, SaveThen, Phases
<1> QED
  BY <1>1, <1>2, <1>3, <1>4, <1>5

\* So do the steps of everybody else: the cancel, the crash, a job's own thread, a
\* request for a job.
LEMMA OtherTypes ==
  ASSUME TypeOK, \/ CancelFlag \/ CancelActs \/ CrashAndRestart
                 \/ \E p \in Phases : JobThread(p) \/ JobRequest(p)
  PROVE  TypeOK'
<1>1. CASE CancelFlag
  <2>1. spent' \in [Counted -> Nat]
    BY <1>1, SpendIs DEF CancelFlag, Click, Counted
  <2>2. build' \in Build /\ build.current \in 0 .. NPhases
    BY <1>1, BuildUpdates DEF CancelFlag, TypeOK, Build
  <2> QED
    BY <1>1, <2>1, <2>2 DEF CancelFlag, TypeOK, Request
<1>2. CASE CancelActs
  <2>1. CASE CancelJob
    <3>1. jobs' \in [Phases -> Job]
      BY <2>1, RequestOfJob DEF CancelJob, TypeOK
    <3> QED
      BY <2>1, <3>1 DEF CancelJob, TypeOK, Request
  <2>2. CASE CancelStatus
    <3>1. build' \in Build
      BY <2>2, BuildUpdates DEF CancelStatus, TypeOK, Build, BuildStatus
    <3> QED
      BY <2>2, <3>1 DEF CancelStatus, TypeOK, Request
  <2>3. CASE CancelWrite
    <3>1. spent' \in [Counted -> Nat]
      BY <2>3, SpendIs DEF CancelWrite, TypeOK, Counted
    <3>2. build' \in Build /\ file' \in Build
      BY <2>3 DEF CancelWrite, TypeOK, Request
    <3> QED
      BY <2>3, <3>1, <3>2, NewBuildIs DEF CancelWrite, TypeOK, Request
  <2> QED
    BY <1>2, <2>1, <2>2, <2>3 DEF CancelActs
<1>3. CASE CrashAndRestart
  <2>1. AtFirstPhase \in Thread /\ NoThread \in Thread /\ NoCanceller \in Request
    BY NewBuildIs, PhasedAssumption DEF AtFirstPhase, NoThread, NoCanceller, Thread, Request
  <2> QED
    BY <1>3, <2>1, DeadJob DEF CrashAndRestart, Spend, TypeOK, Counted, Resumable
<1>4. ASSUME NEW p \in Phases, JobThread(p) PROVE TypeOK'
  <2>1. \E j \in Ended(jobs[p]) \cup Recovered(jobs[p]) \cup Saved(jobs[p]) \cup Left(jobs[p]) :
          jobs' = [jobs EXCEPT ![p] = j]
    BY <1>4 DEF JobThread, JobEnds, JobRecovers, JobSaves, JobLeaves
  <2>2. jobs' \in [Phases -> Job]
    BY <2>1, ThreadOfJob DEF TypeOK
  <2>3. outcome' \in [Phases -> Outcome] /\ spent' \in [Counted -> Nat]
    BY <1>4 DEF JobThread, JobEnds, JobRecovers, JobSaves, JobLeaves, Spend, TypeOK, Outcome, Counted
  <2>4. UNCHANGED <<build, known, file, runner, canceller, begun>>
    BY <1>4 DEF JobThread, JobEnds, JobRecovers, JobSaves, JobLeaves, NotTheBuild
  <2> QED
    BY <2>2, <2>3, <2>4 DEF TypeOK
<1>5. ASSUME NEW p \in Phases, JobRequest(p) PROVE TypeOK'
  BY <1>5, RequestOfJob DEF JobRequest, Click, Spend, NotTheBuild, TypeOK, Counted
<1> QED
  BY <1>1, <1>2, <1>3, <1>4, <1>5

-----------------------------------------------------------------------------
(* The copies.                                                             *)

\* Two copies that differ in their status and their cancel flag only
Like(b, c) == b.phases = c.phases /\ b.current = c.current

LikeAny(b, S) == \E c \in S : Like(b, c)

OutcomesStay == \A p \in Phases : outcome[p] # "open" => outcome'[p] # "open"

\* A step that leaves the phases of the build alone, and from which every copy comes
\* out as some copy or as new, keeps what the copies satisfy.
LEMMA CopiesKept ==
  ASSUME CopiesInv, Like(build', build), OutcomesStay,
         \A b \in Copies' : LikeAny(b, Copies \cup {NewBuild})
  PROVE  CopiesInv'
<1>1. \A p \in Phases : /\ StatusIn(build', p) = StatusIn(build, p)
                        /\ Reached(build', p) <=> Reached(build, p)
  BY DEF Like, StatusIn, Reached
<1>2. ASSUME NEW b \in Copies' PROVE CopyInv(b)'
  <2>1. PICK c \in Copies \cup {NewBuild} : Like(b, c)
    BY DEF LikeAny
  <2>2. CopyInv(c)
    <3>1. CASE c \in Copies
      BY <3>1 DEF CopiesInv
    <3>2. CASE c = NewBuild
      BY <3>2, NewBuildIs DEF CopyInv, Chained, DoneHasOutcome, CurrentIsLast, JobsOfReached,
         NotAhead, Reached, StatusIn
    <3> QED
      BY <3>1, <3>2
  <2>3. Chained(b) /\ CurrentIsLast(b) /\ JobsOfReached(b)
    BY <2>1, <2>2 DEF Like, CopyInv, Chained, CurrentIsLast, JobsOfReached, Reached, StatusIn
  <2>4. DoneHasOutcome(b)'
    BY <2>1, <2>2 DEF Like, CopyInv, DoneHasOutcome, StatusIn, OutcomesStay
  <2>5. NotAhead(b)'
    BY <1>1, <2>1, <2>2 DEF Like, CopyInv, NotAhead, Reached, StatusIn
  <2> QED
    BY <2>3, <2>4, <2>5 DEF CopyInv, Chained, CurrentIsLast, JobsOfReached, Reached, StatusIn
<1> QED
  BY <1>2 DEF CopiesInv

\* A step that changes one phase, which was not done, for the thread that is at it
LEMMA PhaseChanged ==
  ASSUME CopiesInv, NEW p \in Phases, StatusIn(build, p) # "done",
         \A q \in Phases : q < p => StatusIn(build, q) = "done",
         file' = file, canceller' = canceller, runner'.snapshot = runner.snapshot,
         \A q \in Phases \ {p} : build'.phases[q] = build.phases[q],
         Reached(build', p), StatusIn(build', p) = "done" => outcome'[p] # "open",
         \A q \in Phases \ {p} : outcome'[q] = outcome[q],
         build'.current \in Nat, p <= build'.current
  PROVE  CopiesInv'
<1> USE DEF CopyInv
<1>1. \A q \in Phases : Reached(build, q) => q <= p
  <2> SUFFICES ASSUME NEW q \in Phases, Reached(build, q), ~(q <= p) PROVE FALSE
    OBVIOUS
  <2>1. p < q
    BY DEF Phases
  <2>2. StatusIn(build, p) = "done"
    BY <2>1 DEF CopiesInv, Copies, Chained
  <2> QED
    BY <2>2
<1>2. \A q \in Phases \ {p} : /\ StatusIn(build', q) = StatusIn(build, q)
                              /\ Reached(build', q) <=> Reached(build, q)
  BY DEF StatusIn, Reached
<1>3. \A b \in Copies : StatusIn(b, p) # "done"
  BY DEF CopiesInv, NotAhead
<1>4. CopyInv(build)'
  <2>1. Chained(build')
    BY <1>1, <1>2 DEF CopiesInv, Copies, Chained, Phases
  <2>2. DoneHasOutcome(build)'
    BY <1>2 DEF CopiesInv, Copies, DoneHasOutcome
  <2>3. CurrentIsLast(build')
    BY <1>1, <1>2 DEF CurrentIsLast, Phases
  <2>4. JobsOfReached(build')
    BY <1>2 DEF CopiesInv, Copies, JobsOfReached
  <2>5. NotAhead(build)'
    BY DEF NotAhead
  <2> QED
    BY <2>1, <2>2, <2>3, <2>4, <2>5 DEF Chained, CurrentIsLast, JobsOfReached, Reached, StatusIn
<1>5. ASSUME NEW b \in Copies PROVE CopyInv(b)'
  <2>1. DoneHasOutcome(b)'
    BY <1>3 DEF CopiesInv, DoneHasOutcome
  <2>2. NotAhead(b)'
    BY <1>2, <1>3 DEF CopiesInv, NotAhead
  <2>3. Chained(b) /\ CurrentIsLast(b) /\ JobsOfReached(b)
    BY DEF CopiesInv
  <2> QED
    BY <2>1, <2>2, <2>3 DEF Chained, CurrentIsLast, JobsOfReached, Reached, StatusIn
<1>6. Copies' \subseteq Copies \cup {build'}
  BY DEF Copies
<1> QED
  BY <1>4, <1>5, <1>6 DEF CopiesInv

\* A job's thread or a request for it changes the job, and may settle its outcome.
JobChanges(p, ks) ==
  /\ \E k \in ks : jobs' = [jobs EXCEPT ![p] = k]
  /\ UNCHANGED <<build, known, file, runner, canceller, begun>>

\* What a job's own thread may do to it: end, be recovered, save its checkpoint and
\* leave; only an ending with an outcome says done.
LEMMA JobThreadIs ==
  ASSUME TypeOK, NEW p \in Phases, JobThread(p)
  PROVE  /\ JobChanges(p, Ended(jobs[p]) \cup Recovered(jobs[p]) \cup Saved(jobs[p]) \cup Left(jobs[p]))
         /\ OutcomesStay
         /\ jobs'[p] \in Ended(jobs[p]) /\ jobs'[p].status = "done" => outcome'[p] # "open"
         /\ \A c \in Counted \ {"recoveries"} : spent'[c] = spent[c]
<1>1. ASSUME NEW k, jobs' = [jobs EXCEPT ![p] = k] PROVE jobs'[p] = k
  BY <1>1 DEF TypeOK
<1>2. CASE JobEnds(p)
  <2>1. PICK k \in Ended(jobs[p]) :
          /\ jobs' = [jobs EXCEPT ![p] = k]
          /\ \/ k.status = "done" /\ outcome' = [outcome EXCEPT ![p] = "finished"]
             \/ k.status = "done" /\ k.cancelled /\ outcome' = [outcome EXCEPT ![p] = "stopped"]
             \/ k.status = "error" /\ UNCHANGED outcome
    BY <1>2 DEF JobEnds
  <2>2. OutcomesStay /\ (k.status = "done" => outcome'[p] # "open")
    BY <2>1 DEF OutcomesStay, TypeOK
  <2> QED
    BY <1>1, <1>2, <2>1, <2>2 DEF JobEnds, JobChanges, NotTheBuild
<1>3. CASE JobRecovers(p)
  <2>1. jobs'[p] \notin Ended(jobs[p]) \/ jobs'[p].status # "done"
    BY <1>1, <1>3 DEF JobRecovers, TypeOK, Recovered, Job
  <2>2. \A c \in Counted \ {"recoveries"} : spent'[c] = spent[c]
    BY <1>3, SpendIs DEF JobRecovers, Counted
  <2> QED
    BY <1>3, <2>1, <2>2 DEF JobRecovers, JobChanges, NotTheBuild, OutcomesStay
<1>4. CASE JobSaves(p)
  <2>1. jobs'[p] \in Ended(jobs[p]) => jobs'[p].status # "done"
    BY <1>1, <1>4 DEF JobSaves, TypeOK, Saved, Ended, Job
  <2> QED
    BY <1>4, <2>1 DEF JobSaves, JobChanges, NotTheBuild, OutcomesStay
<1>5. CASE JobLeaves(p)
  <2>1. jobs'[p] \notin Ended(jobs[p])
    BY <1>1, <1>5 DEF JobLeaves, TypeOK, Left, Ended, Job, Stopped
  <2> QED
    BY <1>5, <2>1 DEF JobLeaves, JobChanges, NotTheBuild, OutcomesStay
<1> QED
  BY <1>2, <1>3, <1>4, <1>5 DEF JobThread

\* What a request may do to the job of a phase: continue, resume or cancel it, which is
\* counted as a request and settles no outcome.
LEMMA JobRequestIs ==
  ASSUME TypeOK, NEW p \in Phases, JobRequest(p)
  PROVE  /\ JobChanges(p, Continued(jobs[p]) \cup Resumed(jobs[p]) \cup Cancelled(jobs[p]))
         /\ build.phases[p].job /\ spent'["requests"] > 0
         /\ \A c \in Counted \ {"requests"} : spent'[c] = spent[c]
         /\ outcome' = outcome
<1>1. spent'["requests"] > 0 /\ \A c \in Counted \ {"requests"} : spent'[c] = spent[c]
  <2>1. spent'["requests"] = spent["requests"] + 1 /\ spent["requests"] \in Nat
        /\ \A c \in Counted \ {"requests"} : spent'[c] = spent[c]
    BY SpendIs DEF JobRequest, Click, Counted, TypeOK
  <2> QED
    BY <2>1
<1> QED
  BY <1>1 DEF JobRequest, JobChanges, NotTheBuild

\* The end of a job changes the phase the thread is at, and nothing else of the build
\* but its status.
LEMMA JudgeIs ==
  ASSUME TypeOK, ThreadInv, Judge
  PROVE  \E s \in {"cancelled", "error", "done"} :
           /\ runner.phase \in Phases /\ Reached(build, runner.phase)
           /\ build'.phases = PhaseBecomes(build, runner.phase, s).phases
           /\ build'.current = build.current /\ build'.cancelled = build.cancelled
           /\ s = "done" => Succeeded(jobs[runner.phase])
           /\ \A q \in Phases : /\ StatusIn(build', q) = IF q = runner.phase THEN s ELSE StatusIn(build, q)
                                /\ build'.phases[q].job = build.phases[q].job
           /\ runner'.snapshot = runner.snapshot /\ runner'.pc = "snapshot"
           /\ IF s = "done" THEN runner'.next = "top" /\ runner'.phase = runner.phase + 1
                            ELSE runner'.next = "idle" /\ runner'.phase = runner.phase
<1>1. runner.phase \in Phases /\ Reached(build, runner.phase) /\ build \in Build /\ runner \in Thread
  BY DEF Judge, ThreadInv, Heading, TypeOK
<1>2. ASSUME NEW s \in {"cancelled", "error", "done"}
      PROVE  LET b == PhaseBecomes(build, runner.phase, s) IN
             /\ b \in Build /\ b.current = build.current /\ b.cancelled = build.cancelled
             /\ \A q \in Phases : /\ StatusIn(b, q) = IF q = runner.phase THEN s ELSE StatusIn(build, q)
                                  /\ b.phases[q].job = build.phases[q].job
  <2>1. s \in PhaseStatus
    BY DEF PhaseStatus
  <2> QED
    BY <1>1, <2>1, PhaseBecomesIs
<1>3. ASSUME NEW b \in Build, NEW status, build' = b \/ build' = [b EXCEPT !.status = status]
      PROVE  build'.phases = b.phases /\ build'.current = b.current /\ build'.cancelled = b.cancelled
  BY <1>3 DEF Build
<1>4. SaveThen("idle") => /\ runner'.snapshot = runner.snapshot /\ runner'.pc = "snapshot"
                          /\ runner'.next = "idle" /\ runner'.phase = runner.phase
  BY <1>1 DEF SaveThen, Thread
<1>5. CASE SeesCancel(build)
  <2> DEFINE b == PhaseBecomes(build, runner.phase, "cancelled")
  <2>1. build' = [b EXCEPT !.status = "cancelled"] /\ SaveThen("idle")
    BY <1>5 DEF Judge
  <2>2. build'.phases = b.phases /\ build'.current = b.current /\ build'.cancelled = b.cancelled
    BY <1>2, <1>3, <2>1
  <2> QED
    BY <1>1, <1>2, <1>4, <2>1, <2>2 DEF StatusIn
<1>6. CASE ~SeesCancel(build) /\ ~Succeeded(jobs[runner.phase])
  <2> DEFINE b == PhaseBecomes(build, runner.phase, "error")
  <2>1. build' = [b EXCEPT !.status = "error"] /\ SaveThen("idle")
    BY <1>6 DEF Judge
  <2>2. build'.phases = b.phases /\ build'.current = b.current /\ build'.cancelled = b.cancelled
    BY <1>2, <1>3, <2>1
  <2> QED
    BY <1>1, <1>2, <1>4, <2>1, <2>2 DEF StatusIn
<1>7. CASE ~SeesCancel(build) /\ Succeeded(jobs[runner.phase])
  <2> DEFINE b == PhaseBecomes(build, runner.phase, "done")
  <2>1. build' = b /\ runner' = [runner EXCEPT !.pc = "snapshot", !.next = "top", !.phase = @ + 1]
    BY <1>7 DEF Judge
  <2>2. runner'.snapshot = runner.snapshot /\ runner'.pc = "snapshot"
        /\ runner'.next = "top" /\ runner'.phase = runner.phase + 1
    BY <1>1, <2>1 DEF Thread
  <2> HIDE DEF b
  <2> QED
    BY <1>1, <1>2, <1>7, <2>1, <2>2 DEF b
<1> QED
  BY <1>5, <1>6, <1>7

\* What every copy satisfies survives the thread of the build ...
LEMMA ThreadKeepsCopies ==
  ASSUME IInv, RunPhases
  PROVE  CopiesInv'
<1> USE DEF IInv
<1>1. Like(build, build) /\ (outcome' = outcome => OutcomesStay)
  BY DEF Like, OutcomesStay
<1>2. ASSUME Like(build', build), outcome' = outcome, UNCHANGED <<file, canceller>>,
             runner'.snapshot \in {runner.snapshot, NewBuild, build}
      PROVE  CopiesInv'
  <2>1. \A b \in Copies' : LikeAny(b, Copies \cup {NewBuild})
    BY <1>2 DEF Copies, LikeAny, Like
  <2> QED
    BY <1>1, <1>2, <2>1, CopiesKept
<1>3. ASSUME runner.phase \in Phases, Heading \in {"select", "job", "ended"}
      PROVE  /\ StatusIn(build, runner.phase) # "done" /\ runner.phase \in Nat
             /\ \A q \in Phases : q < runner.phase => StatusIn(build, q) = "done"
  BY <1>3 DEF ThreadInv, Phases
<1>4. CASE Top \/ AllDone
  <2>1. Like(build', build) /\ runner'.snapshot = runner.snapshot
    BY <1>4 DEF Top, AllDone, Like, SaveThen, Goto, TypeOK, Thread, Build
  <2> QED
    BY <1>2, <1>4, <2>1 DEF Top, AllDone
<1>5. CASE Select
  <2> DEFINE p == runner.phase
  <2>1. p \in Phases /\ Heading = "select"
    BY <1>5 DEF Select, ThreadInv, Heading
  <2>2. PhaseBecomes(build, p, "running") \in Build
    BY <2>1, PhaseBecomesIs DEF TypeOK, PhaseStatus
  <2>3. /\ build'.current = p
        /\ build'.phases = PhaseBecomes(build, p, "running").phases
    BY <1>5, <2>2 DEF Select, Build
  <2>4. /\ StatusIn(build', p) = "running"
        /\ \A q \in Phases \ {p} : build'.phases[q] = build.phases[q]
    BY <2>1, <2>3 DEF PhaseBecomes, TypeOK, Build, StatusIn
  <2>5. runner'.snapshot = runner.snapshot
    BY <1>5 DEF Select, SaveThen, TypeOK, Thread
  <2>6. UNCHANGED <<file, canceller, outcome>>
    BY <1>5 DEF Select
  <2> QED
    BY <1>3, <2>1, <2>3, <2>4, <2>5, <2>6, PhaseChanged DEF Reached, StatusIn
<1>6. CASE Snapshot
  <2>1. runner'.snapshot = build /\ UNCHANGED <<build, file, canceller, outcome>>
    BY <1>6 DEF Snapshot, TypeOK, Thread
  <2> QED
    BY <1>1, <1>2, <2>1
<1>7. CASE Write
  <2>1. runner'.snapshot = NewBuild /\ file' \in {file, runner.snapshot}
    BY <1>7 DEF Write, TypeOK, Thread
  <2>2. UNCHANGED <<build, canceller, outcome>>
    BY <1>7 DEF Write
  <2>3. \A b \in Copies' : LikeAny(b, Copies \cup {NewBuild})
    BY <2>1, <2>2 DEF Copies, LikeAny, Like
  <2> QED
    BY <1>1, <2>2, <2>3, CopiesKept
<1>8. CASE ResumeJob \/ StartJob \/ Poll
  <2>1. runner'.snapshot = runner.snapshot
    BY <1>8 DEF ResumeJob, StartJob, Poll, Goto, TypeOK, Thread
  <2>2. UNCHANGED <<build, file, canceller, outcome>>
    BY <1>8 DEF ResumeJob, StartJob, Poll
  <2> QED
    BY <1>1, <1>2, <2>1, <2>2
<1>9. CASE CreateJob
  <2> DEFINE p == runner.phase
  <2>1. p \in Phases /\ Heading = "job" /\ Reached(build, p)
    BY <1>9 DEF CreateJob, ThreadInv, Heading
  <2>2. /\ build'.current = build.current /\ build.current \in Nat
        /\ StatusIn(build', p) = StatusIn(build, p)
        /\ \A q \in Phases \ {p} : build'.phases[q] = build.phases[q]
    BY <1>9, <2>1 DEF CreateJob, TypeOK, Build, StatusIn
  <2>3. runner'.snapshot = runner.snapshot
    BY <1>9 DEF CreateJob, SaveThen, TypeOK, Thread
  <2>4. /\ UNCHANGED <<file, canceller>>
        /\ \A q \in Phases \ {p} : outcome'[q] = outcome[q]
    BY <1>9 DEF CreateJob, TypeOK
  <2>5. p <= build.current
    BY <2>1 DEF CopiesInv, Copies, CopyInv, CurrentIsLast
  <2> QED
    BY <1>3, <2>1, <2>2, <2>3, <2>4, <2>5, PhaseChanged DEF Reached, StatusIn
<1>10. CASE Judge
  <2> DEFINE p == runner.phase
  <2>1. Heading = "ended"
    BY <1>10 DEF Judge, Heading
  <2>2. PICK s \in {"cancelled", "error", "done"} :
          /\ p \in Phases /\ Reached(build, p)
          /\ build'.phases = PhaseBecomes(build, p, s).phases
          /\ build'.current = build.current
          /\ s = "done" => Succeeded(jobs[p])
          /\ runner'.snapshot = runner.snapshot
    BY <1>10, JudgeIs
  <2>3. /\ StatusIn(build', p) = s /\ build.current \in Nat
        /\ \A q \in Phases \ {p} : build'.phases[q] = build.phases[q]
    BY <2>2 DEF PhaseBecomes, TypeOK, Build, StatusIn
  <2>5. UNCHANGED <<file, canceller, outcome>>
    BY <1>10 DEF Judge
  <2>6. p <= build.current
    BY <2>2 DEF CopiesInv, Copies, CopyInv, CurrentIsLast
  <2>7. s = "done" => outcome[p] # "open"
    BY <2>2 DEF Succeeded, Reported, JobsInv
  <2> QED
    BY <1>3, <2>1, <2>2, <2>3, <2>5, <2>6, <2>7, PhaseChanged DEF Reached, StatusIn
<1> QED
  BY <1>4, <1>5, <1>6, <1>7, <1>8, <1>9, <1>10 DEF RunPhases

\* ... and the request that cancels, the jobs and a crash.
LEMMA OthersKeepCopies ==
  ASSUME IInv, \/ CancelFlag \/ CancelActs \/ CrashAndRestart
               \/ \E p \in Phases : JobThread(p) \/ JobRequest(p)
  PROVE  CopiesInv'
<1> USE DEF IInv
<1>1. outcome' = outcome => OutcomesStay
  BY DEF OutcomesStay
<1>2. CASE CancelFlag
  <2>1. Like(build', build) /\ canceller'.snapshot = canceller.snapshot
    BY <1>2 DEF CancelFlag, Like, TypeOK, Build, Request
  <2>2. \A b \in Copies' : LikeAny(b, Copies \cup {NewBuild})
    BY <1>2, <2>1 DEF CancelFlag, Copies, LikeAny, Like
  <2> QED
    BY <1>1, <1>2, <2>1, <2>2, CopiesKept DEF CancelFlag
<1>3. CASE CancelActs
  <2>1. CASE CancelJob
    <3>1. canceller'.snapshot = canceller.snapshot /\ UNCHANGED <<build, file, runner, outcome>>
      BY <2>1 DEF CancelJob, TypeOK, Request
    <3>2. \A b \in Copies' : LikeAny(b, Copies \cup {NewBuild})
      BY <3>1 DEF Copies, LikeAny, Like
    <3> QED
      BY <1>1, <3>1, <3>2, CopiesKept DEF Like
  <2>2. CASE CancelStatus
    <3>1. Like(build', build) /\ canceller'.snapshot = build'
      BY <2>2 DEF CancelStatus, Like, TypeOK, Build, Request
    <3>2. \A b \in Copies' : LikeAny(b, Copies \cup {NewBuild})
      BY <2>2, <3>1 DEF CancelStatus, Copies, LikeAny, Like
    <3> QED
      BY <1>1, <2>2, <3>1, <3>2, CopiesKept DEF CancelStatus
  <2>3. CASE CancelWrite
    <3>1. canceller'.snapshot = NewBuild /\ build' \in {build, file}
          /\ file' \in {file, canceller.snapshot}
      BY <2>3 DEF CancelWrite, TypeOK, Request
    <3>2. Like(build', build)
      BY <2>3 DEF CancelWrite, ForgottenInv, Like
    <3>3. UNCHANGED <<runner, outcome>>
      BY <2>3 DEF CancelWrite
    <3>4. \A b \in Copies' : LikeAny(b, Copies \cup {NewBuild})
      BY <3>1, <3>3 DEF Copies, LikeAny, Like
    <3> QED
      BY <1>1, <3>2, <3>3, <3>4, CopiesKept
  <2> QED
    BY <1>3, <2>1, <2>2, <2>3 DEF CancelActs
<1>4. CASE CrashAndRestart
  <2>1. build' = file /\ file' = file /\ outcome' = outcome
        /\ runner'.snapshot = NewBuild /\ canceller'.snapshot = NewBuild
    BY <1>4 DEF CrashAndRestart, AtFirstPhase, NoThread, NoCanceller
  <2>2. CopyInv(file)' /\ CopyInv(NewBuild)'
    <3>1. CopyInv(file)
      BY DEF CopiesInv, Copies
    <3>2. CopyInv(file)'
      BY <2>1, <3>1 DEF CopyInv, Chained, DoneHasOutcome, CurrentIsLast, JobsOfReached, NotAhead,
         Reached, StatusIn
    <3>3. CopyInv(NewBuild)'
      BY NewBuildIs DEF CopyInv, Chained, DoneHasOutcome, CurrentIsLast, JobsOfReached, NotAhead,
         Reached, StatusIn
    <3> QED
      BY <3>2, <3>3
  <2> QED
    BY <2>1, <2>2 DEF CopiesInv, Copies
<1>5. ASSUME NEW p \in Phases, JobThread(p) \/ JobRequest(p) PROVE CopiesInv'
  <2>1. UNCHANGED <<build, file, runner, canceller>> /\ OutcomesStay
    BY <1>1, <1>5, JobThreadIs, JobRequestIs DEF JobChanges
  <2>2. \A b \in Copies' : LikeAny(b, Copies \cup {NewBuild})
    BY <2>1 DEF Copies, LikeAny, Like
  <2> QED
    BY <2>1, <2>2, CopiesKept DEF Like
<1> QED
  BY <1>2, <1>3, <1>4, <1>5

-----------------------------------------------------------------------------
(* The thread.                                                             *)

\* The thread is at the first phase that is not done, which has been reached and has
\* a job once the thread has made it so.
LEMMA ThreadKeepsPlace ==
  ASSUME IInv, RunPhases
  PROVE  ThreadInv'
<1> USE DEF IInv
<1>0. runner.phase \in 1 .. NPhases + 1 /\ NPhases \in Nat
  BY PhasedAssumption DEF TypeOK, Thread
<1>1. CASE Top
  <2>1. \A q \in Phases : StatusIn(build', q) = StatusIn(build, q)
    BY <1>1 DEF Top, TypeOK, Build, StatusIn
  <2>2. CASE Skipped(build.phases[runner.phase]) /\ runner' = [runner EXCEPT !.phase = @ + 1]
    <3>1. runner'.phase = runner.phase + 1 /\ runner'.pc = "top"
      BY <1>1, <2>2 DEF Top, TypeOK, Thread
    <3>2. \A q \in Phases : q < runner'.phase => q < runner.phase \/ q = runner.phase
      BY <1>0, <3>1 DEF Phases
    <3> QED
      BY <2>1, <2>2, <3>1, <3>2 DEF Skipped, StatusIn, ThreadInv, Heading
  <2>3. CASE ~Skipped(build.phases[runner.phase]) /\ (SaveThen("idle") \/ Goto("select"))
    <3>1. /\ runner'.phase = runner.phase
          /\ \/ runner'.pc = "select"
             \/ runner'.pc = "snapshot" /\ runner'.next = "idle"
      BY <2>3 DEF SaveThen, Goto, TypeOK, Thread
    <3> QED
      BY <1>1, <2>1, <2>3, <3>1 DEF Top, Skipped, StatusIn, ThreadInv, Heading
  <2> QED
    BY <1>1, <2>2, <2>3 DEF Top
<1>2. CASE AllDone
  <2>1. \A q \in Phases : StatusIn(build', q) = StatusIn(build, q)
    BY <1>2 DEF AllDone, TypeOK, Build, StatusIn
  <2>2. runner'.phase = runner.phase /\ runner'.pc = "snapshot" /\ runner'.next = "idle"
    BY <1>2 DEF AllDone, SaveThen, TypeOK, Thread
  <2> QED
    BY <2>1, <2>2 DEF ThreadInv, Heading
<1>3. CASE Select
  <2>1. runner.phase \in Phases /\ StatusIn(build, runner.phase) # "done"
    BY <1>3 DEF Select, ThreadInv, Heading
  <2>2. \A q \in Phases : StatusIn(build', q) = IF q = runner.phase THEN "running" ELSE StatusIn(build, q)
    BY <1>3, <2>1 DEF Select, PhaseBecomes, TypeOK, Build, StatusIn
  <2>3. runner'.phase = runner.phase /\ runner'.pc = "snapshot" /\ runner'.next = "job"
    BY <1>3 DEF Select, SaveThen, TypeOK, Thread
  <2> QED
    BY <1>0, <2>1, <2>2, <2>3 DEF ThreadInv, Heading, Reached, StatusIn, Phases
<1>4. CASE Snapshot \/ Write
  <2>1. runner'.phase = runner.phase /\ Heading' = Heading /\ build' = build
    BY <1>4 DEF Snapshot, Write, Heading, TypeOK, Thread
  <2> QED
    BY <2>1 DEF ThreadInv, Reached, StatusIn
<1>5. CASE ResumeJob
  <2>1. runner'.phase = runner.phase /\ runner'.pc = "poll" /\ build' = build
    BY <1>5 DEF ResumeJob, Goto, TypeOK, Thread
  <2> QED
    BY <1>5, <2>1 DEF ResumeJob, HasJob, ThreadInv, Heading, Reached, StatusIn
<1>6. CASE CreateJob
  <2>1. runner.phase \in Phases
    BY <1>6 DEF CreateJob, ThreadInv, Heading
  <2>2. /\ \A q \in Phases : StatusIn(build', q) = StatusIn(build, q)
        /\ build'.phases[runner.phase].job
    BY <1>6, <2>1 DEF CreateJob, TypeOK, Build, StatusIn
  <2>3. runner'.phase = runner.phase /\ runner'.pc = "snapshot" /\ runner'.next = "start"
    BY <1>6 DEF CreateJob, SaveThen, TypeOK, Thread
  <2> QED
    BY <1>6, <2>1, <2>2, <2>3 DEF CreateJob, ThreadInv, Heading, Reached, StatusIn
<1>7. CASE StartJob \/ Poll
  <2>1. /\ runner'.phase = runner.phase /\ build' = build
        /\ Heading \in {"start", "poll"} /\ Heading' \in {"poll", "ended"}
    BY <1>7 DEF StartJob, Poll, Goto, Heading, TypeOK, Thread
  <2> QED
    BY <2>1 DEF ThreadInv, Reached, StatusIn
<1>8. CASE Judge
  <2>1. PICK s \in {"cancelled", "error", "done"} :
          /\ runner.phase \in Phases
          /\ \A q \in Phases : StatusIn(build', q) = IF q = runner.phase THEN s ELSE StatusIn(build, q)
          /\ runner'.pc = "snapshot"
          /\ IF s = "done" THEN runner'.next = "top" /\ runner'.phase = runner.phase + 1
                           ELSE runner'.next = "idle" /\ runner'.phase = runner.phase
    BY <1>8, JudgeIs
  <2>4. \A q \in Phases : q < runner.phase + 1 => q < runner.phase \/ q = runner.phase
    BY <2>1 DEF Phases
  <2>5. \A q \in Phases : q < runner.phase => q # runner.phase
    BY <2>1 DEF Phases
  <2> QED
    BY <2>1, <2>4, <2>5 DEF ThreadInv, Heading
<1> QED
  BY <1>1, <1>2, <1>3, <1>4, <1>5, <1>6, <1>7, <1>8 DEF RunPhases

\* Nothing else moves the thread, or the phases under it, but a restart.
LEMMA OthersKeepPlace ==
  ASSUME IInv, \/ CancelFlag \/ CancelActs \/ CrashAndRestart
               \/ \E p \in Phases : JobThread(p) \/ JobRequest(p)
  PROVE  ThreadInv'
<1> USE DEF IInv
<1>1. ASSUME build'.phases = build.phases, runner' = runner PROVE ThreadInv'
  BY <1>1 DEF ThreadInv, Heading, Reached, StatusIn
<1>2. CASE CancelFlag
  BY <1>1, <1>2 DEF CancelFlag, TypeOK, Build
<1>3. CASE CancelActs
  <2>1. build'.phases = build.phases
    BY <1>3 DEF CancelActs, CancelJob, CancelStatus, CancelWrite, ForgottenInv, TypeOK, Build
  <2>2. runner' = runner
    BY <1>3 DEF CancelActs, CancelJob, CancelStatus, CancelWrite
  <2> QED
    BY <1>1, <2>1, <2>2
<1>4. CASE CrashAndRestart
  <2>1. runner'.phase = 1 /\ runner'.pc \in {"top", "idle"}
    BY <1>4 DEF CrashAndRestart, AtFirstPhase, NoThread
  <2>2. \A q \in Phases : ~(q < 1)
    BY DEF Phases
  <2> QED
    BY <2>1, <2>2 DEF ThreadInv, Heading
<1>5. ASSUME NEW p \in Phases, JobThread(p) \/ JobRequest(p) PROVE ThreadInv'
  BY <1>1, <1>5, JobThreadIs, JobRequestIs DEF JobChanges
<1> QED
  BY <1>2, <1>3, <1>4, <1>5

\* A build that no process knows stays as its file has it.
LEMMA ForgottenStep ==
  ASSUME IInv, Next
  PROVE  ForgottenInv'
<1> USE DEF IInv
<1>1. CASE RunPhases
  <2>1. known
    BY <1>1 DEF ForgottenInv, NoThread, AtFirstPhase, RunPhases, Top, AllDone, Select, Snapshot,
       Write, ResumeJob, CreateJob, StartJob, Poll, Judge
  <2>2. known' = known
    BY <1>1 DEF RunPhases, Top, AllDone, Select, Snapshot, Write, ResumeJob,
       CreateJob, StartJob, Poll, Judge
  <2> QED
    BY <2>1, <2>2 DEF ForgottenInv
<1>2. CASE CancelFlag
  <2>1. /\ UNCHANGED <<known, file, runner>> /\ canceller'.pc = "job"
        /\ build'.phases = build.phases /\ build'.current = build.current
    BY <1>2 DEF CancelFlag, TypeOK, Build, Request
  <2> QED
    BY <2>1 DEF ForgottenInv, Resumable
<1>3. CASE CancelActs
  <2>1. CASE CancelJob
    <3>1. UNCHANGED <<known, file, runner, build>> /\ canceller'.pc = "status"
      BY <2>1 DEF CancelJob, TypeOK, Request
    <3> QED
      BY <3>1 DEF ForgottenInv, Resumable
  <2>2. CASE CancelStatus
    <3>1. /\ UNCHANGED <<known, file, runner>> /\ canceller'.snapshot = build'
          /\ build'.phases = build.phases /\ build'.current = build.current
      BY <2>2 DEF CancelStatus, TypeOK, Build, Request
    <3> QED
      BY <3>1 DEF ForgottenInv, Resumable
  <2>3. CASE CancelWrite
    <3>1. /\ UNCHANGED <<known, runner>> /\ canceller'.pc = "idle" /\ canceller.pc = "write"
          /\ \/ file' = canceller.snapshot /\ build' = build
             \/ file' = file /\ build' = IF known THEN build ELSE file
      BY <2>3 DEF CancelWrite, TypeOK, Request
    <3> QED
      BY <3>1 DEF ForgottenInv, Resumable, CancelInv
  <2> QED
    BY <1>3, <2>1, <2>2, <2>3 DEF CancelActs
<1>4. CASE CrashAndRestart
  <2>1. canceller'.pc = "idle"
    BY <1>4 DEF CrashAndRestart, NoCanceller
  <2> QED
    BY <1>4, <2>1 DEF CrashAndRestart, ForgottenInv, Resumable
<1>5. ASSUME NEW p \in Phases, JobThread(p) \/ JobRequest(p) PROVE ForgottenInv'
  <2>1. UNCHANGED <<build, known, file, runner, canceller>>
    BY <1>5, JobThreadIs, JobRequestIs DEF JobChanges
  <2> QED
    BY <2>1 DEF ForgottenInv, Resumable
<1> QED
  BY <1>1, <1>2, <1>3, <1>4, <1>5 DEF Next

-----------------------------------------------------------------------------
(* The jobs.                                                               *)

\* What JobsInv says of one phase
JobInv(p) ==
  /\ Heading = "start" /\ p = runner.phase => jobs[p].status # "none"
  /\ jobs[p].alive => jobs[p].status # "none"
  /\ jobs[p].status = "done" \/ jobs[p].disk = "done" => outcome[p] # "open"
  /\ ~Reached(build, p) => ~jobs[p].alive
  /\ spent["requests"] = 0 /\ StatusIn(build, p) = "done" =>
       ~jobs[p].alive \/ jobs[p].status = "done"
  /\ spent["crashes"] = 0 /\ build.phases[p].job => jobs[p].status # "none"
  /\ spent["crashes"] = 0 /\ StatusIn(build, p) = "done" => jobs[p].status = "done"

\* What is known of the jobs is what is known of each.
LEMMA JobsInvIs == JobsInv <=> \A p \in Phases : JobInv(p)
BY DEF JobsInv, JobInv

\* A step that leaves a job and its phase alone keeps what is known of the job, as long
\* as the thread is not about to start it.
LEMMA JobKept ==
  ASSUME NEW p \in Phases, JobInv(p), jobs'[p] = jobs[p], outcome'[p] = outcome[p],
         build'.phases[p] = build.phases[p],
         Heading' = "start" /\ p = runner'.phase => Heading = "start" /\ p = runner.phase,
         spent'["requests"] = 0 => spent["requests"] = 0,
         spent'["crashes"] = 0 => spent["crashes"] = 0
  PROVE  JobInv(p)'
BY DEF JobInv, Reached, StatusIn

\* The thread creates and continues a job for a phase that is not done, and finds one
\* that is done before the phase is.
LEMMA ThreadKeepsJobs ==
  ASSUME IInv, RunPhases
  PROVE  JobsInv'
<1> USE DEF IInv
<1> SUFFICES ASSUME NEW p \in Phases PROVE JobInv(p)'
  BY DEF JobsInv, JobInv
<1>0. JobInv(p)
  BY JobsInvIs
<1>1. CASE Top \/ AllDone
  <2>1. build'.phases = build.phases /\ Heading' # "start"
    BY <1>1 DEF Top, AllDone, SaveThen, Goto, Heading, TypeOK, Thread, Build
  <2>2. UNCHANGED <<jobs, outcome, spent>>
    BY <1>1 DEF Top, AllDone
  <2> QED
    BY <1>0, <2>1, <2>2, JobKept
<1>2. CASE Select
  <2>1. runner.phase \in Phases
    BY <1>2 DEF Select, ThreadInv, Heading
  <2>2. \A q \in Phases : /\ StatusIn(build', q) = IF q = runner.phase THEN "running" ELSE StatusIn(build, q)
                          /\ build'.phases[q].job = build.phases[q].job
    BY <1>2, <2>1 DEF Select, PhaseBecomes, TypeOK, Build, StatusIn
  <2>3. Heading' = "job"
    BY <1>2 DEF Select, SaveThen, Heading, TypeOK, Thread
  <2>4. UNCHANGED <<jobs, outcome, spent>>
    BY <1>2 DEF Select
  <2> QED
    BY <1>0, <2>2, <2>3, <2>4 DEF JobInv, Reached, StatusIn
<1>3. CASE Snapshot \/ Write
  <2>1. runner'.phase = runner.phase /\ Heading' = Heading /\ build' = build
    BY <1>3 DEF Snapshot, Write, Heading, TypeOK, Thread
  <2>2. UNCHANGED <<jobs, outcome>> /\ \A c \in Counted \ {"lost"} : spent'[c] = spent[c]
    BY <1>3, SpendIs DEF Snapshot, Write, Counted
  <2>3. "requests" \in Counted \ {"lost"} /\ "crashes" \in Counted \ {"lost"}
    BY DEF Counted
  <2> QED
    BY <1>0, <2>1, <2>2, <2>3, JobKept
<1>4. CASE ResumeJob
  <2>1. Heading' = "poll" /\ UNCHANGED <<build, outcome, spent>>
    BY <1>4 DEF ResumeJob, Goto, Heading, TypeOK, Thread
  <2>2. CASE p # runner.phase
    BY <1>0, <1>4, <2>1, <2>2, JobKept DEF ResumeJob
  <2>3. CASE p = runner.phase
    <3>1. jobs'[p] \in AfterResume(jobs[p]) /\ jobs[p] \in Job
      BY <1>4, <2>3 DEF ResumeJob, TypeOK
    <3>2. \/ jobs'[p] = jobs[p]
          \/ jobs'[p] \in Continued(jobs[p]) \cup Resumed(jobs[p]) \cup Cancelled(jobs[p])
      BY <3>1 DEF AfterResume
    <3>3. Reached(build, p) /\ StatusIn(build, p) # "done"
      BY <1>4, <2>3 DEF ResumeJob, ThreadInv, Heading
    <3> QED
      BY <1>0, <2>1, <3>1, <3>2, <3>3, RequestOfJob DEF JobInv, Reached, StatusIn
  <2> QED
    BY <2>2, <2>3
<1>5. CASE CreateJob
  <2>0. runner.phase \in Phases /\ Reached(build, runner.phase) /\ StatusIn(build, runner.phase) # "done"
    BY <1>5 DEF CreateJob, ThreadInv, Heading
  <2>1. /\ \A q \in Phases : StatusIn(build', q) = StatusIn(build, q)
        /\ \A q \in Phases \ {runner.phase} : build'.phases[q] = build.phases[q]
    BY <1>5, <2>0 DEF CreateJob, TypeOK, Build, StatusIn
  <2>2. runner'.phase = runner.phase /\ spent' = spent
    BY <1>5 DEF CreateJob, SaveThen, TypeOK, Thread
  <2>3. CASE p # runner.phase
    <3>1. jobs'[p] = jobs[p] /\ outcome'[p] = outcome[p]
      BY <1>5, <2>3 DEF CreateJob, TypeOK
    <3> QED
      BY <1>0, <2>1, <2>2, <2>3, <3>1, JobKept
  <2>4. CASE p = runner.phase
    <3>1. jobs'[p] = Created
      BY <1>5, <2>4 DEF CreateJob, TypeOK
    <3>2. Reached(build', p) /\ StatusIn(build', p) # "done"
      BY <2>0, <2>1, <2>4 DEF Reached, StatusIn
    <3> QED
      BY <3>1, <3>2, NewJob DEF JobInv
  <2> QED
    BY <2>3, <2>4
<1>6. CASE StartJob
  <2>1. Heading' = "poll" /\ UNCHANGED <<build, outcome, spent>>
    BY <1>6 DEF StartJob, Goto, Heading, TypeOK, Thread
  <2>2. CASE p # runner.phase
    BY <1>0, <1>6, <2>1, <2>2, JobKept DEF StartJob
  <2>3. CASE p = runner.phase
    <3>1. jobs'[p] = Started(jobs[p]) /\ jobs[p] \in Job /\ Heading = "start"
      BY <1>6, <2>3 DEF StartJob, TypeOK, Heading
    <3>2. Reached(build, p) /\ StatusIn(build, p) # "done"
      BY <2>3, <3>1 DEF ThreadInv
    <3> QED
      BY <1>0, <2>1, <2>3, <3>1, <3>2, NewJob DEF JobInv, Reached, StatusIn
  <2> QED
    BY <2>2, <2>3
<1>7. CASE Poll
  <2>1. Heading' = "ended" /\ UNCHANGED <<build, jobs, outcome, spent>>
    BY <1>7 DEF Poll, Goto, Heading, TypeOK, Thread
  <2> QED
    BY <1>0, <2>1, JobKept
<1>8. CASE Judge
  <2>1. PICK s \in {"cancelled", "error", "done"} :
          /\ runner.phase \in Phases /\ Reached(build, runner.phase)
          /\ s = "done" => Succeeded(jobs[runner.phase])
          /\ \A q \in Phases : /\ StatusIn(build', q) = IF q = runner.phase THEN s ELSE StatusIn(build, q)
                               /\ build'.phases[q].job = build.phases[q].job
          /\ runner'.pc = "snapshot" /\ runner'.next \in {"top", "idle"}
    BY <1>8, JudgeIs
  <2>2. UNCHANGED <<jobs, outcome, spent>> /\ Heading' # "start"
    BY <1>8, <2>1 DEF Judge, Heading
  <2>3. build.phases[runner.phase].job
    BY <1>8 DEF Judge, ThreadInv, Heading
  <2>4. s = "done" /\ p = runner.phase =>
          /\ jobs[p].status = "done" \/ (jobs[p].status = "none" /\ ~jobs[p].alive)
          /\ spent["crashes"] = 0 => jobs[p].status = "done"
    BY <1>0, <2>1, <2>3 DEF Succeeded, Reported, JobInv
  <2> QED
    BY <1>0, <2>1, <2>2, <2>4 DEF JobInv, Reached, StatusIn
<1> QED
  BY <1>1, <1>2, <1>3, <1>4, <1>5, <1>6, <1>7, <1>8 DEF RunPhases

\* A job's thread and requests leave a job done that was done; only a crash can take
\* that back, and then no thread works on it.
LEMMA OthersKeepJobs ==
  ASSUME IInv, \/ CancelFlag \/ CancelActs \/ CrashAndRestart
               \/ \E p \in Phases : JobThread(p) \/ JobRequest(p)
  PROVE  JobsInv'
<1> USE DEF IInv
<1> SUFFICES ASSUME NEW p \in Phases PROVE JobInv(p)'
  BY DEF JobsInv, JobInv
<1>0. JobInv(p) /\ jobs[p] \in Job
  BY JobsInvIs DEF TypeOK
<1>1. "requests" \in Counted /\ "crashes" \in Counted /\ "cancels" \in Counted /\ "lost" \in Counted
      /\ "recoveries" \in Counted
  BY DEF Counted
<1>2. CASE CancelFlag
  <2>1. build'.phases = build.phases /\ UNCHANGED <<runner, jobs, outcome>>
    BY <1>2 DEF CancelFlag, TypeOK, Build
  <2>2. spent'["requests"] = spent["requests"] /\ spent'["crashes"] = spent["crashes"]
    BY <1>1, <1>2, SpendIs DEF CancelFlag, Click
  <2> QED
    BY <1>0, <2>1, <2>2, JobKept DEF Heading
<1>3. CASE CancelActs
  <2>1. build'.phases = build.phases /\ UNCHANGED <<runner, outcome>>
    BY <1>3 DEF CancelActs, CancelJob, CancelStatus, CancelWrite, ForgottenInv, TypeOK, Build
  <2>2. spent'["requests"] = spent["requests"] /\ spent'["crashes"] = spent["crashes"]
    BY <1>1, <1>3, SpendIs DEF CancelActs, CancelJob, CancelStatus, CancelWrite
  <2>3. jobs'[p] = jobs[p] \/ jobs'[p] \in Cancelled(jobs[p])
    BY <1>3 DEF CancelActs, CancelJob, CancelStatus, CancelWrite, TypeOK
  <2>4. /\ jobs'[p].alive = jobs[p].alive /\ jobs'[p].status = jobs[p].status
        /\ jobs'[p].disk = "done" => jobs[p].status = "done" \/ jobs[p].disk = "done"
    BY <1>0, <2>3, RequestOfJob
  <2> QED
    BY <1>0, <2>1, <2>2, <2>4 DEF JobInv, Heading, Reached, StatusIn
<1>4. CASE CrashAndRestart
  <2>1. jobs'[p] = Died(jobs[p]) /\ Heading' # "start" /\ outcome' = outcome
    BY <1>4 DEF CrashAndRestart, Heading, AtFirstPhase, NoThread
  <2>2. spent'["crashes"] # 0
    <3>1. spent'["crashes"] = spent["crashes"] + 1 /\ spent["crashes"] \in Nat
      BY <1>1, <1>4, SpendIs DEF CrashAndRestart, TypeOK
    <3> QED
      BY <3>1
  <2> QED
    BY <1>0, <2>1, <2>2, DeadJob DEF JobInv
<1>5. ASSUME NEW q \in Phases, JobThread(q) PROVE JobInv(p)'
  <2>1. /\ JobChanges(q, Ended(jobs[q]) \cup Recovered(jobs[q]) \cup Saved(jobs[q]) \cup Left(jobs[q]))
        /\ jobs'[q] \in Ended(jobs[q]) /\ jobs'[q].status = "done" => outcome'[q] # "open"
        /\ spent'["requests"] = spent["requests"] /\ spent'["crashes"] = spent["crashes"]
        /\ OutcomesStay
    BY <1>1, <1>5, JobThreadIs
  <2>2. CASE p # q
    BY <1>0, <2>1, <2>2 DEF JobInv, JobChanges, OutcomesStay, Heading, Reached, StatusIn
  <2>3. CASE p = q
    <3>1. jobs'[p] \in Ended(jobs[p]) \cup Recovered(jobs[p]) \cup Saved(jobs[p]) \cup Left(jobs[p])
      BY <2>1, <2>3 DEF JobChanges, TypeOK
    <3>2. UNCHANGED <<build, runner>>
      BY <2>1 DEF JobChanges
    <3>3. /\ jobs[p].alive /\ (jobs'[p].status = "none" <=> jobs[p].status = "none")
          /\ jobs[p].status = "done" => jobs'[p].status = "done"
          /\ jobs'[p].status = "done" => jobs[p].status = "done" \/ jobs'[p] \in Ended(jobs[p])
          /\ jobs'[p].disk = "done" => jobs[p].status = "done" \/ jobs[p].disk = "done"
      BY <1>0, <3>1, ThreadOfJob
    <3> QED
      BY <1>0, <2>1, <2>3, <3>2, <3>3 DEF JobInv, OutcomesStay, Heading, Reached, StatusIn
  <2> QED
    BY <2>2, <2>3
<1>6. ASSUME NEW q \in Phases, JobRequest(q) PROVE JobInv(p)'
  <2>1. /\ JobChanges(q, Continued(jobs[q]) \cup Resumed(jobs[q]) \cup Cancelled(jobs[q]))
        /\ build.phases[q].job /\ spent'["requests"] > 0
        /\ spent'["crashes"] = spent["crashes"] /\ outcome' = outcome
        /\ spent["requests"] \in Nat
    BY <1>1, <1>6, JobRequestIs DEF TypeOK
  <2>2. CASE p # q
    BY <1>0, <2>1, <2>2 DEF JobInv, JobChanges, Heading, Reached, StatusIn
  <2>3. CASE p = q
    <3>1. jobs'[p] \in Continued(jobs[p]) \cup Resumed(jobs[p]) \cup Cancelled(jobs[p])
      BY <2>1, <2>3 DEF JobChanges, TypeOK
    <3>2. UNCHANGED <<build, runner>> /\ Reached(build, p) /\ spent'["requests"] # 0
      BY <2>1, <2>3 DEF JobChanges, CopiesInv, Copies, CopyInv, JobsOfReached
    <3>3. /\ jobs'[p].status # "none"
          /\ jobs[p].status = "done" => jobs'[p].status = "done"
          /\ jobs'[p].status = "done" \/ jobs'[p].disk = "done" =>
               jobs[p].status = "done" \/ jobs[p].disk = "done"
      BY <1>0, <3>1, RequestOfJob
    <3> QED
      BY <1>0, <2>1, <2>3, <3>2, <3>3 DEF JobInv, Heading, Reached, StatusIn
  <2> QED
    BY <2>2, <2>3
<1> QED
  BY <1>2, <1>3, <1>4, <1>5, <1>6

-----------------------------------------------------------------------------
(* The request that cancels.                                               *)

\* What the thread leaves alone, and where it goes
LEMMA ThreadMoves ==
  ASSUME IInv, RunPhases
  PROVE  /\ UNCHANGED <<known, canceller>> /\ build'.cancelled = build.cancelled
         /\ \/ build'.current = build.current
            \/ runner.pc = "select" /\ build'.current = runner.phase
         /\ runner'.pc = "select" => ~build.cancelled
<1> USE DEF IInv
<1>0. build \in Build /\ runner \in Thread
  BY DEF TypeOK
<1>1. CASE Top \/ AllDone
  <2>1. UNCHANGED <<known, canceller>>
    BY <1>1 DEF Top, AllDone
  <2>2. build'.cancelled = build.cancelled /\ build'.current = build.current
    BY <1>0, <1>1 DEF Top, AllDone, Build
  <2>3. runner'.pc = "select" => ~build.cancelled
    BY <1>0, <1>1 DEF Top, AllDone, SeesCancel, SaveThen, Goto, Thread
  <2> QED
    BY <2>1, <2>2, <2>3
<1>2. CASE Select
  <2>1. UNCHANGED <<known, canceller>> /\ runner.pc = "select" /\ runner'.pc = "snapshot"
    BY <1>0, <1>2 DEF Select, SaveThen, Thread
  <2>2. build'.cancelled = build.cancelled /\ build'.current = runner.phase
    BY <1>0, <1>2 DEF Select, PhaseBecomes, Build
  <2> QED
    BY <2>1, <2>2
<1>3. CASE \/ Snapshot \/ Write \/ ResumeJob \/ StartJob \/ Poll
  <2>1. UNCHANGED <<known, canceller, build>>
    BY <1>3 DEF Snapshot, Write, ResumeJob, StartJob, Poll
  <2>2. runner'.pc # "select"
    BY <1>0, <1>3 DEF Snapshot, Write, ResumeJob, StartJob, Poll, Goto, Thread
  <2> QED
    BY <2>1, <2>2
<1>4. CASE CreateJob
  <2>1. UNCHANGED <<known, canceller>> /\ runner'.pc = "snapshot"
    BY <1>0, <1>4 DEF CreateJob, SaveThen, Thread
  <2>2. build'.cancelled = build.cancelled /\ build'.current = build.current
    BY <1>0, <1>4 DEF CreateJob, Build
  <2> QED
    BY <2>1, <2>2
<1>5. CASE Judge
  <2>1. UNCHANGED <<known, canceller>>
    BY <1>5 DEF Judge
  <2>2. /\ build'.cancelled = build.cancelled /\ build'.current = build.current
        /\ runner'.pc = "snapshot"
    BY <1>5, JudgeIs
  <2> QED
    BY <2>1, <2>2
<1> QED
  BY <1>1, <1>2, <1>3, <1>4, <1>5 DEF RunPhases

\* When the flag is set, the phase the thread may have chosen is the next one at most.
LEMMA CancelStep ==
  ASSUME IInv, Next
  PROVE  CancelInv'
<1> USE DEF IInv
<1>1. CASE RunPhases
  BY <1>1, ThreadMoves DEF CancelInv
<1>2. CASE CancelFlag
  <2>1. /\ UNCHANGED <<known, runner>> /\ build'.current = build.current
        /\ canceller'.reached = build.current /\ canceller'.pc = "job" /\ build'.cancelled
    BY <1>2 DEF CancelFlag, TypeOK, Build, Request
  <2>2. build.current \in Nat /\ NPhases \in Nat /\ runner.phase \in 1 .. NPhases + 1
    BY PhasedAssumption DEF TypeOK, Build, Thread
  <2>3. runner.phase <= build.current + 1
    <3>1. CASE runner.phase = 1
      BY <2>2, <3>1
    <3>2. CASE runner.phase # 1
      <4>1. runner.phase - 1 \in Phases /\ runner.phase - 1 < runner.phase
        BY <2>2, <3>2 DEF Phases
      <4>2. Reached(build, runner.phase - 1)
        BY <4>1 DEF ThreadInv, StatusIn, Reached
      <4>3. runner.phase - 1 <= build.current
        BY <4>1, <4>2 DEF CopiesInv, Copies, CopyInv, CurrentIsLast
      <4> QED
        BY <2>2, <4>3
    <3> QED
      BY <3>1, <3>2
  <2> QED
    BY <2>1, <2>2, <2>3 DEF CancelInv
<1>3. CASE CancelActs
  <2>1. CASE CancelJob
    BY <2>1 DEF CancelJob, CancelInv, TypeOK, Request
  <2>2. CASE CancelStatus
    <3>1. build.cancelled
      BY <2>2 DEF CancelStatus, CancelInv
    <3>2. build'.cancelled = build.cancelled /\ build'.current = build.current
      BY <2>2 DEF CancelStatus, TypeOK, Build
    <3>3. /\ UNCHANGED <<known, runner>> /\ canceller'.pc = "write" /\ canceller'.snapshot = build'
          /\ canceller'.reached = canceller.reached
      BY <2>2 DEF CancelStatus, TypeOK, Request
    <3> QED
      BY <3>1, <3>2, <3>3 DEF CancelInv
  <2>3. CASE CancelWrite
    <3>1. /\ UNCHANGED <<known, runner>> /\ (known => build' = build)
          /\ canceller'.pc = "idle" /\ canceller'.reached = canceller.reached
      BY <2>3 DEF CancelWrite, TypeOK, Request
    <3> QED
      BY <3>1 DEF CancelInv
  <2> QED
    BY <1>3, <2>1, <2>2, <2>3 DEF CancelActs
<1>4. CASE CrashAndRestart
  BY <1>4 DEF CrashAndRestart, CancelInv, NoCanceller, Resumable
<1>5. ASSUME NEW p \in Phases, JobThread(p) \/ JobRequest(p) PROVE CancelInv'
  BY <1>5, JobThreadIs, JobRequestIs DEF JobChanges, CancelInv
<1> QED
  BY <1>1, <1>2, <1>3, <1>4, <1>5 DEF Next

-----------------------------------------------------------------------------
(* The jobs begun.                                                         *)

\* What BegunInv says of one phase
BegunOnce(p) ==
  /\ begun[p] <= 1
  /\ known /\ begun[p] > 0 => build.phases[p].job
  /\ known /\ begun[p] > 0 => file.cancelled \/ file.phases[p].job
  /\ runner.pc = "write" /\ begun[p] > 0 => runner.snapshot.phases[p].job
  /\ Heading = "start" /\ p = runner.phase =>
       /\ begun[p] = 0
       /\ runner.pc = "write" => runner.snapshot.phases[p].job
       /\ runner.pc = "start" => file.cancelled \/ file.phases[p].job

\* A checkpoint that was lost is not found again.
LEMMA LostStays ==
  ASSUME TypeOK, Next, spent'["lost"] = 0
  PROVE  /\ spent["lost"] = 0
         /\ ~Spend("lost", MaxLost)
<1>1. \A c \in Counted : spent[c] \in Nat
  BY DEF TypeOK
<1>2. ASSUME NEW c \in Counted, NEW max, Spend(c, max)
      PROVE  spent["lost"] = 0 /\ c # "lost"
  <2>1. spent'[c] = spent[c] + 1 /\ \A d \in Counted \ {c} : spent'[d] = spent[d]
    BY <1>2, SpendIs
  <2>2. spent'[c] # 0
    BY <1>1, <2>1
  <2> QED
    BY <2>1, <2>2 DEF Counted
<1>3. {"recoveries", "requests", "cancels", "crashes", "lost"} \subseteq Counted
  BY DEF Counted
<1>4. ~Spend("lost", MaxLost)
  BY <1>2, <1>3
<1>5. spent' = spent \/ \E c \in Counted : \E max : Spend(c, max)
  <2>1. CASE RunPhases
    BY <1>3, <2>1 DEF RunPhases, Top, AllDone, Select, Snapshot, Write, ResumeJob, CreateJob,
       StartJob, Poll, Judge
  <2>2. CASE CancelFlag
    BY <1>3, <2>2 DEF CancelFlag, Click
  <2>3. CASE CancelActs
    BY <1>3, <2>3 DEF CancelActs, CancelJob, CancelStatus, CancelWrite
  <2>4. CASE CrashAndRestart
    BY <1>3, <2>4 DEF CrashAndRestart
  <2>5. ASSUME NEW p \in Phases, JobThread(p) \/ JobRequest(p)
        PROVE  spent' = spent \/ \E c \in Counted : \E max : Spend(c, max)
    BY <1>3, <2>5 DEF JobThread, JobEnds, JobRecovers, JobSaves, JobLeaves, JobRequest, Click
  <2> QED
    BY <2>1, <2>2, <2>3, <2>4, <2>5 DEF Next
<1> QED
  BY <1>2, <1>4, <1>5

\* The thread begins the job of a phase once, after a checkpoint that names it.
LEMMA ThreadBeginsOnce ==
  ASSUME IInv, RunPhases, spent["lost"] = 0, ~Spend("lost", MaxLost), NEW p \in Phases
  PROVE  BegunOnce(p)'
<1> USE DEF IInv
<1>0. BegunOnce(p) /\ begun[p] \in Nat
  BY DEF BegunInv, BegunOnce, TypeOK
<1>1. known
  BY DEF ForgottenInv, NoThread, AtFirstPhase, RunPhases, Top, AllDone, Select, Snapshot,
     Write, ResumeJob, CreateJob, StartJob, Poll, Judge
<1>2. CASE Top \/ AllDone
  <2>1. build'.phases = build.phases /\ Heading' # "start" /\ runner'.pc # "write"
    BY <1>2 DEF Top, AllDone, SaveThen, Goto, Heading, TypeOK, Thread, Build
  <2>2. UNCHANGED <<known, file, begun>>
    BY <1>2 DEF Top, AllDone
  <2> QED
    BY <1>0, <2>1, <2>2 DEF BegunOnce
<1>3. CASE Select
  <2>1. runner.phase \in Phases
    BY <1>3 DEF Select, ThreadInv, Heading
  <2>2. build'.phases[p].job = build.phases[p].job
    BY <1>3, <2>1 DEF Select, PhaseBecomes, TypeOK, Build
  <2>3. Heading' # "start" /\ runner'.pc # "write" /\ UNCHANGED <<known, file, begun>>
    BY <1>3 DEF Select, SaveThen, Heading, TypeOK, Thread
  <2> QED
    BY <1>0, <2>2, <2>3 DEF BegunOnce
<1>4. CASE Snapshot
  <2>1. /\ runner'.pc = "write" /\ runner'.snapshot = build /\ runner'.phase = runner.phase
        /\ Heading' = Heading /\ UNCHANGED <<build, known, file, begun>>
    BY <1>4 DEF Snapshot, Heading, TypeOK, Thread
  <2> QED
    BY <1>0, <1>1, <2>1 DEF BegunOnce, ThreadInv
<1>5. CASE Write
  <2>1. /\ runner.pc = "write" /\ runner'.pc # "write" /\ runner'.phase = runner.phase
        /\ Heading' = Heading /\ file' = runner.snapshot /\ UNCHANGED <<build, known, begun>>
    BY <1>5 DEF Write, Heading, TypeOK, Thread
  <2> QED
    BY <1>0, <2>1 DEF BegunOnce
<1>6. CASE ResumeJob \/ Poll
  <2>1. Heading' # "start" /\ runner'.pc # "write" /\ UNCHANGED <<build, known, file, begun>>
    BY <1>6 DEF ResumeJob, Poll, Goto, Heading, TypeOK, Thread
  <2> QED
    BY <1>0, <2>1 DEF BegunOnce
<1>7. CASE CreateJob
  <2>0. runner.phase \in Phases /\ ~build.phases[runner.phase].job
    BY <1>7 DEF CreateJob, HasJob, ThreadInv, Heading
  <2>1. build'.phases[p].job <=> build.phases[p].job \/ p = runner.phase
    BY <1>7, <2>0 DEF CreateJob, TypeOK, Build
  <2>2. runner'.pc = "snapshot" /\ runner'.phase = runner.phase /\ UNCHANGED <<known, file, begun>>
    BY <1>7 DEF CreateJob, SaveThen, TypeOK, Thread
  <2>3. p = runner.phase => begun[p] = 0
    BY <1>0, <1>1, <2>0 DEF BegunOnce
  <2> QED
    BY <1>0, <2>1, <2>2, <2>3 DEF BegunOnce
<1>8. CASE StartJob
  <2>1. /\ runner'.pc = "poll" /\ Heading' = "poll" /\ UNCHANGED <<build, known, file>>
        /\ begun'[p] = IF p = runner.phase THEN begun[p] + 1 ELSE begun[p]
        /\ runner.pc = "start" /\ Heading = "start"
    BY <1>8 DEF StartJob, Goto, Heading, TypeOK, Thread
  <2>2. CASE p = runner.phase
    BY <1>0, <2>1, <2>2 DEF BegunOnce, ThreadInv
  <2>3. CASE p # runner.phase
    BY <1>0, <2>1, <2>3 DEF BegunOnce
  <2> QED
    BY <2>2, <2>3
<1>9. CASE Judge
  <2>1. /\ \A q \in Phases : build'.phases[q].job = build.phases[q].job
        /\ runner'.pc = "snapshot" /\ runner'.next \in {"top", "idle"}
    BY <1>9, JudgeIs
  <2>2. UNCHANGED <<known, file, begun>>
    BY <1>9 DEF Judge
  <2> QED
    BY <1>0, <2>1, <2>2 DEF BegunOnce, Heading
<1> QED
  BY <1>2, <1>3, <1>4, <1>5, <1>6, <1>7, <1>8, <1>9 DEF RunPhases

\* A cancelling request may put back an older copy, but one no restart goes on from.
LEMMA BegunStep ==
  ASSUME IInv, Next
  PROVE  BegunInv'
<1> USE DEF IInv
<1> SUFFICES ASSUME spent'["lost"] = 0, NEW p \in Phases PROVE BegunOnce(p)'
  BY DEF BegunInv, BegunOnce
<1>0. spent["lost"] = 0 /\ ~Spend("lost", MaxLost)
  BY LostStays
<1>1. BegunOnce(p)
  BY <1>0 DEF BegunInv, BegunOnce
<1>2. CASE RunPhases
  BY <1>0, <1>2, ThreadBeginsOnce
<1>3. CASE CancelFlag
  <2>1. build'.phases = build.phases /\ UNCHANGED <<known, file, runner, begun>>
    BY <1>3 DEF CancelFlag, TypeOK, Build
  <2> QED
    BY <1>1, <2>1 DEF BegunOnce, Heading
<1>4. CASE CancelActs
  <2>1. build'.phases = build.phases /\ UNCHANGED <<known, runner, begun>>
    BY <1>0, <1>4 DEF CancelActs, CancelJob, CancelStatus, CancelWrite, TypeOK, Build
  <2>2. file' = file \/ file'.cancelled
    BY <1>4 DEF CancelActs, CancelJob, CancelStatus, CancelWrite, CancelInv
  <2> QED
    BY <1>1, <2>1, <2>2 DEF BegunOnce, Heading
<1>5. CASE CrashAndRestart
  <2>1. /\ build' = file /\ UNCHANGED <<file, begun>>
        /\ known' => known /\ ~file.cancelled
        /\ runner'.pc \in {"top", "idle"}
    BY <1>5 DEF CrashAndRestart, ForgottenInv, Resumable, AtFirstPhase, NoThread
  <2> QED
    BY <1>1, <2>1 DEF BegunOnce, Heading
<1>6. ASSUME NEW q \in Phases, JobThread(q) \/ JobRequest(q) PROVE BegunOnce(p)'
  BY <1>1, <1>6, JobThreadIs, JobRequestIs DEF JobChanges, BegunOnce, Heading
<1> QED
  BY <1>2, <1>3, <1>4, <1>5, <1>6 DEF Next

-----------------------------------------------------------------------------
(* The invariant, and the properties.                                      *)

\* A build that has just begun satisfies the invariant.
LEMMA InitIInv == Init => IInv
<1> SUFFICES ASSUME Init PROVE IInv
  OBVIOUS
<1>1. TypeOK
  BY InitType
<1>2. /\ build = NewBuild /\ file = NewBuild /\ known /\ runner.snapshot = NewBuild
      /\ canceller.snapshot = NewBuild /\ canceller.pc = "idle"
      /\ runner.pc = "top" /\ runner.phase = 1 /\ Heading = "top"
      /\ \A p \in Phases : jobs[p] = Absent /\ begun[p] = 0
  BY DEF Init, AtFirstPhase, NoCanceller, Heading
<1>3. CopiesInv
  BY <1>2, NewBuildIs DEF CopiesInv, Copies, CopyInv, Chained, DoneHasOutcome, CurrentIsLast,
     JobsOfReached, NotAhead, Reached, StatusIn
<1>4. ThreadInv
  <2>1. \A q \in Phases : ~(q < 1)
    BY DEF Phases
  <2> QED
    BY <1>2, <2>1 DEF ThreadInv
<1>5. ForgottenInv /\ CancelInv
  BY <1>2, NewBuildIs DEF ForgottenInv, CancelInv
<1>6. JobsInv
  BY <1>2, NewBuildIs DEF JobsInv, Absent, StatusIn
<1>7. BegunInv
  BY <1>2 DEF BegunInv
<1> QED
  BY <1>1, <1>3, <1>4, <1>5, <1>6, <1>7 DEF IInv

\* Every step keeps the invariant.
LEMMA NextIInv == IInv /\ [Next]_vars => IInv'
<1> SUFFICES ASSUME IInv, [Next]_vars PROVE IInv'
  OBVIOUS
<1>1. CASE Next
  <2>1. CASE RunPhases
    <3>1. TypeOK'
      BY <2>1, RunnerTypes, JobStepTypes DEF IInv, RunPhases
    <3> QED
      BY <1>1, <2>1, <3>1, ThreadKeepsCopies, ThreadKeepsPlace, ForgottenStep, ThreadKeepsJobs,
         CancelStep, BegunStep DEF IInv
  <2>2. CASE \/ CancelFlag \/ CancelActs \/ CrashAndRestart
             \/ \E p \in Phases : JobThread(p) \/ JobRequest(p)
    <3>1. TypeOK'
      BY <2>2, OtherTypes DEF IInv
    <3> QED
      BY <1>1, <2>2, <3>1, OthersKeepCopies, OthersKeepPlace, ForgottenStep, OthersKeepJobs,
         CancelStep, BegunStep DEF IInv
  <2> QED
    BY <1>1, <2>1, <2>2 DEF Next
<1>2. CASE UNCHANGED vars
  BY <1>2, SMTT(30) DEF vars, IInv, TypeOK, CopiesInv, Copies, CopyInv, Chained, DoneHasOutcome, CurrentIsLast,
     JobsOfReached, NotAhead, ThreadInv, Heading, ForgottenInv, JobsInv, CancelInv, BegunInv,
     Reached, StatusIn
<1> QED
  BY <1>1, <1>2

\* The invariant holds throughout a build, with its cancels, crashes and restarts.
THEOREM Invariance == Spec => []IInv
BY InitIInv, NextIInv, PTL DEF Spec

\* No copy of a build has begun a phase before the jobs of all earlier ones came to
\* done (_run_phases), whatever number of phases, crashes and lost checkpoints.
THEOREM FollowsDone == Spec => []PhasesFollowDoneJobs
<1>1. IInv => PhasesFollowDoneJobs
  <2> SUFFICES ASSUME IInv, NEW b \in {build, file}, NEW p \in Phases, Reached(b, p),
                      NEW q \in 1 .. p - 1
               PROVE  b.phases[q].status = "done" /\ outcome[q] # "open"
    BY DEF PhasesFollowDoneJobs
  <2>1. q \in Phases /\ q < p
    BY PhasedAssumption DEF Phases
  <2> QED
    BY <2>1 DEF IInv, CopiesInv, Copies, CopyInv, Chained, DoneHasOutcome, StatusIn
<1> QED
  BY <1>1, Invariance, PTL

\* cancel(): the thread of a cancelled build begins one more phase at most.
THEOREM CancelIsHeard == Spec => []CancelStopsChain
<1>1. IInv => CancelStopsChain
  BY DEF IInv, CancelInv, CancelStopsChain
<1> QED
  BY <1>1, Invariance, PTL

\* Only the phase the thread is at may have a job at work: a job of an earlier phase
\* is done, and a later phase has none.  A phase's job is begun once.
THEOREM WorkIsDoneOnce == Spec => []OneJobForTheWork
<1>1. IInv => OneJobAtATime
  <2> SUFFICES ASSUME IInv, spent["requests"] = 0 \/ spent["crashes"] = 0
               PROVE  Cardinality({p \in Phases : Working(p)}) <= 1
    BY DEF OneJobAtATime
  <2>1. ASSUME NEW p \in Phases, Working(p)
        PROVE  Reached(build, p) /\ StatusIn(build, p) # "done"
    BY <2>1 DEF IInv, JobsInv, Working, StatusIn
  <2>2. ASSUME NEW p \in Phases, NEW q \in Phases, Working(p), Working(q)
        PROVE  p = q
    <3>1. ~(q < p) /\ ~(p < q)
      BY <2>1, <2>2 DEF IInv, CopiesInv, Copies, CopyInv, Chained
    <3> QED
      BY <3>1 DEF Phases
  <2>3. CASE {p \in Phases : Working(p)} = {}
    BY <2>3, FS_EmptySet
  <2>4. CASE {p \in Phases : Working(p)} # {}
    <3>1. PICK p \in Phases : {q \in Phases : Working(q)} = {p}
      BY <2>2, <2>4
    <3> QED
      BY <3>1, FS_Singleton
  <2> QED
    BY <2>3, <2>4
<1>2. IInv => OneJobPerPhase
  BY DEF IInv, BegunInv, OneJobPerPhase
<1> QED
  BY <1>1, <1>2, Invariance, PTL DEF OneJobForTheWork

=============================================================================
