----------------------------- MODULE Delegation -----------------------------
(***************************************************************************)
(* A delegated worker (backend/agents/tools.py, _delegate_task and         *)
(* _delegate_build): a bounded loop of calls to the models of a ring of    *)
(* its own, through complete_message.  Two levels rotate: the keys of one  *)
(* model inside a call, which all job threads share, and _WorkerSession's  *)
(* models, which start over with fresh keys for a bounded number of laps.  *)
(***************************************************************************)
EXTENDS ModelKeys, Sequences

CONSTANTS
  Workers,          \* calls of delegate_task or delegate_build under way
  WorkerRing,       \* llm.worker_ring()
  MaxWorkerRounds,  \* _MAX_DELEGATE_ROUNDS, _MAX_BUILD_ROUNDS
  MaxWorkerLaps     \* _MAX_WORKER_LAPS

ASSUME DelegationAssumption ==
  /\ WorkerRing \in Seq(Models) /\ WorkerRing # <<>>
  /\ MaxWorkerRounds \in Nat \ {0}
  /\ MaxWorkerLaps \in Nat \ {0}

VARIABLE worker

WorkerReports == {"none", "finished", "stopped at its cap", "unreachable"}

WorkerTypeOK ==
  worker \in [Workers -> [pc    : {"rest", "meter", "asking", "advancing", "over"},
                          index : DOMAIN WorkerRing,
                          lap   : 0 .. MaxWorkerLaps - 1,
                          round : 0 .. MaxWorkerRounds,
                          seen  : Nat,
                          report : WorkerReports]]

WorkerInit ==
  worker = [w \in Workers |->
    [pc |-> "rest", index |-> 1, lap |-> 0, round |-> 0, seen |-> 0, report |-> "none"]]

WorkerModel(w) == WorkerRing[worker[w].index]

Delegate(w) ==
  /\ worker[w].pc = "rest"
  /\ worker' = [worker EXCEPT ![w].pc = "meter"]
  /\ UNCHANGED keyVars

WorkerAsks(w) ==
  /\ worker[w].pc = "meter"
  /\ HasRoom(WorkerModel(w))
  /\ Meter(WorkerModel(w))
  /\ worker' = [worker EXCEPT ![w].pc = "asking"]
  /\ UNCHANGED key

Reported(w, report) == worker' = [worker EXCEPT ![w].pc = "over", ![w].report = report]

\* An answer without tool calls ends the loop; one with tool calls runs them
\* and asks again, up to the cap.
WorkerAnswers(w) ==
  /\ worker[w].pc = "asking"
  /\ \/ Reported(w, "finished")
     \/ /\ worker[w].round + 1 < MaxWorkerRounds
        /\ worker' = [worker EXCEPT ![w].pc = "meter", ![w].round = @ + 1]
     \/ /\ worker[w].round + 1 = MaxWorkerRounds
        /\ Reported(w, "stopped at its cap")
  /\ UNCHANGED keyVars

\* Wrong: a wrap that does not count its lap
RotateUncounted(w) ==
  /\ worker' = [worker EXCEPT ![w].pc = "meter",
                  ![w].index = IF @ < Len(WorkerRing) THEN @ + 1 ELSE 1]
  /\ ResetKeys({ WorkerRing[i] : i \in DOMAIN WorkerRing })

\* _WorkerSession.rotate, and the loop's report when it returns False.
Rotate(w) ==
  IF worker[w].index < Len(WorkerRing)
    THEN worker' = [worker EXCEPT ![w].pc = "meter", ![w].index = @ + 1] /\ UNCHANGED key
    ELSE IF worker[w].lap + 1 >= MaxWorkerLaps
      THEN Reported(w, "unreachable") /\ UNCHANGED key
      ELSE /\ worker' = [worker EXCEPT ![w].pc = "meter", ![w].index = 1, ![w].lap = @ + 1]
           /\ ResetKeys({ WorkerRing[i] : i \in DOMAIN WorkerRing })

\* A key error goes to the next key while there is one; every error that
\* leaves complete_message goes to the next model.
WorkerFails(w) ==
  /\ worker[w].pc = "asking"
  /\ \/ /\ MayAdvance(WorkerModel(w), key[WorkerModel(w)])
        /\ worker' = [worker EXCEPT ![w].pc = "advancing", ![w].seen = key[WorkerModel(w)]]
        /\ UNCHANGED key
     \/ Rotate(w)
  /\ UNCHANGED metered

WorkerNextKey(w) ==
  /\ worker[w].pc = "advancing"
  /\ WriteKey(WorkerModel(w), worker[w].seen)
  /\ worker' = [worker EXCEPT ![w].pc = "asking"]
  /\ UNCHANGED metered

WorkerStep(w) ==
  Delegate(w) \/ WorkerAsks(w) \/ WorkerAnswers(w) \/ WorkerFails(w) \/ WorkerNextKey(w)
=============================================================================
