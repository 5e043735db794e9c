---------------------------- MODULE MCModelStream ----------------------------
(***************************************************************************)
(* A job's round and a delegated worker over the same models and keys.     *)
(***************************************************************************)
EXTENDS ModelStream, Delegation

CONSTANTS j1, big, small, local

MCRing == <<big, small>>
MCRingOfThree == <<big, small, local>>
MCWorkerRing == <<small>>
MCLastKey == [m \in Models |-> IF m = small THEN 1 ELSE 0]
MCFavourite == [j \in Jobs |-> big]

vars == <<streamVars, worker, keyVars>>

Init == KeyInit /\ StreamInit /\ WorkerInit

Working(w) == WorkerStep(w) /\ UNCHANGED streamVars

Next ==
  \/ StreamNext /\ UNCHANGED worker
  \/ \E w \in Workers : Working(w)
  \/ WindowRolls /\ UNCHANGED <<streamVars, worker>>

Spec ==
  /\ Init /\ [][Next]_vars
  /\ StreamFairness
  /\ \A w \in Workers : WF_vars(Working(w))
  /\ WF_vars(WindowRolls /\ UNCHANGED <<streamVars, worker>>)

-----------------------------------------------------------------------------
TypeOK == KeyTypeOK /\ StreamTypeOK /\ WorkerTypeOK

\* Every round and every delegated build ends, whatever silence, errors, empty
\* answers, dead keys and laps of a ring it meets, and although each resets
\* and advances the keys the other is using (jobs.py, run_round; llm.py,
\* _advance_key and reset_keys; tools.py, _WorkerSession.rotate).
EveryAskEnds ==
  /\ \A j \in Jobs : <>(round[j].pc = "over")
  /\ \A w \in Workers : <>(worker[w].pc = "over")

\* ... and so does every request they opened (ModelStream, NothingLeftOpen).
AsksAndResponsesEnd == EveryAskEnds /\ NothingLeftOpen
=============================================================================
