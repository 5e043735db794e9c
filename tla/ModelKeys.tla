----------------------------- MODULE ModelKeys -----------------------------
(***************************************************************************)
(* What all job threads share of the LLM client (backend/agents/llm.py):   *)
(* which key of each model is in use, without a lock, and the sliding-     *)
(* window limiter, which has one.  A request is metered under the key that *)
(* was active before it was sent; a failover inside the request is not     *)
(* metered again.                                                          *)
(***************************************************************************)
EXTENDS Naturals

CONSTANTS
  Models,     \* model ids
  LastKey,    \* per model, the last index a failover may reach:
              \* min(len(keys), _MODEL_KEY_LIMIT) - 1
  Limited,    \* models listed in _RATE_LIMITS
  MaxCalls    \* their calls per window

ASSUME KeysAssumption ==
  /\ LastKey \in [Models -> Nat]
  /\ Limited \subseteq Models
  /\ MaxCalls \in Nat \ {0}

VARIABLES
  key,        \* LLMClient._active_key_index; absent reads as 0
  metered     \* _RateLimiter._calls: calls of each bucket inside the window

keyVars == <<key, metered>>

Buckets == UNION { {m} \X (0 .. LastKey[m]) : m \in Limited }

KeyTypeOK ==
  /\ key \in [Models -> Nat]
  /\ \A m \in Models : key[m] <= LastKey[m]
  /\ metered \in [Buckets -> 0 .. MaxCalls]

KeyInit ==
  /\ key     = [m \in Models |-> 0]
  /\ metered = [b \in Buckets |-> 0]

-----------------------------------------------------------------------------
(* _RateLimiter.wait: returns when the bucket has room, else sleeps.       *)

HasRoom(m) == m \in Limited => metered[<<m, key[m]>>] < MaxCalls

Meter(m) ==
  metered' = IF m \in Limited THEN [metered EXCEPT ![<<m, key[m]>>] = @ + 1] ELSE metered

\* The oldest call of a bucket leaves the window.
WindowRolls ==
  /\ \E b \in Buckets : metered[b] > 0 /\ metered' = [metered EXCEPT ![b] = @ - 1]
  /\ UNCHANGED key

-----------------------------------------------------------------------------
(* _advance_key reads the index, and writes its successor in another step: *)
(* nothing keeps a second thread out in between.                           *)

AdvancesPastLast(m, seen) == seen <= LastKey[m]     \* wrong: off by one

MayAdvance(m, seen) == seen < LastKey[m]

WriteKey(m, seen) == key' = [key EXCEPT ![m] = seen + 1]

ResetKeys(ms) == key' = [m \in Models |-> IF m \in ms THEN 0 ELSE key[m]]
=============================================================================
