----------------------------- MODULE ModelStream -----------------------------
(***************************************************************************)
(* One round's answer from a model.  Three nested layers may ask again:    *)
(* _stream_with_key_failover (the next key of the same model), run_round   *)
(* (the next model of the ring, or the same model once more), both only    *)
(* while nothing of the answer has been shown.  The asking happens in a    *)
(* producer thread; the job thread reads its queue under a watchdog, and   *)
(* leaves the producer behind when it gives up, is cut or is cancelled.    *)
(*                                                                         *)
(* A chunk is something the user sees ("text") or not ("args", the         *)
(* arguments of a tool call, or an empty choice).  Errors are "limit" (a   *)
(* rate limit), "auth" (a dead key), "outage" (503, 500, connection) or    *)
(* "other".                                                                *)
(***************************************************************************)
EXTENDS ModelKeys, Sequences, FiniteSets

CONSTANTS
  Jobs,          \* job threads, each in one round
  Ring,          \* llm.failover_ring of the tier, in order
  Favourite,     \* the model each job starts with
  MaxAttempts,   \* run_round's range(1, 9)
  Slots          \* bound: producers of one job alive at once

ASSUME StreamAssumption ==
  /\ Ring \in Seq(Models) /\ Ring # <<>>
  /\ Favourite \in [Jobs -> Models]
  /\ MaxAttempts \in Nat \ {0}
  /\ Slots \in Nat \ {0}

VARIABLES
  round,      \* the job thread in run_round / stream_round
  streams,    \* its producer threads
  queue       \* what the current producer has put for the watchdog

streamVars == <<round, streams, queue>>

InRing == { Ring[i] : i \in DOMAIN Ring }

Errors == {"limit", "auth", "outage", "other"}
KeyErrors == {"limit", "auth"}
Chunks == {"text", "args"}

Outcomes == {"none", "answered", "cut", "cancelled", "error", "unanswered"}

NoStream == [at |-> "none", model |-> Ring[1], key |-> 0, stop |-> FALSE]

StreamTypeOK ==
  /\ \A j \in Jobs :
       /\ round[j].pc \in {"start", "meter", "reading", "over"}
       /\ round[j].model \in Models
       /\ round[j].tried \subseteq Models
       /\ round[j].attempt \in 1 .. MaxAttempts
       /\ round[j].current \in 1 .. Slots
       /\ round[j].cancelled \in BOOLEAN
       /\ round[j].shown \subseteq (1 .. MaxAttempts) \X Nat
       /\ round[j].outcome \in Outcomes
       /\ queue[j] \in {<<>>} \cup { <<x>> : x \in Chunks \cup Errors \cup {"done"} }
  /\ \A p \in Jobs \X (1 .. Slots) :
       /\ streams[p].at \in {"none", "opening", "buffering", "sending", "torn", "advancing"}
       /\ streams[p].model \in Models
       /\ streams[p].key \in Nat
       /\ streams[p].stop \in BOOLEAN

StreamInit ==
  /\ round = [j \in Jobs |->
       [pc |-> "start", model |-> Favourite[j], tried |-> {}, attempt |-> 1, current |-> 1,
        emitted |-> FALSE, cancelled |-> FALSE, shown |-> {}, outcome |-> "none"]]
  /\ streams = [p \in Jobs \X (1 .. Slots) |-> NoStream]
  /\ queue = [j \in Jobs |-> <<>>]

-----------------------------------------------------------------------------
(* The job thread.                                                         *)

BeginRound(j) ==
  /\ round[j].pc = "start"
  /\ round' = [round EXCEPT ![j].pc = "meter", ![j].tried = {round[j].model}]
  /\ UNCHANGED <<streams, queue, key, metered>>

\* llm.stream meters the call and hands the generator to a new producer.
AskModel(j) ==
  /\ round[j].pc = "meter"
  /\ HasRoom(round[j].model)
  /\ Meter(round[j].model)
  /\ \E s \in 1 .. Slots :
       /\ streams[<<j, s>>].at = "none"
       /\ \A lower \in 1 .. s - 1 : streams[<<j, lower>>].at # "none"
       /\ streams' = [streams EXCEPT ![<<j, s>>] =
            [at |-> "opening", model |-> round[j].model, key |-> key[round[j].model], stop |-> FALSE]]
       /\ round' = [round EXCEPT ![j].pc = "reading", ![j].current = s, ![j].emitted = FALSE]
  /\ queue' = [queue EXCEPT ![j] = <<>>]
  /\ UNCHANGED key

LeavesIt(j) == UNCHANGED streams     \* wrong: the producer is not told

\* The watchdog's finally: ask the producer to stop, and close the provider's
\* response, which only reaches one that is already open.
LetGo(j) ==
  LET p == <<j, round[j].current>>
      s == streams[p]
  IN streams' = [streams EXCEPT ![p] =
       IF s.at = "none" THEN s
       ELSE [s EXCEPT !.stop = TRUE,
                      !.at = IF s.at \in {"buffering", "sending"} THEN "torn" ELSE s.at]]

EndRound(j, outcome) == round' = [round EXCEPT ![j].pc = "over", ![j].outcome = outcome]

\* run_round's choice of another model; an empty set when there is none.
NextModels(j) ==
  LET left == { i \in DOMAIN Ring : Ring[i] \notin round[j].tried }
  IN IF left # {}
       THEN { [model |-> Ring[i], tried |-> round[j].tried \cup {Ring[i]}, wrap |-> FALSE]
              : i \in { i \in left : \A o \in left : i <= o } }
       ELSE IF round[j].attempt < MaxAttempts
         THEN { [model |-> Ring[1], tried |-> {Ring[1]}, wrap |-> TRUE] }
         ELSE {}

\* After its last attempt the for loop is over: run_round returns, and no
\* answer was yielded.
NextAttempt(j, model, tried) ==
  round' = [round EXCEPT ![j] =
    IF @.attempt = MaxAttempts
      THEN [@ EXCEPT !.pc = "over", !.outcome = "unanswered", !.model = model, !.tried = tried]
      ELSE [@ EXCEPT !.pc = "meter", !.attempt = round[j].attempt + 1,
                         !.model = model, !.tried = tried]]

\* The except of run_round, for an exception that ends as `outcome` if raised.
AttemptFails(j, error, outcome) ==
  IF round[j].emitted
    THEN EndRound(j, outcome) /\ UNCHANGED key
    ELSE IF error \in {"limit", "outage"} /\ NextModels(j) # {}
      THEN \E n \in NextModels(j) :
             /\ NextAttempt(j, n.model, n.tried)
             /\ IF n.wrap THEN ResetKeys(InRing) ELSE UNCHANGED key
      ELSE /\ IF round[j].attempt >= 2 THEN EndRound(j, outcome)
              ELSE NextAttempt(j, round[j].model, round[j].tried)
           /\ UNCHANGED key

Reads(j, item) ==
  /\ round[j].pc = "reading"
  /\ queue[j] # <<>> /\ Head(queue[j]) = item
  /\ queue' = [queue EXCEPT ![j] = <<>>]
  /\ UNCHANGED metered

\* A chunk reaches the job, and the user if it is text.
ReadChunk(j) ==
  \E chunk \in Chunks :
    /\ Reads(j, chunk)
    /\ ~round[j].cancelled
    /\ round' = IF chunk = "text"
                  THEN [round EXCEPT ![j].emitted = TRUE,
                          ![j].shown = @ \cup {<<round[j].attempt, streams[<<j, round[j].current>>].key>>}]
                  ELSE round
    /\ UNCHANGED <<streams, key>>

\* The break out of the loop on a cancel: what was gathered is the answer,
\* and the round is dropped by its caller.
ReadWhenCancelled(j) ==
  \E chunk \in Chunks :
    /\ Reads(j, chunk)
    /\ round[j].cancelled
    /\ EndRound(j, "cancelled")
    /\ LetGo(j)
    /\ UNCHANGED key

\* A chunk too many for the generation budget or the wall clock of the round.
CutByBudget(j) ==
  \E chunk \in Chunks :
    /\ Reads(j, chunk)
    /\ ~round[j].cancelled
    /\ LetGo(j)
    /\ AttemptFails(j, "other", "cut")

ReadDone(j) ==
  /\ Reads(j, "done")
  /\ EndRound(j, "answered")
  /\ LetGo(j)
  /\ UNCHANGED key

ReadError(j) ==
  \E e \in Errors :
    /\ Reads(j, e)
    /\ LetGo(j)
    /\ AttemptFails(j, e, "error")

\* The watchdog: nothing for _CHUNK_TIMEOUT_SECONDS.  A TimeoutError of its
\* own, which neither classifier of run_round recognises.
WatchdogGivesUp(j) ==
  /\ round[j].pc = "reading"
  /\ queue[j] = <<>>
  /\ LetGo(j)
  /\ AttemptFails(j, "other", "error")
  /\ UNCHANGED <<queue, metered>>

\* The user's cancel only sets the flag.
CancelRound(j) ==
  /\ round[j].pc # "over"
  /\ ~round[j].cancelled
  /\ round' = [round EXCEPT ![j].cancelled = TRUE]
  /\ UNCHANGED <<streams, queue, key, metered>>

-----------------------------------------------------------------------------
(* A producer: _produce over _stream_with_key_failover.                    *)

Current(p) == ~streams[p].stop

\* What a producer puts is read by the watchdog while it is still listening.
Puts(p, item) ==
  IF Current(p) THEN queue[p[1]] = <<>> /\ queue' = [queue EXCEPT ![p[1]] = <<item>>]
                ELSE UNCHANGED queue

Ends(p, item) ==
  /\ streams' = [streams EXCEPT ![p] = NoStream]
  /\ Puts(p, item)

\* The except of the failover: a key error before anything was emitted moves
\* to the next key if there is one, anything else is raised.
RequestFailsOver(p, e) ==     \* wrong: also when chunks were handed out
  IF e \in KeyErrors /\ MayAdvance(streams[p].model, key[streams[p].model])
    THEN /\ streams' = [streams EXCEPT ![p].at = "advancing", ![p].key = key[streams[p].model]]
         /\ UNCHANGED queue
    ELSE Ends(p, e)

RequestFails(p, e) ==
  IF e \in KeyErrors /\ streams[p].at # "sending" /\ MayAdvance(streams[p].model, key[streams[p].model])
    THEN /\ streams' = [streams EXCEPT ![p].at = "advancing", ![p].key = key[streams[p].model]]
         /\ UNCHANGED queue
    ELSE Ends(p, e)

ProviderAccepts(p) ==
  /\ streams[p].at = "opening"
  /\ streams' = [streams EXCEPT ![p].at = "buffering"]
  /\ UNCHANGED <<round, queue, key, metered>>

ProviderFails(p) ==
  /\ streams[p].at \in {"opening", "buffering", "sending"}
  /\ \E e \in Errors : RequestFails(p, e)
  /\ UNCHANGED <<round, key, metered>>

\* A chunk with content ends the buffering; a stopped producer breaks on it
\* and closes the response.
ProviderSends(p) ==
  /\ streams[p].at \in {"buffering", "sending"}
  /\ IF Current(p)
       THEN /\ \E chunk \in Chunks : Puts(p, chunk)
            /\ streams' = [streams EXCEPT ![p].at = "sending"]
       ELSE streams' = [streams EXCEPT ![p] = NoStream] /\ UNCHANGED queue
  /\ UNCHANGED <<round, key, metered>>

ProviderFinishes(p) ==
  /\ streams[p].at = "sending"
  /\ Ends(p, "done")
  /\ UNCHANGED <<round, key, metered>>

\* 200 OK and an immediate stop: chunks without content are treated like a
\* dead key while there is another one, and passed on as an empty answer when
\* there is none; so is a reply without any chunk.
ProviderIsEmpty(p) ==
  /\ streams[p].at = "buffering"
  /\ \/ /\ MayAdvance(streams[p].model, key[streams[p].model])
        /\ streams' = [streams EXCEPT ![p].at = "advancing", ![p].key = key[streams[p].model]]
        /\ UNCHANGED queue
     \/ Ends(p, "done")
  /\ UNCHANGED <<round, key, metered>>

\* The second half of _advance_key, and the request under the new key.
MovesToNextKey(p) ==
  /\ streams[p].at = "advancing"
  /\ WriteKey(streams[p].model, streams[p].key)
  /\ streams' = [streams EXCEPT ![p].at = "opening", ![p].key = @ + 1]
  /\ UNCHANGED <<round, queue, metered>>

\* The next read of a response that was closed under it raises.
TornReadRaises(p) ==
  /\ streams[p].at = "torn"
  /\ streams' = [streams EXCEPT ![p] = NoStream]
  /\ UNCHANGED <<round, queue, key, metered>>

-----------------------------------------------------------------------------
JobStep(j) ==
  \/ BeginRound(j) \/ AskModel(j)
  \/ ReadChunk(j) \/ ReadWhenCancelled(j) \/ CutByBudget(j)
  \/ ReadDone(j) \/ ReadError(j) \/ WatchdogGivesUp(j)

Producing(p) == MovesToNextKey(p) \/ TornReadRaises(p)

Provider(p) ==
  \/ ProviderAccepts(p) \/ ProviderFails(p) \/ ProviderSends(p)
  \/ ProviderFinishes(p) \/ ProviderIsEmpty(p)

StreamNext ==
  \/ \E j \in Jobs : JobStep(j) \/ CancelRound(j)
  \/ \E p \in Jobs \X (1 .. Slots) : Producing(p) \/ Provider(p)

\* Job threads run and the wall clock cuts a stream that never stops.  A
\* producer is only held to its own steps and to the request's 240 s timeout:
\* the provider ends or answers in the end, but need not do it while the
\* watchdog is still waiting.
StreamFairness ==
  /\ \A j \in Jobs : WF_<<streamVars, keyVars>>(JobStep(j)) /\ SF_<<streamVars, keyVars>>(CutByBudget(j))
  /\ \A p \in Jobs \X (1 .. Slots) : WF_<<streamVars, keyVars>>(Producing(p) \/ Provider(p))

-----------------------------------------------------------------------------
\* What one round shows comes from one request: neither the key failover nor
\* run_round nor a producer that was left behind starts over once text of an
\* answer has reached the user (llm.py, _stream_with_key_failover; jobs.py,
\* `if emitted: raise`).
OneSourcePerRound == \A j \in Jobs : Cardinality(round[j].shown) <= 1

\* No request of a finished round stays open for good: the close or the stop
\* flag reaches its producer, and so does the end of a failover that was under
\* way when the round was given up (jobs.py, _stream_with_watchdog).
NothingLeftOpen ==
  \A j \in Jobs : (round[j].pc = "over") ~> (\A s \in 1 .. Slots : streams[<<j, s>>].at = "none")

\* A round whose requests all failed is a stall: "Zero chunks is just as much a
\* stall as some-then-none; both now go through the SAME bounded, checkpointed
\* recovery below" (jobs.py:1814), which run_round reaches by raising.
RoundIsAnsweredOrRaises == \A j \in Jobs : round[j].outcome # "unanswered"
=============================================================================
