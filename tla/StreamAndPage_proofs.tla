---------------------- MODULE StreamAndPage_proofs ----------------------
(***************************************************************************)
(* What TLAPS proves of the way an answer takes from the provider of the   *)
(* model to the chat page, for any number of jobs, workers, models, keys,  *)
(* attempts and producers left behind, and of conversations, functions of  *)
(* the page and events.                                                    *)
(*                                                                         *)
(* At the provider's end (ModelStream), what one round shows comes from    *)
(* one request, and the index of the key in use stays in its range         *)
(* although it is read and written in two steps.  The round and the        *)
(* producer it listens to are coupled by the queue: a chunk that still     *)
(* waits in it comes from a response that is open, and a producer nobody   *)
(* listens to has been told to stop.                                       *)
(*                                                                         *)
(* At the reader's end (ChatClient), a conversation shows what its jobs    *)
(* told, each event once and in order, over every replay of a log, and     *)
(* keeps its link to a job until all of it has been shown.  One function   *)
(* of the page follows at a time; whatever it is about to read again lies  *)
(* behind the last message of the reader, where the page starts over, and  *)
(* what it has read is shown.                                              *)
(***************************************************************************)
EXTENDS MCModelStream, ChatClient, TLAPS, SequenceTheorems, FiniteSetTheorems, WellFoundedInduction

-----------------------------------------------------------------------------
(* From the provider to the round: the inductive invariant                 *)

Producers == Jobs \X (1 .. Slots)
Item == Chunks \cup Errors \cup {"done"}

Round ==
  [ pc : {"start", "meter", "reading", "over"}, model : Models, tried : SUBSET Models,
    attempt : 1 .. MaxAttempts, current : 1 .. Slots, emitted : BOOLEAN, cancelled : BOOLEAN,
    shown : SUBSET ((1 .. MaxAttempts) \X Nat), outcome : Outcomes ]

Stream ==
  [ at : {"none", "opening", "buffering", "sending", "torn", "advancing"},
    model : Models, key : Nat, stop : BOOLEAN ]

RoundsTyped ==
  /\ round \in [Jobs -> Round]
  /\ streams \in [Producers -> Stream]
  /\ queue \in [Jobs -> {<<>>} \cup { <<x>> : x \in Item }]

\* Who has looked at an index and is about to write its successor saw one that has one.
KeysInv ==
  /\ KeyTypeOK
  /\ WorkerTypeOK
  /\ \A p \in Producers :
       streams[p].at = "advancing" => streams[p].key < LastKey[streams[p].model]
  /\ \A w \in Workers :
       worker[w].pc = "advancing" => worker[w].seen < LastKey[WorkerModel(w)]

Its(j) == streams[<<j, round[j].current>>]

\* A producer that was not told to stop is the one the round listens to.
Heard(j) ==
  /\ \A s \in 1 .. Slots :
       streams[<<j, s>>].at # "none" /\ ~streams[<<j, s>>].stop =>
         round[j].pc = "reading" /\ s = round[j].current
  /\ round[j].pc = "reading" => ~Its(j).stop

\* Only a round that listens has something waiting, a chunk only from an open response.
Waiting(j) ==
  /\ queue[j] # <<>> => round[j].pc = "reading"
  /\ queue[j] # <<>> /\ Head(queue[j]) \in Chunks => Its(j).at = "sending"

\* What has been shown is of one request, and of the open one if there is one.
Showing(j) ==
  /\ \A x, y \in round[j].shown : x = y
  /\ round[j].pc \in {"start", "meter"} => round[j].shown = {}
  /\ round[j].pc = "reading" /\ round[j].shown # {} =>
       /\ round[j].emitted
       /\ Its(j).at \in {"sending", "none"}
       /\ Its(j).at = "sending" => round[j].shown \subseteq {<<round[j].attempt, Its(j).key>>}

RoundInv(j) == Heard(j) /\ Waiting(j) /\ Showing(j)

IInv == RoundsTyped /\ KeysInv /\ \A j \in Jobs : RoundInv(j)

-----------------------------------------------------------------------------
(* One job's steps leave the other rounds alone.                           *)

Leaves(k) ==
  /\ round'[k] = round[k] /\ queue'[k] = queue[k]
  /\ \A s \in 1 .. Slots : streams'[<<k, s>>] = streams[<<k, s>>]

LEMMA Elsewhere ==
  ASSUME RoundsTyped, NEW k \in Jobs, RoundInv(k), Leaves(k)
  PROVE  RoundInv(k)'
<1>1. round[k].current \in 1 .. Slots
  BY DEF RoundsTyped, Round
<1>2. Its(k)' = Its(k)
  BY <1>1 DEF Its, Leaves
<1>3. Heard(k)'
  BY <1>2 DEF RoundInv, Heard, Leaves
<1>4. Waiting(k)' /\ Showing(k)'
  BY <1>2 DEF RoundInv, Waiting, Showing, Leaves
<1> QED
  BY <1>3, <1>4 DEF RoundInv

\* A step of a job writes its round, one of its producers and its queue.
LEMMA OnlyIts ==
  ASSUME RoundsTyped, \A k \in Jobs : RoundInv(k),
         NEW j \in Jobs, NEW i \in 1 .. Slots, NEW r \in Round, NEW s \in Stream,
         NEW q \in {<<>>} \cup { <<x>> : x \in Item },
         round' = [round EXCEPT ![j] = r], streams' = [streams EXCEPT ![<<j, i>>] = s],
         queue' = [queue EXCEPT ![j] = q]
  PROVE  /\ RoundsTyped'
         /\ round'[j] = r /\ streams'[<<j, i>>] = s /\ queue'[j] = q
         /\ \A o \in 1 .. Slots : o # i => streams'[<<j, o>>] = streams[<<j, o>>]
         /\ \A k \in Jobs : k # j => RoundInv(k)'
<1>1. RoundsTyped'
  BY DEF RoundsTyped, Producers
<1>2. <<j, i>> \in Producers /\ \A k \in Jobs, o \in 1 .. Slots : <<k, o>> \in Producers
  BY DEF Producers
<1>3. /\ round'[j] = r /\ streams'[<<j, i>>] = s /\ queue'[j] = q
      /\ \A o \in 1 .. Slots : o # i => streams'[<<j, o>>] = streams[<<j, o>>]
  BY <1>2 DEF RoundsTyped
<1>4. ASSUME NEW k \in Jobs, k # j PROVE RoundInv(k)'
  BY <1>2, <1>4, Elsewhere DEF RoundsTyped, Leaves
<1> QED
  BY <1>1, <1>3, <1>4

\* The same for a step that leaves the producers alone
LEMMA OnlyItsRound ==
  ASSUME RoundsTyped, \A k \in Jobs : RoundInv(k),
         NEW j \in Jobs, NEW r \in Round, NEW q \in {<<>>} \cup { <<x>> : x \in Item },
         round' = [round EXCEPT ![j] = r], queue' = [queue EXCEPT ![j] = q], streams' = streams
  PROVE  /\ RoundsTyped'
         /\ round'[j] = r /\ queue'[j] = q
         /\ \A k \in Jobs : k # j => RoundInv(k)'
<1>1. RoundsTyped'
  BY DEF RoundsTyped
<1>2. round'[j] = r /\ queue'[j] = q
  BY DEF RoundsTyped
<1>3. ASSUME NEW k \in Jobs, k # j PROVE RoundInv(k)'
  BY <1>3, Elsewhere DEF RoundsTyped, Leaves
<1> QED
  BY <1>1, <1>2, <1>3

\* A round that is left alone
LEMMA SameRound ==
  ASSUME RoundsTyped, NEW j \in Jobs
  PROVE  round = [round EXCEPT ![j] = round[j]] /\ queue = [queue EXCEPT ![j] = queue[j]]
BY DEF RoundsTyped

-----------------------------------------------------------------------------
(* The end of listening.                                                   *)

\* What LetGo leaves of the producer in use
LetGoOf(s) ==
  IF s.at = "none" THEN s
  ELSE [s EXCEPT !.stop = TRUE, !.at = IF s.at \in {"buffering", "sending"} THEN "torn" ELSE s.at]

LEMMA LettingGo ==
  ASSUME NEW s \in Stream
  PROVE  /\ LetGoOf(s) \in Stream
         /\ LetGoOf(s).at = "none" \/ LetGoOf(s).stop
         /\ LetGoOf(s).at = "advancing" => s.at = "advancing"
         /\ LetGoOf(s).key = s.key /\ LetGoOf(s).model = s.model
BY DEF LetGoOf, Stream

\* A round that stops listening is over, or asks again before anything was shown.
LEMMA StopsListening ==
  ASSUME RoundsTyped, \A k \in Jobs : RoundInv(k), NEW j \in Jobs, NEW r \in Round,
         round[j].pc = "reading", LetGo(j), round' = [round EXCEPT ![j] = r],
         queue' = [queue EXCEPT ![j] = <<>>],
         r.pc \in {"meter", "over"}, r.shown = round[j].shown,
         r.pc = "meter" => round[j].shown = {}
  PROVE  RoundsTyped' /\ \A k \in Jobs : RoundInv(k)'
<1> DEFINE i == round[j].current
           t == LetGoOf(streams[<<j, i>>])
<1>1. i \in 1 .. Slots /\ streams[<<j, i>>] \in Stream
  BY DEF RoundsTyped, Round, Producers
<1>2. t \in Stream /\ (t.at = "none" \/ t.stop)
  BY <1>1, LettingGo
<1>3. streams' = [streams EXCEPT ![<<j, i>>] = t]
  BY DEF LetGo, LetGoOf
<1> HIDE DEF i, t
<1>4. /\ RoundsTyped'
      /\ round'[j] = r /\ streams'[<<j, i>>] = t /\ queue'[j] = <<>>
      /\ \A o \in 1 .. Slots : o # i => streams'[<<j, o>>] = streams[<<j, o>>]
      /\ \A k \in Jobs : k # j => RoundInv(k)'
  BY <1>1, <1>2, <1>3, OnlyIts
<1>5. Heard(j)'
  BY <1>1, <1>2, <1>4 DEF RoundInv, Heard, i
<1>6. Waiting(j)' /\ Showing(j)'
  BY <1>4 DEF RoundInv, Waiting, Showing
<1> QED
  BY <1>4, <1>5, <1>6 DEF RoundInv

\* run_round asks another model, asks the same one again, or gives up.
LEMMA FailedAttempt ==
  ASSUME RoundsTyped, \A k \in Jobs : RoundInv(k), NEW j \in Jobs,
         round[j].pc = "reading", LetGo(j), queue' = [queue EXCEPT ![j] = <<>>],
         NEW e, NEW o \in Outcomes, AttemptFails(j, e, o)
  PROVE  RoundsTyped' /\ \A k \in Jobs : RoundInv(k)'
<1>1. round[j] \in Round /\ Ring \in Seq(Models) /\ Ring # <<>> /\ MaxAttempts \in Nat
  BY StreamAssumption DEF RoundsTyped
<1>2. CASE EndRound(j, o)
  <2> DEFINE r == [round[j] EXCEPT !.pc = "over", !.outcome = o]
  <2>1. r \in Round /\ r.pc = "over" /\ r.shown = round[j].shown
    BY <1>1 DEF Round
  <2>2. round' = [round EXCEPT ![j] = r]
    BY <1>2 DEF EndRound
  <2> QED
    BY <2>1, <2>2, StopsListening
<1>3. ASSUME NEW m \in Models, NEW tried \in SUBSET Models, NextAttempt(j, m, tried), ~round[j].emitted
      PROVE  RoundsTyped' /\ \A k \in Jobs : RoundInv(k)'
  <2> DEFINE
       r == IF round[j].attempt = MaxAttempts
              THEN [round[j] EXCEPT !.pc = "over", !.outcome = "unanswered", !.model = m, !.tried = tried]
              ELSE [round[j] EXCEPT !.pc = "meter", !.attempt = round[j].attempt + 1,
                                       !.model = m, !.tried = tried]
  <2>1. round[j].attempt # MaxAttempts => round[j].attempt + 1 \in 1 .. MaxAttempts
    BY <1>1 DEF Round
  <2>2. r \in Round /\ r.pc \in {"meter", "over"} /\ r.shown = round[j].shown
    BY <1>1, <2>1 DEF Round, Outcomes
  <2>3. round' = [round EXCEPT ![j] = r]
    BY <1>3 DEF NextAttempt
  <2>4. round[j].shown = {}
    BY <1>3 DEF RoundInv, Showing
  <2> QED
    BY <2>2, <2>3, <2>4, StopsListening
<1>4. round[j].model \in Models /\ round[j].tried \in SUBSET Models
  BY <1>1 DEF Round
<1>5. \A n \in NextModels(j) : n.model \in Models /\ n.tried \in SUBSET Models
  BY <1>1, <1>4 DEF NextModels
<1> QED
  BY <1>2, <1>3, <1>4, <1>5 DEF AttemptFails

-----------------------------------------------------------------------------
(* The steps of a job thread.                                              *)

LEMMA JobKeeps ==
  ASSUME RoundsTyped, KeysInv, \A k \in Jobs : RoundInv(k), NEW j \in Jobs,
         JobStep(j) \/ CancelRound(j)
  PROVE  RoundsTyped' /\ \A k \in Jobs : RoundInv(k)'
<1>1. round[j] \in Round /\ queue[j] \in {<<>>} \cup { <<x>> : x \in Item } /\ RoundInv(j)
  BY DEF RoundsTyped
<1>2. CASE BeginRound(j)
  <2> DEFINE r == [round[j] EXCEPT !.pc = "meter", !.tried = {round[j].model}]
  <2>1. r \in Round
    BY <1>1 DEF Round
  <2>2. round' = [round EXCEPT ![j] = r] /\ queue' = [queue EXCEPT ![j] = queue[j]] /\ streams' = streams
    BY <1>2, SameRound DEF BeginRound
  <2>3. r.pc = "meter" /\ r.shown = round[j].shown /\ r.current = round[j].current
    BY <1>1 DEF Round
  <2> HIDE DEF r
  <2>4. RoundsTyped' /\ round'[j] = r /\ queue'[j] = queue[j] /\ \A k \in Jobs : k # j => RoundInv(k)'
    BY <1>1, <2>1, <2>2, OnlyItsRound
  <2>5. RoundInv(j)'
    BY <1>1, <1>2, <2>3, <2>4 DEF BeginRound, RoundInv, Heard, Waiting, Showing
  <2> QED
    BY <2>4, <2>5
<1>3. CASE AskModel(j)
  <2>1. PICK s \in 1 .. Slots :
          /\ streams[<<j, s>>].at = "none"
          /\ streams' = [streams EXCEPT ![<<j, s>>] =
               [at |-> "opening", model |-> round[j].model, key |-> key[round[j].model], stop |-> FALSE]]
          /\ round' = [round EXCEPT ![j].pc = "reading", ![j].current = s, ![j].emitted = FALSE]
    BY <1>3 DEF AskModel
  <2> DEFINE t == [at |-> "opening", model |-> round[j].model, key |-> key[round[j].model], stop |-> FALSE]
             r == [round[j] EXCEPT !.pc = "reading", !.current = s, !.emitted = FALSE]
  <2>2. r \in Round /\ t \in Stream
    BY <1>1 DEF Round, Stream, KeysInv, KeyTypeOK
  <2>3. r.pc = "reading" /\ r.current = s /\ r.shown = round[j].shown
    BY <1>1 DEF Round
  <2>4. t.at = "opening" /\ ~t.stop
    OBVIOUS
  <2>5. round' = [round EXCEPT ![j] = r] /\ streams' = [streams EXCEPT ![<<j, s>>] = t]
    BY <2>1
  <2>6. /\ queue' = [queue EXCEPT ![j] = <<>>] /\ round[j].pc = "meter"
        /\ <<>> \in {<<>>} \cup { <<x>> : x \in Item }
    BY <1>3 DEF AskModel
  <2> HIDE DEF r, t
  <2>7. /\ RoundsTyped'
        /\ round'[j] = r /\ streams'[<<j, s>>] = t /\ queue'[j] = <<>>
        /\ \A o \in 1 .. Slots : o # s => streams'[<<j, o>>] = streams[<<j, o>>]
        /\ \A k \in Jobs : k # j => RoundInv(k)'
    BY <2>2, <2>5, <2>6, OnlyIts
  <2>8. Heard(j)'
    BY <1>1, <2>3, <2>4, <2>6, <2>7 DEF RoundInv, Heard, Its
  <2>9. Waiting(j)' /\ Showing(j)'
    BY <1>1, <2>3, <2>6, <2>7 DEF RoundInv, Waiting, Showing
  <2> QED
    BY <2>7, <2>8, <2>9 DEF RoundInv
<1>4. CASE ReadChunk(j)
  <2>1. PICK chunk \in Chunks : Reads(j, chunk) /\
          round' = IF chunk = "text"
                     THEN [round EXCEPT ![j].emitted = TRUE,
                             ![j].shown = @ \cup {<<round[j].attempt, streams[<<j, round[j].current>>].key>>}]
                     ELSE round
    BY <1>4 DEF ReadChunk
  <2> DEFINE new == <<round[j].attempt, Its(j).key>>
             r == IF chunk = "text"
                    THEN [round[j] EXCEPT !.emitted = TRUE, !.shown = @ \cup {new}] ELSE round[j]
  <2>2. Its(j) \in Stream
    BY <1>1 DEF RoundsTyped, Producers, Round, Its
  <2>3. new \in (1 .. MaxAttempts) \X Nat
    BY <1>1, <2>2 DEF Round, Stream
  <2>4. r \in Round
    <3> HIDE DEF new
    <3> QED
      BY <1>1, <2>3 DEF Round
  <2>5. /\ r.pc = round[j].pc /\ r.current = round[j].current /\ r.attempt = round[j].attempt
        /\ chunk = "text" => r.emitted /\ r.shown = round[j].shown \cup {new}
        /\ chunk # "text" => r.emitted = round[j].emitted /\ r.shown = round[j].shown
    <3> HIDE DEF new
    <3> QED
      BY <1>1 DEF Round
  <2>6. round' = [round EXCEPT ![j] = r]
    BY <2>1, SameRound DEF Its
  <2>7. /\ round[j].pc = "reading" /\ Its(j).at = "sending" /\ queue' = [queue EXCEPT ![j] = <<>>]
        /\ streams' = streams
    BY <1>1, <1>4, <2>1 DEF Reads, ReadChunk, RoundInv, Waiting
  <2> HIDE DEF r
  <2>8. RoundsTyped' /\ round'[j] = r /\ queue'[j] = <<>> /\ \A k \in Jobs : k # j => RoundInv(k)'
    BY <2>4, <2>6, <2>7, OnlyItsRound
  <2>9. Its(j)' = Its(j)
    BY <2>5, <2>7, <2>8 DEF Its
  <2>10. round[j].shown = {} \/ round[j].shown \subseteq {new}
    BY <1>1, <2>7 DEF RoundInv, Showing
  <2>11. Heard(j)' /\ Waiting(j)'
    BY <1>1, <2>5, <2>7, <2>8, <2>9 DEF RoundInv, Heard, Waiting
  <2>12. Showing(j)'
    BY <1>1, <2>5, <2>7, <2>8, <2>9, <2>10 DEF RoundInv, Showing
  <2> QED
    BY <2>8, <2>11, <2>12 DEF RoundInv
<1>5. CASE ReadWhenCancelled(j)
  <2>1. /\ round[j].pc = "reading" /\ queue' = [queue EXCEPT ![j] = <<>>]
        /\ LetGo(j) /\ EndRound(j, "cancelled")
    BY <1>5 DEF ReadWhenCancelled, Reads
  <2> DEFINE r == [round[j] EXCEPT !.pc = "over", !.outcome = "cancelled"]
  <2>2. r \in Round /\ r.pc = "over" /\ r.shown = round[j].shown
    BY <1>1 DEF Round, Outcomes
  <2>3. round' = [round EXCEPT ![j] = r]
    BY <2>1 DEF EndRound
  <2> QED
    BY <2>1, <2>2, <2>3, StopsListening
<1>6. CASE CutByBudget(j)
  <2>1. /\ round[j].pc = "reading" /\ queue' = [queue EXCEPT ![j] = <<>>]
        /\ LetGo(j) /\ AttemptFails(j, "other", "cut")
    BY <1>6 DEF CutByBudget, Reads
  <2> QED
    BY <2>1, FailedAttempt DEF Outcomes
<1>7. CASE ReadDone(j)
  <2>1. /\ round[j].pc = "reading" /\ queue' = [queue EXCEPT ![j] = <<>>]
        /\ LetGo(j) /\ EndRound(j, "answered")
    BY <1>7 DEF ReadDone, Reads
  <2> DEFINE r == [round[j] EXCEPT !.pc = "over", !.outcome = "answered"]
  <2>2. r \in Round /\ r.pc = "over" /\ r.shown = round[j].shown
    BY <1>1 DEF Round, Outcomes
  <2>3. round' = [round EXCEPT ![j] = r]
    BY <2>1 DEF EndRound
  <2> QED
    BY <2>1, <2>2, <2>3, StopsListening
<1>8. CASE ReadError(j)
  <2>1. PICK e \in Errors : /\ round[j].pc = "reading" /\ queue' = [queue EXCEPT ![j] = <<>>]
                            /\ LetGo(j) /\ AttemptFails(j, e, "error")
    BY <1>8 DEF ReadError, Reads
  <2> QED
    BY <2>1, FailedAttempt DEF Outcomes
<1>9. CASE WatchdogGivesUp(j)
  <2>1. /\ round[j].pc = "reading" /\ queue' = [queue EXCEPT ![j] = <<>>]
        /\ LetGo(j) /\ AttemptFails(j, "other", "error")
    BY <1>9, SameRound DEF WatchdogGivesUp
  <2> QED
    BY <2>1, FailedAttempt DEF Outcomes
<1>10. CASE CancelRound(j)
  <2> DEFINE r == [round[j] EXCEPT !.cancelled = TRUE]
  <2>1. r \in Round
    BY <1>1 DEF Round
  <2>2. round' = [round EXCEPT ![j] = r] /\ queue' = [queue EXCEPT ![j] = queue[j]] /\ streams' = streams
    BY <1>10, SameRound DEF CancelRound
  <2>3. /\ r.pc = round[j].pc /\ r.shown = round[j].shown /\ r.current = round[j].current
        /\ r.attempt = round[j].attempt /\ r.emitted = round[j].emitted
    BY <1>1 DEF Round
  <2> HIDE DEF r
  <2>4. RoundsTyped' /\ round'[j] = r /\ queue'[j] = queue[j] /\ \A k \in Jobs : k # j => RoundInv(k)'
    BY <1>1, <2>1, <2>2, OnlyItsRound
  <2>5. RoundInv(j)'
    BY <1>1, <2>2, <2>3, <2>4 DEF RoundInv, Heard, Waiting, Showing, Its
  <2> QED
    BY <2>4, <2>5
<1> QED
  BY <1>2, <1>3, <1>4, <1>5, <1>6, <1>7, <1>8, <1>9, <1>10 DEF JobStep

-----------------------------------------------------------------------------
(* The steps of a producer.                                                *)

\* What a step of a producer may make of it and of the queue: one that was told to stop
\* puts nothing, and one that has handed out chunks goes on with the same request or ends.
Produces(s, t, q, r) ==
  /\ s.at # "none"
  /\ t.stop => s.stop
  /\ s.stop => t.stop \/ t.at = "none"
  /\ s.at = "sending" => t.at = "none" \/ (t.at = "sending" /\ t.key = s.key)
  /\ s.stop => r = q
  /\ r = q \/ q = <<>>
  /\ r # <<>> /\ Head(r) \in Chunks => s.stop \/ t.at = "sending"

LEMMA ProducerKeepsRounds ==
  ASSUME RoundsTyped, \A k \in Jobs : RoundInv(k), NEW j \in Jobs, NEW i \in 1 .. Slots,
         NEW t \in Stream, NEW r \in {<<>>} \cup { <<x>> : x \in Item },
         round' = round, streams' = [streams EXCEPT ![<<j, i>>] = t],
         queue' = [queue EXCEPT ![j] = r], Produces(streams[<<j, i>>], t, queue[j], r)
  PROVE  RoundsTyped' /\ \A k \in Jobs : RoundInv(k)'
<1>1. round[j] \in Round /\ round' = [round EXCEPT ![j] = round[j]] /\ RoundInv(j)
  BY DEF RoundsTyped
<1>2. /\ RoundsTyped'
      /\ round'[j] = round[j] /\ streams'[<<j, i>>] = t /\ queue'[j] = r
      /\ \A o \in 1 .. Slots : o # i => streams'[<<j, o>>] = streams[<<j, o>>]
      /\ \A k \in Jobs : k # j => RoundInv(k)'
  BY <1>1, OnlyIts
<1>3. round[j].current \in 1 .. Slots
  BY <1>1 DEF Round
<1> DEFINE s == streams[<<j, i>>]
<1>4. CASE s.stop
  <2>1. round[j].pc = "reading" => round[j].current # i
    BY <1>1, <1>4 DEF RoundInv, Heard, Its
  <2>2. round[j].pc = "reading" => Its(j)' = Its(j)
    BY <1>2, <1>3, <2>1 DEF Its
  <2>3. Heard(j)'
    <3>1. t.stop \/ t.at = "none"
      BY <1>4 DEF Produces
    <3>2. ASSUME NEW o \in 1 .. Slots, streams'[<<j, o>>].at # "none", ~streams'[<<j, o>>].stop
          PROVE  round[j].pc = "reading" /\ o = round[j].current
      <4>1. o # i
        BY <1>2, <3>1, <3>2
      <4>2. streams'[<<j, o>>] = streams[<<j, o>>]
        BY <1>2, <4>1
      <4> QED
        BY <1>1, <3>2, <4>2 DEF RoundInv, Heard
    <3> QED
      BY <1>1, <1>2, <2>2, <3>2 DEF RoundInv, Heard
  <2>4. Waiting(j)' /\ Showing(j)'
    BY <1>1, <1>2, <1>4, <2>2 DEF RoundInv, Waiting, Showing, Produces
  <2> QED
    BY <1>2, <2>3, <2>4 DEF RoundInv
<1>5. CASE ~s.stop
  <2>1. round[j].pc = "reading" /\ round[j].current = i
    BY <1>1, <1>5 DEF RoundInv, Heard, Produces
  <2>2. Its(j) = s /\ Its(j)' = t
    BY <1>2, <2>1 DEF Its
  <2>3. Heard(j)'
    <3>1. ~t.stop
      BY <1>5 DEF Produces
    <3>2. ASSUME NEW o \in 1 .. Slots, o # i, streams'[<<j, o>>].at # "none", ~streams'[<<j, o>>].stop
          PROVE  FALSE
      BY <1>1, <1>2, <2>1, <3>2 DEF RoundInv, Heard
    <3> QED
      BY <1>2, <2>1, <2>2, <3>1, <3>2 DEF Heard
  <2>4. Waiting(j)'
    BY <1>1, <1>2, <1>5, <2>1, <2>2 DEF RoundInv, Waiting, Produces
  <2>5. Showing(j)'
    BY <1>1, <1>2, <1>5, <2>1, <2>2 DEF RoundInv, Showing, Produces
  <2> QED
    BY <1>2, <2>3, <2>4, <2>5 DEF RoundInv
<1> QED
  BY <1>4, <1>5

\* A producer that is gone, and the items it can leave
LEMMA Gone ==
  /\ NoStream \in Stream /\ NoStream.at = "none" /\ ~NoStream.stop
  /\ \A x \in Item : <<x>> # <<>> /\ Head(<<x>>) = x
  /\ \A x \in Errors \cup {"done"} : x \in Item \ Chunks
<1>1. Ring[1] \in Models
  BY StreamAssumption
<1> QED
  BY <1>1 DEF NoStream, Stream, Item, Errors, Chunks

\* The end of a producer, with what it puts last
LEMMA EndingKeeps ==
  ASSUME RoundsTyped, \A k \in Jobs : RoundInv(k), NEW j \in Jobs, NEW i \in 1 .. Slots,
         NEW x \in Errors \cup {"done"}, streams[<<j, i>>].at # "none",
         round' = round, Ends(<<j, i>>, x)
  PROVE  RoundsTyped' /\ \A k \in Jobs : RoundInv(k)'
<1> DEFINE s == streams[<<j, i>>]
<1>1. streams' = [streams EXCEPT ![<<j, i>>] = NoStream] /\ s \in Stream /\ x \in Item
  BY Gone DEF Ends, RoundsTyped, Producers
<1>2. queue[j] \in {<<>>} \cup { <<y>> : y \in Item }
  BY DEF RoundsTyped
<1>3. CASE s.stop
  <2>1. queue' = [queue EXCEPT ![j] = queue[j]]
    <3>1. Puts(<<j, i>>, x) /\ ~Current(<<j, i>>)
      BY <1>3 DEF Ends, Current
    <3>2. queue' = queue
      BY <3>1 DEF Puts
    <3> QED
      BY <3>2, SameRound
  <2>2. Produces(s, NoStream, queue[j], queue[j])
    BY <1>3, Gone, Zenon DEF Produces
  <2> QED
    BY <1>1, <1>2, <2>1, <2>2, Gone, ProducerKeepsRounds
<1>4. CASE ~s.stop
  <2>1. queue[j] = <<>> /\ queue' = [queue EXCEPT ![j] = <<x>>]
    <3>1. Puts(<<j, i>>, x) /\ Current(<<j, i>>) /\ <<j, i>>[1] = j
      BY <1>4 DEF Ends, Current
    <3> QED
      BY <3>1 DEF Puts
  <2>2. Produces(s, NoStream, queue[j], <<x>>)
    <3>1. Head(<<x>>) \notin Chunks
      BY <1>1, Gone
    <3> QED
      BY <1>4, <2>1, <3>1, Gone, Zenon DEF Produces
  <2>3. <<x>> \in {<<>>} \cup { <<y>> : y \in Item }
    BY <1>1
  <2> QED
    BY <1>1, <2>1, <2>2, <2>3, Gone, ProducerKeepsRounds
<1> QED
  BY <1>3, <1>4

\* A step that tells nobody, and is not taken once chunks were handed out
LEMMA QuietStepKeeps ==
  ASSUME RoundsTyped, \A k \in Jobs : RoundInv(k), NEW j \in Jobs, NEW i \in 1 .. Slots,
         NEW t \in Stream, round' = round, queue' = queue,
         streams' = [streams EXCEPT ![<<j, i>>] = t],
         streams[<<j, i>>].at \notin {"none", "sending"}, t.stop = streams[<<j, i>>].stop
  PROVE  RoundsTyped' /\ \A k \in Jobs : RoundInv(k)'
<1> DEFINE s == streams[<<j, i>>]
<1>1. s \in Stream /\ queue[j] \in {<<>>} \cup { <<y>> : y \in Item } /\ RoundInv(j)
  BY DEF RoundsTyped, Producers
<1>2. queue' = [queue EXCEPT ![j] = queue[j]]
  BY SameRound
<1>3. queue[j] # <<>> /\ Head(queue[j]) \in Chunks => s.stop
  BY <1>1 DEF RoundInv, Heard, Waiting, Its
<1>4. Produces(s, t, queue[j], queue[j])
  BY <1>3 DEF Produces
<1> QED
  BY <1>1, <1>2, <1>4, ProducerKeepsRounds

LEMMA ProducerKeeps ==
  ASSUME RoundsTyped, KeysInv, \A k \in Jobs : RoundInv(k), NEW p \in Producers,
         Producing(p) \/ Provider(p)
  PROVE  RoundsTyped' /\ \A k \in Jobs : RoundInv(k)'
<1>1. PICK j \in Jobs, i \in 1 .. Slots : p = <<j, i>>
  BY DEF Producers
<1> DEFINE s == streams[<<j, i>>]
<1>2. s \in Stream /\ p[1] = j
  BY <1>1 DEF RoundsTyped, Producers
<1>3. /\ queue[j] \in {<<>>} \cup { <<y>> : y \in Item }
      /\ queue = [queue EXCEPT ![j] = queue[j]] /\ RoundInv(j)
  BY DEF RoundsTyped
<1>4. \A m \in Models : key[m] \in Nat
  BY DEF KeysInv, KeyTypeOK
\* On to the next key, with the index as it was seen
<1>5. ASSUME s.at \notin {"none", "sending"}, round' = round, queue' = queue,
             streams' = [streams EXCEPT ![p].at = "advancing", ![p].key = key[s.model]]
      PROVE  RoundsTyped' /\ \A k \in Jobs : RoundInv(k)'
  <2> DEFINE t == [s EXCEPT !.at = "advancing", !.key = key[s.model]]
  <2>1. t \in Stream /\ t.stop = s.stop
    BY <1>2, <1>4 DEF Stream
  <2>2. streams' = [streams EXCEPT ![<<j, i>>] = t]
    BY <1>1, <1>5
  <2>3. /\ streams[<<j, i>>].at \notin {"none", "sending"} /\ t.stop = streams[<<j, i>>].stop
        /\ round' = round /\ queue' = queue
    BY <1>1, <1>5, <2>1
  <2> HIDE DEF t, s
  <2> QED
    BY <2>1, <2>2, <2>3, QuietStepKeeps
<1>6. CASE MovesToNextKey(p)
  <2> DEFINE t == [s EXCEPT !.at = "opening", !.key = s.key + 1]
  <2>1. s.key + 1 \in Nat
    BY <1>2 DEF Stream
  <2>2. t \in Stream /\ t.stop = s.stop
    BY <1>2, <2>1 DEF Stream
  <2>3. /\ streams' = [streams EXCEPT ![<<j, i>>] = t] /\ round' = round /\ queue' = queue
        /\ s.at = "advancing"
    BY <1>1, <1>6 DEF MovesToNextKey
  <2>4. streams[<<j, i>>].at \notin {"none", "sending"} /\ t.stop = streams[<<j, i>>].stop
    BY <1>1, <2>2, <2>3
  <2> HIDE DEF t, s
  <2> QED
    BY <2>2, <2>3, <2>4, QuietStepKeeps
<1>7. CASE TornReadRaises(p)
  <2>1. /\ streams' = [streams EXCEPT ![<<j, i>>] = NoStream] /\ round' = round /\ queue' = queue
        /\ s.at = "torn"
    BY <1>1, <1>7 DEF TornReadRaises
  <2>2. queue[j] # <<>> /\ Head(queue[j]) \in Chunks => s.stop
    BY <1>3, <2>1 DEF RoundInv, Heard, Waiting, Its
  <2>3. Produces(s, NoStream, queue[j], queue[j])
    BY <2>1, <2>2, Gone DEF Produces
  <2> QED
    BY <1>3, <2>1, <2>3, Gone, ProducerKeepsRounds
<1>8. CASE ProviderAccepts(p)
  <2> DEFINE t == [s EXCEPT !.at = "buffering"]
  <2>1. t \in Stream /\ t.stop = s.stop
    BY <1>2 DEF Stream
  <2>2. /\ streams' = [streams EXCEPT ![<<j, i>>] = t] /\ round' = round /\ queue' = queue
        /\ s.at = "opening"
    BY <1>1, <1>8 DEF ProviderAccepts
  <2>3. streams[<<j, i>>].at \notin {"none", "sending"} /\ t.stop = streams[<<j, i>>].stop
    BY <1>1, <2>1, <2>2
  <2> HIDE DEF t, s
  <2> QED
    BY <2>1, <2>2, <2>3, QuietStepKeeps
<1>9. CASE ProviderFails(p)
  <2>1. PICK e \in Errors : RequestFails(p, e)
    BY <1>9 DEF ProviderFails
  <2>2. round' = round /\ s.at # "none"
    BY <1>1, <1>9 DEF ProviderFails
  <2>3. CASE Ends(p, e)
    BY <1>1, <2>2, <2>3, EndingKeeps
  <2>4. CASE /\ s.at # "sending" /\ queue' = queue
             /\ streams' = [streams EXCEPT ![p].at = "advancing", ![p].key = key[s.model]]
    BY <1>5, <2>2, <2>4
  <2> QED
    BY <1>1, <2>1, <2>3, <2>4 DEF RequestFails
<1>10. CASE ProviderSends(p)
  <2>1. round' = round /\ s.at \in {"buffering", "sending"}
    BY <1>1, <1>10 DEF ProviderSends
  <2>2. CASE s.stop
    <3>1. streams' = [streams EXCEPT ![<<j, i>>] = NoStream] /\ queue' = queue
      <4>1. ~Current(p)
        BY <1>1, <2>2 DEF Current
      <4> QED
        BY <1>1, <1>10, <4>1 DEF ProviderSends
    <3>2. Produces(s, NoStream, queue[j], queue[j])
      <4>1. s.at # "none" /\ s.at # "advancing"
        BY <2>1
      <4> QED
        BY <2>2, <4>1, Gone, Zenon DEF Produces
    <3> QED
      BY <1>3, <2>1, <3>1, <3>2, Gone, ProducerKeepsRounds
  <2>3. CASE ~s.stop
    <3> DEFINE t == [s EXCEPT !.at = "sending"]
    <3>1. PICK chunk \in Chunks : queue[j] = <<>> /\ queue' = [queue EXCEPT ![j] = <<chunk>>]
      BY <1>1, <1>2, <1>10, <2>3 DEF ProviderSends, Puts, Current
    <3>2. streams' = [streams EXCEPT ![<<j, i>>] = t]
      BY <1>1, <1>10, <2>3 DEF ProviderSends, Current
    <3>3. t \in Stream /\ t.at = "sending" /\ t.key = s.key /\ t.stop = s.stop
      BY <1>2 DEF Stream
    <3>4. <<chunk>> \in {<<>>} \cup { <<y>> : y \in Item }
      BY DEF Item
    <3> HIDE DEF t
    <3>5. Produces(s, t, queue[j], <<chunk>>)
      BY <2>1, <2>3, <3>1, <3>3 DEF Produces
    <3> QED
      BY <2>1, <3>1, <3>2, <3>3, <3>4, <3>5, ProducerKeepsRounds
  <2> QED
    BY <1>2, <2>2, <2>3 DEF Stream
<1>11. CASE ProviderFinishes(p)
  <2>1. round' = round /\ s.at # "none" /\ Ends(<<j, i>>, "done")
    BY <1>1, <1>11 DEF ProviderFinishes
  <2> QED
    BY <2>1, EndingKeeps
<1>12. CASE ProviderIsEmpty(p)
  <2>1. round' = round /\ s.at = "buffering"
    BY <1>1, <1>12 DEF ProviderIsEmpty
  <2>2. CASE Ends(p, "done")
    BY <1>1, <2>1, <2>2, EndingKeeps
  <2>3. CASE /\ queue' = queue
             /\ streams' = [streams EXCEPT ![p].at = "advancing", ![p].key = key[s.model]]
    BY <1>5, <2>1, <2>3
  <2> QED
    BY <1>1, <1>12, <2>2, <2>3 DEF ProviderIsEmpty
<1> QED
  BY <1>6, <1>7, <1>8, <1>9, <1>10, <1>11, <1>12 DEF Producing, Provider

-----------------------------------------------------------------------------
(* Keys and workers.                                                       *)

\* An index that is in its range, and what is metered under it
Keys == [Models -> Nat]
InRange(k) == k \in Keys /\ \A m \in Models : k[m] <= LastKey[m]

LEMMA KeyTypes == KeyTypeOK <=> InRange(key) /\ metered \in [Buckets -> 0 .. MaxCalls]
BY DEF KeyTypeOK, InRange, Keys

LEMMA WritingKeys ==
  ASSUME InRange(key)
  PROVE  /\ \A m \in Models, seen \in Nat : seen < LastKey[m] /\ WriteKey(m, seen) => InRange(key')
         /\ \A ms : ResetKeys(ms) => InRange(key')
         /\ key' = key => InRange(key')
<1>1. ASSUME NEW m \in Models, NEW seen \in Nat, seen < LastKey[m], WriteKey(m, seen)
      PROVE  InRange(key')
  <2>1. seen + 1 \in Nat /\ seen + 1 <= LastKey[m]
    BY <1>1, KeysAssumption
  <2> QED
    BY <1>1, <2>1 DEF InRange, Keys, WriteKey
<1>2. ASSUME NEW ms, ResetKeys(ms) PROVE InRange(key')
  <2>1. \A m \in Models : LastKey[m] \in Nat /\ key[m] \in Nat
    BY KeysAssumption DEF InRange, Keys
  <2> QED
    BY <1>2, <2>1 DEF InRange, Keys, ResetKeys
<1> QED
  BY <1>1, <1>2

\* A call is metered in a bucket that exists and has room.
LEMMA Metering ==
  ASSUME KeyTypeOK, NEW m \in Models, HasRoom(m), Meter(m)
  PROVE  metered' \in [Buckets -> 0 .. MaxCalls]
<1>1. CASE m \notin Limited
  BY <1>1 DEF Meter, KeyTypeOK
<1>2. CASE m \in Limited
  <2> DEFINE b == <<m, key[m]>>
  <2>1. b \in Buckets
    BY <1>2, KeysAssumption DEF Buckets, KeyTypeOK
  <2>2. metered[b] \in 0 .. MaxCalls /\ metered[b] < MaxCalls /\ MaxCalls \in Nat
    BY <1>2, <2>1, KeysAssumption DEF KeyTypeOK, HasRoom
  <2>3. metered' = [metered EXCEPT ![b] = metered[b] + 1]
    BY <1>2 DEF Meter
  <2>4. metered[b] + 1 \in 0 .. MaxCalls
    BY <2>2
  <2> HIDE DEF b
  <2> QED
    BY <2>1, <2>3, <2>4 DEF KeyTypeOK
<1> QED
  BY <1>1, <1>2

\* The indexes seen by requests and workers that are about to write the successor
SeenInRange ==
  /\ \A p \in Producers :
       streams[p].at = "advancing" => streams[p].key < LastKey[streams[p].model]
  /\ \A w \in Workers :
       worker[w].pc = "advancing" => worker[w].seen < LastKey[WorkerModel(w)]

LEMMA KeysInvIs == KeysInv <=> KeyTypeOK /\ WorkerTypeOK /\ SeenInRange
BY DEF KeysInv, SeenInRange

\* The step of a job: it lets go of a producer, or hands one a request that is opened.
LEMMA JobKeepsKeys ==
  ASSUME RoundsTyped, RoundsTyped', KeysInv, NEW j \in Jobs, JobStep(j) \/ CancelRound(j), worker' = worker
  PROVE  KeysInv'
<1>1. InRange(key) /\ round[j] \in Round /\ round[j].model \in Models
  BY KeyTypes DEF KeysInv, RoundsTyped, Round
<1>2. InRange(key')
  <2>1. \/ key' = key
        \/ \E o, e : AttemptFails(j, e, o)
    BY DEF JobStep, BeginRound, AskModel, ReadChunk, ReadWhenCancelled, CutByBudget, ReadDone,
           ReadError, WatchdogGivesUp, CancelRound
  <2>2. ASSUME NEW o, NEW e, AttemptFails(j, e, o)
        PROVE  key' = key \/ ResetKeys(InRing)
    BY <2>2 DEF AttemptFails
  <2> QED
    BY <1>1, <2>1, <2>2, WritingKeys
<1>3. metered' \in [Buckets -> 0 .. MaxCalls]
  <2>1. metered' = metered \/ AskModel(j)
    BY DEF JobStep, BeginRound, Reads, ReadChunk, ReadWhenCancelled, CutByBudget, ReadDone,
           ReadError, WatchdogGivesUp, CancelRound
  <2> QED
    BY <1>1, <2>1, Metering DEF AskModel, KeysInv, KeyTypeOK
<1>4. ASSUME NEW p \in Producers, streams'[p].at = "advancing"
      PROVE  streams[p].at = "advancing" /\ streams'[p].key = streams[p].key
             /\ streams'[p].model = streams[p].model
  <2>1. streams' = streams \/ LetGo(j) \/ AskModel(j)
    BY DEF JobStep, BeginRound, ReadChunk, ReadWhenCancelled, CutByBudget, ReadDone,
           ReadError, WatchdogGivesUp, CancelRound
  <2>2. CASE LetGo(j)
    <3> DEFINE q == <<j, round[j].current>>
               t == LetGoOf(streams[q])
    <3>1. streams' = [streams EXCEPT ![q] = t]
      BY <2>2 DEF LetGo, LetGoOf
    <3>2. streams[p] \in Stream /\ q \in Producers /\ streams[q] \in Stream
      BY <1>1 DEF RoundsTyped, Producers, Round
    <3>3. /\ t.at = "advancing" => streams[q].at = "advancing"
          /\ t.key = streams[q].key /\ t.model = streams[q].model
      BY <3>2, LettingGo
    <3> HIDE DEF t, q
    <3> QED
      BY <1>4, <3>1, <3>2, <3>3 DEF RoundsTyped
  <2>3. CASE AskModel(j)
    <3>1. PICK s \in 1 .. Slots :
            streams' = [streams EXCEPT ![<<j, s>>] =
               [at |-> "opening", model |-> round[j].model, key |-> key[round[j].model], stop |-> FALSE]]
      BY <2>3 DEF AskModel
    <3> QED
      BY <1>4, <3>1 DEF RoundsTyped
  <2> QED
    BY <1>4, <2>1, <2>2, <2>3
<1>5. SeenInRange'
  BY <1>4 DEF KeysInv, SeenInRange, WorkerModel
<1>6. WorkerTypeOK'
  BY DEF KeysInv, WorkerTypeOK
<1> QED
  <2>1. KeyTypeOK'
    BY <1>2, <1>3 DEF KeyTypeOK, InRange, Keys
  <2> QED
    BY <1>5, <1>6, <2>1 DEF KeysInv, SeenInRange

LEMMA ProducerKeepsKeys ==
  ASSUME RoundsTyped, KeysInv, NEW p \in Producers, Producing(p) \/ Provider(p), worker' = worker
  PROVE  KeysInv'
<1>1. InRange(key) /\ streams[p] \in Stream
  BY KeyTypes DEF KeysInv, RoundsTyped
<1>2. InRange(key')
  <2>1. CASE MovesToNextKey(p)
    BY <1>1, <2>1, WritingKeys DEF MovesToNextKey, KeysInv, Stream
  <2>2. CASE key' = key
    BY <1>1, <2>2
  <2> QED
    BY <2>1, <2>2 DEF Producing, Provider, TornReadRaises, ProviderAccepts, ProviderFails,
       ProviderSends, ProviderFinishes, ProviderIsEmpty
<1>3. metered' = metered
  BY DEF Producing, Provider, MovesToNextKey, TornReadRaises, ProviderAccepts, ProviderFails,
     ProviderSends, ProviderFinishes, ProviderIsEmpty
<1>4. KeyTypeOK' /\ WorkerTypeOK'
  BY <1>2, <1>3 DEF KeysInv, KeyTypeOK, InRange, Keys, WorkerTypeOK
<1>5. \/ \E t \in Stream : streams' = [streams EXCEPT ![p] = t] /\ t.at # "advancing"
      \/ /\ streams' = [streams EXCEPT ![p].at = "advancing", ![p].key = key[streams[p].model]]
         /\ MayAdvance(streams[p].model, key[streams[p].model])
  <2> DEFINE moved(at) == [streams[p] EXCEPT !.at = at]
             next == [streams[p] EXCEPT !.at = "opening", !.key = streams[p].key + 1]
  <2>1. moved("buffering") \in Stream /\ moved("sending") \in Stream
        /\ moved("buffering").at = "buffering" /\ moved("sending").at = "sending"
    BY <1>1 DEF Stream
  <2>2. streams[p].key + 1 \in Nat
    BY <1>1 DEF Stream
  <2>3. next \in Stream /\ next.at = "opening"
    BY <1>1, <2>2 DEF Stream
  <2>4. CASE MovesToNextKey(p)
    <3>1. streams' = [streams EXCEPT ![p] = next]
      BY <2>4 DEF MovesToNextKey
    <3> HIDE DEF next, moved
    <3> QED
      BY <2>3, <3>1
  <2>5. CASE ProviderAccepts(p)
    <3>1. streams' = [streams EXCEPT ![p] = moved("buffering")]
      BY <2>5 DEF ProviderAccepts
    <3> HIDE DEF moved
    <3> QED
      BY <2>1, <3>1
  <2>6. CASE ProviderSends(p)
    <3>1. \/ streams' = [streams EXCEPT ![p] = moved("sending")]
          \/ streams' = [streams EXCEPT ![p] = NoStream]
      BY <2>6 DEF ProviderSends
    <3> HIDE DEF moved, NoStream
    <3> QED
      BY <2>1, <3>1, Gone
  <2>7. CASE \E x : Ends(p, x)
    BY <2>7, Gone DEF Ends
  <2>8. CASE TornReadRaises(p)
    BY <2>8, Gone DEF TornReadRaises
  <2> QED
    BY <2>4, <2>5, <2>6, <2>7, <2>8
    DEF Producing, Provider, ProviderFails, RequestFails, ProviderFinishes, ProviderIsEmpty
<1>6. SeenInRange'
  <2>1. \A w \in Workers : worker'[w].pc = "advancing" => worker'[w].seen < LastKey[WorkerModel(w)']
    BY DEF KeysInv, WorkerModel
  <2>2. \A q \in Producers : q # p => streams'[q] = streams[q]
    BY <1>5 DEF RoundsTyped
  <2>3. streams'[p].at = "advancing" => streams'[p].key < LastKey[streams'[p].model]
    <3>1. ASSUME NEW t \in Stream, streams' = [streams EXCEPT ![p] = t], t.at # "advancing"
          PROVE  streams'[p].at # "advancing"
      BY <3>1 DEF RoundsTyped
    <3>2. ASSUME streams' = [streams EXCEPT ![p].at = "advancing", ![p].key = key[streams[p].model]],
                 MayAdvance(streams[p].model, key[streams[p].model])
          PROVE  streams'[p].key < LastKey[streams'[p].model]
      <4>1. streams'[p].key = key[streams[p].model] /\ streams'[p].model = streams[p].model
        BY <1>1, <3>2 DEF RoundsTyped, Stream
      <4> QED
        BY <3>2, <4>1 DEF MayAdvance
    <3> QED
      BY <1>5, <3>1, <3>2
  <2> QED
    BY <2>1, <2>2, <2>3 DEF KeysInv, SeenInRange
<1> QED
  BY <1>4, <1>6 DEF KeysInv, SeenInRange

\* A delegated worker
Worker ==
  [ pc : {"rest", "meter", "asking", "advancing", "over"}, index : DOMAIN WorkerRing,
    lap : 0 .. MaxWorkerLaps - 1, round : 0 .. MaxWorkerRounds, seen : Nat, report : WorkerReports ]

LEMMA WorkerKeepsKeys ==
  ASSUME RoundsTyped, KeysInv, NEW w \in Workers, WorkerStep(w), streams' = streams
  PROVE  KeysInv'
<1>1. /\ InRange(key) /\ worker \in [Workers -> Worker] /\ worker[w] \in Worker
      /\ WorkerRing \in Seq(Models) /\ WorkerModel(w) \in Models
      /\ key[WorkerModel(w)] \in Nat
  BY KeyTypes, DelegationAssumption DEF KeysInv, WorkerTypeOK, Worker, WorkerModel, InRange, Keys
\* What a step may make of the worker
<1>2. ASSUME NEW t \in Worker, worker' = [worker EXCEPT ![w] = t], InRange(key'),
             metered' \in [Buckets -> 0 .. MaxCalls],
             t.pc = "advancing" => t.seen < LastKey[WorkerRing[t.index]]
      PROVE  KeysInv'
  <2>1. worker' \in [Workers -> Worker] /\ worker'[w] = t /\ \A v \in Workers : v # w => worker'[v] = worker[v]
    BY <1>1, <1>2
  <2>2. SeenInRange'
    <3>1. ASSUME NEW v \in Workers, worker'[v].pc = "advancing"
          PROVE  worker'[v].seen < LastKey[WorkerModel(v)']
      <4>1. CASE v = w
        BY <1>2, <2>1, <3>1, <4>1 DEF WorkerModel
      <4>2. CASE v # w
        BY <2>1, <3>1, <4>2 DEF KeysInv, WorkerModel
      <4> QED
        BY <4>1, <4>2
    <3> QED
      BY <3>1 DEF KeysInv, SeenInRange
  <2>3. KeyTypeOK' /\ WorkerTypeOK'
    BY <1>2, <2>1 DEF KeyTypeOK, InRange, Keys, WorkerTypeOK, Worker
  <2> QED
    BY <2>2, <2>3 DEF KeysInv, SeenInRange
<1>3. metered \in [Buckets -> 0 .. MaxCalls]
  BY DEF KeysInv, KeyTypeOK
<1>4. CASE Delegate(w)
  <2> DEFINE t == [worker[w] EXCEPT !.pc = "meter"]
  <2>1. t \in Worker /\ t.pc = "meter"
    BY <1>1 DEF Worker
  <2>2. worker' = [worker EXCEPT ![w] = t] /\ key' = key /\ metered' = metered
    BY <1>4 DEF Delegate, keyVars
  <2> QED
    BY <1>1, <1>2, <1>3, <2>1, <2>2
<1>5. CASE WorkerAsks(w)
  <2> DEFINE t == [worker[w] EXCEPT !.pc = "asking"]
  <2>1. t \in Worker /\ t.pc = "asking"
    BY <1>1 DEF Worker
  <2>2. worker' = [worker EXCEPT ![w] = t] /\ key' = key
    BY <1>5 DEF WorkerAsks
  <2>3. metered' \in [Buckets -> 0 .. MaxCalls]
    BY <1>1, <1>5, Metering DEF WorkerAsks, KeysInv
  <2> QED
    BY <1>1, <1>2, <2>1, <2>2, <2>3
\* The end of a worker, with what it reports
<1>6. ASSUME NEW report \in WorkerReports, Reported(w, report), key' = key, metered' = metered
      PROVE  KeysInv'
  <2> DEFINE t == [worker[w] EXCEPT !.pc = "over", !.report = report]
  <2>1. t \in Worker /\ t.pc = "over"
    BY <1>1 DEF Worker
  <2>2. worker' = [worker EXCEPT ![w] = t]
    BY <1>6 DEF Reported
  <2> QED
    BY <1>1, <1>2, <1>3, <1>6, <2>1, <2>2
<1>7. CASE WorkerAnswers(w)
  <2>1. key' = key /\ metered' = metered
    BY <1>7 DEF WorkerAnswers, keyVars
  <2>2. CASE /\ worker[w].round + 1 < MaxWorkerRounds
             /\ worker' = [worker EXCEPT ![w].pc = "meter", ![w].round = @ + 1]
    <3> DEFINE t == [worker[w] EXCEPT !.pc = "meter", !.round = worker[w].round + 1]
    <3>1. worker[w].round + 1 \in 0 .. MaxWorkerRounds
      BY <1>1, <2>2, DelegationAssumption DEF Worker
    <3>2. t \in Worker /\ t.pc = "meter"
      BY <1>1, <3>1 DEF Worker
    <3>3. worker' = [worker EXCEPT ![w] = t]
      BY <2>2
    <3> HIDE DEF t
    <3> QED
      BY <1>1, <1>2, <1>3, <2>1, <3>2, <3>3
  <2> QED
    BY <1>6, <1>7, <2>1, <2>2 DEF WorkerAnswers, WorkerReports
<1>8. CASE WorkerFails(w)
  <2>1. metered' = metered
    BY <1>8 DEF WorkerFails
  <2>2. CASE /\ MayAdvance(WorkerModel(w), key[WorkerModel(w)])
             /\ worker' = [worker EXCEPT ![w].pc = "advancing", ![w].seen = key[WorkerModel(w)]]
             /\ key' = key
    <3> DEFINE t == [worker[w] EXCEPT !.pc = "advancing", !.seen = key[WorkerModel(w)]]
    <3>1. t \in Worker /\ t.seen = key[WorkerModel(w)] /\ t.index = worker[w].index
      BY <1>1 DEF Worker
    <3>2. worker' = [worker EXCEPT ![w] = t] /\ t.seen < LastKey[WorkerRing[t.index]]
      BY <2>2, <3>1 DEF MayAdvance, WorkerModel
    <3> HIDE DEF t
    <3> QED
      BY <1>1, <1>2, <1>3, <2>1, <2>2, <3>1, <3>2
  <2>3. CASE Rotate(w)
    <3>1. CASE worker[w].index < Len(WorkerRing)
      <4> DEFINE t == [worker[w] EXCEPT !.pc = "meter", !.index = worker[w].index + 1]
      <4>1. worker[w].index + 1 \in DOMAIN WorkerRing
        BY <1>1, <3>1 DEF Worker
      <4>2. t \in Worker /\ t.pc = "meter"
        BY <1>1, <4>1 DEF Worker
      <4>3. worker' = [worker EXCEPT ![w] = t] /\ key' = key
        BY <2>3, <3>1 DEF Rotate
      <4> HIDE DEF t
      <4> QED
        BY <1>1, <1>2, <1>3, <2>1, <4>2, <4>3
    <3>2. CASE ~(worker[w].index < Len(WorkerRing)) /\ worker[w].lap + 1 >= MaxWorkerLaps
      BY <1>6, <2>1, <2>3, <3>2 DEF Rotate, WorkerReports
    <3>3. CASE ~(worker[w].index < Len(WorkerRing)) /\ ~(worker[w].lap + 1 >= MaxWorkerLaps)
      <4> DEFINE t == [worker[w] EXCEPT !.pc = "meter", !.index = 1, !.lap = worker[w].lap + 1]
      <4>1. worker[w].lap + 1 \in 0 .. MaxWorkerLaps - 1 /\ 1 \in DOMAIN WorkerRing
        BY <1>1, <3>3, DelegationAssumption DEF Worker
      <4>2. t \in Worker /\ t.pc = "meter"
        BY <1>1, <4>1 DEF Worker
      <4>3. worker' = [worker EXCEPT ![w] = t] /\ InRange(key')
        BY <1>1, <2>3, <3>3, WritingKeys DEF Rotate
      <4> HIDE DEF t
      <4> QED
        BY <1>2, <1>3, <2>1, <4>2, <4>3
    <3> QED
      BY <3>1, <3>2, <3>3
  <2> QED
    BY <1>8, <2>2, <2>3 DEF WorkerFails
<1>9. CASE WorkerNextKey(w)
  <2> DEFINE t == [worker[w] EXCEPT !.pc = "asking"]
  <2>1. t \in Worker /\ t.pc = "asking"
    BY <1>1 DEF Worker
  <2>2. worker' = [worker EXCEPT ![w] = t] /\ metered' = metered
    BY <1>9 DEF WorkerNextKey
  <2>3. worker[w].seen \in Nat /\ worker[w].seen < LastKey[WorkerModel(w)]
    BY <1>1, <1>9 DEF WorkerNextKey, KeysInv, Worker
  <2>4. InRange(key')
    BY <1>1, <1>9, <2>3, WritingKeys DEF WorkerNextKey
  <2> QED
    BY <1>2, <1>3, <2>1, <2>2, <2>4
<1> QED
  BY <1>4, <1>5, <1>7, <1>8, <1>9 DEF WorkerStep

-----------------------------------------------------------------------------
(* The specification.                                                      *)

LEMMA InitIInv == Init => IInv
<1> SUFFICES ASSUME Init PROVE IInv
  OBVIOUS
<1>1. RoundsTyped
  <2>1. \A j \in Jobs : Favourite[j] \in Models /\ round[j] \in Round
    BY StreamAssumption DEF Init, StreamInit, Round, Outcomes
  <2>2. round \in [Jobs -> Round]
    BY <2>1 DEF Init, StreamInit
  <2> QED
    BY <2>2, Gone DEF RoundsTyped, Init, StreamInit, Producers
<1>2. \A j \in Jobs : RoundInv(j)
  BY Gone DEF Init, StreamInit, RoundInv, Heard, Waiting, Showing
<1>3. KeyTypeOK
  BY KeysAssumption DEF Init, KeyInit, KeyTypeOK
<1>4. worker \in [Workers -> Worker] /\ \A w \in Workers : worker[w].pc = "rest"
  BY DelegationAssumption DEF Init, WorkerInit, Worker, WorkerReports
<1>5. SeenInRange
  BY <1>4, Gone DEF SeenInRange, Init, StreamInit, Producers
<1> QED
  BY <1>1, <1>2, <1>3, <1>4, <1>5 DEF IInv, KeysInv, SeenInRange, WorkerTypeOK, Worker

\* A step that leaves rounds and producers alone
LEMMA SameStreams ==
  ASSUME RoundsTyped, \A j \in Jobs : RoundInv(j), UNCHANGED streamVars
  PROVE  RoundsTyped' /\ \A j \in Jobs : RoundInv(j)'
BY DEF streamVars, RoundsTyped, RoundInv, Heard, Waiting, Showing, Its

LEMMA NextIInv == IInv /\ [Next]_vars => IInv'
<1> SUFFICES ASSUME IInv, [Next]_vars PROVE IInv'
  OBVIOUS
<1>1. RoundsTyped /\ KeysInv /\ \A j \in Jobs : RoundInv(j)
  BY DEF IInv
<1>2. ASSUME NEW j \in Jobs, JobStep(j) \/ CancelRound(j), worker' = worker PROVE IInv'
  <2>1. RoundsTyped' /\ \A k \in Jobs : RoundInv(k)'
    BY <1>1, <1>2, JobKeeps
  <2>2. KeysInv'
    BY <1>1, <1>2, <2>1, JobKeepsKeys
  <2> QED
    BY <2>1, <2>2 DEF IInv
<1>3. ASSUME NEW p \in Producers, Producing(p) \/ Provider(p), worker' = worker PROVE IInv'
  <2>1. RoundsTyped' /\ \A k \in Jobs : RoundInv(k)'
    BY <1>1, <1>3, ProducerKeeps
  <2>2. KeysInv'
    BY <1>1, <1>3, ProducerKeepsKeys
  <2> QED
    BY <2>1, <2>2 DEF IInv
<1>4. ASSUME NEW w \in Workers, Working(w) PROVE IInv'
  <2>1. WorkerStep(w) /\ UNCHANGED streamVars /\ streams' = streams
    BY <1>4 DEF Working, streamVars
  <2>2. RoundsTyped' /\ \A k \in Jobs : RoundInv(k)'
    BY <1>1, <2>1, SameStreams
  <2>3. KeysInv'
    BY <1>1, <2>1, WorkerKeepsKeys
  <2> QED
    BY <2>2, <2>3 DEF IInv
<1>5. CASE WindowRolls /\ UNCHANGED <<streamVars, worker>>
  <2>1. PICK b \in Buckets : metered[b] > 0 /\ metered' = [metered EXCEPT ![b] = @ - 1]
    BY <1>5 DEF WindowRolls
  <2>2. metered[b] \in 0 .. MaxCalls /\ metered[b] - 1 \in 0 .. MaxCalls
    BY <1>1, <2>1, KeysAssumption DEF KeysInv, KeyTypeOK
  <2>3. metered' \in [Buckets -> 0 .. MaxCalls] /\ key' = key
    BY <1>1, <1>5, <2>1, <2>2 DEF KeysInv, KeyTypeOK, WindowRolls
  <2>4. UNCHANGED streamVars /\ streams' = streams /\ worker' = worker
    BY <1>5 DEF streamVars
  <2>5. KeysInv'
    BY <1>1, <2>3, <2>4 DEF KeysInv, KeyTypeOK, WorkerTypeOK, WorkerModel
  <2> QED
    BY <1>1, <2>4, <2>5, SameStreams DEF IInv
<1>6. CASE UNCHANGED vars
  <2>1. UNCHANGED streamVars /\ UNCHANGED <<streams, worker, key, metered>>
    BY <1>6 DEF vars, streamVars, keyVars
  <2>2. KeysInv'
    BY <1>1, <2>1 DEF KeysInv, KeyTypeOK, WorkerTypeOK, WorkerModel
  <2> QED
    BY <1>1, <2>1, <2>2, SameStreams DEF IInv
<1>7. Next =>
        \/ /\ worker' = worker
           /\ \/ \E j \in Jobs : JobStep(j) \/ CancelRound(j)
              \/ \E p \in Producers : Producing(p) \/ Provider(p)
        \/ \E w \in Workers : Working(w)
        \/ WindowRolls /\ UNCHANGED <<streamVars, worker>>
  BY DEF Next, StreamNext, Producers
<1> QED
  BY <1>2, <1>3, <1>4, <1>5, <1>6, <1>7

\* The invariant holds in every state of rounds, producers and workers, whatever models
\* fail, stay silent or are asked again, and whoever cancels.
THEOREM Invariance == Spec => []IInv
BY InitIInv, NextIInv, PTL DEF Spec

\* The key in use of every model is one it has, however many threads advance it and reset
\* it between another one's look at the index and its write (llm.py, _advance_key and
\* reset_keys), and no bucket of the limiter ever holds more calls than its window allows.
THEOREM TypeCorrect == Spec => []TypeOK
<1>1. IInv => TypeOK
  <2> SUFFICES ASSUME IInv PROVE StreamTypeOK
    BY DEF TypeOK, IInv, KeysInv
  <2>1. \A j \in Jobs : round[j] \in Round /\ queue[j] \in {<<>>} \cup { <<x>> : x \in Item }
    BY DEF IInv, RoundsTyped
  <2>2. \A p \in Jobs \X (1 .. Slots) : streams[p] \in Stream
    BY DEF IInv, RoundsTyped, Producers
  <2> QED
    BY <2>1, <2>2 DEF StreamTypeOK, Round, Stream, Item
<1> QED
  BY <1>1, Invariance, PTL

\* Once text of an answer has reached the user nothing starts over: neither the next key,
\* nor the next model, nor a producer that was left behind (jobs.py, run_round).
THEOREM OneSource == Spec => []OneSourcePerRound
<1>1. IInv => OneSourcePerRound
  <2> SUFFICES ASSUME IInv, NEW j \in Jobs PROVE Cardinality(round[j].shown) <= 1
    BY DEF OneSourcePerRound
  <2>1. \A x, y \in round[j].shown : x = y
    BY DEF IInv, RoundInv, Showing
  <2>2. CASE round[j].shown = {}
    BY <2>2, FS_EmptySet
  <2>3. ASSUME NEW x \in round[j].shown PROVE Cardinality(round[j].shown) <= 1
    <3>1. round[j].shown = {x}
      BY <2>1
    <3>2. Cardinality({x}) = 1
      BY FS_Singleton
    <3>3. Cardinality(round[j].shown) = 1
      BY <3>1, <3>2, Zenon
    <3> QED
      BY <3>3
  <2> QED
    BY <2>2, <2>3
<1> QED
  BY <1>1, Invariance, PTL

-----------------------------------------------------------------------------
(* From the job to the page: the inductive invariant                       *)

Bys == {"user", "reply", "analyzing", "card", "weighed", "held"}
Fails == {"no", "error", "request", "lost"}
TurnSet == [by : Bys, shown : Seq(Nat \X Nat), failed : Fails, job : Nat]
Turns == Seq(TurnSet)
Kept == [here : BOOLEAN, turns : Turns, pending : Nat]
Stores == [Convs -> Kept]
View == [mounted : BOOLEAN, turns : Turns, streaming : BOOLEAN, ctl : Flows \cup {0}, job : Nat]
Ats == {"none", "impact", "starting", "plain", "continuing", "reading", "retry"}
Flow == [at : Ats, kind : {"none", "complete", "attach", "continue"}, conv : Convs \cup {None}, job : Nat,
         read : Nat, final : BOOLEAN, tries : Nat, aborted : BOOLEAN, effect : BOOLEAN, zombie : BOOLEAN]
Event == {"text", "error", "done"}
JobSet == [conv : Convs, log : Seq(Event), base : Nat, over : BOOLEAN, cancelled : BOOLEAN]

ChatTyped ==
  /\ store \in Stores
  /\ active \in Convs \cup {None}
  /\ page \in View
  /\ flows \in [Flows -> Flow]
  /\ jobs \in Seq(JobSet)

\* A log that is done stays as it is, and only a job that met an error is continued.
Whole(job) == ~Contains(job.log, "error")
JobOk(job) ==
  /\ job.base \in 0 .. Len(job.log)
  /\ job.base # 0 => ~Whole(job)
  /\ job.over => job.log # <<>>
  /\ \A n \in DOMAIN job.log : job.log[n] = "done" => n = Len(job.log) /\ job.over
JobsOk(js) == \A j \in DOMAIN js : JobOk(js[j])

\* Turns of conversation c that show only what its jobs told, once and in order
ToldBy(js, c, e) ==
  /\ e[1] \in DOMAIN js /\ js[e[1]].conv = c
  /\ e[2] \in DOMAIN js[e[1]].log /\ js[e[1]].log[e[2]] = "text"
TurnOk(js, c, t) ==
  /\ t.shown # <<>> => t.by = "reply" /\ t.failed = "no"
  /\ t.failed = "error" => t.job \in DOMAIN js /\ js[t.job].conv = c
TurnsOk(js, turns, c) ==
  /\ \A i \in DOMAIN turns : TurnOk(js, c, turns[i]) /\ \A k \in DOMAIN turns[i].shown : ToldBy(js, c, turns[i].shown[k])
  /\ \A j \in DOMAIN js : ~js[j].cancelled => InOrder(turns, j) /\ (Whole(js[j]) => FromTheFirst(turns, j))

\* The events of a job since it was last continued, after the first `from`, are what
\* whoever attaches to it reads again
New(e, j, from) == e[1] = j /\ e[2] > from
\* ... are behind everything the reader has said, so that Reset takes them all.
AfterUsers(turns, j, from) ==
  \A i, u \in DOMAIN turns :
    turns[u].by = "user" => \A k \in DOMAIN turns[i].shown : New(turns[i].shown[k], j, from) => u < i
OnlyInLast(turns, j, from) ==
  \A i \in DOMAIN turns : \A k \in DOMAIN turns[i].shown : New(turns[i].shown[k], j, from) => i = Len(turns)
NoneNew(turns, j, from) == \A i \in DOMAIN turns : \A k \in DOMAIN turns[i].shown : ~New(turns[i].shown[k], j, from)

Live(f) == flows[f].at # "none" /\ ~flows[f].aborted
Following(f) == Live(f) /\ flows[f].at \in {"reading", "retry"}

ConvOk(js, st, c) ==
  LET j == st[c].pending IN
  /\ ~st[c].here => st[c].turns = <<>> /\ j = 0
  /\ TurnsOk(js, st[c].turns, c)
  /\ j # 0 => /\ j \in DOMAIN js /\ js[j].conv = c
              /\ ~js[j].cancelled => AfterUsers(st[c].turns, j, js[j].base)
StoreOk(js, st) == \A c \in Convs : ConvOk(js, st, c)

InViewOk(st, a) == IF a = None THEN \A c \in Convs : ~st[c].here ELSE st[a].here
PageOk ==
  /\ InViewOk(store, active)
  /\ page.mounted /\ active = None => page.turns = <<>>
  /\ page.mounted /\ active # None =>
       LET j == store[active].pending IN
       /\ TurnsOk(jobs, page.turns, active)
       /\ (j # 0 /\ ~jobs[j].cancelled /\ \A f \in Flows : ~Following(f)) => NoneNew(page.turns, j, jobs[j].base)

\* A flow that goes on belongs to the page as it is shown
LiveOk(f) ==
  LET j == flows[f].job IN
  /\ ~flows[f].zombie /\ page.mounted /\ active # None /\ flows[f].conv = active
  /\ flows[f].at = "impact" => Len(page.turns) >= 2
  /\ flows[f].at # "impact" => page.streaming /\ page.ctl = f /\ page.turns # <<>>
  /\ flows[f].at \in {"continuing", "reading", "retry"} =>
       j \in DOMAIN jobs /\ jobs[j].conv = active /\ page.job = j
  /\ flows[f].at = "continuing" => flows[f].kind = "continue"

\* ... and a follower has shown what it has read.
FollowOk(f) ==
  LET j == flows[f].job  r == flows[f].read  log == jobs[j].log IN
  /\ store[active].pending = j
  /\ flows[f].kind \in {"complete", "attach", "continue"}
  /\ flows[f].kind = "continue" => ~Whole(jobs[j])
  /\ flows[f].at = "reading" =>
       /\ r \in jobs[j].base .. Len(log)
       /\ flows[f].final => \E n \in 1 .. r : log[n] \in {"error", "done"}
       /\ ~jobs[j].cancelled =>
            /\ OnlyInLast(page.turns, j, jobs[j].base)
            /\ \A e \in Shown(page.turns) : e[1] = j => e[2] <= r
       /\ Whole(jobs[j]) => \A n \in 1 .. r : log[n] = "text" => <<j, n>> \in Shown(page.turns)
  /\ flows[f].at = "retry" /\ ~jobs[j].cancelled => NoneNew(page.turns, j, jobs[j].base)

\* What was told to stop has only to find out, and nothing else goes on until it has
\* unless its page is gone.
DyingOk(f) ==
  /\ flows[f].at \in {"reading", "retry"} /\ flows[f].kind \in {"complete", "attach", "continue"}
  /\ flows[f].at = "reading" /\ ~flows[f].zombie => page.mounted /\ \A g \in Flows : ~Live(g)

FlowsOk ==
  \A f \in Flows : flows[f].at # "none" =>
    IF flows[f].aborted THEN DyingOk(f)
    ELSE /\ \A g \in Flows : Live(g) => g = f
         /\ LiveOk(f)
         /\ flows[f].at \in {"reading", "retry"} => FollowOk(f)

ChatInv ==
  /\ ChatTyped
  /\ JobsOk(jobs)
  /\ StoreOk(jobs, store)
  /\ PageOk
  /\ FlowsOk

-----------------------------------------------------------------------------
(* Numbers and sequences                                                   *)

\* Every set of numbers has a least one: this is what induction rests on here.
LEMMA NatHasLeast ==
  ASSUME NEW T \in SUBSET Nat, T # {}
  PROVE  \E x \in T : \A y \in T : x =< y
<1> DEFINE R == OpToRel(<, Nat)
<1>1. \A x, y \in Nat : y < x => <<y, x>> \in R
  BY DEF OpToRel
<1> HIDE DEF R
<1>2. IsWellFoundedOn(R, Nat)
  BY NatLessThanWellFounded DEF R
<1>3. PICK x \in T : \A y \in T : ~ (<<y, x>> \in R)
  BY <1>2, WFMin
<1>4. \A y \in T : ~ (y < x)
  BY <1>1, <1>3
<1> QED
  BY <1>4

LEMMA NatInduced ==
  ASSUME NEW S, 0 \in S, \A n \in Nat : n \in S => n + 1 \in S
  PROVE  Nat \subseteq S
<1> SUFFICES ASSUME Nat \ S # {} PROVE FALSE
  OBVIOUS
<1>1. PICK x \in Nat \ S : \A y \in Nat \ S : x =< y
  <2> DEFINE T == Nat \ S
  <2>1. T \in SUBSET Nat /\ T # {}
    OBVIOUS
  <2> HIDE DEF T
  <2>2. \E x \in T : \A y \in T : x =< y
    BY <2>1, NatHasLeast
  <2> QED
    BY <2>2 DEF T
<1>2. x - 1 \in Nat /\ x - 1 < x /\ (x - 1) + 1 = x
  BY <1>1
<1>3. x - 1 \in S
  BY <1>1, <1>2
<1> QED
  BY <1>1, <1>2, <1>3

LEMMA MinOf ==
  ASSUME NEW S \in SUBSET Nat, S # {}
  PROVE  Min(S) \in S
BY NatHasLeast DEF Min

\* The last message of the reader, or 0
LEMMA LastUserIs ==
  ASSUME NEW turns \in Turns
  PROVE  /\ LastUser(turns) \in 0 .. Len(turns)
         /\ \A u \in DOMAIN turns : turns[u].by = "user" => u =< LastUser(turns)
         /\ LastUser(turns) # 0 => turns[LastUser(turns)].by = "user"
<1> DEFINE S == {0} \cup { i \in DOMAIN turns : turns[i].by = "user" }
           L == Len(turns)
           T == { L - i : i \in S }
<1>1. L \in Nat /\ DOMAIN turns = 1 .. L
  BY LenProperties DEF Turns
<1>2. S \subseteq 0 .. L /\ 0 \in S
  BY <1>1
<1>3. T \in SUBSET Nat /\ T # {}
  BY <1>1, <1>2
<1> HIDE DEF T
<1>4. PICK x \in T : \A y \in T : x =< y
  BY <1>3, NatHasLeast
<1>5. PICK m \in S : x = L - m
  BY <1>4 DEF T
<1>6. \A i \in S : m >= i
  <2> TAKE i \in S
  <2>1. L - i \in T
    BY DEF T
  <2> QED
    BY <2>1, <1>1, <1>2, <1>4, <1>5
<1>7. Max(S) \in S /\ \A i \in S : Max(S) >= i
  BY <1>6 DEF Max
<1>8. LastUser(turns) \in S /\ \A i \in S : LastUser(turns) >= i
  BY <1>7 DEF LastUser
<1> QED
  BY <1>1, <1>2, <1>8

LEMMA TurnsAre ==
  ASSUME NEW turns \in Turns
  PROVE  /\ Len(turns) \in Nat /\ DOMAIN turns = 1 .. Len(turns)
         /\ \A i \in DOMAIN turns : turns[i] \in TurnSet
         /\ turns # <<>> => Len(turns) \in DOMAIN turns
<1>1. Len(turns) \in Nat /\ DOMAIN turns = 1 .. Len(turns) /\ \A i \in DOMAIN turns : turns[i] \in TurnSet
  BY LenProperties, ElementOfSeq DEF Turns
<1>2. turns # <<>> => Len(turns) # 0
  BY EmptySeq DEF Turns
<1> QED
  BY <1>1, <1>2

LEMMA ShownAre ==
  ASSUME NEW turns \in Turns, NEW i \in DOMAIN turns
  PROVE  /\ turns[i].shown \in Seq(Nat \X Nat) /\ Len(turns[i].shown) \in Nat
         /\ DOMAIN turns[i].shown = 1 .. Len(turns[i].shown)
         /\ \A k \in DOMAIN turns[i].shown :
              /\ turns[i].shown[k] \in Nat \X Nat
              /\ turns[i].shown[k] = <<turns[i].shown[k][1], turns[i].shown[k][2]>>
              /\ turns[i].shown[k][1] \in Nat /\ turns[i].shown[k][2] \in Nat
              /\ turns[i].shown # <<>>
<1>1. turns[i].shown \in Seq(Nat \X Nat)
  BY TurnsAre DEF TurnSet
<1>2. Len(turns[i].shown) \in Nat /\ DOMAIN turns[i].shown = 1 .. Len(turns[i].shown)
  BY <1>1, LenProperties
<1>3. \A k \in DOMAIN turns[i].shown : turns[i].shown[k] \in Nat \X Nat
  BY <1>1, <1>2, ElementOfSeq
<1>4. turns[i].shown = <<>> => DOMAIN turns[i].shown = {}
  OBVIOUS
<1> QED
  BY <1>1, <1>2, <1>3, <1>4

LEMMA ShownMeans ==
  ASSUME NEW turns
  PROVE  \A e : e \in Shown(turns) <=> \E i \in DOMAIN turns : \E k \in DOMAIN turns[i].shown : turns[i].shown[k] = e
BY DEF Shown, ToSet

-----------------------------------------------------------------------------
(* Turns                                                                   *)

Bare(t) == t.shown = <<>>

\* s shows what the first turns of ts show, in the same places, and nothing else;
\* no message of the reader is added.
Keeps(s, ts) ==
  /\ \A i \in DOMAIN s : ~Bare(s[i]) => i \in DOMAIN ts /\ s[i].shown = ts[i].shown
  /\ \A h \in DOMAIN ts : ~Bare(ts[h]) =>
       \/ h \in DOMAIN s /\ s[h].shown = ts[h].shown
       \/ \A i \in DOMAIN s : ~Bare(s[i]) => i < h

NoNewUsers(s, ts) == \A u \in DOMAIN s : s[u].by = "user" => u \in DOMAIN ts /\ ts[u].by = "user"

EachOk(js, s, c) == \A i \in DOMAIN s : TurnOk(js, c, s[i])

\* Places with something shown
LEMMA KeptShown ==
  ASSUME NEW s \in Turns, NEW ts \in Turns, Keeps(s, ts), NEW i \in DOMAIN s, NEW k \in DOMAIN s[i].shown
  PROVE  i \in DOMAIN ts /\ ts[i].shown = s[i].shown /\ k \in DOMAIN ts[i].shown /\ ts[i].shown[k] = s[i].shown[k]
<1>1. ~Bare(s[i])
  BY ShownAre DEF Bare
<1> QED
  BY <1>1 DEF Keeps

LEMMA KeepsInOrder ==
  ASSUME NEW s \in Turns, NEW ts \in Turns, Keeps(s, ts), NEW j, InOrder(ts, j)
  PROVE  InOrder(s, j)
<1> SUFFICES ASSUME NEW i \in DOMAIN s, NEW h \in DOMAIN s, NEW k \in DOMAIN s[i].shown, NEW l \in DOMAIN s[h].shown,
                    s[i].shown[k][1] = j /\ s[h].shown[l][1] = j /\ (i < h \/ (i = h /\ k < l))
             PROVE  s[i].shown[k][2] < s[h].shown[l][2]
  BY DEF InOrder
<1>1. i \in DOMAIN ts /\ k \in DOMAIN ts[i].shown /\ ts[i].shown[k] = s[i].shown[k]
  BY KeptShown
<1>2. h \in DOMAIN ts /\ l \in DOMAIN ts[h].shown /\ ts[h].shown[l] = s[h].shown[l]
  BY KeptShown
<1> QED
  BY <1>1, <1>2 DEF InOrder

LEMMA KeepsFromTheFirst ==
  ASSUME NEW s \in Turns, NEW ts \in Turns, Keeps(s, ts), NEW j, InOrder(ts, j), FromTheFirst(ts, j)
  PROVE  FromTheFirst(s, j)
<1> SUFFICES ASSUME NEW e \in Shown(s), e[1] = j /\ e[2] > 1
             PROVE  <<j, e[2] - 1>> \in Shown(s)
  BY DEF FromTheFirst
<1>1. PICK i \in DOMAIN s : \E k \in DOMAIN s[i].shown : s[i].shown[k] = e
  BY ShownMeans
<1>2. PICK k \in DOMAIN s[i].shown : s[i].shown[k] = e
  BY <1>1
<1>3. i \in DOMAIN ts /\ k \in DOMAIN ts[i].shown /\ ts[i].shown[k] = e
  BY <1>2, KeptShown
<1>4. e \in Shown(ts) /\ e[2] \in Nat
  BY <1>3, ShownMeans, ShownAre
<1>5. <<j, e[2] - 1>> \in Shown(ts)
  BY <1>4 DEF FromTheFirst
<1>6. PICK h \in DOMAIN ts : \E l \in DOMAIN ts[h].shown : ts[h].shown[l] = <<j, e[2] - 1>>
  BY <1>5, ShownMeans
<1>7. PICK l \in DOMAIN ts[h].shown : ts[h].shown[l] = <<j, e[2] - 1>>
  BY <1>6
<1>8. ts[h].shown[l][1] = j /\ ts[h].shown[l][2] < e[2] /\ ts[i].shown[k][1] = j /\ ts[i].shown[k][2] = e[2]
  BY <1>3, <1>4, <1>7
<1>9. h =< i
  <2>1. SUFFICES ASSUME i < h PROVE FALSE
    BY <1>3, TurnsAre
  <2>2. e[2] < ts[h].shown[l][2]
    BY <1>3, <1>8, <2>1 DEF InOrder
  <2>3. ts[h].shown[l][2] \in Nat
    BY ShownAre
  <2> QED
    BY <1>4, <1>8, <2>2, <2>3
<1>10. ~Bare(s[i]) /\ ~Bare(ts[h])
  BY ShownAre DEF Bare
<1>11. h \in DOMAIN s /\ s[h].shown = ts[h].shown
  BY <1>3, <1>9, <1>10, TurnsAre DEF Keeps
<1> QED
  BY <1>7, <1>11, ShownMeans

LEMMA KeepsTurnsOk ==
  ASSUME NEW s \in Turns, NEW ts \in Turns, Keeps(s, ts), NEW js, NEW c, TurnsOk(js, ts, c), EachOk(js, s, c)
  PROVE  TurnsOk(js, s, c)
<1>1. ASSUME NEW i \in DOMAIN s, NEW k \in DOMAIN s[i].shown PROVE ToldBy(js, c, s[i].shown[k])
  BY KeptShown DEF TurnsOk
<1>2. ASSUME NEW j \in DOMAIN js, ~js[j].cancelled
      PROVE  InOrder(s, j) /\ (Whole(js[j]) => FromTheFirst(s, j))
  BY <1>2, KeepsInOrder, KeepsFromTheFirst DEF TurnsOk
<1> QED
  BY <1>1, <1>2 DEF TurnsOk, EachOk

LEMMA KeepsNoneNew ==
  ASSUME NEW s \in Turns, NEW ts \in Turns, Keeps(s, ts), NEW j, NEW from, NoneNew(ts, j, from)
  PROVE  NoneNew(s, j, from)
BY KeptShown DEF NoneNew

LEMMA KeepsAfterUsers ==
  ASSUME NEW s \in Turns, NEW ts \in Turns, Keeps(s, ts), NoNewUsers(s, ts), NEW j, NEW from, AfterUsers(ts, j, from)
  PROVE  AfterUsers(s, j, from)
<1> SUFFICES ASSUME NEW i \in DOMAIN s, NEW u \in DOMAIN s, s[u].by = "user", NEW k \in DOMAIN s[i].shown, New(s[i].shown[k], j, from)
             PROVE  u < i
  BY DEF AfterUsers
<1>1. i \in DOMAIN ts /\ k \in DOMAIN ts[i].shown /\ ts[i].shown[k] = s[i].shown[k]
  BY KeptShown
<1>2. u \in DOMAIN ts /\ ts[u].by = "user"
  BY DEF NoNewUsers
<1> QED
  BY <1>1, <1>2 DEF AfterUsers

LEMMA KeepsItself ==
  ASSUME NEW ts
  PROVE  Keeps(ts, ts) /\ NoNewUsers(ts, ts)
BY DEF Keeps, NoNewUsers

-----------------------------------------------------------------------------
(* What the page does to its turns                                         *)

LEMMA TurnIs ==
  ASSUME NEW by \in Bys
  PROVE  /\ Turn(by) \in TurnSet /\ Bare(Turn(by)) /\ Turn(by).by = by /\ Turn(by).failed = "no"
         /\ \A js, c : TurnOk(js, c, Turn(by))
<1>1. <<>> \in Seq(Nat \X Nat)
  BY EmptySeq
<1> QED
  BY <1>1 DEF Turn, TurnSet, Bare, TurnOk, Fails

LEMMA Cut ==
  ASSUME NEW ts \in Turns, NEW n \in 0 .. Len(ts)
  PROVE  /\ SubSeq(ts, 1, n) \in Turns /\ Len(SubSeq(ts, 1, n)) = n /\ DOMAIN SubSeq(ts, 1, n) = 1 .. n
         /\ \A i \in 1 .. n : i \in DOMAIN ts /\ SubSeq(ts, 1, n)[i] = ts[i]
         /\ Keeps(SubSeq(ts, 1, n), ts) /\ NoNewUsers(SubSeq(ts, 1, n), ts)
         /\ \A js, c : EachOk(js, ts, c) => EachOk(js, SubSeq(ts, 1, n), c)
<1> DEFINE s == SubSeq(ts, 1, n)
<1>0. Len(ts) \in Nat /\ DOMAIN ts = 1 .. Len(ts) /\ \A i \in 1 .. n : ts[i] \in TurnSet
  BY TurnsAre
<1>1. s \in Turns /\ Len(s) = n /\ \A i \in 1 .. n : s[i] = ts[i]
  BY <1>0, SubSeqProperties DEF Turns
<1> HIDE DEF s
<1>2. DOMAIN s = 1 .. n
  BY <1>1, TurnsAre
<1>3. Keeps(s, ts) /\ NoNewUsers(s, ts)
  BY <1>0, <1>1, <1>2 DEF Keeps, NoNewUsers
<1>4. \A js, c : EachOk(js, ts, c) => EachOk(js, s, c)
  BY <1>0, <1>1, <1>2 DEF EachOk
<1> QED
  BY <1>0, <1>1, <1>2, <1>3, <1>4 DEF s

\* A turn that shows nothing is added.
LEMMA Added ==
  ASSUME NEW ts \in Turns, NEW t \in TurnSet, Bare(t)
  PROVE  /\ Append(ts, t) \in Turns /\ Len(Append(ts, t)) = Len(ts) + 1 /\ Append(ts, t) # <<>>
         /\ DOMAIN Append(ts, t) = 1 .. (Len(ts) + 1)
         /\ \A i \in DOMAIN ts : i \in DOMAIN Append(ts, t) /\ Append(ts, t)[i] = ts[i]
         /\ Append(ts, t)[Len(ts) + 1] = t
         /\ Keeps(Append(ts, t), ts) /\ (t.by # "user" => NoNewUsers(Append(ts, t), ts))
         /\ \A js, c : EachOk(js, ts, c) /\ TurnOk(js, c, t) => EachOk(js, Append(ts, t), c)
<1> DEFINE s == Append(ts, t)
<1>0. Len(ts) \in Nat /\ DOMAIN ts = 1 .. Len(ts)
  BY TurnsAre
<1>1. s \in Turns /\ Len(s) = Len(ts) + 1 /\ s[Len(ts) + 1] = t /\ \A i \in 1 .. Len(ts) : s[i] = ts[i]
  BY <1>0 DEF Turns
<1> HIDE DEF s
<1>2. DOMAIN s = 1 .. (Len(ts) + 1)
  BY <1>1, TurnsAre
<1>3. s # <<>>
  BY <1>0, <1>1, EmptySeq
<1>4. Keeps(s, ts) /\ (t.by # "user" => NoNewUsers(s, ts))
  BY <1>0, <1>1, <1>2 DEF Keeps, NoNewUsers
<1>5. \A js, c : EachOk(js, ts, c) /\ TurnOk(js, c, t) => EachOk(js, s, c)
  BY <1>0, <1>1, <1>2 DEF EachOk
<1> QED
  BY <1>0, <1>1, <1>2, <1>3, <1>4, <1>5 DEF s

\* A turn that shows nothing takes the place of the last one, or of one that shows nothing.
LEMMA Replaced ==
  ASSUME NEW ts \in Turns, NEW t \in TurnSet, Bare(t), t.by # "user", NEW n \in DOMAIN ts,
         n = Len(ts) \/ Bare(ts[n])
  PROVE  /\ [ts EXCEPT ![n] = t] \in Turns /\ Len([ts EXCEPT ![n] = t]) = Len(ts)
         /\ DOMAIN [ts EXCEPT ![n] = t] = DOMAIN ts /\ [ts EXCEPT ![n] = t] # <<>>
         /\ \A i \in DOMAIN ts : [ts EXCEPT ![n] = t][i] = IF i = n THEN t ELSE ts[i]
         /\ Keeps([ts EXCEPT ![n] = t], ts) /\ NoNewUsers([ts EXCEPT ![n] = t], ts)
         /\ \A js, c : EachOk(js, ts, c) /\ TurnOk(js, c, t) => EachOk(js, [ts EXCEPT ![n] = t], c)
<1> DEFINE s == [ts EXCEPT ![n] = t]
<1>0. Len(ts) \in Nat /\ DOMAIN ts = 1 .. Len(ts)
  BY TurnsAre
<1>1. s \in Turns /\ Len(s) = Len(ts) /\ DOMAIN s = DOMAIN ts /\ \A i \in DOMAIN ts : s[i] = IF i = n THEN t ELSE ts[i]
  BY <1>0, ExceptSeq DEF Turns
<1> HIDE DEF s
<1>2. s # <<>>
  BY <1>0, <1>1, EmptySeq
<1>3. Keeps(s, ts) /\ NoNewUsers(s, ts)
  BY <1>0, <1>1 DEF Keeps, NoNewUsers, Bare
<1>4. \A js, c : EachOk(js, ts, c) /\ TurnOk(js, c, t) => EachOk(js, s, c)
  BY <1>1 DEF EachOk
<1> QED
  BY <1>1, <1>2, <1>3, <1>4 DEF s

LEMMA KeepsTransitive ==
  ASSUME NEW r \in Turns, NEW s \in Turns, NEW t \in Turns, Keeps(r, s), Keeps(s, t)
  PROVE  Keeps(r, t) /\ (NoNewUsers(r, s) /\ NoNewUsers(s, t) => NoNewUsers(r, t))
<1>1. \A i \in DOMAIN r : ~Bare(r[i]) => i \in DOMAIN t /\ r[i].shown = t[i].shown
  BY DEF Keeps, Bare
<1>2. ASSUME NEW h \in DOMAIN t, ~Bare(t[h]), ~(h \in DOMAIN r /\ r[h].shown = t[h].shown), NEW i \in DOMAIN r, ~Bare(r[i])
      PROVE  i < h
  <2>1. i \in DOMAIN s /\ s[i].shown = r[i].shown /\ ~Bare(s[i])
    BY <1>2 DEF Keeps, Bare
  <2>2. CASE h \in DOMAIN s /\ s[h].shown = t[h].shown
    BY <1>2, <2>2 DEF Keeps, Bare
  <2>3. CASE \A g \in DOMAIN s : ~Bare(s[g]) => g < h
    BY <2>1, <2>3
  <2> QED
    BY <1>2, <2>2, <2>3 DEF Keeps
<1> QED
  BY <1>1, <1>2 DEF Keeps, NoNewUsers

\* The function that Clean is defined by
CleanStep(turns, f, m) ==
  f = [n \in 0 .. m |-> IF n = 0 THEN <<>>
                        ELSE IF turns[n].by = "analyzing" THEN f[n - 1] ELSE Append(f[n - 1], turns[n])]

LEMMA CleanExists ==
  ASSUME NEW turns
  PROVE  \A m \in Nat : \E f : CleanStep(turns, f, m)
<1> DEFINE S == { m \in Nat : \E f : CleanStep(turns, f, m) }
<1>1. 0 \in S
  <2>1. CleanStep(turns, [n \in 0 .. 0 |-> <<>>], 0)
    BY DEF CleanStep
  <2> QED
    BY <2>1
<1>2. ASSUME NEW m \in Nat, m \in S PROVE m + 1 \in S
  <2>1. PICK f : CleanStep(turns, f, m)
    BY <1>2
  <2> DEFINE last == IF turns[m + 1].by = "analyzing" THEN f[m] ELSE Append(f[m], turns[m + 1])
             g == [n \in 0 .. (m + 1) |-> IF n = m + 1 THEN last ELSE f[n]]
  <2>2. \A n \in 0 .. m : g[n] = f[n] /\ f[n] = IF n = 0 THEN <<>>
                          ELSE IF turns[n].by = "analyzing" THEN f[n - 1] ELSE Append(f[n - 1], turns[n])
    <3> HIDE DEF last
    <3>1. \A n \in 0 .. m : g[n] = f[n]
      OBVIOUS
    <3> QED
      BY <2>1, <3>1 DEF CleanStep
  <2>3. g[m + 1] = last /\ g[m] = f[m]
    OBVIOUS
  <2>4. \A n \in 0 .. (m + 1) : g[n] = IF n = 0 THEN <<>>
                          ELSE IF turns[n].by = "analyzing" THEN g[n - 1] ELSE Append(g[n - 1], turns[n])
    <3> TAKE n \in 0 .. (m + 1)
    <3>1. CASE n = m + 1
      BY <2>3, <3>1
    <3>2. CASE n # m + 1
      <4>1. n \in 0 .. m /\ (n # 0 => n - 1 \in 0 .. m)
        BY <3>2
      <4> HIDE DEF g, last
      <4> QED
        BY <2>2, <4>1
    <3> QED
      BY <3>1, <3>2
  <2>5. g = [n \in 0 .. (m + 1) |-> g[n]]
    OBVIOUS
  <2> HIDE DEF g
  <2>6. CleanStep(turns, g, m + 1)
    BY <2>4, <2>5 DEF CleanStep
  <2> QED
    BY <2>6
<1> HIDE DEF S
<1>3. Nat \subseteq S
  BY <1>1, <1>2, NatInduced
<1> QED
  BY <1>3 DEF S

LEMMA CleanIs ==
  ASSUME NEW turns \in Turns
  PROVE  \E f : CleanStep(turns, f, Len(turns)) /\ Clean(turns) = f[Len(turns)]
<1>1. \E f : CleanStep(turns, f, Len(turns))
  BY CleanExists, TurnsAre
<1> DEFINE F == CHOOSE f : CleanStep(turns, f, Len(turns))
<1>2. CleanStep(turns, F, Len(turns))
  BY <1>1
<1>3. Clean(turns) = F[Len(turns)]
  BY Zenon DEF Clean, CleanStep
<1> QED
  BY <1>2, <1>3

\* The turns of s are the first n of ts without those that only say that something is analyzed.
Embeds(s, ts, n, at) ==
  /\ at \in [1 .. Len(s) -> 1 .. n]
  /\ \A i \in 1 .. Len(s) : s[i] = ts[at[i]]
  /\ \A i, h \in 1 .. Len(s) : i < h => at[i] < at[h]
  /\ \A h \in 1 .. n : ts[h].by # "analyzing" => \E i \in 1 .. Len(s) : at[i] = h

LEMMA CleanEmbeds ==
  ASSUME NEW ts \in Turns
  PROVE  Clean(ts) \in Turns /\ \E at : Embeds(Clean(ts), ts, Len(ts), at)
<1>1. PICK f : CleanStep(ts, f, Len(ts)) /\ Clean(ts) = f[Len(ts)]
  BY CleanIs
<1> DEFINE S == { n \in Nat : n =< Len(ts) => f[n] \in Turns /\ \E at : Embeds(f[n], ts, n, at) }
<1>2. Len(ts) \in Nat /\ DOMAIN ts = 1 .. Len(ts) /\ \A i \in 1 .. Len(ts) : ts[i] \in TurnSet
  BY TurnsAre
<1>3. \A n \in 0 .. Len(ts) : f[n] = IF n = 0 THEN <<>>
                          ELSE IF ts[n].by = "analyzing" THEN f[n - 1] ELSE Append(f[n - 1], ts[n])
  BY <1>1 DEF CleanStep
<1>4. 0 \in S
  <2>1. f[0] = <<>> /\ f[0] \in Turns /\ Len(f[0]) = 0
    <3>1. 0 \in 0 .. Len(ts)
      BY <1>2
    <3>2. f[0] = <<>>
      BY <1>3, <3>1
    <3> QED
      BY <3>2, EmptySeq DEF Turns
  <2>2. Embeds(f[0], ts, 0, [i \in 1 .. 0 |-> 0])
    BY <2>1 DEF Embeds
  <2> QED
    BY <2>1, <2>2
<1>5. ASSUME NEW n \in Nat, n \in S, n + 1 =< Len(ts)
      PROVE  f[n + 1] \in Turns /\ \E at : Embeds(f[n + 1], ts, n + 1, at)
  <2>1. n \in 0 .. Len(ts) /\ n + 1 \in 0 .. Len(ts) /\ n + 1 \in 1 .. Len(ts) /\ (n + 1) - 1 = n /\ n + 1 # 0
    BY <1>2, <1>5
  <2>2. f[n] \in Turns /\ \E at : Embeds(f[n], ts, n, at)
    BY <1>5, <2>1
  <2>3. PICK at : Embeds(f[n], ts, n, at)
    BY <2>2
  <2>4. Len(f[n]) \in Nat
    BY <2>2, TurnsAre
  <2>5. CASE ts[n + 1].by = "analyzing"
    <3>1. f[n + 1] = f[n]
      BY <1>3, <2>1, <2>5
    <3>2. Embeds(f[n], ts, n + 1, at)
      BY <2>3, <2>4, <2>5 DEF Embeds
    <3> QED
      BY <2>2, <3>1, <3>2
  <2>6. CASE ts[n + 1].by # "analyzing"
    <3> DEFINE s == f[n]  t == ts[n + 1]  r == Append(s, t)
               to == [i \in 1 .. (Len(s) + 1) |-> IF i = Len(s) + 1 THEN n + 1 ELSE at[i]]
    <3>1. f[n + 1] = r
      BY <1>3, <2>1, <2>6
    <3>2. s \in Turns /\ t \in TurnSet /\ Len(s) \in Nat
      BY <1>2, <2>1, <2>2, <2>4
    <3>3. Embeds(s, ts, n, at)
      BY <2>3
    <3> HIDE DEF s
    <3>4. r \in Turns /\ Len(r) = Len(s) + 1 /\ r[Len(s) + 1] = t /\ \A i \in 1 .. Len(s) : r[i] = s[i]
      BY <3>2 DEF Turns
    <3> HIDE DEF r
    <3>5. to \in [1 .. Len(r) -> 1 .. (n + 1)]
      BY <3>2, <3>3, <3>4 DEF Embeds
    <3>6. to[Len(s) + 1] = n + 1 /\ \A i \in 1 .. Len(s) : to[i] = at[i]
      BY <3>2
    <3> HIDE DEF to
    <3>7. \A i \in 1 .. Len(r) : r[i] = ts[to[i]]
      BY <3>2, <3>3, <3>4, <3>6 DEF Embeds
    <3>8. \A i, h \in 1 .. Len(r) : i < h => to[i] < to[h]
      <4> TAKE i, h \in 1 .. Len(r)
      <4>1. ASSUME h = Len(s) + 1, i < h PROVE to[i] < to[h]
        <5>1. i \in 1 .. Len(s) /\ to[i] = at[i] /\ to[h] = n + 1
          BY <3>2, <3>6, <4>1
        <5>2. at[i] \in 1 .. n
          BY <3>3, <5>1 DEF Embeds
        <5> QED
          BY <5>1, <5>2
      <4>2. ASSUME h # Len(s) + 1, i < h PROVE to[i] < to[h]
        <5>1. i \in 1 .. Len(s) /\ h \in 1 .. Len(s) /\ to[i] = at[i] /\ to[h] = at[h]
          BY <3>2, <3>4, <3>6, <4>2
        <5> QED
          BY <3>3, <4>2, <5>1 DEF Embeds
      <4> QED
        BY <4>1, <4>2
    <3>9. \A h \in 1 .. (n + 1) : ts[h].by # "analyzing" => \E i \in 1 .. Len(r) : to[i] = h
      <4> TAKE h \in 1 .. (n + 1)
      <4>1. CASE h = n + 1
        BY <3>2, <3>4, <3>6, <4>1
      <4>2. CASE h # n + 1
        <5>1. h \in 1 .. n
          BY <4>2
        <5>2. ts[h].by # "analyzing" => \E i \in 1 .. Len(s) : at[i] = h
          BY <3>3, <5>1 DEF Embeds
        <5>3. \A i \in 1 .. Len(s) : i \in 1 .. Len(r)
          BY <3>2, <3>4
        <5> QED
          BY <3>6, <5>2, <5>3
      <4> QED
        BY <4>1, <4>2
    <3>10. Embeds(r, ts, n + 1, to)
      BY <3>5, <3>7, <3>8, <3>9 DEF Embeds
    <3> QED
      BY <3>1, <3>4, <3>10
  <2> QED
    BY <2>5, <2>6
<1>6. \A n \in Nat : n \in S => n + 1 \in S
  BY <1>5
<1>7. Nat \subseteq S
  <2> HIDE DEF S
  <2> QED
    BY <1>4, <1>6, NatInduced
<1>8. Len(ts) \in S /\ Len(ts) =< Len(ts)
  BY <1>2, <1>7
<1> QED
  BY <1>1, <1>8

LEMMA CleanOk ==
  ASSUME NEW ts \in Turns
  PROVE  /\ Clean(ts) \in Turns
         /\ \A js, c : TurnsOk(js, ts, c) => TurnsOk(js, Clean(ts), c)
         /\ \A j, from : AfterUsers(ts, j, from) => AfterUsers(Clean(ts), j, from)
         /\ Clean(<<>>) = <<>>
<1> DEFINE s == Clean(ts)
<1>1. s \in Turns /\ \E at : Embeds(s, ts, Len(ts), at)
  BY CleanEmbeds
<1> HIDE DEF s
<1>2. PICK at : Embeds(s, ts, Len(ts), at)
  BY <1>1
<1>3. /\ Len(ts) \in Nat /\ DOMAIN ts = 1 .. Len(ts) /\ Len(s) \in Nat /\ DOMAIN s = 1 .. Len(s)
  BY <1>1, TurnsAre
<1>4. /\ \A i \in DOMAIN s : at[i] \in DOMAIN ts /\ s[i] = ts[at[i]]
      /\ \A i, h \in DOMAIN s : (i < h => at[i] < at[h]) /\ (at[i] < at[h] => i < h) /\ (at[i] = at[h] => i = h)
  BY <1>2, <1>3 DEF Embeds
<1>5. ASSUME NEW js, NEW c, TurnsOk(js, ts, c) PROVE TurnsOk(js, s, c)
  <2>1. \A i \in DOMAIN s : TurnOk(js, c, s[i]) /\ \A k \in DOMAIN s[i].shown : ToldBy(js, c, s[i].shown[k])
    BY <1>4, <1>5 DEF TurnsOk
  <2>2. ASSUME NEW j, InOrder(ts, j) PROVE InOrder(s, j)
    <3> SUFFICES ASSUME NEW i \in DOMAIN s, NEW h \in DOMAIN s, NEW k \in DOMAIN s[i].shown, NEW l \in DOMAIN s[h].shown,
                        s[i].shown[k][1] = j /\ s[h].shown[l][1] = j /\ (i < h \/ (i = h /\ k < l))
                 PROVE  s[i].shown[k][2] < s[h].shown[l][2]
      BY DEF InOrder
    <3>1. at[i] \in DOMAIN ts /\ at[h] \in DOMAIN ts /\ s[i] = ts[at[i]] /\ s[h] = ts[at[h]]
      BY <1>4
    <3>2. at[i] < at[h] \/ (at[i] = at[h] /\ k < l)
      BY <1>4
    <3> QED
      BY <2>2, <3>1, <3>2 DEF InOrder
  <2>3. ASSUME NEW j, FromTheFirst(ts, j) PROVE FromTheFirst(s, j)
    <3>1. ASSUME NEW e PROVE e \in Shown(ts) <=> e \in Shown(s)
      <4>1. ASSUME e \in Shown(s) PROVE e \in Shown(ts)
        <5>1. PICK i \in DOMAIN s : \E k \in DOMAIN s[i].shown : s[i].shown[k] = e
          BY <4>1, ShownMeans
        <5> QED
          BY <1>4, <5>1, ShownMeans
      <4>2. ASSUME e \in Shown(ts) PROVE e \in Shown(s)
        <5>1. PICK h \in DOMAIN ts : \E k \in DOMAIN ts[h].shown : ts[h].shown[k] = e
          BY <4>2, ShownMeans
        <5>2. ts[h].by # "analyzing"
          BY <1>5, <5>1, ShownAre DEF TurnsOk, TurnOk
        <5>3. PICK i \in DOMAIN s : at[i] = h
          BY <1>2, <1>3, <5>2 DEF Embeds
        <5> QED
          BY <1>4, <5>1, <5>3, ShownMeans
      <4> QED
        BY <4>1, <4>2
    <3> QED
      BY <2>3, <3>1 DEF FromTheFirst
  <2> QED
    BY <1>5, <2>1, <2>2, <2>3 DEF TurnsOk
<1>6. ASSUME NEW j, NEW from, AfterUsers(ts, j, from) PROVE AfterUsers(s, j, from)
  BY <1>4, <1>6 DEF AfterUsers
<1>7. Clean(<<>>) = <<>>
  <2>1. <<>> \in Turns /\ Len(<<>>) = 0
    BY EmptySeq DEF Turns
  <2>2. PICK f : CleanStep(<<>>, f, Len(<<>>)) /\ Clean(<<>>) = f[Len(<<>>)]
    BY <2>1, CleanIs
  <2> QED
    BY <2>1, <2>2 DEF CleanStep
<1> QED
  BY <1>1, <1>5, <1>6, <1>7 DEF s

\* Everything after the last message of the reader goes, and with it what the job has
\* told since it was last continued.
LEMMA ResetOk ==
  ASSUME NEW ts \in Turns
  PROVE  /\ Reset(ts) \in Turns /\ Reset(ts) # <<>>
         /\ Keeps(Reset(ts), ts) /\ NoNewUsers(Reset(ts), ts)
         /\ \A js, c : TurnsOk(js, ts, c) => TurnsOk(js, Reset(ts), c)
         /\ \A j, from : AfterUsers(ts, j, from) => NoneNew(Reset(ts), j, from)
<1> DEFINE n == LastUser(ts)  s == SubSeq(ts, 1, n)
<1>1. n \in 0 .. Len(ts) /\ (n # 0 => n \in DOMAIN ts /\ ts[n].by = "user")
  BY LastUserIs, TurnsAre
<1> HIDE DEF n
<1>2. /\ s \in Turns /\ Len(s) = n /\ DOMAIN s = 1 .. n /\ Keeps(s, ts) /\ NoNewUsers(s, ts)
      /\ \A i \in 1 .. n : i \in DOMAIN ts /\ s[i] = ts[i]
      /\ \A js, c : EachOk(js, ts, c) => EachOk(js, s, c)
  BY <1>1, Cut
<1> HIDE DEF s
<1>3. Reply \in TurnSet /\ Bare(Reply) /\ Reply.by # "user" /\ \A js, c : TurnOk(js, c, Reply)
  <2>1. "reply" \in Bys /\ "reply" # "user"
    BY DEF Bys
  <2> QED
    BY <2>1, TurnIs DEF Reply
<1>4. Reset(ts) = Append(s, Reply)
  BY DEF Reset, s, n
<1> DEFINE r == Append(s, Reply)
<1>5. /\ r \in Turns /\ r # <<>> /\ Keeps(r, s) /\ NoNewUsers(r, s) /\ DOMAIN r = 1 .. (n + 1) /\ r[n + 1] = Reply
      /\ \A i \in 1 .. n : r[i] = s[i]
      /\ \A js, c : EachOk(js, s, c) => EachOk(js, r, c)
  BY <1>2, <1>3, Added
<1> HIDE DEF r
<1>6. Keeps(r, ts) /\ NoNewUsers(r, ts)
  BY <1>2, <1>5, KeepsTransitive
<1>7. ASSUME NEW js, NEW c, TurnsOk(js, ts, c) PROVE TurnsOk(js, r, c)
  <2>1. EachOk(js, ts, c)
    BY <1>7 DEF TurnsOk, EachOk
  <2> QED
    BY <1>2, <1>5, <1>6, <1>7, <2>1, KeepsTurnsOk
<1>8. ASSUME NEW j, NEW from, AfterUsers(ts, j, from) PROVE NoneNew(r, j, from)
  <2> SUFFICES ASSUME NEW i \in DOMAIN r, NEW k \in DOMAIN r[i].shown, New(r[i].shown[k], j, from) PROVE FALSE
    BY DEF NoneNew
  <2>1. i # n + 1
    BY <1>3, <1>5 DEF Bare
  <2>2. i \in 1 .. n /\ r[i] = ts[i] /\ i \in DOMAIN ts
    BY <1>1, <1>2, <1>5, <2>1
  <2>3. n \in DOMAIN ts /\ ts[n].by = "user"
    BY <1>1, <2>2
  <2>4. k \in DOMAIN ts[i].shown /\ New(ts[i].shown[k], j, from)
    BY <2>2
  <2>5. n < i
    BY <1>8, <2>2, <2>3, <2>4 DEF AfterUsers
  <2> QED
    BY <1>1, <2>2, <2>5
<1> QED
  BY <1>4, <1>5, <1>6, <1>7, <1>8 DEF r

LEMMA FailedOk ==
  ASSUME NEW ts \in Turns, ts # <<>>, NEW how \in Fails, NEW ref \in Nat
  PROVE  /\ Failed(ts, how, ref) \in Turns /\ Failed(ts, how, ref) # <<>> /\ Len(Failed(ts, how, ref)) = Len(ts)
         /\ Keeps(Failed(ts, how, ref), ts) /\ NoNewUsers(Failed(ts, how, ref), ts)
         /\ \A i \in DOMAIN Failed(ts, how, ref) : i # Len(ts) => Failed(ts, how, ref)[i] = ts[i]
         /\ Bare(Failed(ts, how, ref)[Len(ts)])
         /\ \A js, c : TurnsOk(js, ts, c) /\ (how = "error" => ref \in DOMAIN js /\ js[ref].conv = c)
                   => TurnsOk(js, Failed(ts, how, ref), c)
<1> DEFINE t == [Reply EXCEPT !.failed = how, !.job = ref]
<1>1. t \in TurnSet /\ Bare(t) /\ t.by = "reply" /\ t.failed = how /\ t.job = ref
  <2>1. Reply \in TurnSet /\ Bare(Reply) /\ Reply.by = "reply"
    <3>1. "reply" \in Bys
      BY DEF Bys
    <3> QED
      BY <3>1, TurnIs DEF Reply
  <2> QED
    BY <2>1 DEF TurnSet, Bare
<1>2. Failed(ts, how, ref) = [ts EXCEPT ![Len(ts)] = t]
  BY DEF Failed, OnLast
<1> HIDE DEF t
<1>3. Len(ts) \in DOMAIN ts
  BY TurnsAre
<1> DEFINE s == [ts EXCEPT ![Len(ts)] = t]
<1>4. /\ s \in Turns /\ s # <<>> /\ Len(s) = Len(ts) /\ Keeps(s, ts) /\ NoNewUsers(s, ts) /\ DOMAIN s = DOMAIN ts
      /\ \A i \in DOMAIN ts : s[i] = IF i = Len(ts) THEN t ELSE ts[i]
      /\ \A js, c : EachOk(js, ts, c) /\ TurnOk(js, c, t) => EachOk(js, s, c)
  BY <1>1, <1>3, Replaced
<1> HIDE DEF s
<1>5. ASSUME NEW js, NEW c, TurnsOk(js, ts, c), how = "error" => ref \in DOMAIN js /\ js[ref].conv = c
      PROVE  TurnsOk(js, s, c)
  <2>1. EachOk(js, ts, c) /\ TurnOk(js, c, t)
    BY <1>1, <1>5 DEF TurnsOk, EachOk, TurnOk, Bare
  <2> QED
    BY <1>4, <1>5, <2>1, KeepsTurnsOk
<1>6. Failed(ts, how, ref) = s
  BY <1>2 DEF s
<1>7. Bare(s[Len(ts)]) /\ \A i \in DOMAIN s : i # Len(ts) => s[i] = ts[i]
  BY <1>1, <1>3, <1>4
<1> QED
  BY <1>4, <1>5, <1>6, <1>7

-----------------------------------------------------------------------------
(* The store and the jobs                                                  *)

\* What may happen to the jobs beside a conversation that shows what they have told
Grows(js, ks) ==
  /\ DOMAIN js \subseteq DOMAIN ks
  /\ \A j \in DOMAIN js :
       /\ ks[j].conv = js[j].conv /\ js[j].base =< ks[j].base
       /\ DOMAIN js[j].log \subseteq DOMAIN ks[j].log
       /\ \A n \in DOMAIN js[j].log : ks[j].log[n] = js[j].log[n]
       /\ ~ks[j].cancelled => ~js[j].cancelled
       /\ Whole(ks[j]) => Whole(js[j])

LEMMA JobsAre ==
  ASSUME NEW js \in Seq(JobSet)
  PROVE  /\ Len(js) \in Nat /\ DOMAIN js = 1 .. Len(js) /\ 0 \notin DOMAIN js
         /\ \A j \in DOMAIN js : /\ j \in Nat /\ js[j] \in JobSet /\ js[j].base \in Nat /\ js[j].conv \in Convs
                                 /\ js[j].log \in Seq(Event) /\ Len(js[j].log) \in Nat
                                 /\ DOMAIN js[j].log = 1 .. Len(js[j].log)
                                 /\ js[j].over \in BOOLEAN /\ js[j].cancelled \in BOOLEAN
<1>1. Len(js) \in Nat /\ DOMAIN js = 1 .. Len(js) /\ \A j \in DOMAIN js : js[j] \in JobSet
  BY LenProperties, ElementOfSeq
<1>2. ASSUME NEW j \in DOMAIN js
      PROVE  /\ js[j].log \in Seq(Event) /\ Len(js[j].log) \in Nat /\ DOMAIN js[j].log = 1 .. Len(js[j].log)
             /\ js[j].base \in Nat /\ js[j].conv \in Convs /\ js[j].over \in BOOLEAN /\ js[j].cancelled \in BOOLEAN
  <2>1. js[j].log \in Seq(Event) /\ js[j].base \in Nat /\ js[j].conv \in Convs /\ js[j].over \in BOOLEAN /\ js[j].cancelled \in BOOLEAN
    BY <1>1 DEF JobSet
  <2> QED
    BY <2>1, LenProperties
<1> QED
  BY <1>1, <1>2

LEMMA GrowsItself ==
  ASSUME NEW js \in Seq(JobSet)
  PROVE  Grows(js, js)
BY JobsAre DEF Grows

LEMMA FromLater ==
  ASSUME NEW ts \in Turns, NEW j, NEW from \in Nat, NEW later \in Nat, from =< later
  PROVE  /\ AfterUsers(ts, j, from) => AfterUsers(ts, j, later)
         /\ NoneNew(ts, j, from) => NoneNew(ts, j, later)
<1>1. ASSUME NEW i \in DOMAIN ts, NEW k \in DOMAIN ts[i].shown, New(ts[i].shown[k], j, later)
      PROVE  New(ts[i].shown[k], j, from)
  BY <1>1, ShownAre DEF New
<1> QED
  BY <1>1 DEF AfterUsers, NoneNew

LEMMA GrowsTurns ==
  ASSUME NEW js, NEW ks, Grows(js, ks), NEW ts \in Turns, NEW c, TurnsOk(js, ts, c)
  PROVE  TurnsOk(ks, ts, c)
<1>1. ASSUME NEW i \in DOMAIN ts PROVE TurnOk(ks, c, ts[i]) /\ \A k \in DOMAIN ts[i].shown : ToldBy(ks, c, ts[i].shown[k])
  BY DEF TurnsOk, TurnOk, ToldBy, Grows
<1>2. ASSUME NEW j \in DOMAIN ks, ~ks[j].cancelled
      PROVE  InOrder(ts, j) /\ (Whole(ks[j]) => FromTheFirst(ts, j))
  <2>1. CASE j \in DOMAIN js
    BY <1>2, <2>1 DEF Grows, TurnsOk
  <2>2. CASE j \notin DOMAIN js
    <3>1. ASSUME NEW i \in DOMAIN ts, NEW k \in DOMAIN ts[i].shown PROVE ts[i].shown[k][1] # j
      BY <2>2 DEF TurnsOk, ToldBy
    <3>2. \A e \in Shown(ts) : e[1] # j
      BY <3>1, ShownMeans
    <3> QED
      BY <3>1, <3>2 DEF InOrder, FromTheFirst
  <2> QED
    BY <2>1, <2>2
<1> QED
  BY <1>1, <1>2 DEF TurnsOk

LEMMA GrowsStore ==
  ASSUME NEW js \in Seq(JobSet), NEW ks \in Seq(JobSet), Grows(js, ks), NEW st \in Stores, StoreOk(js, st)
  PROVE  StoreOk(ks, st)
<1> SUFFICES ASSUME NEW c \in Convs PROVE ConvOk(ks, st, c)
  BY DEF StoreOk
<1> DEFINE j == st[c].pending
<1>1. ConvOk(js, st, c) /\ st[c].turns \in Turns
  BY DEF StoreOk, Stores, Kept
<1>2. TurnsOk(ks, st[c].turns, c)
  BY <1>1, GrowsTurns DEF ConvOk
<1>3. ASSUME j # 0
      PROVE  j \in DOMAIN ks /\ ks[j].conv = c /\ (~ks[j].cancelled => AfterUsers(st[c].turns, j, ks[j].base))
  <2>1. j \in DOMAIN js /\ js[j].conv = c /\ (~js[j].cancelled => AfterUsers(st[c].turns, j, js[j].base))
    BY <1>1, <1>3 DEF ConvOk
  <2>2. /\ j \in DOMAIN ks /\ ks[j].conv = c /\ js[j].base =< ks[j].base /\ (~ks[j].cancelled => ~js[j].cancelled)
        /\ js[j].base \in Nat /\ ks[j].base \in Nat
    BY <2>1, JobsAre DEF Grows
  <2> QED
    BY <1>1, <2>1, <2>2, FromLater
<1> QED
  BY <1>1, <1>2, <1>3 DEF ConvOk

LEMMA PersistedIs ==
  ASSUME NEW st \in Stores, NEW a \in Convs \cup {None}, NEW p \in View
  PROVE  /\ Persisted(st, a, p) \in Stores
         /\ \A c \in Convs : Persisted(st, a, p)[c].here = st[c].here
         /\ \A c \in Convs : Persisted(st, a, p)[c].pending = st[c].pending
         /\ \A c \in Convs : Persisted(st, a, p)[c].turns # st[c].turns =>
              c = a /\ p.mounted /\ ~p.streaming /\ st[c].here /\ Persisted(st, a, p)[c].turns = Clean(p.turns)
<1>1. p.turns \in Turns /\ Clean(p.turns) \in Turns
  BY CleanOk DEF View
<1>2. \A c \in Convs : st[c] \in Kept
  BY DEF Stores
<1>3. CASE p.mounted /\ ~p.streaming /\ a # None /\ st[a].here
  <2>1. a \in Convs /\ Persisted(st, a, p) = [st EXCEPT ![a].turns = Clean(p.turns)]
    BY <1>3 DEF Persisted
  <2>2. [st EXCEPT ![a].turns = Clean(p.turns)] \in Stores
    BY <1>1, <1>2, <2>1 DEF Stores, Kept
  <2>3. \A c \in Convs : /\ [st EXCEPT ![a].turns = Clean(p.turns)][c].here = st[c].here
                         /\ [st EXCEPT ![a].turns = Clean(p.turns)][c].pending = st[c].pending
                         /\ [st EXCEPT ![a].turns = Clean(p.turns)][c].turns = IF c = a THEN Clean(p.turns) ELSE st[c].turns
    BY <1>2, <2>1 DEF Stores, Kept
  <2> QED
    BY <1>3, <2>1, <2>2, <2>3
<1>4. CASE ~(p.mounted /\ ~p.streaming /\ a # None /\ st[a].here)
  BY <1>4 DEF Persisted
<1> QED
  BY <1>3, <1>4

LEMMA LinkedIs ==
  ASSUME NEW st \in Stores, NEW c \in Convs \cup {None}, NEW j \in Nat
  PROVE  /\ Linked(st, c, j) \in Stores
         /\ \A d \in Convs : Linked(st, c, j)[d].here = st[d].here
         /\ \A d \in Convs : Linked(st, c, j)[d].turns = st[d].turns
         /\ \A d \in Convs : d = c /\ st[d].here => Linked(st, c, j)[d].pending = j
         /\ \A d \in Convs : ~(d = c /\ st[d].here) => Linked(st, c, j)[d].pending = st[d].pending
<1>1. \A d \in Convs : st[d] \in Kept
  BY DEF Stores
<1>2. None \notin Convs
  BY ChatAssumption
<1>3. CASE c # None /\ st[c].here
  <2>1. c \in Convs /\ Linked(st, c, j) = [st EXCEPT ![c].pending = j]
    BY <1>3 DEF Linked
  <2> QED
    BY <1>1, <1>2, <1>3, <2>1 DEF Stores, Kept
<1>4. CASE ~(c # None /\ st[c].here)
  BY <1>1, <1>2, <1>4 DEF Linked, Stores, Kept
<1> QED
  BY <1>3, <1>4

LEMMA LinkedAt ==
  ASSUME NEW st \in Stores, NEW c \in Convs, NEW j \in Nat, st[c].here
  PROVE  /\ Linked(st, c, j) \in Stores /\ Linked(st, c, j)[c].here /\ Linked(st, c, j)[c].pending = j
         /\ Linked(st, c, j)[c].turns = st[c].turns
<1>1. st[c] \in Kept /\ c # None
  BY ChatAssumption DEF Stores
<1>2. Linked(st, c, j) = [st EXCEPT ![c].pending = j]
  BY <1>1 DEF Linked
<1> QED
  BY <1>1, <1>2 DEF Stores, Kept

LEMMA LinkedOk ==
  ASSUME NEW js, NEW st \in Stores, StoreOk(js, st), NEW c \in Convs, NEW j \in Nat,
         j # 0 => /\ j \in DOMAIN js /\ js[j].conv = c
                  /\ ~js[j].cancelled => AfterUsers(st[c].turns, j, js[j].base)
  PROVE  StoreOk(js, Linked(st, c, j))
<1> SUFFICES ASSUME NEW d \in Convs PROVE ConvOk(js, Linked(st, c, j), d)
  BY DEF StoreOk
<1>1. ConvOk(js, st, d)
  BY DEF StoreOk
<1>2. /\ Linked(st, c, j)[d].here = st[d].here /\ Linked(st, c, j)[d].turns = st[d].turns
      /\ Linked(st, c, j)[d].pending = IF d = c /\ st[d].here THEN j ELSE st[d].pending
  BY LinkedIs
<1> HIDE DEF Linked
<1> QED
  BY <1>1, <1>2 DEF ConvOk
-----------------------------------------------------------------------------
(* What a step has to show                                                 *)

LEMMA PersistedKeeps ==
  ASSUME NEW st \in Stores, NEW a \in Convs \cup {None}, NEW p \in View, NEW r, r = Persisted(st, a, p)
  PROVE  r \in Stores /\ \A c \in Convs : r[c].here = st[c].here /\ r[c].pending = st[c].pending
BY PersistedIs

LEMMA StoredOk ==
  ASSUME NEW js, NEW st \in Stores, StoreOk(js, st), NEW a \in Convs \cup {None}, NEW p \in View,
         p.mounted /\ a # None => TurnsOk(js, p.turns, a),
         (p.mounted /\ ~p.streaming /\ a # None /\ st[a].pending # 0 /\ ~js[st[a].pending].cancelled)
           => AfterUsers(p.turns, st[a].pending, js[st[a].pending].base)
  PROVE  StoreOk(js, Persisted(st, a, p))
<1> SUFFICES ASSUME NEW c \in Convs PROVE ConvOk(js, Persisted(st, a, p), c)
  BY DEF StoreOk
<1>1. ConvOk(js, st, c) /\ p.turns \in Turns /\ c # None
  BY ChatAssumption DEF StoreOk, View
<1> DEFINE r == Persisted(st, a, p)[c]
<1>2. /\ r.here = st[c].here /\ r.pending = st[c].pending
      /\ r.turns = st[c].turns \/ (c = a /\ p.mounted /\ ~p.streaming /\ st[c].here /\ r.turns = Clean(p.turns))
  BY PersistedIs
<1> HIDE DEF r
<1>3. CASE r.turns = st[c].turns
  <2>1. ConvOk(js, Persisted(st, a, p), c) <=> ConvOk(js, st, c)
    BY <1>2, <1>3 DEF ConvOk, r
  <2> QED
    BY <1>1, <2>1
<1>4. CASE c = a /\ p.mounted /\ ~p.streaming /\ st[c].here /\ r.turns = Clean(p.turns)
  <2> DEFINE j == st[c].pending
  <2>1. TurnsOk(js, Clean(p.turns), c)
    BY <1>1, <1>4, CleanOk
  <2>2. ASSUME j # 0, ~js[j].cancelled PROVE AfterUsers(Clean(p.turns), j, js[j].base)
    <3>1. AfterUsers(p.turns, j, js[j].base)
      BY <1>1, <1>4, <2>2
    <3> QED
      BY <1>1, <3>1, CleanOk
  <2>3. j # 0 => j \in DOMAIN js /\ js[j].conv = c
    BY <1>1 DEF ConvOk
  <2> QED
    BY <1>2, <1>4, <2>1, <2>2, <2>3 DEF ConvOk, r
<1> QED
  BY <1>2, <1>3, <1>4

LEMMA NoneNewAfter ==
  ASSUME NEW ts, NEW j, NEW from, NoneNew(ts, j, from)
  PROVE  AfterUsers(ts, j, from)
BY DEF NoneNew, AfterUsers

\* Whenever it comes to follow a job, the page finds what it has to replay behind the
\* last message of the reader.
LEMMA PageAfter ==
  ASSUME ChatTyped, PageOk, FlowsOk, page.mounted, active # None, store[active].pending # 0,
         ~jobs[store[active].pending].cancelled
  PROVE  AfterUsers(page.turns, store[active].pending, jobs[store[active].pending].base)
<1> DEFINE j == store[active].pending
<1>1. page.turns \in Turns /\ TurnsOk(jobs, page.turns, active)
  BY DEF ChatTyped, View, PageOk
<1>2. CASE \A f \in Flows : ~Following(f)
  BY <1>2, NoneNewAfter DEF PageOk
<1>3. CASE \E f \in Flows : Following(f)
  <2>1. PICK f \in Flows : Following(f)
    BY <1>3
  <2>2. flows[f].job = j /\ FollowOk(f)
    BY <2>1 DEF FlowsOk, Following, Live, FollowOk
  <2>3. CASE flows[f].at = "retry"
    BY <2>2, <2>3, NoneNewAfter DEF FollowOk
  <2>4. CASE flows[f].at = "reading"
    <3>1. OnlyInLast(page.turns, j, jobs[j].base)
      BY <2>2, <2>4 DEF FollowOk
    <3> SUFFICES ASSUME NEW i \in DOMAIN page.turns, NEW u \in DOMAIN page.turns, page.turns[u].by = "user",
                        NEW k \in DOMAIN page.turns[i].shown, New(page.turns[i].shown[k], j, jobs[j].base)
                 PROVE  u < i
      BY DEF AfterUsers
    <3>2. i = Len(page.turns)
      BY <3>1 DEF OnlyInLast
    <3>3. page.turns[i].shown # <<>>
      BY <1>1, ShownAre
    <3>4. u # i
      BY <1>1, <3>3 DEF TurnsOk, TurnOk
    <3> QED
      BY <1>1, <3>2, <3>4, TurnsAre
  <2> QED
    BY <2>1, <2>3, <2>4 DEF Following
<1> QED
  BY <1>2, <1>3

LEMMA Assembles ==
  ASSUME NEW st \in Stores, store' = Persisted(st, active', page'),
         active' \in Convs \cup {None}, page' \in View, flows' \in [Flows -> Flow], jobs' \in Seq(JobSet),
         JobsOk(jobs'), StoreOk(jobs', st), InViewOk(st, active'),
         page'.mounted /\ active' = None => page'.turns = <<>>,
         page'.mounted /\ active' # None => TurnsOk(jobs', page'.turns, active'),
         (/\ page'.mounted /\ active' # None /\ st[active'].pending # 0 /\ ~jobs'[st[active'].pending].cancelled
          /\ \A f \in Flows : ~Following(f)')
           => NoneNew(page'.turns, st[active'].pending, jobs'[st[active'].pending].base),
         FlowsOk'
  PROVE  ChatInv'
<1>1. store' \in Stores /\ \A c \in Convs : store'[c].here = st[c].here /\ store'[c].pending = st[c].pending
  BY PersistedKeeps
<1>2. ChatTyped'
  BY <1>1 DEF ChatTyped
<1>3. ~page'.streaming => \A f \in Flows : ~Following(f)'
  BY DEF FlowsOk, Following, Live, LiveOk
<1>4. StoreOk(jobs', store')
  <2>1. (page'.mounted /\ ~page'.streaming /\ active' # None /\ st[active'].pending # 0 /\ ~jobs'[st[active'].pending].cancelled)
           => AfterUsers(page'.turns, st[active'].pending, jobs'[st[active'].pending].base)
    BY <1>3, NoneNewAfter
  <2> QED
    BY <2>1, StoredOk
<1>5. PageOk'
  <2>1. InViewOk(store', active')
    BY <1>1 DEF InViewOk
  <2>2. active' # None => store'[active'].pending = st[active'].pending
    BY <1>1
  <2> QED
    BY <2>1, <2>2 DEF PageOk
<1> QED
  BY <1>2, <1>4, <1>5 DEF ChatInv

-----------------------------------------------------------------------------
(* Flows                                                                   *)

\* Nothing, or something that finds out later that it is over, and does not touch the page
Quiet(g) ==
  flows[g].at # "none" =>
    /\ flows[g].aborted /\ flows[g].at \in {"reading", "retry"}
    /\ flows[g].kind \in {"complete", "attach", "continue"}
    /\ flows[g].at = "reading" => flows[g].zombie

LEMMA OthersQuiet ==
  ASSUME FlowsOk, NEW f \in Flows, Live(f)
  PROVE  \A g \in Flows \ {f} : Quiet(g)
<1> SUFFICES ASSUME NEW g \in Flows \ {f}, flows[g].at # "none" PROVE Quiet(g)
  BY DEF Quiet
<1>1. flows[g].aborted
  BY DEF FlowsOk, Live
<1>2. DyingOk(g)
  BY <1>1 DEF FlowsOk
<1> QED
  BY <1>1, <1>2 DEF DyingOk, Quiet

LEMMA AllQuiet ==
  ASSUME FlowsOk, Settled, \A g \in Flows : ~Live(g)
  PROVE  \A g \in Flows : Quiet(g)
BY DEF FlowsOk, Settled, Live, DyingOk, Quiet

\* One flow goes on, beside quiet ones.
LEMMA OneFlow ==
  ASSUME NEW f \in Flows, \A g \in Flows \ {f} : Quiet(g)',
         \/ Quiet(f)'
         \/ /\ ~flows'[f].aborted /\ LiveOk(f)'
            /\ flows'[f].at \in {"reading", "retry"} => FollowOk(f)'
  PROVE  FlowsOk'
<1>1. \A g \in Flows \ {f} : ~Live(g)'
  BY DEF Quiet, Live
<1>2. ASSUME NEW g \in Flows, flows'[g].at # "none"
      PROVE  IF flows'[g].aborted THEN DyingOk(g)'
             ELSE (\A h \in Flows : Live(h)' => h = g) /\ LiveOk(g)' /\ (flows'[g].at \in {"reading", "retry"} => FollowOk(g)')
  <2>1. CASE Quiet(g)'
    BY <1>2, <2>1 DEF Quiet, DyingOk
  <2>2. CASE ~Quiet(g)'
    <3>1. g = f
      BY <2>2
    <3> QED
      BY <1>1, <2>2, <3>1
  <2> QED
    BY <2>1, <2>2
<1> QED
  BY <1>2 DEF FlowsOk
-----------------------------------------------------------------------------
(* A follower shows what it reads                                          *)

LEMMA ShownKept ==
  ASSUME NEW s \in Turns, NEW ts \in Turns, Keeps(s, ts)
  PROVE  Shown(s) \subseteq Shown(ts)
<1> SUFFICES ASSUME NEW e \in Shown(s) PROVE e \in Shown(ts)
  OBVIOUS
<1>1. PICK i \in DOMAIN s : \E k \in DOMAIN s[i].shown : s[i].shown[k] = e
  BY ShownMeans
<1>2. PICK k \in DOMAIN s[i].shown : s[i].shown[k] = e
  BY <1>1
<1>3. i \in DOMAIN ts /\ k \in DOMAIN ts[i].shown /\ ts[i].shown[k] = e
  BY <1>2, KeptShown
<1> QED
  BY <1>3, ShownMeans

LEMMA ReplyIs ==
  Reply \in TurnSet /\ Bare(Reply) /\ Reply.by = "reply" /\ Reply.failed = "no" /\ \A js, c : TurnOk(js, c, Reply)
<1>1. "reply" \in Bys
  BY DEF Bys
<1> QED
  BY <1>1, TurnIs DEF Reply

\* What takes part in showing another piece of text: the last turn, or a new one if
\* the last one tells of a failure.
LEMMA FreshOk ==
  ASSUME NEW ts \in Turns, ts # <<>>, NEW js, NEW c, TurnsOk(js, ts, c)
  PROVE  LET us == FreshIfErrored(ts) IN
         /\ us \in Turns /\ us # <<>> /\ Keeps(us, ts) /\ TurnsOk(js, us, c) /\ Shown(us) = Shown(ts)
         /\ \A j, from : OnlyInLast(ts, j, from) => OnlyInLast(us, j, from)
<1> DEFINE us == FreshIfErrored(ts)
           n == Len(ts)
<1>1. n \in DOMAIN ts /\ n \in Nat /\ DOMAIN ts = 1 .. n /\ Last(ts) = ts[n]
  BY TurnsAre DEF Last
<1>2. CASE ts[n].failed = "no"
  <2>1. us = ts
    BY <1>1, <1>2 DEF FreshIfErrored
  <2> QED
    BY <2>1, KeepsItself
<1>3. CASE ts[n].failed # "no"
  <2>1. us = Append(ts, Reply)
    BY <1>1, <1>3 DEF FreshIfErrored
  <2>2. EachOk(js, ts, c) /\ Reply \in TurnSet /\ Bare(Reply) /\ TurnOk(js, c, Reply)
    BY ReplyIs DEF TurnsOk, EachOk
  <2>3. /\ us \in Turns /\ us # <<>> /\ Keeps(us, ts) /\ EachOk(js, us, c)
        /\ \A i \in DOMAIN ts : i \in DOMAIN us /\ us[i] = ts[i]
    BY <2>1, <2>2, Added
  <2> HIDE DEF us
  <2>4. TurnsOk(js, us, c)
    BY <2>3, KeepsTurnsOk
  <2>5. Shown(us) = Shown(ts)
    <3>1. \A e : e \in Shown(ts) => e \in Shown(us)
      BY <2>3, ShownMeans
    <3> QED
      BY <2>3, <3>1, ShownKept
  <2>6. ASSUME NEW j, NEW from, OnlyInLast(ts, j, from) PROVE OnlyInLast(us, j, from)
    <3>1. ts[n].shown = <<>>
      BY <1>1, <1>3 DEF TurnsOk, TurnOk
    <3>2. NoneNew(ts, j, from)
      BY <2>6, <3>1 DEF OnlyInLast, NoneNew
    <3>3. NoneNew(us, j, from)
      BY <2>3, <3>2, KeepsNoneNew
    <3> QED
      BY <3>3 DEF OnlyInLast, NoneNew
  <2> QED
    BY <2>3, <2>4, <2>5, <2>6 DEF us
<1> QED
  BY <1>2, <1>3

\* The turn that shows one more event
OneMore(us, e) ==
  [us EXCEPT ![Len(us)] = [us[Len(us)] EXCEPT !.by = "reply", !.failed = "no", !.shown = Append(@, e)]]

LEMMA OneMoreIs ==
  ASSUME NEW us \in Turns, us # <<>>, NEW e \in Nat \X Nat
  PROVE  /\ OneMore(us, e) \in Turns /\ OneMore(us, e) # <<>> /\ Len(OneMore(us, e)) = Len(us)
         /\ DOMAIN OneMore(us, e) = 1 .. Len(us) /\ Len(us) \in 1 .. Len(us)
         /\ \A i \in 1 .. Len(us) : i # Len(us) => OneMore(us, e)[i] = us[i]
         /\ OneMore(us, e)[Len(us)].by = "reply" /\ OneMore(us, e)[Len(us)].failed = "no"
         /\ Len(us[Len(us)].shown) \in Nat /\ DOMAIN us[Len(us)].shown = 1 .. Len(us[Len(us)].shown)
         /\ DOMAIN OneMore(us, e)[Len(us)].shown = 1 .. (Len(us[Len(us)].shown) + 1)
         /\ OneMore(us, e)[Len(us)].shown[Len(us[Len(us)].shown) + 1] = e
         /\ \A k \in 1 .. Len(us[Len(us)].shown) : OneMore(us, e)[Len(us)].shown[k] = us[Len(us)].shown[k]
<1> DEFINE m == Len(us)
           n == Len(us[m].shown)
           t == [us[m] EXCEPT !.by = "reply", !.failed = "no", !.shown = Append(@, e)]
           s == OneMore(us, e)
<1>0. s = [us EXCEPT ![m] = t] /\ m = Len(us) /\ n = Len(us[m].shown)
  BY DEF OneMore
<1> HIDE DEF s, m, n
<1>1. m \in DOMAIN us /\ m \in Nat /\ DOMAIN us = 1 .. m /\ us[m] \in TurnSet
  BY <1>0, TurnsAre
<1>2. us[m].shown \in Seq(Nat \X Nat) /\ n \in Nat /\ DOMAIN us[m].shown = 1 .. n
  BY <1>0, <1>1, ShownAre
<1>3. Append(us[m].shown, e) \in Seq(Nat \X Nat) /\ "reply" \in Bys /\ "no" \in Fails
  BY <1>2 DEF Bys, Fails
<1>4. t \in TurnSet /\ t.by = "reply" /\ t.failed = "no" /\ t.shown = Append(us[m].shown, e)
  BY <1>1, <1>3 DEF TurnSet
<1> HIDE DEF t
<1>5. /\ DOMAIN Append(us[m].shown, e) = 1 .. (n + 1) /\ Append(us[m].shown, e)[n + 1] = e
      /\ \A k \in 1 .. n : Append(us[m].shown, e)[k] = us[m].shown[k]
  BY <1>0, <1>2, AppendProperties
<1>6. s \in Turns /\ Len(s) = m /\ DOMAIN s = 1 .. m /\ \A i \in 1 .. m : s[i] = IF i = m THEN t ELSE us[i]
  BY <1>0, <1>1, <1>4, ExceptSeq DEF Turns
<1>7. m \in 1 .. m /\ m # 0
  BY <1>1
<1>8. s # <<>>
  BY ONLY <1>6, <1>7
<1> QED
  BY <1>1, <1>2, <1>4, <1>5, <1>6, <1>7, <1>8 DEF s, m, n

LEMMA TellTextOk ==
  ASSUME NEW ts \in Turns, ts # <<>>, NEW js \in Seq(JobSet), NEW c, TurnsOk(js, ts, c),
         NEW j \in DOMAIN js, js[j].conv = c, NEW i \in DOMAIN js[j].log, js[j].log[i] = "text",
         ~js[j].cancelled =>
           /\ OnlyInLast(ts, j, js[j].base)
           /\ \A e \in Shown(ts) : e[1] = j => e[2] <= i - 1
           /\ Whole(js[j]) /\ i > 1 => <<j, i - 1>> \in Shown(ts)
  PROVE  LET s == TellText(ts, <<j, i>>) IN
         /\ s \in Turns /\ s # <<>> /\ TurnsOk(js, s, c) /\ Shown(s) = Shown(ts) \cup {<<j, i>>}
         /\ ~js[j].cancelled => OnlyInLast(s, j, js[j].base) /\ \A e \in Shown(s) : e[1] = j => e[2] <= i
<1> DEFINE us == FreshIfErrored(ts)
           m == Len(us)
           e0 == <<j, i>>
           s == OneMore(us, e0)
           n == Len(us[m].shown)
<1>1. /\ us \in Turns /\ us # <<>> /\ Keeps(us, ts) /\ TurnsOk(js, us, c) /\ Shown(us) = Shown(ts)
      /\ \A b, from : OnlyInLast(ts, b, from) => OnlyInLast(us, b, from)
  BY FreshOk
<1>2. TellText(ts, <<j, i>>) = s
  BY DEF TellText, OnLast, Last, OneMore
<1> HIDE DEF us
<1>3. j \in Nat /\ i \in Nat /\ i >= 1
  BY JobsAre
<1>4. /\ s \in Turns /\ s # <<>> /\ Len(s) = m /\ DOMAIN s = 1 .. m /\ m \in 1 .. m
      /\ \A h \in 1 .. m : h # m => s[h] = us[h]
      /\ s[m].by = "reply" /\ s[m].failed = "no"
      /\ n \in Nat /\ DOMAIN us[m].shown = 1 .. n
      /\ DOMAIN s[m].shown = 1 .. (n + 1) /\ s[m].shown[n + 1] = e0
      /\ \A k \in 1 .. n : s[m].shown[k] = us[m].shown[k]
  <2>1. e0 \in Nat \X Nat
    BY <1>3
  <2> HIDE DEF e0
  <2> QED
    BY <1>1, <2>1, OneMoreIs
<1> HIDE DEF s
<1>5. Len(us) = m /\ DOMAIN us = 1 .. m
  BY <1>1, TurnsAre
<1> HIDE DEF m, n
<1>6. ASSUME NEW h \in DOMAIN s, NEW k \in DOMAIN s[h].shown, ~(h = m /\ k = n + 1)
      PROVE  h \in DOMAIN us /\ k \in DOMAIN us[h].shown /\ us[h].shown[k] = s[h].shown[k]
  <2>1. CASE h = m
    <3>1. k \in 1 .. n
      BY <1>4, <1>6, <2>1
    <3> QED
      BY <1>4, <1>5, <2>1, <3>1
  <2>2. CASE h # m
    BY <1>4, <1>5, <2>2
  <2> QED
    BY <2>1, <2>2
<1>7. ASSUME NEW h \in DOMAIN us, NEW k \in DOMAIN us[h].shown
      PROVE  h \in DOMAIN s /\ k \in DOMAIN s[h].shown /\ us[h].shown[k] = s[h].shown[k]
  <2>1. CASE h = m
    <3>1. k \in 1 .. n /\ k \in 1 .. (n + 1)
      BY <1>4, <2>1
    <3> QED
      BY <1>4, <1>5, <2>1, <3>1
  <2>2. CASE h # m
    BY <1>4, <1>5, <2>2
  <2> QED
    BY <2>1, <2>2
<1>8. Shown(s) = Shown(us) \cup {e0}
  <2>1. ASSUME NEW e \in Shown(s) PROVE e \in Shown(us) \/ e = e0
    <3>1. PICK h \in DOMAIN s : \E k \in DOMAIN s[h].shown : s[h].shown[k] = e
      BY ShownMeans
    <3>2. PICK k \in DOMAIN s[h].shown : s[h].shown[k] = e
      BY <3>1
    <3>3. CASE h = m /\ k = n + 1
      BY <1>4, <3>2, <3>3
    <3>4. CASE ~(h = m /\ k = n + 1)
      <4>1. h \in DOMAIN us /\ k \in DOMAIN us[h].shown /\ us[h].shown[k] = e
        BY <1>6, <3>2, <3>4
      <4> QED
        BY <4>1, ShownMeans
    <3> QED
      BY <3>3, <3>4
  <2>2. ASSUME NEW e \in Shown(us) PROVE e \in Shown(s)
    <3>1. PICK h \in DOMAIN us : \E k \in DOMAIN us[h].shown : us[h].shown[k] = e
      BY ShownMeans
    <3> QED
      BY <1>7, <3>1, ShownMeans
  <2>3. e0 \in Shown(s)
    <3>1. m \in DOMAIN s /\ n + 1 \in DOMAIN s[m].shown /\ s[m].shown[n + 1] = e0
      BY <1>4
    <3> QED
      BY <3>1, ShownMeans
  <2> QED
    BY <2>1, <2>2, <2>3
<1>9. e0[1] = j /\ e0[2] = i
  OBVIOUS
<1>10. ASSUME NEW h \in DOMAIN s PROVE TurnOk(js, c, s[h]) /\ \A k \in DOMAIN s[h].shown : ToldBy(js, c, s[h].shown[k])
  <2>1. TurnOk(js, c, s[h])
    BY <1>1, <1>4, <1>5 DEF TurnsOk, TurnOk
  <2>2. ASSUME NEW k \in DOMAIN s[h].shown PROVE ToldBy(js, c, s[h].shown[k])
    <3>1. CASE h = m /\ k = n + 1
      BY <1>4, <1>9, <3>1 DEF ToldBy
    <3>2. CASE ~(h = m /\ k = n + 1)
      BY <1>1, <1>6, <3>2 DEF TurnsOk
    <3> QED
      BY <3>1, <3>2
  <2> QED
    BY <2>1, <2>2
<1>11. ASSUME ~js[j].cancelled
       PROVE  /\ OnlyInLast(us, j, js[j].base)
              /\ \A e \in Shown(us) : e[1] = j => e[2] <= i - 1
  BY <1>1, <1>11
<1>12. ASSUME NEW b \in DOMAIN js, ~js[b].cancelled PROVE InOrder(s, b)
  <2>1. InOrder(us, b)
    BY <1>1, <1>12 DEF TurnsOk
  <2> SUFFICES ASSUME NEW g \in DOMAIN s, NEW h \in DOMAIN s, NEW k \in DOMAIN s[g].shown, NEW l \in DOMAIN s[h].shown,
                      s[g].shown[k][1] = b, s[h].shown[l][1] = b, g < h \/ (g = h /\ k < l)
               PROVE  s[g].shown[k][2] < s[h].shown[l][2]
    BY DEF InOrder
  <2>2. ~(g = m /\ k = n + 1)
    <3>1. h \in 1 .. m /\ (h = m => l \in 1 .. (n + 1)) /\ m \in Nat /\ n \in Nat
      BY <1>4
    <3> QED
      BY <3>1
  <2>3. g \in DOMAIN us /\ k \in DOMAIN us[g].shown /\ us[g].shown[k] = s[g].shown[k]
    BY <1>6, <2>2
  <2>4. CASE h = m /\ l = n + 1
    <3>1. b = j /\ s[h].shown[l][2] = i
      BY <1>4, <1>9, <2>4
    <3>2. us[g].shown[k] \in Shown(us)
      BY <2>3, ShownMeans
    <3>3. us[g].shown[k][2] <= i - 1 /\ us[g].shown[k][2] \in Nat
      BY <1>1, <1>11, <1>12, <2>3, <3>1, <3>2, ShownAre
    <3> QED
      BY <1>3, <2>3, <3>1, <3>3
  <2>5. CASE ~(h = m /\ l = n + 1)
    <3>1. h \in DOMAIN us /\ l \in DOMAIN us[h].shown /\ us[h].shown[l] = s[h].shown[l]
      BY <1>6, <2>5
    <3> QED
      BY <2>1, <2>3, <3>1 DEF InOrder
  <2> QED
    BY <2>4, <2>5
<1>13. ASSUME NEW b \in DOMAIN js, ~js[b].cancelled, Whole(js[b]) PROVE FromTheFirst(s, b)
  <2>1. FromTheFirst(us, b)
    BY <1>1, <1>13 DEF TurnsOk
  <2> SUFFICES ASSUME NEW e \in Shown(s), e[1] = b, e[2] > 1 PROVE <<b, e[2] - 1>> \in Shown(s)
    BY DEF FromTheFirst
  <2>2. CASE e \in Shown(us)
    BY <1>8, <2>1, <2>2 DEF FromTheFirst
  <2>3. CASE e = e0
    BY <1>1, <1>8, <1>9, <1>13, <2>3
  <2> QED
    BY <1>8, <2>2, <2>3
<1>14. TurnsOk(js, s, c)
  BY <1>10, <1>12, <1>13 DEF TurnsOk
<1>15. ASSUME ~js[j].cancelled
       PROVE  OnlyInLast(s, j, js[j].base) /\ \A e \in Shown(s) : e[1] = j => e[2] <= i
  <2>1. ASSUME NEW h \in DOMAIN s, NEW k \in DOMAIN s[h].shown, New(s[h].shown[k], j, js[j].base) PROVE h = Len(s)
    <3>1. CASE h = m
      BY <1>4, <3>1
    <3>2. CASE h # m
      <4>1. h \in DOMAIN us /\ k \in DOMAIN us[h].shown /\ us[h].shown[k] = s[h].shown[k]
        BY <1>6, <3>2
      <4> QED
        BY <1>5, <1>11, <1>15, <2>1, <3>2, <4>1 DEF OnlyInLast
    <3> QED
      BY <3>1, <3>2
  <2>2. ASSUME NEW e \in Shown(s), e[1] = j PROVE e[2] <= i
    <3>1. CASE e = e0
      BY <1>3, <3>1
    <3>2. CASE e \in Shown(us)
      <4>1. e[2] <= i - 1
        BY <1>11, <1>15, <2>2, <3>2
      <4>2. e[2] \in Nat
        BY <1>1, <3>2, ShownMeans, ShownAre
      <4> QED
        BY <1>3, <4>1, <4>2
    <3> QED
      BY <1>8, <3>1, <3>2
  <2> QED
    BY <2>1, <2>2 DEF OnlyInLast
<1> QED
  BY <1>1, <1>2, <1>4, <1>8, <1>14, <1>15
-----------------------------------------------------------------------------
(* The reader asks                                                         *)

LEMMA TypesAre ==
  ASSUME ChatTyped
  PROVE  /\ store \in Stores /\ active \in Convs \cup {None} /\ page \in View /\ flows \in [Flows -> Flow] /\ jobs \in Seq(JobSet)
         /\ page.turns \in Turns /\ page.mounted \in BOOLEAN /\ page.streaming \in BOOLEAN
         /\ page.ctl \in Flows \cup {0} /\ page.job \in Nat
         /\ \A c \in Convs : store[c].turns \in Turns /\ store[c].pending \in Nat /\ store[c].here \in BOOLEAN
         /\ None \notin Convs
<1>1. page \in View /\ \A c \in Convs : store[c] \in Kept
  BY DEF ChatTyped, Stores
<1> QED
  BY <1>1, ChatAssumption DEF ChatTyped, View, Kept

LEMMA FlowIs ==
  ASSUME ChatTyped, NEW f \in Flows
  PROVE  /\ flows[f] \in Flow /\ flows[f].at \in Ats /\ flows[f].conv \in Convs \cup {None} /\ flows[f].job \in Nat
         /\ flows[f].read \in Nat /\ flows[f].tries \in Nat
         /\ flows[f].aborted \in BOOLEAN /\ flows[f].zombie \in BOOLEAN /\ flows[f].final \in BOOLEAN
<1>1. flows[f] \in Flow
  BY TypesAre
<1> QED
  BY <1>1 DEF Flow

LEMMA FlowChanges ==
  ASSUME ChatTyped, NEW f \in Flows, NEW w \in Flow, flows' = [flows EXCEPT ![f] = w]
  PROVE  flows' \in [Flows -> Flow] /\ flows'[f] = w /\ \A g \in Flows \ {f} : flows'[g] = flows[g]
BY TypesAre

LEMMA NoFlowIs == NoFlow \in Flow /\ NoFlow.at = "none" /\ ~NoFlow.aborted
BY DEF NoFlow, Flow, Ats

LEMMA AsksIs ==
  ASSUME NEW kind, NEW c \in Convs
  PROVE  /\ Asks(kind, c) \in Flow /\ Asks(kind, c).at \in {"plain", "starting"} /\ Asks(kind, c).conv = c
         /\ ~Asks(kind, c).aborted /\ ~Asks(kind, c).zombie
BY DEF Asks, NoFlow, Flow, Ats

LEMMA BegunIs ==
  ASSUME NEW p \in View, NEW f \in Flows, NEW ts \in Turns
  PROVE  /\ Begun(p, f, ts) \in View /\ Begun(p, f, ts).turns = Append(ts, Reply) /\ Begun(p, f, ts).streaming
         /\ Begun(p, f, ts).ctl = f /\ Begun(p, f, ts).mounted = p.mounted
<1>1. Append(ts, Reply) \in Turns
  BY ReplyIs, Added
<1> QED
  BY <1>1 DEF Begun, View

LEMMA FreeIs ==
  ASSUME FreeFlows # {}
  PROVE  Free \in Flows /\ flows[Free].at = "none"
<1>1. FreeFlows \in SUBSET Nat
  BY ChatAssumption DEF FreeFlows
<1>2. Free \in FreeFlows
  BY <1>1, MinOf DEF Free
<1> QED
  BY <1>2 DEF FreeFlows

\* Where nothing streams and nothing is on its way, nothing goes on.
LEMMA NobodyActs ==
  ASSUME FlowsOk, Settled, ~page.streaming, ~OnItsWay
  PROVE  (\A g \in Flows : ~Live(g)) /\ \A g \in Flows : Quiet(g)
<1>1. \A g \in Flows : ~Live(g)
  BY DEF FlowsOk, Live, LiveOk, OnItsWay
<1> QED
  BY <1>1, AllQuiet

\* What the page may do to its turns while it follows nothing
LEMMA Unfollowed ==
  ASSUME ChatInv, \A f \in Flows : ~Following(f), page.mounted, active # None,
         NEW ts \in Turns, Keeps(ts, page.turns), EachOk(jobs, ts, active)
  PROVE  /\ TurnsOk(jobs, ts, active)
         /\ (store[active].pending # 0 /\ ~jobs[store[active].pending].cancelled)
              => NoneNew(ts, store[active].pending, jobs[store[active].pending].base)
<1>1. TurnsOk(jobs, page.turns, active) /\ page.turns \in Turns
  BY TypesAre DEF ChatInv, PageOk
<1>2. (store[active].pending # 0 /\ ~jobs[store[active].pending].cancelled)
        => NoneNew(page.turns, store[active].pending, jobs[store[active].pending].base)
  BY DEF ChatInv, PageOk
<1> QED
  BY <1>1, <1>2, KeepsTurnsOk, KeepsNoneNew

LEMMA UnfollowedKeeps ==
  ASSUME ChatInv, NEW f \in Flows, \A g \in Flows \ {f} : Quiet(g), ~Following(f), page.mounted, active # None,
         page' \in View, page'.mounted, Keeps(page'.turns, page.turns), EachOk(jobs, page'.turns, active),
         store' = Persisted(store, active, page'), active' = active, jobs' = jobs,
         NEW w \in Flow, flows' = [flows EXCEPT ![f] = w],
         Quiet(f)' \/ (~w.aborted /\ w.at \notin {"reading", "retry"} /\ LiveOk(f)')
  PROVE  ChatInv'
<1>1. ChatTyped /\ JobsOk(jobs) /\ StoreOk(jobs, store) /\ PageOk
  BY DEF ChatInv
<1>2. jobs \in Seq(JobSet) /\ store \in Stores /\ active \in Convs \cup {None}
  BY <1>1, TypesAre
<1>3. \A g \in Flows : ~Following(g)
  BY DEF Quiet, Following, Live
<1>4. page'.turns \in Turns
  BY DEF View
<1>5. /\ TurnsOk(jobs, page'.turns, active)
      /\ (store[active].pending # 0 /\ ~jobs[store[active].pending].cancelled)
           => NoneNew(page'.turns, store[active].pending, jobs[store[active].pending].base)
  BY <1>3, <1>4, Unfollowed
<1>6. flows' \in [Flows -> Flow] /\ flows'[f] = w /\ \A g \in Flows \ {f} : flows'[g] = flows[g]
  BY <1>1, FlowChanges
<1>7. \A g \in Flows \ {f} : Quiet(g)'
  BY <1>6 DEF Quiet
<1>8. FlowsOk'
  BY <1>6, <1>7, OneFlow
<1>9. InViewOk(store, active)
  BY <1>1 DEF PageOk
<1> QED
  BY <1>1, <1>2, <1>5, <1>6, <1>8, <1>9, Assembles

\* A message is answered: runCompletion
LEMMA AsksKeeps ==
  ASSUME ChatInv, NEW f \in Flows, \A g \in Flows \ {f} : Quiet(g), ~Following(f), page.mounted, active # None,
         NEW ts \in Turns, Keeps(ts, page.turns), EachOk(jobs, ts, active), NEW kind,
         page' = Begun(page, f, ts), store' = Persisted(store, active, page'),
         flows' = [flows EXCEPT ![f] = Asks(kind, active)], active' = active, jobs' = jobs
  PROVE  ChatInv'
<1>1. ChatTyped
  BY DEF ChatInv
<1>2. page \in View /\ active \in Convs
  BY <1>1, TypesAre
<1>3. /\ page' \in View /\ page'.turns = Append(ts, Reply) /\ page'.streaming /\ page'.ctl = f /\ page'.mounted
  BY <1>2, BegunIs
<1>4. Append(ts, Reply) \in Turns /\ Append(ts, Reply) # <<>> /\ Keeps(Append(ts, Reply), ts) /\ EachOk(jobs, Append(ts, Reply), active)
  BY ReplyIs, Added
<1>5. Keeps(Append(ts, Reply), page.turns)
  BY <1>1, <1>4, TypesAre, KeepsTransitive
<1>6. /\ Asks(kind, active) \in Flow /\ Asks(kind, active).at \in {"plain", "starting"} /\ Asks(kind, active).conv = active
      /\ ~Asks(kind, active).aborted /\ ~Asks(kind, active).zombie
  BY <1>2, AsksIs
<1>7. flows'[f] = Asks(kind, active)
  BY <1>1, <1>6, FlowChanges
<1>8. LiveOk(f)'
  BY <1>3, <1>4, <1>6, <1>7 DEF LiveOk
<1> HIDE DEF Asks
<1> QED
  BY <1>3, <1>4, <1>5, <1>6, <1>7, <1>8, UnfollowedKeeps

LEMMA Refl ==
  ASSUME ChatInv, page.mounted, active # None
  PROVE  page.turns \in Turns /\ Keeps(page.turns, page.turns) /\ EachOk(jobs, page.turns, active) /\ active \in Convs
BY TypesAre, KeepsItself DEF ChatInv, PageOk, TurnsOk, EachOk

LEMMA SendKeeps ==
  ASSUME ChatInv, Careful, NEW kind, Send(kind)
  PROVE  ChatInv'
<1> DEFINE user == Turn("user")  analyzing == Turn("analyzing")  us == Append(page.turns, user)
<1>1. /\ page.mounted /\ Settled /\ ~page.streaming /\ FreeFlows # {} /\ active # None /\ ~OnItsWay
      /\ active' = active /\ jobs' = jobs
  BY DEF Send, Idle
<1>2. \A g \in Flows : Quiet(g) /\ ~Live(g)
  BY <1>1, NobodyActs DEF ChatInv
<1>3. PICK f \in Flows : f = Free /\ ~Following(f)
  BY <1>1, <1>2, FreeIs DEF Following
<1>4. /\ user \in TurnSet /\ Bare(user) /\ TurnOk(jobs, active, user)
      /\ analyzing \in TurnSet /\ Bare(analyzing) /\ TurnOk(jobs, active, analyzing)
  <2>1. "user" \in Bys /\ "analyzing" \in Bys
    BY DEF Bys
  <2> QED
    BY <2>1, TurnIs
<1>5. page.turns \in Turns /\ EachOk(jobs, page.turns, active) /\ active \in Convs /\ page \in View
  BY <1>1, Refl, TypesAre DEF ChatInv
<1> HIDE DEF user, analyzing
<1>6. us \in Turns /\ Keeps(us, page.turns) /\ EachOk(jobs, us, active) /\ Len(us) = Len(page.turns) + 1
  BY <1>4, <1>5, Added
<1>7. Len(page.turns) \in Nat
  BY <1>5, TurnsAre
<1> HIDE DEF us
<1>8. CASE kind = "change"
  <2> DEFINE ts == Append(us, analyzing)  w == [NoFlow EXCEPT !.at = "impact", !.conv = active]
  <2>1. /\ page' = [page EXCEPT !.turns = ts] /\ store' = Persisted(store, active, page')
        /\ flows' = [flows EXCEPT ![f] = w]
    BY <1>3, <1>8 DEF Send, Shows, us, user, analyzing
  <2>2. ts \in Turns /\ Keeps(ts, us) /\ EachOk(jobs, ts, active) /\ Len(ts) = Len(us) + 1
    BY <1>4, <1>6, Added
  <2> HIDE DEF ts
  <2>3. Keeps(ts, page.turns)
    BY <1>5, <1>6, <2>2, KeepsTransitive
  <2>4. page' \in View /\ page'.mounted /\ page'.turns = ts
    BY <1>1, <1>5, <2>1, <2>2 DEF View
  <2>5. w \in Flow /\ w.at = "impact" /\ w.conv = active /\ ~w.aborted /\ ~w.zombie
    BY <1>5 DEF NoFlow, Flow, Ats
  <2> HIDE DEF w
  <2>6. flows'[f] = w
    BY <1>3, <2>1, <2>5, FlowChanges DEF ChatInv
  <2>7. LiveOk(f)'
    BY <1>1, <1>6, <1>7, <2>2, <2>4, <2>5, <2>6 DEF LiveOk
  <2> QED
    BY <1>1, <1>2, <1>3, <2>1, <2>2, <2>3, <2>4, <2>5, <2>7, UnfollowedKeeps
<1>9. CASE kind # "change"
  <2>1. /\ page' = Begun(page, f, us) /\ store' = Persisted(store, active, page')
        /\ flows' = [flows EXCEPT ![f] = Asks(kind, active)]
    BY <1>3, <1>9 DEF Send, Shows, us, user
  <2> QED
    BY <1>1, <1>2, <1>3, <1>6, <2>1, AsksKeeps
<1> QED
  BY <1>8, <1>9

LEMMA RetryKeeps ==
  ASSUME ChatInv, Careful, NEW i \in DOMAIN page.turns, RetryFrom(i)
  PROVE  ChatInv'
<1> DEFINE ts == SubSeq(page.turns, 1, i - 1)
<1>1. /\ page.mounted /\ Settled /\ ~page.streaming /\ FreeFlows # {} /\ ~OnItsWay
      /\ active' = active /\ jobs' = jobs
  BY DEF RetryFrom, Idle
<1>2. \A g \in Flows : Quiet(g) /\ ~Live(g)
  BY <1>1, NobodyActs DEF ChatInv
<1>3. PICK f \in Flows : f = Free /\ ~Following(f)
  BY <1>1, <1>2, FreeIs DEF Following
<1>4. page' = Begun(page, f, ts) /\ store' = Persisted(store, active, page') /\ flows' = [flows EXCEPT ![f] = Asks("task", active)]
  BY <1>3 DEF RetryFrom, Shows
<1>5. active # None
  BY <1>1 DEF ChatInv, PageOk
<1>6. page.turns \in Turns /\ EachOk(jobs, page.turns, active) /\ i - 1 \in 0 .. Len(page.turns)
  BY <1>1, <1>5, Refl, TurnsAre
<1>7. ts \in Turns /\ Keeps(ts, page.turns) /\ EachOk(jobs, ts, active)
  BY <1>6, Cut
<1> HIDE DEF ts
<1> QED
  BY <1>1, <1>2, <1>3, <1>4, <1>5, <1>7, AsksKeeps

LEMMA ImpactKeeps ==
  ASSUME ChatInv, NEW f \in Flows, ImpactAnswers(f)
  PROVE  ChatInv'
<1> DEFINE without(n) == SubSeq(page.turns, 1, Len(page.turns) - n)
<1>1. flows[f].at = "impact" /\ active' = active /\ jobs' = jobs
  BY DEF ImpactAnswers
<1>2. Live(f)
  BY <1>1 DEF ChatInv, FlowsOk, DyingOk, Live
<1>3. LiveOk(f) /\ ~Following(f)
  BY <1>1, <1>2 DEF ChatInv, FlowsOk, Live, Following
<1>4. /\ ~flows[f].zombie /\ page.mounted /\ active # None /\ flows[f].conv = active /\ Len(page.turns) >= 2
  BY <1>1, <1>3 DEF LiveOk
<1>5. \A g \in Flows \ {f} : Quiet(g)
  BY <1>2, OthersQuiet DEF ChatInv
<1>6. page.turns \in Turns /\ EachOk(jobs, page.turns, active) /\ active \in Convs /\ page \in View
  BY <1>4, Refl, TypesAre DEF ChatInv
<1>7. ASSUME NEW n \in 1 .. 2
      PROVE  without(n) \in Turns /\ Keeps(without(n), page.turns) /\ EachOk(jobs, without(n), active)
  <2>1. Len(page.turns) - n \in 0 .. Len(page.turns)
    BY <1>4, <1>6, <1>7, TurnsAre
  <2> QED
    BY <1>6, <2>1, Cut
<1>8. CASE /\ Shows(Sees(f, [page EXCEPT !.turns = Append(without(1), Turn("card"))]))
           /\ flows' = [flows EXCEPT ![f] = NoFlow]
  <2> DEFINE card == Turn("card")  ts == Append(without(1), card)
  <2>1. page' = [page EXCEPT !.turns = ts] /\ store' = Persisted(store, active, page')
    BY <1>4, <1>8 DEF Shows, Sees
  <2>2. card \in TurnSet /\ Bare(card) /\ TurnOk(jobs, active, card)
    BY TurnIs DEF Bys
  <2> HIDE DEF card
  <2>3. without(1) \in Turns /\ Keeps(without(1), page.turns) /\ EachOk(jobs, without(1), active)
    BY <1>7
  <2> HIDE DEF without
  <2>4. ts \in Turns /\ Keeps(ts, without(1)) /\ EachOk(jobs, ts, active)
    BY <2>2, <2>3, Added
  <2> HIDE DEF ts
  <2>5. Keeps(ts, page.turns)
    BY <1>6, <2>3, <2>4, KeepsTransitive
  <2>6. page' \in View /\ page'.mounted /\ page'.turns = ts
    BY <1>4, <1>6, <2>1, <2>4 DEF View
  <2>7. ChatTyped
    BY DEF ChatInv
  <2>8. Quiet(f)'
    <3>1. flows'[f] = NoFlow
      BY <1>8, <2>7, NoFlowIs, FlowChanges
    <3> QED
      BY <3>1, NoFlowIs DEF Quiet
  <2> QED
    BY <1>1, <1>3, <1>4, <1>5, <1>8, <2>1, <2>4, <2>5, <2>6, <2>8, NoFlowIs, UnfollowedKeeps
<1>9. ASSUME NEW n \in 1 .. 2, Shows(Sees(f, Begun(page, f, without(n)))),
             flows' = [flows EXCEPT ![f] = [Asks("task", @.conv) EXCEPT !.zombie = flows[f].zombie]]
      PROVE  ChatInv'
  <2>1. page' = Begun(page, f, without(n)) /\ store' = Persisted(store, active, page')
    BY <1>4, <1>9 DEF Shows, Sees
  <2>2. flows' = [flows EXCEPT ![f] = Asks("task", active)]
    <3>1. flows[f].zombie = FALSE
      BY <1>4, FlowIs DEF ChatInv
    <3>2. [Asks("task", active) EXCEPT !.zombie = FALSE] = Asks("task", active)
      <4> DEFINE r == Asks("task", active)
      <4>1. r \in Flow /\ r.zombie = FALSE
        BY <1>6, AsksIs DEF Flow
      <4> HIDE DEF r
      <4>2. [r EXCEPT !.zombie = FALSE] = r
        BY <4>1 DEF Flow
      <4> QED
        BY <4>2 DEF r
    <3>3. flows' = [flows EXCEPT ![f] = [Asks("task", active) EXCEPT !.zombie = FALSE]]
      BY <1>4, <1>9, <3>1
    <3> QED
      BY <3>2, <3>3
  <2>3. without(n) \in Turns /\ Keeps(without(n), page.turns) /\ EachOk(jobs, without(n), active)
    BY <1>7
  <2> HIDE DEF without
  <2> QED
    BY <1>1, <1>3, <1>4, <1>5, <2>1, <2>2, <2>3, AsksKeeps
<1> QED
  BY <1>8, <1>9 DEF ImpactAnswers

LEMMA DecidedOk ==
  ASSUME ChatInv, page.mounted, NEW i \in DOMAIN page.turns, page.turns[i].by = "card"
  PROVE  active # None /\ Decided(i) \in Turns /\ Keeps(Decided(i), page.turns) /\ EachOk(jobs, Decided(i), active)
<1> DEFINE t == [page.turns[i] EXCEPT !.by = "weighed"]
<1>1. active # None
  BY DEF ChatInv, PageOk
<1>2. page.turns \in Turns /\ EachOk(jobs, page.turns, active)
  BY <1>1, Refl
<1>3. page.turns[i] \in TurnSet /\ TurnOk(jobs, active, page.turns[i]) /\ Bare(page.turns[i])
  BY <1>2, TurnsAre DEF EachOk, TurnOk, Bare
<1>4. t \in TurnSet /\ Bare(t) /\ TurnOk(jobs, active, t) /\ t.by # "user"
  BY <1>3 DEF TurnSet, Bys, Bare, TurnOk
<1>5. Decided(i) = [page.turns EXCEPT ![i] = t]
  BY DEF Decided
<1> HIDE DEF t
<1> QED
  BY <1>1, <1>2, <1>3, <1>4, <1>5, Replaced

LEMMA ProceedKeeps ==
  ASSUME ChatInv, Careful, NEW i \in DOMAIN page.turns, ProceedImpact(i)
  PROVE  ChatInv'
<1>1. /\ page.mounted /\ Settled /\ ~page.streaming /\ FreeFlows # {} /\ ~OnItsWay /\ page.turns[i].by = "card"
      /\ active' = active /\ jobs' = jobs
  BY DEF ProceedImpact, Idle
<1>2. \A g \in Flows : Quiet(g) /\ ~Live(g)
  BY <1>1, NobodyActs DEF ChatInv
<1>3. PICK f \in Flows : f = Free /\ ~Following(f)
  BY <1>1, <1>2, FreeIs DEF Following
<1>4. /\ page' = Begun(page, f, Decided(i)) /\ store' = Persisted(store, active, page')
      /\ flows' = [flows EXCEPT ![f] = Asks("task", active)]
  BY <1>3 DEF ProceedImpact, Shows
<1>5. active # None /\ Decided(i) \in Turns /\ Keeps(Decided(i), page.turns) /\ EachOk(jobs, Decided(i), active)
  BY <1>1, DecidedOk
<1> QED
  BY <1>1, <1>2, <1>3, <1>4, <1>5, AsksKeeps

LEMMA CancelKeeps ==
  ASSUME ChatInv, Careful, NEW i \in DOMAIN page.turns, CancelImpact(i)
  PROVE  ChatInv'
<1> DEFINE held == Turn("held")  ts == Append(Decided(i), held)
<1>1. /\ page.mounted /\ Settled /\ ~page.streaming /\ page.turns[i].by = "card"
      /\ page' = [page EXCEPT !.turns = ts] /\ store' = Persisted(store, active, page')
      /\ active' = active /\ jobs' = jobs /\ flows' = flows
  BY DEF CancelImpact, Idle, Shows
<1>2. active # None /\ Decided(i) \in Turns /\ Keeps(Decided(i), page.turns) /\ EachOk(jobs, Decided(i), active)
  BY <1>1, DecidedOk
<1>3. held \in TurnSet /\ Bare(held) /\ TurnOk(jobs, active, held)
  BY TurnIs DEF Bys
<1>4. page.turns \in Turns /\ page \in View /\ ChatTyped
  BY <1>1, <1>2, Refl, TypesAre DEF ChatInv
<1> HIDE DEF held
<1>5. ts \in Turns /\ Keeps(ts, Decided(i)) /\ EachOk(jobs, ts, active) /\ Len(ts) = Len(Decided(i)) + 1
  BY <1>2, <1>3, Added
<1> HIDE DEF ts
<1>6. Keeps(ts, page.turns)
  BY <1>2, <1>4, <1>5, KeepsTransitive
<1>7. page' \in View /\ page'.mounted /\ page'.turns = ts
  BY <1>1, <1>4, <1>5 DEF View
<1>8. Len(ts) = Len(page.turns) + 1 /\ Len(page.turns) \in Nat
  <2>1. Len(Decided(i)) = Len(page.turns)
    BY <1>4, ExceptSeq, TurnsAre DEF Decided
  <2> QED
    BY <1>4, <1>5, <2>1, TurnsAre
<1>9. \A f \in Flows : flows' = [flows EXCEPT ![f] = flows[f]] /\ flows[f] \in Flow
  BY <1>1, <1>4, TypesAre
<1>10. CASE \E f \in Flows : Live(f)
  <2>1. PICK f \in Flows : Live(f)
    BY <1>10
  <2>2. LiveOk(f) /\ flows[f].at = "impact" /\ ~Following(f) /\ ~flows[f].aborted
    BY <1>1, <2>1 DEF ChatInv, FlowsOk, Live, LiveOk, Following
  <2>3. \A g \in Flows \ {f} : Quiet(g)
    BY <2>1, OthersQuiet DEF ChatInv
  <2>4. LiveOk(f)'
    BY <1>1, <1>7, <1>8, <2>2 DEF LiveOk
  <2> QED
    BY <1>1, <1>2, <1>5, <1>6, <1>7, <1>9, <2>2, <2>3, <2>4, UnfollowedKeeps
<1>11. CASE \A f \in Flows : ~Live(f)
  <2>1. \A f \in Flows : Quiet(f) /\ ~Following(f)
    BY <1>1, <1>11, AllQuiet DEF ChatInv, Following
  <2>2. PICK f \in Flows : TRUE
    BY ChatAssumption
  <2>3. Quiet(f)'
    BY <1>1, <2>1 DEF Quiet
  <2> QED
    BY <1>1, <1>2, <1>5, <1>6, <1>7, <1>9, <2>1, <2>3, UnfollowedKeeps
<1> QED
  BY <1>10, <1>11

LEMMA ContinueJobKeeps ==
  ASSUME ChatInv, Careful, NEW i \in DOMAIN page.turns, ContinueJob(i)
  PROVE  ChatInv'
<1> DEFINE ts == [page.turns EXCEPT ![i] = Reply]
           j == page.turns[i].job
           w(f) == [NoFlow EXCEPT !.at = "continuing", !.kind = "continue", !.conv = active, !.job = j]
<1>1. /\ page.mounted /\ Settled /\ ~page.streaming /\ FreeFlows # {} /\ ~OnItsWay
      /\ page.turns[i].failed = "error" /\ active' = active /\ jobs' = jobs
  BY DEF ContinueJob, Idle
<1>2. \A g \in Flows : Quiet(g) /\ ~Live(g)
  BY <1>1, NobodyActs DEF ChatInv
<1>3. PICK f \in Flows : f = Free /\ ~Following(f)
  BY <1>1, <1>2, FreeIs DEF Following
<1>4. /\ page' = [page EXCEPT !.turns = ts, !.streaming = TRUE, !.ctl = f, !.job = j]
      /\ store' = Persisted(store, active, page') /\ flows' = [flows EXCEPT ![f] = w(f)]
  BY <1>3 DEF ContinueJob, Shows
<1>5. active # None
  BY <1>1 DEF ChatInv, PageOk
<1>6. page.turns \in Turns /\ EachOk(jobs, page.turns, active) /\ active \in Convs /\ page \in View /\ ChatTyped
  BY <1>1, <1>5, Refl, TypesAre DEF ChatInv
<1>7. /\ page.turns[i] \in TurnSet /\ Bare(page.turns[i]) /\ j \in DOMAIN jobs /\ jobs[j].conv = active /\ j \in Nat
  <2>1. page.turns[i] \in TurnSet /\ TurnOk(jobs, active, page.turns[i])
    BY <1>6, TurnsAre DEF EachOk
  <2> QED
    BY <1>1, <2>1 DEF TurnOk, TurnSet, Bare
<1>8. ts \in Turns /\ ts # <<>> /\ Keeps(ts, page.turns) /\ EachOk(jobs, ts, active)
  BY <1>6, <1>7, ReplyIs, Replaced
<1> HIDE DEF ts, j
<1>9. page' \in View /\ page'.mounted /\ page'.turns = ts /\ page'.streaming /\ page'.ctl = f /\ page'.job = j
  BY <1>1, <1>4, <1>6, <1>7, <1>8 DEF View
<1>10. w(f) \in Flow /\ w(f).at = "continuing" /\ w(f).conv = active /\ w(f).job = j /\ ~w(f).aborted /\ ~w(f).zombie
       /\ w(f).kind = "continue"
  BY <1>6, <1>7 DEF NoFlow, Flow, Ats
<1> HIDE DEF w
<1>11. flows'[f] = w(f)
  BY <1>4, <1>6, <1>10, FlowChanges
<1>12. LiveOk(f)'
  BY <1>1, <1>5, <1>7, <1>8, <1>9, <1>10, <1>11 DEF LiveOk
<1> QED
  BY <1>1, <1>2, <1>3, <1>4, <1>5, <1>8, <1>9, <1>10, <1>12, UnfollowedKeeps
-----------------------------------------------------------------------------
(* A job is started, or not                                                *)

LEMMA LiveIs ==
  ASSUME ChatInv, NEW f \in Flows, Live(f)
  PROVE  /\ LiveOk(f) /\ ~flows[f].zombie /\ page.mounted /\ active # None /\ flows[f].conv = active
         /\ \A g \in Flows \ {f} : Quiet(g)
         /\ \A p : Sees(f, p) = p
         /\ Following(f) => FollowOk(f)
<1>1. LiveOk(f) /\ (Following(f) => FollowOk(f)) /\ FlowsOk
  BY DEF ChatInv, FlowsOk, Live, Following
<1>2. ~flows[f].zombie /\ page.mounted /\ active # None /\ flows[f].conv = active
  BY <1>1 DEF LiveOk
<1>3. \A g \in Flows \ {f} : Quiet(g)
  BY <1>1, OthersQuiet
<1> QED
  BY <1>1, <1>2, <1>3 DEF Sees

LEMMA WaitsLive ==
  ASSUME ChatInv, NEW f \in Flows, flows[f].at \in {"impact", "starting", "plain", "continuing"}
  PROVE  Live(f) /\ ~Following(f)
BY DEF ChatInv, FlowsOk, DyingOk, Live, Following

LEMMA FailedMeans ==
  ASSUME NEW ts \in Turns, ts # <<>>, NEW how \in Fails \ {"error"}, NEW ref \in Nat, NEW js, NEW c, TurnsOk(js, ts, c)
  PROVE  /\ Failed(ts, how, ref) \in Turns /\ Failed(ts, how, ref) # <<>> /\ Keeps(Failed(ts, how, ref), ts)
         /\ EachOk(js, Failed(ts, how, ref), c)
<1>1. /\ Failed(ts, how, ref) \in Turns /\ Failed(ts, how, ref) # <<>> /\ Keeps(Failed(ts, how, ref), ts)
      /\ TurnsOk(js, Failed(ts, how, ref), c)
  BY FailedOk
<1> QED
  BY <1>1 DEF TurnsOk, EachOk

\* A flow that followed nothing ends.
LEMMA UnfollowedEnds ==
  ASSUME ChatInv, NEW f \in Flows, Live(f), ~Following(f),
         page' \in View, page'.mounted, Keeps(page'.turns, page.turns), EachOk(jobs, page'.turns, active),
         store' = Persisted(store, active, page'), active' = active, jobs' = jobs,
         flows' = [flows EXCEPT ![f] = NoFlow]
  PROVE  ChatInv'
<1>1. page.mounted /\ active # None /\ \A g \in Flows \ {f} : Quiet(g)
  BY LiveIs
<1>2. flows'[f] = NoFlow
  BY NoFlowIs, FlowChanges DEF ChatInv
<1>3. Quiet(f)'
  BY <1>2, NoFlowIs DEF Quiet
<1> QED
  BY <1>1, <1>3, NoFlowIs, UnfollowedKeeps

LEMMA StartFailsKeeps ==
  ASSUME ChatInv, NEW f \in Flows, StartFails(f)
  PROVE  ChatInv'
<1> DEFINE ts == Failed(page.turns, "request", page.job)
<1>1. Live(f) /\ ~Following(f) /\ flows[f].at = "starting"
  BY WaitsLive DEF StartFails
<1>2. /\ page.mounted /\ active # None /\ page.turns # <<>> /\ ~flows[f].aborted /\ \A p : Sees(f, p) = p
  BY <1>1, LiveIs DEF LiveOk, Live
<1>3. /\ page' = [page EXCEPT !.streaming = FALSE, !.ctl = 0, !.turns = ts]
      /\ store' = Persisted(store, active, page') /\ flows' = [flows EXCEPT ![f] = NoFlow]
      /\ active' = active /\ jobs' = jobs
  BY <1>2 DEF StartFails, Shows, Finishes
<1>4. page \in View /\ page.turns \in Turns /\ page.job \in Nat /\ TurnsOk(jobs, page.turns, active)
  BY <1>2, TypesAre DEF ChatInv, PageOk
<1>5. ts \in Turns /\ Keeps(ts, page.turns) /\ EachOk(jobs, ts, active)
  <2>1. "request" \in Fails \ {"error"}
    BY DEF Fails
  <2> QED
    BY <1>2, <1>4, <2>1, FailedMeans
<1> HIDE DEF ts
<1>6. page' \in View /\ page'.mounted /\ page'.turns = ts
  BY <1>2, <1>3, <1>4, <1>5 DEF View
<1> QED
  BY <1>1, <1>3, <1>5, <1>6, UnfollowedEnds

LEMMA PlainEndsKeeps ==
  ASSUME ChatInv, NEW f \in Flows, PlainEnds(f)
  PROVE  ChatInv'
<1>1. Live(f) /\ ~Following(f)
  BY WaitsLive DEF PlainEnds
<1>2. page.mounted /\ active # None /\ \A p : Sees(f, p) = p
  BY <1>1, LiveIs
<1>3. /\ page' = [page EXCEPT !.streaming = FALSE, !.ctl = 0]
      /\ store' = Persisted(store, active, page') /\ flows' = [flows EXCEPT ![f] = NoFlow]
      /\ active' = active /\ jobs' = jobs
  BY <1>2 DEF PlainEnds, Shows, Finishes
<1>4. page \in View /\ Keeps(page.turns, page.turns) /\ EachOk(jobs, page.turns, active)
  BY <1>2, Refl, TypesAre DEF ChatInv
<1>5. page' \in View /\ page'.mounted /\ page'.turns = page.turns
  BY <1>2, <1>3, <1>4 DEF View
<1> QED
  BY <1>1, <1>3, <1>4, <1>5, UnfollowedEnds

\* A job that nobody has heard of yet
FreshJob(c) == [conv |-> c, log |-> <<>>, base |-> 0, over |-> FALSE, cancelled |-> FALSE]
LEMMA NewJob ==
  ASSUME NEW js \in Seq(JobSet), JobsOk(js), NEW c \in Convs
  PROVE  LET ks == Append(js, FreshJob(c)) IN
         /\ ks \in Seq(JobSet) /\ JobsOk(ks) /\ Grows(js, ks)
         /\ Len(js) + 1 \in DOMAIN ks /\ Len(js) + 1 \in Nat \ {0} /\ Len(js) + 1 \notin DOMAIN js
         /\ ks[Len(js) + 1].conv = c /\ ks[Len(js) + 1].log = <<>> /\ ks[Len(js) + 1].base = 0
<1> DEFINE job == FreshJob(c)
           ks == Append(js, FreshJob(c))
<1>1. Len(js) \in Nat /\ DOMAIN js = 1 .. Len(js) /\ \A j \in DOMAIN js : js[j].base \in Nat
  BY JobsAre
<1>2. job \in JobSet /\ job.conv = c /\ job.log = <<>> /\ job.base = 0 /\ ~job.over
  BY EmptySeq DEF JobSet, FreshJob
<1>3. JobOk(job)
  <2>1. DOMAIN job.log = {} /\ Len(job.log) = 0
    BY <1>2
  <2> QED
    BY <1>2, <2>1 DEF JobOk
<1>4. ks = Append(js, job)
  OBVIOUS
<1> HIDE DEF job, ks
<1>5. /\ ks \in Seq(JobSet) /\ DOMAIN ks = 1 .. (Len(js) + 1) /\ ks[Len(js) + 1] = job
      /\ \A j \in DOMAIN js : j \in DOMAIN ks /\ ks[j] = js[j]
  <2>1. ks \in Seq(JobSet) /\ Len(ks) = Len(js) + 1 /\ ks[Len(js) + 1] = job /\ \A j \in 1 .. Len(js) : ks[j] = js[j]
    BY <1>2, <1>4, AppendProperties
  <2>2. DOMAIN ks = 1 .. Len(ks)
    BY <2>1, JobsAre
  <2> QED
    BY <1>1, <2>1, <2>2
<1>6. JobsOk(ks)
  <2> SUFFICES ASSUME NEW j \in DOMAIN ks PROVE JobOk(ks[j])
    BY DEF JobsOk
  <2>1. CASE j = Len(js) + 1
    BY <1>3, <1>5, <2>1
  <2>2. CASE j # Len(js) + 1
    <3>1. j \in DOMAIN js
      BY <1>1, <1>5, <2>2
    <3> QED
      BY <1>5, <3>1 DEF JobsOk
  <2> QED
    BY <2>1, <2>2
<1>7. Grows(js, ks)
  BY <1>1, <1>5 DEF Grows
<1> QED
  BY <1>1, <1>2, <1>5, <1>6, <1>7 DEF ks

LEMMA SameFlow ==
  ASSUME NEW v \in Flow, NEW w \in Flow,
         v.at = w.at, v.kind = w.kind, v.conv = w.conv, v.job = w.job, v.read = w.read, v.final = w.final,
         v.tries = w.tries, v.aborted = w.aborted, v.effect = w.effect, v.zombie = w.zombie
  PROVE  v = w
BY DEF Flow

\* Nothing of a job nobody has heard of, and nothing behind the end of a log, is shown.
LEMMA NothingNew ==
  ASSUME NEW js \in Seq(JobSet), NEW c, NEW ts \in Turns, TurnsOk(js, ts, c), NEW j, NEW from \in Nat,
         j \in DOMAIN js => from = Len(js[j].log)
  PROVE  NoneNew(ts, j, from)
<1> SUFFICES ASSUME NEW i \in DOMAIN ts, NEW k \in DOMAIN ts[i].shown, New(ts[i].shown[k], j, from) PROVE FALSE
  BY DEF NoneNew
<1>1. ToldBy(js, c, ts[i].shown[k])
  BY DEF TurnsOk
<1>2. ts[i].shown[k][1] = j /\ ts[i].shown[k][2] > from
  BY DEF New
<1>3. j \in DOMAIN js /\ ts[i].shown[k][2] \in DOMAIN js[j].log
  BY <1>1, <1>2 DEF ToldBy
<1> QED
  BY <1>2, <1>3, JobsAre

\* Who starts to read shows nothing of what it is going to read.
LEMMA StartsToRead ==
  ASSUME NEW ts \in Turns, NEW j, NEW from \in Nat, NoneNew(ts, j, from)
  PROVE  OnlyInLast(ts, j, from) /\ \A e \in Shown(ts) : e[1] = j => e[2] <= from
<1>1. OnlyInLast(ts, j, from)
  BY DEF NoneNew, OnlyInLast
<1>2. ASSUME NEW e \in Shown(ts), e[1] = j PROVE e[2] <= from
  <2>1. PICK i \in DOMAIN ts : \E k \in DOMAIN ts[i].shown : ts[i].shown[k] = e
    BY ShownMeans
  <2>2. PICK k \in DOMAIN ts[i].shown : ts[i].shown[k] = e
    BY <2>1
  <2>3. ~New(e, j, from) /\ e[2] \in Nat
    BY <2>2, ShownAre DEF NoneNew
  <2> QED
    BY <1>2, <2>3 DEF New
<1> QED
  BY <1>1, <1>2

LEMMA JobStartsKeeps ==
  ASSUME ChatInv, NEW f \in Flows, JobStarts(f)
  PROVE  ChatInv'
<1>0. PICK j \in Nat \ {0} : j = Len(jobs) + 1
  <2>1. Len(jobs) \in Nat
    BY TypesAre, JobsAre DEF ChatInv
  <2> QED
    BY <2>1
<1> DEFINE st == Linked(store, active, j)
           w == [NoFlow EXCEPT !.at = "reading", !.kind = "complete", !.conv = active, !.job = j]
<1>1. Live(f) /\ flows[f].at = "starting"
  BY WaitsLive DEF JobStarts
<1>2. /\ page.mounted /\ active # None /\ ~flows[f].aborted /\ ~flows[f].zombie /\ flows[f].conv = active
      /\ page.streaming /\ page.ctl = f /\ page.turns # <<>>
      /\ (\A p : Sees(f, p) = p) /\ \A g \in Flows \ {f} : Quiet(g)
  BY <1>1, LiveIs DEF LiveOk, Live
<1>3. /\ ChatTyped /\ JobsOk(jobs) /\ StoreOk(jobs, store) /\ PageOk
      /\ page \in View /\ page.turns \in Turns /\ jobs \in Seq(JobSet) /\ store \in Stores /\ active \in Convs
      /\ store[active].turns \in Turns /\ None \notin Convs
      /\ TurnsOk(jobs, page.turns, active) /\ TurnsOk(jobs, store[active].turns, active)
      /\ store[active].here
  BY <1>2, TypesAre DEF ChatInv, PageOk, InViewOk, StoreOk, ConvOk
<1>4. flows[f].zombie = FALSE /\ flows[f].aborted = FALSE
  BY <1>2, <1>3, FlowIs
<1>5. /\ jobs' = Append(jobs, FreshJob(active)) /\ page' = [page EXCEPT !.job = j]
      /\ store' = Persisted(st, active, page') /\ active' = active
      /\ flows' = [flows EXCEPT ![f] = [NoFlow EXCEPT !.at = "reading", !.kind = "complete", !.conv = active, !.job = j,
                                                      !.zombie = FALSE]]
  BY <1>0, <1>2, <1>4 DEF JobStarts, FreshJob
<1>6. /\ jobs' \in Seq(JobSet) /\ JobsOk(jobs') /\ Grows(jobs, jobs')
      /\ j \in DOMAIN jobs' /\ j \in Nat \ {0} /\ j \notin DOMAIN jobs
      /\ jobs'[j].conv = active /\ jobs'[j].log = <<>> /\ jobs'[j].base = 0
  BY <1>0, <1>3, <1>5, NewJob
<1>7. w \in Flow /\ w.at = "reading" /\ w.kind = "complete" /\ w.conv = active /\ w.job = j /\ w.read = 0
      /\ ~w.final /\ ~w.aborted /\ ~w.zombie
  BY <1>3, <1>6 DEF NoFlow, Flow, Ats
<1>8. flows' = [flows EXCEPT ![f] = w]
  <2>1. [NoFlow EXCEPT !.at = "reading", !.kind = "complete", !.conv = active, !.job = j, !.zombie = FALSE] = w
    <3> DEFINE v == [NoFlow EXCEPT !.at = "reading", !.kind = "complete", !.conv = active, !.job = j, !.zombie = FALSE]
    <3>1. v \in Flow
      BY <1>3, <1>6 DEF NoFlow, Flow, Ats
    <3>2. /\ v.at = w.at /\ v.kind = w.kind /\ v.conv = w.conv /\ v.job = w.job /\ v.read = w.read /\ v.final = w.final
          /\ v.tries = w.tries /\ v.aborted = w.aborted /\ v.effect = w.effect /\ v.zombie = w.zombie
      BY DEF NoFlow
    <3> HIDE DEF v, w
    <3>3. v = w
      BY <1>7, <3>1, <3>2, SameFlow
    <3> QED
      BY <3>3 DEF v
  <2> QED
    BY <1>5, <2>1
<1> HIDE DEF w
<1>9. flows' \in [Flows -> Flow] /\ flows'[f] = w /\ \A g \in Flows \ {f} : flows'[g] = flows[g]
  BY <1>3, <1>7, <1>8, FlowChanges
<1>10. page' \in View /\ page'.mounted /\ page'.turns = page.turns /\ page'.streaming /\ page'.ctl = f /\ page'.job = j
  BY <1>2, <1>3, <1>5, <1>6 DEF View
<1>11. NoneNew(page.turns, j, 0) /\ NoneNew(store[active].turns, j, 0)
  BY <1>3, <1>6, NothingNew
<1>12. StoreOk(jobs', st)
  <2>1. StoreOk(jobs', store)
    BY <1>3, <1>6, GrowsStore
  <2>2. AfterUsers(store[active].turns, j, 0)
    BY <1>11, NoneNewAfter
  <2> QED
    BY <1>3, <1>6, <2>1, <2>2, LinkedOk
<1>13. st \in Stores /\ st[active].here /\ st[active].pending = j
  BY <1>3, LinkedAt
<1> HIDE DEF st
<1>14. TurnsOk(jobs', page'.turns, active)
  BY <1>3, <1>6, <1>10, GrowsTurns
<1>15. store'[active].pending = j
  BY <1>3, <1>5, <1>10, <1>13, PersistedKeeps
<1>16. LiveOk(f)'
  BY <1>2, <1>5, <1>6, <1>7, <1>9, <1>10 DEF LiveOk
<1>17. FollowOk(f)'
  <2>1. /\ OnlyInLast(page'.turns, j, 0) /\ \A e \in Shown(page'.turns) : e[1] = j => e[2] <= 0
    BY <1>3, <1>10, <1>11, StartsToRead
  <2>2. Len(jobs'[j].log) = 0
    BY <1>6
  <2>3. /\ flows'[f].job = j /\ flows'[f].read = 0 /\ flows'[f].kind = "complete" /\ flows'[f].at = "reading"
        /\ ~flows'[f].final
    BY <1>7, <1>9
  <2>4. 0 \in jobs'[j].base .. Len(jobs'[j].log)
    BY <1>6, <2>2
  <2> QED
    BY <1>5, <1>6, <1>15, <2>1, <2>3, <2>4 DEF FollowOk
<1>18. FlowsOk'
  <2>1. \A g \in Flows \ {f} : Quiet(g)'
    BY <1>2, <1>9 DEF Quiet
  <2> QED
    BY <1>7, <1>9, <1>16, <1>17, <2>1, OneFlow
<1>19. Following(f)'
  BY <1>7, <1>9 DEF Following, Live
<1>20. InViewOk(st, active)
  BY <1>2, <1>3, <1>13 DEF InViewOk
<1> QED
  BY <1>2, <1>3, <1>5, <1>6, <1>9, <1>10, <1>12, <1>13, <1>14, <1>18, <1>19, <1>20, Assembles
-----------------------------------------------------------------------------
(* One job changes                                                         *)

LEMMA OneJob ==
  ASSUME NEW js \in Seq(JobSet), JobsOk(js), NEW j \in DOMAIN js, NEW b \in JobSet, JobOk(b),
         b.conv = js[j].conv, js[j].base =< b.base, DOMAIN js[j].log \subseteq DOMAIN b.log,
         \A n \in DOMAIN js[j].log : b.log[n] = js[j].log[n],
         ~b.cancelled => ~js[j].cancelled, Whole(b) => Whole(js[j])
  PROVE  LET ks == [js EXCEPT ![j] = b] IN
         /\ ks \in Seq(JobSet) /\ JobsOk(ks) /\ Grows(js, ks) /\ DOMAIN ks = DOMAIN js /\ ks[j] = b
         /\ \A i \in DOMAIN js : i # j => ks[i] = js[i]
<1> DEFINE ks == [js EXCEPT ![j] = b]
<1>1. Len(js) \in Nat /\ DOMAIN js = 1 .. Len(js) /\ \A i \in DOMAIN js : js[i].base \in Nat
  BY JobsAre
<1>2. /\ ks \in Seq(JobSet) /\ DOMAIN ks = DOMAIN js /\ ks[j] = b
      /\ \A i \in DOMAIN js : i # j => ks[i] = js[i]
  BY <1>1, ExceptSeq
<1> HIDE DEF ks
<1>3. JobsOk(ks)
  BY <1>2 DEF JobsOk
<1>4. Grows(js, ks)
  <2> SUFFICES ASSUME NEW i \in DOMAIN js
               PROVE  /\ ks[i].conv = js[i].conv /\ js[i].base =< ks[i].base
                      /\ DOMAIN js[i].log \subseteq DOMAIN ks[i].log
                      /\ \A n \in DOMAIN js[i].log : ks[i].log[n] = js[i].log[n]
                      /\ ~ks[i].cancelled => ~js[i].cancelled
                      /\ Whole(ks[i]) => Whole(js[i])
    BY <1>2 DEF Grows
  <2>1. CASE i = j
    BY <1>2, <2>1
  <2>2. CASE i # j
    <3>1. ks[i] = js[i] /\ js[i].base =< js[i].base
      BY <1>1, <1>2, <2>2
    <3> QED
      BY <3>1
  <2> QED
    BY <2>1, <2>2
<1> QED
  BY <1>2, <1>3, <1>4 DEF ks

LEMMA JobIs ==
  ASSUME NEW js \in Seq(JobSet), JobsOk(js), NEW j \in DOMAIN js
  PROVE  /\ js[j] \in JobSet /\ JobOk(js[j]) /\ js[j].base \in Nat /\ js[j].log \in Seq(Event) /\ Len(js[j].log) \in Nat
         /\ js[j].base =< Len(js[j].log) /\ DOMAIN js[j].log = 1 .. Len(js[j].log)
         /\ js[j].over \in BOOLEAN /\ js[j].cancelled \in BOOLEAN
         /\ \A n \in DOMAIN js[j].log : js[j].log[n] \in Event
<1>1. JobOk(js[j])
  BY DEF JobsOk
<1>2. js[j].log \in Seq(Event) /\ \A n \in DOMAIN js[j].log : js[j].log[n] \in Event
  BY JobsAre, ElementOfSeq
<1> QED
  BY <1>1, <1>2, JobsAre DEF JobOk

LEMMA WholeMeans ==
  ASSUME NEW b \in JobSet
  PROVE  Whole(b) <=> \A n \in DOMAIN b.log : b.log[n] # "error"
<1>1. DOMAIN b.log = 1 .. Len(b.log)
  BY LenProperties DEF JobSet
<1> QED
  BY <1>1 DEF Whole, Contains

\* A failed job takes up its work again.
TakenUp(job) == [job EXCEPT !.base = Len(job.log), !.over = FALSE]
LEMMA JobContinues ==
  ASSUME NEW js \in Seq(JobSet), JobsOk(js), NEW j \in DOMAIN js, js[j].over, Last(js[j].log) = "error"
  PROVE  LET b == TakenUp(js[j]) IN
         /\ b \in JobSet /\ JobOk(b) /\ b.conv = js[j].conv /\ b.log = js[j].log /\ b.base = Len(js[j].log)
         /\ b.cancelled = js[j].cancelled /\ ~Whole(b) /\ ~Whole(js[j]) /\ js[j].base =< b.base
<1> DEFINE b == TakenUp(js[j])
<1>1. /\ js[j] \in JobSet /\ JobOk(js[j]) /\ Len(js[j].log) \in Nat /\ js[j].base =< Len(js[j].log)
      /\ js[j].log \in Seq(Event) /\ DOMAIN js[j].log = 1 .. Len(js[j].log)
  BY JobIs
<1>2. /\ b \in JobSet /\ b.conv = js[j].conv /\ b.log = js[j].log /\ b.base = Len(js[j].log)
      /\ b.cancelled = js[j].cancelled /\ b.over = FALSE
  BY <1>1 DEF JobSet, TakenUp
<1> HIDE DEF b
<1>3. Len(js[j].log) \in DOMAIN js[j].log /\ js[j].log[Len(js[j].log)] = "error"
  <2>1. js[j].log # <<>>
    BY <1>1 DEF JobOk
  <2>2. Len(js[j].log) # 0
    BY <1>1, <2>1, EmptySeq
  <2> QED
    BY <1>1, <2>2 DEF Last
<1>4. ~Whole(js[j]) /\ ~Whole(b)
  BY <1>1, <1>2, <1>3, WholeMeans
<1>5. JobOk(b)
  <2>1. \A n \in DOMAIN b.log : b.log[n] # "done"
    BY <1>1, <1>2, <1>3 DEF JobOk
  <2> QED
    BY <1>1, <1>2, <1>4, <2>1 DEF JobOk
<1> QED
  BY <1>1, <1>2, <1>4, <1>5 DEF b

\* A job at work writes an event.
Written(job, e, over) == [job EXCEPT !.log = Append(@, e), !.over = over]
LEMMA JobWrites ==
  ASSUME NEW js \in Seq(JobSet), JobsOk(js), NEW j \in DOMAIN js, ~js[j].over, NEW e \in Event, NEW over \in BOOLEAN,
         e = "done" => over
  PROVE  LET b == Written(js[j], e, over) IN
         /\ b \in JobSet /\ JobOk(b) /\ b.conv = js[j].conv /\ b.base = js[j].base /\ b.cancelled = js[j].cancelled
         /\ DOMAIN js[j].log \subseteq DOMAIN b.log /\ \A n \in DOMAIN js[j].log : b.log[n] = js[j].log[n]
         /\ Whole(b) => Whole(js[j])
<1> DEFINE log == js[j].log
           b == Written(js[j], e, over)
<1>1. /\ js[j] \in JobSet /\ JobOk(js[j]) /\ log \in Seq(Event) /\ Len(log) \in Nat /\ DOMAIN log = 1 .. Len(log)
      /\ js[j].base \in Nat /\ js[j].base =< Len(log)
  BY JobIs
<1>2. /\ Append(log, e) \in Seq(Event) /\ Len(Append(log, e)) = Len(log) + 1 /\ Append(log, e) # <<>>
      /\ Append(log, e)[Len(log) + 1] = e /\ \A n \in 1 .. Len(log) : Append(log, e)[n] = log[n]
  BY <1>1, AppendProperties
<1>3. b \in JobSet /\ b.conv = js[j].conv /\ b.base = js[j].base /\ b.cancelled = js[j].cancelled /\ b.log = Append(log, e) /\ b.over = over
  BY <1>1, <1>2 DEF JobSet, Written
<1> HIDE DEF b
<1>4. DOMAIN b.log = 1 .. (Len(log) + 1)
  BY <1>2, <1>3, LenProperties
<1>5. DOMAIN log \subseteq DOMAIN b.log /\ \A n \in DOMAIN log : b.log[n] = log[n]
  BY <1>1, <1>2, <1>3, <1>4
<1>6. Whole(b) => Whole(js[j])
  BY <1>1, <1>3, <1>5, WholeMeans
<1>7. JobOk(b)
  <2>1. ASSUME NEW n \in DOMAIN b.log, b.log[n] = "done" PROVE n = Len(b.log) /\ b.over
    <3>1. CASE n = Len(log) + 1
      BY <1>2, <1>3, <2>1, <3>1
    <3>2. CASE n # Len(log) + 1
      <4>1. n \in DOMAIN log
        BY <1>1, <1>4, <3>2
      <4> QED
        BY <1>1, <1>5, <2>1, <4>1 DEF JobOk
    <3> QED
      BY <3>1, <3>2
  <2>2. b.base \in 0 .. Len(b.log) /\ b.log # <<>>
    BY <1>1, <1>2, <1>3
  <2>3. b.base # 0 => ~Whole(b)
    BY <1>1, <1>3, <1>6 DEF JobOk
  <2> QED
    BY <2>1, <2>2, <2>3 DEF JobOk
<1> QED
  BY <1>3, <1>5, <1>6, <1>7 DEF b

LEMMA FollowsOn ==
  ASSUME ChatInv, NEW f \in Flows, Live(f), FollowOk(f), flows[f].at \in {"reading", "retry"},
         jobs' \in Seq(JobSet), Grows(jobs, jobs'), \A j \in DOMAIN jobs : jobs'[j].base = jobs[j].base,
         store' = store, active' = active, page' = page, flows' = flows
  PROVE  FollowOk(f)'
<1> DEFINE j == flows[f].job  r == flows[f].read  log == jobs[j].log
<1>1. j \in DOMAIN jobs /\ jobs \in Seq(JobSet)
  BY LiveIs, TypesAre DEF LiveOk, ChatInv
<1>2. /\ j \in DOMAIN jobs' /\ jobs'[j].base = jobs[j].base /\ (~jobs'[j].cancelled => ~jobs[j].cancelled)
      /\ DOMAIN log \subseteq DOMAIN jobs'[j].log /\ (\A n \in DOMAIN log : jobs'[j].log[n] = log[n])
      /\ (Whole(jobs'[j]) => Whole(jobs[j]))
  BY <1>1 DEF Grows
<1>3. /\ Len(log) \in Nat /\ DOMAIN log = 1 .. Len(log) /\ Len(jobs'[j].log) \in Nat
      /\ DOMAIN jobs'[j].log = 1 .. Len(jobs'[j].log) /\ jobs[j].base \in Nat
  BY <1>1, <1>2, JobsAre
<1>4. Len(log) <= Len(jobs'[j].log)
  <2> DEFINE p == Len(log)  q == Len(jobs'[j].log)
  <2>1. p \in Nat /\ q \in Nat /\ 1 .. p \subseteq 1 .. q
    BY ONLY <1>2, <1>3
  <2> SUFFICES p <= q
    OBVIOUS
  <2> HIDE DEF p, q
  <2>2. CASE p = 0
    BY ONLY <2>1, <2>2
  <2>3. CASE p # 0
    BY ONLY <2>1, <2>3
  <2> QED
    BY ONLY <2>2, <2>3
<1>5. store[active].pending = j /\ flows[f].kind \in {"complete", "attach", "continue"} /\ (flows[f].kind = "continue" => ~Whole(jobs[j]))
  BY DEF FollowOk
<1>6. ASSUME flows[f].at = "reading"
      PROVE  /\ r \in jobs'[j].base .. Len(jobs'[j].log)
             /\ flows[f].final => \E n \in 1 .. r : jobs'[j].log[n] \in {"error", "done"}
             /\ ~jobs'[j].cancelled =>
                  /\ OnlyInLast(page.turns, j, jobs'[j].base)
                  /\ \A e \in Shown(page.turns) : e[1] = j => e[2] <= r
             /\ Whole(jobs'[j]) => \A n \in 1 .. r : jobs'[j].log[n] = "text" => <<j, n>> \in Shown(page.turns)
  <2>1. r \in jobs[j].base .. Len(log) /\ (flows[f].final => \E n \in 1 .. r : log[n] \in {"error", "done"})
    BY <1>6 DEF FollowOk
  <2>2. /\ ~jobs[j].cancelled =>
             /\ OnlyInLast(page.turns, j, jobs[j].base)
             /\ \A e \in Shown(page.turns) : e[1] = j => e[2] <= r
        /\ Whole(jobs[j]) => \A n \in 1 .. r : log[n] = "text" => <<j, n>> \in Shown(page.turns)
    BY <1>6 DEF FollowOk
  <2>3. \A n \in 1 .. r : n \in DOMAIN log /\ jobs'[j].log[n] = log[n]
    <3> HIDE DEF log, r
    <3>1. r \in Nat /\ r <= Len(log)
      BY <1>3, <2>1
    <3>2. \A n \in 1 .. r : n \in 1 .. Len(log)
      BY <1>3, <3>1
    <3> QED
      BY <1>2, <1>3, <3>2
  <2>4. r \in jobs'[j].base .. Len(jobs'[j].log)
    <3> DEFINE b == jobs'[j].base  p == Len(log)  q == Len(jobs'[j].log)
    <3>1. r \in b .. p /\ b \in Nat
      BY ONLY <1>2, <1>3, <2>1
    <3>2. p \in Nat /\ q \in Nat /\ p <= q
      BY ONLY <1>3, <1>4
    <3> SUFFICES r \in b .. q
      OBVIOUS
    <3> HIDE DEF b, p, q, r
    <3> QED
      BY ONLY <3>1, <3>2
  <2> HIDE DEF log, r
  <2> QED
    BY <1>2, <2>1, <2>2, <2>3, <2>4
<1>7. flows[f].at = "retry" /\ ~jobs'[j].cancelled => NoneNew(page.turns, j, jobs'[j].base)
  BY <1>2 DEF FollowOk
<1> QED
  BY <1>2, <1>5, <1>6, <1>7 DEF FollowOk

\* Whoever follows it, a job works on.
LEMMA JobStepKeeps ==
  ASSUME ChatInv, jobs' \in Seq(JobSet), JobsOk(jobs'), Grows(jobs, jobs'),
         \A j \in DOMAIN jobs : jobs'[j].base = jobs[j].base,
         store' = store, active' = active, page' = page, flows' = flows
  PROVE  ChatInv'
<1>1. /\ ChatTyped /\ JobsOk(jobs) /\ StoreOk(jobs, store) /\ PageOk /\ FlowsOk
      /\ page.turns \in Turns /\ jobs \in Seq(JobSet) /\ store \in Stores
  BY TypesAre DEF ChatInv
<1>2. ChatTyped'
  BY <1>1 DEF ChatTyped
<1>3. StoreOk(jobs', store')
  BY <1>1, GrowsStore
<1>4. PageOk'
  <2> DEFINE j == store[active].pending
  <2>1. InViewOk(store, active) /\ (page.mounted /\ active = None => page.turns = <<>>)
    BY <1>1 DEF PageOk
  <2>2. ASSUME page.mounted, active # None
        PROVE  /\ TurnsOk(jobs', page.turns, active)
               /\ (j # 0 /\ ~jobs'[j].cancelled /\ \A f \in Flows : ~Following(f)) => NoneNew(page.turns, j, jobs'[j].base)
    <3>1. TurnsOk(jobs', page.turns, active)
      BY <1>1, <2>2, GrowsTurns DEF PageOk
    <3>2. j # 0 => j \in DOMAIN jobs
      BY <1>1, <2>2, TypesAre DEF StoreOk, ConvOk
    <3>3. j # 0 => jobs'[j].base = jobs[j].base /\ (~jobs'[j].cancelled => ~jobs[j].cancelled)
      BY <3>2 DEF Grows
    <3> QED
      BY <1>1, <2>2, <3>1, <3>3 DEF PageOk
  <2>3. \A f \in Flows : Following(f)' <=> Following(f)
    BY DEF Following, Live
  <2> QED
    BY <2>1, <2>2, <2>3 DEF PageOk
<1>5. FlowsOk'
  <2>1. \A g \in Flows : Live(g)' <=> Live(g)
    BY DEF Live
  <2> SUFFICES ASSUME NEW f \in Flows, flows[f].at # "none"
               PROVE  IF flows[f].aborted THEN DyingOk(f)'
                      ELSE (\A g \in Flows : Live(g)' => g = f) /\ LiveOk(f)' /\ (flows[f].at \in {"reading", "retry"} => FollowOk(f)')
    BY DEF FlowsOk
  <2>2. CASE flows[f].aborted
    BY <1>1, <2>1, <2>2 DEF FlowsOk, DyingOk
  <2>3. CASE ~flows[f].aborted
    <3>1. Live(f) /\ LiveOk(f) /\ (\A g \in Flows : Live(g) => g = f) /\ (flows[f].at \in {"reading", "retry"} => FollowOk(f))
      BY <1>1, <2>3 DEF FlowsOk, Live
    <3>2. LiveOk(f)'
      BY <3>1 DEF LiveOk, Grows
    <3>3. flows[f].at \in {"reading", "retry"} => FollowOk(f)'
      BY <3>1, FollowsOn
    <3> QED
      BY <2>1, <2>3, <3>1, <3>2, <3>3
  <2> QED
    BY <2>2, <2>3
<1> QED
  BY <1>2, <1>3, <1>4, <1>5 DEF ChatInv

LEMMA WritesKeeps ==
  ASSUME ChatInv, NEW j \in DOMAIN jobs, NEW e \in Event, NEW over \in BOOLEAN, e = "done" => over, Goes(j), Writes(j, e, over)
  PROVE  ChatInv'
<1> DEFINE b == Written(jobs[j], e, over)
<1>1. jobs \in Seq(JobSet) /\ JobsOk(jobs)
  BY TypesAre DEF ChatInv
<1>2. jobs' = [jobs EXCEPT ![j] = b] /\ ~jobs[j].over /\ store' = store /\ active' = active /\ page' = page /\ flows' = flows
  BY DEF Goes, Writes, Written
<1>3. /\ b \in JobSet /\ JobOk(b) /\ b.conv = jobs[j].conv /\ b.base = jobs[j].base /\ b.cancelled = jobs[j].cancelled
      /\ DOMAIN jobs[j].log \subseteq DOMAIN b.log /\ (\A n \in DOMAIN jobs[j].log : b.log[n] = jobs[j].log[n])
      /\ (Whole(b) => Whole(jobs[j]))
  BY <1>1, <1>2, JobWrites
<1> HIDE DEF b
<1>4. jobs[j].base =< b.base
  BY <1>1, <1>3, JobIs
<1>5. /\ jobs' \in Seq(JobSet) /\ JobsOk(jobs') /\ Grows(jobs, jobs') /\ jobs'[j] = b
      /\ \A i \in DOMAIN jobs : i # j => jobs'[i] = jobs[i]
  BY <1>1, <1>2, <1>3, <1>4, OneJob
<1>6. \A i \in DOMAIN jobs : jobs'[i].base = jobs[i].base
  BY <1>3, <1>5
<1> QED
  BY <1>2, <1>5, <1>6, JobStepKeeps

LEMMA JobWorksKeeps ==
  ASSUME ChatInv, NEW j \in DOMAIN jobs, JobWorks(j) \/ JobErrs(j)
  PROVE  ChatInv'
<1>1. "text" \in Event /\ "done" \in Event /\ "error" \in Event
  BY DEF Event
<1>2. Goes(j) /\ \E e \in Event : \E over \in BOOLEAN : Writes(j, e, over) /\ (e = "done" => over)
  BY <1>1 DEF JobWorks, JobErrs
<1> QED
  BY <1>2, WritesKeeps
-----------------------------------------------------------------------------
(* What a follower hears                                                   *)

LEMMA FollowIs ==
  ASSUME ChatInv, NEW f \in Flows, Following(f)
  PROVE  LET j == flows[f].job IN
         /\ page.mounted /\ page.streaming /\ page.ctl = f /\ page.turns # <<>> /\ active \in Convs
         /\ ~flows[f].zombie /\ ~flows[f].aborted /\ flows[f].conv = active /\ (\A p : Sees(f, p) = p)
         /\ flows[f].kind \in {"complete", "attach", "continue"}
         /\ j \in DOMAIN jobs /\ jobs[j].conv = active /\ page.job = j /\ j \in Nat \ {0}
         /\ store[active].pending = j /\ store[active].here /\ InViewOk(store, active)
         /\ FollowOk(f) /\ LiveOk(f) /\ \A g \in Flows \ {f} : Quiet(g)
<1>1. /\ Live(f) /\ LiveOk(f) /\ FollowOk(f) /\ ~flows[f].zombie /\ page.mounted /\ active # None
      /\ flows[f].conv = active /\ (\A g \in Flows \ {f} : Quiet(g)) /\ \A p : Sees(f, p) = p
  BY LiveIs DEF Following
<1>2. flows[f].at \in {"reading", "retry"} /\ ~flows[f].aborted
  BY DEF Following, Live
<1>3. /\ page.streaming /\ page.ctl = f /\ page.turns # <<>>
      /\ flows[f].job \in DOMAIN jobs /\ jobs[flows[f].job].conv = active /\ page.job = flows[f].job
  BY <1>1, <1>2 DEF LiveOk
<1>4. active \in Convs /\ jobs \in Seq(JobSet) /\ InViewOk(store, active) /\ store[active].here
  BY <1>1, TypesAre DEF ChatInv, PageOk, InViewOk
<1>5. flows[f].job \in Nat \ {0}
  BY <1>3, <1>4, JobsAre
<1>6. store[active].pending = flows[f].job /\ flows[f].kind \in {"complete", "attach", "continue"}
  BY <1>1 DEF FollowOk
<1> QED
  BY <1>1, <1>2, <1>3, <1>4, <1>5, <1>6

LEMMA TakenUpIs ==
  ASSUME NEW js \in Seq(JobSet), NEW j \in DOMAIN js, NEW n, n = Len(js[j].log)
  PROVE  [js EXCEPT ![j].base = n, ![j].over = FALSE] = [js EXCEPT ![j] = TakenUp(js[j])]
<1>1. js[j] \in JobSet
  BY JobsAre
<1> QED
  BY <1>1 DEF TakenUp, JobSet

LEMMA ContinuedKeeps ==
  ASSUME ChatInv, NEW f \in Flows, Continued(f)
  PROVE  ChatInv'
<1>0. PICK j \in Nat : j = flows[f].job
  BY FlowIs DEF ChatInv
<1>1. Live(f) /\ ~Following(f) /\ flows[f].at = "continuing"
  BY WaitsLive DEF Continued
<1>2. /\ page.mounted /\ active # None /\ page.turns # <<>> /\ ~flows[f].aborted /\ ~flows[f].zombie
      /\ (\A p : Sees(f, p) = p) /\ flows[f].conv = active /\ flows[f].kind = "continue"
      /\ page.streaming /\ page.ctl = f /\ page.job = j /\ j \in DOMAIN jobs /\ jobs[j].conv = active
      /\ \A g \in Flows \ {f} : Quiet(g)
  BY <1>0, <1>1, LiveIs DEF LiveOk, Live
<1>3. /\ ChatTyped /\ JobsOk(jobs) /\ StoreOk(jobs, store) /\ PageOk
      /\ page \in View /\ page.turns \in Turns /\ jobs \in Seq(JobSet) /\ store \in Stores /\ active \in Convs
      /\ store[active].turns \in Turns /\ None \notin Convs
      /\ TurnsOk(jobs, page.turns, active) /\ TurnsOk(jobs, store[active].turns, active)
      /\ store[active].here
  BY <1>2, TypesAre DEF ChatInv, PageOk, InViewOk, StoreOk, ConvOk
<1>4. CASE jobs[j].over /\ Last(jobs[j].log) = "error"
  <2> DEFINE b == TakenUp(jobs[j])
             n == Len(jobs[j].log)
             st == Linked(store, active, j)
             w == [flows[f] EXCEPT !.at = "reading", !.read = n]
  <2>1. /\ jobs' = [jobs EXCEPT ![j].base = n, ![j].over = FALSE] /\ page' = page
        /\ store' = Persisted(st, active, page') /\ active' = active
        /\ flows' = [flows EXCEPT ![f].at = "reading", ![f].read = n]
    BY <1>0, <1>2, <1>4 DEF Continued
  <2>2. jobs' = [jobs EXCEPT ![j] = b]
    BY <1>2, <1>3, <2>1, TakenUpIs
  <2>3. /\ b \in JobSet /\ JobOk(b) /\ b.conv = active /\ b.log = jobs[j].log /\ b.base = n
        /\ b.cancelled = jobs[j].cancelled /\ ~Whole(b) /\ ~Whole(jobs[j]) /\ jobs[j].base =< b.base
    BY <1>2, <1>3, <1>4, JobContinues
  <2> HIDE DEF b
  <2>4. /\ jobs' \in Seq(JobSet) /\ JobsOk(jobs') /\ Grows(jobs, jobs') /\ DOMAIN jobs' = DOMAIN jobs /\ jobs'[j] = b
    <3>1. /\ b.conv = jobs[j].conv /\ DOMAIN jobs[j].log \subseteq DOMAIN b.log
          /\ \A m \in DOMAIN jobs[j].log : b.log[m] = jobs[j].log[m]
      BY <1>2, <2>3
    <3>2. (~b.cancelled => ~jobs[j].cancelled) /\ (Whole(b) => Whole(jobs[j]))
      BY <2>3
    <3> QED
      BY <1>2, <1>3, <2>2, <2>3, <3>1, <3>2, OneJob
  <2>5. n \in Nat
    BY <1>2, <1>3, JobIs
  <2>6. flows[f] \in Flow
    BY <1>3, FlowIs
  <2>7. /\ w \in Flow /\ w.at = "reading" /\ w.kind = "continue" /\ w.conv = active /\ w.job = j /\ w.read = n
        /\ w.final = flows[f].final /\ ~w.aborted /\ ~w.zombie
    BY <1>0, <1>2, <2>5, <2>6 DEF Flow, Ats
  <2>8. flows' = [flows EXCEPT ![f] = w]
    BY <1>3, <2>1, TypesAre
  <2> HIDE DEF w
  <2>9. flows' \in [Flows -> Flow] /\ flows'[f] = w /\ \A g \in Flows \ {f} : flows'[g] = flows[g]
    BY <1>3, <2>7, <2>8, FlowChanges
  <2>10. NoneNew(page.turns, j, n) /\ NoneNew(store[active].turns, j, n)
    BY <1>3, <2>5, NothingNew
  <2>11. StoreOk(jobs', store)
    BY <1>3, <2>4, GrowsStore
  <2>12. AfterUsers(store[active].turns, j, n)
    BY <2>10, NoneNewAfter
  <2>13. StoreOk(jobs', st)
    BY <1>2, <1>3, <2>3, <2>4, <2>11, <2>12, LinkedOk
  <2>14. st \in Stores /\ st[active].here /\ st[active].pending = j
    BY <1>3, LinkedAt
  <2> HIDE DEF st
  <2>15. TurnsOk(jobs', page.turns, active)
    BY <1>3, <2>4, GrowsTurns
  <2>16. store'[active].pending = j
    BY <1>3, <2>1, <2>14, PersistedKeeps
  <2>17. LiveOk(f)'
    BY <1>2, <2>1, <2>3, <2>4, <2>7, <2>9 DEF LiveOk
  <2>18. FollowOk(f)'
    <3>1. /\ OnlyInLast(page.turns, j, n) /\ \A e \in Shown(page.turns) : e[1] = j => e[2] <= n
      BY <1>3, <2>5, <2>10, StartsToRead
    <3>2. /\ flows'[f].job = j /\ flows'[f].read = n /\ flows'[f].kind = "continue" /\ flows'[f].at = "reading"
      BY <2>7, <2>9
    <3>3. n \in jobs'[j].base .. Len(jobs'[j].log) /\ jobs'[j].base = n
      BY <2>3, <2>4, <2>5
    <3>4. ~Whole(jobs'[j])
      BY <2>3, <2>4
    <3>5. \E m \in 1 .. n : jobs'[j].log[m] \in {"error", "done"}
      <4>1. ~Whole(jobs[j]) /\ jobs[j] \in JobSet /\ DOMAIN jobs[j].log = 1 .. n /\ jobs'[j].log = jobs[j].log
        BY <1>2, <1>3, <2>3, <2>4, JobIs
      <4>2. PICK m \in 1 .. n : jobs[j].log[m] = "error"
        BY <4>1, WholeMeans
      <4> QED
        BY <4>1, <4>2
    <3> HIDE DEF n
    <3> QED
      BY <2>1, <2>16, <3>1, <3>2, <3>3, <3>4, <3>5 DEF FollowOk
  <2>19. FlowsOk'
    <3>1. \A g \in Flows \ {f} : Quiet(g)'
      BY <1>2, <2>9 DEF Quiet
    <3> QED
      BY <2>7, <2>9, <2>17, <2>18, <3>1, OneFlow
  <2>20. Following(f)'
    BY <2>7, <2>9 DEF Following, Live
  <2>21. InViewOk(st, active)
    BY <1>2, <2>14 DEF InViewOk
  <2> QED
    BY <1>2, <1>3, <2>1, <2>4, <2>9, <2>13, <2>14, <2>15, <2>19, <2>20, <2>21, Assembles
<1>5. CASE ~(jobs[j].over /\ Last(jobs[j].log) = "error")
  <2> DEFINE ts == Failed(page.turns, "request", j)
  <2>1. /\ page' = Rests([page EXCEPT !.turns = ts])
        /\ store' = Persisted(store, active, page') /\ flows' = [flows EXCEPT ![f] = NoFlow]
        /\ active' = active /\ jobs' = jobs
    BY <1>0, <1>2, <1>5 DEF Continued, Shows, Finishes
  <2>2. ts \in Turns /\ Keeps(ts, page.turns) /\ EachOk(jobs, ts, active)
    <3>1. "request" \in Fails \ {"error"}
      BY DEF Fails
    <3> QED
      BY <1>2, <1>3, <3>1, FailedMeans
  <2> HIDE DEF ts
  <2>3. page' \in View /\ page'.mounted /\ page'.turns = ts
    BY <1>2, <1>3, <2>1, <2>2 DEF View, Rests
  <2> QED
    BY <1>1, <2>1, <2>2, <2>3, UnfollowedEnds
<1> QED
  BY <1>4, <1>5

\* A failure takes the place of everything the last turn has shown.
LEMMA FailedEmpties ==
  ASSUME NEW ts \in Turns, ts # <<>>, NEW how \in Fails, NEW ref \in Nat, NEW j, NEW from, OnlyInLast(ts, j, from)
  PROVE  NoneNew(Failed(ts, how, ref), j, from)
<1> DEFINE s == Failed(ts, how, ref)
<1>1. /\ s \in Turns /\ (\A i \in DOMAIN s : i # Len(ts) => s[i] = ts[i]) /\ Bare(s[Len(ts)])
      /\ Keeps(s, ts)
  BY FailedOk
<1> HIDE DEF s
<1> SUFFICES ASSUME NEW i \in DOMAIN s, NEW k \in DOMAIN s[i].shown, New(s[i].shown[k], j, from) PROVE FALSE
  BY DEF NoneNew, s
<1>2. i \in DOMAIN ts /\ k \in DOMAIN ts[i].shown /\ ts[i].shown[k] = s[i].shown[k]
  BY <1>1, KeptShown
<1>3. i = Len(ts)
  BY <1>2 DEF OnlyInLast
<1>4. s[i].shown # <<>>
  BY <1>1, ShownAre
<1> QED
  BY <1>1, <1>3, <1>4 DEF Bare

LEMMA ReadsOn ==
  ASSUME NEW fl \in [Flows -> Flow], NEW f \in Flows, NEW n, NEW x
  PROVE  [fl EXCEPT ![f].read = n, ![f].final = @ \/ x] = [fl EXCEPT ![f] = [fl[f] EXCEPT !.read = n, !.final = fl[f].final \/ x]]
<1> DEFINE w == [fl[f] EXCEPT !.read = n]
<1>1. fl[f] \in Flow
  OBVIOUS
<1>2. w.final = fl[f].final
  BY <1>1 DEF Flow
<1> QED
  BY <1>1, <1>2 DEF Flow

\* A follower goes on to the next event, and the page shows it.
LEMMA HearsOn ==
  ASSUME ChatInv, NEW f \in Flows, Reading(f), flows[f].read < Len(jobs[flows[f].job].log),
         NEW ts \in Turns, ts # <<>>, TurnsOk(jobs, ts, active),
         ~jobs[flows[f].job].cancelled =>
           /\ OnlyInLast(ts, flows[f].job, jobs[flows[f].job].base)
           /\ \A e \in Shown(ts) : e[1] = flows[f].job => e[2] <= flows[f].read + 1,
         Whole(jobs[flows[f].job]) =>
           \A n \in 1 .. (flows[f].read + 1) :
             jobs[flows[f].job].log[n] = "text" => <<flows[f].job, n>> \in Shown(ts),
         page' = [page EXCEPT !.turns = ts], store' = Persisted(store, active, page'),
         active' = active, jobs' = jobs,
         flows' = [flows EXCEPT ![f].read = flows[f].read + 1,
                                ![f].final = @ \/ jobs[flows[f].job].log[flows[f].read + 1] \in {"error", "done"}]
  PROVE  ChatInv'
<1>0. PICK j \in Nat, r \in Nat : j = flows[f].job /\ r = flows[f].read
  BY FlowIs DEF ChatInv
<1>1. Following(f) /\ flows[f].at = "reading"
  BY DEF Following, Live, Reading
<1>2. /\ page.mounted /\ page.streaming /\ page.ctl = f /\ page.turns # <<>> /\ active \in Convs
      /\ ~flows[f].zombie /\ ~flows[f].aborted /\ flows[f].conv = active
      /\ flows[f].kind \in {"complete", "attach", "continue"}
      /\ j \in DOMAIN jobs /\ jobs[j].conv = active /\ page.job = j /\ j \in Nat \ {0}
      /\ store[active].pending = j /\ store[active].here /\ InViewOk(store, active)
      /\ FollowOk(f) /\ \A g \in Flows \ {f} : Quiet(g)
  BY <1>0, <1>1, FollowIs
<1>3. /\ ChatTyped /\ JobsOk(jobs) /\ StoreOk(jobs, store)
      /\ page \in View /\ page.turns \in Turns /\ jobs \in Seq(JobSet) /\ store \in Stores
      /\ flows[f] \in Flow /\ None \notin Convs /\ flows[f].final \in BOOLEAN
  BY <1>2, TypesAre, FlowIs DEF ChatInv
<1>4. Len(jobs[j].log) \in Nat /\ r + 1 <= Len(jobs[j].log) /\ jobs[j].base \in Nat
  BY <1>0, <1>2, <1>3, JobIs
<1> DEFINE last == flows[f].final \/ jobs[j].log[r + 1] \in {"error", "done"}
           w == [flows[f] EXCEPT !.read = r + 1, !.final = last]
<1>5. last \in BOOLEAN
  BY <1>3
<1>6. flows' = [flows EXCEPT ![f] = w]
  <2> DEFINE x == jobs[j].log[r + 1] \in {"error", "done"}
  <2>1. flows' = [flows EXCEPT ![f].read = r + 1, ![f].final = @ \/ x]
    BY <1>0
  <2>2. w = [flows[f] EXCEPT !.read = r + 1, !.final = flows[f].final \/ x]
    OBVIOUS
  <2>3. flows \in [Flows -> Flow]
    BY <1>3, TypesAre
  <2> HIDE DEF x
  <2>4. flows' = [flows EXCEPT ![f] = [flows[f] EXCEPT !.read = r + 1, !.final = flows[f].final \/ x]]
    BY <2>1, <2>3, ReadsOn, Zenon
  <2> HIDE DEF w
  <2> QED
    BY <2>2, <2>4
<1> HIDE DEF last
<1>7. /\ w \in Flow /\ w.at = "reading" /\ w.kind = flows[f].kind /\ w.conv = active /\ w.job = j /\ w.read = r + 1
      /\ w.final = last /\ ~w.aborted /\ ~w.zombie
  <2> DEFINE v == [flows[f] EXCEPT !.read = r + 1]
  <2>1. /\ v \in Flow /\ v.at = "reading" /\ v.kind = flows[f].kind /\ v.conv = active /\ v.job = j /\ v.read = r + 1
        /\ ~v.aborted /\ ~v.zombie
    <3>1. /\ flows[f] \in Flow /\ flows[f].at = "reading" /\ flows[f].conv = active /\ flows[f].job = j
          /\ ~flows[f].aborted /\ ~flows[f].zombie
      BY <1>0, <1>1, <1>2, <1>3
    <3>2. r + 1 \in Nat
      OBVIOUS
    <3> QED
      BY ONLY <3>1, <3>2 DEF Flow
  <2>2. w = [v EXCEPT !.final = last]
    BY <1>3 DEF Flow
  <2> HIDE DEF v, w
  <2> QED
    BY <1>5, <2>1, <2>2 DEF Flow
<1> HIDE DEF w
<1>8. flows' \in [Flows -> Flow] /\ flows'[f] = w /\ \A g \in Flows \ {f} : flows'[g] = flows[g]
  BY <1>3, <1>6, <1>7, FlowChanges
<1>9. page' \in View /\ page'.mounted /\ page'.streaming /\ page'.ctl = f /\ page'.turns = ts /\ page'.job = j
  BY <1>2, <1>3 DEF View
<1>10. store'[active].pending = j
  BY <1>2, <1>3, <1>9, PersistedKeeps
<1>11. LiveOk(f)'
  BY <1>2, <1>3, <1>7, <1>8, <1>9 DEF LiveOk
<1>12. FollowOk(f)'
  <2>1. /\ r \in jobs[j].base .. Len(jobs[j].log) /\ (flows[f].kind = "continue" => ~Whole(jobs[j]))
        /\ flows[f].final => \E n \in 1 .. r : jobs[j].log[n] \in {"error", "done"}
    BY <1>0, <1>1, <1>2 DEF FollowOk
  <2>2. r + 1 \in jobs[j].base .. Len(jobs[j].log)
    BY <1>4, <2>1
  <2>3. last => \E n \in 1 .. (r + 1) : jobs[j].log[n] \in {"error", "done"}
    <3>1. (\A n \in 1 .. r : n \in 1 .. (r + 1)) /\ r + 1 \in 1 .. (r + 1)
      OBVIOUS
    <3> QED
      BY <2>1, <3>1 DEF last
  <2>4. /\ flows'[f].job = j /\ flows'[f].read = r + 1 /\ flows'[f].kind = flows[f].kind /\ flows'[f].at = "reading"
        /\ flows'[f].final = last
    BY <1>7, <1>8
  <2>5. /\ ~jobs[j].cancelled =>
             /\ OnlyInLast(ts, j, jobs[j].base)
             /\ \A e \in Shown(ts) : e[1] = j => e[2] <= r + 1
        /\ Whole(jobs[j]) => \A n \in 1 .. (r + 1) : jobs[j].log[n] = "text" => <<j, n>> \in Shown(ts)
    BY <1>0
  <2>6. /\ r + 1 \in jobs'[j].base .. Len(jobs'[j].log) /\ (flows'[f].kind = "continue" => ~Whole(jobs'[j]))
        /\ flows'[f].final => \E n \in 1 .. (r + 1) : jobs'[j].log[n] \in {"error", "done"}
        /\ store'[active'].pending = j /\ flows'[f].kind \in {"complete", "attach", "continue"}
    BY <1>2, <1>10, <2>1, <2>2, <2>3, <2>4
  <2>7. /\ ~jobs'[j].cancelled =>
             /\ OnlyInLast(page'.turns, j, jobs'[j].base)
             /\ \A e \in Shown(page'.turns) : e[1] = j => e[2] <= r + 1
        /\ Whole(jobs'[j]) => \A n \in 1 .. (r + 1) : jobs'[j].log[n] = "text" => <<j, n>> \in Shown(page'.turns)
    BY <1>9, <2>5
  <2> QED
    BY <2>4, <2>6, <2>7 DEF FollowOk
<1>13. FlowsOk'
  <2>1. \A g \in Flows \ {f} : Quiet(g)'
    BY <1>2, <1>8 DEF Quiet
  <2> QED
    BY <1>7, <1>8, <1>11, <1>12, <2>1, OneFlow
<1>14. Following(f)'
  BY <1>7, <1>8 DEF Following, Live
<1>15. active # None
  BY <1>2, <1>3
<1> QED
  BY <1>2, <1>3, <1>8, <1>9, <1>13, <1>14, <1>15, Assembles

LEMMA ReadsEventKeeps ==
  ASSUME ChatInv, NEW f \in Flows, ReadsEvent(f)
  PROVE  ChatInv'
<1>0. PICK j \in Nat, r \in Nat : j = flows[f].job /\ r = flows[f].read
  BY FlowIs DEF ChatInv
<1> DEFINE e == jobs[j].log[r + 1]
<1>1. Following(f) /\ flows[f].at = "reading" /\ Reading(f) /\ r < Len(jobs[j].log)
  BY <1>0 DEF Following, Live, Reading, ReadsEvent
<1>2. /\ page.mounted /\ active \in Convs /\ active # None /\ page.turns # <<>> /\ (\A p : Sees(f, p) = p)
      /\ j \in DOMAIN jobs /\ jobs[j].conv = active /\ page.job = j /\ FollowOk(f)
  BY <1>0, <1>1, FollowIs, TypesAre DEF ChatInv
<1>3. /\ JobsOk(jobs) /\ page \in View /\ page.turns \in Turns /\ jobs \in Seq(JobSet) /\ TurnsOk(jobs, page.turns, active)
  BY <1>2, TypesAre DEF ChatInv, PageOk
<1>4. /\ Len(jobs[j].log) \in Nat /\ DOMAIN jobs[j].log = 1 .. Len(jobs[j].log) /\ jobs[j].base \in Nat
      /\ jobs[j] \in JobSet /\ JobOk(jobs[j])
      /\ r + 1 \in DOMAIN jobs[j].log /\ e \in Event
  <2>1. /\ Len(jobs[j].log) \in Nat /\ DOMAIN jobs[j].log = 1 .. Len(jobs[j].log) /\ jobs[j].base \in Nat
        /\ jobs[j] \in JobSet /\ JobOk(jobs[j]) /\ \A n \in DOMAIN jobs[j].log : jobs[j].log[n] \in Event
    BY <1>2, <1>3, JobIs
  <2>2. r + 1 \in DOMAIN jobs[j].log
    BY <1>1, <2>1
  <2> QED
    BY <2>1, <2>2
<1>5. /\ r \in jobs[j].base .. Len(jobs[j].log)
      /\ ~jobs[j].cancelled =>
           /\ OnlyInLast(page.turns, j, jobs[j].base)
           /\ \A d \in Shown(page.turns) : d[1] = j => d[2] <= r
      /\ Whole(jobs[j]) => \A n \in 1 .. r : jobs[j].log[n] = "text" => <<j, n>> \in Shown(page.turns)
  BY <1>0, <1>1, <1>2 DEF FollowOk
<1>6. /\ flows' = [flows EXCEPT ![f].read = r + 1, ![f].final = @ \/ e \in {"error", "done"}]
      /\ store' = Persisted(store, active, page') /\ active' = active /\ jobs' = jobs
      /\ page' = [page EXCEPT !.turns = CASE e = "text"  -> TellText(@, <<j, r + 1>>)
                                          [] e = "error" -> Failed(@, "error", page.job)
                                          [] e = "done"  -> @]
  BY <1>0, <1>2 DEF ReadsEvent, Shows
<1>7. CASE e = "text"
  <2> DEFINE ts == TellText(page.turns, <<j, r + 1>>)
  <2>1. ASSUME Whole(jobs[j]), r + 1 > 1
        PROVE  jobs[j].log[r] = "text"
    <3>1. r \in DOMAIN jobs[j].log /\ jobs[j].log[r] \in Event
      BY <1>2, <1>3, <1>4, <2>1, JobIs
    <3>2. jobs[j].log[r] # "error"
      BY <1>4, <2>1, <3>1, WholeMeans
    <3>3. jobs[j].log[r] # "done"
      BY <1>1, <1>4, <3>1 DEF JobOk
    <3> QED
      BY <3>1, <3>2, <3>3 DEF Event
  <2>2. ~jobs[j].cancelled =>
          /\ OnlyInLast(page.turns, j, jobs[j].base)
          /\ \A d \in Shown(page.turns) : d[1] = j => d[2] <= (r + 1) - 1
          /\ Whole(jobs[j]) /\ r + 1 > 1 => <<j, (r + 1) - 1>> \in Shown(page.turns)
    <3>1. (r + 1) - 1 = r /\ (r + 1 > 1 => r \in 1 .. r)
      OBVIOUS
    <3> QED
      BY <1>5, <2>1, <3>1
  <2>3. /\ ts \in Turns /\ ts # <<>> /\ TurnsOk(jobs, ts, active) /\ Shown(ts) = Shown(page.turns) \cup {<<j, r + 1>>}
        /\ ~jobs[j].cancelled => OnlyInLast(ts, j, jobs[j].base) /\ \A d \in Shown(ts) : d[1] = j => d[2] <= r + 1
    BY <1>2, <1>3, <1>4, <1>7, <2>2, TellTextOk
  <2>4. page' = [page EXCEPT !.turns = ts]
    BY <1>3, <1>6, <1>7
  <2> HIDE DEF ts
  <2>5. ASSUME Whole(jobs[j]), NEW n \in 1 .. (r + 1), jobs[j].log[n] = "text"
        PROVE  <<j, n>> \in Shown(ts)
    <3>1. n \in 1 .. r \/ n = r + 1
      OBVIOUS
    <3> QED
      BY <1>5, <2>3, <2>5, <3>1
  <2>6. /\ ~jobs[j].cancelled =>
             /\ OnlyInLast(ts, j, jobs[j].base)
             /\ \A d \in Shown(ts) : d[1] = j => d[2] <= r + 1
        /\ Whole(jobs[j]) => \A n \in 1 .. (r + 1) : jobs[j].log[n] = "text" => <<j, n>> \in Shown(ts)
    BY <2>3, <2>5
  <2> HIDE DEF e
  <2> QED
    BY <1>0, <1>1, <1>6, <2>3, <2>4, <2>6, HearsOn DEF e
<1>8. CASE e = "error"
  <2> DEFINE ts == Failed(page.turns, "error", j)
  <2>1. "error" \in Fails
    BY DEF Fails
  <2>2. ts \in Turns /\ ts # <<>> /\ TurnsOk(jobs, ts, active)
    BY <1>2, <1>3, <2>1, FailedOk
  <2>3. ~Whole(jobs[j])
    BY <1>4, <1>8, WholeMeans
  <2>4. ~jobs[j].cancelled => NoneNew(ts, j, jobs[j].base)
    BY <1>2, <1>3, <1>5, <2>1, FailedEmpties
  <2>5. page' = [page EXCEPT !.turns = ts]
    BY <1>2, <1>3, <1>6, <1>8
  <2> HIDE DEF ts
  <2>6. ASSUME ~jobs[j].cancelled
        PROVE  /\ OnlyInLast(ts, j, jobs[j].base)
               /\ \A d \in Shown(ts) : d[1] = j => d[2] <= r + 1
    <3>1. /\ OnlyInLast(ts, j, jobs[j].base)
          /\ \A d \in Shown(ts) : d[1] = j => d[2] <= jobs[j].base
      BY <1>4, <2>2, <2>4, <2>6, StartsToRead
    <3>2. ASSUME NEW d \in Shown(ts), d[1] = j PROVE d[2] <= r + 1
      <4>1. d[2] \in Nat
        BY <2>2, ShownMeans, ShownAre
      <4> QED
        BY <1>4, <1>5, <3>1, <3>2, <4>1
    <3> QED
      BY <3>1, <3>2
  <2> HIDE DEF e
  <2> QED
    BY <1>0, <1>1, <1>6, <2>2, <2>3, <2>5, <2>6, HearsOn DEF e
<1>9. CASE e = "done"
  <2>1. page' = [page EXCEPT !.turns = page.turns]
    BY <1>3, <1>6, <1>9
  <2>2. ASSUME ~jobs[j].cancelled
        PROVE  /\ OnlyInLast(page.turns, j, jobs[j].base)
               /\ \A d \in Shown(page.turns) : d[1] = j => d[2] <= r + 1
    <3>1. ASSUME NEW d \in Shown(page.turns), d[1] = j PROVE d[2] <= r + 1
      <4>1. d[2] \in Nat
        BY <1>3, ShownMeans, ShownAre
      <4> QED
        BY <1>5, <2>2, <3>1, <4>1
    <3> QED
      BY <1>5, <2>2, <3>1
  <2>3. ASSUME Whole(jobs[j]), NEW n \in 1 .. (r + 1), jobs[j].log[n] = "text" PROVE <<j, n>> \in Shown(page.turns)
    <3>1. n \in 1 .. r
      BY <1>9, <2>3
    <3> QED
      BY <1>5, <2>3, <3>1
  <2> HIDE DEF e
  <2> QED
    BY <1>0, <1>1, <1>2, <1>3, <1>6, <2>1, <2>2, <2>3, HearsOn DEF e
<1> QED
  BY <1>4, <1>7, <1>8, <1>9 DEF Event

-----------------------------------------------------------------------------
(* A subscription ends, or the page subscribes again                       *)

\* Who reads a log again from where it was last continued has shown nothing of it.
LEMMA ReadsAgain ==
  ASSUME NEW f \in Flows, jobs' \in Seq(JobSet), JobsOk(jobs'), NEW j \in DOMAIN jobs', NEW ts \in Turns,
         page'.turns = Reset(ts), ~jobs'[j].cancelled => AfterUsers(ts, j, jobs'[j].base),
         store'[active'].pending = j, flows'[f].job = j, flows'[f].at \in {"reading", "retry"},
         flows'[f].kind \in {"complete", "attach", "continue"}, flows'[f].kind = "continue" => ~Whole(jobs'[j]),
         flows'[f].at = "reading" => flows'[f].read = jobs'[j].base /\ ~flows'[f].final
  PROVE  FollowOk(f)'
<1> DEFINE from == jobs'[j].base
<1>1. /\ jobs'[j].base \in Nat /\ Len(jobs'[j].log) \in Nat /\ JobOk(jobs'[j])
      /\ jobs'[j].base \in jobs'[j].base .. Len(jobs'[j].log)
  BY JobIs
<1>2. Reset(ts) \in Turns /\ (~jobs'[j].cancelled => NoneNew(Reset(ts), j, jobs'[j].base))
  BY ResetOk
<1> HIDE DEF Reset
<1>3. ~jobs'[j].cancelled =>
        /\ OnlyInLast(page'.turns, j, jobs'[j].base)
        /\ \A e \in Shown(page'.turns) : e[1] = j => e[2] <= jobs'[j].base
  BY <1>1, <1>2, StartsToRead
<1>4. Whole(jobs'[j]) => \A n \in 1 .. jobs'[j].base : FALSE
  BY <1>1 DEF JobOk
<1>5. flows'[f].at = "reading" =>
        /\ flows'[f].read \in jobs'[j].base .. Len(jobs'[j].log)
        /\ ~flows'[f].final
        /\ ~jobs'[j].cancelled =>
             /\ OnlyInLast(page'.turns, j, jobs'[j].base)
             /\ \A e \in Shown(page'.turns) : e[1] = j => e[2] <= flows'[f].read
        /\ Whole(jobs'[j]) => \A n \in 1 .. flows'[f].read : jobs'[j].log[n] = "text" => <<j, n>> \in Shown(page'.turns)
  BY <1>1, <1>3, <1>4
<1>6. ~jobs'[j].cancelled => NoneNew(page'.turns, j, jobs'[j].base)
  BY <1>2
<1> QED
  BY <1>5, <1>6 DEF FollowOk

LEMMA Replays ==
  ASSUME ChatInv, NEW f \in Flows, Following(f), page' \in View, page'.mounted, page'.streaming, page'.ctl = f,
         page'.turns = Reset(page.turns), page'.job = flows[f].job,
         store' = Persisted(store, active, page'), active' = active, jobs' = jobs,
         NEW w \in Flow, flows' = [flows EXCEPT ![f] = w],
         w.at \in {"reading", "retry"}, w.job = flows[f].job, w.conv = active, ~w.aborted, ~w.zombie,
         w.kind \in {"complete", "attach", "continue"}, w.kind = "continue" => ~Whole(jobs[flows[f].job]),
         w.at = "reading" => w.read = jobs[flows[f].job].base /\ ~w.final
  PROVE  ChatInv'
<1>0. PICK j \in Nat : j = flows[f].job
  BY FlowIs DEF ChatInv
<1>1. /\ page.mounted /\ active \in Convs /\ active # None
      /\ j \in DOMAIN jobs /\ jobs[j].conv = active /\ j \in Nat \ {0}
      /\ store[active].pending = j /\ InViewOk(store, active) /\ \A g \in Flows \ {f} : Quiet(g)
  BY <1>0, FollowIs, TypesAre DEF ChatInv
<1>2. /\ ChatTyped /\ JobsOk(jobs) /\ StoreOk(jobs, store) /\ PageOk /\ FlowsOk
      /\ page \in View /\ page.turns \in Turns /\ jobs \in Seq(JobSet) /\ store \in Stores
      /\ TurnsOk(jobs, page.turns, active)
  BY <1>1, TypesAre DEF ChatInv, PageOk
<1>3. ~jobs[j].cancelled => AfterUsers(page.turns, j, jobs[j].base)
  BY <1>1, <1>2, PageAfter
<1>4. /\ Reset(page.turns) \in Turns /\ Reset(page.turns) # <<>> /\ TurnsOk(jobs, Reset(page.turns), active)
  BY <1>2, ResetOk
<1> HIDE DEF Reset
<1>5. flows' \in [Flows -> Flow] /\ flows'[f] = w /\ \A g \in Flows \ {f} : flows'[g] = flows[g]
  BY <1>2, FlowChanges
<1>6. store'[active].pending = j
  BY <1>1, <1>2, PersistedKeeps
<1>7. FollowOk(f)'
  BY <1>0, <1>1, <1>2, <1>3, <1>5, <1>6, ReadsAgain
<1>8. LiveOk(f)'
  BY <1>0, <1>1, <1>4, <1>5 DEF LiveOk
<1>9. FlowsOk'
  <2>1. \A g \in Flows \ {f} : Quiet(g)'
    BY <1>1, <1>5 DEF Quiet
  <2> QED
    BY <1>5, <1>7, <1>8, <2>1, OneFlow
<1>10. Following(f)'
  BY <1>5 DEF Following, Live
<1> QED
  BY <1>1, <1>2, <1>4, <1>5, <1>9, <1>10, Assembles

LEMMA FollowEnds ==
  ASSUME ChatInv, NEW f \in Flows, Following(f), page' \in View, page'.mounted, TurnsOk(jobs, page'.turns, active),
         NEW st \in Stores, StoreOk(jobs, st), InViewOk(st, active), store' = Persisted(st, active, page'),
         st[active].pending # 0 /\ ~jobs[st[active].pending].cancelled
           => NoneNew(page'.turns, st[active].pending, jobs[st[active].pending].base),
         active' = active, jobs' = jobs, flows' = [flows EXCEPT ![f] = NoFlow]
  PROVE  ChatInv'
<1>1. /\ page.mounted /\ active \in Convs /\ active # None /\ \A g \in Flows \ {f} : Quiet(g)
  BY FollowIs, TypesAre DEF ChatInv
<1>2. ChatTyped /\ JobsOk(jobs) /\ jobs \in Seq(JobSet)
  BY TypesAre DEF ChatInv
<1>3. flows' \in [Flows -> Flow] /\ flows'[f] = NoFlow /\ \A g \in Flows \ {f} : flows'[g] = flows[g]
  BY <1>2, NoFlowIs, FlowChanges
<1>4. FlowsOk'
  <2>1. \A g \in Flows \ {f} : Quiet(g)'
    BY <1>1, <1>3 DEF Quiet
  <2>2. Quiet(f)'
    BY <1>3, NoFlowIs DEF Quiet
  <2> QED
    BY <2>1, <2>2, OneFlow
<1> QED
  BY <1>1, <1>2, <1>3, <1>4, Assembles

\* The last word has been heard: the page rests, and the link is gone.
LEMMA EndedKeeps ==
  ASSUME ChatInv, NEW f \in Flows, Following(f), Over(f, Unlinks(f), Rests(page)), active' = active, jobs' = jobs
  PROVE  ChatInv'
<1> DEFINE st == Linked(store, active, 0)
<1>1. /\ page.mounted /\ active \in Convs /\ active # None /\ flows[f].conv = active /\ (\A p : Sees(f, p) = p)
      /\ store[active].here
  BY FollowIs, TypesAre DEF ChatInv
<1>2. /\ StoreOk(jobs, store) /\ page \in View /\ store \in Stores /\ TurnsOk(jobs, page.turns, active)
  BY <1>1, TypesAre DEF ChatInv, PageOk
<1>3. /\ page' = Rests(page) /\ store' = Persisted(st, active, page') /\ flows' = [flows EXCEPT ![f] = NoFlow]
  BY <1>1 DEF Over, Unlinks, Finishes
<1>4. st \in Stores /\ st[active].here /\ st[active].pending = 0
  BY <1>1, <1>2, LinkedAt
<1>5. StoreOk(jobs, st)
  BY <1>1, <1>2, LinkedOk
<1> HIDE DEF st
<1>6. InViewOk(st, active)
  BY <1>1, <1>4 DEF InViewOk
<1>7. page' \in View /\ page'.mounted /\ page'.turns = page.turns
  BY <1>1, <1>2, <1>3 DEF View, Rests
<1> QED
  BY <1>2, <1>3, <1>4, <1>5, <1>6, <1>7, FollowEnds

\* The connection is lost for good.
LEMMA LostKeeps ==
  ASSUME ChatInv, NEW f \in Flows, Following(f), Reading(f), active' = active, jobs' = jobs,
         Over(f, store, Rests([page EXCEPT !.turns = Failed(@, "lost", flows[f].job)]))
  PROVE  ChatInv'
<1>0. PICK j \in Nat : j = flows[f].job
  BY FlowIs DEF ChatInv
<1> DEFINE ts == Failed(page.turns, "lost", j)
<1>1. /\ page.mounted /\ active \in Convs /\ active # None /\ flows[f].conv = active /\ (\A p : Sees(f, p) = p)
      /\ page.turns # <<>> /\ store[active].pending = j /\ InViewOk(store, active) /\ FollowOk(f)
  BY <1>0, FollowIs, TypesAre DEF ChatInv
<1>2. /\ StoreOk(jobs, store) /\ page \in View /\ page.turns \in Turns /\ store \in Stores /\ TurnsOk(jobs, page.turns, active)
  BY <1>1, TypesAre DEF ChatInv, PageOk
<1>3. /\ page' = Rests([page EXCEPT !.turns = ts]) /\ store' = Persisted(store, active, page')
      /\ flows' = [flows EXCEPT ![f] = NoFlow]
  BY <1>0, <1>1 DEF Over, Finishes
<1>4. "lost" \in Fails /\ "lost" # "error"
  BY DEF Fails
<1>5. ts \in Turns /\ TurnsOk(jobs, ts, active)
  BY <1>1, <1>2, <1>4, FailedOk
<1>6. ~jobs[j].cancelled => NoneNew(ts, j, jobs[j].base)
  <2>1. ~jobs[j].cancelled => OnlyInLast(page.turns, j, jobs[j].base)
    BY <1>0, <1>1 DEF FollowOk, Reading
  <2> QED
    BY <1>1, <1>2, <1>4, <2>1, FailedEmpties
<1> HIDE DEF ts
<1>7. page' \in View /\ page'.mounted /\ page'.turns = ts
  BY <1>1, <1>2, <1>3, <1>5 DEF View, Rests
<1> QED
  BY <1>1, <1>2, <1>3, <1>5, <1>6, <1>7, FollowEnds

LEMMA SubscriptionKeeps ==
  ASSUME ChatInv, NEW f \in Flows, Reading(f), NEW how \in {"ended", "network"}, SubscriptionEnds(f, how)
  PROVE  ChatInv'
<1>0. PICK j \in Nat : j = flows[f].job
  BY FlowIs DEF ChatInv
<1>1. Following(f) /\ active' = active /\ jobs' = jobs
  BY DEF Following, Live, Reading, SubscriptionEnds
<1>2. /\ page.mounted /\ active \in Convs /\ active # None /\ flows[f].conv = active /\ (\A p : Sees(f, p) = p)
      /\ flows[f].kind \in {"complete", "attach", "continue"} /\ ~flows[f].zombie /\ ~flows[f].aborted
      /\ page.streaming /\ page.ctl = f /\ page.job = j /\ j \in DOMAIN jobs
  BY <1>0, <1>1, FollowIs, TypesAre DEF ChatInv
<1>3. page \in View /\ page.turns \in Turns /\ jobs \in Seq(JobSet) /\ flows[f] \in Flow /\ ChatTyped /\ flows[f].tries \in Nat
  BY TypesAre, FlowIs DEF ChatInv
<1>4. Reset(page.turns) \in Turns
  BY <1>3, ResetOk
<1> HIDE DEF Reset
<1>5. CASE how = "ended"
  <2>1. Over(f, Unlinks(f), Rests(page))
    BY <1>2, <1>5 DEF SubscriptionEnds, AttachEnds, CompleteEnds, ContinueEnds
  <2> QED
    BY <1>1, <2>1, EndedKeeps
<1>6. CASE how = "network" /\ flows[f].kind = "continue"
  <2>1. Over(f, Unlinks(f), Rests(page))
    BY <1>2, <1>6 DEF SubscriptionEnds, ContinueEnds
  <2> QED
    BY <1>1, <2>1, EndedKeeps
<1>7. CASE how = "network" /\ flows[f].kind = "attach" /\ ~(flows[f].tries < MaxTries)
  <2>1. Over(f, store, Rests([page EXCEPT !.turns = Failed(@, "lost", flows[f].job)]))
    BY <1>7 DEF SubscriptionEnds, AttachEnds
  <2> QED
    BY <1>1, <2>1, LostKeeps
<1>8. CASE how = "network" /\ flows[f].kind = "attach" /\ flows[f].tries < MaxTries
  <2> DEFINE n == flows[f].tries + 1
             w == [flows[f] EXCEPT !.at = "retry", !.tries = n]
  <2>1. /\ page' = [page EXCEPT !.turns = Reset(@)] /\ store' = Persisted(store, active, page')
        /\ flows' = [flows EXCEPT ![f].at = "retry", ![f].tries = @ + 1]
    BY <1>2, <1>8 DEF SubscriptionEnds, AttachEnds, Shows
  <2>2. flows' = [flows EXCEPT ![f] = w]
    BY <1>3, <2>1, TypesAre
  <2>3. /\ w \in Flow /\ w.at = "retry" /\ w.kind = "attach" /\ w.conv = active /\ w.job = j /\ ~w.aborted /\ ~w.zombie
    <3>1. /\ flows[f] \in Flow /\ flows[f].tries \in Nat /\ flows[f].kind = "attach" /\ flows[f].conv = active
          /\ flows[f].job = j /\ ~flows[f].aborted /\ ~flows[f].zombie
      BY <1>0, <1>2, <1>3, <1>8
    <3>2. n \in Nat
      BY <1>3
    <3> HIDE DEF n
    <3> QED
      BY ONLY <3>1, <3>2 DEF Flow, Ats
  <2> HIDE DEF w
  <2>4. /\ page' \in View /\ page'.mounted /\ page'.streaming /\ page'.ctl = f /\ page'.turns = Reset(page.turns)
        /\ page'.job = j
    BY <1>2, <1>3, <1>4, <2>1 DEF View
  <2> QED
    BY <1>0, <1>1, <2>1, <2>2, <2>3, <2>4, Replays
<1>9. CASE how = "network" /\ flows[f].kind = "complete"
  <2> DEFINE w == Follows("attach", active, j)
  <2>1. /\ page' = Attached(page, f, j) /\ store' = Persisted(store, active, page')
        /\ flows' = [flows EXCEPT ![f] = [Follows("attach", @.conv, @.job) EXCEPT !.zombie = flows[f].zombie]]
    <3>1. CompleteEnds(f, "network")
      BY <1>9 DEF SubscriptionEnds
    <3>2. /\ Shows(Sees(f, Attached(page, f, flows[f].job)))
          /\ flows' = [flows EXCEPT ![f] = [Follows("attach", @.conv, @.job) EXCEPT !.zombie = flows[f].zombie]]
      BY <3>1 DEF CompleteEnds
    <3>3. Sees(f, Attached(page, f, flows[f].job)) = Attached(page, f, j)
      BY <1>0, <1>2
    <3> QED
      BY <3>2, <3>3 DEF Shows
  <2>2. /\ w \in Flow /\ w.at = "reading" /\ w.kind = "attach" /\ w.conv = active /\ w.job = j
        /\ w.read = jobs[j].base /\ ~w.final /\ ~w.aborted /\ ~w.zombie /\ w.zombie = FALSE
    <3>1. active \in Convs /\ j \in DOMAIN jobs /\ jobs \in Seq(JobSet)
      BY <1>2, <1>3
    <3>2. jobs[j].base \in Nat /\ j \in Nat
      BY <3>1, JobsAre
    <3> QED
      BY ONLY <3>1, <3>2 DEF Follows, NoFlow, Flow, Ats, Base
  <2>3. flows' = [flows EXCEPT ![f] = w]
    <3>1. flows[f].zombie = FALSE
      BY <1>2, <1>3, FlowIs
    <3>2. flows' = [flows EXCEPT ![f] = [w EXCEPT !.zombie = FALSE]]
      BY <1>0, <1>2, <2>1, <3>1
    <3> HIDE DEF w
    <3>3. [w EXCEPT !.zombie = FALSE] = w
      BY <2>2 DEF Flow
    <3> QED
      BY <3>2, <3>3
  <2> HIDE DEF w
  <2>4. /\ page' \in View /\ page'.mounted /\ page'.streaming /\ page'.ctl = f /\ page'.turns = Reset(page.turns)
        /\ page'.job = j
    BY <1>2, <1>3, <1>4, <2>1 DEF View, Attached
  <2> QED
    BY <1>0, <1>1, <2>1, <2>2, <2>3, <2>4, Replays
<1> QED
  BY <1>2, <1>5, <1>6, <1>7, <1>8, <1>9

LEMMA ClosesKeeps ==
  ASSUME ChatInv, NEW f \in Flows, Closes(f)
  PROVE  ChatInv'
BY SubscriptionKeeps DEF Closes, Closed

LEMMA ReadsNotAborted ==
  ASSUME NEW f \in Flows, Drops(f) 
  PROVE  Reading(f) /\ \E how \in {"ended", "network"} : SubscriptionEnds(f, how)
BY DEF Drops, Closed

LEMMA DropsKeeps ==
  ASSUME ChatInv, NEW f \in Flows, Drops(f)
  PROVE  ChatInv'
BY ReadsNotAborted, SubscriptionKeeps

\* After the pause the page tries again.
LEMMA ReconnectsLive ==
  ASSUME ChatInv, NEW f \in Flows, Reconnects(f), ~flows[f].aborted
  PROVE  ChatInv'
<1>0. PICK j \in Nat : j = flows[f].job
  BY FlowIs DEF ChatInv
<1>1. Following(f) /\ active' = active /\ jobs' = jobs
  BY DEF Following, Live, Reconnects
<1>2. /\ page.mounted /\ active \in Convs /\ flows[f].conv = active /\ (\A p : Sees(f, p) = p)
      /\ flows[f].kind \in {"complete", "attach", "continue"} /\ ~flows[f].zombie
      /\ page.streaming /\ page.ctl = f /\ page.job = j /\ j \in DOMAIN jobs /\ FollowOk(f)
  BY <1>0, <1>1, FollowIs
<1>3. page \in View /\ page.turns \in Turns /\ jobs \in Seq(JobSet) /\ flows[f] \in Flow /\ flows \in [Flows -> Flow]
  BY TypesAre, FlowIs DEF ChatInv
<1>4. Reset(page.turns) \in Turns
  BY <1>3, ResetOk
<1> HIDE DEF Reset
<1>5. PICK n \in Nat : n = jobs[j].base
  BY <1>2, <1>3, JobsAre
<1> DEFINE w == [flows[f] EXCEPT !.at = "reading", !.read = n, !.final = FALSE]
<1>6. /\ page' = [page EXCEPT !.turns = Reset(@)] /\ store' = Persisted(store, active, page')
      /\ flows' = [flows EXCEPT ![f].at = "reading", ![f].read = n, ![f].final = FALSE]
  BY <1>0, <1>2, <1>5 DEF Reconnects, Shows, Base
<1>7. flows' = [flows EXCEPT ![f] = w]
  BY <1>3, <1>6
<1>8. /\ w \in Flow /\ w.at = "reading" /\ w.kind = flows[f].kind /\ w.conv = active /\ w.job = j /\ ~w.aborted /\ ~w.zombie
      /\ w.read = n /\ ~w.final
  <2>1. /\ flows[f] \in Flow /\ flows[f].conv = active
        /\ flows[f].job = j /\ ~flows[f].aborted /\ ~flows[f].zombie
    BY <1>0, <1>2, <1>3
  <2> QED
    BY ONLY <2>1, n \in Nat DEF Flow, Ats
<1> HIDE DEF w
<1>9. /\ page' \in View /\ page'.mounted /\ page'.streaming /\ page'.ctl = f /\ page'.turns = Reset(page.turns)
      /\ page'.job = j
  BY <1>2, <1>3, <1>4, <1>6 DEF View
<1>10. flows[f].kind = "continue" => ~Whole(jobs[j])
  BY <1>0, <1>2 DEF FollowOk
<1> QED
  BY <1>0, <1>1, <1>2, <1>5, <1>6, <1>7, <1>8, <1>9, <1>10, Replays

-----------------------------------------------------------------------------
(* What was told to stop finds out                                         *)

LEMMA Vanishes ==
  ASSUME ChatInv, NEW f \in Flows, ~Live(f), flows' = [flows EXCEPT ![f] = NoFlow],
         page' \in View, page'.turns = page.turns, page'.mounted = page.mounted,
         (\E g \in Flows : Live(g)) => page' = page, active' = active, jobs' = jobs,
         store' \in Stores, StoreOk(jobs, store'),
         \A c \in Convs : store'[c].here = store[c].here, \A c \in Convs : store'[c].pending = store[c].pending
  PROVE  ChatInv'
<1>1. ChatTyped /\ JobsOk(jobs) /\ PageOk /\ FlowsOk /\ active \in Convs \cup {None}
  BY TypesAre DEF ChatInv
<1>2. flows' \in [Flows -> Flow] /\ flows'[f] = NoFlow /\ \A g \in Flows \ {f} : flows'[g] = flows[g]
  BY <1>1, NoFlowIs, FlowChanges
<1>3. \A g \in Flows : Live(g)' <=> Live(g)
  BY <1>2, NoFlowIs DEF Live
<1>4. \A g \in Flows : Following(g)' <=> Following(g)
  BY <1>2, <1>3, NoFlowIs DEF Following
<1>5. ChatTyped'
  BY <1>1, <1>2 DEF ChatTyped
<1>6. PageOk'
  <2>1. InViewOk(store', active)
    BY <1>1 DEF PageOk, InViewOk
  <2> QED
    BY <1>1, <1>4, <2>1 DEF PageOk
<1>7. FlowsOk'
  <2> SUFFICES ASSUME NEW g \in Flows, flows'[g].at # "none"
               PROVE  IF flows'[g].aborted THEN DyingOk(g)'
                      ELSE (\A h \in Flows : Live(h)' => h = g) /\ LiveOk(g)' /\ (flows'[g].at \in {"reading", "retry"} => FollowOk(g)')
    BY DEF FlowsOk
  <2>1. g # f /\ flows'[g] = flows[g] /\ flows[g].at # "none"
    BY <1>2, NoFlowIs
  <2>2. CASE flows[g].aborted
    <3>1. DyingOk(g)
      BY <1>1, <2>1, <2>2 DEF FlowsOk
    <3>2. DyingOk(g)'
      BY <1>3, <2>1, <3>1 DEF DyingOk
    <3> QED
      BY <2>1, <2>2, <3>2
  <2>3. CASE ~flows[g].aborted
    <3>1. /\ Live(g) /\ LiveOk(g) /\ (\A h \in Flows : Live(h) => h = g)
          /\ (flows[g].at \in {"reading", "retry"} => FollowOk(g))
      BY <1>1, <2>1, <2>3 DEF FlowsOk, Live
    <3>2. page' = page
      BY <3>1
    <3>3. active # None /\ active \in Convs
      BY <1>1, <3>1 DEF LiveOk
    <3>4. LiveOk(g)'
      BY <2>1, <3>1, <3>2 DEF LiveOk
    <3>5. flows[g].at \in {"reading", "retry"} => FollowOk(g)'
      BY <2>1, <3>1, <3>2, <3>3 DEF FollowOk
    <3> QED
      BY <1>3, <2>1, <2>3, <3>1, <3>4, <3>5
  <2> QED
    BY <2>2, <2>3, <2>1
<1> QED
  BY <1>1, <1>5, <1>6, <1>7 DEF ChatInv

LEMMA ReconnectsKeeps ==
  ASSUME ChatInv, NEW f \in Flows, Reconnects(f)
  PROVE  ChatInv'
<1>1. CASE flows[f].aborted
  <2>1. /\ flows' = [flows EXCEPT ![f] = NoFlow] /\ store' = store /\ page' = page /\ active' = active /\ jobs' = jobs
        /\ ~Live(f)
    BY <1>1 DEF Reconnects, Finishes, Live
  <2>2. store \in Stores /\ StoreOk(jobs, store) /\ page \in View
    BY TypesAre DEF ChatInv
  <2> QED
    BY <2>1, <2>2, Vanishes
<1> QED
  BY <1>1, ReconnectsLive

LEMMA AbortSeenKeeps ==
  ASSUME ChatInv, NEW f \in Flows, AbortSeen(f)
  PROVE  ChatInv'
<1>1. /\ ChatTyped /\ StoreOk(jobs, store) /\ PageOk /\ FlowsOk
      /\ store \in Stores /\ page \in View /\ page.turns \in Turns /\ active \in Convs \cup {None}
      /\ page.mounted \in BOOLEAN /\ None \notin Convs
  BY TypesAre DEF ChatInv
<1>2. flows[f].at = "reading" /\ flows[f].aborted /\ ~Live(f) /\ active' = active /\ jobs' = jobs
  BY DEF AbortSeen, SubscriptionEnds, Live
<1>3. DyingOk(f)
  BY <1>1, <1>2 DEF FlowsOk
<1>4. \E p \in {page, Rests(page)} : Over(f, store, p)
  <2>1. flows[f].kind \in {"complete", "attach", "continue"}
    BY <1>3 DEF DyingOk
  <2>2. CASE flows[f].kind = "attach"
    BY <2>2 DEF AbortSeen, SubscriptionEnds, AttachEnds
  <2>3. CASE flows[f].kind = "complete"
    BY <2>3 DEF AbortSeen, SubscriptionEnds, CompleteEnds
  <2>4. CASE flows[f].kind = "continue"
    BY <2>4 DEF AbortSeen, SubscriptionEnds, ContinueEnds
  <2> QED
    BY <2>1, <2>2, <2>3, <2>4
<1>5. /\ page' \in {page, Rests(page)} /\ (flows[f].zombie => page' = page)
      /\ store' = Persisted(store, active, page') /\ flows' = [flows EXCEPT ![f] = NoFlow]
  BY <1>4 DEF Over, Sees, Finishes
<1>6. page' \in View /\ page'.turns = page.turns /\ page'.mounted = page.mounted
  <2>1. Rests(page) \in View /\ Rests(page).turns = page.turns /\ Rests(page).mounted = page.mounted
    BY <1>1 DEF Rests, View
  <2> QED
    BY <1>1, <1>5, <2>1
<1>7. (\E g \in Flows : Live(g)) => page' = page
  BY <1>2, <1>3, <1>5 DEF DyingOk
<1>8. StoreOk(jobs, store')
  <2>1. page.mounted /\ active # None => TurnsOk(jobs, page.turns, active)
    BY <1>1 DEF PageOk
  <2>2. (page.mounted /\ active # None /\ store[active].pending # 0 /\ ~jobs[store[active].pending].cancelled)
           => AfterUsers(page.turns, store[active].pending, jobs[store[active].pending].base)
    BY <1>1, PageAfter
  <2> QED
    BY <1>1, <1>5, <1>6, <2>1, <2>2, StoredOk
<1>9. /\ store' \in Stores /\ (\A c \in Convs : store'[c].here = store[c].here)
      /\ \A c \in Convs : store'[c].pending = store[c].pending
  <2>1. store' \in Stores /\ \A c \in Convs : store'[c].here = store[c].here /\ store'[c].pending = store[c].pending
    <3>1. store' = Persisted(store, active, page') /\ page' \in View /\ store \in Stores /\ active \in Convs \cup {None}
      BY <1>1, <1>5, <1>6
    <3> QED
      BY ONLY <3>1, PersistedKeeps
  <2> QED
    BY <2>1
<1> QED
  BY <1>2, <1>5, <1>6, <1>7, <1>8, <1>9, Vanishes

-----------------------------------------------------------------------------
(* The reader stops an answer, or goes elsewhere                           *)

AllDying(fl) ==
  \A g \in Flows : fl[g].at # "none" =>
    fl[g].aborted /\ fl[g].at \in {"reading", "retry"} /\ fl[g].kind \in {"complete", "attach", "continue"}

LEMMA AbortsIs ==
  ASSUME NEW fl \in [Flows -> Flow], NEW f \in Flows \cup {0}
  PROVE  /\ Aborts(fl, f) \in [Flows -> Flow]
         /\ \A g \in Flows : Aborts(fl, f)[g].at = fl[g].at
         /\ \A g \in Flows : Aborts(fl, f)[g].kind = fl[g].kind
         /\ \A g \in Flows : Aborts(fl, f)[g].zombie = fl[g].zombie
         /\ \A g \in Flows : fl[g].at # "none" /\ (fl[g].aborted \/ g = f) => Aborts(fl, f)[g].aborted
<1>1. 0 \notin Flows
  BY ChatAssumption
<1>2. CASE f = 0
  BY <1>1, <1>2 DEF Aborts
<1>3. CASE f # 0
  <2> DEFINE r == [fl[f] EXCEPT !.aborted = fl[f].at # "none"]
  <2>1. f \in Flows /\ fl[f] \in Flow
    BY <1>3
  <2>2. r \in Flow /\ r.at = fl[f].at /\ r.kind = fl[f].kind /\ r.zombie = fl[f].zombie
    BY <2>1 DEF Flow
  <2>3. fl[f].at # "none" => r.aborted
    BY <2>1 DEF Flow
  <2>4. Aborts(fl, f) = [fl EXCEPT ![f] = r]
    BY <1>3 DEF Aborts
  <2> HIDE DEF r
  <2> QED
    BY <2>1, <2>2, <2>3, <2>4
<1> QED
  BY <1>2, <1>3

LEMMA CleansUpIs ==
  ASSUME NEW fl \in [Flows -> Flow]
  PROVE  /\ CleansUp(fl) \in [Flows -> Flow]
         /\ \A g \in Flows : CleansUp(fl)[g].at = fl[g].at
         /\ \A g \in Flows : CleansUp(fl)[g].kind = fl[g].kind
         /\ \A g \in Flows : CleansUp(fl)[g].zombie = fl[g].zombie
         /\ \A g \in Flows : fl[g].aborted => CleansUp(fl)[g].aborted
<1>1. ASSUME NEW g \in Flows
      PROVE  /\ CleansUp(fl)[g] \in Flow /\ CleansUp(fl)[g].at = fl[g].at /\ CleansUp(fl)[g].kind = fl[g].kind
             /\ CleansUp(fl)[g].zombie = fl[g].zombie
             /\ (fl[g].aborted => CleansUp(fl)[g].aborted)
  <2>1. fl[g] \in Flow /\ CleansUp(fl)[g] = IF fl[g].effect THEN [fl[g] EXCEPT !.aborted = TRUE] ELSE fl[g]
    BY DEF CleansUp
  <2> QED
    BY <2>1 DEF Flow
<1>2. CleansUp(fl) = [g \in Flows |-> CleansUp(fl)[g]]
  BY DEF CleansUp
<1> QED
  BY <1>1, <1>2

\* Where nothing is on its way, a flow either is the one the page follows with, or
\* has been told to stop.
LEMMA MayLeaveMeans ==
  ASSUME ChatInv, Settled, ~OnItsWay, NEW g \in Flows, flows[g].at # "none"
  PROVE  /\ flows[g].at \in {"reading", "retry"} /\ flows[g].kind \in {"complete", "attach", "continue"}
         /\ ~flows[g].aborted => Live(g) /\ Following(g) /\ page.mounted /\ page.streaming /\ page.ctl = g
         /\ flows[g].aborted => flows[g].at = "retry"
<1>1. ChatTyped /\ FlowsOk /\ flows[g].at \in Ats
  BY FlowIs DEF ChatInv
<1>2. flows[g].at \in {"reading", "retry"}
  BY <1>1 DEF OnItsWay, Ats
<1>3. CASE flows[g].aborted
  BY <1>1, <1>2, <1>3 DEF FlowsOk, DyingOk, Settled
<1>4. CASE ~flows[g].aborted
  BY <1>1, <1>2, <1>4 DEF FlowsOk, LiveOk, FollowOk, Live, Following
<1> QED
  BY <1>2, <1>3, <1>4

LEMMA StopsAll ==
  ASSUME ChatInv, Settled, ~OnItsWay
  PROVE  /\ Aborts(flows, page.ctl) \in [Flows -> Flow] /\ CleansUp(Aborts(flows, page.ctl)) \in [Flows -> Flow]
         /\ AllDying(Aborts(flows, page.ctl)) /\ AllDying(CleansUp(Aborts(flows, page.ctl)))
         /\ \A g \in Flows : CleansUp(Aborts(flows, page.ctl))[g].at = flows[g].at
         /\ ~page.streaming => \A g \in Flows : flows[g].at # "reading"
<1>1. flows \in [Flows -> Flow] /\ page.ctl \in Flows \cup {0}
  BY TypesAre DEF ChatInv
<1> DEFINE fl == Aborts(flows, page.ctl)
<1>2. /\ fl \in [Flows -> Flow]
      /\ \A g \in Flows : fl[g].at = flows[g].at /\ fl[g].kind = flows[g].kind
      /\ \A g \in Flows : flows[g].at # "none" /\ (flows[g].aborted \/ g = page.ctl) => fl[g].aborted
  BY <1>1, AbortsIs
<1> HIDE DEF fl
<1>3. AllDying(fl)
  BY <1>2, MayLeaveMeans DEF AllDying
<1>4. /\ CleansUp(fl) \in [Flows -> Flow]
      /\ \A g \in Flows : CleansUp(fl)[g].at = fl[g].at /\ CleansUp(fl)[g].kind = fl[g].kind
      /\ \A g \in Flows : fl[g].aborted => CleansUp(fl)[g].aborted
  BY <1>2, CleansUpIs
<1>5. AllDying(CleansUp(fl))
  BY <1>3, <1>4 DEF AllDying
<1>6. ~page.streaming => \A g \in Flows : flows[g].at # "reading"
  BY MayLeaveMeans
<1> QED
  BY <1>2, <1>3, <1>4, <1>5, <1>6 DEF fl

\* The job that is told to stop
LEMMA JobStops ==
  ASSUME NEW js \in Seq(JobSet), JobsOk(js), NEW j \in Nat
  PROVE  LET ks == [js EXCEPT ![j].cancelled = TRUE] IN
         /\ ks \in Seq(JobSet) /\ JobsOk(ks) /\ Grows(js, ks) /\ DOMAIN ks = DOMAIN js
         /\ \A i \in DOMAIN js : ks[i].base = js[i].base /\ (~ks[i].cancelled => ~js[i].cancelled)
         /\ j \in DOMAIN js => ks[j].cancelled
<1> DEFINE ks == [js EXCEPT ![j].cancelled = TRUE]
<1>1. CASE j \notin DOMAIN js
  <2>1. ks = js
    <3>1. js = [i \in DOMAIN js |-> js[i]]
      BY LenProperties
    <3> QED
      BY <1>1, <3>1
  <2>2. Grows(js, js)
    BY GrowsItself
  <2> HIDE DEF ks
  <2> QED
    BY <1>1, <2>1, <2>2 DEF ks
<1>2. CASE j \in DOMAIN js
  <2> DEFINE b == [js[j] EXCEPT !.cancelled = TRUE]
  <2>1. js[j] \in JobSet /\ JobOk(js[j]) /\ js[j].base \in Nat
    BY <1>2, JobIs
  <2>2. b \in JobSet /\ b.conv = js[j].conv /\ b.base = js[j].base /\ b.log = js[j].log /\ b.over = js[j].over /\ b.cancelled
    BY <2>1 DEF JobSet
  <2>3. ks = [js EXCEPT ![j] = b]
    OBVIOUS
  <2> HIDE DEF b, ks
  <2>4. JobOk(b) /\ (Whole(b) => Whole(js[j]))
    BY <2>1, <2>2 DEF JobOk, Whole
  <2>5. /\ ks \in Seq(JobSet) /\ JobsOk(ks) /\ Grows(js, ks) /\ DOMAIN ks = DOMAIN js /\ ks[j] = b
        /\ \A i \in DOMAIN js : i # j => ks[i] = js[i]
    <3>1. js[j].base =< b.base /\ DOMAIN js[j].log \subseteq DOMAIN b.log /\ \A n \in DOMAIN js[j].log : b.log[n] = js[j].log[n]
      BY <2>1, <2>2
    <3>2. ~b.cancelled => ~js[j].cancelled
      BY <2>2
    <3> QED
      BY <1>2, <2>2, <2>3, <2>4, <3>1, <3>2, OneJob
  <2>6. ASSUME NEW i \in DOMAIN js PROVE ks[i].base = js[i].base /\ (~ks[i].cancelled => ~js[i].cancelled)
    BY <2>2, <2>5
  <2> QED
    BY <2>2, <2>5, <2>6 DEF ks
<1> QED
  BY <1>1, <1>2

LEMMA StopKeeps ==
  ASSUME Careful, ChatInv, Stop
  PROVE  ChatInv'
<1>1. /\ page.mounted /\ page.streaming /\ Settled /\ ~OnItsWay /\ active' = active
      /\ jobs' = (IF page.job = 0 THEN jobs ELSE [jobs EXCEPT ![page.job].cancelled = TRUE])
      /\ flows' = Aborts(flows, page.ctl) /\ page' = [page EXCEPT !.streaming = FALSE]
      /\ store' = Persisted(store, active, page')
  BY DEF Stop, MayLeave, Shows
<1>2. /\ ChatTyped /\ JobsOk(jobs) /\ StoreOk(jobs, store) /\ PageOk /\ FlowsOk
      /\ page \in View /\ page.turns \in Turns /\ jobs \in Seq(JobSet) /\ store \in Stores
      /\ active \in Convs \cup {None} /\ page.job \in Nat /\ None \notin Convs
  BY TypesAre DEF ChatInv
<1>3. /\ jobs' \in Seq(JobSet) /\ JobsOk(jobs') /\ Grows(jobs, jobs') /\ DOMAIN jobs' = DOMAIN jobs
      /\ \A i \in DOMAIN jobs : jobs'[i].base = jobs[i].base /\ (~jobs'[i].cancelled => ~jobs[i].cancelled)
      /\ page.job # 0 /\ page.job \in DOMAIN jobs => jobs'[page.job].cancelled
  <2>1. CASE page.job = 0
    <3>1. jobs' = jobs /\ Grows(jobs, jobs)
      BY <1>1, <1>2, <2>1, GrowsItself
    <3> QED
      BY <1>2, <2>1, <3>1
  <2>2. CASE page.job # 0
    <3>1. jobs' = [jobs EXCEPT ![page.job].cancelled = TRUE]
      BY <1>1, <2>2
    <3> QED
      BY <1>2, <3>1, JobStops
  <2> QED
    BY <2>1, <2>2
<1>4. flows' \in [Flows -> Flow] /\ AllDying(flows')
  BY <1>1, StopsAll
<1>5. page' \in View /\ page'.mounted /\ page'.turns = page.turns /\ ~page'.streaming
  BY <1>1, <1>2 DEF View
<1>6. StoreOk(jobs', store)
  BY <1>2, <1>3, GrowsStore
<1>7. active # None => TurnsOk(jobs', page.turns, active)
  BY <1>1, <1>2, <1>3, GrowsTurns DEF PageOk
<1>8. \A g \in Flows : ~Live(g)'
  BY <1>4 DEF AllDying, Live
<1>9. FlowsOk'
  BY <1>4, <1>5, <1>8 DEF FlowsOk, DyingOk, AllDying
<1>10. ASSUME active # None, store[active].pending # 0, ~jobs'[store[active].pending].cancelled
       PROVE  NoneNew(page.turns, store[active].pending, jobs'[store[active].pending].base)
  <2>1. active \in Convs /\ store[active].pending \in DOMAIN jobs
    BY <1>2, <1>10 DEF StoreOk, ConvOk
  <2>2. jobs'[store[active].pending].base = jobs[store[active].pending].base /\ ~jobs[store[active].pending].cancelled
    BY <1>3, <1>10, <2>1
  <2>3. ASSUME NEW f \in Flows, Following(f) PROVE FALSE
    <3>1. store[active].pending = page.job
      BY <2>3, FollowIs
    <3> QED
      BY <1>3, <1>10, <2>1, <3>1
  <2> QED
    BY <1>1, <1>2, <1>10, <2>2, <2>3 DEF PageOk
<1>11. InViewOk(store, active) /\ (active = None => page.turns = <<>>)
  BY <1>1, <1>2 DEF PageOk
<1> QED
  BY <1>1, <1>2, <1>3, <1>4, <1>5, <1>6, <1>7, <1>9, <1>10, <1>11, Assembles

LEMMA AttachIs ==
  ASSUME NEW c \in Convs, NEW j \in DOMAIN jobs, jobs \in Seq(JobSet)
  PROVE  LET w == [Follows("attach", c, j) EXCEPT !.effect = TRUE] IN
         /\ w \in Flow /\ w.at = "reading" /\ w.kind = "attach" /\ w.conv = c /\ w.job = j /\ w.read = jobs[j].base
         /\ ~w.final /\ ~w.aborted /\ ~w.zombie
<1>1. jobs[j].base \in Nat /\ j \in Nat
  BY JobsAre
<1> QED
  BY <1>1 DEF Follows, NoFlow, Flow, Ats, Base

LEMMA FreeOf ==
  ASSUME NEW fl, \E g \in Flows : fl[g].at = "none"
  PROVE  Min({ g \in Flows : fl[g].at = "none" }) \in Flows /\ fl[Min({ g \in Flows : fl[g].at = "none" })].at = "none"
<1> DEFINE S == { g \in Flows : fl[g].at = "none" }
<1>1. S \in SUBSET Nat /\ S # {}
  BY ChatAssumption
<1> HIDE DEF S
<1>2. Min(S) \in S
  BY <1>1, MinOf
<1> QED
  BY <1>2 DEF S

\* A conversation comes into view: what is stored of it is shown, and if it is linked
\* to a job, that job is followed from where it was last continued.
LEMMA OpensKeeps ==
  ASSUME jobs \in Seq(JobSet), JobsOk(jobs), jobs' = jobs,
         NEW st \in Stores, StoreOk(jobs, st), NEW a \in Convs \cup {None}, InViewOk(st, a),
         NEW p \in View, p.mounted, ~p.streaming, NEW fl \in [Flows -> Flow], AllDying(fl), Opens(st, a, p, fl),
         a # None /\ st[a].pending # 0 => \E g \in Flows : fl[g].at = "none",
         a # None /\ st[a].pending # 0 => \A g \in Flows : fl[g].at = "reading" => fl[g].zombie
  PROVE  ChatInv'
<1>0. PICK j \in Nat : j = IF a = None THEN 0 ELSE st[a].pending
  BY ChatAssumption DEF Stores, Kept
<1> DEFINE ts == IF a = None THEN <<>> ELSE st[a].turns
           q == [p EXCEPT !.turns = ts]
<1>1. /\ ts \in Turns /\ (a = None => ts = <<>>) /\ (a # None => TurnsOk(jobs, ts, a))
      /\ j # 0 => /\ a # None /\ a \in Convs /\ st[a].pending = j
                  /\ j \in DOMAIN jobs /\ jobs[j].conv = a /\ (~jobs[j].cancelled => AfterUsers(ts, j, jobs[j].base))
  <2>1. <<>> \in Turns
    BY EmptySeq DEF Turns
  <2>2. a # None => a \in Convs /\ st[a].turns \in Turns /\ ConvOk(jobs, st, a)
    BY DEF Stores, Kept, StoreOk
  <2> QED
    BY <1>0, <2>1, <2>2 DEF ConvOk
<1>2. /\ active' = a /\ store' = Persisted(st, a, page')
      /\ IF j # 0
         THEN LET f == Min({ g \in Flows : fl[g].at = "none" }) IN
              /\ page' = Attached(q, f, j)
              /\ flows' = [fl EXCEPT ![f] = [Follows("attach", a, j) EXCEPT !.effect = TRUE]]
         ELSE page' = q /\ flows' = fl
  BY <1>0 DEF Opens, View
<1> HIDE DEF ts
<1>3. q \in View /\ q.turns = ts /\ q.mounted /\ ~q.streaming
  BY <1>1 DEF View
<1>4. CASE j = 0
  <2>1. page' = q /\ flows' = fl
    BY <1>2, <1>4
  <2>2. \A g \in Flows : ~Live(g)'
    BY <2>1 DEF AllDying, Live
  <2>3. FlowsOk'
    <3> HIDE DEF q
    <3> QED
      BY <1>3, <2>1, <2>2 DEF FlowsOk, DyingOk, AllDying
  <2>4. a # None => st[a].pending = 0
    BY <1>0, <1>4
  <2> HIDE DEF q
  <2> QED
    BY <1>1, <1>2, <1>3, <2>1, <2>3, <2>4, Assembles
<1>5. CASE j # 0
  <2>0. PICK f \in Flows : f = Min({ g \in Flows : fl[g].at = "none" }) /\ fl[f].at = "none"
    BY <1>1, <1>5, FreeOf
  <2>1. PICK w : w = [Follows("attach", a, j) EXCEPT !.effect = TRUE]
    OBVIOUS
  <2>2. /\ w \in Flow /\ w.at = "reading" /\ w.kind = "attach" /\ w.conv = a /\ w.job = j /\ w.read = jobs[j].base
        /\ ~w.final /\ ~w.aborted /\ ~w.zombie
    <3>1. a \in Convs /\ j \in DOMAIN jobs
      BY <1>1, <1>5
    <3> QED
      BY ONLY <2>1, <3>1, AttachIs, jobs \in Seq(JobSet)
  <2>3. page' = Attached(q, f, j) /\ flows' = [fl EXCEPT ![f] = w]
    BY <1>2, <1>5, <2>0, <2>1
  <2>4. flows' \in [Flows -> Flow] /\ flows'[f] = w /\ \A g \in Flows \ {f} : flows'[g] = fl[g]
    BY <2>2, <2>3
  <2>5. Reset(ts) \in Turns /\ Reset(ts) # <<>> /\ TurnsOk(jobs, Reset(ts), a)
    BY <1>1, <1>5, ResetOk
  <2>6. /\ page' \in View /\ page'.mounted /\ page'.streaming /\ page'.ctl = f /\ page'.turns = Reset(ts) /\ page'.job = j
    <3> HIDE DEF q
    <3> QED
      BY <1>3, <2>3, <2>5 DEF View, Attached
  <2> HIDE DEF q, Reset
  <2>7. store'[a].pending = j
    BY <1>1, <1>2, <1>5, <2>6, PersistedKeeps
  <2>8. FollowOk(f)'
    BY <1>1, <1>2, <1>5, <2>2, <2>4, <2>6, <2>7, ReadsAgain
  <2>9. LiveOk(f)'
    BY <1>1, <1>2, <1>5, <2>2, <2>4, <2>5, <2>6 DEF LiveOk
  <2>10. \A g \in Flows \ {f} : Quiet(g)'
    BY <1>1, <1>5, <2>4 DEF Quiet, AllDying
  <2>11. FlowsOk'
    BY <2>2, <2>4, <2>8, <2>9, <2>10, OneFlow
  <2>12. Following(f)'
    BY <2>2, <2>4 DEF Following, Live
  <2> QED
    BY <1>1, <1>2, <1>5, <2>4, <2>5, <2>6, <2>11, <2>12, Assembles
<1> QED
  BY <1>4, <1>5

LEMMA NothingOk ==
  ASSUME NEW js, NEW c
  PROVE  TurnsOk(js, <<>>, c)
BY EmptySeq DEF TurnsOk, InOrder, FromTheFirst, Shown

\* A conversation begins, or is deleted.
LEMMA BeginsOk ==
  ASSUME jobs \in Seq(JobSet), store \in Stores, StoreOk(jobs, store), NEW c \in Convs, NEW here \in BOOLEAN
  PROVE  LET st == [store EXCEPT ![c] = [here |-> here, turns |-> <<>>, pending |-> 0]] IN
         /\ st \in Stores /\ StoreOk(jobs, st) /\ st[c].here = here /\ st[c].pending = 0
         /\ \A d \in Convs : d # c => st[d] = store[d]
<1> DEFINE k == [here |-> here, turns |-> <<>>, pending |-> 0]
           st == [store EXCEPT ![c] = k]
<1>1. k \in Kept /\ k.here = here /\ k.turns = <<>> /\ k.pending = 0
  BY EmptySeq DEF Kept, Turns
<1> HIDE DEF k
<1>2. st \in Stores /\ st[c] = k /\ \A d \in Convs : d # c => st[d] = store[d]
  BY <1>1 DEF Stores
<1> HIDE DEF st
<1>3. ASSUME NEW d \in Convs PROVE ConvOk(jobs, st, d)
  <2>1. CASE d = c
    BY <1>1, <1>2, <2>1, NothingOk DEF ConvOk
  <2>2. CASE d # c
    BY <1>2, <2>2 DEF StoreOk, ConvOk
  <2> QED
    BY <2>1, <2>2
<1> QED
  BY <1>1, <1>2, <1>3 DEF StoreOk, st, k

LEMMA SelectKeeps ==
  ASSUME Careful, ChatInv, NEW c \in Convs, Select(c)
  PROVE  ChatInv'
<1> DEFINE fl == CleansUp(Aborts(flows, page.ctl))
<1>1. /\ page.mounted /\ Settled /\ ~OnItsWay /\ FreeFlows # {} /\ store[c].here
      /\ (page.streaming => store[c].pending = 0) /\ Opens(store, c, Rests(page), fl) /\ jobs' = jobs
  BY DEF Select, MayLeave, AbortsStream
<1>2. /\ JobsOk(jobs) /\ StoreOk(jobs, store) /\ jobs \in Seq(JobSet) /\ store \in Stores /\ page \in View /\ c # None
  BY TypesAre DEF ChatInv
<1>3. /\ fl \in [Flows -> Flow] /\ AllDying(fl) /\ (\A g \in Flows : fl[g].at = flows[g].at)
      /\ (~page.streaming => \A g \in Flows : flows[g].at # "reading")
  BY <1>1, StopsAll
<1> HIDE DEF fl
<1>4. Rests(page) \in View /\ Rests(page).mounted /\ ~Rests(page).streaming
  BY <1>1, <1>2 DEF Rests, View
<1> HIDE DEF Rests
<1>5. \E g \in Flows : fl[g].at = "none"
  BY <1>1, <1>3 DEF FreeFlows
<1>6. InViewOk(store, c)
  BY <1>1, <1>2 DEF InViewOk
<1> QED
  BY <1>1, <1>2, <1>3, <1>4, <1>5, <1>6, OpensKeeps

LEMMA NewChatKeeps ==
  ASSUME Careful, ChatInv, NEW c \in Convs, NewChat(c)
  PROVE  ChatInv'
<1> DEFINE fl == CleansUp(Aborts(flows, page.ctl))
           st == [store EXCEPT ![c] = [here |-> TRUE, turns |-> <<>>, pending |-> 0]]
<1>1. page.mounted /\ Settled /\ ~OnItsWay /\ Opens(st, c, Rests(page), fl) /\ jobs' = jobs
  BY DEF NewChat, MayLeave, AbortsStream
<1>2. /\ JobsOk(jobs) /\ StoreOk(jobs, store) /\ jobs \in Seq(JobSet) /\ store \in Stores /\ page \in View /\ c # None
  BY TypesAre DEF ChatInv
<1>3. fl \in [Flows -> Flow] /\ AllDying(fl)
  BY <1>1, StopsAll
<1> HIDE DEF fl
<1>4. Rests(page) \in View /\ Rests(page).mounted /\ ~Rests(page).streaming
  BY <1>1, <1>2 DEF Rests, View
<1> HIDE DEF Rests
<1>5. st \in Stores /\ StoreOk(jobs, st) /\ st[c].here = TRUE /\ st[c].pending = 0
  BY <1>2, BeginsOk
<1> HIDE DEF st
<1>6. InViewOk(st, c)
  BY <1>2, <1>5 DEF InViewOk
<1> QED
  BY <1>1, <1>2, <1>3, <1>4, <1>5, <1>6, OpensKeeps

LEMMA MountKeeps ==
  ASSUME ChatInv, NEW fl \in [Flows -> Flow], AllDying(fl), \A g \in Flows : fl[g].at = "reading" => fl[g].zombie,
         \E g \in Flows : fl[g].at = "none", Return(store, fl), jobs' = jobs
  PROVE  ChatInv'
<1> DEFINE fresh == CHOOSE c \in Convs : ~store[c].here
           lost == active = None \/ ~store[active].here
           st == IF lost THEN [store EXCEPT ![fresh].here = TRUE] ELSE store
           a == IF lost THEN fresh ELSE active
<1>1. Opens(st, a, Blank, fl)
  BY DEF Return
<1>2. /\ JobsOk(jobs) /\ StoreOk(jobs, store) /\ jobs \in Seq(JobSet) /\ store \in Stores
      /\ active \in Convs \cup {None} /\ InViewOk(store, active) /\ None \notin Convs
  BY TypesAre DEF ChatInv, PageOk
<1>3. Blank \in View /\ Blank.mounted /\ ~Blank.streaming
  BY EmptySeq DEF Blank, View, Turns
<1>4. CASE active # None
  <2>1. ~lost /\ active \in Convs
    BY <1>2, <1>4 DEF InViewOk
  <2>2. st = store /\ a = active
    BY <2>1
  <2> HIDE DEF st, a, lost
  <2> QED
    BY <1>1, <1>2, <1>3, <2>1, <2>2, OpensKeeps
<1>5. CASE active = None
  <2>1. lost /\ (\A c \in Convs : ~store[c].here) /\ \E c \in Convs : ~store[c].here
    BY <1>2, <1>5, ChatAssumption DEF InViewOk
  <2>2. fresh \in Convs /\ ~store[fresh].here
    BY <2>1
  <2>3. a = fresh /\ st = [store EXCEPT ![fresh].here = TRUE]
    BY <2>1
  <2> HIDE DEF st, a, lost, fresh
  <2>4. /\ ConvOk(jobs, store, fresh) /\ store[fresh] \in Kept /\ store[fresh].turns = <<>> /\ store[fresh].pending = 0
    BY <1>2, <2>2 DEF StoreOk, ConvOk, Stores
  <2>5. /\ st \in Stores /\ st[fresh].here /\ st[fresh].turns = <<>> /\ st[fresh].pending = 0
        /\ \A d \in Convs : d # fresh => st[d] = store[d]
    <3> DEFINE k == [store[fresh] EXCEPT !.here = TRUE]
    <3>1. k \in Kept /\ k.here /\ k.turns = <<>> /\ k.pending = 0
      BY <2>4 DEF Kept
    <3>2. st = [store EXCEPT ![fresh] = k]
      BY <2>3
    <3> HIDE DEF k
    <3> QED
      BY <1>2, <2>2, <3>1, <3>2 DEF Stores
  <2>6. StoreOk(jobs, st)
    <3> SUFFICES ASSUME NEW d \in Convs PROVE ConvOk(jobs, st, d)
      BY DEF StoreOk
    <3>1. CASE d = fresh
      BY <2>5, <3>1, NothingOk DEF ConvOk
    <3>2. CASE d # fresh
      BY <1>2, <2>5, <3>2 DEF StoreOk, ConvOk
    <3> QED
      BY <3>1, <3>2
  <2>7. InViewOk(st, fresh)
    BY <1>2, <2>2, <2>5 DEF InViewOk
  <2> QED
    BY <1>1, <1>2, <1>3, <2>2, <2>3, <2>5, <2>6, <2>7, OpensKeeps
<1> QED
  BY <1>4, <1>5

LEMMA ReturnsKeeps ==
  ASSUME ChatInv, Mount \/ Reload
  PROVE  ChatInv'
<1>1. CASE Mount
  <2>1. ~page.mounted /\ FreeFlows # {} /\ Return(store, flows) /\ jobs' = jobs
    BY <1>1 DEF Mount
  <2>2. FlowsOk /\ flows \in [Flows -> Flow]
    BY TypesAre DEF ChatInv
  <2>3. AllDying(flows) /\ \A g \in Flows : flows[g].at = "reading" => flows[g].zombie
    BY <2>1, <2>2 DEF AllDying, FlowsOk, DyingOk, LiveOk
  <2>4. \E g \in Flows : flows[g].at = "none"
    BY <2>1 DEF FreeFlows
  <2> QED
    BY <2>1, <2>2, <2>3, <2>4, MountKeeps
<1>2. CASE Reload
  <2> DEFINE fl == [f \in Flows |-> NoFlow]
  <2>1. Return(store, fl) /\ jobs' = jobs
    BY <1>2 DEF Reload
  <2>2. fl \in [Flows -> Flow] /\ \A g \in Flows : fl[g].at = "none"
    BY NoFlowIs
  <2> HIDE DEF fl
  <2>3. AllDying(fl) /\ (\A g \in Flows : fl[g].at = "reading" => fl[g].zombie) /\ \E g \in Flows : fl[g].at = "none"
    BY <2>2, ChatAssumption DEF AllDying
  <2> QED
    BY <2>1, <2>2, <2>3, MountKeeps
<1> QED
  BY <1>1, <1>2

LEMMA DeleteKeeps ==
  ASSUME Careful, ChatInv, NEW c \in Convs, Delete(c)
  PROVE  ChatInv'
<1> DEFINE st == [store EXCEPT ![c] = [here |-> FALSE, turns |-> <<>>, pending |-> 0]]
           left == { d \in Convs : st[d].here }
           a == IF left = {} THEN None ELSE CHOOSE d \in left : TRUE
<1>1. /\ page.mounted /\ ~page.streaming /\ Settled /\ ~OnItsWay /\ FreeFlows # {} /\ store[c].here /\ jobs' = jobs
      /\ IF c # active THEN store' = st /\ active' = active /\ page' = page /\ flows' = flows
                       ELSE Opens(st, a, page, CleansUp(flows))
  BY DEF Delete, MayLeave
<1>2. /\ ChatTyped /\ JobsOk(jobs) /\ StoreOk(jobs, store) /\ PageOk /\ FlowsOk
      /\ jobs \in Seq(JobSet) /\ store \in Stores /\ page \in View /\ c # None
      /\ flows \in [Flows -> Flow] /\ active \in Convs \cup {None} /\ None \notin Convs
  BY TypesAre DEF ChatInv
<1>3. /\ st \in Stores /\ StoreOk(jobs, st) /\ st[c].here = FALSE /\ st[c].pending = 0
      /\ \A d \in Convs : d # c => st[d] = store[d]
  BY <1>2, BeginsOk
<1> HIDE DEF st
<1>4. (\A g \in Flows : ~Live(g)) /\ \A g \in Flows : Quiet(g)
  BY <1>1, <1>2, NobodyActs
<1>5. \A g \in Flows : flows[g].at # "reading"
  BY <1>1, StopsAll
<1>6. CASE c # active
  <2>1. store' = st /\ active' = active /\ page' = page /\ flows' = flows
    BY <1>1, <1>6
  <2>2. ChatTyped'
    BY <1>1, <1>2, <1>3, <2>1 DEF ChatTyped
  <2>3. InViewOk(st, active)
    BY <1>2, <1>3, <1>6 DEF PageOk, InViewOk
  <2>4. PageOk'
    <3>1. \A f \in Flows : Following(f)' <=> Following(f)
      BY <2>1 DEF Following, Live
    <3>2. active # None => st[active] = store[active]
      BY <1>2, <1>3, <1>6
    <3> QED
      BY <1>1, <1>2, <2>1, <2>3, <3>1, <3>2 DEF PageOk
  <2>5. FlowsOk'
    <3>1. \A g \in Flows : ~Live(g)' /\ Quiet(g)'
      BY <1>4, <2>1 DEF Live, Quiet
    <3>2. \A g \in Flows : flows'[g].at # "none" => flows'[g].aborted /\ DyingOk(g)'
      BY <1>1, <2>1, <3>1 DEF Quiet, DyingOk
    <3> QED
      BY <3>2 DEF FlowsOk
  <2> QED
    BY <1>1, <1>2, <1>3, <2>1, <2>2, <2>4, <2>5 DEF ChatInv
<1>7. CASE c = active
  <2>1. Opens(st, a, page, CleansUp(flows))
    BY <1>1, <1>7
  <2>2. a \in Convs \cup {None} /\ InViewOk(st, a)
    <3>1. CASE left = {}
      <4>1. a = None /\ \A d \in Convs : ~st[d].here
        BY <3>1
      <4> QED
        BY <4>1 DEF InViewOk
    <3>2. CASE left # {}
      <4>1. a \in left
        BY <3>2
      <4>2. a \in Convs /\ st[a].here
        BY <4>1
      <4> QED
        BY <1>2, <4>2 DEF InViewOk
    <3> QED
      BY <3>1, <3>2
  <2>3. /\ CleansUp(flows) \in [Flows -> Flow] /\ (\A g \in Flows : CleansUp(flows)[g].at = flows[g].at)
        /\ (\A g \in Flows : CleansUp(flows)[g].kind = flows[g].kind)
        /\ \A g \in Flows : flows[g].aborted => CleansUp(flows)[g].aborted
    BY <1>2, CleansUpIs
  <2>4. AllDying(CleansUp(flows))
    BY <1>4, <2>3 DEF AllDying, Quiet
  <2>5. (\E g \in Flows : CleansUp(flows)[g].at = "none") /\ \A g \in Flows : CleansUp(flows)[g].at # "reading"
    BY <1>1, <1>5, <2>3 DEF FreeFlows
  <2> HIDE DEF a, left, CleansUp
  <2> QED
    BY <1>1, <1>2, <1>3, <2>1, <2>2, <2>3, <2>4, <2>5, OpensKeeps
<1> QED
  BY <1>6, <1>7

LEMMA LeaveKeeps ==
  ASSUME Careful, ChatInv, Leave
  PROVE  ChatInv'
<1> DEFINE fl == CleansUp(Aborts(flows, page.ctl))
           p == [page EXCEPT !.streaming = FALSE]
<1>1. /\ page.mounted /\ Settled /\ ~OnItsWay /\ active' = active /\ jobs' = jobs
      /\ page' = [Blank EXCEPT !.mounted = FALSE]
      /\ flows' = [f \in Flows |-> [fl[f] EXCEPT !.zombie = fl[f].at # "none"]]
      /\ store' = IF active # None /\ store[active].here /\ page.turns # <<>>
                  THEN [store EXCEPT ![active].turns = Clean(page.turns)] ELSE store
  BY DEF Leave, MayLeave
<1>2. /\ ChatTyped /\ JobsOk(jobs) /\ StoreOk(jobs, store) /\ PageOk /\ FlowsOk
      /\ jobs \in Seq(JobSet) /\ store \in Stores /\ page \in View /\ page.turns \in Turns
      /\ active \in Convs \cup {None} /\ None \notin Convs
  BY TypesAre DEF ChatInv
<1>3. fl \in [Flows -> Flow] /\ AllDying(fl)
  BY <1>1, StopsAll
<1> HIDE DEF fl
<1>4. flows' \in [Flows -> Flow] /\ AllDying(flows') /\ \A g \in Flows : flows'[g].at # "none" => flows'[g].zombie
  <2>1. ASSUME NEW g \in Flows
        PROVE  /\ flows'[g] \in Flow /\ flows'[g].at = fl[g].at /\ flows'[g].kind = fl[g].kind
               /\ flows'[g].aborted = fl[g].aborted /\ (fl[g].at # "none" => flows'[g].zombie)
    <3>1. fl[g] \in Flow /\ flows'[g] = [fl[g] EXCEPT !.zombie = fl[g].at # "none"]
      BY <1>1, <1>3
    <3> QED
      BY <3>1 DEF Flow
  <2>2. flows' = [g \in Flows |-> flows'[g]]
    BY <1>1
  <2> QED
    BY <1>3, <2>1, <2>2 DEF AllDying
<1>5. p \in View /\ p.mounted /\ ~p.streaming /\ p.turns = page.turns
  BY <1>1, <1>2 DEF View
<1>6. store' = store \/ store' = Persisted(store, active, p)
  BY <1>1, <1>5 DEF Persisted
<1>7. StoreOk(jobs, Persisted(store, active, p))
  <2>1. active # None => TurnsOk(jobs, page.turns, active)
    BY <1>1, <1>2 DEF PageOk
  <2>2. (active # None /\ store[active].pending # 0 /\ ~jobs[store[active].pending].cancelled)
           => AfterUsers(page.turns, store[active].pending, jobs[store[active].pending].base)
    BY <1>1, <1>2, PageAfter
  <2> HIDE DEF p
  <2> QED
    BY <1>2, <1>5, <2>1, <2>2, StoredOk
<1>8. store' \in Stores /\ StoreOk(jobs, store') /\ \A c \in Convs : store'[c].here = store[c].here
  <2> HIDE DEF p
  <2>1. /\ Persisted(store, active, p) \in Stores
        /\ \A c \in Convs : Persisted(store, active, p)[c].here = store[c].here
    BY <1>2, <1>5, PersistedIs
  <2> QED
    BY <1>2, <1>6, <1>7, <2>1
<1>9. page' \in View /\ ~page'.mounted
  <2>1. Blank \in View
    BY EmptySeq DEF Blank, View, Turns
  <2> QED
    BY <1>1, <2>1 DEF View
<1>10. ChatTyped'
  BY <1>1, <1>2, <1>4, <1>8, <1>9 DEF ChatTyped
<1>11. PageOk'
  <2>1. InViewOk(store', active)
    BY <1>2, <1>8 DEF PageOk, InViewOk
  <2> QED
    BY <1>1, <1>9, <2>1 DEF PageOk
<1>12. FlowsOk'
  BY <1>4 DEF FlowsOk, DyingOk, AllDying
<1> QED
  BY <1>1, <1>2, <1>8, <1>10, <1>11, <1>12 DEF ChatInv

-----------------------------------------------------------------------------
(* Every step keeps the invariant                                          *)

LEMMA ChatBegins ==
  ChatInit => ChatInv
<1> SUFFICES ASSUME ChatInit PROVE ChatInv
  OBVIOUS
<1>1. FirstConv \in Convs /\ FirstConv # None /\ None \notin Convs
  BY ChatAssumption DEF FirstConv
<1>2. /\ store = [c \in Convs |-> [here |-> c = FirstConv, turns |-> <<>>, pending |-> 0]]
      /\ active = FirstConv /\ page = Blank /\ flows = [f \in Flows |-> NoFlow] /\ jobs = <<>>
  BY DEF ChatInit
<1> HIDE DEF FirstConv
<1>3. ASSUME NEW c \in Convs
      PROVE  store[c] \in Kept /\ (store[c].here <=> c = FirstConv) /\ store[c].turns = <<>> /\ store[c].pending = 0
  <2>1. store[c] = [here |-> c = FirstConv, turns |-> <<>>, pending |-> 0]
    BY <1>2
  <2>2. <<>> \in Turns
    BY EmptySeq DEF Turns
  <2>3. CASE c = FirstConv
    <3>1. store[c] = [here |-> TRUE, turns |-> <<>>, pending |-> 0]
      BY <2>1, <2>3
    <3> QED
      BY <2>2, <2>3, <3>1 DEF Kept
  <2>4. CASE c # FirstConv
    <3>1. store[c] = [here |-> FALSE, turns |-> <<>>, pending |-> 0]
      BY <2>1, <2>4
    <3> QED
      BY <2>2, <2>4, <3>1 DEF Kept
  <2> QED
    BY <2>3, <2>4
<1>4. store \in Stores
  <2>1. store = [c \in Convs |-> store[c]]
    BY <1>2
  <2> QED
    BY <1>3, <2>1 DEF Stores
<1>5. Blank \in View /\ Blank.turns = <<>>
  BY EmptySeq DEF Blank, View, Turns
<1>6. jobs \in Seq(JobSet) /\ DOMAIN jobs = {}
  BY <1>2, EmptySeq
<1>7. ChatTyped
  BY <1>1, <1>2, <1>4, <1>5, <1>6, NoFlowIs DEF ChatTyped
<1>8. StoreOk(jobs, store)
  BY <1>3, NothingOk DEF StoreOk, ConvOk
<1>9. PageOk
  BY <1>1, <1>2, <1>3, <1>5, NothingOk DEF PageOk, InViewOk
<1>10. FlowsOk
  BY <1>2, NoFlowIs DEF FlowsOk
<1> QED
  BY <1>6, <1>7, <1>8, <1>9, <1>10 DEF ChatInv, JobsOk

LEMMA StuttersKeep ==
  ASSUME ChatInv, UNCHANGED chatVars
  PROVE  ChatInv'
<1>1. store' = store /\ active' = active /\ page' = page /\ flows' = flows /\ jobs' = jobs
  BY DEF chatVars
<1>2. jobs \in Seq(JobSet) /\ JobsOk(jobs) /\ Grows(jobs, jobs)
  BY TypesAre, GrowsItself DEF ChatInv
<1> QED
  BY <1>1, <1>2, JobStepKeeps

LEMMA ReaderKeeps ==
  ASSUME Careful, ChatInv, ReaderActs
  PROVE  ChatInv'
<1>1. CASE \E kind \in {"change", "task", "plain"} : Send(kind)
  BY <1>1, SendKeeps
<1>2. CASE \E i \in DOMAIN page.turns : ProceedImpact(i) \/ CancelImpact(i) \/ RetryFrom(i) \/ ContinueJob(i)
  BY <1>2, ProceedKeeps, CancelKeeps, RetryKeeps, ContinueJobKeeps
<1>3. CASE \E c \in Convs : Select(c) \/ NewChat(c) \/ Delete(c)
  BY <1>3, SelectKeeps, NewChatKeeps, DeleteKeeps
<1>4. CASE Stop \/ Leave \/ Mount \/ Reload
  BY <1>4, StopKeeps, LeaveKeeps, ReturnsKeeps
<1> QED
  BY <1>1, <1>2, <1>3, <1>4 DEF ReaderActs

LEMMA AwaitKeeps ==
  ASSUME ChatInv, NEW f \in Flows, Await(f) \/ Drops(f)
  PROVE  ChatInv'
BY ImpactKeeps, JobStartsKeeps, StartFailsKeeps, PlainEndsKeeps, ContinuedKeeps, ReadsEventKeeps, ClosesKeeps,
   AbortSeenKeeps, ReconnectsKeeps, DropsKeeps DEF Await

\* The invariant holds for any number of conversations, functions and jobs, while the
\* reader leaves only what has begun to arrive.  (page.tsx, chat-store.ts)
THEOREM ChatInvariance == Careful => (ChatSpec => []ChatInv)
<1> SUFFICES ASSUME Careful PROVE ChatSpec => []ChatInv
  OBVIOUS
<1>1. ChatInit => ChatInv
  BY ChatBegins
<1>2. ChatInv /\ [ChatNext]_chatVars => ChatInv'
  <2> SUFFICES ASSUME ChatInv, [ChatNext]_chatVars PROVE ChatInv'
    OBVIOUS
  <2>1. CASE ReaderActs
    BY <2>1, ReaderKeeps
  <2>2. CASE \E f \in Flows : Await(f) \/ Drops(f)
    BY <2>2, AwaitKeeps
  <2>3. CASE \E j \in DOMAIN jobs : JobWorks(j) \/ JobErrs(j)
    BY <2>3, JobWorksKeeps
  <2>4. CASE UNCHANGED chatVars
    BY <2>4, StuttersKeep
  <2> QED
    BY <2>1, <2>2, <2>3, <2>4 DEF ChatNext
<1> QED
  BY <1>1, <1>2, PTL DEF ChatSpec

LEMMA TellsMeans ==
  ASSUME ChatInv, NEW c \in Convs, NEW ts \in Turns, TurnsOk(jobs, ts, c), NEW j \in DOMAIN jobs
  PROVE  /\ (\E e \in Shown(ts) : e[1] = j) => jobs[j].conv = c
         /\ ~jobs[j].cancelled => InOrder(ts, j) /\ (Unbroken(j) => FromTheFirst(ts, j))
<1>1. ASSUME NEW e \in Shown(ts), e[1] = j PROVE jobs[j].conv = c
  <2>1. PICK i \in DOMAIN ts : \E k \in DOMAIN ts[i].shown : ts[i].shown[k] = e
    BY ShownMeans
  <2>2. ToldBy(jobs, c, e)
    BY <2>1 DEF TurnsOk
  <2> QED
    BY <1>1, <2>2 DEF ToldBy
<1>2. ~jobs[j].cancelled => InOrder(ts, j) /\ (Unbroken(j) => FromTheFirst(ts, j))
  BY DEF TurnsOk, Unbroken, Whole
<1> QED
  BY <1>1, <1>2

\* A conversation shows events only of its own jobs, and of a job that was not stopped
\* each one once, in order and from the first, whatever the reader and the connection do.
\* (page.tsx, abortActiveStream, attachToJob)
THEOREM TurnsTell == Careful => (ChatSpec => []TurnsTellTheirJobs)
<1> SUFFICES ASSUME Careful PROVE ChatSpec => []TurnsTellTheirJobs
  OBVIOUS
<1>1. ChatSpec => []ChatInv
  BY ChatInvariance
<1>2. ChatInv => TurnsTellTheirJobs
  <2> SUFFICES ASSUME ChatInv, NEW c \in Convs, NEW j \in DOMAIN jobs
               PROVE  LET turns == IF c = active /\ page.mounted THEN page.turns ELSE store[c].turns
                      IN  /\ (\E e \in Shown(turns) : e[1] = j) => jobs[j].conv = c
                          /\ ~jobs[j].cancelled => InOrder(turns, j) /\ (Unbroken(j) => FromTheFirst(turns, j))
    BY DEF TurnsTellTheirJobs
  <2> DEFINE ts == IF c = active /\ page.mounted THEN page.turns ELSE store[c].turns
  <2>1. ts \in Turns /\ TurnsOk(jobs, ts, c)
    <3>1. page.turns \in Turns /\ store[c].turns \in Turns /\ None \notin Convs
      BY TypesAre DEF ChatInv
    <3>2. CASE c = active /\ page.mounted
      BY <3>1, <3>2 DEF ChatInv, PageOk
    <3>3. CASE ~(c = active /\ page.mounted)
      BY <3>1, <3>3 DEF ChatInv, StoreOk, ConvOk
    <3> QED
      BY <3>2, <3>3
  <2> HIDE DEF ts
  <2> QED
    BY <2>1, TellsMeans DEF ts
<1> QED
  BY <1>1, <1>2, PTL

-----------------------------------------------------------------------------
(* A link is not lost                                                      *)

StaysLinked(c) ==
  LET j == store[c].pending IN
    (j # 0 /\ store'[c].pending # j /\ Unbroken(j)) =>
      \/ store'[c].pending # 0
      \/ ~store'[c].here
      \/ jobs[j].over /\ active = c /\ page.mounted /\ AllShown(page.turns, j)

LEMMA WritesLinks ==
  ASSUME ChatInv', NEW st \in Stores, store' = Persisted(st, active', page')
  PROVE  \A c \in Convs : store'[c].here = st[c].here /\ store'[c].pending = st[c].pending
<1>1. active' \in Convs \cup {None} /\ page' \in View
  BY DEF ChatInv, ChatTyped
<1> QED
  BY <1>1, PersistedKeeps

LEMMA ShowsKeepLinks ==
  ASSUME ChatInv, ChatInv', NEW p, Shows(p), active' = active
  PROVE  \A c \in Convs : StaysLinked(c)
<1>1. store \in Stores /\ store' = Persisted(store, active', page')
  BY TypesAre DEF ChatInv, Shows
<1>2. \A c \in Convs : store'[c].pending = store[c].pending
  BY <1>1, WritesLinks
<1> QED
  BY <1>2 DEF StaysLinked

LEMMA SameStoreKeepsLinks ==
  ASSUME store' = store
  PROVE  \A c \in Convs : StaysLinked(c)
BY DEF StaysLinked

\* A job that is linked is a job.
LEMMA LinksKeep ==
  ASSUME ChatInv, ChatInv', NEW c \in Convs \cup {None}, NEW j \in Nat \ {0}, store' = Persisted(Linked(store, c, j), active', page')
  PROVE  \A d \in Convs : StaysLinked(d)
<1> DEFINE st == Linked(store, c, j)
<1>1. store \in Stores
  BY TypesAre DEF ChatInv
<1>2. st \in Stores /\ \A d \in Convs : st[d].pending = j \/ st[d].pending = store[d].pending
  BY <1>1, LinkedIs
<1> HIDE DEF st
<1>3. \A d \in Convs : store'[d].pending = st[d].pending
  BY <1>2, WritesLinks DEF st
<1> QED
  BY <1>2, <1>3 DEF StaysLinked

LEMMA OpensLinks ==
  ASSUME ChatInv', NEW st \in Stores, NEW a, NEW p, NEW fl, Opens(st, a, p, fl)
  PROVE  \A c \in Convs : store'[c].here = st[c].here /\ store'[c].pending = st[c].pending
<1>1. store' = Persisted(st, active', page')
  BY DEF Opens
<1> QED
  BY <1>1, WritesLinks

LEMMA ReaderKeepsLinks ==
  ASSUME ChatInv, ChatInv', ReaderActs
  PROVE  \A c \in Convs : StaysLinked(c)
<1>1. store \in Stores /\ StoreOk(jobs, store) /\ jobs \in Seq(JobSet) /\ InViewOk(store, active) /\ active \in Convs \cup {None}
      /\ None \notin Convs
  BY TypesAre DEF ChatInv, PageOk
<1>2. CASE \E kind \in {"change", "task", "plain"} : Send(kind)
  <2>1. (\E p : Shows(p)) /\ active' = active
    BY <1>2 DEF Send
  <2> QED
    BY <2>1, ShowsKeepLinks
<1>3. CASE \E i \in DOMAIN page.turns : ProceedImpact(i) \/ CancelImpact(i) \/ RetryFrom(i) \/ ContinueJob(i)
  <2>1. (\E p : Shows(p)) /\ active' = active
    BY <1>3 DEF ProceedImpact, CancelImpact, RetryFrom, ContinueJob
  <2> QED
    BY <2>1, ShowsKeepLinks
<1>4. ASSUME NEW c \in Convs, Select(c) PROVE \A d \in Convs : StaysLinked(d)
  <2>1. \A d \in Convs : store'[d].pending = store[d].pending
    BY <1>1, <1>4, OpensLinks DEF Select
  <2> QED
    BY <2>1 DEF StaysLinked
<1>5. ASSUME NEW c \in Convs, NewChat(c) PROVE \A d \in Convs : StaysLinked(d)
  <2> DEFINE st == [store EXCEPT ![c] = [here |-> TRUE, turns |-> <<>>, pending |-> 0]]
  <2>1. st \in Stores /\ \A d \in Convs : d # c => st[d] = store[d]
    BY <1>1, BeginsOk
  <2>2. \A d \in Convs : store'[d].pending = st[d].pending
    BY <1>5, <2>1, OpensLinks DEF NewChat
  <2>3. store[c].pending = 0
    BY <1>1, <1>5 DEF NewChat, StoreOk, ConvOk
  <2> HIDE DEF st
  <2> QED
    BY <2>1, <2>2, <2>3 DEF StaysLinked
<1>6. ASSUME NEW c \in Convs, Delete(c) PROVE \A d \in Convs : StaysLinked(d)
  <2> DEFINE st == [store EXCEPT ![c] = [here |-> FALSE, turns |-> <<>>, pending |-> 0]]
  <2>1. st \in Stores /\ st[c].here = FALSE /\ \A d \in Convs : d # c => st[d] = store[d]
    BY <1>1, BeginsOk
  <2>2. store' = st \/ \E a, p, fl : Opens(st, a, p, fl)
    BY <1>6 DEF Delete
  <2> HIDE DEF st
  <2>3. \A d \in Convs : store'[d].pending = st[d].pending /\ store'[d].here = st[d].here
    BY <2>1, <2>2, OpensLinks
  <2> QED
    BY <2>1, <2>3 DEF StaysLinked
<1>7. CASE Stop
  <2>1. (\E p : Shows(p)) /\ active' = active
    BY <1>7 DEF Stop
  <2> QED
    BY <2>1, ShowsKeepLinks
<1>8. CASE Leave
  <2>1. \A c \in Convs : store'[c].pending = store[c].pending
    <3>1. CASE store' = store
      BY <3>1
    <3>2. CASE active # None /\ store' = [store EXCEPT ![active].turns = Clean(page.turns)]
      <4>1. active \in Convs /\ store[active] \in Kept
        BY <1>1, <3>2 DEF Stores
      <4> QED
        BY <1>1, <3>2, <4>1 DEF Stores, Kept
    <3> QED
      BY <1>8, <3>1, <3>2 DEF Leave
  <2> QED
    BY <2>1 DEF StaysLinked
<1>9. CASE Mount \/ Reload
  <2> DEFINE fresh == CHOOSE c \in Convs : ~store[c].here
             lost == active = None \/ ~store[active].here
             st == IF lost THEN [store EXCEPT ![fresh].here = TRUE] ELSE store
  <2>1. \E a, p, fl : Opens(st, a, p, fl)
    BY <1>9 DEF Mount, Reload, Return
  <2>2. st \in Stores /\ \A c \in Convs : st[c].pending = store[c].pending
    <3>1. CASE ~lost
      BY <1>1, <3>1
    <3>2. CASE lost
      <4>1. \E c \in Convs : ~store[c].here
        BY <1>1, <3>2, ChatAssumption DEF InViewOk
      <4>2. fresh \in Convs
        BY <4>1
      <4>3. st = [store EXCEPT ![fresh].here = TRUE]
        BY <3>2
      <4> HIDE DEF st, fresh
      <4>4. store[fresh] \in Kept
        BY <1>1, <4>2 DEF Stores
      <4> QED
        BY <1>1, <4>2, <4>3, <4>4 DEF Stores, Kept
    <3> QED
      BY <3>1, <3>2
  <2> HIDE DEF st
  <2>3. \A c \in Convs : store'[c].pending = st[c].pending
    BY <2>1, <2>2, OpensLinks
  <2> QED
    BY <2>2, <2>3 DEF StaysLinked
<1> QED
  BY <1>2, <1>3, <1>4, <1>5, <1>6, <1>7, <1>8, <1>9 DEF ReaderActs

\* Who has heard the last word of a job that met no error has heard them all.
LEMMA EndsShown ==
  ASSUME ChatInv, NEW f \in Flows, Reading(f), flows[f].final, Whole(jobs[flows[f].job])
  PROVE  jobs[flows[f].job].over /\ AllShown(page.turns, flows[f].job)
<1>0. PICK j \in Nat, r \in Nat : j = flows[f].job /\ r = flows[f].read
  BY FlowIs DEF ChatInv
<1>1. Following(f) /\ flows[f].at = "reading"
  BY DEF Following, Live, Reading
<1>2. j \in DOMAIN jobs /\ FollowOk(f)
  BY <1>0, <1>1, FollowIs
<1>3. jobs \in Seq(JobSet) /\ JobsOk(jobs)
  BY TypesAre DEF ChatInv
<1>4. /\ jobs[j] \in JobSet /\ JobOk(jobs[j]) /\ Len(jobs[j].log) \in Nat /\ DOMAIN jobs[j].log = 1 .. Len(jobs[j].log)
      /\ jobs[j].base \in Nat
  BY <1>2, <1>3, JobIs
<1>5. /\ r \in jobs[j].base .. Len(jobs[j].log)
      /\ \E n \in 1 .. r : jobs[j].log[n] \in {"error", "done"}
      /\ \A n \in 1 .. r : jobs[j].log[n] = "text" => <<j, n>> \in Shown(page.turns)
  BY <1>0, <1>1, <1>2 DEF FollowOk
<1>6. PICK n \in 1 .. r : jobs[j].log[n] \in {"error", "done"}
  BY <1>5
<1>7. n \in DOMAIN jobs[j].log /\ n <= r /\ r <= Len(jobs[j].log)
  BY <1>4, <1>5
<1>8. jobs[j].log[n] = "done"
  BY <1>0, <1>4, <1>6, <1>7, WholeMeans
<1>9. n = Len(jobs[j].log) /\ jobs[j].over
  BY <1>4, <1>7, <1>8 DEF JobOk
<1>10. r = Len(jobs[j].log)
  BY <1>4, <1>5, <1>7, <1>9
<1> QED
  BY <1>0, <1>4, <1>5, <1>9, <1>10 DEF AllShown

LEMMA UnlinksShown ==
  ASSUME ChatInv, ChatInv', NEW f \in Flows, Reading(f), flows[f].final \/ ~Whole(jobs[flows[f].job]),
         store' = Persisted(Unlinks(f), active', page')
  PROVE  \A c \in Convs : StaysLinked(c)
<1> DEFINE st == Linked(store, active, 0)
<1>1. Following(f)
  BY DEF Following, Live, Reading
<1>2. /\ page.mounted /\ active \in Convs /\ flows[f].conv = active /\ store[active].pending = flows[f].job
  BY <1>1, FollowIs
<1>3. store \in Stores
  BY TypesAre DEF ChatInv
<1>4. st \in Stores /\ \A c \in Convs : c # active => st[c].pending = store[c].pending
  BY <1>2, <1>3, LinkedIs
<1>5. store' = Persisted(st, active', page')
  BY <1>2 DEF Unlinks
<1> HIDE DEF st
<1>6. \A c \in Convs : store'[c].pending = st[c].pending
  BY <1>4, <1>5, WritesLinks
<1>7. Whole(jobs[flows[f].job]) => jobs[flows[f].job].over /\ AllShown(page.turns, flows[f].job)
  BY EndsShown
<1> SUFFICES ASSUME NEW c \in Convs PROVE StaysLinked(c)
  OBVIOUS
<1>8. CASE c = active
  BY <1>2, <1>7, <1>8 DEF StaysLinked, Unbroken, Whole
<1>9. CASE c # active
  BY <1>4, <1>6, <1>9 DEF StaysLinked
<1> QED
  BY <1>8, <1>9

LEMMA SubscriptionKeepsLinks ==
  ASSUME ChatInv, ChatInv', NEW f \in Flows, Reading(f), SubscriptionEnds(f, "network") \/ SubscriptionEnds(f, Closed(f))
  PROVE  \A c \in Convs : StaysLinked(c)
<1>1. active' = active /\ Following(f)
  BY DEF SubscriptionEnds, Following, Live, Reading
<1>2. flows[f].kind \in {"complete", "attach", "continue"} /\ (flows[f].kind = "continue" => ~Whole(jobs[flows[f].job]))
  BY <1>1, FollowIs DEF FollowOk
<1>3. CASE flows[f].final /\ SubscriptionEnds(f, "ended")
  <2>1. store' = Persisted(Unlinks(f), active', page')
    BY <1>1, <1>2, <1>3 DEF SubscriptionEnds, AttachEnds, CompleteEnds, ContinueEnds, Over
  <2> QED
    BY <1>3, <2>1, UnlinksShown
<1>4. CASE SubscriptionEnds(f, "network")
  <2>1. CASE flows[f].kind = "continue"
    <3>1. store' = Persisted(Unlinks(f), active', page')
      BY <1>1, <1>4, <2>1 DEF SubscriptionEnds, ContinueEnds, Over
    <3> QED
      BY <1>2, <2>1, <3>1, UnlinksShown
  <2>2. CASE flows[f].kind # "continue"
    <3>1. store' = Persisted(store, active', page')
      <4>1. CASE flows[f].kind = "attach"
        BY <1>1, <1>4, <4>1 DEF SubscriptionEnds, AttachEnds, Over, Shows
      <4>2. CASE flows[f].kind = "complete"
        BY <1>1, <1>4, <4>2 DEF SubscriptionEnds, CompleteEnds, Shows
      <4> QED
        BY <1>2, <2>2, <4>1, <4>2
    <3>2. \A c \in Convs : store'[c].pending = store[c].pending
      BY <3>1, WritesLinks, TypesAre DEF ChatInv
    <3> QED
      BY <3>2 DEF StaysLinked
  <2> QED
    BY <2>1, <2>2
<1> QED
  BY <1>3, <1>4 DEF Closed

LEMMA AwaitKeepsLinks ==
  ASSUME ChatInv, ChatInv', NEW f \in Flows, Await(f) \/ Drops(f)
  PROVE  \A c \in Convs : StaysLinked(c)
<1>1. store \in Stores /\ jobs \in Seq(JobSet) /\ flows[f].conv \in Convs \cup {None} /\ Len(jobs) \in Nat
  BY TypesAre, FlowIs, JobsAre DEF ChatInv
<1>2. CASE ImpactAnswers(f) \/ StartFails(f) \/ PlainEnds(f) \/ ReadsEvent(f)
  <2>1. (\E p : Shows(p)) /\ active' = active
    BY <1>2 DEF ImpactAnswers, StartFails, PlainEnds, ReadsEvent
  <2> QED
    BY <2>1, ShowsKeepLinks
<1>3. CASE JobStarts(f)
  <2>1. active' = active /\ (store' = store \/ store' = Persisted(Linked(store, flows[f].conv, Len(jobs) + 1), active, page'))
    BY <1>3 DEF JobStarts
  <2>2. Len(jobs) + 1 \in Nat \ {0}
    BY <1>1
  <2> QED
    BY <1>1, <2>1, <2>2, SameStoreKeepsLinks, LinksKeep
<1>4. CASE Continued(f)
  <2>1. /\ active' = active
        /\ (\E p : Shows(p)) \/ store' = Persisted(Linked(store, flows[f].conv, flows[f].job), active, page')
    BY <1>4 DEF Continued
  <2>2. flows[f].job \in Nat \ {0}
    <3>1. flows[f].job \in DOMAIN jobs
      BY <1>4, WaitsLive, LiveIs DEF Continued, LiveOk
    <3> QED
      BY <1>1, <3>1, JobsAre
  <2> QED
    BY <1>1, <2>1, <2>2, ShowsKeepLinks, LinksKeep
<1>5. CASE Closes(f) \/ Drops(f)
  BY <1>5, SubscriptionKeepsLinks DEF Closes, Drops
<1>6. CASE AbortSeen(f)
  <2>1. active' = active /\ \E p : store' = Persisted(store, active, page')
    <3>1. flows[f].kind \in {"complete", "attach", "continue"}
      BY <1>6 DEF ChatInv, FlowsOk, DyingOk, AbortSeen
    <3> QED
      BY <1>6, <3>1 DEF AbortSeen, SubscriptionEnds, AttachEnds, CompleteEnds, ContinueEnds, Over
  <2>2. \A c \in Convs : store'[c].pending = store[c].pending
    BY <1>1, <2>1, WritesLinks
  <2> QED
    BY <2>2 DEF StaysLinked
<1>7. CASE Reconnects(f)
  <2>1. active' = active /\ (store' = store \/ \E p : Shows(p))
    BY <1>7 DEF Reconnects
  <2> QED
    BY <2>1, SameStoreKeepsLinks, ShowsKeepLinks
<1> QED
  BY <1>2, <1>3, <1>4, <1>5, <1>6, <1>7 DEF Await

\* A conversation loses its link to a job that has met no error only when the page in
\* view has shown all of it and it is over, or the reader asks anew, or deletes it.
\* (page.tsx, attachToJob; api.ts, sawFinal)
THEOREM LinksLast == Careful => (ChatSpec => LinkedUntilShown)
<1> SUFFICES ASSUME Careful PROVE ChatSpec => LinkedUntilShown
  OBVIOUS
<1>1. ChatSpec => []ChatInv
  BY ChatInvariance
<1>2. ChatInv /\ ChatInv' /\ [ChatNext]_chatVars => [\A c \in Convs : StaysLinked(c)]_chatVars
  <2> SUFFICES ASSUME ChatInv, ChatInv', ChatNext PROVE \A c \in Convs : StaysLinked(c)
    OBVIOUS
  <2>1. CASE ReaderActs
    BY <2>1, ReaderKeepsLinks
  <2>2. CASE \E f \in Flows : Await(f) \/ Drops(f)
    BY <2>2, AwaitKeepsLinks
  <2>3. CASE \E j \in DOMAIN jobs : JobWorks(j) \/ JobErrs(j)
    BY <2>3, SameStoreKeepsLinks DEF JobWorks, JobErrs, Goes
  <2> QED
    BY <2>1, <2>2, <2>3 DEF ChatNext
<1>3. ([][\A c \in Convs : StaysLinked(c)]_chatVars) => LinkedUntilShown
  BY DEF LinkedUntilShown, StaysLinked
<1> QED
  BY <1>1, <1>2, <1>3, PTL DEF ChatSpec

=============================================================================
