----------------------------- MODULE ChatClient -----------------------------
(***************************************************************************)
(* The chat page (graph-viz, app/(workspace)/chat/page.tsx) with its       *)
(* persistent store (lib/chat-store.ts) and its reader of a job's event    *)
(* log (lib/api.ts, subscribeAgentJob).  A send starts a job that runs     *)
(* detached on the backend; the page follows it, and a reader who leaves - *)
(* another conversation, another page, a reload, a lost connection - finds *)
(* it again through the link the conversation keeps.                       *)
(*                                                                         *)
(* A flow is one call of an asynchronous function of the page with its     *)
(* AbortController; it acts between two awaits, in one step.  A turn is    *)
(* told apart by who wrote it and by the events of a job's log it shows.   *)
(***************************************************************************)
EXTENDS Naturals, Sequences, SequencesExt, FiniteSets, FiniteSetsExt

CONSTANTS Convs, None, Flows,
          MaxTries,     \* reconnections of one subscription (five in the code)
          MaxEvents,    \* bound: pieces of text the jobs write, together
          MaxSends, MaxVisits,   \* bounds: requests, openings
          MaxDrops, MaxErrors,   \* bounds: lost connections, errors of jobs
          MaxTurmoil,   \* bound: all of these together, an error counted twice
          Careful       \* the reader leaves or stops only what has begun to arrive,
                        \* goes from a running answer only to a conversation without
                        \* one, and deletes and approves nothing beside one

ASSUME ChatAssumption ==
  /\ Convs # {} /\ None \notin Convs
  /\ Flows \in SUBSET (Nat \ {0}) /\ Flows # {}
  /\ Careful \in BOOLEAN

VARIABLES store,    \* conversation -> [here, turns, pending], in the browser's storage
          active,   \* the conversation in view
          page,     \* [mounted, turns, streaming, ctl, job]: React state and the two refs
          flows,    \* [at, kind, conv, job, read, final, tries, aborted, effect, zombie]
          jobs,     \* the backend's jobs, in the order they were started
          spent     \* [sends, visits, drops, errors]

chatVars == <<store, active, page, flows, jobs, spent>>

Turn(by) == [by |-> by, shown |-> <<>>, failed |-> "no", job |-> 0]
Reply == Turn("reply")
NoFlow == [at |-> "none", kind |-> "none", conv |-> None, job |-> 0, read |-> 0, final |-> FALSE,
           tries |-> 0, aborted |-> FALSE, effect |-> FALSE, zombie |-> FALSE]
Blank == [mounted |-> TRUE, turns |-> <<>>, streaming |-> FALSE, ctl |-> 0, job |-> 0]

FirstConv == CHOOSE c \in Convs : TRUE
ChatInit ==
  /\ store = [c \in Convs |-> [here |-> c = FirstConv, turns |-> <<>>, pending |-> 0]]
  /\ active = FirstConv
  /\ page = Blank
  /\ flows = [f \in Flows |-> NoFlow]
  /\ jobs = <<>>
  /\ spent = [sends |-> 0, visits |-> 0, drops |-> 0, errors |-> 0]

-----------------------------------------------------------------------------
(* The page and its store *)

\* The effect that persists turns, which runs whenever nothing streams; a
\* placeholder of an analysis is never stored.
Clean(turns) ==
  LET kept[n \in 0 .. Len(turns)] ==
        IF n = 0 THEN <<>>
        ELSE IF turns[n].by = "analyzing" THEN kept[n - 1] ELSE Append(kept[n - 1], turns[n])
  IN  kept[Len(turns)]
Persisted(st, a, p) ==
  IF p.mounted /\ ~p.streaming /\ a # None /\ st[a].here
  THEN [st EXCEPT ![a].turns = Clean(p.turns)] ELSE st

\* What a function of the page does to its state reaches it only while that page is mounted.
Sees(f, p) == IF flows[f].zombie THEN page ELSE p
Shows(p) == page' = p /\ store' = Persisted(store, active, p)
Linked(st, c, j) == IF c # None /\ st[c].here THEN [st EXCEPT ![c].pending = j] ELSE st

FreshIfErrored(turns) ==
  IF turns # <<>> /\ Last(turns).failed # "no" THEN Append(turns, Reply) ELSE turns
OnLast(turns, t) == [turns EXCEPT ![Len(turns)] = t]

\* onDelta; onError puts its message in the place of what the turn has shown.
TellText(turns, event) ==
  LET ts == FreshIfErrored(turns)
  IN  OnLast(ts, [Last(ts) EXCEPT !.by = "reply", !.failed = "no", !.shown = Append(@, event)])
Failed(turns, how, ref) == OnLast(turns, [Reply EXCEPT !.failed = how, !.job = ref])

\* resetTurn of attachToJob: everything after the last message of the reader is replaced.
LastUser(turns) == Max({0} \cup { i \in DOMAIN turns : turns[i].by = "user" })
Reset(turns) == Append(SubSeq(turns, 1, LastUser(turns)), Reply)

Base(j) == jobs[j].base
Follows(kind, c, j) == [NoFlow EXCEPT !.at = "reading", !.kind = kind, !.conv = c, !.job = j, !.read = Base(j)]
Attached(p, f, j) == [p EXCEPT !.turns = Reset(@), !.streaming = TRUE, !.ctl = f, !.job = j]
Rests(p) == [p EXCEPT !.streaming = FALSE, !.ctl = 0, !.job = 0]

\* runCompletion up to its first await
Begun(p, f, turns) == [p EXCEPT !.turns = Append(turns, Reply), !.streaming = TRUE, !.ctl = f]
Asks(kind, c) == [NoFlow EXCEPT !.at = IF kind = "plain" THEN "plain" ELSE "starting",
                                !.kind = "complete", !.conv = c]

FreeFlows == { f \in Flows : flows[f].at = "none" }
Free == Min(FreeFlows)

Aborts(fl, f) == IF f = 0 THEN fl ELSE [fl EXCEPT ![f].aborted = fl[f].at # "none"]
\* The effect that reattaches aborts what it started when the conversation changes.
CleansUp(fl) == [f \in Flows |-> IF fl[f].effect THEN [fl[f] EXCEPT !.aborted = TRUE] ELSE fl[f]]

\* A conversation comes into view: its turns are loaded, and unless something
\* still streams, the page follows the job it is linked to.
Opens(st, a, p, fl) ==
  LET q == [p EXCEPT !.turns = IF a = None THEN <<>> ELSE st[a].turns]
      j == IF a = None THEN 0 ELSE st[a].pending
      f == Min({ g \in Flows : fl[g].at = "none" })
  IN  /\ active' = a
      /\ IF j # 0 /\ ~q.streaming
         THEN /\ page' = Attached(q, f, j)
              /\ flows' = [fl EXCEPT ![f] = [Follows("attach", a, j) EXCEPT !.effect = TRUE]]
         ELSE page' = q /\ flows' = fl
      /\ store' = Persisted(st, a, page')

-----------------------------------------------------------------------------
(* The reader *)

\* An abort is answered in the same turn of the event loop, before anybody can click.
Settled == \A f \in Flows : ~(flows[f].aborted /\ flows[f].at = "reading")
OnItsWay == \E f \in Flows : flows[f].at \in {"impact", "starting", "continuing", "plain"}
MayLeave == Settled /\ (Careful => ~OnItsWay)
Idle == page.mounted /\ Settled /\ ~page.streaming /\ FreeFlows # {}

Turmoil == spent.sends + spent.visits + spent.drops + 2 * spent.errors
Spends(what, most) == Turmoil < MaxTurmoil /\ spent[what] < most /\ spent' = [spent EXCEPT ![what] = @ + 1]
Sends  == Spends("sends", MaxSends)
Visits == Spends("visits", MaxVisits)

Send(kind) ==
  /\ Idle /\ active # None /\ (Careful => ~OnItsWay) /\ Sends
  /\ LET turns == Append(page.turns, Turn("user"))
     IN  IF kind = "change"
         THEN /\ Shows([page EXCEPT !.turns = Append(turns, Turn("analyzing"))])
              /\ flows' = [flows EXCEPT ![Free] = [NoFlow EXCEPT !.at = "impact", !.conv = active]]
         ELSE /\ Shows(Begun(page, Free, turns))
              /\ flows' = [flows EXCEPT ![Free] = Asks(kind, active)]
  /\ UNCHANGED <<active, jobs>>

\* The analysis is shown for a decision, or its placeholder is dropped and the message
\* answered: dropped once if it failed, and twice - the message goes with it - if it
\* found nothing affected.
ImpactAnswers(f) ==
  /\ flows[f].at = "impact"
  /\ LET without(n) == SubSeq(page.turns, 1, Len(page.turns) - n)
     IN  \/ /\ Shows(Sees(f, [page EXCEPT !.turns = Append(without(1), Turn("card"))]))
            /\ flows' = [flows EXCEPT ![f] = NoFlow]
         \/ \E n \in 1 .. 2 :
            /\ Shows(Sees(f, Begun(page, f, without(n))))
            /\ flows' = [flows EXCEPT ![f] = [Asks("task", @.conv) EXCEPT !.zombie = flows[f].zombie]]
  /\ UNCHANGED <<active, jobs, spent>>

Decided(i) == [page.turns EXCEPT ![i].by = "weighed"]
ProceedImpact(i) ==
  /\ page.mounted /\ Settled /\ FreeFlows # {} /\ (Careful => Idle /\ ~OnItsWay)
  /\ page.turns[i].by = "card" /\ Sends
  /\ Shows(Begun(page, Free, Decided(i)))
  /\ flows' = [flows EXCEPT ![Free] = Asks("task", active)]
  /\ UNCHANGED <<active, jobs>>
CancelImpact(i) ==
  /\ page.mounted /\ Settled /\ (Careful => Idle)
  /\ page.turns[i].by = "card"
  /\ Shows([page EXCEPT !.turns = Append(Decided(i), Turn("held"))])
  /\ UNCHANGED <<active, flows, jobs, spent>>

RetryFrom(i) ==
  /\ Idle /\ (Careful => ~OnItsWay) /\ Sends
  /\ page.turns[i].failed # "no"
  /\ Shows(Begun(page, Free, SubSeq(page.turns, 1, i - 1)))
  /\ flows' = [flows EXCEPT ![Free] = Asks("task", active)]
  /\ UNCHANGED <<active, jobs>>

ContinueJob(i) ==
  /\ Idle /\ (Careful => ~OnItsWay) /\ Sends
  /\ page.turns[i].failed = "error" /\ page.turns[i].job # 0
  /\ Shows([page EXCEPT !.turns = [@ EXCEPT ![i] = Reply], !.streaming = TRUE, !.ctl = Free,
                        !.job = page.turns[i].job])
  /\ flows' = [flows EXCEPT ![Free] = [NoFlow EXCEPT !.at = "continuing", !.kind = "continue",
                                                     !.conv = active, !.job = page.turns[i].job]]
  /\ UNCHANGED <<active, jobs>>

Stop ==
  /\ page.mounted /\ page.streaming /\ MayLeave
  /\ jobs' = IF page.job = 0 THEN jobs ELSE [jobs EXCEPT ![page.job].cancelled = TRUE]
  /\ flows' = Aborts(flows, page.ctl)
  /\ Shows([page EXCEPT !.streaming = FALSE])
  /\ UNCHANGED <<active, spent>>

\* Wrong: the stream of the conversation left behind goes on
StreamGoesOn(fl) == fl
\* abortActiveStream
AbortsStream(fl) == Aborts(fl, page.ctl)

\* selectConversation and startNewChat; React renders once for both changes.
Select(c) ==
  /\ page.mounted /\ MayLeave /\ Visits /\ FreeFlows # {}
  /\ c # active /\ store[c].here /\ (Careful /\ page.streaming => store[c].pending = 0)
  /\ Opens(store, c, Rests(page), CleansUp(AbortsStream(flows)))
  /\ UNCHANGED jobs
NewChat(c) ==
  /\ page.mounted /\ MayLeave /\ Visits
  /\ ~store[c].here
  /\ Opens([store EXCEPT ![c] = [here |-> TRUE, turns |-> <<>>, pending |-> 0]], c, Rests(page),
           CleansUp(AbortsStream(flows)))
  /\ UNCHANGED jobs

\* The list removes a conversation; if it was in view the next one takes its place.
Delete(c) ==
  /\ page.mounted /\ MayLeave /\ Visits /\ FreeFlows # {}
  /\ store[c].here /\ (Careful => ~page.streaming)
  /\ LET st   == [store EXCEPT ![c] = [here |-> FALSE, turns |-> <<>>, pending |-> 0]]
         left == { d \in Convs : st[d].here }
     IN  IF c # active THEN store' = st /\ UNCHANGED <<active, page, flows>>
         ELSE Opens(st, IF left = {} THEN None ELSE CHOOSE d \in left : TRUE, page, CleansUp(flows))
  /\ UNCHANGED jobs

\* Another page of the workspace: what the reader sees is stored, also in mid-stream,
\* and the functions of the page that still run act on a page nobody sees.
Leave ==
  /\ page.mounted /\ MayLeave /\ Visits
  /\ store' = IF active # None /\ store[active].here /\ page.turns # <<>>
              THEN [store EXCEPT ![active].turns = Clean(page.turns)] ELSE store
  /\ LET fl == CleansUp(Aborts(flows, page.ctl))
     IN  flows' = [f \in Flows |-> [fl[f] EXCEPT !.zombie = fl[f].at # "none"]]
  /\ page' = [Blank EXCEPT !.mounted = FALSE]
  /\ UNCHANGED <<active, jobs>>

\* ensureActive gives a page without a conversation a new one.
Return(st, fl) ==
  LET fresh == CHOOSE c \in Convs : ~st[c].here
      lost  == active = None \/ ~st[active].here
  IN  Opens(IF lost THEN [st EXCEPT ![fresh].here = TRUE] ELSE st, IF lost THEN fresh ELSE active, Blank, fl)
Mount == ~page.mounted /\ FreeFlows # {} /\ Return(store, flows) /\ UNCHANGED <<jobs, spent>>
Reload == MayLeave /\ Visits /\ Return(store, [f \in Flows |-> NoFlow]) /\ UNCHANGED jobs

-----------------------------------------------------------------------------
(* The functions of the page between two awaits *)

Finishes(f) == flows' = [flows EXCEPT ![f] = NoFlow]

\* The context of the message is built first; an abort that is heard then leaves no job.
\* startAgentJob: the job is linked and tracked also if the reader has left meanwhile.
JobStarts(f) ==
  /\ flows[f].at = "starting"
  /\ LET j == Len(jobs) + 1  c == flows[f].conv
         p == Sees(f, [page EXCEPT !.job = j])
     IN  \E heard \in {FALSE, flows[f].aborted} :
           IF heard THEN Finishes(f) /\ UNCHANGED <<store, page, jobs>>
           ELSE /\ jobs' = Append(jobs, [conv |-> c, log |-> <<>>, base |-> 0, over |-> FALSE, cancelled |-> FALSE])
                /\ page' = p /\ store' = Persisted(Linked(store, c, j), active, p)
                /\ flows' = [flows EXCEPT ![f] = IF @.aborted THEN NoFlow
                               ELSE [NoFlow EXCEPT !.at = "reading", !.kind = "complete", !.conv = c, !.job = j,
                                                   !.zombie = flows[f].zombie]]
  /\ UNCHANGED <<active, spent>>
StartFails(f) ==
  /\ flows[f].at = "starting"
  /\ Shows(Sees(f, [page EXCEPT !.streaming = FALSE, !.ctl = 0,
                                !.turns = IF flows[f].aborted \/ @ = <<>> THEN @ ELSE Failed(@, "request", page.job)]))
  /\ Finishes(f)
  /\ UNCHANGED <<active, jobs, spent>>

\* A message without tools: one stream, with neither job nor link.
PlainEnds(f) ==
  /\ flows[f].at = "plain"
  /\ Shows(Sees(f, [page EXCEPT !.streaming = FALSE, !.ctl = 0]))
  /\ Finishes(f)
  /\ UNCHANGED <<active, jobs, spent>>

Continued(f) ==
  /\ flows[f].at = "continuing"
  /\ LET j == flows[f].job
     IN  IF jobs[j].over /\ Last(jobs[j].log) = "error"
         THEN /\ jobs' = [jobs EXCEPT ![j].base = Len(jobs[j].log), ![j].over = FALSE]
              /\ store' = Persisted(Linked(store, flows[f].conv, j), active, page)
              /\ flows' = [flows EXCEPT ![f].at = "reading", ![f].read = Len(jobs[j].log)]
              /\ UNCHANGED page
         ELSE /\ Shows(Sees(f, Rests([page EXCEPT !.turns = IF flows[f].aborted THEN @ ELSE Failed(@, "request", j)])))
              /\ Finishes(f)
              /\ UNCHANGED jobs
  /\ UNCHANGED <<active, spent>>

\* One event of the log
Reading(f) == flows[f].at = "reading" /\ ~flows[f].aborted
ReadsEvent(f) ==
  /\ Reading(f) /\ flows[f].read < Len(jobs[flows[f].job].log)
  /\ LET j == flows[f].job  i == flows[f].read + 1  e == jobs[j].log[i]
     IN  /\ flows' = [flows EXCEPT ![f].read = i, ![f].final = @ \/ e \in {"error", "done"}]
         /\ Shows(Sees(f, [page EXCEPT !.turns = CASE e = "text"  -> TellText(@, <<j, i>>)
                                                   [] e = "error" -> Failed(@, "error", page.job)
                                                   [] e = "done"  -> @]))
  /\ UNCHANGED <<active, jobs, spent>>

\* Wrong: the server waits for a "done", which a failed job never writes
WaitsForDone(f) == ~Contains(jobs[flows[f].job].log, "done")
\* The server ends a stream that has caught up once the job's status is final.
Lasts(f) == flows[f].read < Len(jobs[flows[f].job].log) \/ ~jobs[flows[f].job].over
\* How a subscription ends for its caller: a close counts as the job's end only if a
\* final event has been seen, otherwise the connection has gone away.
\* Wrong: any clean close is taken for the end
AnyCloseEnds(f) == "ended"
Closed(f) == IF flows[f].final THEN "ended" ELSE "network"

Unlinks(f) == Linked(store, flows[f].conv, 0)
Over(f, st, p) ==
  /\ page' = Sees(f, p) /\ store' = Persisted(st, active, page') /\ Finishes(f)

AttachEnds(f, how) ==
  CASE how = "ended"   -> Over(f, Unlinks(f), Rests(page))
    [] how = "aborted" -> Over(f, store, page)
    [] how = "network" ->
         IF flows[f].tries < MaxTries
         THEN /\ Shows(Sees(f, [page EXCEPT !.turns = Reset(@)]))
              /\ flows' = [flows EXCEPT ![f].at = "retry", ![f].tries = @ + 1]
         ELSE Over(f, store, Rests([page EXCEPT !.turns = Failed(@, "lost", flows[f].job)]))
CompleteEnds(f, how) ==
  IF how = "network"
  THEN /\ Shows(Sees(f, Attached(page, f, flows[f].job)))
       /\ flows' = [flows EXCEPT ![f] = [Follows("attach", @.conv, @.job) EXCEPT !.zombie = flows[f].zombie]]
  ELSE Over(f, IF how = "aborted" THEN store ELSE Unlinks(f), Rests(page))
ContinueEnds(f, how) == Over(f, IF how = "aborted" THEN store ELSE Unlinks(f), Rests(page))

SubscriptionEnds(f, how) ==
  /\ CASE flows[f].kind = "attach" -> AttachEnds(f, how)
       [] flows[f].kind = "complete" -> CompleteEnds(f, how)
       [] flows[f].kind = "continue" -> ContinueEnds(f, how)
  /\ UNCHANGED <<active, jobs>>

Closes(f) == Reading(f) /\ ~Lasts(f) /\ SubscriptionEnds(f, Closed(f)) /\ UNCHANGED spent
Drops(f) ==
  /\ Reading(f) /\ Spends("drops", MaxDrops)
  /\ SubscriptionEnds(f, "network") \/ SubscriptionEnds(f, Closed(f))
AbortSeen(f) ==
  /\ flows[f].at = "reading" /\ flows[f].aborted
  /\ SubscriptionEnds(f, "aborted") /\ UNCHANGED spent

\* After the pause between two attempts
Reconnects(f) ==
  /\ flows[f].at = "retry"
  /\ IF flows[f].aborted THEN Finishes(f) /\ UNCHANGED <<store, page>>
     ELSE /\ Shows(Sees(f, [page EXCEPT !.turns = Reset(@)]))
          /\ flows' = [flows EXCEPT ![f].at = "reading", ![f].read = Base(flows[f].job), ![f].final = FALSE]
  /\ UNCHANGED <<active, jobs, spent>>

Await(f) == \/ ImpactAnswers(f) \/ JobStarts(f) \/ StartFails(f) \/ PlainEnds(f)
            \/ Continued(f) \/ ReadsEvent(f) \/ Closes(f) \/ AbortSeen(f) \/ Reconnects(f)

-----------------------------------------------------------------------------
(* The backend's job: events, an error it may continue from on its own, an end. *)

Writes(j, e, over) == jobs' = [jobs EXCEPT ![j].log = Append(@, e), ![j].over = over]
Goes(j) == ~jobs[j].over /\ UNCHANGED <<store, active, page, flows>>
Told == UNION { {<<j, i>> : i \in { k \in DOMAIN jobs[j].log : jobs[j].log[k] = "text" }} : j \in DOMAIN jobs }
Room(j) == Cardinality(Told) < MaxEvents /\ ~jobs[j].cancelled
JobWorks(j) == Goes(j) /\ UNCHANGED spent /\ ((Room(j) /\ Writes(j, "text", FALSE)) \/ Writes(j, "done", TRUE))
JobErrs(j) ==
  /\ Goes(j) /\ ~jobs[j].cancelled /\ Spends("errors", MaxErrors)
  /\ \E over \in BOOLEAN : Writes(j, "error", over)

-----------------------------------------------------------------------------

ReaderActs ==
  \/ \E kind \in {"change", "task", "plain"} : Send(kind)
  \/ \E i \in DOMAIN page.turns : ProceedImpact(i) \/ CancelImpact(i) \/ RetryFrom(i) \/ ContinueJob(i)
  \/ \E c \in Convs : Select(c) \/ NewChat(c) \/ Delete(c)
  \/ Stop \/ Leave \/ Mount \/ Reload

ChatNext == \/ ReaderActs
        \/ \E f \in Flows : Await(f) \/ Drops(f)
        \/ \E j \in DOMAIN jobs : JobWorks(j) \/ JobErrs(j)

\* Promises settle, a connected stream delivers, and a job works on; nobody has to click.
ChatSpec == /\ ChatInit /\ [][ChatNext]_chatVars
            /\ \A f \in Flows : WF_chatVars(Await(f))
            /\ \A j \in 1 .. MaxSends : WF_chatVars(j \in DOMAIN jobs /\ JobWorks(j))

-----------------------------------------------------------------------------

\* The events a sequence of turns shows; the k-th of turn i precedes the l-th of turn h
\* if its turn does, or it does in the same turn.
Shown(turns) == UNION { ToSet(turns[i].shown) : i \in DOMAIN turns }
InOrder(turns, j) ==
  \A i, h \in DOMAIN turns : \A k \in DOMAIN turns[i].shown, l \in DOMAIN turns[h].shown :
    LET e == turns[i].shown[k]  d == turns[h].shown[l]
    IN  (e[1] = j /\ d[1] = j /\ (i < h \/ (i = h /\ k < l))) => e[2] < d[2]
FromTheFirst(turns, j) == \A e \in Shown(turns) : (e[1] = j /\ e[2] > 1) => <<j, e[2] - 1>> \in Shown(turns)
AllShown(turns, j) == \A i \in DOMAIN jobs[j].log : jobs[j].log[i] = "text" => <<j, i>> \in Shown(turns)
Unbroken(j) == ~Contains(jobs[j].log, "error")

\* What a job does is told where it was asked for, and as it happened: a conversation
\* shows events only of its own jobs, and of a job that was not stopped each one once
\* and in order - and from the first on, if it met no error - over switches, returns,
\* reloads and reconnections that replay the log.
\* (page.tsx, abortActiveStream, attachToJob)
TurnsTellTheirJobs ==
  \A c \in Convs :
    LET turns == IF c = active /\ page.mounted THEN page.turns ELSE store[c].turns
    IN  \A j \in DOMAIN jobs :
          /\ (\E e \in Shown(turns) : e[1] = j) => jobs[j].conv = c
          /\ ~jobs[j].cancelled => InOrder(turns, j) /\ (Unbroken(j) => FromTheFirst(turns, j))

\* A conversation loses its link to a job that has met no error only when the page in
\* view has shown all the job wrote and the job is over, or when the reader gives it to
\* another job, or deletes it.  (page.tsx, attachToJob, the effect on unmount; api.ts, sawFinal)
LinkedUntilShown ==
  [][\A c \in Convs : LET j == store[c].pending IN
       (j # 0 /\ store'[c].pending # j /\ Unbroken(j)) =>
         \/ store'[c].pending # 0
         \/ ~store'[c].here
         \/ jobs[j].over /\ active = c /\ page.mounted /\ AllShown(page.turns, j)]_chatVars

\* Who follows a job comes to its end: everything shown, or told that the connection is
\* lost, unless the reader leaves or stops first.
FollowingEnds ==
  \A f \in Flows : (flows[f].at # "none") ~> (flows[f].at = "none")

=============================================================================
