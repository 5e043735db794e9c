--------------------------- MODULE BrowserSession ---------------------------
(***************************************************************************)
(* The one headless browser behind the browser tools                       *)
(* (backend/agents/browser_session.py): callers on pool threads, the       *)
(* browser thread they start under a lock, and the queue of commands       *)
(* between them.  A browser and a page are named by the thread that        *)
(* created them, since Playwright's objects work on no other.              *)
(***************************************************************************)
EXTENDS Naturals, Sequences, FiniteSets

CONSTANTS
  Callers, Threads,   \* the threads the session may start, one after another
  Nobody,             \* None: no thread, page, browser or command
  RunsOut,            \* the waits that may run out: "join" (5 s), "ready" (45 s), "command"
  MaxCalls            \* bound: operations asked for

VARIABLES
  lock,               \* the caller that holds _lock
  thread, page, browser, ready, startError,   \* the session's attributes
  cmds,               \* the queue: a caller's command, or the sentinel "stop"
  life,               \* what each browser thread is doing
  open,               \* the threads whose browser process is running
  running,            \* what each thread runs: [for, page]
  at,                 \* where each caller is in run()
  calls

vars == <<lock, thread, page, browser, ready, startError, cmds, life, open, running, at, calls>>

Stop == "stop"
Idle == [for |-> Nobody, page |-> Nobody]

TypeOK ==
  /\ lock \in Callers \cup {Nobody}
  /\ {thread, page, browser} \subseteq Threads \cup {Nobody}
  /\ ready \in BOOLEAN /\ startError \in BOOLEAN
  /\ \A i \in DOMAIN cmds : cmds[i] \in Callers \cup {Stop}
  /\ life \in [Threads -> {"new", "launching", "paging", "serving", "closing", "dead"}]
  /\ open \subseteq Threads
  /\ at \in [Callers -> {"idle", "ensure", "joining", "ready", "put", "wait"}]
  /\ calls \in 0 .. MaxCalls

Init ==
  /\ lock = Nobody /\ thread = Nobody /\ page = Nobody /\ browser = Nobody
  /\ ready = FALSE /\ startError = FALSE
  /\ cmds = <<>>
  /\ life = [t \in Threads |-> "new"] /\ open = {} /\ running = [t \in Threads |-> Idle]
  /\ at = [c \in Callers |-> "idle"] /\ calls = 0

IsAlive(t) == t # Nobody /\ life[t] \notin {"new", "dead"}

Goto(c, s) == at' = [at EXCEPT ![c] = s]
Live(t, s) == life' = [life EXCEPT ![t] = s]

-----------------------------------------------------------------------------
(* A caller: SESSION.run(fn).                                              *)

Run(c) ==
  /\ at[c] = "idle" /\ calls < MaxCalls /\ calls' = calls + 1
  /\ Goto(c, "ensure")
  /\ UNCHANGED <<lock, thread, page, browser, ready, startError, cmds, life, open, running>>

\* The rest of _ensure under the lock: a thread of its own for a new browser.
StartThread(c) ==
  \E t \in Threads :
    /\ life[t] = "new" /\ Live(t, "launching")
    /\ thread' = t /\ ready' = FALSE /\ startError' = FALSE
    /\ lock' = Nobody /\ Goto(c, "ready")

\* A thread without a page has either crashed or is still launching one.
Ensure(c) ==
  /\ at[c] = "ensure" /\ lock = Nobody
  /\ \/ /\ IsAlive(thread) /\ page # Nobody
        /\ Goto(c, IF startError THEN "idle" ELSE "put")
        /\ UNCHANGED <<lock, thread, page, browser, ready, startError, cmds, life>>
     \/ /\ IsAlive(thread) /\ page = Nobody
        /\ lock' = c /\ cmds' = Append(cmds, Stop) /\ Goto(c, "joining")
        /\ UNCHANGED <<thread, page, browser, ready, startError, life>>
     \/ /\ ~IsAlive(thread)
        /\ StartThread(c)
        /\ UNCHANGED <<page, browser, cmds>>
  /\ UNCHANGED <<open, running, calls>>

\* _shutdown_locked joins for five seconds, dead or not, and forgets the thread.
Joined(c) ==
  /\ at[c] = "joining" /\ (~IsAlive(thread) \/ "join" \in RunsOut)
  /\ page' = Nobody /\ browser' = Nobody
  /\ StartThread(c)
  /\ UNCHANGED <<cmds, open, running, calls>>

\* _ready is set, or 45 seconds are over, which _ensure does not tell apart.
WaitReady(c) ==
  /\ at[c] = "ready" /\ (ready \/ "ready" \in RunsOut)
  /\ Goto(c, IF startError THEN "idle" ELSE "put")
  /\ UNCHANGED <<lock, thread, page, browser, ready, startError, cmds, life, open, running, calls>>

Put(c) ==
  /\ at[c] = "put"
  /\ cmds' = Append(cmds, c) /\ Goto(c, "wait")
  /\ UNCHANGED <<lock, thread, page, browser, ready, startError, life, open, running, calls>>

\* The command is left where it is: in the queue or under way.
TimesOut(c) ==
  /\ at[c] = "wait" /\ "command" \in RunsOut
  /\ Goto(c, "idle")
  /\ UNCHANGED <<lock, thread, page, browser, ready, startError, cmds, life, open, running, calls>>

-----------------------------------------------------------------------------
(* A browser thread: _run.                                                 *)

Launch(t) ==
  /\ life[t] = "launching"
  /\ browser' = t /\ open' = open \cup {t} /\ Live(t, "paging")
  /\ UNCHANGED <<lock, thread, page, ready, startError, cmds, running, at, calls>>

\* new_page goes through the attribute, which may hold another thread's browser.
NewPage(t) ==
  /\ life[t] = "paging" /\ ready' = TRUE
  /\ IF browser = t THEN page' = t /\ Live(t, "serving") /\ UNCHANGED startError
                    ELSE startError' = TRUE /\ Live(t, "dead") /\ UNCHANGED page
  /\ UNCHANGED <<lock, thread, browser, cmds, open, running, at, calls>>

\* A browser that gives no page is left running.
LaunchFails(t) ==
  /\ life[t] \in {"launching", "paging"} /\ ready' = TRUE /\ startError' = TRUE /\ Live(t, "dead")
  /\ UNCHANGED <<lock, thread, page, browser, cmds, open, running, at, calls>>

\* The command gets whatever page the session has when it is taken.
Take(t) ==
  /\ life[t] = "serving" /\ running[t] = Idle /\ cmds # <<>>
  /\ cmds' = Tail(cmds)
  /\ IF Head(cmds) = Stop THEN Live(t, "closing") /\ UNCHANGED running
     ELSE running' = [running EXCEPT ![t] = [for |-> Head(cmds), page |-> page]] /\ UNCHANGED life
  /\ UNCHANGED <<lock, thread, page, browser, ready, startError, open, at, calls>>

\* done is set: the caller, if it still waits, has its result or its exception.
Finish(t) ==
  /\ running[t] # Idle
  /\ running' = [running EXCEPT ![t] = Idle]
  /\ at' = [at EXCEPT ![running[t].for] = IF @ = "wait" THEN "idle" ELSE @]
  /\ UNCHANGED <<lock, thread, page, browser, ready, startError, cmds, life, open, calls>>

\* Closing another thread's browser fails and is ignored; the attributes go.
Close(t) ==
  /\ life[t] = "closing" /\ Live(t, "dead")
  /\ open' = IF browser = t THEN open \ {t} ELSE open
  /\ page' = Nobody /\ browser' = Nobody
  /\ UNCHANGED <<lock, thread, ready, startError, cmds, running, at, calls>>

Next ==
  \/ \E c \in Callers : Run(c) \/ Ensure(c) \/ Joined(c) \/ WaitReady(c) \/ Put(c) \/ TimesOut(c)
  \/ \E t \in Threads : Launch(t) \/ NewPage(t) \/ LaunchFails(t) \/ Take(t) \/ Finish(t) \/ Close(t)

Spec == Init /\ [][Next]_vars

-----------------------------------------------------------------------------
\* Every operation runs on the thread that owns the page it is given: "marshal
\* every operation onto that one thread" (the module's docstring).
RunsOnItsOwnPage == \A t \in Threads : running[t] # Idle => running[t].page = t

\* "This module owns exactly one long-lived browser": no thread serves commands
\* that the session no longer knows.
OneBrowser == \A t \in Threads : life[t] = "serving" => thread = t

=============================================================================
