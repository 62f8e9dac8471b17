----------------------------- MODULE Supervisor -----------------------------
(***************************************************************************)
(* The scheduler loop: every tick it asks each job whether it is due and   *)
(* gives the due ones a turn, one after the other.  A turn opens an MCP    *)
(* session (with retries), builds an agent, runs it and closes the session.*)
(* Time is counted in ticks of TICK_SECONDS.  Durations matter only up to  *)
(* a job's interval, so the clocks stop there.                             *)
(***************************************************************************)
EXTENDS Naturals, Sequences

CONSTANTS
    Order,          \* the jobs in the order of the list the loop walks
    Interval,       \* Interval[j]: interval_seconds, in ticks
    Rotation,       \* Rotation[j]: categories, queries or sources j cycles over
    FireOnStartup,  \* fire_on_startup
    MaxAttempts,    \* attempts to open a session (5)
    Faults          \* what may go wrong: see the actions

Jobs == {Order[i] : i \in 1 .. Len(Order)}

ASSUME SupervisorAssumption ==
    /\ Order \in Seq(Jobs)
    /\ \A i, k \in 1 .. Len(Order) : Order[i] = Order[k] => i = k
    /\ Interval \in [Jobs -> Nat \ {0}]
    /\ Rotation \in [Jobs -> Nat \ {0}]
    /\ FireOnStartup \in BOOLEAN
    /\ MaxAttempts \in Nat \ {0}

VARIABLES
    phase,     \* where the loop is
    position,  \* the job of the list it looks at
    since,     \* since[j]: ticks from last_run_at to now, up to Interval[j]
    ago,       \* history: ticks since j last ran, which no restart forgets
    due,       \* the jobs that are due at the tick's now
    attempts,  \* failures this session has counted
    yielded,   \* the session has been handed to the body
    started,   \* agent.run calls in this turn
    counted,   \* increments of runs_completed and runs_failed in this turn
    cursor,    \* cursor[j]: j's round-robin index, modulo Rotation[j]
    shutdown   \* request_shutdown was called

times == <<since, ago>>
clock == <<times, due>>
turn == <<attempts, yielded, started, counted>>
vars == <<phase, position, since, ago, due, attempts, yielded, started, counted,
          cursor, shutdown>>

Phases == {"loop", "scan", "connect", "backoff", "build", "run", "leave",
           "sleep", "exited"}

TypeOK ==
    /\ phase \in Phases
    /\ position \in 1 .. Len(Order) + 1
    /\ since \in [Jobs -> Nat]
    /\ ago \in [Jobs -> Nat]
    /\ \A j \in Jobs : since[j] <= Interval[j] /\ ago[j] <= Interval[j]
    /\ due \subseteq Jobs
    /\ attempts \in 0 .. MaxAttempts
    /\ yielded \in BOOLEAN
    /\ started \in Nat
    /\ counted \in Nat
    /\ cursor \in [Jobs -> Nat]
    /\ \A j \in Jobs : cursor[j] < Rotation[j]
    /\ shutdown \in BOOLEAN

\* Variant of AtStart: whoever restarts runs, whatever the setting.
DueAtStart == [j \in Jobs |-> Interval[j]]

\* last_run_at is 0.0, the mark of a job that never ran, or the start time.
AtStart == [j \in Jobs |-> IF FireOnStartup THEN Interval[j] ELSE 0]

Init ==
    /\ phase = "loop"
    /\ position = 1
    /\ since = AtStart
    /\ ago = [j \in Jobs |-> Interval[j]]
    /\ due = {}
    /\ attempts = 0
    /\ yielded = FALSE
    /\ started = 0
    /\ counted = 0
    /\ cursor = [j \in Jobs |-> 0]
    /\ shutdown = FALSE

Current == Order[position]

-----------------------------------------------------------------------------
(* The loop                                                                *)

IsDue(j) == since[j] >= Interval[j]

\* Variant of StartTick: while True.
StartTickAnyway ==
    /\ phase = "loop"
    /\ due' = {j \in Jobs : IsDue(j)}
    /\ position' = 1
    /\ phase' = "scan"
    /\ UNCHANGED <<times, turn, cursor, shutdown>>

\* while not shutdown: now = monotonic().  A job's last_run_at changes only in
\* its own turn, so who is due at that now is settled here.
StartTick ==
    /\ phase = "loop"
    /\ ~shutdown
    /\ due' = {j \in Jobs : IsDue(j)}
    /\ position' = 1
    /\ phase' = "scan"
    /\ UNCHANGED <<times, turn, cursor, shutdown>>

ExitLoop ==
    /\ phase = "loop"
    /\ shutdown
    /\ phase' = "exited"
    /\ UNCHANGED <<position, clock, turn, cursor, shutdown>>

SkipJob ==
    /\ phase = "scan"
    /\ position <= Len(Order)
    /\ Current \notin due
    /\ position' = position + 1
    /\ UNCHANGED <<phase, clock, turn, cursor, shutdown>>

BeginTurn ==
    /\ phase = "scan"
    /\ position <= Len(Order)
    /\ Current \in due
    /\ phase' = "connect"
    /\ attempts' = 0
    /\ yielded' = FALSE
    /\ started' = 0
    /\ counted' = 0
    /\ UNCHANGED <<position, clock, cursor, shutdown>>

EndTick ==
    /\ phase = "scan"
    /\ position > Len(Order)
    /\ phase' = "sleep"
    /\ UNCHANGED <<position, clock, turn, cursor, shutdown>>

Later(j, ticks) == IF ticks < Interval[j] THEN ticks + 1 ELSE ticks

OneTickLater ==
    /\ since' = [j \in Jobs |-> Later(j, since[j])]
    /\ ago' = [j \in Jobs |-> Later(j, ago[j])]

\* wait_for(shutdown.wait(), timeout=TICK_SECONDS) times out.
SleepOver ==
    /\ phase = "sleep"
    /\ OneTickLater
    /\ phase' = "loop"
    /\ UNCHANGED <<position, due, turn, cursor, shutdown>>

WokenByShutdown ==
    /\ phase = "sleep"
    /\ shutdown
    /\ phase' = "loop"
    /\ UNCHANGED <<position, clock, turn, cursor, shutdown>>

\* Time also passes inside a turn: an agent or a backoff takes ticks.
TurnDrags ==
    /\ "slow" \in Faults
    /\ phase \in {"run", "backoff"}
    /\ OneTickLater
    /\ UNCHANGED <<phase, position, due, turn, cursor, shutdown>>

\* The process is killed.  Docker starts it anew unless it was told to stop it;
\* last_run_at and the round-robin indices were in memory only.
Killed ==
    /\ "kill" \in Faults
    /\ phase # "exited"
    /\ \/ /\ shutdown
          /\ phase' = "exited"
          /\ UNCHANGED <<position, clock, turn, cursor>>
       \/ /\ ~shutdown
          /\ phase' = "loop"
          /\ position' = 1
          /\ since' = AtStart
          /\ due' = {}
          /\ attempts' = 0
          /\ yielded' = FALSE
          /\ started' = 0
          /\ counted' = 0
          /\ cursor' = [j \in Jobs |-> 0]
          /\ UNCHANGED ago
    /\ UNCHANGED shutdown

RequestShutdown ==
    /\ ~shutdown
    /\ shutdown' = TRUE
    /\ UNCHANGED <<phase, position, clock, turn, cursor>>

-----------------------------------------------------------------------------
(* A turn                                                                  *)

\* last_run_at = monotonic(), whether or not anything ran.
EndTurn ==
    /\ since' = [since EXCEPT ![Current] = 0]
    /\ ago' = [ago EXCEPT ![Current] = 0]
    /\ position' = position + 1
    /\ phase' = "scan"

\* Variant of Connected: every attempt that connects runs the body.
BodyAgain ==
    /\ phase = "connect"
    /\ yielded' = TRUE
    /\ phase' = "build"
    /\ UNCHANGED <<position, clock, attempts, started, counted, cursor, shutdown>>

\* The session is open: its generator yields, and _run_job starts.  After an
\* exception came back into the generator a second yield is an error of
\* contextlib ("generator didn't stop"), which _tick logs.
Connected ==
    /\ phase = "connect"
    /\ \/ /\ ~yielded
          /\ yielded' = TRUE
          /\ phase' = "build"
          /\ UNCHANGED <<position, times>>
       \/ /\ yielded
          /\ EndTurn
          /\ UNCHANGED yielded
    /\ UNCHANGED <<due, attempts, started, counted, cursor, shutdown>>

\* Variant of SessionRaises: _tick does not catch the last failure.
SessionKillsLoop ==
    /\ attempts' = attempts + 1
    /\ phase' = IF attempts + 1 >= MaxAttempts THEN "exited" ELSE "backoff"
    /\ UNCHANGED <<position, times>>

\* Variant of SessionRaises: attempts are not limited.
SessionNeverGivesUp ==
    /\ attempts' = attempts + 1
    /\ phase' = "backoff"
    /\ UNCHANGED <<position, times>>

\* The except clause around connect, list_tools, body and close.
SessionRaises ==
    /\ attempts' = attempts + 1
    /\ \/ /\ attempts + 1 >= MaxAttempts
          /\ EndTurn
       \/ /\ attempts + 1 < MaxAttempts
          /\ phase' = "backoff"
          /\ UNCHANGED <<position, times>>

ConnectFails ==
    /\ "connect" \in Faults
    /\ phase = "connect"
    /\ SessionRaises
    /\ UNCHANGED <<due, yielded, started, counted, cursor, shutdown>>

BackoffOver ==
    /\ phase = "backoff"
    /\ phase' = "connect"
    /\ UNCHANGED <<position, clock, turn, cursor, shutdown>>

\* Variant of NextCursor: the index moves by two.
SkippingCursor(j) == (cursor[j] + 2) % Rotation[j]

NextCursor(j) == (cursor[j] + 1) % Rotation[j]

\* The factory picks the next category, query or source, then constructs.
BuildAgent ==
    /\ phase = "build"
    /\ cursor' = [cursor EXCEPT ![Current] = NextCursor(Current)]
    /\ started' = started + 1
    /\ ago' = [ago EXCEPT ![Current] = 0]
    /\ phase' = "run"
    /\ UNCHANGED <<position, since, due, attempts, yielded, counted, shutdown>>

\* A constructor that raises does so outside _run_job's inner try.
FactoryRaises ==
    /\ "factory" \in Faults
    /\ phase = "build"
    /\ cursor' = [cursor EXCEPT ![Current] = NextCursor(Current)]
    /\ SessionRaises
    /\ UNCHANGED <<due, yielded, started, counted, shutdown>>

AgentReturns ==
    /\ phase = "run"
    /\ counted' = counted + 1
    /\ phase' = "leave"
    /\ UNCHANGED <<position, clock, attempts, yielded, started, cursor, shutdown>>

AgentRaises ==
    /\ "agent" \in Faults
    /\ phase = "run"
    /\ counted' = counted + 1
    /\ phase' = "leave"
    /\ UNCHANGED <<position, clock, attempts, yielded, started, cursor, shutdown>>

SessionCloses ==
    /\ phase = "leave"
    /\ EndTurn
    /\ UNCHANGED <<due, turn, cursor, shutdown>>

\* Closing the client raises after the body is through.
CloseFails ==
    /\ "close" \in Faults
    /\ phase = "leave"
    /\ SessionRaises
    /\ UNCHANGED <<due, yielded, started, counted, cursor, shutdown>>

-----------------------------------------------------------------------------

Loop == StartTick \/ ExitLoop \/ SkipJob \/ BeginTurn \/ EndTick

Turn ==
    \/ Connected \/ BackoffOver \/ BuildAgent
    \/ AgentReturns \/ AgentRaises \/ SessionCloses

Trouble == ConnectFails \/ FactoryRaises \/ CloseFails \/ TurnDrags \/ Killed

Next ==
    Loop \/ SleepOver \/ WokenByShutdown \/ Turn \/ Trouble \/ RequestShutdown

Spec == Init /\ [][Next]_vars

\* The event loop runs what is ready, the sleep ends, and an agent's run
\* returns or raises: its HTTP calls have time limits.  The API is not down
\* every time a given job opens its session.
FairSpec ==
    /\ Spec
    /\ WF_vars(Loop) /\ WF_vars(SleepOver) /\ WF_vars(Turn)
    /\ \A j \in Jobs : SF_vars(Connected /\ Current = j)

-----------------------------------------------------------------------------
(* Properties                                                              *)

\* The retry loop of the session wraps the body it yields to: still a turn
\* runs its agent at most once and counts a run that was made exactly once,
\* also when the connection or the close fails.
OneRunPerTurn ==
    /\ started <= 1
    /\ counted <= started
    /\ phase \in {"leave", "scan", "sleep"} => counted = started

\* A job's agent starts only when a whole interval has passed since it last
\* ran, although other turns and ticks come in between and a restart forgets
\* when that was: without fire_on_startup a restarted supervisor waits.
Spaced ==
    [][~FireOnStartup /\ phase = "build" /\ phase' = "run"
            => ago[Current] >= Interval[Current]]_vars

\* However long other jobs take and however often sessions fail, every job
\* gets its next turn unless the supervisor is told to stop or is killed
\* again and again: each restart postpones every job by its whole interval.
EveryJobGetsTurns ==
    \/ []<><<Killed>>_vars
    \/ \A j \in Jobs : []<>(shutdown \/ (phase = "connect" /\ Current = j))

\* The rotation reaches every category, query or source of a job, where it builds
\* an agent for it or the factory raises, again and again: sessions and factories that fail do not make the rotation skip one
\* for good, nor does a restart, which begins the rotation again, unless
\* restarts never end.
EverySourceVisited ==
    \/ []<><<Killed>>_vars
    \/ \A j \in Jobs : \A i \in 0 .. Rotation[j] - 1 :
            []<>(shutdown \/ (phase = "build" /\ Current = j /\ cursor[j] = i))

\* SIGTERM ends the process, whatever it interrupts.
ShutdownEnds == shutdown ~> phase = "exited"
=============================================================================
