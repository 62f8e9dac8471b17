-------------------------- MODULE SupervisorProofs --------------------------
(***************************************************************************)
(* Supervisor, proved for every list of jobs, all intervals and rotations, *)
(* any number of attempts and every combination of faults.                 *)
(***************************************************************************)
EXTENDS Supervisor, TLAPS

-----------------------------------------------------------------------------
(* Types                                                                   *)

\* What the settings of the jobs are, and that the list has a length.
LEMMA Settings ==
    /\ Len(Order) \in Nat
    /\ \A j \in Jobs : Interval[j] \in Nat /\ Interval[j] > 0
    /\ \A j \in Jobs : Rotation[j] \in Nat /\ Rotation[j] > 0
    /\ MaxAttempts \in Nat /\ MaxAttempts > 0
<1>1. Len(Order) \in Nat
  BY SupervisorAssumption
<1>2. Interval \in [Jobs -> Nat \ {0}] /\ Rotation \in [Jobs -> Nat \ {0}]
      /\ MaxAttempts \in Nat \ {0}
  BY SupervisorAssumption
<1> QED
  BY <1>1, <1>2

\* At a start every clock is inside its interval, and at zero unless the jobs
\* fire on startup.
LEMMA AtStartBounds ==
    /\ AtStart \in [Jobs -> Nat]
    /\ \A j \in Jobs : AtStart[j] <= Interval[j]
    /\ ~FireOnStartup => \A j \in Jobs : AtStart[j] = 0
<1>1. CASE FireOnStartup
  BY <1>1, Settings DEF AtStart
<1>2. CASE ~FireOnStartup
  BY <1>2, Settings DEF AtStart
<1> QED
  BY <1>1, <1>2

\* A position inside the list names a job.
LEMMA PositionNamesJob ==
    ASSUME TypeOK, position <= Len(Order)
    PROVE  /\ position \in 1 .. Len(Order)
           /\ Current \in Jobs
           /\ position + 1 \in 1 .. Len(Order) + 1
BY SupervisorAssumption DEF TypeOK, Current, Jobs

\* In a turn the loop stands at a job of the tick's due ones, with attempts
\* left.
InTurn == phase \in {"connect", "backoff", "build", "run", "leave"}

TurnHasJob ==
    InTurn => position <= Len(Order) /\ Current \in due /\ attempts < MaxAttempts

Typed == TypeOK /\ TurnHasJob

\* One tick moves each clock forward by at most one, and never past the
\* interval.
LEMMA LaterBounds ==
    ASSUME NEW j \in Jobs, NEW n \in Nat, n <= Interval[j]
    PROVE  /\ Later(j, n) \in Nat
           /\ Later(j, n) <= Interval[j]
           /\ Later(j, n) >= n
           /\ \A m \in Nat : m <= n => Later(j, m) <= Later(j, n)
BY Settings DEF Later

\* The clocks after a tick.
LEMMA TickKeepsClocks ==
    ASSUME TypeOK, OneTickLater
    PROVE  /\ since' \in [Jobs -> Nat] /\ ago' \in [Jobs -> Nat]
           /\ \A j \in Jobs : since'[j] <= Interval[j] /\ ago'[j] <= Interval[j]
           /\ \A j \in Jobs : since'[j] >= since[j] /\ ago'[j] >= ago[j]
           /\ \A j \in Jobs : since[j] <= ago[j] => since'[j] <= ago'[j]
BY LaterBounds DEF TypeOK, OneTickLater

\* The clocks after a turn, and where the loop goes on.
LEMMA EndTurnMovesOn ==
    ASSUME TypeOK, position <= Len(Order), EndTurn
    PROVE  /\ since' \in [Jobs -> Nat] /\ ago' \in [Jobs -> Nat]
           /\ \A j \in Jobs : since'[j] <= Interval[j] /\ ago'[j] <= Interval[j]
           /\ \A j \in Jobs : j # Current => since'[j] = since[j] /\ ago'[j] = ago[j]
           /\ since'[Current] = 0 /\ ago'[Current] = 0
           /\ position' = position + 1 /\ position' \in 1 .. Len(Order) + 1
           /\ phase' = "scan"
<1>1. Current \in Jobs /\ position + 1 \in 1 .. Len(Order) + 1
  BY PositionNamesJob
<1>2. /\ since' = [since EXCEPT ![Current] = 0] /\ ago' = [ago EXCEPT ![Current] = 0]
      /\ position' = position + 1 /\ phase' = "scan"
  BY DEF EndTurn
<1>3. since' \in [Jobs -> Nat] /\ ago' \in [Jobs -> Nat]
  BY <1>1, <1>2 DEF TypeOK
<1>4. /\ \A j \in Jobs : j # Current => since'[j] = since[j] /\ ago'[j] = ago[j]
      /\ since'[Current] = 0 /\ ago'[Current] = 0
  BY <1>1, <1>2 DEF TypeOK
<1>5. \A j \in Jobs : since'[j] <= Interval[j] /\ ago'[j] <= Interval[j]
  BY <1>1, <1>4, Settings DEF TypeOK
<1> QED
  BY <1>1, <1>2, <1>3, <1>4, <1>5

\* A failure of the session counts an attempt and ends the turn or backs off.
LEMMA SessionRaisesMoves ==
    ASSUME Typed, InTurn, SessionRaises
    PROVE  /\ attempts' \in 0 .. MaxAttempts
           /\ \/ EndTurn
              \/ phase' = "backoff" /\ attempts' < MaxAttempts
                 /\ UNCHANGED <<position, times>>
BY Settings DEF SessionRaises, Typed, TypeOK, TurnHasJob

\* Every step of the loop, of a turn, every fault and every restart keeps the
\* variables in their types.
LEMMA TypedInvariant == Spec => []Typed
<1>1. Init => Typed
  <2> SUFFICES ASSUME Init PROVE Typed
    OBVIOUS
  <2> USE DEF Init, Typed, TypeOK, TurnHasJob, InTurn, Phases
  <2>1. /\ since \in [Jobs -> Nat] /\ ago \in [Jobs -> Nat]
        /\ \A j \in Jobs : since[j] <= Interval[j] /\ ago[j] <= Interval[j]
    BY Settings, AtStartBounds
  <2>2. cursor \in [Jobs -> Nat] /\ \A j \in Jobs : cursor[j] < Rotation[j]
    BY Settings
  <2>3. yielded \in BOOLEAN /\ shutdown \in BOOLEAN
    OBVIOUS
  <2>4. position \in 1 .. Len(Order) + 1 /\ attempts \in 0 .. MaxAttempts
    BY Settings
  <2> QED
    BY <2>1, <2>2, <2>3, <2>4
<1>2. Typed /\ [Next]_vars => Typed'
  <2> SUFFICES ASSUME Typed, [Next]_vars PROVE Typed'
    OBVIOUS
  <2> USE DEF Typed, TypeOK, TurnHasJob, InTurn, Phases, vars, times, clock, turn
  <2>1. CASE Loop
    <3>1. CASE SkipJob
      <4>1. position + 1 \in 1 .. Len(Order) + 1
        BY <3>1, PositionNamesJob DEF SkipJob
      <4> QED
        BY <3>1, <4>1 DEF SkipJob
    <3>2. CASE StartTick \/ ExitLoop \/ EndTick
      BY <3>2, Settings DEF StartTick, ExitLoop, EndTick
    <3>3. CASE BeginTurn
      <4>1. yielded' \in BOOLEAN
        BY <3>3 DEF BeginTurn
      <4>2. Current' = Current
        BY <3>3 DEF BeginTurn, Current
      <4> QED
        BY <3>3, <4>1, <4>2, Settings DEF BeginTurn
    <3> QED
      BY <2>1, <3>1, <3>2, <3>3 DEF Loop
  <2>2. CASE SleepOver \/ TurnDrags
    <3>1. OneTickLater
      BY <2>2 DEF SleepOver, TurnDrags
    <3> QED
      BY <2>2, <3>1, TickKeepsClocks DEF SleepOver, TurnDrags, Current
  <2>3. CASE WokenByShutdown \/ RequestShutdown
    BY <2>3 DEF WokenByShutdown, RequestShutdown, Current
  <2>4. CASE Connected \/ SessionCloses
    <3>1. position <= Len(Order)
      BY <2>4 DEF Connected, SessionCloses
    <3>2. CASE EndTurn
      BY <2>4, <3>1, <3>2, EndTurnMovesOn DEF Connected, SessionCloses
    <3>3. CASE ~EndTurn
      BY <2>4, <3>3 DEF Connected, SessionCloses, Current
    <3> QED
      BY <3>2, <3>3
  <2>5. CASE BackoffOver \/ AgentReturns \/ AgentRaises
    BY <2>5 DEF BackoffOver, AgentReturns, AgentRaises, Current
  <2>6. CASE BuildAgent \/ FactoryRaises
    <3>1. Current \in Jobs /\ NextCursor(Current) \in Nat
          /\ NextCursor(Current) < Rotation[Current]
      BY <2>6, PositionNamesJob, Settings DEF BuildAgent, FactoryRaises, NextCursor
    <3>2. /\ cursor' \in [Jobs -> Nat]
          /\ \A j \in Jobs : cursor'[j] < Rotation[j]
      BY <2>6, <3>1 DEF BuildAgent, FactoryRaises
    <3>3. CASE BuildAgent
      BY <3>1, <3>2, <3>3, Settings DEF BuildAgent, Current
    <3>4. CASE FactoryRaises
      <4>1. SessionRaises /\ InTurn /\ position <= Len(Order)
        BY <3>4 DEF FactoryRaises
      <4>2. CASE EndTurn
        BY <3>2, <3>4, <4>1, <4>2, EndTurnMovesOn, SessionRaisesMoves DEF FactoryRaises
      <4>3. CASE phase' = "backoff" /\ attempts' < MaxAttempts
                 /\ UNCHANGED <<position, times>>
        BY <3>2, <3>4, <4>1, <4>3, SessionRaisesMoves DEF FactoryRaises, Current
      <4> QED
        BY <4>1, <4>2, <4>3, SessionRaisesMoves
    <3> QED
      BY <2>6, <3>3, <3>4
  <2>7. CASE ConnectFails \/ CloseFails
    <3>1. SessionRaises /\ InTurn /\ position <= Len(Order)
      BY <2>7 DEF ConnectFails, CloseFails
    <3>2. CASE EndTurn
      BY <2>7, <3>1, <3>2, EndTurnMovesOn, SessionRaisesMoves DEF ConnectFails, CloseFails
    <3>3. CASE phase' = "backoff" /\ attempts' < MaxAttempts
               /\ UNCHANGED <<position, times>>
      BY <2>7, <3>1, <3>3, SessionRaisesMoves DEF ConnectFails, CloseFails, Current
    <3> QED
      BY <3>1, <3>2, <3>3, SessionRaisesMoves
  <2>8. CASE Killed
    <3>1. yielded' \in BOOLEAN
      BY <2>8 DEF Killed
    <3>2. CASE shutdown
      BY <2>8, <3>1, <3>2 DEF Killed
    <3>3. CASE ~shutdown
      BY <2>8, <3>1, <3>3, Settings, AtStartBounds DEF Killed
    <3> QED
      BY <3>2, <3>3
  <2>9. CASE UNCHANGED vars
    BY <2>9 DEF Current
  <2> QED
    BY <2>1, <2>2, <2>3, <2>4, <2>5, <2>6, <2>7, <2>8, <2>9 DEF Next, Turn, Trouble
<1> QED
  BY <1>1, <1>2, PTL DEF Spec

\* The scheduler's variables stay in their types: the cursors inside their
\* rotations, the clocks inside their intervals, the position inside the list.
THEOREM TypeCorrect == Spec => []TypeOK
BY TypedInvariant, PTL DEF Typed

-----------------------------------------------------------------------------
(* The inductive invariants                                                *)

\* How many runs the turn has started and counted, by where the loop is.
RunsCounted ==
    /\ OneRunPerTurn
    /\ phase \in {"loop", "connect", "backoff"} => counted = started
    /\ phase = "build" \/ (InTurn /\ ~yielded) => started = 0
    /\ phase = "build" => yielded
    /\ phase = "run" => started = 1 /\ counted = 0 /\ yielded
    /\ phase = "leave" => yielded

\* What the scheduler believes is never later than the truth, except of the
\* job whose agent this very turn has started.
ClocksAgree ==
    phase # "exited" => \A j \in Jobs :
        since[j] <= ago[j] \/ (InTurn /\ started = 1 /\ j = Current)

\* A job that was due when the tick began is due until its turn comes.
DueStaysDue ==
    \A i \in 1 .. Len(Order) :
        i >= position /\ Order[i] \in due => IsDue(Order[i])

-----------------------------------------------------------------------------
(* One run per turn                                                        *)

LEMMA RunsCountedStep ==
    ASSUME Typed, RunsCounted, [Next]_vars PROVE RunsCounted'
<1> USE DEF Typed, TypeOK, RunsCounted, OneRunPerTurn, InTurn, vars, times, clock, turn
<1>1. CASE Loop
  BY <1>1 DEF Loop, StartTick, ExitLoop, SkipJob, BeginTurn, EndTick
<1>2. CASE SleepOver \/ WokenByShutdown \/ RequestShutdown \/ TurnDrags
  BY <1>2 DEF SleepOver, WokenByShutdown, RequestShutdown, TurnDrags
<1>3. CASE Connected \/ SessionCloses
  BY <1>3 DEF Connected, SessionCloses, EndTurn
<1>4. CASE BackoffOver \/ AgentReturns \/ AgentRaises \/ BuildAgent
  BY <1>4 DEF BackoffOver, AgentReturns, AgentRaises, BuildAgent
<1>5. CASE ConnectFails \/ FactoryRaises \/ CloseFails
  BY <1>5 DEF ConnectFails, FactoryRaises, CloseFails, SessionRaises, EndTurn
<1>6. CASE Killed
  BY <1>6 DEF Killed
<1>7. CASE UNCHANGED vars
  BY <1>7
<1> QED
  BY <1>1, <1>2, <1>3, <1>4, <1>5, <1>6, <1>7 DEF Next, Turn, Trouble

\* Retries of the session never run a turn's agent twice, and a run that was
\* made is counted exactly once, whatever fails between.
THEOREM OneRunPerTurnHolds == Spec => []OneRunPerTurn
<1>1. Init => RunsCounted
  BY DEF Init, RunsCounted, OneRunPerTurn, InTurn
<1>2. Typed /\ RunsCounted /\ [Next]_vars => RunsCounted'
  BY RunsCountedStep
<1>3. RunsCounted => OneRunPerTurn
  BY DEF RunsCounted
<1> QED
  BY <1>1, <1>2, <1>3, TypedInvariant, PTL DEF Spec

-----------------------------------------------------------------------------
(* A whole interval between two runs                                       *)

LEMMA DueStaysDueStep ==
    ASSUME Typed, DueStaysDue, [Next]_vars PROVE DueStaysDue'
<1> USE DEF Typed, TypeOK, DueStaysDue, IsDue, vars, times, clock, turn
<1>0. ASSUME UNCHANGED due, UNCHANGED since, position' \in Nat, position' >= position
      PROVE  DueStaysDue'
  BY <1>0, Settings
<1>1. ASSUME EndTurn, position <= Len(Order), UNCHANGED due PROVE DueStaysDue'
  <2> SUFFICES ASSUME NEW i \in 1 .. Len(Order), i >= position', Order[i] \in due
               PROVE  since'[Order[i]] >= Interval[Order[i]]
    BY <1>1
  <2>0. /\ position' = position + 1 /\ since'[Current] = 0
        /\ \A j \in Jobs : j # Current => since'[j] = since[j]
    BY <1>1, EndTurnMovesOn DEF Typed
  <2>1. position \in 1 .. Len(Order) /\ i > position /\ Order[i] \in Jobs
    BY <1>1, <2>0, Settings DEF Jobs
  <2>2. Order[i] # Current
    BY <2>1, SupervisorAssumption DEF Current
  <2> QED
    BY <1>1, <2>0, <2>1, <2>2, Settings
<1>2. CASE StartTick
  BY <1>2 DEF StartTick
<1>3. CASE ExitLoop \/ SkipJob \/ BeginTurn \/ EndTick
  BY <1>0, <1>3, Settings DEF ExitLoop, SkipJob, BeginTurn, EndTick
<1>4. CASE SleepOver \/ TurnDrags
  <2>1. OneTickLater /\ UNCHANGED <<due, position>>
    BY <1>4 DEF SleepOver, TurnDrags
  <2>2. ASSUME NEW i \in 1 .. Len(Order)
        PROVE  /\ since[Order[i]] \in Nat /\ since'[Order[i]] \in Nat
               /\ Interval[Order[i]] \in Nat /\ since'[Order[i]] >= since[Order[i]]
    <3>1. Order[i] \in Jobs
      BY DEF Jobs
    <3> QED
      BY <2>1, <3>1, TickKeepsClocks, Settings
  <2> QED
    BY <2>1, <2>2
<1>5. CASE WokenByShutdown \/ RequestShutdown
  BY <1>0, <1>5, Settings DEF WokenByShutdown, RequestShutdown
<1>6. CASE BackoffOver \/ AgentReturns \/ AgentRaises \/ BuildAgent
  BY <1>0, <1>6, Settings DEF BackoffOver, AgentReturns, AgentRaises, BuildAgent
<1>7. CASE Connected \/ SessionCloses
  BY <1>0, <1>1, <1>7, Settings DEF Connected, SessionCloses, TurnHasJob, InTurn
<1>8. CASE ConnectFails \/ FactoryRaises \/ CloseFails
  <2>1. InTurn /\ SessionRaises /\ UNCHANGED due /\ position <= Len(Order)
    BY <1>8 DEF ConnectFails, FactoryRaises, CloseFails, TurnHasJob, InTurn
  <2> QED
    BY <1>0, <1>1, <2>1, SessionRaisesMoves, Settings
<1>9. CASE Killed
  BY <1>0, <1>9, Settings DEF Killed
<1>10. CASE UNCHANGED vars
  BY <1>0, <1>10, Settings
<1> QED
  BY <1>2, <1>3, <1>4, <1>5, <1>6, <1>7, <1>8, <1>9, <1>10 DEF Next, Loop, Turn, Trouble

LEMMA ClocksAgreeStep ==
    ASSUME Typed, RunsCounted, ClocksAgree, [Next]_vars, ~FireOnStartup
    PROVE  ClocksAgree'
<1> USE DEF Typed, TypeOK, ClocksAgree, InTurn, vars, times, clock, turn
<1>1. ASSUME EndTurn, InTurn, position <= Len(Order) PROVE ClocksAgree'
  <2>1. /\ \A j \in Jobs : j # Current => since'[j] = since[j] /\ ago'[j] = ago[j]
        /\ since'[Current] = 0 /\ ago'[Current] = 0 /\ phase' = "scan"
    BY <1>1, EndTurnMovesOn DEF Typed
  <2>2. \A j \in Jobs : j # Current => since[j] <= ago[j]
    BY <1>1
  <2>3. \A j \in Jobs : since'[j] <= ago'[j]
    BY <2>1, <2>2
  <2> QED
    BY <2>3
<1>2. CASE Loop
  BY <1>2 DEF Loop, StartTick, ExitLoop, SkipJob, BeginTurn, EndTick
<1>3. CASE SleepOver \/ TurnDrags
  BY <1>3, TickKeepsClocks DEF SleepOver, TurnDrags, Current
<1>4. CASE WokenByShutdown \/ RequestShutdown
  BY <1>4 DEF WokenByShutdown, RequestShutdown, Current
<1>5. CASE BackoffOver \/ AgentReturns \/ AgentRaises
  BY <1>5 DEF BackoffOver, AgentReturns, AgentRaises, Current
<1>6. CASE BuildAgent
  <2>1. Current \in Jobs /\ started = 0 /\ Current' = Current
    BY <1>6, PositionNamesJob DEF BuildAgent, RunsCounted, TurnHasJob, Current
  <2> QED
    BY <1>6, <2>1 DEF BuildAgent
<1>7. CASE Connected \/ SessionCloses
  <2>1. InTurn /\ position <= Len(Order)
    BY <1>7 DEF Connected, SessionCloses, TurnHasJob
  <2>2. CASE ~EndTurn
    BY <1>7, <2>2 DEF Connected, SessionCloses, Current
  <2> QED
    BY <1>1, <2>1, <2>2
<1>8. CASE ConnectFails \/ FactoryRaises \/ CloseFails
  <2>1. InTurn /\ SessionRaises /\ UNCHANGED started /\ position <= Len(Order)
    BY <1>8 DEF ConnectFails, FactoryRaises, CloseFails, TurnHasJob
  <2>2. CASE phase' = "backoff" /\ UNCHANGED <<position, times>>
    BY <2>1, <2>2 DEF Current
  <2> QED
    BY <1>1, <2>1, <2>2, SessionRaisesMoves
<1>9. CASE Killed
  BY <1>9, AtStartBounds DEF Killed
<1>10. CASE UNCHANGED vars
  BY <1>10 DEF Current
<1> QED
  BY <1>2, <1>3, <1>4, <1>5, <1>6, <1>7, <1>8, <1>9, <1>10 DEF Next, Turn, Trouble

\* A job's agent starts only a whole interval after its last start, whatever
\* failed, dragged on, was killed and restarted between, when a restarted
\* supervisor waits before it fires.
THEOREM SpacedHolds == Spec => Spaced
<1>1. Init => RunsCounted /\ DueStaysDue /\ (~FireOnStartup => ClocksAgree)
  BY AtStartBounds DEF Init, RunsCounted, OneRunPerTurn, InTurn, DueStaysDue, ClocksAgree
<1>2. Typed /\ RunsCounted /\ DueStaysDue /\ (~FireOnStartup => ClocksAgree) /\ [Next]_vars
        => (RunsCounted /\ DueStaysDue /\ (~FireOnStartup => ClocksAgree))'
  BY RunsCountedStep, DueStaysDueStep, ClocksAgreeStep
<1>3. Typed /\ RunsCounted /\ DueStaysDue /\ (~FireOnStartup => ClocksAgree) /\ [Next]_vars
        => [~FireOnStartup /\ phase = "build" /\ phase' = "run"
                => ago[Current] >= Interval[Current]]_vars
  <2> SUFFICES ASSUME Typed, RunsCounted, DueStaysDue, ClocksAgree,
                      ~FireOnStartup, phase = "build"
               PROVE  ago[Current] >= Interval[Current]
    OBVIOUS
  <2>1. Current \in Jobs /\ Current \in due /\ position \in 1 .. Len(Order)
    BY PositionNamesJob DEF Typed, TurnHasJob, InTurn
  <2>2. since[Current] >= Interval[Current]
    BY <2>1 DEF DueStaysDue, Current, IsDue
  <2>3. since[Current] <= ago[Current]
    BY <2>1 DEF ClocksAgree, RunsCounted
  <2> QED
    BY <2>1, <2>2, <2>3, Settings DEF Typed, TypeOK
<1> QED
  BY <1>1, <1>2, <1>3, TypedInvariant, PTL DEF Spec, Spaced
=============================================================================
