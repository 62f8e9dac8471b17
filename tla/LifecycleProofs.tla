-------------------------- MODULE LifecycleProofs --------------------------
(***************************************************************************)
(* Lifecycle, proved for any number of handlers with any scripts, every    *)
(* size of the pool and every combination of faults.                       *)
(***************************************************************************)
EXTENDS Lifecycle, TLAPS

-----------------------------------------------------------------------------
(* Types                                                                   *)

\* Every handler turns to a store at least once.
LEMMA ScriptsBegin ==
    ASSUME NEW h \in Handlers
    PROVE  Len(Script[h]) \in Nat /\ Len(Script[h]) > 0
<1>1. Script[h] \in Seq({"pg", "neo4j"}) /\ Script[h] # <<>>
  BY LifecycleAssumption
<1> QED
  BY <1>1

\* What a handler's last or next step leaves in its own variables.
LEMMA StepOverTypes ==
    ASSUME TypeOK, NEW h \in Handlers, StepOver(h) \/ End(h)
    PROVE  /\ at' \in [Handlers -> {"idle", "next", "create", "acquire", "query",
                                    "verify", "cypher"}]
           /\ done' \in [Handlers -> Nat]
           /\ \A g \in Handlers : done'[g] < Len(Script[g])
           /\ mine' \in [Handlers -> Pools \cup {NoPool}]
           /\ orphans' \subseteq Tools
           /\ at'[h] \in {"idle", "next"}
           /\ \A g \in Handlers : g # h => at'[g] = at[g]
<1>1. CASE End(h)
  BY <1>1, ScriptsBegin DEF TypeOK, End
<1>2. CASE ~End(h)
  <2>1. /\ done[h] + 1 < Len(Script[h])
        /\ at' = [at EXCEPT ![h] = "next"] /\ done' = [done EXCEPT ![h] = @ + 1]
        /\ UNCHANGED <<mine, orphans>>
    BY <1>2 DEF StepOver
  <2>2. done' \in [Handlers -> Nat] /\ \A g \in Handlers : done'[g] < Len(Script[g])
    BY <2>1, ScriptsBegin DEF TypeOK
  <2> QED
    BY <2>1, <2>2 DEF TypeOK
<1> QED
  BY <1>1, <1>2

\* A process that is gone leaves every variable as it began.
LEMMA DeadTypes ==
    ASSUME Dead PROVE TypeOK'
BY ScriptsBegin DEF Dead, TypeOK, Phases

\* An exception of a store ends the handler or is passed over.
LEMMA RaiseSteps ==
    ASSUME NEW h, Raise(h) PROVE StepOver(h) \/ End(h)
BY DEF Raise

\* Startup, requests, faults, teardown and kills keep the variables in their
\* types; a handler never reads beyond the end of its script.
THEOREM TypeCorrect == Spec => []TypeOK
<1>1. Init => TypeOK
  BY ScriptsBegin DEF Init, TypeOK, Phases
<1>2. TypeOK /\ [Next]_vars => TypeOK'
  <2> SUFFICES ASSUME TypeOK, [Next]_vars PROVE TypeOK'
    OBVIOUS
  <2> USE DEF TypeOK, Phases, Serving, vars, clients, handlers
  <2>1. CASE StartupFails \/ Exit \/ Kill
    BY <2>1, DeadTypes DEF StartupFails, Exit, Kill
  <2>2. CASE Boot \/ VerifyDriver \/ Ready \/ Terminate \/ Drained \/ CloseDriver
    BY <2>2 DEF Boot, VerifyDriver, Ready, Terminate, Drained, CloseDriver
  <2>3. CASE ConnectPool \/ BeginClosePool \/ PoolClosed
    BY <2>3 DEF ConnectPool, Created, BeginClosePool, PoolClosed
  <2>4. ASSUME NEW h \in Handlers, Arrive(h) \/ Disconnect(h) \/ Acquire(h) PROVE TypeOK'
    BY <2>4 DEF Arrive, Disconnect, Acquire
  <2>5. ASSUME NEW h \in Handlers, Ensure(h) \/ CreateLazily(h) PROVE TypeOK'
    BY <2>5 DEF Ensure, CreateLazily, Created
  <2>6. ASSUME NEW h \in Handlers, OpenSession(h) \/ VerifyLazily(h) PROVE TypeOK'
    BY <2>6 DEF OpenSession, VerifyLazily
  <2>7. ASSUME NEW h \in Handlers,
               CreateFails(h) \/ AcquireRefused(h) \/ QueryReturns(h) \/ QueryRaises(h)
                 \/ VerifyRaises(h) \/ CypherReturns(h) \/ CypherRaises(h)
        PROVE  TypeOK'
    <3>1. (StepOver(h) \/ End(h)) /\ UNCHANGED <<phase, clients>>
      BY <2>7, RaiseSteps DEF CreateFails, AcquireRefused, QueryReturns, QueryRaises,
                              VerifyRaises, CypherReturns, CypherRaises
    <3> QED
      BY <3>1, StepOverTypes
  <2>8. CASE UNCHANGED vars
    BY <2>8
  <2> QED
    BY <2>1, <2>2, <2>3, <2>4, <2>5, <2>6, <2>7, <2>8 DEF Next, Lifespan, Step
<1> QED
  BY <1>1, <1>2, PTL DEF Spec

-----------------------------------------------------------------------------
(* The inductive invariant                                                 *)

\* No request is served before the three stores have answered.
QuietStart ==
    phase \in {"down", "neo4j", "pg", "check"} => \A h \in Handlers : at[h] = "idle"

\* Until lifespan creates the pool there is none; then it is the only open one
\* until the teardown begins.
OnePool ==
    /\ phase \in {"down", "neo4j", "pg"} =>
            pool = NoPool /\ \A p \in Pools : pools[p] = "unborn"
    /\ phase \in {"check"} \cup Serving =>
            /\ pool \in Pools
            /\ \A p \in Pools : pools[p] = "open" <=> p = pool

\* The driver is verified before the pool is created and stays so.
DriverVerified == phase \in {"pg", "check"} \cup Serving => driver = "verified"

\* No handler is inside a lazy connect while the server serves.
NobodyConnects ==
    phase \in Serving => \A h \in Handlers : at[h] \notin {"create", "verify"}

IInv == QuietStart /\ OnePool /\ DriverVerified /\ NobodyConnects

\* A dead process satisfies the invariant: nothing is open, nobody is served.
LEMMA DeadKeeps ==
    ASSUME Dead PROVE IInv'
BY DEF Dead, IInv, QuietStart, OnePool, DriverVerified, NobodyConnects, Serving

\* Steps that leave the stores' clients alone and send no handler into a lazy
\* connect.
LEMMA HandlerKeeps ==
    ASSUME TypeOK, IInv, UNCHANGED <<phase, clients>>, NEW h \in Handlers,
           phase \in Serving => at'[h] \notin {"create", "verify"},
           phase \notin {"down", "neo4j", "pg", "check"},
           \A g \in Handlers : g # h => at'[g] = at[g]
    PROVE  IInv'
<1> USE DEF IInv
<1>1. UNCHANGED <<phase, driver, pool, pools>>
  BY DEF clients
<1>2. QuietStart' /\ OnePool' /\ DriverVerified'
  BY <1>1 DEF QuietStart, OnePool, DriverVerified, Serving
<1>3. NobodyConnects'
  BY <1>1 DEF NobodyConnects, Serving
<1> QED
  BY <1>2, <1>3

LEMMA IInvStep ==
    ASSUME TypeOK, IInv, [Next]_vars PROVE IInv'
<1> USE DEF TypeOK, vars, clients, handlers
<1>0. QuietStart /\ OnePool /\ DriverVerified /\ NobodyConnects
  BY DEF IInv
<1>1. CASE StartupFails \/ Exit \/ Kill
  BY <1>1, DeadKeeps DEF StartupFails, Exit, Kill
<1>2. CASE Boot \/ VerifyDriver \/ ConnectPool
  BY <1>0, <1>2, LifecycleAssumption
     DEF Boot, VerifyDriver, ConnectPool, Created, IInv, QuietStart, OnePool,
         DriverVerified, NobodyConnects, Serving
<1>3. CASE Ready \/ Terminate \/ Drained
  BY <1>0, <1>3 DEF Ready, Terminate, Drained, IInv, QuietStart, OnePool,
                    DriverVerified, NobodyConnects, Serving
<1>4. CASE BeginClosePool \/ PoolClosed \/ CloseDriver
  BY <1>4 DEF BeginClosePool, PoolClosed, CloseDriver, IInv, QuietStart, OnePool,
              DriverVerified, NobodyConnects, Serving
<1>5. ASSUME NEW h \in Handlers, Arrive(h) PROVE IInv'
  BY <1>5, HandlerKeeps DEF Arrive, Serving
<1>6. ASSUME NEW h \in Handlers, Disconnect(h) \/ Acquire(h) PROVE IInv'
  <2>1. phase \notin {"down", "neo4j", "pg", "check"}
    BY <1>0, <1>6 DEF QuietStart, Disconnect, Acquire
  <2> QED
    BY <1>0, <1>6, <2>1, HandlerKeeps DEF Disconnect, Acquire, NobodyConnects
<1>7. ASSUME NEW h \in Handlers, Step(h) PROVE IInv'
  <2>1. phase \notin {"down", "neo4j", "pg", "check"}
    BY <1>0, <1>7 DEF Step, QuietStart, Ensure, CreateLazily, CreateFails, AcquireRefused,
        QueryReturns, QueryRaises, OpenSession, VerifyLazily, VerifyRaises,
        CypherReturns, CypherRaises, Turns
  <2>2. CASE Ensure(h)
    <3>1. phase \in Serving => pool # NoPool
      BY <1>0, LifecycleAssumption DEF OnePool
    <3> QED
      BY <2>1, <2>2, <3>1, HandlerKeeps DEF Ensure
  <2>3. CASE CreateLazily(h)
    <3>1. phase \notin Serving
      BY <1>0, <2>3 DEF CreateLazily, NobodyConnects
    <3> QED
      BY <2>1, <2>3, <3>1 DEF CreateLazily, IInv, QuietStart, OnePool, DriverVerified,
                              NobodyConnects, Serving
  <2>4. CASE OpenSession(h) \/ VerifyLazily(h)
    <3>1. phase \in Serving => driver = "verified" /\ at[h] # "verify"
      BY <1>0 DEF DriverVerified, NobodyConnects
    <3>2. phase \in Serving => at' = [at EXCEPT ![h] = "cypher"] /\ UNCHANGED <<phase, clients>>
      BY <2>4, <3>1 DEF OpenSession, VerifyLazily
    <3>3. CASE phase \in Serving
      BY <2>1, <3>2, <3>3, HandlerKeeps
    <3>4. CASE phase \notin Serving
      BY <2>1, <2>4, <3>4 DEF OpenSession, VerifyLazily, IInv, QuietStart, OnePool,
                              DriverVerified, NobodyConnects, Serving
    <3> QED
      BY <3>3, <3>4
  <2>5. CASE CreateFails(h) \/ AcquireRefused(h) \/ QueryReturns(h) \/ QueryRaises(h)
                 \/ VerifyRaises(h) \/ CypherReturns(h) \/ CypherRaises(h)
    <3>1. (StepOver(h) \/ End(h)) /\ UNCHANGED <<phase, clients>>
      BY <2>5, RaiseSteps DEF CreateFails, AcquireRefused, QueryReturns, QueryRaises,
                              VerifyRaises, CypherReturns, CypherRaises
    <3> QED
      BY <2>1, <3>1, StepOverTypes, HandlerKeeps
  <2> QED
    BY <1>7, <2>2, <2>3, <2>4, <2>5 DEF Step
<1>8. CASE UNCHANGED vars
  BY <1>0, <1>8 DEF IInv, QuietStart, OnePool, DriverVerified, NobodyConnects, Serving
<1> QED
  BY <1>1, <1>2, <1>3, <1>4, <1>5, <1>6, <1>7, <1>8 DEF Next, Lifespan

\* Every request and tool call the server accepts finds the one open pool and
\* a verified driver, whatever other handlers do at the same time and however
\* often the process failed to start or was killed before.
THEOREM ServesConnectedHolds == Spec => []ServesConnected
<1>1. Init => IInv
  BY DEF Init, IInv, QuietStart, OnePool, DriverVerified, NobodyConnects, Serving
<1>2. TypeOK /\ IInv /\ [Next]_vars => IInv'
  BY IInvStep
<1>3. IInv => ServesConnected
  BY LifecycleAssumption DEF IInv, OnePool, DriverVerified, ServesConnected, Serving
<1> QED
  BY <1>1, <1>2, <1>3, TypeCorrect, PTL DEF Spec
=============================================================================
