----------------------------- MODULE Lifecycle -----------------------------
(***************************************************************************)
(* The API process and its clients: startup, the requests and tool calls   *)
(* it serves through one Postgres pool and one Neo4j driver, teardown, and *)
(* restarts.  The clients connect lazily as well, when a handler finds     *)
(* none; an await in connect is a point where other handlers run.          *)
(*                                                                         *)
(* A handler is the sequence of stores it turns to.  A tool call goes on   *)
(* when its client disconnects; an HTTP request holds its connection until *)
(* it is answered, and the server waits for it before it stops.            *)
(***************************************************************************)
EXTENDS Naturals, Sequences, FiniteSets

CONSTANTS
    Handlers,   \* the requests and tool calls open at a time
    Tools,      \* the tool calls among them
    Tolerant,   \* health checks: a store that fails is reported and passed
    Script,     \* Script[h]: the stores h turns to, "pg" or "neo4j"
    Pools,      \* identities of the pools one process may create
    NoPool,     \* no pool
    PoolSize,   \* max_size (10)
    Faults      \* "pg", "neo4j", "s3" and "kill"

ASSUME LifecycleAssumption ==
    /\ Tools \subseteq Handlers
    /\ Tolerant \subseteq Handlers
    /\ Script \in [Handlers -> Seq({"pg", "neo4j"}) \ {<<>>}]
    /\ NoPool \notin Pools
    /\ Cardinality(Pools) > Cardinality(Handlers)
    /\ PoolSize \in Nat \ {0}

VARIABLES
    phase,    \* where the process is in its lifespan
    driver,   \* Neo4jClient._driver: "none", "unverified" or "verified"
    pool,     \* PgClient._pool
    pools,    \* pools[p]: "unborn", "open", "closing" or "closed"
    at,       \* at[h]: what handler h awaits
    done,     \* done[h]: how much of its script it is through with
    mine,     \* mine[h]: the pool _ensure gave it
    orphans   \* tool calls whose client is gone

clients == <<driver, pool, pools>>
handlers == <<at, done, mine, orphans>>
vars == <<phase, driver, pool, pools, at, done, mine, orphans>>

Serving == {"serving", "draining"}

Phases == {"down", "neo4j", "pg", "check", "close_pg", "closing_pg",
           "close_neo4j", "leave"} \cup Serving

TypeOK ==
    /\ phase \in Phases
    /\ driver \in {"none", "unverified", "verified"}
    /\ pool \in Pools \cup {NoPool}
    /\ pools \in [Pools -> {"unborn", "open", "closing", "closed"}]
    /\ at \in [Handlers -> {"idle", "next", "create", "acquire", "query",
                            "verify", "cypher"}]
    /\ done \in [Handlers -> Nat]
    /\ \A h \in Handlers : done[h] < Len(Script[h])
    /\ mine \in [Handlers -> Pools \cup {NoPool}]
    /\ orphans \subseteq Tools

Init ==
    /\ phase = "down"
    /\ driver = "none"
    /\ pool = NoPool
    /\ pools = [p \in Pools |-> "unborn"]
    /\ at = [h \in Handlers |-> "idle"]
    /\ done = [h \in Handlers |-> 0]
    /\ mine = [h \in Handlers |-> NoPool]
    /\ orphans = {}

\* The process is gone, and everything in its memory.
Dead ==
    /\ phase' = "down"
    /\ driver' = "none"
    /\ pool' = NoPool
    /\ pools' = [p \in Pools |-> "unborn"]
    /\ at' = [h \in Handlers |-> "idle"]
    /\ done' = [h \in Handlers |-> 0]
    /\ mine' = [h \in Handlers |-> NoPool]
    /\ orphans' = {}

-----------------------------------------------------------------------------
(* Startup                                                                 *)

\* lifespan begins: the driver is assigned before it is verified.
Boot ==
    /\ phase = "down"
    /\ phase' = "neo4j"
    /\ driver' = "unverified"
    /\ UNCHANGED <<pool, pools, handlers>>

VerifyDriver ==
    /\ phase = "neo4j"
    /\ phase' = "pg"
    /\ driver' = "verified"
    /\ UNCHANGED <<pool, pools, handlers>>

\* create_pool has returned p, and the client keeps it.
Created(p) ==
    /\ pools[p] = "unborn"
    /\ pools' = [pools EXCEPT ![p] = "open"]
    /\ pool' = p

ConnectPool ==
    /\ phase = "pg"
    /\ \E p \in Pools : Created(p)
    /\ phase' = "check"
    /\ UNCHANGED <<driver, handlers>>

\* The three health checks pass, fastmcp starts and the server serves.
Ready ==
    /\ phase = "check"
    /\ phase' = "serving"
    /\ UNCHANGED <<clients, handlers>>

\* Variant of StartupFails: the failure is logged and the server starts.
StartupGoesOn ==
    /\ \/ phase = "neo4j" /\ "neo4j" \in Faults
       \/ phase = "pg" /\ "pg" \in Faults
       \/ phase = "check" /\ Faults \cap {"neo4j", "pg", "s3"} # {}
    /\ phase' = CASE phase = "neo4j" -> "pg" [] phase = "pg" -> "check"
                  [] phase = "check" -> "serving"
    /\ UNCHANGED <<clients, handlers>>

\* verify_connectivity or create_pool raises, or a check is negative: the
\* exception leaves lifespan and the process ends, to be restarted by Docker.
StartupFails ==
    /\ \/ phase = "neo4j" /\ "neo4j" \in Faults
       \/ phase = "pg" /\ "pg" \in Faults
       \/ phase = "check" /\ Faults \cap {"neo4j", "pg", "s3"} # {}
    /\ Dead

-----------------------------------------------------------------------------
(* Handlers                                                                *)

Arrive(h) ==
    /\ phase = "serving"
    /\ at[h] = "idle"
    /\ at' = [at EXCEPT ![h] = "next"]
    /\ UNCHANGED <<phase, clients, done, mine, orphans>>

\* The client of a tool call gives up; the server's session task does not.
Disconnect(h) ==
    /\ h \in Tools \ orphans
    /\ at[h] # "idle"
    /\ orphans' = orphans \cup {h}
    /\ UNCHANGED <<phase, clients, at, done, mine>>

\* The handler returns, or an exception ends it.
End(h) ==
    /\ at' = [at EXCEPT ![h] = "idle"]
    /\ done' = [done EXCEPT ![h] = 0]
    /\ mine' = [mine EXCEPT ![h] = NoPool]
    /\ orphans' = orphans \ {h}

\* Variant of StepOver: nothing notices that the handler is through.
StepOnly(h) ==
    /\ at' = [at EXCEPT ![h] = "next"]
    /\ done' = [done EXCEPT ![h] = @ + 1]
    /\ UNCHANGED <<mine, orphans>>

\* The handler is through with one store.
StepOver(h) ==
    \/ /\ done[h] + 1 = Len(Script[h])
       /\ End(h)
    \/ /\ done[h] + 1 < Len(Script[h])
       /\ at' = [at EXCEPT ![h] = "next"]
       /\ done' = [done EXCEPT ![h] = @ + 1]
       /\ UNCHANGED <<mine, orphans>>

\* What an exception of a store does to the handler.
Raise(h) == IF h \in Tolerant THEN StepOver(h) ELSE End(h)

Turns(h, store) == at[h] = "next" /\ Script[h][done[h] + 1] = store

\* _ensure: the pool that is there, or else connect.
Ensure(h) ==
    /\ Turns(h, "pg")
    /\ at' = [at EXCEPT ![h] = IF pool = NoPool THEN "create" ELSE "acquire"]
    /\ mine' = [mine EXCEPT ![h] = pool]
    /\ UNCHANGED <<phase, clients, done, orphans>>

\* connect returns in a handler that found no pool; the last one to return
\* overwrites what the others assigned.
CreateLazily(h) ==
    /\ at[h] = "create"
    /\ \E p \in Pools : Created(p) /\ mine' = [mine EXCEPT ![h] = p]
    /\ at' = [at EXCEPT ![h] = "acquire"]
    /\ UNCHANGED <<phase, driver, done, orphans>>

CreateFails(h) ==
    /\ "pg" \in Faults
    /\ at[h] = "create"
    /\ Raise(h)
    /\ UNCHANGED <<phase, clients>>

\* Variant of Holds: the connection is released when the handler is over.
HoldsThroughout(h, p) ==
    mine[h] = p /\ (at[h] = "query" \/ (at[h] # "idle" /\ done[h] > 0))

\* async with pool.acquire(): for one query at a time.
Holds(h, p) == mine[h] = p /\ at[h] = "query"

InUse(p) == {h \in Handlers : Holds(h, p)}

\* acquire has no timeout: a handler waits until a connection is released.
Acquire(h) ==
    /\ at[h] = "acquire"
    /\ pools[mine[h]] = "open"
    /\ Cardinality(InUse(mine[h])) < PoolSize
    /\ at' = [at EXCEPT ![h] = "query"]
    /\ UNCHANGED <<phase, clients, done, mine, orphans>>

\* A pool that is being closed refuses.
AcquireRefused(h) ==
    /\ at[h] = "acquire"
    /\ pools[mine[h]] \in {"closing", "closed"}
    /\ Raise(h)
    /\ UNCHANGED <<phase, clients>>

QueryReturns(h) ==
    /\ at[h] = "query"
    /\ StepOver(h)
    /\ UNCHANGED <<phase, clients>>

\* command_timeout, or Postgres fails.
QueryRaises(h) ==
    /\ "pg" \in Faults
    /\ at[h] = "query"
    /\ Raise(h)
    /\ UNCHANGED <<phase, clients>>

\* session(): connect when there is no driver; one that somebody else has
\* assigned is taken as it is.
OpenSession(h) ==
    /\ Turns(h, "neo4j")
    /\ \/ /\ driver = "none"
          /\ driver' = "unverified"
          /\ at' = [at EXCEPT ![h] = "verify"]
       \/ /\ driver # "none"
          /\ at' = [at EXCEPT ![h] = "cypher"]
          /\ UNCHANGED driver
    /\ UNCHANGED <<phase, pool, pools, done, mine, orphans>>

VerifyLazily(h) ==
    /\ at[h] = "verify"
    /\ driver # "none"
    /\ driver' = "verified"
    /\ at' = [at EXCEPT ![h] = "cypher"]
    /\ UNCHANGED <<phase, pool, pools, done, mine, orphans>>

\* The driver stays assigned when verify_connectivity raises.
VerifyRaises(h) ==
    /\ "neo4j" \in Faults \/ driver = "none"
    /\ at[h] = "verify"
    /\ Raise(h)
    /\ UNCHANGED <<phase, clients>>

CypherReturns(h) ==
    /\ at[h] = "cypher"
    /\ StepOver(h)
    /\ UNCHANGED <<phase, clients>>

CypherRaises(h) ==
    /\ "neo4j" \in Faults \/ driver = "none"
    /\ at[h] = "cypher"
    /\ Raise(h)
    /\ UNCHANGED <<phase, clients>>

-----------------------------------------------------------------------------
(* Teardown                                                                *)

\* SIGTERM: the server accepts nothing any more.
Terminate ==
    /\ phase = "serving"
    /\ phase' = "draining"
    /\ UNCHANGED <<clients, handlers>>

\* Every client that still waits has its answer; lifespan goes on after yield.
Drained ==
    /\ phase = "draining"
    /\ \A h \in Handlers \ orphans : at[h] = "idle"
    /\ phase' = "close_pg"
    /\ UNCHANGED <<clients, handlers>>

BeginClosePool ==
    /\ phase = "close_pg"
    /\ pools' = [pools EXCEPT ![pool] = "closing"]
    /\ phase' = "closing_pg"
    /\ UNCHANGED <<driver, pool, handlers>>

\* Pool.close waits for the connections that are out.
PoolClosed ==
    /\ phase = "closing_pg"
    /\ InUse(pool) = {}
    /\ pools' = [pools EXCEPT ![pool] = "closed"]
    /\ pool' = NoPool
    /\ phase' = "close_neo4j"
    /\ UNCHANGED <<driver, handlers>>

CloseDriver ==
    /\ phase = "close_neo4j"
    /\ driver' = "none"
    /\ phase' = "leave"
    /\ UNCHANGED <<pool, pools, handlers>>

\* Only now does fastmcp's lifespan end: it cancels the tool calls that are
\* left, and the process exits.
Exit == phase = "leave" /\ Dead

Kill ==
    /\ "kill" \in Faults
    /\ phase # "down"
    /\ Dead

-----------------------------------------------------------------------------

Lifespan ==
    \/ Boot \/ VerifyDriver \/ ConnectPool \/ Ready \/ StartupFails
    \/ Drained \/ BeginClosePool \/ PoolClosed \/ CloseDriver \/ Exit

Step(h) ==
    \/ Ensure(h) \/ CreateLazily(h) \/ CreateFails(h)
    \/ AcquireRefused(h) \/ QueryReturns(h) \/ QueryRaises(h)
    \/ OpenSession(h) \/ VerifyLazily(h) \/ VerifyRaises(h)
    \/ CypherReturns(h) \/ CypherRaises(h)

Next ==
    \/ Lifespan \/ Terminate \/ Kill
    \/ \E h \in Handlers : Arrive(h) \/ Disconnect(h) \/ Step(h) \/ Acquire(h)

Spec == Init /\ [][Next]_vars

\* The lifespan's awaits and the stores' answers come or fail: queries have a
\* command_timeout.  asyncpg serves those who wait for a connection in turn.
FairSpec ==
    /\ Spec
    /\ WF_vars(Lifespan)
    /\ \A h \in Handlers : WF_vars(Step(h)) /\ SF_vars(Acquire(h))

-----------------------------------------------------------------------------
(* Properties                                                              *)

\* As long as the server serves, all handlers share one open pool and a
\* verified driver: the lazy connects of two of them never race, and a driver
\* whose verification failed is never used.
ServesConnected ==
    phase \in Serving =>
        /\ driver = "verified"
        /\ pool # NoPool
        /\ {p \in Pools : pools[p] = "open"} = {pool}

\* Every request and tool call comes to an end, although more of them may be
\* open than the pool has connections and nothing limits the wait for one.
RequestsEnd == \A h \in Handlers : at[h] # "idle" ~> at[h] = "idle"

\* A process told to stop does stop, also when tool calls outlive the pool and
\* connect again behind its back.
TeardownEnds == phase = "draining" ~> phase = "down"
=============================================================================
