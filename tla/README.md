# AgentRadar: TLA+ models and proofs

AgentRadar watches the agentic-AI ecosystem. Scouts propose claims about
concepts, a Critic approves or rejects them, approved claims become
relationships in a Neo4j knowledge graph, and a Forecaster predicts where busy
concepts are heading. All agents run in one scheduler process, the supervisor,
and reach the stores through the tools of one MCP server, the API.

This directory models the parts where order, concurrency and failure decide
whether the system is right, checks the models with TLC on small instances, and
proves their safety with TLAPS for every instance. `PROJECT.json` lists
components, runs, hazards, findings and theorems, and maps each definition to
the lines it models.

## 1. The system

| Component | State | Operations | Talks to |
|---|---|---|---|
| Proposer-critic gate (`mcp_tools.py`, `pg_client.py`, `neo4j_client.py`) | `pending_triples` rows, Neo4j relationships | `propose_triple`, `list_pending_triples`, `approve_triple`, `reject_triple` | called by Scouts and Critics, concurrently |
| Critic (`agents/critic.py`) | batch and results of one run | `run`, `_review_one`, `_decide` | the gate, S3, the SLM |
| Supervisor (`runtime.py`, `schedule.py`) | `last_run_at` per job, round-robin indices, shutdown event | `run_forever`, `_tick`, `_run_job`, `_mcp_session` | runs every agent |
| Scouts (`agents/scout/`) | one run's listing | `run`: fetch, store, extract, propose | feeds, SLM, `put_text_artifact`, `record_mention`, `propose_triple` |
| Forecaster and ROMA graph (`agents/forecaster.py`, `nodes.py`, `graph.py`) | `forecasts`, `digests`, the graph's state per invocation | `run`, `run_topn`, `run_digest`; atomize, plan, execute, aggregate | `mention_events`, SLM |
| Mention queries (`pg_client.py`, `mcp_tools.py`) | `mention_events`, append-only | `record_mention`, `mention_velocity`, `get_forecast_evidence` | called by Scouts, Forecaster, dashboard |
| Query planner, config loader (`query_planner.py`, `config_loader.py`) | none; the pool it returns | `load_tavily_queries`, three strategies | Postgres, Neo4j, a YAML file |
| API lifecycle (`main.py`, the clients' `connect` and `close`) | driver, pool | startup, lazy connection, health, teardown | the stores, every handler |
| REST views (`rest.py`), dashboard | none | reads, two of them in several queries | the stores |
| SLM, embedding and Tavily clients, trend source adapters | none | calls to external services | |

What is hard in each, and what makes it right:

- *Gate.* Tool calls interleave at every await. An approval is two writes to two
  stores without a transaction, and the second is not idempotent. Right means: a
  claim gets at most one relationship, only after it was approved, decided by one
  caller, and answers tell the truth.
- *Critic.* Several critics list the same rows; connections and processes fail
  between its calls. Right means: nothing unreviewed gets through, its summary is
  true, the queue drains in order, and claims whose review always raises do not keep
  the others from being decided as long as they leave a place in the batch.
- *Supervisor.* A retry loop is wrapped around a `yield`; one loop serves all
  jobs. Right means: one run per turn, no starvation, no skipped source, an
  orderly stop.
- *Scouts.* A run is a long chain of calls and any failure drops the rest of it,
  while the feeds change, cut off and forget what they showed. Right means: a claim
  never precedes its evidence, and later runs catch up with what is still shown.
- *Forecaster.* A graph that invokes itself, a cooldown that is checked long
  before it is started. Right means: one fresh forecast per concept, subtasks that
  fail cost only themselves, runs end, what is reported is stored.
- *Reads of several queries.* The overview page, the page of top concepts, the
  evidence bundle and the query planner each put answers together that see
  different moments. Right means: what they show can still be true at once, up to
  what changed meanwhile.
- *API lifecycle.* Clients connect at startup and, when there is none, in whoever
  needs one; tool calls outlive their client. Right means: one pool and one
  verified driver while the server serves, nobody waits for ever, it stops when
  told to.

## 2. The modules

| Module | What it is |
|---|---|
| `KnowledgeGate` | abstract: what the gate promises about a claim (unknown, proposed, accepted or refused, published) |
| `TripleGate` | the server's side of the gate, one action per statement between awaits; implements `KnowledgeGate` |
| `Critic` | extends `TripleGate` with critic processes that call it |
| `Supervisor` | the scheduler loop and the session around every turn |
| `Scout` | the pipeline the three scouts share |
| `Forecasts` | the cooldown and the recursive graph |
| `Views` | extends `TripleGate` with the overview page that counts its rows and relationships |
| `Mentions` | the mentions and the requests that read them in several queries |
| `Planner` | extends `Mentions` with the planning of search queries |
| `Lifecycle` | the API process with its clients and open handlers |
| `MC...` | instances for TLC |
| `...Proofs` | the theorems about `TripleGate`, `Critic`, `Supervisor`, `Lifecycle`, `Scout`, `Forecasts`, `Views`, and in `PlannerProofs` about `Mentions` and `Planner` |

Operators named "Variant of X" are the plausible bugs the properties are tested
against: X is replaced by its variant and TLC has to find the property violated.
No specification uses them.

### TripleGate

`status`, `conf`, `created` and `inserts` are the table; `edges` and `edgeConf`
are Neo4j; `pc`, `target`, `seen` and `answer` are the tool calls in progress, one
per slot. `Propose` is the single upsert of `propose_triple`. An approval goes
through `BeginApprove`, `ReadTarget` (its listing of the `Window` oldest rows),
`MarkApproved` (the guarded UPDATE) and `CommitEdge` (the Cypher); a rejection
through `BeginReject` and `MarkRejected`. `Release` sends the answer.
`Faults` selects what may go wrong:

| Fault | Action | In the code |
|---|---|---|
| `pg` | `PgFails` | a statement raises; its effect may have happened (lost acknowledgement) |
| `neo4j` | `Neo4jFails` | the Cypher raises, with or without effect; the tool catches it |
| `unread` | `CypherFailsUnread` | the error comes with the result nobody consumes |
| `crash` | `ApiCrash` | every open call is gone, callers see an error |

Abstractions: a claim is one `proposal_hash`, that is, at most one row; claims
that fail validation change nothing and are left out; confidences are a small
scale; `created_at` is taken to be a total order.

### Critic

`ListPending` is the call at the start of `run`; `Decide` takes the oldest claim
of the batch, chooses one of the `Opinions` the pipeline can come to and opens a
call of the gate; `Answered` is the return of `_decide`, `ReviewRaises` and
`CallLost` the `except` of the loop, `Die` the end of the process. The static
checks, the artifact and the SLM are constants per claim: `Blank`, `OffOntology`,
`Stored`, `Outcomes`. Fault `net` loses a response while the server goes on, `s3`
makes a readable artifact unreadable once, `kill` kills the process.

### Supervisor

Time counts in ticks (30 s) and each job's clock stops at its interval, the only
value `is_due` compares it with. `phase` is the place in the loop or in the turn:
connect, backoff, build, run, leave. `SessionRaises` is the `except` of
`_mcp_session`, which also receives exceptions of the body through the `yield`;
`Connected` with `yielded` set is the second yield that contextlib refuses.
Agents return or raise; what they do is in the other modules. Fault `kill` ends
the process; the new one has forgotten `since` and `cursor`. `ago` is a history
variable that no restart forgets, so that `Spaced` is about when a job really ran.

### Scout

`feed` and `artifact` hold editions, so that a text that changed can be told from
the one a run fetched. `listed` are the sources the feeds show at the moment: they
appear (`Publish`), vanish (`Expire`) and come back (`Relist`) at any time. Scout k is one
category, query or trend source with a feed of its own, which may list the sources
`Carries[k]`, and a run of it takes the first `MaxItems[k]` of them (`Shown`), as
`arxiv.py:118` does. One supervisor runs its scouts by turns (`Serial`, `MayStart`); scripts
start more beside it. `calm` says of a run that none of its calls is going to fail,
which fairness refers to. `Fetch`, `StoreRaw` (one source per step), `Extract`,
`RecordMention` and `ProposeTriple` are the awaits of a run; `Abort` is the
exception that leaves `run`. `unique[k]` is what a run fetched and `at[k]` the place
of its loops in the feed's order, `Listing`; `Follows` and `NothingFollows` say where
a loop goes on. `Poison` are sources whose date `record_mention`
cannot parse. The map spreads the definitions over the three scouts, whose code
is the same at these places.

### Forecasts

`stack[r]` is the chain of graph invocations of run r, each with the node it is
at, its subtasks and their results. `Selections` is the ranking with its LIMIT,
ties in any order. `days` and `fresh` are what the cooldown query can see of the
forecasts table. `Persist` is what each of the three runs does with the graph's
result, which is `NotYet` until the outermost invocation is through and `Nothing`
when there is none to report. `Gathered` is the aggregator's loop over the results of
the subtasks, a recursive function. A day passes when every job had its run. Mentions do
not leave the window.

### Views

`query` is the query the handler of `/api/stats` awaits and `page` what it counted so
far. `Queries` is their order: concepts, sources, relationships, then the rows by
status. All of the gate goes on between any two of them. Two of its claims share a
concept and a source, so that the counts of nodes (`Nodes`) and of relationships
(`Relationships`) differ.

### Mentions and Planner

`rows` is `mention_events`. A request is a `task` with the answers it `got`; each query
sees the table and the day of its own step. Requests write nothing, so that one at a
time shows all that any number of them can see; `changed` remembers which concepts were
mentioned since the first query, and whether a day went by. `Buckets` is the GROUP BY of
`mention_velocity`, a function from weeks to counts that has no bucket for an empty
week, and `Trend` twice the numerator of `_slope` (only its sign matters). `TopOf` is
ORDER BY with LIMIT, ties in any order.

Planner adds the three strategies. A query is its template and the name in it. Each
strategy brings what its query returns or, when that fails, nothing. `Derived` is the
three answers in their order, `Keeping` the loop that keeps a query the first time it
comes, `Deduped` and `Combined` the two merges. Authorities are a constant:
`01_schema.cypher:9` declares them and no code of this repository creates one, so that
as the code stands adjacency always brings nothing; one made by hand is what the model
allows.

### Lifecycle

`phase` follows `lifespan`. `at[h]` is what handler h awaits: connecting a pool,
a connection, a query, the verification of the driver, a Cypher. Handlers are
sequences of stores (`Script`): `approve_triple` lists, marks and commits, the
evidence bundle is two queries, a health check passes over a store that fails.
`Disconnect` makes a tool call an orphan: its client is gone and the server's session
task goes on, also while `lifespan` closes the clients, because fastmcp's own
lifespan ends only after the inner `finally` (`main.py:76-82`). asyncpg, uvicorn and
fastmcp are modelled as the code uses them: a pool waits in `close` for connections
that are out and refuses new ones, the server drains HTTP requests first.

## 3. The runs

All claims, slots, critics and so on are model values. State counts are TLC's.

| Run | Question | Instance | Result |
|---|---|---|---|
| `gate_faults` | safety and refinement under all faults; is the overview page consistent? | 2 claims, 3 calls, 2 confidences, symmetry | holds, 1,639,748 states |
| `gate_crash`, `gate_deep` | what the docstrings say | 2 claims, 2 calls | violated, see 5 |
| `critic_faults` | does anything unreviewed get through, are answers and summaries right? | 2 critics, 3 claims, one to be approved, one off the ontology and one without a source, window of 1; processes die, connections, S3, Postgres and Neo4j fail | holds, 807,625 |
| `critic_drain` | order and liveness of the queue; do the stores agree when nothing fails? | 3 claims, one whose review may and one whose review must raise, batches of 2, 2 critics and a dry run | holds, 162,036 |
| `supervisor_faults` | safety and fairness of the loop | 3 jobs, intervals 1, 2, 3, raising and slow agents, raising factories, connections that fail to open or close, kills | holds, 14,072 |
| `scout_faults` | is the evidence there before the claim and as new as it, and do later runs catch up? | 2 scouts by turns; one takes a poisoned source and one behind it, the other 1 of 2; the source they share has 2 editions; every call may fail | holds, 140,905 |
| `forecasts_faults` | cooldown, subtasks, end of the recursion, turns of the concepts | 2 concepts, cooldown of 2 days, the daily job and the weekly digest | holds, 558,054 |
| `forecasts_topn` | what a docstring says | a top-N script | violated, see 5 |
| `reads` | do the answers of several queries fit together, and is the query pool bounded? | 2 concepts, 3 sources of 2 types, 4 days, weeks of 2, failing stores | holds, 3,811,493 |
| `velocity` | what a docstring says | 1 concept, 3 sources, 8 days, weeks of 2 | violated, see 5 |
| `lifecycle` | is the server connected while it serves, does every handler end, does it stop? | an approval, an evidence bundle and a health check on a pool of 1, all faults | holds, 21,319 |

Why the bounds are enough. Two claims and three calls are enough for calls to compete
for a row while another row moves the window and a third call raises a confidence; rows
are independent otherwise, and the proofs remove the bound. In `critic_faults` the
window of one row makes the later claims ones that `approve_triple` cannot see although
a critic may have listed them, so that every way to a "race" occurs. In `critic_drain`
two critics and a dry run let every claim be listed by one, decided by another and shown
to a third, and of three claims in a queue a batch of two leaves one out: the claim that
cannot raise is behind one that does, or behind two, and then the premise of
`EventuallyDecided` is false. A job that is due at every tick keeps the loop as busy as
it can be, and the rarer ones are longer than a turn and a restart. Two editions tell
old from new. In `scout_faults` one feed has a source behind the poisoned one, whose
text gets into S3 and whose claims wait until the poisoned one is out of the way; the
other shows more than a run takes, so that a source is pushed behind the limit when
another appears; and both list the source whose text changes, so that two scouts write
one object. Scouts that run at the same time are left to the theorem
`ClaimHasEvidenceHolds`, which does not assume `Serial`. With a cooldown of as many days
as there are concepts the ranking comes round once, with days on which the run fails in
between; mentions up to 2 let the ranking change and tie; `TopN` of 1 below the number
of concepts makes the LIMIT cut, `TopN` of 2 gives a composite task two subtasks of
which either may fail. In `reads` two concepts can tie, a mention falls into each half
of the spikes' window and outside it, and every strategy may fail; a pool smaller than
the open handlers makes them wait, and one pool more than there are handlers is as many
as can be created. `MaxEdition`, `MaxMentions` and `MaxDay` are the only bounds in
guards.

Fairness. Weak fairness of a call's next statement: a coroutine whose await returned is
resumed. Weak fairness of the loop, the sleep and the turn in Supervisor: the event loop
runs what is ready, agents have time limits on their HTTP calls. Strong fairness of
`Connected` per job: the API is not down at each of one job's attempts. Strong fairness
of a scout's runs in which no call fails (`calm`), as often as one can start:
`EverySourceVisited` brings each category, query and trend source its turn, and not
every run loses a call. Nothing is assumed of the feeds. Critic's runs recur because
Supervisor's `EveryJobGetsTurns` holds. In Lifecycle: weak fairness of the lifespan and
of each handler's step, because queries have a `command_timeout` and drivers answer or
raise; strong fairness of `Acquire`, because asyncpg serves those who wait in turn.
Nothing is assumed of `Terminate`, `Disconnect` or `Kill`. `critic_drain` has no faults
because its properties are false with them: `gate_crash` and `gate_deep` show how, and a
critic that dies in every run, or an API that fails every time, decides nothing.

`EveryJobGetsTurns` and `EverySourceVisited` allow for a supervisor that is killed again
and again, `EveryConceptForecast` for runs that fail, or store a fallback, again and
again: the disjunct `[]<><<Killed>>_vars`, or `[]<><<RunInVain>>_vars`, is true only of
the behaviours in which that never ends, and without it the properties are false.

Deadlock is checked in every run but `supervisor_faults`, whose loop exits after a
shutdown. `FireOnStartup` is FALSE there, the default of `schedule.py:39`.
`docker-compose.yml:258` sets it, and then every restart runs every job at once:
`Spaced` says nothing of that, the other properties hold with TRUE as well.

## 4. The proofs

Each invariant that a passing run checks, and each action property without
liveness, is also a theorem, checked by tlapm for every value of the constants:
any number of claims, calls, critics, jobs, sources, handlers and requests, all
windows, limits and intervals, every set of `Faults`.

| Module | Theorems (the property each states) |
|---|---|
| `TripleGateProofs` | `TypeCorrect`, `Invariance` (`IInv`), `NeverTwice` (`AtMostOneEdge`), `GateHolds` (`EdgeBehindGate`), `ExactlyOneDecision` (`OneWinner`), `TruthfulAnswers` (`AnswersTrue`), `CommittedTruly` (`CommittedIsThere`), `NothingIsUndone` (`NothingUndone`), `Refinement` (`ImplementsGate`), `StoresAgreeWithoutFaults` (`StoresAgree`), `RaceIsRealInShallowQueue` (`RaceMeansDecided`) |
| `CriticProofs` | `CriticTypeCorrect`, `CriticsAreClients` (the critics' specification implies the gate's), `CriticRaceIsAlwaysReal`, `CountedAreReallyDecided`, `GraphIsReviewed` (`OnlyReviewedReachGraph`), `OldestAreDecidedFirst` |
| `SupervisorProofs` | `TypeCorrect`, `OneRunPerTurnHolds`, `SpacedHolds` |
| `LifecycleProofs` | `TypeCorrect`, `ServesConnectedHolds` |
| `ScoutProofs` | `TypeCorrect`, `ClaimHasEvidenceHolds`, `EvidenceNotOlderHolds` |
| `ForecastsProofs` | `TypeCorrect`, `SubtasksAccountedHolds`, `OneFreshForecastHolds` |
| `ViewsProofs` | `ViewsOnlyRead` (the dashboard's specification implies the gate's), `StatsOrderedHolds` |
| `PlannerProofs` | `EvidenceAddsHolds`, `PreviewAgreesHolds`, `MentionsReadTruly` (both, without the planner), `FairShareHolds`, `OneReasonEachHolds` |

### Assumptions

The theorems rest on the named assumptions of the modules and on nothing else:
`GateAssumption`, `CriticAssumption`, `SupervisorAssumption`,
`LifecycleAssumption`, `ScoutAssumption`, `ForecastsAssumption`,
`ViewsAssumption`, `MentionsAssumption` and `PlannerAssumption`. They say that
intervals, limits, windows and repetitions have the range their settings have,
that a placeholder (`NoTriple`, `NoCall`, `NoPool`) is not one of what it stands
in for, that jobs and sources are listed once each, that a claim's ends are its
subject and its object, that every handler turns to a store, that there are as many
pools as can be created (one more than handlers), that
the static query list is not empty (`config_loader.py:46-52` raises when it is) and
that the 14 days of the spikes lie inside the 30 days of the singletons
(`SpikeDays <= SingletonDays`). Tables are finite.

Some theorems have a hypothesis, because the property is false without it:

| Theorem | Hypothesis | Without it |
|---|---|---|
| `CommittedTruly` | no `unread` fault | `CypherFailsUnread` answers "approved" without a relationship |
| `StoresAgreeWithoutFaults` | no `pg`, `neo4j`, `crash`, `unread` fault | `gate_crash` |
| `RaceIsRealInShallowQueue` | no more claims than `Window` | `gate_deep` |
| `OldestAreDecidedFirst` | no `pg`, `crash`, `net` fault | a claim whose call failed is passed over; critics may still die and S3 and Neo4j fail |
| `SpacedHolds` | none: the property itself is conditioned on `~FireOnStartup` | every restart runs every job |
| `EvidenceNotOlderHolds` | `Serial`: any number of scouts, run by one supervisor | a scout beside them may put an older edition over a newer one |
| `OneFreshForecastHolds` | one run of kind `"concept"`, beside any composite runs | two such runs pass the cooldown check together |

### The arguments

*TripleGate.* `AtMostOneEdge` is not inductive: nothing in it stops a second call
from standing before its Cypher with the same claim. What is true is that an
approval holds its claim from the UPDATE on. `CommitPending` says that a call
before its Cypher has an approved row without an edge and a confidence no higher
than the row's, and `OneHolder` that no two slots hold the same claim, where a
slot holds it from its UPDATE until its answer is sent. `SlotsConsistent` ties
answers to slots and `AbsentIsBlank` makes the first proposal raise a confidence
too. `IInv` is the conjunction; `gate_faults` checks it and the proof takes it
through every action. The other invariants follow from it, `NothingUndone` from it
and one step, and so does the refinement, in which a proposal, an UPDATE and an
edge are the gate's steps and everything else is a stutter. `StoresAgree` needs one
more part, `CommitComing`: an approved row without a relationship has a call that
is about to create it.

*Critic.* Every step of `CriticNext` is a step of the gate or leaves the gate alone,
so that `IInv` and all the gate's theorems, the refinement of `KnowledgeGate`
among them, hold of it; what remains is about the
critics. That a race is real rests on the window: `Numbered` says that
`created_at` orders the rows, finitely many, and an insert goes to the end of the
queue, so that a claim that was among the `Window` oldest never leaves them while it
is pending (`InWindowStays`), and a batch is cut to the window when it is listed
(`BatchesInWindow`). `CallsOwned` ties a call in a critic's hands to the claim under
review, across other critics, lost responses and dead processes: from it follow
`CountedAreDecided` and the review of what is approved (`OnlyReviewedApproved`:
every call on the way to an approval, and every approved row, had a review that
allows it). `OldestFirst` needs to know what a critic lacks: of the pending rows
older than one in its batch, only those whose review raised (`OlderInBatch`,
`OlderThanCall`).

*Supervisor.* `RunsCounted` says, phase by phase, what the turn has already started
and counted; that a session error after the agent ran does not start it again
follows from the phase it can come in. For `Spaced`, `ClocksAgree` says that the
scheduler never believes more time to have passed than has, but for the job whose
agent has just started, and `DueStaysDue` that a job found due at the start of the
tick is due when its turn comes.

*Lifecycle.* `ServesConnected` follows from `IInv` of `LifecycleProofs`: before the
server serves, no handler runs (`QuietStart`), so that only `lifespan` creates a pool
(`OnePool`) after the driver is verified (`DriverVerified`), and then no handler finds
a reason to connect (`NobodyConnects`).

*Scout.* `ArtifactsFirst` and `MentionsFirst` say how far a run's two loops have come;
`ClaimHasEvidence` follows when a claim is proposed. `EvidenceNotOlder` also needs
`NothingNewer` (nothing is newer than the feed), `StoresAsFetched` (during a run S3
holds what earlier runs left or what this one fetched) and `OneAtATime`, which a
supervisor's scouts keep although their feeds list the same sources.

*Forecasts.* The stack is described frame by frame: `FrameOK` says what a frame's node,
task and results have to do with each other, `Waiting` that each frame but the top
one waits for the next, `StackOK` that both hold of a whole stack. That an aggregate
counts its successes is then a fact about `Gathered`, which recurs over the results
(`FlatCounts`). `OneFreshForecast` rests on `StillDue`: what a run of a single
concept works on is still out of its cooldown.

*Views.* `CountsFit` bounds the figures counted so far by the graph of the moment,
and those of relationships by the rows: a graph that only grows keeps these bounds
until the next query is counted. That no relationship is without an approved row is
the gate's `IInv`; that n relationships have at most 2n concepts and n sources is
counted with the library's theorems about surjections and unions.

*Mentions and Planner.* The table only grows and `changed` notes what it did
(`TableOK`, `Unasked`). `EvidenceSoFar`, `PageSoFar` and `PlanSoFar` say of each kind
of request what its answers so far still have to do with the table. Adding up the
groups of a GROUP BY gives the number of rows (`TallyTotal`, by which `BucketsTotal` and
`BySourceTotal`), more rows never give a lower count (`CountsGrow`), and `Keeping`
keeps queries it was given, no two the same (`AtKeeps`); `FairShare` and
`OneReasonEach` add the limits and the disjointness of the strategies' conditions:
what spikes was mentioned more than once (`SpikesAreMany`), and what was mentioned once in
the long window stays so through days and other concepts' mentions (`OnceStays`).

Two techniques recur. Induction is done without operators as parameters: a set that
has 0 and the successor of each of its members below a bound has every number up to it
(`UpToInduction`, from the well-foundedness of the numbers). And recursive functions
are unfolded once, in a lemma that names the step (`GatheredRecurs`, `KeepingRecurs`,
`SumsRecur`), so that no other proof sees their definition.

### Only model-checked

Liveness (`EventuallyDecided`, `ApprovedReachesGraph`, `EveryJobGetsTurns`,
`EverySourceVisited`, `ShutdownEnds`, `RunsCatchUp`, `RunsEnd`, `EveryConceptForecast`,
`RequestsEnd`, `TeardownEnds`): fairness and ENABLED are out of the prover's reach.
The violations of section 5 are TLC's.

## 5. Where the code and its documentation disagree

| Run | The code | The text |
|---|---|---|
| `gate_crash` | a crash between UPDATE and Cypher leaves an approved row without its relationship | `mcp_tools.py:182` "Atomically marks the pending triple approved AND commits" |
| `gate_deep` | a pending row behind the 200 oldest is answered "race" | `mcp_tools.py:192` "another caller decided this triple first" |
| `forecasts_topn` | the composite runs persist no forecast | `forecaster.py:123-124` "N forecast rows have been persisted" |
| `velocity` | a week without mentions has no bucket, and the slope treats the others as consecutive: weekly mentions of 1, 2 and 0 have a positive velocity | `mcp_tools.py:290` "velocity > 0 indicates increasing weekly mentions" |

Read from the code while modelling, without a run of their own:

| The code | The text |
|---|---|
| `neo4j_client.py:105-113`: the result of the Cypher is not consumed; an error that comes with it is dropped and answered `approved` (action `CypherFailsUnread`; with it `CommittedIsThere` is false) | `mcp_tools.py:193-194` on `approved_but_neo4j_failed` |
| `critic.py:302`: the summary counts the critic's verdict, not the tool's answer (races and failed commits included) | `agents/base.py:38` "Structured summary of what happened" |
| `runtime.py:160`: `last_run_at` is set when no session could be opened | `runtime.py:74` "timestamp of last completion" |
| `schedule.py:49`: one job rotates over three sources every 6 hours, so each has its turn every 18 hours | `schedule.py:46-47` "each source polled twice a day" |
| `nodes.py:383`: an unparseable answer is stored as a forecast of confidence 0 | `scripts/forecaster_once.py:49` names it as a reason for no forecast |
| `pg_client.py:84-88`: a rejected row stays rejected when it is proposed again (`NothingUndone`) | `critic.py:60-61` "false rejections just mean a Scout proposes again later" |
| `main.py:79-82`: the clients are closed while fastmcp still runs; a tool call without a client may connect a new pool, which nobody closes | `main.py:73-75` "so it runs AFTER fastmcp has cleanly shut down" |
| `runtime.py:251`: queries are derived once, when the supervisor starts | `query_planner.py:84` "for one Scout cycle" |
| `config_loader.py:80-82`: derived queries are compared with the static ones; the static ones are not compared with each other | `config_loader.py:80` "Deduplicate" |
| `main.py:113-120`: a failing store is reported with status 200, which the healthcheck at `docker-compose.yml:158` takes for healthy | `main.py:115` "Used by the docker-compose healthcheck" |
| `rest.py:108`: the oldest pending triples | `rest.py:105` "Most recent pending triples" |
| `nodes.py:303-308`: confidence 10 becomes 1.0 and 11 becomes 0.11 | `nodes.py:304` names 70 and 7 only |
| each turn opens its own session | `runtime.py:6`: the connection is made once and shared across runs |
| each turn builds a new agent | `agents/base.py:4`: agents are constructed once at startup |

Some properties end where the code's promises end. `EvidenceNotOlder` is stated for the
scouts of one supervisor and `OneFreshForecast` for one single-concept forecaster at a
time; beyond that they are false, and nothing in the code promises them. `EventuallyDecided`
is about claims with fewer always-raising ones ahead of them than the batch has places:
fifty of those at the head of the queue, for which the SLM answers with JSON that is not
an object at temperature 0, fill every listing, and no claim behind them is ever
decided. `RunsCatchUp` is about sources that stay among the first entries of their feed,
without a poisoned one in front, until a run gets through: whatever is pushed behind
`max_papers` or leaves the feed before that is never claimed, because a run remembers
nothing of the one before.

## 6. Not modelled

- Feed parsing, prompts, embeddings, the SLM and Tavily clients: external services
  and text; their outcomes are choices in Critic, Scout and Forecasts.
- The views and tools that answer from one query and change nothing
  (`/api/pending`, `/api/recent-activity`, `/api/concepts`, `list_forecasts`,
  `list_recent_digests`, the graph queries), and the dashboard: they show one state.
- In Forecasts: a forecast forced by `--concept`, the confidence bands, the
  normalisation of confidences, the digest's narrative.
- In Planner: finding and parsing the YAML file, whose errors end the supervisor
  before it has any state.
- `hash_triple`: a claim of the models is a row. Rows are never deleted by this code,
  and the models delete none.
- Supervisor, Critic and Scout are not composed: a supervisor's agent returns or
  raises, and Critic takes its artifacts (`Stored`) as a constant.

## 7. Plan

Done: the gate, as the system's main promise, then its callers, the loop that starts
them, what feeds it, what reads from it, and the process that serves it; a proof of every
safety property that the passing runs check. Next:

1. Theorems: abstract specifications of what the supervisor promises a job and the
   planner its caller (every derived query that is not curated already is in the pool,
   where `FairShare` says that nothing else is), and their refinement step by step;
   what is left of `ServesConnected` during the teardown.
2. `Pipeline`: Scout, TripleGate and Critic composed, so that `Stored` becomes the
   artifacts scouts have written, with the text that changes between proposal and
   review.
3. Pure algorithms checked against a reference: confidence normalisation and bands.
