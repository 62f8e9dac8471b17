------------------------------- MODULE Critic -------------------------------
(***************************************************************************)
(* Critic agents working against the gate.  The supervisor runs one every  *)
(* 15 minutes; scripts/critic.py starts another by hand.  A run lists the  *)
(* oldest pending claims once, reviews them one after the other and asks   *)
(* the server to approve or reject each, while proposers, other critics    *)
(* and the server's own failures go on.                                    *)
(***************************************************************************)
EXTENDS TripleGate

CONSTANTS
    Critics,      \* the Critic processes
    NoCall,       \* a critic that waits for no tool call
    Batch,        \* batch_limit
    DryRun,       \* the critics started with --dry-run
    Blank,        \* claims with an empty subject, object or source_id
    OffOntology,  \* claims whose predicate is not in KNOWN_PREDICATES
    Stored,       \* claims whose source artifact the critic can map and read
    Outcomes      \* Outcomes[t]: how the SLM step about t can end

ASSUME CriticAssumption ==
    /\ NoCall \notin Calls
    /\ Batch \in Nat
    /\ DryRun \subseteq Critics
    /\ Outcomes \in [Triples -> SUBSET {"approved", "rejected", "raises"}]

VARIABLES
    running,      \* running[k]: critic k is inside run()
    batch,        \* batch[k]: listed claims it has not finished with
    call,         \* call[k]: the slot of the tool call it awaits
    opinion,      \* opinion[k]: its verdict on the claim under review
    approvals,    \* approvals[k]: claims its summary counts as approved
    rejections    \* rejections[k]: claims its summary counts as rejected

critics == <<running, batch, call, opinion, approvals, rejections>>
allVars == <<vars, critics>>

CriticTypeOK ==
    /\ TypeOK
    /\ running \in [Critics -> BOOLEAN]
    /\ batch \in [Critics -> SUBSET Triples]
    /\ call \in [Critics -> Calls \cup {NoCall}]
    /\ opinion \in [Critics -> {"none", "approved", "rejected"}]
    /\ approvals \in [Critics -> SUBSET Triples]
    /\ rejections \in [Critics -> SUBSET Triples]

CriticInit ==
    /\ Init
    /\ running = [k \in Critics |-> FALSE]
    /\ batch = [k \in Critics |-> {}]
    /\ call = [k \in Critics |-> NoCall]
    /\ opinion = [k \in Critics |-> "none"]
    /\ approvals = [k \in Critics |-> {}]
    /\ rejections = [k \in Critics |-> {}]

-----------------------------------------------------------------------------
(* The review pipeline                                                     *)

\* Variant of Clamped: no cap.
Unclamped(limit) == IF limit < 1 THEN 1 ELSE limit

\* max(1, min(limit, 200)): the server never lists more than it will look at
\* when it approves.
Clamped(limit) ==
    IF limit > Window THEN Window ELSE IF limit < 1 THEN 1 ELSE limit

StructurallySound(t) == t \notin Blank
\* Variant of InOntology: the check is skipped.
AnyPredicate(t) == TRUE

InOntology(t) == t \notin OffOntology

\* How the review of a claim can end.  A source that cannot be fetched, for
\* good or because S3 hiccups, is a rejection; so is an answer of the SLM
\* that is not the JSON asked for.  "raises" is an exception: the SLM is
\* down, or answers with JSON that is not an object.
Opinions(t) ==
    IF StructurallySound(t) /\ InOntology(t)
    THEN (IF t \in Stored THEN Outcomes[t] ELSE {"rejected"})
            \cup (IF "s3" \in Faults THEN {"rejected"} ELSE {})
    ELSE {"rejected"}

\* Variant of Under: newest first.
NewestUnder(k) ==
    CHOOSE t \in batch[k] : \A u \in batch[k] : created[t] >= created[u]

\* The next claim of the batch: the listing's order is created_at.
Under(k) ==
    CHOOSE t \in batch[k] : \A u \in batch[k] : created[t] <= created[u]

-----------------------------------------------------------------------------
(* One run of a critic                                                     *)

ListPending(k) ==
    /\ ~running[k]
    /\ batch' = [batch EXCEPT ![k] = Listed(Clamped(Batch))]
    /\ running' = [running EXCEPT ![k] = batch'[k] # {}]
    /\ approvals' = [approvals EXCEPT ![k] = {}]
    /\ rejections' = [rejections EXCEPT ![k] = {}]
    /\ UNCHANGED <<vars, call, opinion>>

\* The results list gets the critic's own decision, whatever the tool said.
Count(k, t, v) ==
    /\ approvals' = [approvals EXCEPT ![k] = IF v = "approved" THEN @ \cup {t} ELSE @]
    /\ rejections' = [rejections EXCEPT ![k] = IF v = "rejected" THEN @ \cup {t} ELSE @]

\* Variant of Advance: the claim is tried again in place.
RetryInPlace(k) ==
    /\ call' = [call EXCEPT ![k] = NoCall]
    /\ opinion' = [opinion EXCEPT ![k] = "none"]
    /\ UNCHANGED <<running, batch>>

\* On to the next claim of the batch.
Advance(k) ==
    /\ batch' = [batch EXCEPT ![k] = @ \ {Under(k)}]
    /\ call' = [call EXCEPT ![k] = NoCall]
    /\ opinion' = [opinion EXCEPT ![k] = "none"]
    /\ UNCHANGED running

Reviewing(k) == running[k] /\ batch[k] # {} /\ call[k] = NoCall

\* The pipeline decides and the decision goes to the server.
Decide(k) ==
    /\ Reviewing(k)
    /\ k \notin DryRun
    /\ \E v \in Opinions(Under(k)) \ {"raises"}, c \in Calls :
        /\ IF v = "approved" THEN BeginApprove(c, Under(k)) ELSE BeginReject(c, Under(k))
        /\ call' = [call EXCEPT ![k] = c]
        /\ opinion' = [opinion EXCEPT ![k] = v]
    /\ UNCHANGED <<running, batch, approvals, rejections>>

DecideDry(k) ==
    /\ Reviewing(k)
    /\ k \in DryRun
    /\ \E v \in Opinions(Under(k)) \ {"raises"} : Count(k, Under(k), v)
    /\ Advance(k)
    /\ UNCHANGED vars

\* An exception ends the review of this claim only; the row is left alone.
ReviewRaises(k) ==
    /\ Reviewing(k)
    /\ "raises" \in Opinions(Under(k)) \/ "net" \in Faults
    /\ Advance(k)
    /\ UNCHANGED <<vars, approvals, rejections>>

\* Variant of Answered: an exception of the tool is counted as a decision.
AnsweredAnyhow(k) ==
    /\ call[k] # NoCall
    /\ Count(k, Under(k), opinion[k])
    /\ Release(call[k])
    /\ Advance(k)

Answered(k) ==
    /\ call[k] # NoCall
    /\ \/ /\ answer[call[k]] # "error"
          /\ Count(k, Under(k), opinion[k])
       \/ /\ answer[call[k]] = "error"
          /\ UNCHANGED <<approvals, rejections>>
    /\ Release(call[k])
    /\ Advance(k)

\* The connection fails while the server goes on with the call.
CallLost(k) ==
    /\ "net" \in Faults
    /\ call[k] # NoCall
    /\ Advance(k)
    /\ UNCHANGED <<vars, approvals, rejections>>

FinishRun(k) ==
    /\ running[k]
    /\ batch[k] = {}
    /\ running' = [running EXCEPT ![k] = FALSE]
    /\ UNCHANGED <<vars, batch, call, opinion, approvals, rejections>>

\* The critic's process dies in the middle of a run, with its summary.
Die(k) ==
    /\ "kill" \in Faults
    /\ running[k]
    /\ running' = [running EXCEPT ![k] = FALSE]
    /\ batch' = [batch EXCEPT ![k] = {}]
    /\ call' = [call EXCEPT ![k] = NoCall]
    /\ opinion' = [opinion EXCEPT ![k] = "none"]
    /\ approvals' = [approvals EXCEPT ![k] = {}]
    /\ rejections' = [rejections EXCEPT ![k] = {}]
    /\ UNCHANGED vars

-----------------------------------------------------------------------------

\* A response nobody waits for any more.
ReleaseUnclaimed(c) ==
    /\ \A k \in Critics : call[k] # c
    /\ Release(c)
    /\ UNCHANGED critics

Environment ==
    /\ \/ \E t \in Triples, v \in Conf : Propose(t, v)
       \/ ApiCrash
       \/ \E c \in Calls : PgFails(c) \/ Neo4jFails(c) \/ CypherFailsUnread(c)
    /\ UNCHANGED critics

Serve(c) == Work(c) /\ UNCHANGED critics

Step(k) ==
    \/ Decide(k) \/ DecideDry(k) \/ ReviewRaises(k) \/ Answered(k) \/ FinishRun(k)

CriticNext ==
    \/ \E k \in Critics : ListPending(k) \/ Step(k) \/ CallLost(k) \/ Die(k)
    \/ \E c \in Calls : Serve(c) \/ ReleaseUnclaimed(c)
    \/ Environment

CriticSpec == CriticInit /\ [][CriticNext]_allVars

\* The supervisor starts a run again and again (Supervisor's loop), a run
\* that is resumed goes on, and the server finishes the calls it accepted.
CriticFairSpec ==
    /\ CriticSpec
    /\ \A k \in Critics : WF_allVars(ListPending(k)) /\ WF_allVars(Step(k))
    /\ \A c \in Calls : WF_allVars(Serve(c)) /\ WF_allVars(ReleaseUnclaimed(c))

-----------------------------------------------------------------------------
(* Properties                                                              *)

\* Only what passed both static checks, had a readable source and found the
\* SLM's approval is in the graph, whoever else was deciding at the time.
OnlyReviewedReachGraph ==
    \A t \in Triples :
        edges[t] > 0 =>
            /\ t \notin Blank \cup OffOntology
            /\ t \in Stored
            /\ "approved" \in Outcomes[t]

\* A critic is never told "race" about a claim nobody decided: what it lists
\* is inside the window approve_triple searches, however long the review of
\* the claims before it takes and however deep the queue has grown since.
CriticRaceIsReal ==
    \A k \in Critics :
        call[k] # NoCall /\ answer[call[k]] = "race" =>
            status[target[call[k]]] \in Decided

\* Every claim a run counts has been decided, by this critic or by another:
\* calls that raised or were lost are not counted, and a claim answered "race"
\* really has been decided.
CountedAreDecided ==
    \A k \in Critics \ DryRun : \A t \in approvals[k] \cup rejections[k] :
        status[t] \in Decided

\* Claims are decided in the order of their arrival; only a claim whose
\* review raises can be overtaken.
OldestFirst ==
    \A t, u \in Triples :
        status[t] \in Decided /\ status[u] = "pending" /\ created[u] < created[t] =>
            "raises" \in Outcomes[u]

\* Pending claims ahead of t whose review may raise, every time if it so happens.
StubbornAhead(t) ==
    {u \in Triples : /\ "raises" \in Opinions(u)
                     /\ status[u] = "pending" /\ created[u] < created[t]}

\* A claim whose review cannot raise is decided in the end, although claims
\* ahead of it may stay in the queue for ever, as long as these leave a place
\* in the batch.  As many of them as the batch has places fill every listing,
\* and then no claim behind them is ever looked at.
EventuallyDecided ==
    \A t \in Triples :
        "raises" \notin Opinions(t) =>
            (status[t] = "pending" /\ Cardinality(StubbornAhead(t)) < Clamped(Batch)
                ~> status[t] \in Decided)
=============================================================================
