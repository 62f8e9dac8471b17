-------------------------------- MODULE Scout --------------------------------
(***************************************************************************)
(* Scouts filling the queue.  A run fetches a listing, stores the raw text *)
(* of every source in S3, and then, source by source, extracts concepts    *)
(* with the SLM and makes two tool calls per concept: record_mention and   *)
(* propose_triple.  ArxivScout, TavilyScout and TrendScout have this one   *)
(* shape.  Any call that raises ends the run where it stands; the next run *)
(* starts over, with what its feed shows by then.  That may no longer be   *)
(* all that was fetched before: entries leave a feed, and newer ones push  *)
(* them behind the number of entries a run takes.                          *)
(***************************************************************************)
EXTENDS Naturals, Sequences, FiniteSets

CONSTANTS
    Scouts,      \* one for each category, query or trend source in rotation
    Serial,      \* TRUE: all are run by one supervisor; FALSE: also by hand
    Listing,     \* the sources that may be listed, in the order of the feeds
    Carries,     \* Carries[k]: the sources that the feed of scout k may list
    MaxItems,    \* MaxItems[k]: how many entries of it a run takes
    Concepts,    \* the concept names the SLM may extract
    MaxEdition,  \* bound: MaxEdition[s] texts of s (title, abstract) over time
    Yields,      \* Yields[s]: the concept sets the SLM may extract from s
    Poison,      \* sources whose published date record_mention cannot parse
    Faults       \* "call": a tool call or the SLM may fail

Places == 1 .. Len(Listing)
Sources == {Listing[i] : i \in Places}

\* The texts of a source are numbered, 0 is none.
Editions == Nat

ASSUME ScoutAssumption ==
    /\ Len(Listing) \in Nat
    /\ \A i, j \in Places : Listing[i] = Listing[j] => i = j
    /\ MaxEdition \in [Sources -> Editions \ {0}]
    /\ Yields \in [Sources -> SUBSET SUBSET Concepts]
    /\ \A s \in Sources : Yields[s] # {}
    /\ Poison \subseteq Sources
    /\ Serial \in BOOLEAN
    /\ Carries \in [Scouts -> SUBSET Sources]
    /\ MaxItems \in [Scouts -> Nat]

VARIABLES
    feed,       \* feed[s]: the newest edition of s, 0 before it appears
    listed,     \* the sources that are to be found in the feeds now
    artifact,   \* artifact[s]: the edition S3 holds, 0 for none
    mentions,   \* the rows of mention_events
    proposed,   \* proposed[<<c, s>>]: newest edition a proposal of c came from
    step,       \* step[k]: what scout k does next
    unique,     \* unique[k]: the set of sources of its run
    copy,       \* copy[k]: the editions it fetched
    at,         \* at[k]: its place in Listing
    found,      \* found[k]: extracted concepts it has not finished with
    concept,    \* concept[k]: the one it has recorded and not yet proposed
    calm        \* calm[k]: no call of its run is going to fail

world == <<feed, listed, artifact, mentions, proposed>>
run == <<step, unique, copy, at, found, concept, calm>>
vars == <<feed, listed, artifact, mentions, proposed,
          step, unique, copy, at, found, concept, calm>>

Claims == Concepts \X Sources

TypeOK ==
    /\ feed \in [Sources -> Editions]
    /\ listed \subseteq {s \in Sources : feed[s] > 0}
    /\ artifact \in [Sources -> Editions]
    /\ mentions \subseteq Claims
    /\ proposed \in [Claims -> Editions]
    /\ step \in [Scouts -> {"idle", "store", "extract", "mention", "propose"}]
    /\ unique \in [Scouts -> SUBSET Sources]
    /\ copy \in [Scouts -> [Sources -> Editions]]
    /\ at \in [Scouts -> Nat]
    /\ \A k \in Scouts : step[k] # "idle" =>
            at[k] \in Places /\ Listing[at[k]] \in unique[k]
    /\ found \in [Scouts -> SUBSET Concepts]
    /\ concept \in [Scouts -> SUBSET Concepts]
    /\ calm \in [Scouts -> BOOLEAN]

Init ==
    /\ feed = [s \in Sources |-> 0]
    /\ listed = {}
    /\ artifact = [s \in Sources |-> 0]
    /\ mentions = {}
    /\ proposed = [x \in Claims |-> 0]
    /\ step = [k \in Scouts |-> "idle"]
    /\ unique = [k \in Scouts |-> {}]
    /\ copy = [k \in Scouts |-> [s \in Sources |-> 0]]
    /\ at = [k \in Scouts |-> 1]
    /\ found = [k \in Scouts |-> {}]
    /\ concept = [k \in Scouts |-> {}]
    /\ calm = [k \in Scouts |-> FALSE]

Current(k) == Listing[at[k]]

-----------------------------------------------------------------------------
(* The feeds                                                               *)

\* A source appears, or shows another text.
Publish(s) ==
    /\ feed[s] < MaxEdition[s]
    /\ feed' = [feed EXCEPT ![s] = @ + 1]
    /\ listed' = listed \cup {s}
    /\ UNCHANGED <<artifact, mentions, proposed, run>>

\* It is no longer among what a feed announces, a search finds, a site shows.
Expire(s) ==
    /\ s \in listed
    /\ listed' = listed \ {s}
    /\ UNCHANGED <<feed, artifact, mentions, proposed, run>>

\* It is found again, with the text it had.
Relist(s) ==
    /\ feed[s] > 0 /\ s \notin listed
    /\ listed' = listed \cup {s}
    /\ UNCHANGED <<feed, artifact, mentions, proposed, run>>

Before(s) ==
    {Listing[i] : i \in {i \in Places : \E j \in Places : i < j /\ Listing[j] = s}}

\* What a run of scout k would fetch: the first entries of its own feed.  An
\* entry that comes twice is taken once.
Shown(k) ==
    LET entries == listed \cap Carries[k]
    IN  {s \in entries : Cardinality(entries \cap Before(s)) < MaxItems[k]}

-----------------------------------------------------------------------------
(* One run                                                                 *)

\* The end of a run, normal or not.  Nothing of it survives.
EndRun(k) ==
    /\ step' = [step EXCEPT ![k] = "idle"]
    /\ unique' = [unique EXCEPT ![k] = {}]
    /\ copy' = [copy EXCEPT ![k] = [s \in Sources |-> 0]]
    /\ at' = [at EXCEPT ![k] = 1]
    /\ found' = [found EXCEPT ![k] = {}]
    /\ concept' = [concept EXCEPT ![k] = {}]
    /\ calm' = [calm EXCEPT ![k] = FALSE]

\* The loops go through the sources S of a run in the feed's order: after
\* place i, 0 to begin with, comes place j, or nothing.
Follows(S, i, j) ==
    /\ i < j /\ Listing[j] \in S
    /\ \A n \in Places : i < n /\ n < j => Listing[n] \notin S
NothingFollows(S, i) == \A n \in Places : i < n => Listing[n] \notin S

\* The supervisor's loop waits for a run to end before it starts another.
MayStart(k) == step[k] = "idle" /\ (Serial => \A j \in Scouts : step[j] = "idle")

\* Variant of Fetch: the run extracts without having stored.
FetchWithoutStore(k) ==
    /\ MayStart(k)
    /\ unique' = [unique EXCEPT ![k] = Shown(k)]
    /\ copy' = [copy EXCEPT ![k] = feed]
    /\ \E i \in Places : Follows(Shown(k), 0, i) /\ at' = [at EXCEPT ![k] = i]
    /\ step' = [step EXCEPT ![k] = "extract"]
    /\ \E b \in BOOLEAN : calm' = [calm EXCEPT ![k] = b]
    /\ UNCHANGED <<world, found, concept>>

\* Variant of Fetch: the run leaves out what S3 has already.
FetchUnstored(k) ==
    LET S == {s \in Shown(k) : artifact[s] = 0}
    IN  /\ MayStart(k)
        /\ unique' = [unique EXCEPT ![k] = S]
        /\ copy' = [copy EXCEPT ![k] = feed]
        /\ \E i \in Places : Follows(S, 0, i) /\ at' = [at EXCEPT ![k] = i]
        /\ step' = [step EXCEPT ![k] = "store"]
        /\ \E b \in BOOLEAN : calm' = [calm EXCEPT ![k] = b]
        /\ UNCHANGED <<world, found, concept>>

\* An empty listing ends the run at once, which leaves nothing behind.
Fetch(k) ==
    /\ MayStart(k)
    /\ unique' = [unique EXCEPT ![k] = Shown(k)]
    /\ copy' = [copy EXCEPT ![k] = feed]
    /\ \E i \in Places : Follows(Shown(k), 0, i) /\ at' = [at EXCEPT ![k] = i]
    /\ step' = [step EXCEPT ![k] = "store"]
    /\ \E b \in BOOLEAN : calm' = [calm EXCEPT ![k] = b]
    /\ UNCHANGED <<world, found, concept>>

\* On to the next source, or to what follows the loop.
NextSource(k) ==
    \/ /\ \E i \in Places :
            Follows(unique[k], at[k], i) /\ at' = [at EXCEPT ![k] = i]
       /\ UNCHANGED <<step, unique, copy, calm>>
    \/ /\ NothingFollows(unique[k], at[k])
       /\ \E i \in Places :
            Follows(unique[k], 0, i) /\ at' = [at EXCEPT ![k] = i]
       /\ step' = [step EXCEPT ![k] = "extract"]
       /\ UNCHANGED <<unique, copy, calm>>

\* Variant of Put: the object is written only when the key is new.
PutOnce(s, e) ==
    artifact' = IF artifact[s] = 0 THEN [artifact EXCEPT ![s] = e] ELSE artifact

\* put_object overwrites what the key held.
Put(s, e) == artifact' = [artifact EXCEPT ![s] = e]

\* All the artifacts of the run are written before the first extraction.
StoreRaw(k) ==
    /\ step[k] = "store"
    /\ Put(Current(k), copy[k][Current(k)])
    /\ NextSource(k)
    /\ UNCHANGED <<feed, listed, mentions, proposed, found, concept>>

\* Variant of LeaveSource: the last source is passed by one.
LeaveSourceLate(k) ==
    \/ /\ at[k] \in Places
       /\ at' = [at EXCEPT ![k] = @ + 1]
       /\ step' = [step EXCEPT ![k] = "extract"]
       /\ found' = [found EXCEPT ![k] = {}]
       /\ concept' = [concept EXCEPT ![k] = {}]
       /\ UNCHANGED <<unique, copy, calm>>
    \/ /\ at[k] \notin Places
       /\ EndRun(k)

\* The loop over the sources goes on, or the run is over.
LeaveSource(k) ==
    \/ /\ \E i \in Places :
            Follows(unique[k], at[k], i) /\ at' = [at EXCEPT ![k] = i]
       /\ step' = [step EXCEPT ![k] = "extract"]
       /\ found' = [found EXCEPT ![k] = {}]
       /\ concept' = [concept EXCEPT ![k] = {}]
       /\ UNCHANGED <<unique, copy, calm>>
    \/ /\ NothingFollows(unique[k], at[k])
       /\ EndRun(k)

\* The SLM's answer: some concepts, none, or text that is not JSON (none).
Extract(k) ==
    /\ step[k] = "extract"
    /\ \/ \E F \in Yields[Current(k)] \ {{}} :
            /\ found' = [found EXCEPT ![k] = F]
            /\ step' = [step EXCEPT ![k] = "mention"]
            /\ UNCHANGED <<unique, copy, at, concept, calm>>
       \/ /\ {} \in Yields[Current(k)]
          /\ LeaveSource(k)
    /\ UNCHANGED world

\* INSERT ... ON CONFLICT (concept_name, source_id) DO NOTHING.
RecordMention(k) ==
    /\ step[k] = "mention"
    /\ Current(k) \notin Poison
    /\ \E c \in found[k] :
        /\ mentions' = mentions \cup {<<c, Current(k)>>}
        /\ concept' = [concept EXCEPT ![k] = {c}]
    /\ step' = [step EXCEPT ![k] = "propose"]
    /\ UNCHANGED <<feed, listed, artifact, proposed, unique, copy, at, found, calm>>

Newest(a, b) == IF a >= b THEN a ELSE b

ProposeTriple(k) ==
    /\ step[k] = "propose"
    /\ \E c \in concept[k] :
        /\ proposed' = [proposed EXCEPT ![<<c, Current(k)>>] =
                            Newest(@, copy[k][Current(k)])]
        /\ \/ /\ found[k] # {c}
              /\ found' = [found EXCEPT ![k] = @ \ {c}]
              /\ concept' = [concept EXCEPT ![k] = {}]
              /\ step' = [step EXCEPT ![k] = "mention"]
              /\ UNCHANGED <<unique, copy, at, calm>>
           \/ /\ found[k] = {c}
              /\ LeaveSource(k)
    /\ UNCHANGED <<feed, listed, artifact, mentions>>

\* A call fails, before or after it took effect, or the SLM answers with JSON
\* that is not an object: the exception leaves run().  A date that does not
\* parse raises every time.
Abort(k) ==
    /\ step[k] # "idle"
    /\ \/ "call" \in Faults /\ ~calm[k]
       \/ step[k] = "mention" /\ Current(k) \in Poison
    /\ EndRun(k)
    /\ UNCHANGED world

-----------------------------------------------------------------------------

Call(k) == StoreRaw(k) \/ Extract(k) \/ RecordMention(k) \/ ProposeTriple(k)

Next ==
    \/ \E s \in Sources : Publish(s) \/ Expire(s) \/ Relist(s)
    \/ \E k \in Scouts : Fetch(k) \/ Call(k) \/ Abort(k)

Spec == Init /\ [][Next]_vars

\* A run that has started goes on.  The rotation comes back to every category,
\* query and trend source, and not each of its runs loses a call.
FairSpec ==
    /\ Spec
    /\ \A k \in Scouts :
        WF_vars(Call(k) \/ Abort(k)) /\ SF_vars(Fetch(k) /\ calm'[k])

-----------------------------------------------------------------------------
(* Properties                                                              *)

\* Whatever calls fail and whichever scouts run side by side, a claim in the
\* queue has an artifact the Critic can read and a mention the Forecaster can
\* count: a Critic that finds no artifact rejects for good.
ClaimHasEvidence ==
    \A c \in Concepts, s \in Sources :
        proposed[<<c, s>>] > 0 => artifact[s] > 0 /\ <<c, s>> \in mentions

\* As long as one supervisor runs the scouts, the text in S3 is never older
\* than the text a claim was extracted from, also when two feeds list a source.
EvidenceNotOlder ==
    \A c \in Concepts, s \in Sources : proposed[<<c, s>>] <= artifact[s]

\* A run of k that fetched now would come as far as s: it lists s, and no
\* source on the way, s included, has a date that ends the run.
Reaches(k, s) == s \in Shown(k) /\ Shown(k) \cap (Before(s) \cup {s}) \cap Poison = {}

\* Aborted runs are made up for, as long as the source stays in the listing.
\* A text that a feed shows gets into S3, also behind a poisoned source, and
\* what the SLM always extracts from it is claimed, unless the source leaves
\* the first MaxItems entries, or a poisoned one gets in front of it, before a
\* run gets through.  What is gone by then is never made up for.
RunsCatchUp ==
    \A k \in Scouts : \A s \in Carries[k] : \A e \in 1 .. MaxEdition[s] :
        /\ s \in Shown(k) /\ feed[s] = e ~> s \notin Shown(k) \/ artifact[s] >= e
        /\ \A c \in Concepts : (\A F \in Yields[s] : c \in F) =>
                (Reaches(k, s) /\ feed[s] = e
                    ~> ~Reaches(k, s) \/ proposed[<<c, s>>] >= e)
=============================================================================
