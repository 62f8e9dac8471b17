----------------------------- MODULE ScoutProofs -----------------------------
(***************************************************************************)
(* Scout, proved for any number of scouts and feeds, whatever these carry  *)
(* and a run takes of them, every way the SLM may answer, every set of     *)
(* poisoned sources and any calls failing.                                 *)
(***************************************************************************)
EXTENDS Scout, TLAPS

-----------------------------------------------------------------------------
(* Types                                                                   *)

\* What the proofs use of the constants: places are numbers that name sources.
LEMMA Settings ==
    /\ Len(Listing) \in Nat /\ Places \in SUBSET Nat
    /\ \A i \in Places : Listing[i] \in Sources
    /\ \A s \in Sources : \E i \in Places : Listing[i] = s
    /\ Editions \in SUBSET Nat /\ 0 \in Editions
    /\ \A s \in Sources : Yields[s] \in SUBSET SUBSET Concepts
BY ScoutAssumption DEF Places, Sources, Editions

\* What following a place leads to.
LEMMA FollowsTypes ==
    ASSUME NEW S, NEW i, NEW j \in Places, Follows(S, i, j)
    PROVE  j \in Nat /\ Listing[j] \in S /\ i < j
BY Settings DEF Follows

\* The scouts that do not take the step keep the state of their run.
OthersKeep(k) ==
    \A j \in Scouts \ {k} :
        /\ step'[j] = step[j] /\ unique'[j] = unique[j] /\ copy'[j] = copy[j]
        /\ at'[j] = at[j] /\ found'[j] = found[j] /\ concept'[j] = concept[j]
        /\ calm'[j] = calm[j]

\* A run that goes on has the sources and the texts it fetched, and a place.
RunGoesOn(k) ==
    /\ step'[k] # "idle" /\ unique'[k] = unique[k] /\ copy'[k] = copy[k]
    /\ at'[k] \in Places /\ Listing[at'[k]] \in unique[k]

\* A run that is over has nothing.
RunIsOver(k) ==
    /\ step'[k] = "idle" /\ unique'[k] = {}
    /\ copy'[k] = [s \in Sources |-> 0] /\ at'[k] = 1 /\ concept'[k] = {}

\* The variables of the runs that the two parts of TypeOK speak of.
RunTypes ==
    /\ step \in [Scouts -> {"idle", "store", "extract", "mention", "propose"}]
    /\ unique \in [Scouts -> SUBSET Sources]
    /\ copy \in [Scouts -> [Sources -> Editions]]
    /\ at \in [Scouts -> Nat]
    /\ found \in [Scouts -> SUBSET Concepts]
    /\ concept \in [Scouts -> SUBSET Concepts]
    /\ calm \in [Scouts -> BOOLEAN]

LEMMA EndRunTypes ==
    ASSUME TypeOK, NEW k \in Scouts, EndRun(k)
    PROVE  RunTypes' /\ OthersKeep(k) /\ RunIsOver(k)
BY Settings DEF TypeOK, RunTypes, EndRun, OthersKeep, RunIsOver

LEMMA LeaveSourceTypes ==
    ASSUME TypeOK, NEW k \in Scouts, step[k] # "idle", LeaveSource(k)
    PROVE  /\ RunTypes' /\ OthersKeep(k)
           /\ \/ RunGoesOn(k) /\ step'[k] = "extract" /\ concept'[k] = {}
              \/ RunIsOver(k)
<1>1. CASE EndRun(k)
  BY <1>1, EndRunTypes
<1>2. ASSUME NEW i \in Places, Follows(unique[k], at[k], i),
             at' = [at EXCEPT ![k] = i], step' = [step EXCEPT ![k] = "extract"],
             found' = [found EXCEPT ![k] = {}],
             concept' = [concept EXCEPT ![k] = {}], UNCHANGED <<unique, copy, calm>>
      PROVE  /\ RunTypes' /\ OthersKeep(k) /\ RunGoesOn(k)
             /\ step'[k] = "extract" /\ concept'[k] = {}
  <2>1. i \in Nat /\ Listing[i] \in unique[k]
    BY <1>2, FollowsTypes
  <2> QED
    BY <1>2, <2>1 DEF TypeOK, RunTypes, OthersKeep, RunGoesOn
<1> QED
  BY <1>1, <1>2 DEF LeaveSource

\* The current source of a run is one of those it fetched.
LEMMA CurrentTypes ==
    ASSUME TypeOK, NEW k \in Scouts, step[k] # "idle"
    PROVE  /\ Current(k) \in Sources /\ Current(k) \in unique[k]
           /\ copy[k][Current(k)] \in Editions
BY DEF TypeOK, Current

\* What each step does to the run that takes it, and to no other.
LEMMA FetchMoves ==
    ASSUME TypeOK, NEW k \in Scouts, Fetch(k)
    PROVE  /\ RunTypes' /\ OthersKeep(k) /\ UNCHANGED world
           /\ step[k] = "idle" /\ step'[k] = "store"
           /\ unique'[k] = Shown(k) /\ copy'[k] = feed
           /\ at'[k] \in Places /\ Follows(Shown(k), 0, at'[k])
           /\ Listing[at'[k]] \in unique'[k]
<1>1. PICK i \in Places : Follows(Shown(k), 0, i) /\ at' = [at EXCEPT ![k] = i]
  BY DEF Fetch
<1>2. i \in Nat /\ Listing[i] \in Shown(k)
  BY <1>1, FollowsTypes
<1>3. Shown(k) \in SUBSET listed /\ listed \in SUBSET Sources
  BY DEF Shown, TypeOK
<1> QED
  BY <1>1, <1>2, <1>3 DEF Fetch, MayStart, TypeOK, RunTypes, OthersKeep, world

LEMMA StoreRawMoves ==
    ASSUME TypeOK, NEW k \in Scouts, StoreRaw(k)
    PROVE  /\ RunTypes' /\ OthersKeep(k) /\ RunGoesOn(k)
           /\ step[k] = "store" /\ concept'[k] = concept[k]
           /\ artifact' = [artifact EXCEPT ![Current(k)] = copy[k][Current(k)]]
           /\ UNCHANGED <<feed, listed, mentions, proposed>>
           /\ \/ step'[k] = "store" /\ Follows(unique[k], at[k], at'[k])
              \/ step'[k] = "extract" /\ NothingFollows(unique[k], at[k])
<1> USE DEF StoreRaw, Put, TypeOK, RunTypes, OthersKeep, RunGoesOn
<1>1. ASSUME NEW i \in Places, Follows(unique[k], at[k], i),
             at' = [at EXCEPT ![k] = i], UNCHANGED <<step, unique, copy, calm>>
      PROVE  /\ RunTypes' /\ OthersKeep(k) /\ RunGoesOn(k)
             /\ step'[k] = "store" /\ Follows(unique[k], at[k], at'[k])
  <2>1. i \in Nat /\ Listing[i] \in unique[k] /\ at'[k] = i
    BY <1>1, FollowsTypes
  <2> QED
    BY <1>1, <2>1
<1>2. ASSUME NothingFollows(unique[k], at[k]),
             NEW i \in Places, Follows(unique[k], 0, i),
             at' = [at EXCEPT ![k] = i], step' = [step EXCEPT ![k] = "extract"],
             UNCHANGED <<unique, copy, calm>>
      PROVE  /\ RunTypes' /\ OthersKeep(k) /\ RunGoesOn(k)
             /\ step'[k] = "extract" /\ NothingFollows(unique[k], at[k])
  <2>1. i \in Nat /\ Listing[i] \in unique[k] /\ at'[k] = i
    BY <1>2, FollowsTypes
  <2> QED
    BY <1>2, <2>1
<1> QED
  BY <1>1, <1>2 DEF NextSource

LEMMA ExtractMoves ==
    ASSUME TypeOK, NEW k \in Scouts, Extract(k)
    PROVE  /\ RunTypes' /\ OthersKeep(k) /\ UNCHANGED world
           /\ step[k] = "extract"
           /\ \/ RunGoesOn(k) /\ step'[k] \in {"extract", "mention"}
              \/ RunIsOver(k)
<1>1. ASSUME NEW F \in Yields[Current(k)] \ {{}}, found' = [found EXCEPT ![k] = F],
             step' = [step EXCEPT ![k] = "mention"],
             UNCHANGED <<unique, copy, at, concept, calm>>, step[k] = "extract"
      PROVE  /\ RunTypes' /\ OthersKeep(k)
             /\ RunGoesOn(k) /\ step'[k] = "mention"
  <2>1. F \in SUBSET Concepts
    BY <1>1, CurrentTypes, Settings
  <2> QED
    BY <1>1, <2>1 DEF TypeOK, RunTypes, OthersKeep, RunGoesOn
<1> QED
  BY <1>1, LeaveSourceTypes DEF Extract

LEMMA RecordMentionMoves ==
    ASSUME TypeOK, NEW k \in Scouts, RecordMention(k)
    PROVE  /\ RunTypes' /\ OthersKeep(k) /\ RunGoesOn(k)
           /\ step[k] = "mention" /\ step'[k] = "propose" /\ at'[k] = at[k]
           /\ \E c \in Concepts : /\ concept'[k] = {c}
                                  /\ mentions' = mentions \cup {<<c, Current(k)>>}
           /\ UNCHANGED <<feed, listed, artifact, proposed>>
BY DEF RecordMention, TypeOK, RunTypes, OthersKeep, RunGoesOn

LEMMA ProposeTripleMoves ==
    ASSUME TypeOK, NEW k \in Scouts, ProposeTriple(k)
    PROVE  /\ RunTypes' /\ OthersKeep(k)
           /\ step[k] = "propose"
           /\ \E c \in concept[k] :
                /\ c \in Concepts
                /\ proposed' = [proposed EXCEPT ![<<c, Current(k)>>] =
                                    Newest(@, copy[k][Current(k)])]
           /\ \/ RunGoesOn(k) /\ step'[k] \in {"extract", "mention"}
              \/ RunIsOver(k)
           /\ UNCHANGED <<feed, listed, artifact, mentions>>
<1>1. PICK c \in concept[k] :
        /\ proposed' = [proposed EXCEPT ![<<c, Current(k)>>] =
                            Newest(@, copy[k][Current(k)])]
        /\ \/ /\ found' = [found EXCEPT ![k] = @ \ {c}]
              /\ concept' = [concept EXCEPT ![k] = {}]
              /\ step' = [step EXCEPT ![k] = "mention"]
              /\ UNCHANGED <<unique, copy, at, calm>>
           \/ LeaveSource(k)
  BY DEF ProposeTriple
<1>2. step[k] = "propose" /\ UNCHANGED <<feed, listed, artifact, mentions>>
  BY DEF ProposeTriple
<1>3. c \in Concepts
  BY DEF TypeOK
<1>4. CASE /\ found' = [found EXCEPT ![k] = @ \ {c}]
           /\ concept' = [concept EXCEPT ![k] = {}]
           /\ step' = [step EXCEPT ![k] = "mention"]
           /\ UNCHANGED <<unique, copy, at, calm>>
  <2>1. RunTypes' /\ OthersKeep(k) /\ RunGoesOn(k) /\ step'[k] = "mention"
    BY <1>2, <1>4 DEF TypeOK, RunTypes, OthersKeep, RunGoesOn
  <2> QED
    BY <1>1, <1>2, <1>3, <2>1
<1>5. CASE LeaveSource(k)
  BY <1>1, <1>2, <1>3, <1>5, LeaveSourceTypes
<1> QED
  BY <1>1, <1>4, <1>5

\* The second half of TypeOK, after the scout that took the step is known to
\* be in order: the others are where they were.
LEMMA PlacesStay ==
    ASSUME TypeOK, NEW k \in Scouts, OthersKeep(k), RunGoesOn(k) \/ RunIsOver(k)
    PROVE  \A j \in Scouts : step'[j] # "idle" =>
               at'[j] \in Places /\ Listing[at'[j]] \in unique'[j]
BY DEF TypeOK, OthersKeep, RunGoesOn, RunIsOver

LEMMA TypeStep == TypeOK /\ [Next]_vars => TypeOK'
<1> SUFFICES ASSUME TypeOK, [Next]_vars PROVE TypeOK'
  OBVIOUS
<1> DEFINE WorldTypes ==
      /\ feed' \in [Sources -> Editions]
      /\ listed' \subseteq {s \in Sources : feed'[s] > 0}
      /\ artifact' \in [Sources -> Editions]
      /\ mentions' \subseteq Claims /\ proposed' \in [Claims -> Editions]
    RunPlaces == \A j \in Scouts : step'[j] # "idle" =>
                     at'[j] \in Places /\ Listing[at'[j]] \in unique'[j]
<1>1. WorldTypes /\ RunTypes' /\ RunPlaces => TypeOK'
  BY DEF TypeOK, RunTypes
<1>2. UNCHANGED world => WorldTypes
  BY DEF world, TypeOK
<1>3. UNCHANGED run => RunTypes' /\ RunPlaces
  BY DEF run, TypeOK, RunTypes
<1>4. ASSUME NEW s \in Sources, Publish(s) \/ Expire(s) \/ Relist(s) PROVE TypeOK'
  <2>1. CASE Publish(s)
    <3>1. feed[s] + 1 \in Editions /\ feed[s] + 1 > 0
      BY Settings DEF TypeOK, Editions
    <3>2. /\ feed' \in [Sources -> Editions] /\ feed'[s] > 0
          /\ \A x \in Sources : feed[x] > 0 => feed'[x] > 0
      BY <2>1, <3>1 DEF Publish, TypeOK
    <3> QED
      BY <1>1, <1>3, <2>1, <3>2 DEF Publish, TypeOK
  <2>2. CASE Expire(s) \/ Relist(s)
    BY <1>1, <1>3, <2>2 DEF Expire, Relist, TypeOK
  <2> QED
    BY <1>4, <2>1, <2>2
<1>5. ASSUME NEW k \in Scouts, Fetch(k) PROVE TypeOK'
  <2>1. RunTypes' /\ UNCHANGED world /\ OthersKeep(k)
        /\ at'[k] \in Places /\ Listing[at'[k]] \in unique'[k]
    BY <1>5, FetchMoves
  <2>2. RunPlaces
    BY <2>1 DEF OthersKeep, TypeOK
  <2> QED
    BY <1>1, <1>2, <2>1, <2>2
<1>6. ASSUME NEW k \in Scouts, StoreRaw(k) PROVE TypeOK'
  <2>1. RunTypes' /\ RunPlaces
    BY <1>6, StoreRawMoves, PlacesStay
  <2>2. WorldTypes
    BY <1>6, StoreRawMoves, CurrentTypes DEF TypeOK
  <2> QED
    BY <1>1, <2>1, <2>2
<1>7. ASSUME NEW k \in Scouts, Extract(k) PROVE TypeOK'
  BY <1>1, <1>2, <1>7, ExtractMoves, PlacesStay
<1>8. ASSUME NEW k \in Scouts, RecordMention(k) PROVE TypeOK'
  <2>1. RunTypes' /\ RunPlaces
    BY <1>8, RecordMentionMoves, PlacesStay
  <2>2. WorldTypes
    BY <1>8, RecordMentionMoves, CurrentTypes DEF TypeOK, Claims
  <2> QED
    BY <1>1, <2>1, <2>2
<1>9. ASSUME NEW k \in Scouts, ProposeTriple(k) PROVE TypeOK'
  <2>1. RunTypes' /\ RunPlaces
    BY <1>9, ProposeTripleMoves, PlacesStay
  <2>2. PICK c \in Concepts :
          proposed' = [proposed EXCEPT ![<<c, Current(k)>>] =
                          Newest(@, copy[k][Current(k)])]
    BY <1>9, ProposeTripleMoves
  <2>3. <<c, Current(k)>> \in Claims /\ copy[k][Current(k)] \in Editions
    BY <1>9, ProposeTripleMoves, CurrentTypes DEF Claims
  <2>4. Newest(proposed[<<c, Current(k)>>], copy[k][Current(k)]) \in Editions
    BY <2>3 DEF Newest, TypeOK
  <2>5. WorldTypes
    BY <1>9, ProposeTripleMoves, <2>2, <2>3, <2>4 DEF TypeOK
  <2> QED
    BY <1>1, <2>1, <2>5
<1>10. ASSUME NEW k \in Scouts, Abort(k) PROVE TypeOK'
  <2>1. UNCHANGED world /\ EndRun(k)
    BY <1>10 DEF Abort
  <2> QED
    BY <1>1, <1>2, <2>1, EndRunTypes, PlacesStay
<1>11. CASE UNCHANGED vars
  BY <1>1, <1>2, <1>3, <1>11 DEF vars, world, run
<1> QED
  BY <1>4, <1>5, <1>6, <1>7, <1>8, <1>9, <1>10, <1>11 DEF Next, Call

\* Every variable keeps its type, and a run that goes on is always at a source
\* it fetched: the place never leaves the list, whatever step the run is at.
THEOREM TypeCorrect == Spec => []TypeOK
<1>1. Init => TypeOK
  BY Settings DEF Init, TypeOK, Claims
<1> QED
  BY <1>1, TypeStep, PTL DEF Spec

-----------------------------------------------------------------------------
(* A claim has its evidence                                                *)

\* A run fetches only what the feed shows.
Fetched == \A k \in Scouts, s \in Sources : s \in unique[k] => copy[k][s] > 0

\* The run's loop over the artifacts has passed place i.
Passed(k, i) ==
    \/ step[k] \in {"extract", "mention", "propose"}
    \/ step[k] = "store" /\ i < at[k]

\* What the loop has passed is in S3: no claim is made before.
ArtifactsFirst ==
    \A k \in Scouts, i \in Places :
        Listing[i] \in unique[k] /\ Passed(k, i) => artifact[Listing[i]] > 0

\* A concept about to be proposed has been recorded as mentioned.
MentionsFirst ==
    \A k \in Scouts : step[k] = "propose" =>
        \A c \in concept[k] : <<c, Current(k)>> \in mentions

EvidenceInv ==
    /\ TypeOK /\ Fetched /\ ArtifactsFirst /\ MentionsFirst
    /\ ClaimHasEvidence

\* Steps only add to what S3 and mention_events hold.
LEMMA EvidenceStays ==
    ASSUME EvidenceInv, [Next]_vars
    PROVE  /\ \A s \in Sources : artifact[s] > 0 => artifact'[s] > 0
           /\ mentions \subseteq mentions'
<1>1. TypeOK
  BY DEF EvidenceInv
<1>2. ASSUME NEW k \in Scouts, StoreRaw(k)
      PROVE  /\ \A s \in Sources : artifact[s] > 0 => artifact'[s] > 0
             /\ mentions' = mentions
  <2>1. step[k] # "idle"
    BY <1>2 DEF StoreRaw
  <2>2. Current(k) \in Sources /\ copy[k][Current(k)] > 0
    BY <1>1, <2>1, CurrentTypes DEF EvidenceInv, Fetched
  <2>3. /\ artifact' = [artifact EXCEPT ![Current(k)] = copy[k][Current(k)]]
        /\ mentions' = mentions
    BY <1>1, <1>2, StoreRawMoves
  <2> QED
    BY <1>1, <2>2, <2>3 DEF TypeOK
<1>3. ASSUME NEW k \in Scouts, RecordMention(k)
      PROVE  artifact' = artifact /\ mentions \subseteq mentions'
  BY <1>3 DEF RecordMention
<1> QED
  BY <1>2, <1>3
  DEF Next, Call, vars, Publish, Expire, Relist, Fetch, Extract, ProposeTriple, Abort, world

LEMMA FetchedStep == TypeOK /\ Fetched /\ [Next]_vars => Fetched'
<1> SUFFICES ASSUME TypeOK, Fetched, [Next]_vars PROVE Fetched'
  OBVIOUS
<1>1. UNCHANGED run => Fetched'
  BY DEF run, Fetched
<1>2. ASSUME NEW k \in Scouts, Fetch(k) PROVE Fetched'
  <2>1. unique'[k] = Shown(k) /\ copy'[k] = feed /\ OthersKeep(k)
    BY <1>2, FetchMoves
  <2>2. \A s \in Shown(k) : feed[s] > 0
    BY DEF Shown, TypeOK
  <2> QED
    BY <2>1, <2>2 DEF Fetched, OthersKeep
<1>3. ASSUME NEW k \in Scouts, OthersKeep(k), RunGoesOn(k) \/ RunIsOver(k)
      PROVE  Fetched'
  BY <1>3 DEF Fetched, OthersKeep, RunGoesOn, RunIsOver
<1>4. ASSUME NEW k \in Scouts, Abort(k) PROVE Fetched'
  BY <1>3, <1>4, EndRunTypes DEF Abort
<1>5. ASSUME NEW k \in Scouts, Call(k) PROVE Fetched'
  BY <1>3, <1>5, StoreRawMoves, ExtractMoves, RecordMentionMoves, ProposeTripleMoves
  DEF Call
<1> QED
  BY <1>1, <1>2, <1>4, <1>5 DEF Next, vars, run, Publish, Expire, Relist

\* The place a run is at is among those it has fetched; what it leaves behind
\* when it moves on is what it has just stored, or is not of its run.
LEMMA PassedGrows ==
    ASSUME TypeOK, NEW k \in Scouts, StoreRaw(k),
           NEW i \in Places, Listing[i] \in unique[k], Passed(k, i)'
    PROVE  Passed(k, i) \/ i = at[k]
<1>1. step[k] = "store" /\ i \in Nat /\ at[k] \in Nat
  BY StoreRawMoves, Settings DEF TypeOK
<1>2. CASE step'[k] = "store" /\ Follows(unique[k], at[k], at'[k])
  <2>1. i < at'[k] /\ at'[k] \in Nat
    BY <1>2, StoreRawMoves, Settings DEF Passed, RunGoesOn
  <2>2. ~(at[k] < i)
    BY <1>2, <2>1 DEF Follows
  <2> QED
    BY <1>1, <2>2 DEF Passed
<1>3. CASE NothingFollows(unique[k], at[k])
  BY <1>1, <1>3 DEF NothingFollows, Passed
<1> QED
  BY <1>2, <1>3, StoreRawMoves

LEMMA ArtifactsFirstStep == EvidenceInv /\ [Next]_vars => ArtifactsFirst'
<1> SUFFICES ASSUME EvidenceInv, [Next]_vars PROVE ArtifactsFirst'
  OBVIOUS
<1>1. TypeOK /\ ArtifactsFirst /\ \A s \in Sources : artifact[s] > 0 => artifact'[s] > 0
  BY EvidenceStays DEF EvidenceInv
<1>2. ASSUME NEW k \in Scouts, NEW i \in Places, Listing[i] \in unique[k], Passed(k, i)
      PROVE  artifact'[Listing[i]] > 0
  BY <1>1, <1>2, Settings DEF ArtifactsFirst
<1>3. UNCHANGED run => ArtifactsFirst'
  BY <1>2 DEF run, ArtifactsFirst, Passed
<1>4. ASSUME NEW k \in Scouts, OthersKeep(k),
             \A i \in Places : Listing[i] \in unique'[k] /\ Passed(k, i)' =>
                                   artifact'[Listing[i]] > 0
      PROVE  ArtifactsFirst'
  BY <1>2, <1>4 DEF ArtifactsFirst, Passed, OthersKeep
<1>5. ASSUME NEW k \in Scouts, Fetch(k) PROVE ArtifactsFirst'
  <2>1. ASSUME NEW i \in Places, Listing[i] \in unique'[k], Passed(k, i)' PROVE FALSE
    <3>1. i < at'[k] /\ at'[k] \in Places /\ Follows(Shown(k), 0, at'[k]) /\ Listing[i] \in Shown(k)
      BY <1>1, <1>5, <2>1, FetchMoves DEF Passed
    <3>2. ~(0 < i)
      BY <3>1 DEF Follows
    <3> QED
      BY <3>2 DEF Places
  <2> QED
    BY <1>1, <1>4, <1>5, <2>1, FetchMoves
<1>6. ASSUME NEW k \in Scouts, StoreRaw(k) PROVE ArtifactsFirst'
  <2>1. step[k] # "idle" /\ unique'[k] = unique[k] /\ OthersKeep(k)
    BY <1>1, <1>6, StoreRawMoves DEF RunGoesOn
  <2>2. artifact'[Current(k)] > 0
    BY <1>1, <1>6, <2>1, StoreRawMoves, CurrentTypes DEF EvidenceInv, Fetched, TypeOK
  <2>3. ASSUME NEW i \in Places, Listing[i] \in unique'[k], Passed(k, i)'
        PROVE  artifact'[Listing[i]] > 0
    <3>1. Passed(k, i) \/ i = at[k]
      BY <1>1, <1>6, <2>1, <2>3, PassedGrows
    <3> QED
      BY <1>2, <2>1, <2>2, <2>3, <3>1 DEF Current
  <2> QED
    BY <1>4, <2>1, <2>3
<1>7. ASSUME NEW k \in Scouts, OthersKeep(k), step[k] \in {"extract", "mention", "propose"},
             RunGoesOn(k) \/ RunIsOver(k)
      PROVE  ArtifactsFirst'
  <2>1. ASSUME NEW i \in Places, Listing[i] \in unique'[k]
        PROVE  artifact'[Listing[i]] > 0
    <3>1. Listing[i] \in unique[k] /\ Passed(k, i)
      BY <1>7, <2>1 DEF RunGoesOn, RunIsOver, Passed
    <3> QED
      BY <1>2, <3>1
  <2> QED
    BY <1>4, <1>7, <2>1
<1>8. ASSUME NEW k \in Scouts, Abort(k) PROVE ArtifactsFirst'
  BY <1>1, <1>4, <1>8, EndRunTypes DEF Abort, RunIsOver
<1>9. ASSUME NEW k \in Scouts, Extract(k) \/ RecordMention(k) \/ ProposeTriple(k)
      PROVE  ArtifactsFirst'
  BY <1>1, <1>7, <1>9, ExtractMoves, RecordMentionMoves, ProposeTripleMoves
<1> QED
  BY <1>3, <1>5, <1>6, <1>8, <1>9 DEF Next, Call, vars, run, Publish, Expire, Relist

LEMMA MentionsFirstStep == EvidenceInv /\ [Next]_vars => MentionsFirst'
<1> SUFFICES ASSUME EvidenceInv, [Next]_vars PROVE MentionsFirst'
  OBVIOUS
<1>1. TypeOK /\ MentionsFirst /\ mentions \subseteq mentions'
  BY EvidenceStays DEF EvidenceInv
<1>2. UNCHANGED run => MentionsFirst'
  BY <1>1 DEF run, MentionsFirst, Current
<1>3. ASSUME NEW k \in Scouts, OthersKeep(k),
             step'[k] = "propose" => \A c \in concept'[k] : <<c, Current(k)'>> \in mentions'
      PROVE  MentionsFirst'
  BY <1>1, <1>3 DEF MentionsFirst, Current, OthersKeep
<1>4. ASSUME NEW k \in Scouts, RecordMention(k) PROVE MentionsFirst'
  BY <1>1, <1>3, <1>4, RecordMentionMoves DEF Current
<1>5. ASSUME NEW k \in Scouts, OthersKeep(k), step'[k] # "propose" PROVE MentionsFirst'
  BY <1>3, <1>5
<1>6. ASSUME NEW k \in Scouts, Fetch(k) \/ StoreRaw(k) \/ Extract(k) \/ ProposeTriple(k)
      PROVE  MentionsFirst'
  BY <1>1, <1>5, <1>6, FetchMoves, StoreRawMoves, ExtractMoves, ProposeTripleMoves
  DEF RunIsOver
<1>7. ASSUME NEW k \in Scouts, Abort(k) PROVE MentionsFirst'
  BY <1>1, <1>5, <1>7, EndRunTypes DEF Abort, RunIsOver
<1> QED
  BY <1>2, <1>4, <1>6, <1>7 DEF Next, Call, vars, run, Publish, Expire, Relist

LEMMA ClaimHasEvidenceStep == EvidenceInv /\ [Next]_vars => ClaimHasEvidence'
<1> SUFFICES ASSUME EvidenceInv, [Next]_vars PROVE ClaimHasEvidence'
  OBVIOUS
<1>1. /\ TypeOK /\ ClaimHasEvidence /\ mentions \subseteq mentions'
      /\ \A s \in Sources : artifact[s] > 0 => artifact'[s] > 0
  BY EvidenceStays DEF EvidenceInv
<1>2. proposed' = proposed => ClaimHasEvidence'
  BY <1>1 DEF ClaimHasEvidence
<1>3. ASSUME NEW k \in Scouts, ProposeTriple(k) PROVE ClaimHasEvidence'
  <2>1. PICK c \in concept[k] :
          proposed' = [proposed EXCEPT ![<<c, Current(k)>>] =
                          Newest(@, copy[k][Current(k)])]
    BY <1>1, <1>3, ProposeTripleMoves
  <2>2. step[k] = "propose" /\ artifact' = artifact /\ mentions' = mentions
    BY <1>1, <1>3, ProposeTripleMoves
  <2>3. <<c, Current(k)>> \in mentions
    BY <2>2 DEF EvidenceInv, MentionsFirst
  <2>4. artifact[Current(k)] > 0
    BY <1>1, <2>2 DEF EvidenceInv, ArtifactsFirst, Passed, TypeOK, Current
  <2>5. ASSUME NEW d \in Concepts, NEW s \in Sources, <<d, s>> # <<c, Current(k)>>
        PROVE  proposed'[<<d, s>>] = proposed[<<d, s>>]
    BY <1>1, <2>1, <2>5 DEF TypeOK, Claims
  <2> QED
    BY <1>1, <2>2, <2>3, <2>4, <2>5 DEF ClaimHasEvidence
<1> QED
  BY <1>2, <1>3
  DEF Next, Call, vars, Publish, Expire, Relist, Fetch, StoreRaw, Extract, RecordMention, Abort, world

\* Whatever calls fail and however many scouts run side by side, a claim in
\* the queue has an artifact in S3 and a mention in the database: the order of
\* the calls alone, artifacts before mentions before claims, ensures it.
THEOREM ClaimHasEvidenceHolds == Spec => []ClaimHasEvidence
<1>1. Init => EvidenceInv
  <2>1. Init => TypeOK
    BY Settings DEF Init, TypeOK, Claims
  <2>2. Init => Fetched /\ ArtifactsFirst /\ MentionsFirst /\ ClaimHasEvidence
    BY DEF Init, Fetched, ArtifactsFirst, MentionsFirst, ClaimHasEvidence, Claims, Passed
  <2> QED
    BY <2>1, <2>2 DEF EvidenceInv
<1>2. EvidenceInv /\ [Next]_vars => EvidenceInv'
  BY TypeStep, FetchedStep, ArtifactsFirstStep, MentionsFirstStep, ClaimHasEvidenceStep
  DEF EvidenceInv
<1>3. EvidenceInv => ClaimHasEvidence
  BY DEF EvidenceInv
<1> QED
  BY <1>1, <1>2, <1>3, PTL DEF Spec

-----------------------------------------------------------------------------
(* One supervisor's evidence is not older than its claims                  *)

\* The supervisor runs one scout at a time.
OneAtATime == \A j, k \in Scouts : step[j] # "idle" /\ step[k] # "idle" => j = k

LEMMA OneAtATimeStep == Serial /\ TypeOK /\ OneAtATime /\ [Next]_vars => OneAtATime'
<1> SUFFICES ASSUME Serial, TypeOK, OneAtATime, [Next]_vars PROVE OneAtATime'
  OBVIOUS
<1>1. UNCHANGED step => OneAtATime'
  BY DEF OneAtATime
<1>2. ASSUME NEW k \in Scouts, Fetch(k) PROVE OneAtATime'
  BY <1>2, FetchMoves DEF Fetch, MayStart, OneAtATime, OthersKeep
<1>3. ASSUME NEW k \in Scouts, step[k] # "idle", OthersKeep(k) PROVE OneAtATime'
  BY <1>3 DEF OneAtATime, OthersKeep
<1>4. ASSUME NEW k \in Scouts, Call(k) PROVE OneAtATime'
  BY <1>3, <1>4, StoreRawMoves, ExtractMoves, RecordMentionMoves, ProposeTripleMoves
  DEF Call
<1>5. ASSUME NEW k \in Scouts, Abort(k) PROVE OneAtATime'
  BY <1>3, <1>5, EndRunTypes DEF Abort
<1> QED
  BY <1>1, <1>2, <1>4, <1>5 DEF Next, vars, run, Publish, Expire, Relist

\* S3 and the runs hold nothing newer than what the feed shows.
NothingNewer ==
    \A s \in Sources :
        /\ artifact[s] <= feed[s]
        /\ \A k \in Scouts : copy[k][s] <= feed[s]

\* During a run S3 holds what earlier runs left or what this one fetched, and
\* what the run has passed it holds as fetched.
StoresAsFetched ==
    \A k \in Scouts : step[k] # "idle" =>
        /\ \A s \in unique[k] : artifact[s] <= copy[k][s]
        /\ \A i \in Places : Listing[i] \in unique[k] /\ Passed(k, i) =>
                                 artifact[Listing[i]] = copy[k][Listing[i]]

OrderInv ==
    /\ TypeOK /\ OneAtATime /\ NothingNewer /\ StoresAsFetched
    /\ EvidenceNotOlder

\* Editions are numbers.
LEMMA EditionsAreNumbers ==
    ASSUME TypeOK
    PROVE  /\ \A s \in Sources : feed[s] \in Nat /\ artifact[s] \in Nat
           /\ \A k \in Scouts, s \in Sources : copy[k][s] \in Nat
           /\ \A c \in Concepts, s \in Sources : proposed[<<c, s>>] \in Nat
<1>1. ASSUME NEW k \in Scouts, NEW s \in Sources PROVE copy[k][s] \in Nat
  <2>1. copy[k] \in [Sources -> Editions]
    BY DEF TypeOK
  <2> QED
    BY <2>1, Settings
<1>2. ASSUME NEW s \in Sources PROVE feed[s] \in Nat /\ artifact[s] \in Nat
  BY Settings DEF TypeOK
<1>3. ASSUME NEW c \in Concepts, NEW s \in Sources PROVE proposed[<<c, s>>] \in Nat
  BY Settings DEF TypeOK, Claims
<1> QED
  BY <1>1, <1>2, <1>3

LEMMA NothingNewerStep == TypeOK /\ NothingNewer /\ [Next]_vars => NothingNewer'
<1> SUFFICES ASSUME TypeOK, NothingNewer, [Next]_vars PROVE NothingNewer'
  OBVIOUS
<1> USE DEF NothingNewer
<1>0. ASSUME NEW s \in Sources, Expire(s) \/ Relist(s) PROVE NothingNewer'
  BY <1>0 DEF Expire, Relist, run
<1>1. ASSUME NEW s \in Sources, Publish(s) PROVE NothingNewer'
  <2>1. \A x \in Sources : feed'[x] \in Nat /\ feed[x] \in Nat /\ feed[x] <= feed'[x]
    BY <1>1, EditionsAreNumbers DEF Publish, TypeOK
  <2>2. ASSUME NEW x \in Sources
        PROVE  /\ artifact'[x] = artifact[x] /\ artifact[x] \in Nat
               /\ \A k \in Scouts : copy'[k][x] = copy[k][x] /\ copy[k][x] \in Nat
    BY <1>1, EditionsAreNumbers DEF Publish, run
  <2>3. ASSUME NEW x \in Sources, NEW k \in Scouts
        PROVE  artifact'[x] <= feed'[x] /\ copy'[k][x] <= feed'[x]
    BY <2>1, <2>2
  <2>4. ASSUME NEW x \in Sources PROVE artifact'[x] <= feed'[x]
    BY <2>1, <2>2
  <2> QED
    BY <2>3, <2>4
<1>2. ASSUME NEW k \in Scouts, Fetch(k) PROVE NothingNewer'
  <2>1. ASSUME NEW s \in Sources, NEW j \in Scouts PROVE copy'[j][s] <= feed'[s]
    BY <1>2, FetchMoves, EditionsAreNumbers DEF OthersKeep, world
  <2> QED
    BY <1>2, <2>1, FetchMoves DEF world
<1>3. ASSUME NEW k \in Scouts, OthersKeep(k), RunGoesOn(k) \/ RunIsOver(k),
             feed' = feed, \A s \in Sources : artifact'[s] <= feed[s]
      PROVE  NothingNewer'
  <2>1. ASSUME NEW s \in Sources, NEW j \in Scouts PROVE copy'[j][s] <= feed'[s]
    <3>1. copy'[j] = copy[j] \/ copy'[j] = [x \in Sources |-> 0]
      BY <1>3 DEF OthersKeep, RunGoesOn, RunIsOver
    <3> QED
      BY <1>3, <3>1, EditionsAreNumbers
  <2> QED
    BY <1>3, <2>1
<1>4. ASSUME NEW k \in Scouts, StoreRaw(k) PROVE NothingNewer'
  <2>1. step[k] = "store" /\ Current(k) \in Sources
    BY <1>4, StoreRawMoves, CurrentTypes
  <2>2. \A s \in Sources : artifact'[s] <= feed[s]
    BY <1>4, <2>1, StoreRawMoves DEF TypeOK
  <2> QED
    BY <1>3, <1>4, <2>2, StoreRawMoves
<1>5. ASSUME NEW k \in Scouts, Extract(k) \/ RecordMention(k) \/ ProposeTriple(k)
      PROVE  NothingNewer'
  BY <1>3, <1>5, ExtractMoves, RecordMentionMoves, ProposeTripleMoves DEF world
<1>6. ASSUME NEW k \in Scouts, Abort(k) PROVE NothingNewer'
  BY <1>3, <1>6, EndRunTypes DEF Abort, world
<1>7. CASE UNCHANGED vars
  BY <1>7 DEF vars
<1> QED
  BY <1>0, <1>1, <1>2, <1>4, <1>5, <1>6, <1>7 DEF Next, Call

LEMMA StoresAsFetchedStep == Serial /\ OrderInv /\ [Next]_vars => StoresAsFetched'
<1> SUFFICES ASSUME Serial, OrderInv, [Next]_vars PROVE StoresAsFetched'
  OBVIOUS
<1>1. TypeOK /\ OneAtATime /\ NothingNewer /\ StoresAsFetched
  BY DEF OrderInv
<1>2. UNCHANGED <<artifact, run>> => StoresAsFetched'
  BY <1>1 DEF StoresAsFetched, run, Passed
<1>3. ASSUME NEW k \in Scouts, OthersKeep(k),
             \A j \in Scouts \ {k} : step[j] = "idle",
             step'[k] # "idle" =>
                /\ \A s \in unique'[k] : artifact'[s] <= copy'[k][s]
                /\ \A i \in Places : Listing[i] \in unique'[k] /\ Passed(k, i)' =>
                                 artifact'[Listing[i]] = copy'[k][Listing[i]]
      PROVE  StoresAsFetched'
  BY <1>3 DEF OthersKeep, StoresAsFetched, Passed
<1>9. ASSUME NEW k \in Scouts, step[k] # "idle"
      PROVE  \A j \in Scouts \ {k} : step[j] = "idle"
  BY <1>1, <1>9 DEF OneAtATime
<1>4. ASSUME NEW k \in Scouts, Fetch(k) PROVE StoresAsFetched'
  <2>1. \A s \in unique'[k] : artifact'[s] <= copy'[k][s]
    BY <1>1, <1>4, FetchMoves DEF NothingNewer, TypeOK, Shown, world
  <2>2. ASSUME NEW i \in Places, Listing[i] \in unique'[k], Passed(k, i)' PROVE FALSE
    <3>1. i < at'[k] /\ at'[k] \in Places /\ Follows(Shown(k), 0, at'[k]) /\ Listing[i] \in Shown(k)
      BY <1>1, <1>4, <2>2, FetchMoves DEF Passed
    <3>2. ~(0 < i)
      BY <3>1 DEF Follows
    <3> QED
      BY <3>2 DEF Places
  <2>3. OthersKeep(k) /\ \A j \in Scouts \ {k} : step[j] = "idle"
    BY <1>1, <1>4, FetchMoves DEF Fetch, MayStart
  <2> QED
    BY <1>3, <2>1, <2>2, <2>3
<1>5. ASSUME NEW k \in Scouts, StoreRaw(k) PROVE StoresAsFetched'
  <2>1. /\ step[k] = "store" /\ unique'[k] = unique[k] /\ copy'[k] = copy[k]
        /\ artifact' = [artifact EXCEPT ![Current(k)] = copy[k][Current(k)]]
        /\ Current(k) \in Sources /\ OthersKeep(k)
    BY <1>1, <1>5, StoreRawMoves, CurrentTypes DEF RunGoesOn
  <2>2. ASSUME NEW s \in unique[k]
        PROVE  /\ artifact'[s] = artifact[s] \/ artifact'[s] = copy[k][s]
               /\ artifact[s] \in Nat /\ copy[k][s] \in Nat /\ artifact[s] <= copy[k][s]
    <3>1. s \in Sources /\ artifact \in [Sources -> Editions]
          /\ copy[k] \in [Sources -> Editions]
      BY <1>1 DEF TypeOK
    <3>2. artifact[s] \in Nat /\ copy[k][s] \in Nat
      BY <3>1, Settings
    <3>3. artifact[s] <= copy[k][s]
      BY <1>1, <2>1 DEF StoresAsFetched
    <3> QED
      BY <2>1, <3>1, <3>2, <3>3
  <2>3. \A s \in unique'[k] : artifact'[s] <= copy'[k][s]
    BY <2>1, <2>2
  <2>4. ASSUME NEW i \in Places, Listing[i] \in unique'[k], Passed(k, i)'
        PROVE  artifact'[Listing[i]] = copy'[k][Listing[i]]
    <3>1. Passed(k, i) \/ Listing[i] = Current(k)
      BY <1>1, <1>5, <2>1, <2>4, PassedGrows DEF Current
    <3>2. CASE Listing[i] = Current(k)
      BY <1>1, <2>1, <3>2 DEF TypeOK
    <3>3. CASE Passed(k, i)
      BY <1>1, <2>1, <2>2, <2>4, <3>3 DEF StoresAsFetched
    <3> QED
      BY <3>1, <3>2, <3>3
  <2> QED
    BY <1>3, <1>9, <2>1, <2>3, <2>4
<1>6. ASSUME NEW k \in Scouts, OthersKeep(k), artifact' = artifact, step[k] \in {"extract", "mention", "propose"},
             RunGoesOn(k) \/ RunIsOver(k)
      PROVE  StoresAsFetched'
  BY <1>1, <1>3, <1>9, <1>6 DEF RunGoesOn, RunIsOver, StoresAsFetched, Passed
<1>7. ASSUME NEW k \in Scouts, Extract(k) \/ RecordMention(k) \/ ProposeTriple(k)
      PROVE  StoresAsFetched'
  BY <1>1, <1>6, <1>7, ExtractMoves, RecordMentionMoves, ProposeTripleMoves DEF world
<1>8. ASSUME NEW k \in Scouts, Abort(k) PROVE StoresAsFetched'
  BY <1>1, <1>3, <1>9, <1>8, EndRunTypes DEF Abort, RunIsOver
<1> QED
  BY <1>2, <1>4, <1>5, <1>7, <1>8 DEF Next, Call, vars, run, Publish, Expire, Relist

LEMMA EvidenceNotOlderStep == OrderInv /\ [Next]_vars => EvidenceNotOlder'
<1> SUFFICES ASSUME OrderInv, [Next]_vars PROVE EvidenceNotOlder'
  OBVIOUS
<1>1. TypeOK /\ StoresAsFetched /\ EvidenceNotOlder
  BY DEF OrderInv
<1>2. UNCHANGED <<artifact, proposed>> => EvidenceNotOlder'
  BY <1>1 DEF EvidenceNotOlder
<1>3. ASSUME NEW k \in Scouts, StoreRaw(k) PROVE EvidenceNotOlder'
  <2>1. /\ step[k] = "store" /\ proposed' = proposed
        /\ artifact' = [artifact EXCEPT ![Current(k)] = copy[k][Current(k)]]
        /\ Current(k) \in Sources /\ Current(k) \in unique[k]
    BY <1>1, <1>3, StoreRawMoves, CurrentTypes
  <2>2. artifact[Current(k)] <= copy[k][Current(k)]
    BY <1>1, <2>1 DEF StoresAsFetched
  <2>3. ASSUME NEW c \in Concepts, NEW s \in Sources
        PROVE  /\ proposed[<<c, s>>] \in Nat /\ artifact[s] \in Nat
               /\ copy[k][s] \in Nat /\ proposed[<<c, s>>] <= artifact[s]
    <3>1. proposed[<<c, s>>] \in Nat
      BY <1>1, Settings DEF TypeOK, Claims
    <3>2. artifact[s] \in Nat /\ copy[k][s] \in Nat
      <4>1. artifact \in [Sources -> Nat] /\ copy \in [Scouts -> [Sources -> Nat]]
        BY <1>1, Settings DEF TypeOK
      <4> QED
        BY <4>1
    <3>3. proposed[<<c, s>>] <= artifact[s]
      BY <1>1 DEF EvidenceNotOlder
    <3> QED
      BY <3>1, <3>2, <3>3
  <2>4. ASSUME NEW c \in Concepts, NEW s \in Sources
        PROVE  proposed'[<<c, s>>] <= artifact'[s]
    <3>1. CASE s = Current(k)
      BY <1>1, <2>1, <2>2, <2>3, <3>1 DEF TypeOK
    <3>2. CASE s # Current(k)
      BY <1>1, <2>1, <2>3, <3>2 DEF TypeOK
    <3> QED
      BY <3>1, <3>2
  <2> QED
    BY <2>4 DEF EvidenceNotOlder
<1>4. ASSUME NEW k \in Scouts, ProposeTriple(k) PROVE EvidenceNotOlder'
  <2>1. PICK c \in concept[k] :
          proposed' = [proposed EXCEPT ![<<c, Current(k)>>] =
                          Newest(@, copy[k][Current(k)])]
    BY <1>1, <1>4, ProposeTripleMoves
  <2>2. step[k] = "propose" /\ artifact' = artifact
    BY <1>1, <1>4, ProposeTripleMoves
  <2>3. artifact[Current(k)] = copy[k][Current(k)]
    BY <1>1, <2>2 DEF StoresAsFetched, Passed, TypeOK, Current
  <2>4. c \in Concepts /\ Current(k) \in Sources
    BY <1>1, <2>2, CurrentTypes DEF TypeOK
  <2>5. proposed[<<c, Current(k)>>] <= artifact[Current(k)]
    BY <1>1, <2>4 DEF EvidenceNotOlder
  <2>6. Newest(proposed[<<c, Current(k)>>], copy[k][Current(k)]) <= artifact[Current(k)]
    BY <1>1, <2>3, <2>4, <2>5, EditionsAreNumbers DEF Newest
  <2>7. ASSUME NEW d \in Concepts, NEW s \in Sources, <<d, s>> # <<c, Current(k)>>
        PROVE  proposed'[<<d, s>>] = proposed[<<d, s>>]
    BY <1>1, <2>1, <2>7 DEF TypeOK, Claims
  <2>8. proposed'[<<c, Current(k)>>] <= artifact[Current(k)]
    BY <1>1, <2>1, <2>4, <2>6 DEF TypeOK, Claims
  <2> QED
    BY <1>1, <2>2, <2>7, <2>8 DEF EvidenceNotOlder
<1> QED
  BY <1>2, <1>3, <1>4
  DEF Next, Call, vars, Publish, Expire, Relist, Fetch, Extract, RecordMention, Abort, world

\* With all scouts run by one supervisor, whatever their runs lose halfway and
\* whichever feeds list a source, the Critic never reads a text older than the
\* one a claim was extracted from.
THEOREM EvidenceNotOlderHolds == ASSUME Serial PROVE Spec => []EvidenceNotOlder
<1>1. Init => OrderInv
  <2>1. Init => TypeOK
    BY Settings DEF Init, TypeOK, Claims
  <2>2. Init => OneAtATime /\ NothingNewer /\ StoresAsFetched /\ EvidenceNotOlder
    BY DEF Init, OneAtATime, NothingNewer, StoresAsFetched, EvidenceNotOlder, Claims
  <2> QED
    BY <2>1, <2>2 DEF OrderInv
<1>2. OrderInv /\ [Next]_vars => OrderInv'
  BY Serial, TypeStep, OneAtATimeStep, NothingNewerStep, StoresAsFetchedStep, EvidenceNotOlderStep
  DEF OrderInv
<1>3. OrderInv => EvidenceNotOlder
  BY DEF OrderInv
<1> QED
  BY <1>1, <1>2, <1>3, PTL DEF Spec
=============================================================================
