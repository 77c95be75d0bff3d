----------------------------- MODULE SourceLease -----------------------------
(***************************************************************************)
(* The ownership record of a leased chart source (capture_source_v3 of a   *)
(* session, mobile_api/window_tracker.py): claims, recovery claims fenced  *)
(* by compare-and-swap, transport heartbeats, kills, and the study of one  *)
(* frame at a time, whose model work runs outside the tracker lock.  Every *)
(* action is one critical section of self._lock.                           *)
(*                                                                         *)
(* A lease is named by the order in which it was issued; the secret token  *)
(* of the code is never issued twice.  A name stands for the public        *)
(* binding (source id, sequence, selection, type) that a client can claim  *)
(* again.  A frame stands for its number and its capture time, which grow  *)
(* together.  Local capture workers never run beside a leased source here. *)
(***************************************************************************)
EXTENDS Naturals

CONSTANTS
    Names,         \* public bindings of a chart source
    NoName,        \* no binding
    MaxLeases,     \* bound: leases issued
    MaxFrames,     \* bound: frames of one lease
    MaxKills,      \* bound: sources killed
    MaxRestarts,   \* bound: restarts of the process
    MaxObserved,   \* bound: observations made by the recovery client
    StaleAfter,    \* PHOENIXGUARD_SELECTED_SOURCE_STALE_SEC, in ticks
    RetryLimit,    \* PHOENIXGUARD_FRAME_STUDY_TRANSIENT_RETRY_LIMIT
    ReclaimLimit   \* PHOENIXGUARD_FRAME_STUDY_LEASE_RECLAIM_LIMIT

ASSUME LeaseAssumption ==
    /\ NoName \notin Names
    /\ MaxLeases \in Nat /\ MaxFrames \in Nat /\ MaxKills \in Nat
    /\ MaxRestarts \in Nat /\ MaxObserved \in Nat /\ StaleAfter \in Nat
    /\ RetryLimit \in Nat /\ ReclaimLimit \in Nat

Lease == 1..MaxLeases
Frame == 1..MaxFrames
None  == 0

State     == {"NO_SOURCE", "VALIDATING", "LIVE", "STALE", "ERROR", "KILLED"}
Reason    == {"notAccepted", "other"}
HeldState == {"VALIDATING", "LIVE", "STALE"}   \* states that publish

VARIABLES
    source,     \* the persisted capture_source_v3
    sourceAge,  \* ticks since last_frame_epoch, StaleAfter + 1 for not fresh
    feed,       \* external_frame_feed.frame_id
    decision,   \* the lease and frame behind the session's visible decision
    cold,       \* is the lease read back from the sidecar, without its stream?
    beat,       \* the transport heartbeat kept in memory
    beatAge,    \* ticks since it was received
    study,      \* the mailbox worker's call of ingest_external_frame
    seen,       \* the source a recovery client last observed
    observed,   \* how often it did
    issued, granted,            \* leases issued, and the binding of each
    done,       \* history: the last frame completed under each lease
    announced,  \* history: the newest change announced to this process under the lease
    releases, kills, restarts   \* history: how often these happened

persisted == <<source, sourceAge, feed, decision>>
memory    == <<cold, beat, beatAge, study>>
history   == <<done, announced, releases, kills, restarts>>
client == <<seen, observed>>
vars == <<persisted, memory, client, issued, granted, history>>

Old == StaleAfter + 1

Source ==
    [state: State, reason: Reason, rev: Nat, gen: Nat, lease: 0..MaxLeases,
     name: Names \cup {NoName}, attempts: 0..ReclaimLimit, processing: 0..MaxFrames]

NoBeat == [lease |-> None, fresh |-> FALSE, pending |-> None]
Idle   == [pc |-> "idle", lease |-> None, frame |-> None, tries |-> 0]
NoDecision == [lease |-> None, frame |-> None]

TypeOK ==
    /\ source \in Source
    /\ sourceAge \in 0..Old /\ beatAge \in 0..Old
    /\ feed \in 0..MaxFrames
    /\ decision \in [lease: 0..MaxLeases, frame: 0..MaxFrames]
    /\ cold \in BOOLEAN
    /\ beat \in [lease: 0..MaxLeases, fresh: BOOLEAN, pending: 0..MaxFrames]
    /\ study \in [pc: {"idle", "begin", "study", "complete", "reject", "error", "cleanup"},
                  lease: 0..MaxLeases, frame: 0..MaxFrames, tries: 0..RetryLimit]
    /\ seen \in [state: State \cup {"none"}, record: Source]
    /\ observed \in 0..MaxObserved
    /\ issued \in 0..MaxLeases
    /\ granted \in [Lease -> [gen: Nat, name: Names \cup {NoName}]]
    /\ done \in [Lease -> 0..MaxFrames] /\ announced \in 0..MaxFrames
    /\ releases \in Nat /\ kills \in Nat /\ restarts \in Nat

\* _default_capture_source_v3: no owner, counters back to zero.
Unowned ==
    [state |-> "NO_SOURCE", reason |-> "other", rev |-> 0, gen |-> 0, lease |-> None,
     name |-> NoName, attempts |-> 0, processing |-> None]

NothingSeen == [state |-> "none", record |-> Unowned]

Init ==
    /\ source = Unowned /\ sourceAge = Old
    /\ feed = None /\ decision = NoDecision
    /\ cold = FALSE /\ beat = NoBeat /\ beatAge = Old
    /\ study = Idle
    /\ seen = NothingSeen /\ observed = 0
    /\ issued = 0
    /\ granted = [l \in Lease |-> [gen |-> 0, name |-> NoName]]
    /\ done = [l \in Lease |-> None] /\ announced = None
    /\ releases = 0 /\ kills = 0 /\ restarts = 0

-----------------------------------------------------------------------------
(* What the tracker compares and shows. *)

\* Mutant: the public binding alone identifies the owner.
OwnsByName(l) ==
    /\ l \in 1..issued
    /\ source.gen = granted[l].gen /\ source.name = granted[l].name

\* The exact lease tuple is the present one.
Owns(l) ==
    /\ l \in 1..issued
    /\ source.lease = l
    /\ source.gen = granted[l].gen /\ source.name = granted[l].name

\* The lease may still bring frames and heartbeats; ERROR may be worked off.
Leased(l) == Owns(l) /\ source.state \in HeldState \cup {"ERROR"}

\* Mutant: publication is not fenced by the state of the source.
PublishableIfIssued(l) == l \in 1..issued

\* _external_source_publication_guard_v3
Publishable(l) == Owns(l) /\ source.state \in HeldState

BeatMatches == beat.lease # None /\ beat.lease = source.lease

\* The state under a recent heartbeat: it can veto LIVE, never grant it.
OverlaidState ==
    IF ~BeatMatches \/ beatAge = Old THEN source.state
    ELSE IF ~beat.fresh THEN "STALE"
    ELSE IF beat.pending # None \/ source.processing # None THEN "VALIDATING"
    ELSE source.state

OverlaidFresh == sourceAge # Old \/ (BeatMatches /\ beatAge # Old)

\* _public_capture_source_v3 of the overlaid source.
PublicState ==
    IF OverlaidState = "LIVE" /\ ~OverlaidFresh THEN "STALE" ELSE OverlaidState

DecisionUsable == PublicState = "LIVE"

\* Every save of the session also renews the cached lease, stream included.
Saved == cold' = FALSE

-----------------------------------------------------------------------------
(* Claiming, observing and recovering a source. *)

\* Mutant: a new claim forgets how often the study was already recovered.
GrantForgetful(n) ==
    [Unowned EXCEPT !.state = "VALIDATING", !.rev = source.rev + 1,
                    !.gen = source.gen + 1, !.lease = issued + 1, !.name = n]

Grant(n) ==
    [Unowned EXCEPT !.state = "VALIDATING", !.rev = source.rev + 1,
                    !.gen = source.gen + 1, !.lease = issued + 1, !.name = n,
                    !.attempts = source.attempts]

\* The part of claim_external_source that follows its checks.
TakeOver(n) ==
    /\ issued < MaxLeases
    /\ source' = Grant(n) /\ sourceAge' = Old
    /\ feed' = None /\ decision' = NoDecision
    /\ beat' = NoBeat /\ beatAge' = Old
    /\ Saved
    /\ issued' = issued + 1
    /\ granted' = [granted EXCEPT ![issued + 1] = [gen |-> source.gen + 1, name |-> n]]
    /\ announced' = None
    /\ UNCHANGED <<study, done, releases, kills, restarts>>

\* The operator selects a chart: whatever was there is superseded.
Claim(n) == TakeOver(n) /\ UNCHANGED client

\* A recovery client reads the public source.
Observe ==
    /\ observed < MaxObserved
    /\ observed' = observed + 1
    /\ seen' = [state |-> PublicState, record |-> source]
    /\ UNCHANGED <<persisted, memory, issued, granted, history>>

\* Mutant: a recovery claim may resurrect a killed source.
RecoverableIfSeen == State

Recoverable == {"NO_SOURCE", "VALIDATING", "LIVE", "STALE"}

\* Mutant: the revision is not part of the fence.
FenceHoldsButRevision ==
    /\ seen.state = PublicState
    /\ seen.record.gen = source.gen /\ seen.record.name = source.name

\* The complete prior source-control fence still describes the source.
FenceHolds ==
    /\ seen.state = PublicState
    /\ seen.record.rev = source.rev
    /\ seen.record.gen = source.gen /\ seen.record.name = source.name

\* The recovery client claims what it observed, or is told it lost the race.
Reclaim(n) ==
    /\ seen.state \in Recoverable
    /\ FenceHolds
    /\ TakeOver(n)
    /\ seen' = NothingSeen
    /\ UNCHANGED observed

LoseRace ==
    /\ seen # NothingSeen
    /\ ~(seen.state \in Recoverable /\ FenceHolds)
    /\ seen' = NothingSeen
    /\ UNCHANGED <<persisted, memory, observed, issued, granted, history>>

-----------------------------------------------------------------------------
(* Heartbeats. *)

Larger(a, b) == IF a > b THEN a ELSE b

AttemptsLeft(attempts) == attempts < ReclaimLimit

\* What the heartbeat knows of the stream: nothing after a restart.
AttemptsRead   == IF cold THEN 0 ELSE source.attempts
ProcessingRead == IF cold THEN None ELSE source.processing

\* A healthy transport meets a source whose study was not accepted.
MustRelease(healthy) ==
    /\ source.state = "ERROR" /\ source.reason = "notAccepted"
    /\ ProcessingRead = None
    /\ healthy
    /\ AttemptsLeft(AttemptsRead)

\* The lease is given back so that fresh pixels can be claimed.
ReleaseForReclaim(l) ==
    /\ Leased(l)
    /\ MustRelease(TRUE)
    /\ source' = [Unowned EXCEPT !.rev = source.rev + 1, !.attempts = AttemptsRead + 1]
    /\ sourceAge' = Old
    /\ decision' = NoDecision
    /\ beat' = NoBeat /\ beatAge' = Old
    /\ Saved
    /\ releases' = releases + 1
    /\ UNCHANGED <<feed, study, client, issued, granted, done, announced, kills, restarts>>

\* Material changes stay pending until a study that covers them completes.
PendingAfter(p) == IF BeatMatches THEN Larger(beat.pending, p) ELSE p

\* A pulse: fresh pixels or not, a healthy capture or not, a change or not.
Heartbeat(l, fresh, healthy, p) ==
    /\ Leased(l)
    /\ healthy => fresh
    /\ ~MustRelease(healthy)
    /\ beat' = [lease |-> l, fresh |-> fresh, pending |-> PendingAfter(p)]
    /\ beatAge' = 0
    /\ announced' = Larger(announced, p)
    /\ UNCHANGED <<persisted, cold, study, client, issued, granted, done, releases, kills,
                   restarts>>

-----------------------------------------------------------------------------
(* Stopping the source. *)

Kill ==
    /\ kills < MaxKills
    /\ kills' = kills + 1
    /\ source' = [source EXCEPT !.state = "KILLED", !.reason = "other", !.rev = @ + 1,
                                !.gen = @ + 1, !.lease = None]
    /\ sourceAge' = Old
    /\ decision' = NoDecision
    /\ beat' = NoBeat /\ beatAge' = Old
    /\ Saved
    /\ UNCHANGED <<feed, study, client, issued, granted, done, announced, releases, restarts>>

\* A client may stop only the source whose lease it holds.
KillFenced(l) == Publishable(l) /\ Kill

-----------------------------------------------------------------------------
(* The study of one frame: ingest_external_frame under the mailbox worker. *)

\* The worker takes a frame off the mailbox, however late.
Submit(l, f) ==
    /\ study.pc = "idle"
    /\ study' = [pc |-> "begin", lease |-> l, frame |-> f, tries |-> 0]
    /\ UNCHANGED <<persisted, cold, beat, beatAge, client, issued, granted, history>>

\* The call ends, or goes on to its next stage, without touching the source.
GoTo(pc) == study' = IF pc = "idle" THEN Idle ELSE [study EXCEPT !.pc = pc]

Advances(f) == f > feed

\* The lease is checked again and the frame becomes the one in process.
Begin ==
    /\ study.pc = "begin"
    /\ \/ /\ ~Leased(study.lease)
          /\ GoTo("idle")
          /\ UNCHANGED <<source, sourceAge, feed, cold>>
       \/ /\ Leased(study.lease)
          /\ ~Advances(study.frame)
          /\ GoTo("cleanup")
          /\ UNCHANGED <<source, sourceAge, feed, cold>>
       \/ /\ Leased(study.lease)
          /\ Advances(study.frame)
          /\ source' = [source EXCEPT !.state = "VALIDATING", !.reason = "other",
                                      !.rev = @ + 1, !.processing = study.frame]
          /\ sourceAge' = 0
          /\ feed' = study.frame
          /\ Saved
          /\ GoTo("study")
    /\ UNCHANGED <<decision, beat, beatAge, client, issued, granted, history>>

\* The study publishes its decision, unless the source was lost meanwhile.
StudyPublishes ==
    /\ study.pc = "study"
    /\ \/ /\ Publishable(study.lease)
          /\ decision' = [lease |-> study.lease, frame |-> study.frame]
          /\ Saved
       \/ /\ ~Publishable(study.lease)
          /\ UNCHANGED <<decision, cold>>
    /\ GoTo("complete")
    /\ UNCHANGED <<source, sourceAge, feed, beat, beatAge, client, issued, granted, history>>

\* The study ends without a decision: nothing new, not accepted, or raised.
StudyEnds(pc) ==
    /\ study.pc = "study"
    /\ GoTo(pc)
    /\ UNCHANGED <<persisted, cold, beat, beatAge, client, issued, granted, history>>

\* Mutant: changes that arrived during the study are forgotten.
NewerIgnored(f) == FALSE

\* The transport announced a change that this study does not cover.
NewerPending(f) == BeatMatches /\ beat.pending > f

\* An accepted study makes the source live, unless the lease was lost; the
\* answer built afterwards may still fail.
Complete ==
    LET l == study.lease
        f == study.frame
    IN
    /\ study.pc = "complete"
    /\ \/ /\ ~Leased(l)
          /\ GoTo("cleanup")
          /\ UNCHANGED <<source, sourceAge, cold, beat, done, releases>>
       \/ /\ Leased(l)
          /\ source' = [source EXCEPT
                !.state = IF NewerPending(f) THEN "VALIDATING" ELSE "LIVE",
                !.reason = "other", !.rev = @ + 1, !.attempts = 0, !.processing = None]
          /\ sourceAge' = 0
          /\ beat' = IF BeatMatches /\ ~NewerPending(f)
                     THEN [beat EXCEPT !.pending = None] ELSE beat
          /\ Saved
          /\ done' = [done EXCEPT ![l] = f]
          /\ releases' = 0
          /\ \E pc \in {"idle", "cleanup"} : GoTo(pc)
    /\ UNCHANGED <<feed, decision, beatAge, client, issued, granted, announced, kills, restarts>>

\* Mutant: the frame in process is not compared with the frame that failed.
FailsIfPublishable == Publishable(study.lease)

\* Only the frame in process, under its own lease, can fail the source.
Fails == Publishable(study.lease) /\ source.processing = study.frame

\* Mutant: the frame in process is left standing.
FailedStillProcessing(r) ==
    [source EXCEPT !.state = "ERROR", !.reason = r, !.rev = @ + 1]

Failed(r) ==
    [source EXCEPT !.state = "ERROR", !.reason = r, !.rev = @ + 1, !.processing = None]

\* fail_external_frame_analysis
Fail(r) ==
    \/ Fails /\ source' = Failed(r) /\ sourceAge' = Old /\ Saved
    \/ ~Fails /\ UNCHANGED <<source, sourceAge, cold>>

\* A study that was not accepted fails; the mailbox may offer the frame again.
Reject ==
    /\ study.pc = "reject"
    /\ Fail("notAccepted")
    /\ \/ GoTo("idle")
       \/ /\ study.tries < RetryLimit
          /\ study' = [study EXCEPT !.pc = "begin", !.tries = @ + 1]
    /\ UNCHANGED <<feed, decision, beat, beatAge, client, issued, granted, history>>

\* A study that raised fails, and is reported or raised on to the mailbox,
\* which then fails the frame once more.
Error ==
    /\ study.pc \in {"error", "cleanup"}
    /\ Fail("other")
    /\ \/ GoTo("idle")
       \/ study.pc = "error" /\ GoTo("cleanup")
    /\ UNCHANGED <<feed, decision, beat, beatAge, client, issued, granted, history>>

-----------------------------------------------------------------------------
(* Time and restarts. *)

Older(age) == IF age = Old THEN Old ELSE age + 1

Tick ==
    /\ sourceAge' = Older(sourceAge) /\ beatAge' = Older(beatAge)
    /\ UNCHANGED <<source, feed, decision, cold, beat, study, client, issued, granted, history>>

\* Memory is lost; the session and the sidecar of the lease survive.
Restart ==
    /\ restarts < MaxRestarts
    /\ restarts' = restarts + 1
    /\ cold' = TRUE
    /\ beat' = NoBeat /\ beatAge' = Old
    /\ study' = Idle
    /\ announced' = None
    /\ UNCHANGED <<persisted, client, issued, granted, done, releases, kills>>

StudyStep ==
    \/ Begin
    \/ StudyPublishes
    \/ \E pc \in {"complete", "reject", "error"} : StudyEnds(pc)
    \/ Complete
    \/ Reject
    \/ Error

Next ==
    \/ \E n \in Names : Claim(n) \/ Reclaim(n)
    \/ Observe
    \/ LoseRace
    \/ \E l \in 1..issued :
        \/ ReleaseForReclaim(l)
        \/ \E fresh, healthy \in BOOLEAN, p \in 0..MaxFrames : Heartbeat(l, fresh, healthy, p)
        \/ KillFenced(l)
        \/ \E f \in Frame : Submit(l, f)
    \/ Kill
    \/ StudyStep
    \/ Tick
    \/ Restart

Spec == Init /\ [][Next]_vars

\* The worker's calls return.
FairSpec == Spec /\ WF_vars(StudyStep)

-----------------------------------------------------------------------------
(* Properties. *)

\* A source is decision-usable only when the last frame begun under the
\* present lease was studied to the end, and every change of the chart its
\* heartbeats announced since the process started is covered by that frame.
UsableIsProved ==
    DecisionUsable =>
        /\ feed # None /\ done[source.lease] = feed
        /\ source.processing = None
        /\ announced <= feed

\* A source in error did not complete the last frame it began: a late or a
\* repeated failure report never takes a finished study back.
ErrorIsEarned ==
    source.state = "ERROR" => feed # None /\ done[source.lease] # feed

\* The visible decision is that of the present lease: a study that outlives
\* its source cannot publish.
DecisionOfOwner ==
    decision # NoDecision => decision.lease = source.lease /\ decision.frame <= feed

\* While the source says that a frame is in process, a worker has it in hand
\* under the same lease, unless a restart took the worker away.
ProcessingOwned ==
    (source.processing # None /\ source.lease # None /\ restarts = 0) =>
        /\ study.lease = source.lease /\ study.frame = source.processing
        /\ study.pc \notin {"idle", "begin"}

\* A kill is final: only a new selection by the operator ends it.
KilledStaysKilled ==
    [][source.state = "KILLED" =>
         source'.state = "KILLED" \/ \E n \in Names : Claim(n)]_vars

\* A recovery claim replaces exactly the source that was observed, although
\* generations restart from zero when a lease is released.
RecoveryIsAtomic ==
    [][(\E n \in Names : Reclaim(n)) => source = seen.record]_vars

\* Between two completed studies a lease is released for recovery a bounded
\* number of times in one life of the process.
ReclaimBudget == releases <= ReclaimLimit * (restarts + 1)

\* A frame in process is settled, or its source killed.
EveryStudySettles ==
    (source.processing # None /\ restarts = 0)
        ~> (source.processing = None \/ source.state = "KILLED" \/ restarts > 0)

\* What the retry test says: a frame offered again under its lease is studied.
RetryIsStudied ==
    [][(study.pc = "begin" /\ study.tries > 0 /\ Leased(study.lease) /\ Begin)
         => study'.pc = "study"]_vars

\* The record keeps the promise of LeaseAuthority: the present lease is the last
\* one granted or none, and the visible decision is made under it.
Authority == INSTANCE LeaseAuthority WITH owner <- source.lease, visible <- decision.lease
KeepsAuthority == Authority!Spec
=============================================================================
