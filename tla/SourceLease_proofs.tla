------------------------- MODULE SourceLease_proofs -------------------------
(***************************************************************************)
(* Why the record of a leased chart source can be trusted, whatever the    *)
(* number of leases, frames, kills and restarts.  The invariant follows    *)
(* one frame from the study that begins it to the state it earns:          *)
(*   BoundInv     who owns the source                                      *)
(*   StudyInv     which frame the worker has in hand                       *)
(*   ProcessInv   which frame the source says is in process                *)
(*   SettledInv   what LIVE, ERROR and the decision rest on                *)
(*   NewsInv      where an announced change is still remembered            *)
(*   BudgetInv    how many recoveries the counters account for             *)
(*   SeenInv      what a recovery client may have missed                   *)
(***************************************************************************)
EXTENDS SourceLease, TLAPS

Worked == {"study", "complete", "reject", "error"}   \* stages after a begin

\* A lease is held exactly in the states that need one, and it is the issued
\* lease with the binding of the source; leases still to come completed nothing.
BoundInv ==
    /\ source.lease # None <=> source.state \in HeldState \cup {"ERROR"}
    /\ source.lease # None => /\ source.lease \in 1..issued
                              /\ source.gen = granted[source.lease].gen
                              /\ source.name = granted[source.lease].name
    /\ \A l \in Lease : l > issued => done[l] = None

\* The worker holds an issued lease; while that lease is the present one, the
\* frame it has begun is the last one the source counted.
StudyInv ==
    /\ study.pc # "idle" => study.lease \in 1..issued /\ study.frame \in Frame
    /\ study.pc \in Worked /\ study.lease = source.lease => study.frame = feed

\* A frame in process is the last one counted and not completed, and the
\* worker of this life of the process has it in hand.
ProcessInv ==
    source.processing # None =>
        /\ source.state \in {"VALIDATING", "KILLED"}
        /\ source.lease # None => source.processing = feed /\ done[source.lease] < feed
        /\ source.lease # None /\ restarts = 0 =>
              /\ study.lease = source.lease /\ study.frame = source.processing
              /\ study.pc \notin {"idle", "begin"}

\* The last frame counted was completed in LIVE and was not in ERROR; the
\* decision is the owner's.
SettledInv ==
    /\ source.lease # None => done[source.lease] <= feed
    /\ source.state = "LIVE" => feed # None /\ done[source.lease] = feed
    /\ source.state = "LIVE" => announced <= feed \/ beatAge <= sourceAge
    /\ ErrorIsEarned
    /\ DecisionOfOwner

\* A change announced under the present lease is covered by the last frame
\* counted, or the heartbeat still remembers it.
NewsInv ==
    source.lease # None /\ announced # None =>
        /\ beat.lease = source.lease
        /\ announced <= beat.pending \/ announced <= feed

\* Every release is accounted for by a life of the process or by the counter
\* kept in the source, which a restart makes unreadable once.
BudgetInv ==
    /\ releases <= ReclaimLimit * restarts + source.attempts
    /\ cold => releases <= ReclaimLimit * restarts

\* A source whose revision was seen is the source that was seen.
SeenInv ==
    seen.state # "none" =>
        /\ seen.record.rev <= source.rev
        /\ seen.record.rev = source.rev => seen.record = source

IInv ==
    /\ TypeOK
    /\ BoundInv
    /\ StudyInv
    /\ ProcessInv
    /\ SettledInv
    /\ NewsInv
    /\ BudgetInv
    /\ SeenInv

USE LeaseAssumption DEF LeaseAssumption

-----------------------------------------------------------------------------
(* Claims and recoveries *)

\* A session without a source satisfies every part of the invariant.
LEMMA InitInvariant == Init => IInv
<1> SUFFICES ASSUME Init PROVE IInv
  OBVIOUS
<1>1. Unowned \in Source
  BY DEF Unowned, Source, State, Reason, None
<1>2. TypeOK
  <2>1. NothingSeen \in [state: State \cup {"none"}, record: Source]
    BY <1>1 DEF NothingSeen
  <2>2. Idle \in [pc: {"idle", "begin", "study", "complete", "reject", "error", "cleanup"},
                 lease: 0..MaxLeases, frame: 0..MaxFrames, tries: 0..RetryLimit]
    BY DEF Idle, None
  <2>3. /\ NoBeat \in [lease: 0..MaxLeases, fresh: BOOLEAN, pending: 0..MaxFrames]
        /\ NoDecision \in [lease: 0..MaxLeases, frame: 0..MaxFrames]
    BY DEF NoBeat, NoDecision, None
  <2>4. /\ granted \in [Lease -> [gen: Nat, name: Names \cup {NoName}]]
        /\ done \in [Lease -> 0..MaxFrames]
    BY DEF Init, None
  <2>5. Old \in Nat
    BY DEF Old
  <2>6. cold \in BOOLEAN
    BY DEF Init
  <2> QED
    BY <1>1, <2>1, <2>2, <2>3, <2>4, <2>5, <2>6 DEF Init, TypeOK, None
<1>3. /\ source.lease = None /\ source.state = "NO_SOURCE" /\ source.processing = None
      /\ source.attempts = 0
  BY DEF Init, Unowned
<1>4. BoundInv /\ ProcessInv /\ NewsInv
  BY <1>3 DEF Init, BoundInv, ProcessInv, NewsInv, HeldState, None
<1>5. StudyInv /\ SeenInv
  BY DEF Init, StudyInv, SeenInv, Idle, Worked, NothingSeen
<1>6. SettledInv
  BY <1>3 DEF Init, SettledInv, ErrorIsEarned, DecisionOfOwner
<1>7. BudgetInv
  BY <1>3 DEF Init, BudgetInv
<1> QED
  BY <1>2, <1>4, <1>5, <1>6, <1>7 DEF IInv

\* A new owner starts with nothing but the count of recoveries.
LEMMA TakeOverInvariant ==
    ASSUME IInv, NEW n \in Names, TakeOver(n),
           UNCHANGED seen \/ seen' = NothingSeen, observed' = observed
    PROVE  IInv'
<1> USE DEF IInv
<1>1. /\ issued \in 0..MaxLeases /\ issued < MaxLeases /\ issued' = issued + 1
      /\ issued' \in Lease
  BY DEF TakeOver, TypeOK, Lease
<1>2. /\ source' \in Source
      /\ source'.state = "VALIDATING" /\ source'.rev = source.rev + 1
      /\ source'.gen = source.gen + 1 /\ source'.lease = issued'
      /\ source'.name = n /\ source'.attempts = source.attempts
      /\ source'.processing = None
  <2>1. /\ source' = Grant(n) /\ issued + 1 \in 0..MaxLeases
        /\ source.rev + 1 \in Nat /\ source.gen + 1 \in Nat
        /\ source.attempts \in 0..ReclaimLimit
    BY <1>1 DEF TakeOver, TypeOK, Source
  <2>2. "VALIDATING" \in State /\ "other" \in Reason /\ None \in 0..MaxFrames
    BY DEF State, Reason, None
  <2>3. source' \in Source
    BY <2>1, <2>2 DEF Grant, Unowned, Source
  <2> QED
    BY <1>1, <2>1, <2>3 DEF Grant, Unowned
<1>3. /\ granted' \in [Lease -> [gen: Nat, name: Names \cup {NoName}]]
      /\ granted'[issued'].gen = source'.gen /\ granted'[issued'].name = n
  BY <1>1, <1>2 DEF TakeOver, TypeOK, Source
<1>4. TypeOK'
  <2>1. seen' \in [state: State \cup {"none"}, record: Source]
    <3>1. Unowned \in Source
      BY DEF Unowned, Source, State, Reason, None
    <3> QED
      BY <3>1 DEF TypeOK, NothingSeen
  <2>2. /\ decision' \in [lease: 0..MaxLeases, frame: 0..MaxFrames]
        /\ beat' \in [lease: 0..MaxLeases, fresh: BOOLEAN, pending: 0..MaxFrames]
        /\ sourceAge' \in 0..Old /\ beatAge' \in 0..Old /\ feed' \in 0..MaxFrames
    BY DEF TakeOver, NoDecision, NoBeat, Old, None
  <2>3. cold' \in BOOLEAN
    BY DEF TakeOver, Saved
  <2>4. announced' \in 0..MaxFrames /\ issued' \in 0..MaxLeases
    BY <1>1 DEF TakeOver, None
  <2> QED
    BY <1>2, <1>3, <2>1, <2>2, <2>3, <2>4 DEF TakeOver, TypeOK
<1>5. done'[issued'] = None /\ done' = done
  BY <1>1 DEF TakeOver, BoundInv
<1>6. BoundInv'
  <2>1. source'.lease # None /\ source'.lease \in 1..issued' /\ source'.state \in HeldState
    BY <1>1, <1>2 DEF HeldState, None
  <2>2. source'.gen = granted'[source'.lease].gen /\ source'.name = granted'[source'.lease].name
    BY <1>2, <1>3
  <2>3. \A l \in Lease : l > issued' => done'[l] = None
    BY <1>1, <1>5 DEF BoundInv, Lease
  <2> QED
    BY <2>1, <2>2, <2>3 DEF BoundInv
<1>7. StudyInv'
  BY <1>1, <1>2 DEF TakeOver, StudyInv, Worked, TypeOK
<1>8. ProcessInv'
  BY <1>2 DEF ProcessInv
<1>9. SettledInv'
  BY <1>1, <1>2, <1>5 DEF TakeOver, SettledInv, ErrorIsEarned, DecisionOfOwner, None
<1>10. NewsInv'
  BY DEF TakeOver, NewsInv
<1>11. BudgetInv'
  BY <1>2 DEF TakeOver, BudgetInv, Saved
<1>12. SeenInv'
  BY <1>2 DEF SeenInv, NothingSeen, TypeOK, Source
<1> QED
  BY <1>4, <1>6, <1>7, <1>8, <1>9, <1>10, <1>11, <1>12

\* An observation remembers the source as it is.
LEMMA ObserveInvariant ==
    ASSUME IInv, Observe
    PROVE  IInv'
<1> USE DEF IInv
<1>1. PublicState \in State
  BY DEF PublicState, OverlaidState, TypeOK, Source, State
<1>2. TypeOK'
  BY <1>1 DEF Observe, TypeOK, persisted, memory, history
<1>3. SeenInv'
  BY DEF Observe, SeenInv, persisted, TypeOK, Source
<1>4. BoundInv' /\ StudyInv' /\ ProcessInv' /\ NewsInv' /\ BudgetInv'
  BY DEF Observe, persisted, memory, history, BoundInv, StudyInv, ProcessInv, NewsInv,
         BudgetInv
<1>5. SettledInv'
  BY DEF Observe, persisted, memory, history, SettledInv, ErrorIsEarned, DecisionOfOwner
<1> QED
  BY <1>2, <1>3, <1>4, <1>5

\* A client that lost its race forgets what it saw.
LEMMA LoseRaceInvariant ==
    ASSUME IInv, LoseRace
    PROVE  IInv'
<1> USE DEF IInv
<1>1. Unowned \in Source
  BY DEF Unowned, Source, State, Reason, None
<1>2. TypeOK'
  BY <1>1 DEF LoseRace, TypeOK, persisted, memory, history, NothingSeen
<1>3. SeenInv'
  BY DEF LoseRace, SeenInv, NothingSeen
<1>4. BoundInv' /\ StudyInv' /\ ProcessInv' /\ NewsInv' /\ BudgetInv'
  BY DEF LoseRace, persisted, memory, history, BoundInv, StudyInv, ProcessInv, NewsInv,
         BudgetInv
<1>5. SettledInv'
  BY DEF LoseRace, persisted, memory, history, SettledInv, ErrorIsEarned, DecisionOfOwner
<1> QED
  BY <1>2, <1>3, <1>4, <1>5

-----------------------------------------------------------------------------
(* Heartbeats, kills, time and restarts *)

\* A released source has no owner; the release is counted in it.
LEMMA ReleaseInvariant ==
    ASSUME IInv, NEW l \in 1..issued, ReleaseForReclaim(l)
    PROVE  IInv'
<1> USE DEF IInv
<1>1. AttemptsRead \in 0..ReclaimLimit /\ AttemptsRead < ReclaimLimit
  BY DEF ReleaseForReclaim, MustRelease, AttemptsLeft, AttemptsRead, TypeOK, Source
<1>2. /\ source' \in Source
      /\ source'.state = "NO_SOURCE" /\ source'.rev = source.rev + 1
      /\ source'.lease = None /\ source'.processing = None
      /\ source'.attempts = AttemptsRead + 1
  <2>1. /\ source' = [Unowned EXCEPT !.rev = source.rev + 1, !.attempts = AttemptsRead + 1]
        /\ source.rev + 1 \in Nat /\ AttemptsRead + 1 \in 0..ReclaimLimit
    BY <1>1 DEF ReleaseForReclaim, TypeOK, Source
  <2>2. "NO_SOURCE" \in State /\ "other" \in Reason
        /\ None \in 0..MaxFrames /\ None \in 0..MaxLeases
    BY DEF State, Reason, None
  <2>3. source' \in Source
    BY <2>1, <2>2 DEF Unowned, Source
  <2> QED
    BY <2>1, <2>3 DEF Unowned
<1>3. TypeOK'
  <2>1. /\ decision' \in [lease: 0..MaxLeases, frame: 0..MaxFrames]
        /\ beat' \in [lease: 0..MaxLeases, fresh: BOOLEAN, pending: 0..MaxFrames]
        /\ sourceAge' \in 0..Old /\ beatAge' \in 0..Old
    BY DEF ReleaseForReclaim, NoDecision, NoBeat, Old, None
  <2>2. cold' \in BOOLEAN
    BY DEF ReleaseForReclaim, Saved
  <2> QED
    BY <1>2, <2>1, <2>2 DEF ReleaseForReclaim, TypeOK, client
<1>4. BoundInv'
  BY <1>2 DEF ReleaseForReclaim, BoundInv, HeldState
<1>5. StudyInv'
  BY <1>2 DEF ReleaseForReclaim, StudyInv, Worked, None
<1>6. ProcessInv' /\ NewsInv'
  BY <1>2 DEF ProcessInv, NewsInv
<1>7. SettledInv'
  BY <1>2 DEF ReleaseForReclaim, SettledInv, ErrorIsEarned, DecisionOfOwner
<1>8. BudgetInv'
  <2>1. ReclaimLimit * restarts \in Nat
    BY DEF TypeOK
  <2>2. releases \in Nat /\ restarts' = restarts /\ releases' = releases + 1
    BY DEF ReleaseForReclaim, TypeOK
  <2>3. releases <= ReclaimLimit * restarts + AttemptsRead
    BY <2>1, <2>2 DEF BudgetInv, AttemptsRead
  <2>4. ~cold'
    BY DEF ReleaseForReclaim, Saved
  <2>5. releases' <= ReclaimLimit * restarts' + source'.attempts
    BY <1>1, <1>2, <2>1, <2>2, <2>3
  <2> QED
    BY <2>4, <2>5 DEF BudgetInv
<1>9. SeenInv'
  BY <1>2 DEF ReleaseForReclaim, client, SeenInv, TypeOK, Source
<1> QED
  BY <1>3, <1>4, <1>5, <1>6, <1>7, <1>8, <1>9

\* A heartbeat remembers what it announces beside what still waits.
LEMMA HeartbeatInvariant ==
    ASSUME IInv, NEW l \in 1..issued, NEW fresh \in BOOLEAN, NEW healthy \in BOOLEAN,
           NEW p \in 0..MaxFrames, Heartbeat(l, fresh, healthy, p)
    PROVE  IInv'
<1> USE DEF IInv
<1>1. source.lease = l /\ l \in 1..issued /\ l # None
  BY DEF Heartbeat, Leased, Owns, None
<1>2. PendingAfter(p) \in 0..MaxFrames
  BY DEF PendingAfter, Larger, TypeOK
<1>3. /\ beat'.lease = l /\ beat'.pending = PendingAfter(p)
      /\ beatAge' = 0 /\ announced' = Larger(announced, p)
      /\ beat' \in [lease: 0..MaxLeases, fresh: BOOLEAN, pending: 0..MaxFrames]
      /\ source' = source /\ feed' = feed /\ decision' = decision /\ sourceAge' = sourceAge
      /\ done' = done /\ study' = study
  <2>1. l \in 0..MaxLeases
    BY DEF TypeOK
  <2> QED
    BY <1>2, <2>1 DEF Heartbeat, persisted
<1>4. announced' \in 0..MaxFrames
  BY <1>3 DEF Larger, TypeOK
<1>5. TypeOK'
  BY <1>3, <1>4 DEF Heartbeat, TypeOK, persisted, client, Old
<1>6. BoundInv' /\ StudyInv' /\ ProcessInv' /\ BudgetInv' /\ SeenInv'
  BY <1>3 DEF Heartbeat, persisted, client, BoundInv, StudyInv, ProcessInv, BudgetInv, SeenInv
<1>7. SettledInv'
  <2>1. sourceAge \in Nat
    BY DEF TypeOK, Old
  <2> QED
    BY <1>3, <2>1 DEF SettledInv, ErrorIsEarned, DecisionOfOwner
<1>8. NewsInv'
  <2>1. announced' <= beat'.pending \/ announced' <= feed
    <3> announced \in 0..MaxFrames /\ beat.pending \in 0..MaxFrames /\ feed \in 0..MaxFrames
      BY DEF TypeOK
    <3>1. CASE announced = None
      BY <1>3, <3>1 DEF PendingAfter, Larger, None
    <3>2. CASE announced # None
      <4>1. BeatMatches
        BY <1>1, <3>2 DEF NewsInv, BeatMatches
      <4>2. announced <= beat.pending \/ announced <= feed
        BY <1>1, <3>2 DEF NewsInv
      <4> QED
        BY <1>3, <4>1, <4>2 DEF PendingAfter, Larger
    <3> QED
      BY <3>1, <3>2
  <2> QED
    BY <1>1, <1>3, <2>1 DEF NewsInv
<1> QED
  BY <1>5, <1>6, <1>7, <1>8

\* A killed source has no owner.
LEMMA KillInvariant ==
    ASSUME IInv, Kill
    PROVE  IInv'
<1> USE DEF IInv
<1>1. /\ source' \in Source
      /\ source'.state = "KILLED" /\ source'.rev = source.rev + 1
      /\ source'.lease = None /\ source'.processing = source.processing
      /\ source'.attempts = source.attempts
  <2>1. source \in Source /\ source.rev + 1 \in Nat /\ source.gen + 1 \in Nat
    BY DEF TypeOK, Source
  <2>2. "KILLED" \in State /\ "other" \in Reason /\ None \in 0..MaxLeases
    BY DEF State, Reason, None
  <2> QED
    BY <2>1, <2>2 DEF Kill, Source
<1>2. TypeOK'
  <2>1. /\ decision' \in [lease: 0..MaxLeases, frame: 0..MaxFrames]
        /\ beat' \in [lease: 0..MaxLeases, fresh: BOOLEAN, pending: 0..MaxFrames]
        /\ sourceAge' \in 0..Old /\ beatAge' \in 0..Old
    BY DEF Kill, NoDecision, NoBeat, Old, None
  <2>2. cold' \in BOOLEAN
    BY DEF Kill, Saved
  <2> QED
    BY <1>1, <2>1, <2>2 DEF Kill, TypeOK, client
<1>3. BoundInv'
  BY <1>1 DEF Kill, BoundInv, HeldState
<1>4. StudyInv'
  BY <1>1 DEF Kill, StudyInv, Worked, None
<1>5. ProcessInv' /\ NewsInv'
  BY <1>1 DEF ProcessInv, NewsInv
<1>6. SettledInv'
  BY <1>1 DEF Kill, SettledInv, ErrorIsEarned, DecisionOfOwner
<1>7. BudgetInv'
  BY <1>1 DEF Kill, BudgetInv, Saved
<1>8. SeenInv'
  BY <1>1 DEF Kill, client, SeenInv, TypeOK, Source
<1> QED
  BY <1>2, <1>3, <1>4, <1>5, <1>6, <1>7, <1>8

\* Ages grow together, so a heartbeat stays as recent as it was beside the study.
LEMMA TickInvariant ==
    ASSUME IInv, Tick
    PROVE  IInv'
<1> USE DEF IInv
<1>1. sourceAge \in 0..Old /\ beatAge \in 0..Old /\ Old \in Nat
  BY DEF TypeOK, Old
<1>2. /\ sourceAge' \in 0..Old /\ beatAge' \in 0..Old
      /\ beatAge <= sourceAge => beatAge' <= sourceAge'
  BY <1>1 DEF Tick, Older
<1>3. TypeOK'
  BY <1>2 DEF Tick, TypeOK, client, history
<1>4. BoundInv' /\ StudyInv' /\ ProcessInv' /\ NewsInv' /\ BudgetInv' /\ SeenInv'
  BY DEF Tick, client, history, BoundInv, StudyInv, ProcessInv, NewsInv, BudgetInv, SeenInv
<1>5. SettledInv'
  BY <1>2 DEF Tick, history, SettledInv, ErrorIsEarned, DecisionOfOwner
<1> QED
  BY <1>3, <1>4, <1>5

\* A restart takes the worker away and buys one more round of recoveries.
LEMMA RestartInvariant ==
    ASSUME IInv, Restart
    PROVE  IInv'
<1> USE DEF IInv
<1>1. restarts \in Nat /\ restarts' = restarts + 1 /\ source' = source
      /\ announced' = None /\ study' = Idle /\ feed' = feed /\ done' = done
      /\ decision' = decision
  BY DEF Restart, persisted, TypeOK
<1>2. TypeOK'
  BY DEF Restart, TypeOK, persisted, client, NoBeat, Idle, None, Old
<1>3. BoundInv' /\ SeenInv'
  BY DEF Restart, persisted, client, BoundInv, SeenInv
<1>4. StudyInv'
  BY <1>1 DEF StudyInv, Idle, Worked
<1>5. ProcessInv'
  BY <1>1 DEF ProcessInv
<1>6. NewsInv'
  BY <1>1 DEF NewsInv
<1>7. SettledInv'
  <2>1. feed \in Nat
    BY DEF TypeOK
  <2> QED
    BY <1>1, <2>1 DEF SettledInv, ErrorIsEarned, DecisionOfOwner, None
<1>8. BudgetInv'
  <2>1. ReclaimLimit * (restarts + 1) = ReclaimLimit * restarts + ReclaimLimit
        /\ ReclaimLimit * restarts \in Nat
    BY <1>1
  <2>2. source.attempts \in 0..ReclaimLimit /\ releases \in Nat /\ releases' = releases
    BY DEF Restart, TypeOK, Source
  <2>3. releases' <= ReclaimLimit * restarts'
    BY <1>1, <2>1, <2>2 DEF BudgetInv
  <2> QED
    BY <1>1, <2>1, <2>2, <2>3 DEF BudgetInv
<1> QED
  BY <1>2, <1>3, <1>4, <1>5, <1>6, <1>7, <1>8

-----------------------------------------------------------------------------
(* The study of a frame *)

\* A worker that takes a frame has begun nothing.
LEMMA SubmitInvariant ==
    ASSUME IInv, NEW l \in 1..issued, NEW f \in Frame, Submit(l, f)
    PROVE  IInv'
<1> USE DEF IInv
<1>1. /\ study.pc = "idle"
      /\ study' = [pc |-> "begin", lease |-> l, frame |-> f, tries |-> 0]
      /\ UNCHANGED <<source, sourceAge, feed, decision, cold, beat, beatAge, seen, observed,
                     issued, granted, done, announced, releases, kills, restarts>>
  BY DEF Submit, persisted, client, history
<1>2. TypeOK'
  <2>1. l \in 0..MaxLeases /\ f \in 0..MaxFrames
    BY DEF TypeOK, Frame
  <2>2. study' \in [pc: {"idle", "begin", "study", "complete", "reject", "error", "cleanup"},
                    lease: 0..MaxLeases, frame: 0..MaxFrames, tries: 0..RetryLimit]
    BY <1>1, <2>1
  <2> QED
    BY <1>1, <2>2 DEF TypeOK
<1>3. StudyInv'
  BY <1>1 DEF StudyInv, Worked
<1>4. ProcessInv'
  BY <1>1 DEF ProcessInv
<1>5. BoundInv' /\ NewsInv' /\ BudgetInv' /\ SeenInv'
  BY <1>1 DEF BoundInv, NewsInv, BudgetInv, SeenInv
<1>6. SettledInv'
  BY <1>1 DEF SettledInv, ErrorIsEarned, DecisionOfOwner
<1> QED
  BY <1>2, <1>3, <1>4, <1>5, <1>6

\* Going on to another stage keeps the frame in hand.
LEMMA GoToKeeps ==
    ASSUME TypeOK, NEW pc \in {"idle", "study", "complete", "reject", "error", "cleanup"},
           GoTo(pc)
    PROVE  /\ study' \in [pc: {"idle", "begin", "study", "complete", "reject", "error",
                               "cleanup"},
                          lease: 0..MaxLeases, frame: 0..MaxFrames, tries: 0..RetryLimit]
           /\ study'.pc = pc
           /\ pc # "idle" => study'.lease = study.lease /\ study'.frame = study.frame
<1>1. CASE pc = "idle"
  BY <1>1 DEF GoTo, Idle, None
<1>2. CASE pc # "idle"
  BY <1>2 DEF GoTo, TypeOK
<1> QED
  BY <1>1, <1>2

\* The frame begun is newer than any frame of its lease before it.
LEMMA BeginInvariant ==
    ASSUME IInv, Begin
    PROVE  IInv'
<1> USE DEF IInv
<1>1. /\ study.pc = "begin" /\ study.lease \in 1..issued /\ study.frame \in Frame
      /\ UNCHANGED <<decision, beat, beatAge, seen, observed, issued, granted,
                     done, announced, releases, kills, restarts>>
  BY DEF Begin, client, history, StudyInv
<1>2. CASE /\ UNCHANGED <<source, sourceAge, feed, cold>>
           /\ \E pc \in {"idle", "cleanup"} : GoTo(pc)
  <2>1. PICK pc \in {"idle", "cleanup"} : GoTo(pc)
    BY <1>2
  <2>2. /\ study' \in [pc: {"idle", "begin", "study", "complete", "reject", "error",
                            "cleanup"},
                       lease: 0..MaxLeases, frame: 0..MaxFrames, tries: 0..RetryLimit]
        /\ study'.pc = pc
        /\ pc # "idle" => study'.lease = study.lease /\ study'.frame = study.frame
    BY <2>1, GoToKeeps
  <2>3. TypeOK'
    BY <1>1, <1>2, <2>2 DEF TypeOK
  <2>4. StudyInv'
    BY <1>1, <1>2, <2>2 DEF StudyInv, Worked
  <2>5. ProcessInv'
    BY <1>1, <1>2 DEF ProcessInv
  <2>6. BoundInv' /\ NewsInv' /\ BudgetInv' /\ SeenInv'
    BY <1>1, <1>2 DEF BoundInv, NewsInv, BudgetInv, SeenInv
  <2>7. SettledInv'
    BY <1>1, <1>2 DEF SettledInv, ErrorIsEarned, DecisionOfOwner
  <2> QED
    BY <2>3, <2>4, <2>5, <2>6, <2>7
<1>3. CASE /\ Leased(study.lease)
           /\ Advances(study.frame)
           /\ source' = [source EXCEPT !.state = "VALIDATING", !.reason = "other",
                                       !.rev = @ + 1, !.processing = study.frame]
           /\ sourceAge' = 0
           /\ feed' = study.frame
           /\ Saved
           /\ GoTo("study")
  <2>1. /\ source \in Source /\ source.rev + 1 \in Nat /\ study.frame \in 1..MaxFrames
        /\ feed \in 0..MaxFrames
    BY <1>1 DEF TypeOK, Source, Frame
  <2>2. /\ source' \in Source
        /\ source'.state = "VALIDATING" /\ source'.rev = source.rev + 1
        /\ source'.processing = study.frame /\ source'.lease = source.lease
        /\ source'.gen = source.gen /\ source'.name = source.name
        /\ source'.attempts = source.attempts
    <3>1. "VALIDATING" \in State /\ "other" \in Reason /\ study.frame \in 0..MaxFrames
      BY <2>1 DEF State, Reason
    <3> QED
      BY <1>3, <2>1, <3>1 DEF Source
  <2>3. /\ study' \in [pc: {"idle", "begin", "study", "complete", "reject", "error",
                            "cleanup"},
                       lease: 0..MaxLeases, frame: 0..MaxFrames, tries: 0..RetryLimit]
        /\ study'.pc = "study"
        /\ study'.lease = study.lease /\ study'.frame = study.frame
    BY <1>3, GoToKeeps
  <2>4. source.lease = study.lease /\ source.lease # None /\ source.lease \in Lease
    BY <1>1, <1>3 DEF Leased, Owns, None, Lease, TypeOK
  <2>5. cold' \in BOOLEAN /\ ~cold'
    BY <1>3 DEF Saved
  <2>6. TypeOK'
    <3>1. feed' \in 0..MaxFrames /\ sourceAge' \in 0..Old
      BY <1>3, <2>1 DEF Old
    <3> QED
      BY <1>1, <2>2, <2>3, <2>5, <3>1 DEF TypeOK
  <2>7. BoundInv'
    BY <1>1, <2>2, <2>4 DEF BoundInv, HeldState
  <2>8. StudyInv'
    BY <1>1, <1>3, <2>2, <2>3 DEF StudyInv
  <2>9. done[source.lease] <= feed /\ feed < study.frame /\ done[source.lease] \in Nat
    BY <1>3, <2>4 DEF SettledInv, Advances, TypeOK
  <2>10. ProcessInv'
    BY <1>1, <1>3, <2>1, <2>2, <2>3, <2>4, <2>9 DEF ProcessInv
  <2>11. SettledInv'
    <3>1. decision \in [lease: 0..MaxLeases, frame: 0..MaxFrames]
      BY DEF TypeOK
    <3>2. DecisionOfOwner'
      BY <1>1, <1>3, <2>1, <2>2, <2>9, <3>1 DEF SettledInv, DecisionOfOwner
    <3>3. ErrorIsEarned'
      BY <2>2 DEF ErrorIsEarned
    <3> QED
      BY <1>1, <1>3, <2>1, <2>2, <2>9, <3>2, <3>3 DEF SettledInv
  <2>12. NewsInv'
    <3>1. announced \in Nat
      BY DEF TypeOK
    <3> QED
      BY <1>1, <1>3, <2>1, <2>2, <2>4, <2>9, <3>1 DEF NewsInv
  <2>13. BudgetInv'
    BY <1>1, <2>2, <2>5 DEF BudgetInv
  <2>14. SeenInv'
    BY <1>1, <2>2 DEF SeenInv, TypeOK, Source
  <2> QED
    BY <2>6, <2>7, <2>8, <2>10, <2>11, <2>12, <2>13, <2>14
<1> QED
  BY <1>2, <1>3 DEF Begin

\* A decision is written only by the owner, for the frame it has begun.
LEMMA StudyPublishesInvariant ==
    ASSUME IInv, StudyPublishes
    PROVE  IInv'
<1> USE DEF IInv
<1>1. /\ study.pc = "study" /\ GoTo("complete")
      /\ UNCHANGED <<source, sourceAge, feed, beat, beatAge, seen, observed, issued, granted,
                     done, announced, releases, kills, restarts>>
  BY DEF StudyPublishes, client, history
<1>2. /\ study' \in [pc: {"idle", "begin", "study", "complete", "reject", "error", "cleanup"},
                     lease: 0..MaxLeases, frame: 0..MaxFrames, tries: 0..RetryLimit]
      /\ study'.pc = "complete"
      /\ study'.lease = study.lease /\ study'.frame = study.frame
  BY <1>1, GoToKeeps
<1>3. /\ decision' \in [lease: 0..MaxLeases, frame: 0..MaxFrames]
      /\ DecisionOfOwner'
      /\ cold' \in BOOLEAN /\ (cold' => cold)
  <2>1. CASE /\ Publishable(study.lease)
             /\ decision' = [lease |-> study.lease, frame |-> study.frame]
             /\ Saved
    <3>1. source.lease = study.lease /\ study.frame = feed
      BY <1>1, <2>1 DEF Publishable, Owns, StudyInv, Worked
    <3>2. study.lease \in 0..MaxLeases /\ study.frame \in 0..MaxFrames
      BY DEF TypeOK
    <3>3. decision'.lease = study.lease /\ decision'.frame = study.frame
      BY <2>1
    <3>4. decision' \in [lease: 0..MaxLeases, frame: 0..MaxFrames]
      BY <2>1, <3>2
    <3>5. DecisionOfOwner'
      <4>1. feed' = feed /\ source'.lease = source.lease /\ feed \in Nat
        BY <1>1 DEF TypeOK
      <4> QED
        BY <3>1, <3>3, <4>1 DEF DecisionOfOwner
    <3>6. cold' = FALSE
      BY <2>1 DEF Saved
    <3> QED
      BY <3>4, <3>5, <3>6
  <2>2. CASE UNCHANGED <<decision, cold>>
    BY <1>1, <2>2 DEF DecisionOfOwner, SettledInv, TypeOK
  <2> QED
    BY <2>1, <2>2 DEF StudyPublishes
<1>4. TypeOK'
  BY <1>1, <1>2, <1>3 DEF TypeOK
<1>5. StudyInv' /\ ProcessInv'
  BY <1>1, <1>2 DEF StudyInv, ProcessInv, Worked
<1>6. BoundInv' /\ NewsInv' /\ BudgetInv' /\ SeenInv'
  BY <1>1, <1>3 DEF BoundInv, NewsInv, BudgetInv, SeenInv
<1>7. SettledInv'
  BY <1>1, <1>3 DEF SettledInv, ErrorIsEarned
<1> QED
  BY <1>4, <1>5, <1>6, <1>7

\* A study that ends without a decision keeps its frame in hand.
LEMMA StudyEndsInvariant ==
    ASSUME IInv, NEW pc \in {"complete", "reject", "error"}, StudyEnds(pc)
    PROVE  IInv'
<1> USE DEF IInv
<1>1. /\ study.pc = "study" /\ GoTo(pc)
      /\ UNCHANGED <<source, sourceAge, feed, decision, cold, beat, beatAge, seen, observed,
                     issued, granted, done, announced, releases, kills, restarts>>
  BY DEF StudyEnds, persisted, client, history
<1>2. /\ study' \in [pc: {"idle", "begin", "study", "complete", "reject", "error", "cleanup"},
                     lease: 0..MaxLeases, frame: 0..MaxFrames, tries: 0..RetryLimit]
      /\ study'.pc = pc
      /\ study'.lease = study.lease /\ study'.frame = study.frame
  BY <1>1, GoToKeeps
<1>3. TypeOK'
  BY <1>1, <1>2 DEF TypeOK
<1>4. StudyInv' /\ ProcessInv'
  BY <1>1, <1>2 DEF StudyInv, ProcessInv, Worked
<1>5. BoundInv' /\ NewsInv' /\ BudgetInv' /\ SeenInv'
  BY <1>1 DEF BoundInv, NewsInv, BudgetInv, SeenInv
<1>6. SettledInv'
  BY <1>1 DEF SettledInv, ErrorIsEarned, DecisionOfOwner
<1> QED
  BY <1>3, <1>4, <1>5, <1>6

\* A completed frame is the last one counted; the source is live only if the
\* heartbeat remembers no newer change.
LEMMA CompleteInvariant ==
    ASSUME IInv, Complete
    PROVE  IInv'
<1> USE DEF IInv
<1> DEFINE l == study.lease
           f == study.frame
<1>1. /\ study.pc = "complete"
      /\ UNCHANGED <<feed, decision, beatAge, seen, observed, issued, granted, announced,
                     kills, restarts>>
  BY DEF Complete, client
<1>2. PICK pc \in {"idle", "cleanup"} : GoTo(pc)
  BY DEF Complete
<1>3. /\ study' \in [pc: {"idle", "begin", "study", "complete", "reject", "error", "cleanup"},
                     lease: 0..MaxLeases, frame: 0..MaxFrames, tries: 0..RetryLimit]
      /\ study'.pc = pc
      /\ pc # "idle" => study'.lease = study.lease /\ study'.frame = study.frame
  BY <1>2, GoToKeeps
<1>4. StudyInv'
  BY <1>1, <1>3 DEF StudyInv, Worked
<1>5. CASE ~Leased(l)
  <2>1. UNCHANGED <<source, sourceAge, cold, beat, done, releases>> /\ GoTo("cleanup")
    BY <1>5 DEF Complete
  <2>2. study'.pc = "cleanup" /\ study'.lease = study.lease /\ study'.frame = study.frame
    BY <2>1, GoToKeeps
  <2>3. TypeOK'
    BY <1>1, <1>3, <2>1 DEF TypeOK
  <2>4. ProcessInv'
    BY <1>1, <2>1, <2>2 DEF ProcessInv
  <2>5. BoundInv' /\ NewsInv' /\ BudgetInv' /\ SeenInv'
    BY <1>1, <2>1 DEF BoundInv, NewsInv, BudgetInv, SeenInv
  <2>6. SettledInv'
    BY <1>1, <2>1 DEF SettledInv, ErrorIsEarned, DecisionOfOwner
  <2> QED
    BY <1>4, <2>3, <2>4, <2>5, <2>6
<1>6. CASE Leased(l)
  <2>1. /\ source' = [source EXCEPT
              !.state = IF NewerPending(f) THEN "VALIDATING" ELSE "LIVE",
              !.reason = "other", !.rev = @ + 1, !.attempts = 0, !.processing = None]
        /\ sourceAge' = 0
        /\ beat' = IF BeatMatches /\ ~NewerPending(f)
                   THEN [beat EXCEPT !.pending = None] ELSE beat
        /\ Saved
        /\ done' = [done EXCEPT ![l] = f]
        /\ releases' = 0
    BY <1>6 DEF Complete
  <2>2. /\ source.lease = l /\ l # None /\ l \in Lease
        /\ f = feed /\ f \in Frame
    BY <1>1, <1>6 DEF Leased, Owns, None, Lease, TypeOK, StudyInv, Worked
  <2>3. /\ source' \in Source
        /\ source'.state = IF NewerPending(f) THEN "VALIDATING" ELSE "LIVE"
        /\ source'.rev = source.rev + 1 /\ source'.attempts = 0
        /\ source'.processing = None /\ source'.lease = source.lease
        /\ source'.gen = source.gen /\ source'.name = source.name
    <3>1. "VALIDATING" \in State /\ "LIVE" \in State /\ "other" \in Reason
          /\ None \in 0..MaxFrames /\ 0 \in 0..ReclaimLimit
      BY DEF State, Reason, None
    <3>2. source \in Source /\ source.rev + 1 \in Nat
      BY DEF TypeOK, Source
    <3>3. CASE NewerPending(f)
      <4>1. source' = [source EXCEPT !.state = "VALIDATING", !.reason = "other",
                                     !.rev = @ + 1, !.attempts = 0, !.processing = None]
        BY <2>1, <3>3
      <4> QED
        BY <3>1, <3>2, <3>3, <4>1 DEF Source
    <3>4. CASE ~NewerPending(f)
      <4>1. source' = [source EXCEPT !.state = "LIVE", !.reason = "other",
                                     !.rev = @ + 1, !.attempts = 0, !.processing = None]
        BY <2>1, <3>4
      <4> QED
        BY <3>1, <3>2, <3>4, <4>1 DEF Source
    <3> QED
      BY <3>3, <3>4
  <2>4. /\ done' \in [Lease -> 0..MaxFrames] /\ done'[l] = f
        /\ \A k \in Lease \ {l} : done'[k] = done[k]
    BY <2>1, <2>2 DEF TypeOK, Frame
  <2>5. /\ beat' \in [lease: 0..MaxLeases, fresh: BOOLEAN, pending: 0..MaxFrames]
        /\ beat'.lease = beat.lease
        /\ BeatMatches /\ ~NewerPending(f) => beat'.pending = None
        /\ ~(BeatMatches /\ ~NewerPending(f)) => beat' = beat
    BY <2>1 DEF TypeOK, None
  <2>6. cold' \in BOOLEAN /\ ~cold'
    BY <2>1 DEF Saved
  <2>7. TypeOK'
    <3>1. sourceAge' \in 0..Old /\ releases' \in Nat
      BY <2>1 DEF Old
    <3> QED
      BY <1>1, <1>3, <2>3, <2>4, <2>5, <2>6, <3>1 DEF TypeOK
  <2>8. BoundInv'
    BY <1>1, <2>2, <2>3, <2>4 DEF BoundInv, HeldState, TypeOK, Lease
  <2>9. ProcessInv'
    BY <2>3 DEF ProcessInv
  <2>10. feed \in Nat /\ announced \in Nat /\ beat.pending \in Nat /\ feed # None
    BY <2>2 DEF TypeOK, Frame, None
  <2>11. ~NewerPending(f) => announced <= feed
    BY <2>2, <2>10 DEF NewerPending, BeatMatches, NewsInv, None
  <2>12. SettledInv'
    <3>1. DecisionOfOwner'
      BY <1>1, <2>3 DEF SettledInv, DecisionOfOwner
    <3>2. ErrorIsEarned'
      BY <2>3 DEF ErrorIsEarned
    <3> QED
      BY <1>1, <2>2, <2>3, <2>4, <2>10, <2>11, <3>1, <3>2 DEF SettledInv
  <2>13. NewsInv'
    BY <1>1, <2>2, <2>3, <2>5, <2>10, <2>11 DEF NewsInv
  <2>14. BudgetInv'
    <3>1. ReclaimLimit * restarts \in Nat
      BY DEF TypeOK
    <3> QED
      BY <1>1, <2>1, <2>3, <2>6, <3>1 DEF BudgetInv
  <2>15. SeenInv'
    BY <1>1, <2>3 DEF SeenInv, TypeOK, Source
  <2> QED
    BY <1>4, <2>7, <2>8, <2>9, <2>12, <2>13, <2>14, <2>15
<1> QED
  BY <1>5, <1>6

\* A failure report of the frame in process clears it and puts the source in
\* error; any other changes nothing, and finds no frame of its worker in process.
LEMMA FailInvariant ==
    ASSUME IInv, NEW r \in Reason, Fail(r),
           study.pc \in {"reject", "error", "cleanup"},
           UNCHANGED <<feed, decision, beat, beatAge, client, issued, granted, history>>,
           study' \in [pc: {"idle", "begin", "study", "complete", "reject", "error", "cleanup"},
                       lease: 0..MaxLeases, frame: 0..MaxFrames, tries: 0..RetryLimit],
           study'.pc \in {"idle", "begin", "cleanup"},
           study'.pc # "idle" => study'.lease = study.lease /\ study'.frame = study.frame
    PROVE  IInv'
<1> USE DEF IInv
<1>1. UNCHANGED <<seen, observed, done, announced, releases, kills, restarts>>
  BY DEF client, history
<1>2. StudyInv'
  BY DEF StudyInv, Worked
<1>3. CASE Fails /\ source' = Failed(r) /\ sourceAge' = Old /\ Saved
  <2>1. /\ source' \in Source
        /\ source'.state = "ERROR" /\ source'.rev = source.rev + 1
        /\ source'.processing = None /\ source'.lease = source.lease
        /\ source'.gen = source.gen /\ source'.name = source.name
        /\ source'.attempts = source.attempts
    <3>1. "ERROR" \in State /\ None \in 0..MaxFrames
      BY DEF State, None
    <3>2. source \in Source /\ source.rev + 1 \in Nat
      BY DEF TypeOK, Source
    <3> QED
      BY <1>3, <3>1, <3>2 DEF Failed, Source
  <2>2. /\ source.lease = study.lease /\ source.lease \in Lease /\ source.lease # None
        /\ source.processing # None
    BY <1>3 DEF Fails, Publishable, Owns, StudyInv, Frame, Lease, None, TypeOK
  <2>3. cold' \in BOOLEAN /\ ~cold'
    BY <1>3 DEF Saved
  <2>4. TypeOK'
    <3>1. sourceAge' \in 0..Old
      BY <1>3 DEF Old
    <3> QED
      BY <1>1, <2>1, <2>3, <3>1 DEF TypeOK
  <2>5. BoundInv'
    BY <1>1, <2>1, <2>2 DEF BoundInv
  <2>6. ProcessInv'
    BY <2>1 DEF ProcessInv
  <2>7. SettledInv'
    <3>1. source.processing = feed /\ done[source.lease] < feed /\ feed # None
          /\ done[source.lease] \in Nat /\ feed \in Nat
      BY <2>2 DEF ProcessInv, TypeOK
    <3> QED
      BY <1>1, <2>1, <3>1 DEF SettledInv, ErrorIsEarned, DecisionOfOwner
  <2>8. NewsInv' /\ BudgetInv'
    BY <1>1, <2>1, <2>3 DEF NewsInv, BudgetInv
  <2>9. SeenInv'
    BY <1>1, <2>1 DEF SeenInv, TypeOK, Source
  <2> QED
    BY <1>2, <2>4, <2>5, <2>6, <2>7, <2>8, <2>9
<1>4. CASE ~Fails /\ UNCHANGED <<source, sourceAge, cold>>
  <2>1. TypeOK'
    BY <1>1, <1>4 DEF TypeOK
  <2>2. ~(source.processing # None /\ source.lease # None /\ restarts = 0)
    BY <1>4 DEF Fails, Publishable, Owns, ProcessInv, BoundInv, HeldState
  <2>3. ProcessInv'
    BY <1>1, <1>4, <2>2 DEF ProcessInv
  <2>4. BoundInv' /\ NewsInv' /\ BudgetInv' /\ SeenInv'
    BY <1>1, <1>4 DEF BoundInv, NewsInv, BudgetInv, SeenInv
  <2>5. SettledInv'
    BY <1>1, <1>4 DEF SettledInv, ErrorIsEarned, DecisionOfOwner
  <2> QED
    BY <1>2, <2>1, <2>3, <2>4, <2>5
<1> QED
  BY <1>3, <1>4 DEF Fail

\* A rejected study reports its failure and ends or begins again.
LEMMA RejectInvariant ==
    ASSUME IInv, Reject
    PROVE  IInv'
<1>1. /\ study' \in [pc: {"idle", "begin", "study", "complete", "reject", "error", "cleanup"},
                     lease: 0..MaxLeases, frame: 0..MaxFrames, tries: 0..RetryLimit]
      /\ study'.pc \in {"idle", "begin"}
      /\ study'.pc # "idle" => study'.lease = study.lease /\ study'.frame = study.frame
  <2>1. CASE GoTo("idle")
    BY <2>1, GoToKeeps DEF IInv
  <2>2. CASE /\ study.tries < RetryLimit
             /\ study' = [study EXCEPT !.pc = "begin", !.tries = @ + 1]
    <3>1. study.tries + 1 \in 0..RetryLimit
      BY <2>2 DEF IInv, TypeOK
    <3> QED
      BY <2>2, <3>1 DEF IInv, TypeOK
  <2> QED
    BY <2>1, <2>2 DEF Reject
<1>2. "notAccepted" \in Reason
  BY DEF Reason
<1> QED
  BY <1>1, <1>2, FailInvariant DEF Reject

\* A study that raised reports its failure once or twice.
LEMMA ErrorInvariant ==
    ASSUME IInv, Error
    PROVE  IInv'
<1>1. /\ study' \in [pc: {"idle", "begin", "study", "complete", "reject", "error", "cleanup"},
                     lease: 0..MaxLeases, frame: 0..MaxFrames, tries: 0..RetryLimit]
      /\ study'.pc \in {"idle", "cleanup"}
      /\ study'.pc # "idle" => study'.lease = study.lease /\ study'.frame = study.frame
  <2>1. GoTo("idle") \/ GoTo("cleanup")
    BY DEF Error
  <2> QED
    BY <2>1, GoToKeeps DEF IInv
<1>2. "other" \in Reason
  BY DEF Reason
<1> QED
  BY <1>1, <1>2, FailInvariant DEF Error

-----------------------------------------------------------------------------
(* The invariant and what follows from it *)

\* Every step keeps the invariant.
LEMMA NextInvariant == IInv /\ [Next]_vars => IInv'
<1> SUFFICES ASSUME IInv, [Next]_vars PROVE IInv'
  OBVIOUS
<1>1. ASSUME NEW n \in Names, Claim(n) PROVE IInv'
  BY <1>1, TakeOverInvariant DEF Claim, client
<1>2. ASSUME NEW n \in Names, Reclaim(n) PROVE IInv'
  BY <1>2, TakeOverInvariant DEF Reclaim
<1>3. CASE Observe
  BY <1>3, ObserveInvariant
<1>4. CASE LoseRace
  BY <1>4, LoseRaceInvariant
<1>5. ASSUME NEW l \in 1..issued, ReleaseForReclaim(l) PROVE IInv'
  BY <1>5, ReleaseInvariant
<1>6. ASSUME NEW l \in 1..issued, NEW fresh \in BOOLEAN, NEW healthy \in BOOLEAN,
             NEW p \in 0..MaxFrames, Heartbeat(l, fresh, healthy, p)
      PROVE  IInv'
  BY <1>6, HeartbeatInvariant
<1>7. ASSUME NEW l \in 1..issued, KillFenced(l) PROVE IInv'
  BY <1>7, KillInvariant DEF KillFenced
<1>8. ASSUME NEW l \in 1..issued, NEW f \in Frame, Submit(l, f) PROVE IInv'
  BY <1>8, SubmitInvariant
<1>9. CASE Kill
  BY <1>9, KillInvariant
<1>10. CASE StudyStep
  BY <1>10, BeginInvariant, StudyPublishesInvariant, StudyEndsInvariant, CompleteInvariant,
     RejectInvariant, ErrorInvariant DEF StudyStep
<1>11. CASE Tick
  BY <1>11, TickInvariant
<1>12. CASE Restart
  BY <1>12, RestartInvariant
<1>13. CASE UNCHANGED vars
  <2>1. UNCHANGED <<source, sourceAge, feed, decision, cold, beat, beatAge, study, seen,
                    observed, issued, granted, done, announced, releases, kills, restarts>>
    BY <1>13 DEF vars, persisted, memory, client, history
  <2>2. TypeOK'
    BY <2>1 DEF IInv, TypeOK
  <2>3. BoundInv' /\ StudyInv' /\ ProcessInv' /\ NewsInv' /\ BudgetInv' /\ SeenInv'
    BY <2>1 DEF IInv, BoundInv, StudyInv, ProcessInv, NewsInv, BudgetInv, SeenInv
  <2>4. SettledInv'
    BY <2>1 DEF IInv, SettledInv, ErrorIsEarned, DecisionOfOwner
  <2> QED
    BY <2>2, <2>3, <2>4 DEF IInv
<1> QED
  BY <1>1, <1>2, <1>3, <1>4, <1>5, <1>6, <1>7, <1>8, <1>9, <1>10, <1>11, <1>12, <1>13
     DEF Next

\* The inductive invariant holds in every reachable state, for every number of
\* leases, frames, kills, restarts, retries and recoveries.
THEOREM Invariance == Spec => []IInv
  BY InitInvariant, NextInvariant, PTL DEF Spec

\* Every variable keeps its type; the retry and recovery counters keep their limits.
THEOREM TypeCorrect == Spec => []TypeOK
<1>1. IInv => TypeOK
  BY DEF IInv
<1> QED
  BY <1>1, Invariance, PTL

\* The visible decision is that of the present lease: a study that outlives
\* its source cannot publish.
THEOREM DecisionOwned == Spec => []DecisionOfOwner
<1>1. IInv => DecisionOfOwner
  BY DEF IInv, SettledInv
<1> QED
  BY <1>1, Invariance, PTL

\* A late or repeated failure report never takes a finished study back.
THEOREM ErrorsEarned == Spec => []ErrorIsEarned
<1>1. IInv => ErrorIsEarned
  BY DEF IInv, SettledInv
<1> QED
  BY <1>1, Invariance, PTL

\* A frame in process is in the hands of the worker of its lease.
THEOREM FramesOwned == Spec => []ProcessingOwned
<1>1. IInv => ProcessingOwned
  BY DEF IInv, ProcessInv, ProcessingOwned
<1> QED
  BY <1>1, Invariance, PTL

\* A usable decision rests on a completed study of the last frame counted, and
\* no change announced to this process is newer than that frame.
THEOREM UsableProved == Spec => []UsableIsProved
<1>1. IInv => UsableIsProved
  <2> SUFFICES ASSUME IInv, DecisionUsable
               PROVE  /\ feed # None /\ done[source.lease] = feed
                      /\ source.processing = None
                      /\ announced <= feed
    BY DEF UsableIsProved
  <2>1. OverlaidState = "LIVE" /\ OverlaidFresh
    BY DEF DecisionUsable, PublicState
  <2>2. source.state = "LIVE"
    BY <2>1 DEF OverlaidState
  <2>3. source.lease # None
    BY <2>2 DEF IInv, BoundInv, HeldState
  <2>4. feed # None /\ done[source.lease] = feed /\ source.processing = None
    BY <2>2 DEF IInv, SettledInv, ProcessInv
  <2>5. announced <= feed
    <3> SUFFICES ASSUME ~(announced <= feed) PROVE FALSE
      OBVIOUS
    <3>1. announced \in Nat /\ feed \in Nat /\ beat.pending \in Nat
          /\ sourceAge \in 0..Old /\ beatAge \in 0..Old /\ Old \in Nat
      BY DEF IInv, TypeOK, Old
    <3>2. beatAge <= sourceAge
      BY <2>2 DEF IInv, SettledInv
    <3>3. announced # None
      BY <3>1 DEF None
    <3>4. BeatMatches /\ beat.pending # None
      BY <2>3, <3>1, <3>3 DEF IInv, NewsInv, BeatMatches, None
    <3>5. beatAge = Old
      BY <2>1, <3>4 DEF OverlaidState
    <3>6. sourceAge = Old
      BY <3>1, <3>2, <3>5
    <3> QED
      BY <2>1, <3>5, <3>6 DEF OverlaidFresh
  <2> QED
    BY <2>4, <2>5
<1> QED
  BY <1>1, Invariance, PTL

\* Between two completed studies recovery releases the lease a bounded number
\* of times in one life of the process.
THEOREM BudgetKept == Spec => []ReclaimBudget
<1>1. IInv => ReclaimBudget
  <2> SUFFICES ASSUME IInv PROVE ReclaimBudget
    OBVIOUS
  <2>1. restarts \in Nat /\ releases \in Nat /\ source.attempts \in 0..ReclaimLimit
    BY DEF IInv, TypeOK, Source
  <2>2. ReclaimLimit * (restarts + 1) = ReclaimLimit * restarts + ReclaimLimit
        /\ ReclaimLimit * restarts \in Nat
    BY <2>1
  <2>3. releases <= ReclaimLimit * restarts + source.attempts
    BY DEF IInv, BudgetInv
  <2> QED
    BY <2>1, <2>2, <2>3 DEF ReclaimBudget
<1> QED
  BY <1>1, Invariance, PTL

\* Only a new selection by the operator ends a kill: no heartbeat, late study
\* or recovery claim brings the source back.
THEOREM KillIsFinal == Spec => KilledStaysKilled
<1>1. ASSUME IInv, [Next]_vars, source.state = "KILLED"
      PROVE  source'.state = "KILLED" \/ \E n \in Names : Claim(n)
  <2>1. source.lease = None
    BY <1>1 DEF IInv, BoundInv, HeldState
  <2>2. PublicState = "KILLED"
    BY <1>1, <2>1 DEF PublicState, OverlaidState, BeatMatches
  <2>3. ASSUME NEW l PROVE ~Owns(l)
    BY <2>1 DEF Owns, None
  <2>4. ~Leased(study.lease) /\ ~Publishable(study.lease)
    BY <2>3 DEF Leased, Publishable
  <2>5. ASSUME NEW n \in Names PROVE ~Reclaim(n)
    BY <2>2 DEF Reclaim, FenceHolds, Recoverable
  <2>6. ASSUME NEW l \in 1..issued PROVE ~ReleaseForReclaim(l)
    BY <2>3 DEF ReleaseForReclaim, Leased
  <2>7. ASSUME Kill PROVE source'.state = "KILLED"
    BY <1>1, <2>7 DEF Kill, IInv, TypeOK, Source
  <2>8. ASSUME StudyStep PROVE source' = source
    BY <2>4, <2>8 DEF StudyStep, Begin, StudyPublishes, StudyEnds, Complete, Reject, Error,
                      Fail, Fails, persisted
  <2>9. CASE Next
    BY <1>1, <2>5, <2>6, <2>7, <2>8, <2>9 DEF Next, Observe, LoseRace, Heartbeat, KillFenced,
                                         Submit, Tick, Restart, persisted
  <2>10. CASE UNCHANGED vars
    BY <1>1, <2>10 DEF vars, persisted
  <2> QED
    BY <1>1, <2>9, <2>10
<1>2. IInv /\ [Next]_vars
        => [source.state = "KILLED" =>
              source'.state = "KILLED" \/ \E n \in Names : Claim(n)]_vars
  BY <1>1
<1> QED
  BY <1>2, Invariance, PTL DEF Spec, KilledStaysKilled

\* A recovery claim replaces exactly the source that was observed, although
\* generations and names may repeat: the revision never does.
THEOREM AtomicRecovery == Spec => RecoveryIsAtomic
<1>1. IInv /\ [Next]_vars
        => [(\E n \in Names : Reclaim(n)) => source = seen.record]_vars
  <2> SUFFICES ASSUME IInv, NEW n \in Names, Reclaim(n)
               PROVE  source = seen.record
    OBVIOUS
  <2>1. seen.state # "none" /\ seen.record.rev = source.rev
    BY DEF Reclaim, FenceHolds, Recoverable
  <2> QED
    BY <2>1 DEF IInv, SeenInv
<1> QED
  BY <1>1, Invariance, PTL DEF Spec, RecoveryIsAtomic

-----------------------------------------------------------------------------
(* What the source promises whoever reads it *)

\* Every step grants, revokes, shows a decision of the owner, or changes nothing
\* that LeaseAuthority knows of.
LEMMA StepOfAuthority ==
    ASSUME TypeOK, [Next]_vars
    PROVE  [Authority!Next]_(Authority!vars)
<1> USE DEF Authority!Next, Authority!Grant, Authority!Revoke, Authority!Show, Authority!Hide,
            Authority!vars
<1>1. ASSUME NEW n \in Names, Claim(n) \/ Reclaim(n) PROVE Authority!Grant
  <2>1. source' = Grant(n) /\ decision' = NoDecision /\ issued' = issued + 1
    BY <1>1 DEF Claim, Reclaim, TakeOver
  <2> QED
    BY <2>1 DEF Grant, Unowned, NoDecision, None
<1>2. ASSUME NEW l, ReleaseForReclaim(l) PROVE Authority!Revoke
  BY <1>2 DEF ReleaseForReclaim, Unowned, NoDecision, None
<1>3. CASE Kill
  BY <1>3 DEF Kill, NoDecision, None, TypeOK, Source
<1>4. CASE StudyPublishes
  <2>1. issued' = issued /\ source' = source
    BY <1>4 DEF StudyPublishes
  <2>2. CASE Publishable(study.lease)
    <3>1. /\ decision' = [lease |-> study.lease, frame |-> study.frame]
          /\ study.lease = source.lease /\ source.lease # 0
      BY <1>4, <2>2 DEF StudyPublishes, Publishable, Owns
    <3> QED
      BY <2>1, <3>1
  <2>3. CASE ~Publishable(study.lease)
    BY <1>4, <2>1, <2>3 DEF StudyPublishes
  <2> QED
    BY <2>2, <2>3
<1>5. ASSUME NEW r, Fail(r) PROVE source'.lease = source.lease
  BY <1>5 DEF Fail, Failed, TypeOK, Source
<1>6. CASE Begin \/ Complete
  BY <1>6 DEF Begin, Complete, TypeOK, Source
<1>7. CASE Reject \/ Error
  BY <1>5, <1>7 DEF Reject, Error
<1>8. CASE Tick \/ Restart \/ Observe \/ LoseRace
  BY <1>8 DEF Tick, Restart, Observe, LoseRace, persisted
<1>9. ASSUME NEW l, NEW fresh, NEW healthy, NEW p, Heartbeat(l, fresh, healthy, p)
      PROVE  UNCHANGED <<source, issued, decision>>
  BY <1>9 DEF Heartbeat, persisted
<1>10. ASSUME NEW l, NEW f, Submit(l, f) PROVE UNCHANGED <<source, issued, decision>>
  BY <1>10 DEF Submit, persisted
<1>11. ASSUME NEW pc, StudyEnds(pc) PROVE UNCHANGED <<source, issued, decision>>
  BY <1>11 DEF StudyEnds, persisted
<1>12. CASE UNCHANGED vars
  BY <1>12 DEF vars, persisted
<1> QED
  BY <1>1, <1>2, <1>3, <1>4, <1>6, <1>7, <1>8, <1>9, <1>10, <1>11, <1>12
  DEF Next, StudyStep, KillFenced

\* The ownership record implements LeaseAuthority: through claims, recoveries,
\* releases, kills and late studies, the owner is the last lease granted or none,
\* and the visible decision was made under it.
THEOREM AuthorityKept == Spec => KeepsAuthority
<1>1. Init => Authority!Init
  BY DEF Init, Unowned, NoDecision, None, Authority!Init
<1> QED
  BY <1>1, StepOfAuthority, TypeCorrect, PTL DEF Spec, KeepsAuthority, Authority!Spec

-----------------------------------------------------------------------------
(* The decisions of one lease *)

\* A frame under study is later than the visible decision of its lease.
NotYetShown ==
    study.pc = "study" /\ study.lease = source.lease /\ decision.lease = source.lease
        => decision.frame < study.frame

LEMMA NotYetShownStep == IInv /\ NotYetShown /\ [Next]_vars => NotYetShown'
<1> SUFFICES ASSUME IInv, NotYetShown, [Next]_vars PROVE NotYetShown'
  OBVIOUS
<1>0. TypeOK /\ DecisionOfOwner /\ decision.frame \in Nat /\ feed \in Nat
      /\ study.frame \in Nat
  BY DEF IInv, SettledInv, TypeOK
<1>1. ASSUME NEW n \in Names, Claim(n) \/ Reclaim(n) PROVE NotYetShown'
  <2>1. /\ decision' = NoDecision /\ study' = study /\ source' = Grant(n)
        /\ issued \in Nat
    BY <1>0, <1>1 DEF Claim, Reclaim, TakeOver, TypeOK
  <2> QED
    BY <2>1 DEF NotYetShown, Grant, Unowned, NoDecision, None
<1>2. ASSUME NEW l, ReleaseForReclaim(l) \/ Kill PROVE NotYetShown'
  <2>1. decision' = NoDecision /\ study' = study /\ source'.lease = None
    BY <1>0, <1>2 DEF ReleaseForReclaim, Kill, Unowned, TypeOK, Source
  <2> QED
    BY <1>0, <2>1 DEF NotYetShown, NoDecision, None, IInv, StudyInv
<1>3. CASE Begin
  <2>1. CASE study'.pc # "study"
    BY <2>1 DEF NotYetShown
  <2>2. CASE study'.pc = "study"
    <3>0. Leased(study.lease) /\ Advances(study.frame)
      <4>1. CASE ~Leased(study.lease)
        <5>1. study' = Idle
          BY <1>3, <4>1 DEF Begin, GoTo
        <5> QED
          BY <2>2, <5>1 DEF Idle
      <4>2. CASE Leased(study.lease) /\ ~Advances(study.frame)
        <5>1. study' = [study EXCEPT !.pc = "cleanup"]
          BY <1>3, <4>2 DEF Begin, GoTo
        <5> QED
          BY <1>0, <2>2, <5>1 DEF TypeOK
      <4> QED
        BY <4>1, <4>2
    <3>1. /\ Leased(study.lease) /\ Advances(study.frame)
          /\ source'.lease = source.lease /\ decision' = decision
          /\ study' = [study EXCEPT !.pc = "study"]
      BY <1>0, <1>3, <3>0 DEF Begin, GoTo, TypeOK, Source
    <3>2. study'.frame = study.frame
      BY <1>0, <3>1 DEF TypeOK
    <3>3. decision # NoDecision => decision.frame <= feed
      BY <1>0 DEF DecisionOfOwner
    <3>4. decision.frame <= feed
      BY <1>0, <3>3 DEF NoDecision, None
    <3> QED
      BY <1>0, <3>1, <3>2, <3>4 DEF NotYetShown, Advances
  <2> QED
    BY <2>1, <2>2
<1>4. CASE StudyPublishes \/ Complete \/ Reject \/ Error
  <2>1. \E pc \in {"complete", "cleanup", "begin", "idle"} : study'.pc = pc
    <3>1. \A pc \in {"complete", "cleanup", "idle"} : GoTo(pc) => study'.pc = pc
      BY <1>0 DEF GoTo, Idle, TypeOK
    <3>2. CASE StudyPublishes
      BY <3>1, <3>2 DEF StudyPublishes
    <3>3. CASE Complete
      BY <3>1, <3>3 DEF Complete
    <3>4. CASE Reject
      BY <1>0, <3>1, <3>4 DEF Reject, TypeOK
    <3>5. CASE Error
      BY <3>1, <3>5 DEF Error
    <3> QED
      BY <1>4, <3>2, <3>3, <3>4, <3>5
  <2> QED
    BY <2>1 DEF NotYetShown
<1>5. ASSUME NEW pc \in {"complete", "reject", "error"}, StudyEnds(pc) PROVE NotYetShown'
  <2>1. study'.pc # "study"
    BY <1>0, <1>5 DEF StudyEnds, GoTo, TypeOK
  <2> QED
    BY <2>1 DEF NotYetShown
<1>6. ASSUME NEW l, NEW f, Submit(l, f) PROVE NotYetShown'
  BY <1>6 DEF Submit, NotYetShown
<1>7. CASE Restart
  BY <1>7 DEF Restart, NotYetShown, Idle
<1>8. ASSUME UNCHANGED <<source, decision, study>> PROVE NotYetShown'
  BY <1>8 DEF NotYetShown
<1>9. CASE Tick \/ Observe \/ LoseRace
  BY <1>8, <1>9 DEF Tick, Observe, LoseRace, persisted, memory
<1>10. ASSUME NEW l, NEW fresh, NEW healthy, NEW p, Heartbeat(l, fresh, healthy, p)
       PROVE  NotYetShown'
  BY <1>8, <1>10 DEF Heartbeat, persisted
<1>11. CASE UNCHANGED vars
  BY <1>8, <1>11 DEF vars, persisted, memory
<1> QED
  BY <1>1, <1>2, <1>3, <1>4, <1>5, <1>6, <1>7, <1>9, <1>10, <1>11
  DEF Next, StudyStep, KillFenced

\* Under one lease the visible decision changes to that of a later frame only:
\* neither a retry nor a frame that is offered again after a restart shows an
\* older decision, or the same frame's twice.
DecisionsForward ==
    [][decision.lease # None /\ decision'.lease = decision.lease /\ decision' # decision
         => decision'.frame > decision.frame]_vars

\* A decision made under a lease, and changed under it, is that of a study.
LEMMA NewDecision ==
    ASSUME TypeOK, [Next]_vars, decision' # decision, decision'.lease # None
    PROVE  StudyPublishes /\ Publishable(study.lease)
<1>1. decision' # NoDecision
  BY DEF NoDecision
<1>2. ASSUME NEW n \in Names PROVE ~Claim(n) /\ ~Reclaim(n)
  BY <1>1 DEF Claim, Reclaim, TakeOver
<1>3. ASSUME NEW l PROVE ~ReleaseForReclaim(l) /\ ~KillFenced(l) /\ ~Kill
  BY <1>1 DEF ReleaseForReclaim, KillFenced, Kill
<1>4. ASSUME NEW l, NEW fresh, NEW healthy, NEW p, NEW f
      PROVE  ~Heartbeat(l, fresh, healthy, p) /\ ~Submit(l, f)
  BY DEF Heartbeat, Submit, persisted
<1>5. ASSUME NEW pc PROVE ~StudyEnds(pc)
  BY DEF StudyEnds, persisted
<1>6. ~Begin /\ ~Complete /\ ~Reject /\ ~Error
  BY DEF Begin, Complete, Reject, Error
<1>7. ~Tick /\ ~Restart /\ ~Observe /\ ~LoseRace /\ ~(UNCHANGED vars)
  BY DEF Tick, Restart, Observe, LoseRace, persisted, vars
<1>8. StudyPublishes
  BY <1>2, <1>3, <1>4, <1>5, <1>6, <1>7 DEF Next, StudyStep
<1> QED
  BY <1>8 DEF StudyPublishes

\* Decisions of a lease go forward, for every number of leases and frames.
THEOREM DecisionsGoForward == Spec => DecisionsForward
<1>1. Init => NotYetShown
  BY DEF Init, Idle, NotYetShown
<1>2. IInv /\ NotYetShown /\ [Next]_vars
        => [decision.lease # None /\ decision'.lease = decision.lease /\ decision' # decision
              => decision'.frame > decision.frame]_vars
  <2> SUFFICES ASSUME IInv, NotYetShown, [Next]_vars, decision.lease # None,
                      decision'.lease = decision.lease, decision' # decision
               PROVE  decision'.frame > decision.frame
    OBVIOUS
  <2>1. TypeOK /\ decision.frame \in Nat /\ study.frame \in Nat
    BY DEF IInv, TypeOK
  <2>2. StudyPublishes /\ Publishable(study.lease)
    BY <2>1, NewDecision
  <2>3. /\ study.pc = "study" /\ study.lease = source.lease
        /\ decision' = [lease |-> study.lease, frame |-> study.frame]
    BY <2>2 DEF StudyPublishes, Publishable, Owns
  <2>4. decision.frame < study.frame
    BY <2>3 DEF NotYetShown
  <2> QED
    BY <2>1, <2>3, <2>4
<1> QED
  BY <1>1, <1>2, NotYetShownStep, Invariance, PTL DEF Spec, DecisionsForward

-----------------------------------------------------------------------------
(* Why every study settles, as far as single steps can say it: each step of *)
(* a study brings it nearer to its end, no other step puts it back, and a   *)
(* worker that has nothing in hand leaves nothing in process.               *)

\* Steps that a study has before it at most, in this try and in those to come.
StageSteps == [begin |-> 5, study |-> 4, complete |-> 3, reject |-> 3, error |-> 3,
               cleanup |-> 2]
StepsLeft == 6 * (RetryLimit - study.tries) + StageSteps[study.pc]

\* A step of the study ends it or takes it nearer to its end; no claim, kill,
\* heartbeat or recovery touches it, and a restart ends it.
StudyAdvances ==
    [][study.pc # "idle" =>
         \/ study' = Idle
         \/ study' = study /\ ~StudyStep
         \/ study'.pc # "idle" /\ StepsLeft' < StepsLeft]_vars

\* The steps left are a number with a bound that no history moves.
StudyBounded == study.pc # "idle" => StepsLeft \in 1 .. 6 * (RetryLimit + 1)

\* When the worker is done, the frame it had is settled, or its source killed.
IdleIsSettled ==
    study.pc = "idle" /\ restarts = 0 => source.processing = None \/ source.state = "KILLED"

\* A study that stays in its try and goes to a later stage has fewer steps left.
LEMMA LaterStage ==
    ASSUME TypeOK, study.pc # "idle", NEW pc \in {"study", "complete", "reject", "error", "cleanup"},
           study' = [study EXCEPT !.pc = pc], StageSteps[pc] < StageSteps[study.pc]
    PROVE  study'.pc # "idle" /\ StepsLeft' < StepsLeft
<1>1. /\ study.pc \in {"begin", "study", "complete", "reject", "error", "cleanup"}
      /\ study.tries \in 0..RetryLimit
  BY DEF TypeOK
<1>2. study'.pc = pc /\ study'.tries = study.tries
  BY DEF TypeOK
<1>3. StageSteps[pc] \in Nat /\ StageSteps[study.pc] \in Nat
  BY <1>1 DEF StageSteps
<1>4. \A a, b, n \in Nat : a < b => 6 * n + a < 6 * n + b
  OBVIOUS
<1>5. RetryLimit - study.tries \in Nat
  BY <1>1
<1>6. StepsLeft' = 6 * (RetryLimit - study.tries) + StageSteps[pc]
  BY <1>2 DEF StepsLeft
<1> QED
  BY <1>2, <1>3, <1>4, <1>5, <1>6 DEF StepsLeft

\* A study that was refused and is offered again has used a try up.
LEMMA NextTry ==
    ASSUME TypeOK, study.pc = "reject", study.tries < RetryLimit,
           study' = [study EXCEPT !.pc = "begin", !.tries = study.tries + 1]
    PROVE  study'.pc # "idle" /\ StepsLeft' < StepsLeft
<1>1. study.tries \in 0..RetryLimit
  BY DEF TypeOK
<1>2. study'.pc = "begin" /\ study'.tries = study.tries + 1
  BY DEF TypeOK
<1>3. StepsLeft' = 6 * (RetryLimit - (study.tries + 1)) + 5
  BY <1>2 DEF StepsLeft, StageSteps
<1>4. StepsLeft = 6 * (RetryLimit - study.tries) + 3
  BY DEF StepsLeft, StageSteps
<1>5. \A t, r \in Nat : 6 * (r - (t + 1)) + 5 < 6 * (r - t) + 3
  OBVIOUS
<1> QED
  BY <1>1, <1>2, <1>3, <1>4, <1>5

LEMMA StudyStepAdvances ==
    ASSUME TypeOK, StudyStep
    PROVE  study' = Idle \/ (study'.pc # "idle" /\ StepsLeft' < StepsLeft)
<1>1. CASE Begin
  <2>1. study.pc = "begin" /\ (GoTo("idle") \/ GoTo("cleanup") \/ GoTo("study"))
    BY <1>1 DEF Begin
  <2> QED
    BY <2>1, LaterStage DEF GoTo, StageSteps
<1>2. CASE StudyPublishes
  BY <1>2, LaterStage DEF StudyPublishes, GoTo, StageSteps
<1>3. CASE \E pc \in {"complete", "reject", "error"} : StudyEnds(pc)
  BY <1>3, LaterStage DEF StudyEnds, GoTo, StageSteps
<1>4. CASE Complete
  <2>1. study.pc = "complete" /\ (GoTo("idle") \/ GoTo("cleanup"))
    BY <1>4 DEF Complete
  <2> QED
    BY <2>1, LaterStage DEF GoTo, StageSteps
<1>5. CASE Reject
  BY <1>5, NextTry DEF Reject, GoTo
<1>6. CASE Error
  <2>1. GoTo("idle") \/ (study.pc = "error" /\ GoTo("cleanup"))
    BY <1>6 DEF Error
  <2> QED
    BY <2>1, LaterStage DEF GoTo, StageSteps
<1> QED
  BY <1>1, <1>2, <1>3, <1>4, <1>5, <1>6 DEF StudyStep

LEMMA OthersLeaveStudy ==
    ASSUME [Next]_vars, ~StudyStep, study.pc # "idle"
    PROVE  study' = study \/ study' = Idle
<1>1. ASSUME NEW n \in Names, Claim(n) \/ Reclaim(n) PROVE study' = study
  BY <1>1 DEF Claim, Reclaim, TakeOver
<1>2. CASE Observe \/ LoseRace \/ Tick \/ Restart
  BY <1>2 DEF Observe, LoseRace, Tick, Restart, memory
<1>3. ASSUME NEW l \in 1..issued, ReleaseForReclaim(l) PROVE study' = study
  BY <1>3 DEF ReleaseForReclaim
<1>4. ASSUME NEW l \in 1..issued, NEW fresh \in BOOLEAN, NEW healthy \in BOOLEAN,
             NEW p \in 0..MaxFrames, Heartbeat(l, fresh, healthy, p)
      PROVE  study' = study
  BY <1>4 DEF Heartbeat
<1>5. ASSUME NEW l \in 1..issued, KillFenced(l) PROVE study' = study
  BY <1>5 DEF KillFenced, Kill
<1>6. ASSUME NEW l \in 1..issued, NEW f \in Frame PROVE ~Submit(l, f)
  BY DEF Submit
<1>7. CASE Kill
  BY <1>7 DEF Kill
<1>8. CASE UNCHANGED vars
  BY <1>8 DEF vars, memory
<1> QED
  BY <1>1, <1>2, <1>3, <1>4, <1>5, <1>6, <1>7, <1>8 DEF Next

\* A study takes boundedly many steps of its worker, retries included, and
\* leaves nothing in process: with a worker whose calls return, every frame
\* that is begun is settled.
THEOREM StudiesSettle == Spec => []StudyBounded /\ StudyAdvances /\ []IdleIsSettled
<1>1. IInv => StudyBounded
  <2> SUFFICES ASSUME IInv, study.pc # "idle" PROVE StepsLeft \in 1 .. 6 * (RetryLimit + 1)
    BY DEF StudyBounded
  <2>1. /\ study.pc \in {"begin", "study", "complete", "reject", "error", "cleanup"}
        /\ study.tries \in 0..RetryLimit
    BY DEF IInv, TypeOK
  <2>2. StageSteps[study.pc] \in 2 .. 5
    BY <2>1 DEF StageSteps
  <2>3. \A r, t \in Nat, k \in 2 .. 5 : t <= r => 6 * (r - t) + k \in 1 .. 6 * (r + 1)
    OBVIOUS
  <2> QED
    BY <2>1, <2>2, <2>3 DEF StepsLeft
<1>2. IInv => IdleIsSettled
  BY DEF IInv, IdleIsSettled, ProcessInv, BoundInv, HeldState
<1>3. IInv /\ [Next]_vars =>
        [study.pc # "idle" =>
           \/ study' = Idle
           \/ study' = study /\ ~StudyStep
           \/ study'.pc # "idle" /\ StepsLeft' < StepsLeft]_vars
  BY StudyStepAdvances, OthersLeaveStudy DEF IInv
<1> QED
  BY <1>1, <1>2, <1>3, Invariance, PTL DEF Spec, StudyAdvances
=============================================================================
