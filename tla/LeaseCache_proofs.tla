-------------------------- MODULE LeaseCache_proofs --------------------------
(***************************************************************************)
(* Proofs about LeaseCache.  The locks alone make saves move forward, for  *)
(* every number of processes.  The copies of the lease stay honest and     *)
(* every answer is current until a new source record is saved during a     *)
(* lookup without self._lock, or beside a session file that is stuck.      *)
(***************************************************************************)
EXTENDS LeaseCache, TLAPS

USE CacheAssumption DEF CacheAssumption, Proc, Readers, Writers, Blank, Copy

-----------------------------------------------------------------------------
(* Saves. *)

\* At the start nobody holds a lock or a loaded session.
LEMMA SaveInit == Init => SaveInv
<1> SUFFICES ASSUME Init PROVE SaveInv
  OBVIOUS
<1>1. TypeOK
  <2>1. disk \in Copy /\ mem \in Copy /\ side \in Copy
    BY DEF Init
  <2>2. pc \in [Proc -> {"idle", "load", "save", "write", "stat", "mem", "side", "session",
                        "restat", "keepMem", "keepSide", "done"}]
    BY DEF Init
  <2>3. stat \in [Proc -> Nat] /\ got \in [Proc -> Nat] /\ floor \in [Proc -> Nat]
    BY DEF Init
  <2>4. keeps \in [Proc -> BOOLEAN]
    BY DEF Init
  <2>5. saves \in 0..MaxSaves /\ touches \in 0..MaxTouches
        /\ fallbacks \in 0..MaxFallbacks /\ crashes \in 0..MaxCrashes
    BY DEF Init
  <2>6. disturbed \in BOOLEAN
    BY DEF Init
  <2> QED
    BY <2>1, <2>2, <2>3, <2>4, <2>5, <2>6 DEF TypeOK, Init
<1>2. LockInv
  BY DEF Init, LockInv, Asking, Saving
<1>3. LoadInv
  BY DEF Init, LoadInv
<1> QED
  BY <1>1, <1>2, <1>3 DEF SaveInv

\* Every step keeps the types.
LEMMA TypeNext == ASSUME TypeOK, [Next]_vars PROVE TypeOK'
<1> USE DEF TypeOK
<1>1. ASSUME NEW p \in Proc, TakeLock(p) PROVE TypeOK'
  BY <1>1 DEF TakeLock, GoTo
<1>2. ASSUME NEW p \in Proc, LoadToChange(p) PROVE TypeOK'
  BY <1>2 DEF LoadToChange, GoTo, history
<1>3. ASSUME NEW p \in Proc, TakeCommit(p) PROVE TypeOK'
  BY <1>3 DEF TakeCommit, GoTo
<1>4. ASSUME NEW p \in Proc, LoadToTouch(p) PROVE TypeOK'
  BY <1>4 DEF LoadToTouch, LoadedNow, GoTo, history
<1>5. ASSUME NEW p \in Proc, Write(p) PROVE TypeOK'
  <2>1. disk' \in Copy
    BY <1>5 DEF Write
  <2>2. fallbacks' \in 0..MaxFallbacks
    BY <1>5 DEF Write
  <2>3. disturbed' \in BOOLEAN
    BY <1>5, Zenon DEF Write
  <2> QED
    BY <1>5, <2>1, <2>2, <2>3 DEF Write, GoTo
<1>6. ASSUME NEW p \in Proc, Restat(p) PROVE TypeOK'
  BY <1>6 DEF Restat, GoTo, history
<1>7. ASSUME NEW p \in Proc, KeepInMemory(p) PROVE TypeOK'
  BY <1>7 DEF KeepInMemory, GoTo, history
<1>8. ASSUME NEW p \in Proc, KeepInSidecar(p) PROVE TypeOK'
  BY <1>8 DEF KeepInSidecar, GoTo, history
<1>9. ASSUME NEW p \in Proc, Stat(p) PROVE TypeOK'
  BY <1>9 DEF Stat, GoTo, history
<1>10. ASSUME NEW p \in Proc, ReadMemory(p) PROVE TypeOK'
  BY <1>10 DEF ReadMemory, GoTo, history
<1>11. ASSUME NEW p \in Proc, ReadSidecar(p) PROVE TypeOK'
  BY <1>11 DEF ReadSidecar, GoTo, history
<1>12. ASSUME NEW p \in Proc, ReadSession(p) PROVE TypeOK'
  BY <1>12 DEF ReadSession, GoTo, history
<1>13. ASSUME NEW p \in Proc, Return(p) PROVE TypeOK'
  BY <1>13 DEF Return, GoTo, history
<1>14. ASSUME Crash PROVE TypeOK'
  BY <1>14 DEF Crash, Empty
<1>15. ASSUME UNCHANGED vars PROVE TypeOK'
  BY <1>15 DEF vars, locals, history
<1> QED
  BY <1>1, <1>2, <1>3, <1>4, <1>5, <1>6, <1>7, <1>8, <1>9, <1>10, <1>11, <1>12, <1>13,
     <1>14, <1>15 DEF Next, Step

\* Every step keeps the locks with those who stand in their critical sections.
LEMMA LockNext == ASSUME TypeOK, LockInv, [Next]_vars PROVE LockInv'
<1> USE DEF LockInv, Saving, Asking, TypeOK
<1>1. ASSUME NEW p \in Proc, TakeLock(p) PROVE LockInv'
  BY <1>1 DEF TakeLock, LockFree, GoTo
<1>2. ASSUME NEW p \in Proc, LoadToChange(p) PROVE LockInv'
  BY <1>2 DEF LoadToChange, GoTo, history
<1>3. ASSUME NEW p \in Proc, TakeCommit(p) PROVE LockInv'
  BY <1>3 DEF TakeCommit, GoTo
<1>4. ASSUME NEW p \in Proc, LoadToTouch(p) PROVE LockInv'
  BY <1>4 DEF LoadToTouch, GoTo, history
<1>5. ASSUME NEW p \in Proc, Write(p) PROVE LockInv'
  BY <1>5 DEF Write, GoTo
<1>6. ASSUME NEW p \in Proc, Restat(p) PROVE LockInv'
  BY <1>6 DEF Restat, GoTo, history
<1>7. ASSUME NEW p \in Proc, KeepInMemory(p) PROVE LockInv'
  BY <1>7 DEF KeepInMemory, GoTo, history
<1>8. ASSUME NEW p \in Proc, KeepInSidecar(p) PROVE LockInv'
  BY <1>8 DEF KeepInSidecar, GoTo, history
<1>9. ASSUME NEW p \in Proc, Stat(p) PROVE LockInv'
  BY <1>9 DEF Stat, GoTo, history
<1>10. ASSUME NEW p \in Proc, ReadMemory(p) PROVE LockInv'
  BY <1>10 DEF ReadMemory, GoTo, history
<1>11. ASSUME NEW p \in Proc, ReadSidecar(p) PROVE LockInv'
  BY <1>11 DEF ReadSidecar, GoTo, history
<1>12. ASSUME NEW p \in Proc, ReadSession(p) PROVE LockInv'
  BY <1>12 DEF ReadSession, GoTo, history
<1>13. ASSUME NEW p \in Proc, Return(p) PROVE LockInv'
  BY <1>13 DEF Return, GoTo, history
<1>14. ASSUME Crash PROVE LockInv'
  BY <1>14 DEF Crash
<1>15. ASSUME UNCHANGED vars PROVE LockInv'
  BY <1>15 DEF vars, locals
<1> QED
  BY <1>1, <1>2, <1>3, <1>4, <1>5, <1>6, <1>7, <1>8, <1>9, <1>10, <1>11, <1>12, <1>13,
     <1>14, <1>15 DEF Next, Step

\* What a saver has loaded under its lock stays the content of the session file.
LEMMA LoadNext ==
    ASSUME SaveInv, [Next]_vars
    PROVE  LoadInv'
<1> USE DEF SaveInv, LoadInv, LockInv, Saving, Asking, TypeOK
<1>1. ASSUME NEW p \in Proc, TakeLock(p) PROVE LoadInv'
  BY <1>1 DEF TakeLock, LockFree, GoTo
<1>2. ASSUME NEW p \in Proc, LoadToChange(p) PROVE LoadInv'
  BY <1>2 DEF LoadToChange, GoTo, history
<1>3. ASSUME NEW p \in Proc, TakeCommit(p) PROVE LoadInv'
  BY <1>3 DEF TakeCommit, GoTo
<1>4. ASSUME NEW p \in Proc, LoadToTouch(p) PROVE LoadInv'
  BY <1>4 DEF LoadToTouch, LoadedNow, GoTo, history
<1>5. ASSUME NEW p \in Proc, Write(p) PROVE LoadInv'
  BY <1>5 DEF Write, GoTo
<1>6. ASSUME NEW p \in Proc, Restat(p) PROVE LoadInv'
  BY <1>6 DEF Restat, GoTo, history
<1>7. ASSUME NEW p \in Proc, KeepInMemory(p) PROVE LoadInv'
  BY <1>7 DEF KeepInMemory, GoTo, history
<1>8. ASSUME NEW p \in Proc, KeepInSidecar(p) PROVE LoadInv'
  BY <1>8 DEF KeepInSidecar, GoTo, history
<1>9. ASSUME NEW p \in Proc, Stat(p) PROVE LoadInv'
  BY <1>9 DEF Stat, GoTo, history
<1>10. ASSUME NEW p \in Proc, ReadMemory(p) PROVE LoadInv'
  BY <1>10 DEF ReadMemory, Hit, GoTo, history
<1>11. ASSUME NEW p \in Proc, ReadSidecar(p) PROVE LoadInv'
  BY <1>11 DEF ReadSidecar, Hit, GoTo, history
<1>12. ASSUME NEW p \in Proc, ReadSession(p) PROVE LoadInv'
  BY <1>12 DEF ReadSession, GoTo, history
<1>13. ASSUME NEW p \in Proc, Return(p) PROVE LoadInv'
  BY <1>13 DEF Return, GoTo, history
<1>14. ASSUME Crash PROVE LoadInv'
  BY <1>14 DEF Crash, Empty
<1>15. ASSUME UNCHANGED vars PROVE LoadInv'
  BY <1>15 DEF vars, locals, history
<1> QED
  BY <1>1, <1>2, <1>3, <1>4, <1>5, <1>6, <1>7, <1>8, <1>9, <1>10, <1>11, <1>12, <1>13,
     <1>14, <1>15 DEF Next, Step

\* The strengthening SaveInv holds in every reachable state, for every number
\* of owners, touchers, pollers and watchers.
THEOREM SaveInvariance == Spec => []SaveInv
<1>1. SaveInv /\ [Next]_vars => SaveInv'
  BY TypeNext, LockNext, LoadNext DEF SaveInv
<1> QED
  BY <1>1, SaveInit, PTL DEF Spec

\* Every variable keeps its type.
THEOREM TypeCorrect == Spec => []TypeOK
<1>1. SaveInv => TypeOK
  BY DEF SaveInv
<1> QED
  BY <1>1, SaveInvariance, PTL

\* No save takes the source record back, with readers that hold no lock and
\* with session files that cannot be replaced.
THEOREM NoRevert == Spec => SavesNeverRevert
<1>1. SaveInv /\ [Next]_vars => [disk'.content >= disk.content]_disk
  <2> SUFFICES ASSUME SaveInv, [Next]_vars, disk' # disk
               PROVE  disk'.content >= disk.content
    OBVIOUS
  <2>1. PICK p \in Proc : Write(p)
    BY DEF Next, Step, vars, TakeLock, LoadToChange, TakeCommit, LoadToTouch, Restat,
           KeepInMemory, KeepInSidecar, Stat, ReadMemory, ReadSidecar, ReadSession,
           Return, Crash
  <2>2. p \in Owners \cup Touchers /\ pc[p] = "write"
    BY <2>1 DEF Write, SaveInv, LockInv, Asking
  <2>3. got[p] \in Nat /\ disk.content \in Nat /\ got[p] >= disk.content
    BY <2>2 DEF SaveInv, LoadInv, TypeOK
  <2>4. disk'.content = got[p] \/ disk' = disk
    BY <2>1 DEF Write, SaveInv, TypeOK
  <2> QED
    BY <2>3, <2>4
<1> QED
  BY <1>1, SaveInvariance, PTL DEF Spec, SavesNeverRevert

-----------------------------------------------------------------------------
(* Answers, until a save of a new source record is disturbed. *)

\* At the start there is no copy and no answer.
LEMMA AnswerInit == Init => StampInv /\ AnswerInv
BY DEF Init, StampInv, AnswerInv, InHand, Asking

\* Every step keeps the copies under the present stamp equal to the session.
LEMMA StampNext ==
    ASSUME IInv, [Next]_vars
    PROVE  StampInv'
<1> USE DEF IInv, SaveInv, StampInv, AnswerInv, InHand, TypeOK
<1>1. ASSUME NEW p \in Proc, TakeLock(p) PROVE StampInv'
  BY <1>1 DEF TakeLock, LockFree, GoTo
<1>2. ASSUME NEW p \in Proc, LoadToChange(p) PROVE StampInv'
  BY <1>2 DEF LoadToChange, GoTo, history
<1>3. ASSUME NEW p \in Proc, TakeCommit(p) PROVE StampInv'
  BY <1>3 DEF TakeCommit, GoTo
<1>4. ASSUME NEW p \in Proc, LoadToTouch(p) PROVE StampInv'
  BY <1>4 DEF LoadToTouch, LoadedNow, GoTo, history
<1>5. ASSUME NEW p \in Proc, Write(p) PROVE StampInv'
  BY <1>5 DEF Write, GoTo
<1>6. ASSUME NEW p \in Proc, Restat(p) PROVE StampInv'
  BY <1>6 DEF Restat, GoTo, history
<1>7. ASSUME NEW p \in Proc, KeepInMemory(p) PROVE StampInv'
  BY <1>7 DEF KeepInMemory, GoTo, history
<1>8. ASSUME NEW p \in Proc, KeepInSidecar(p) PROVE StampInv'
  BY <1>8 DEF KeepInSidecar, GoTo, history
<1>9. ASSUME NEW p \in Proc, Stat(p) PROVE StampInv'
  BY <1>9 DEF Stat, GoTo, history
<1>10. ASSUME NEW p \in Proc, ReadMemory(p) PROVE StampInv'
  BY <1>10 DEF ReadMemory, Hit, GoTo, history
<1>11. ASSUME NEW p \in Proc, ReadSidecar(p) PROVE StampInv'
  BY <1>11 DEF ReadSidecar, Hit, GoTo, history
<1>12. ASSUME NEW p \in Proc, ReadSession(p) PROVE StampInv'
  BY <1>12 DEF ReadSession, GoTo, history
<1>13. ASSUME NEW p \in Proc, Return(p) PROVE StampInv'
  BY <1>13 DEF Return, GoTo, history
<1>14. ASSUME Crash PROVE StampInv'
  BY <1>14 DEF Crash, Empty
<1>15. ASSUME UNCHANGED vars PROVE StampInv'
  BY <1>15 DEF vars, locals, history
<1> QED
  BY <1>1, <1>2, <1>3, <1>4, <1>5, <1>6, <1>7, <1>8, <1>9, <1>10, <1>11, <1>12, <1>13,
     <1>14, <1>15 DEF Next, Step

\* Every step keeps the answer of a locked reader at the present content.
LEMMA AnswerNext ==
    ASSUME IInv, [Next]_vars
    PROVE  AnswerInv'
<1> USE DEF IInv, SaveInv, LockInv, LoadInv, StampInv, AnswerInv, Saving, Asking, InHand, TypeOK
<1>1. ASSUME NEW p \in Proc, TakeLock(p) PROVE AnswerInv'
  BY <1>1 DEF TakeLock, LockFree, GoTo
<1>2. ASSUME NEW p \in Proc, LoadToChange(p) PROVE AnswerInv'
  BY <1>2 DEF LoadToChange, GoTo, history
<1>3. ASSUME NEW p \in Proc, TakeCommit(p) PROVE AnswerInv'
  BY <1>3 DEF TakeCommit, GoTo
<1>4. ASSUME NEW p \in Proc, LoadToTouch(p) PROVE AnswerInv'
  BY <1>4 DEF LoadToTouch, LoadedNow, GoTo, history
<1>5. ASSUME NEW p \in Proc, Write(p) PROVE AnswerInv'
  <2> SUFFICES ASSUME ~disturbed' PROVE AnswerInv'
    OBVIOUS
  <2>1. ~disturbed /\ (p \in Owners => Overtaken = {})
    BY <1>5, Zenon DEF Write
  <2>2. disk'.stamp = disk.stamp + 1 /\ disk'.content = got[p]
    BY <1>5, SMT DEF Write
  <2>3. p \in Owners \cup Touchers /\ commit = p
    BY <1>5 DEF Write
  <2>4. UNCHANGED <<mem, side, lock, commit, stat, got, floor>>
        /\ pc' = [pc EXCEPT ![p] = "restat"] /\ pc[p] = "write"
    BY <1>5 DEF Write, GoTo
  <2>5. CASE p \in Touchers
    <3>1. disk'.content = disk.content
      BY <2>2, <2>3, <2>4, <2>5
    <3> QED
      BY <2>1, <2>2, <2>3, <2>4, <2>5, <3>1
  <2>6. CASE p \in Owners
    <3>1. \A q \in Readers : pc[q] \notin Asking
      BY <2>1, <2>3, <2>4, <2>6 DEF Overtaken
    <3>2. \A q \in Proc : q # p => pc[q] \notin InHand
      BY <2>3, <2>4, <2>6, <3>1
    <3> QED
      BY <2>1, <2>2, <2>3, <2>4, <2>6, <3>1, <3>2
  <2> QED
    BY <2>3, <2>5, <2>6
<1>6. ASSUME NEW p \in Proc, Restat(p) PROVE AnswerInv'
  BY <1>6 DEF Restat, GoTo, history
<1>7. ASSUME NEW p \in Proc, KeepInMemory(p) PROVE AnswerInv'
  BY <1>7 DEF KeepInMemory, GoTo, history
<1>8. ASSUME NEW p \in Proc, KeepInSidecar(p) PROVE AnswerInv'
  BY <1>8 DEF KeepInSidecar, GoTo, history
<1>9. ASSUME NEW p \in Proc, Stat(p) PROVE AnswerInv'
  BY <1>9 DEF Stat, GoTo, history
<1>10. ASSUME NEW p \in Proc, ReadMemory(p) PROVE AnswerInv'
  BY <1>10 DEF ReadMemory, Hit, GoTo, history
<1>11. ASSUME NEW p \in Proc, ReadSidecar(p) PROVE AnswerInv'
  BY <1>11 DEF ReadSidecar, Hit, GoTo, history
<1>12. ASSUME NEW p \in Proc, ReadSession(p) PROVE AnswerInv'
  BY <1>12 DEF ReadSession, GoTo, history
<1>13. ASSUME NEW p \in Proc, Return(p) PROVE AnswerInv'
  BY <1>13 DEF Return, GoTo, history
<1>14. ASSUME Crash PROVE AnswerInv'
  BY <1>14 DEF Crash, Empty
<1>15. ASSUME UNCHANGED vars PROVE AnswerInv'
  BY <1>15 DEF vars, locals, history
<1> QED
  BY <1>1, <1>2, <1>3, <1>4, <1>5, <1>6, <1>7, <1>8, <1>9, <1>10, <1>11, <1>12, <1>13,
     <1>14, <1>15 DEF Next, Step

\* The full inductive invariant holds for every number of processes: until a
\* save is disturbed, a copy that could still be accepted is the present lease.
THEOREM Invariance == Spec => []IInv
<1>1. Init => IInv
  BY SaveInit, AnswerInit DEF IInv
<1>2. IInv /\ [Next]_vars => IInv'
  BY TypeNext, LockNext, LoadNext, StampNext, AnswerNext DEF IInv, SaveInv
<1> QED
  BY <1>1, <1>2, PTL DEF Spec

\* Heartbeats, and lookups that no save overtakes, are told of the present
\* lease: the copies in memory and in the sidecar, and restarts in the middle of
\* a save, never bring an old one back.
THEOREM Answers == Spec => []AnswersCurrent
<1>1. IInv => AnswersCurrent
  <2> SUFFICES ASSUME IInv, ~disturbed PROVE AnswersAlways
    BY DEF AnswersCurrent
  <2> QED
    BY DEF IInv, SaveInv, TypeOK, AnswerInv, AnswersAlways, Asking, InHand
<1> QED
  BY <1>1, Invariance, PTL

\* Between saves a copy under the present stamp is the present source record.
THEOREM HonestCopies == Spec => []CacheHonest
<1>1. IInv => CacheHonest
  BY DEF IInv, StampInv, CacheHonest
<1> QED
  BY <1>1, Invariance, PTL
=============================================================================
