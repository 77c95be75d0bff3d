------------------------- MODULE SessionStore_proofs -------------------------
(***************************************************************************)
(* What holds of the session file for every number of calls.  Focus clears *)
(* and releases are the two writers that pass the fence of generations: as *)
(* long as none of them has saved (Fenced), the generation of a source     *)
(* decides whose session is saved, and the file keeps the promise of       *)
(* LeaseAuthority.  Publications and cleared focuses are proved with all   *)
(* writers: a save that counts takes nothing back, and a session that      *)
(* waits for a focus fences every capture until a call ends the waiting or *)
(* saves what it had loaded before.                                        *)
(***************************************************************************)
EXTENDS SessionStore, FiniteSetTheorems, TLAPS

-----------------------------------------------------------------------------
(* What a save leaves *)

\* What a saved session has of the payload p: all but a frame number, which is
\* raised to that of the file.
Kept(s, p) ==
    /\ s \in Session
    /\ s.owner = p.owner /\ s.gen = p.gen /\ s.evidence = p.evidence
    /\ s.live = p.live /\ s.frame >= p.frame

\* A save leaves the file, or a payload that is not of an earlier generation.
LEMMA SavedKept ==
    ASSUME file \in Session, NEW p \in Session
    PROVE  Saved(p) = file \/ (p.gen >= file.gen /\ Kept(Saved(p), p))
  <1>1. CASE Skipped(p)
    BY <1>1 DEF Saved
  <1>2. CASE ~Skipped(p)
    <2>1. p.gen >= file.gen
      BY <1>2 DEF Skipped, OlderSource, Session
    <2>2. Kept(Merged(p), p)
      BY DEF Merged, Kept, Session
    <2>3. QED
      BY <1>2, <2>1, <2>2 DEF Saved
  <1>3. QED
    BY <1>1, <1>2

\* A control write leaves the payload.
LEMMA ControlKept ==
    ASSUME file \in Session, NEW p \in Session
    PROVE  Kept(SavedControl(p), p)
  BY DEF SavedControl, Merged, Kept, Session

\* The greatest of the four numbers a study looks at is one of them.
LEMMA MaxOfFour ==
    ASSUME NEW a \in Nat, NEW b \in Nat, NEW c \in Nat, NEW d \in Nat
    PROVE  Max({a, b, c, d}) \in Nat
  <1>1. \E x \in {a, b, c, d} : \A y \in {a, b, c, d} : x >= y
    <2>1. CASE a >= b /\ a >= c /\ a >= d
      BY <2>1
    <2>2. CASE b >= a /\ b >= c /\ b >= d
      BY <2>2
    <2>3. CASE c >= a /\ c >= b /\ c >= d
      BY <2>3
    <2>4. CASE d >= a /\ d >= b /\ d >= c
      BY <2>4
    <2>5. QED
      BY <2>1, <2>2, <2>3, <2>4
  <1>2. Max({a, b, c, d}) \in {a, b, c, d}
    BY <1>1 DEF Max
  <1>3. QED
    BY <1>2

LEMMA NextFramePositive ==
    ASSUME file \in Session, copy \in [Calls -> Session], NEW c \in Calls
    PROVE  NextFrame(c) \in Nat /\ NextFrame(c) > 0
  <1>1. /\ copy[c].frame \in Nat
        /\ file.frame \in Nat /\ file.shown \in Nat /\ file.voted \in Nat
    BY DEF Session
  <1>2. Max({copy[c].frame, file.frame, file.shown, file.voted}) \in Nat
    BY <1>1, MaxOfFour
  <1>3. QED
    BY <1>2 DEF NextFrame

-----------------------------------------------------------------------------
(* The types, without the claims that are left *)

Types ==
    /\ file \in Session
    /\ pc \in [Calls -> Places]
    /\ copy \in [Calls -> Session]
    /\ number \in [Studies -> Nat] /\ lease \in [Studies -> Leases]
    /\ started \in [Studies -> BOOLEAN]
    /\ issued \in Nat
    /\ halted \in BOOLEAN /\ cleared \in BOOLEAN
    /\ file.owner <= issued
    /\ \A c \in Calls : copy[c].owner <= issued

OneInside == \A c, d \in Insiders : pc[c] = "locked" /\ pc[d] = "locked" => c = d

\* A claim is counted when it returns, and only once.
Claimed == {c \in Claims : pc[c] = "done"}
Counted == issued <= Cardinality(Claimed)

TInv == Types /\ OneInside /\ Counted

LEMMA LeasesLeft ==
    ASSUME TInv, NEW c \in Claims, pc[c] # "done"
    PROVE  /\ issued + 1 \in Leases
           /\ issued + 1 <= Cardinality(Claimed \cup {c})
  <1>1. IsFiniteSet(Claims) /\ Claimed \cup {c} \subseteq Claims /\ Claimed \subseteq Claims
    BY StoreAssumption DEF Claimed
  <1>2. IsFiniteSet(Claimed)
    BY <1>1, FS_Subset
  <1>3. Cardinality(Claimed \cup {c}) = Cardinality(Claimed) + 1
    BY <1>2, FS_AddElement DEF Claimed
  <1>4. Cardinality(Claimed \cup {c}) <= Cardinality(Claims)
    BY <1>1, FS_Subset
  <1>5. Cardinality(Claimed) \in Nat /\ Cardinality(Claims) \in Nat
    BY <1>1, <1>2, FS_CardinalityType
  <1>6. QED
    BY <1>3, <1>4, <1>5 DEF TInv, Types, Counted, Leases

\* A call that is not a claim does not make one return, or it does so without
\* a lease.
LEMMA CountedStays ==
    ASSUME TInv, issued' = issued,
           \A c \in Claims : pc[c] = "done" => pc'[c] = "done"
    PROVE  Counted'
  <1>1. Claimed \subseteq Claimed'
    BY DEF Claimed
  <1>2. IsFiniteSet(Claimed') /\ IsFiniteSet(Claimed)
    BY StoreAssumption, FS_Subset DEF Claimed
  <1>3. Cardinality(Claimed) <= Cardinality(Claimed')
    BY <1>1, <1>2, FS_Subset
  <1>4. Cardinality(Claimed) \in Nat /\ Cardinality(Claimed') \in Nat
    BY <1>2, FS_CardinalityType
  <1>5. QED
    BY <1>3, <1>4 DEF TInv, Types, Counted

THEOREM TypesInit == Init => TInv
  <1> SUFFICES ASSUME Init PROVE TInv
    OBVIOUS
  <1>1. Cardinality(Claims) \in Nat
    BY StoreAssumption, FS_CardinalityType
  <1>2. 0 \in Leases /\ Fresh \in Session
    BY <1>1, StoreAssumption DEF Leases, Fresh, Session, Evidence
  <1>3. Types
    <2>1. Fresh.owner = 0
      BY DEF Fresh
    <2>2. /\ pc \in [Calls -> Places]
          /\ copy \in [Calls -> Session]
          /\ \A c \in Calls : copy[c].owner <= 0
      BY <1>2, <2>1 DEF Init, Places
    <2>3. /\ number \in [Studies -> Nat] /\ lease \in [Studies -> Leases]
          /\ started \in [Studies -> BOOLEAN]
      BY <1>2 DEF Init
    <2>4. halted \in BOOLEAN /\ cleared \in BOOLEAN
      BY DEF Init
    <2>5. /\ file \in Session /\ file.owner <= issued /\ issued \in Nat
          /\ \A c \in Calls : copy[c].owner <= issued
      BY <1>2, <2>1, <2>2 DEF Init
    <2>6. QED
      BY <2>2, <2>3, <2>4, <2>5 DEF Types
  <1>4. OneInside
    BY DEF Init, OneInside, Calls
  <1>5. Claimed = {}
    BY DEF Init, Claimed, Calls, Insiders
  <1>6. Counted
    BY <1>5, FS_EmptySet DEF Counted, Init
  <1>7. QED
    BY <1>3, <1>4, <1>6 DEF TInv

\* What a save leaves is a session, of an owner there has been.
LEMMA SavedType ==
    ASSUME Types, NEW p \in Session, p.owner <= issued
    PROVE  Saved(p) \in Session /\ Saved(p).owner <= issued
  BY SavedKept DEF Types, Kept

LEMMA ReturnTypes ==
    ASSUME TInv, NEW c \in Calls, NEW f \in Session, f.owner <= issued,
           Return(c, f), issued' = issued, halted' \in BOOLEAN
    PROVE  TInv'
  <1>1. Types'
    <2>1. cleared' \in BOOLEAN
      BY DEF Return
    <2>2. QED
      BY <2>1 DEF TInv, Types, Return, Goto, Places
  <1>2. OneInside'
    BY DEF TInv, Types, OneInside, Return, Goto, Calls
  <1>3. Counted'
    BY CountedStays DEF TInv, Types, Return, Goto, Calls, Insiders
  <1>4. QED
    BY <1>1, <1>2, <1>3 DEF TInv

\* A claim takes the next lease.
LEMMA ClaimTypes ==
    ASSUME TInv, NEW c \in Calls, Claim(c)
    PROVE  TInv'
  <1> DEFINE p == [copy[c] EXCEPT
           !.owner = issued + 1, !.gen = @ + 1, !.evidence = NoEvidence,
           !.pictures = FALSE, !.focus = TRUE, !.awaited = FALSE, !.tracking = FALSE]
  <1>1. c \in Claims /\ pc[c] # "done"
    BY DEF Claim, InLock
  <1>2. issued + 1 \in Leases /\ issued + 1 <= Cardinality(Claimed \cup {c})
    BY <1>1, LeasesLeft
  <1>3. p \in Session /\ p.owner = issued + 1
    <2>1. copy[c] \in Session
      BY DEF TInv, Types
    <2>2. issued + 1 \in Leases /\ NoEvidence \in Evidence
      BY <1>2 DEF Evidence
    <2>3. copy[c].gen + 1 \in Nat
      BY <2>1 DEF Session
    <2>4. p \in Session
      BY <2>1, <2>2, <2>3 DEF Session
    <2>5. p.owner = issued + 1
      BY <2>1 DEF Session
    <2>6. QED
      BY <2>4, <2>5
  <1>4. file' \in Session /\ file'.owner = issued + 1
    BY <1>3, ControlKept DEF Claim, Return, Kept, TInv, Types
  <1>5. Types'
    <2>1. /\ issued' = issued + 1
          /\ pc' = [pc EXCEPT ![c] = "done"]
          /\ UNCHANGED <<copy, number, lease, started, halted>>
          /\ cleared' \in BOOLEAN
      BY DEF Claim, Return, Goto
    <2>2. \A d \in Calls : copy[d].owner \in Nat /\ copy[d].owner <= issued
      BY DEF TInv, Types, Session, Leases
    <2>3. issued \in Nat
      BY DEF TInv, Types
    <2>4. \A d \in Calls : copy'[d].owner <= issued'
      BY <2>1, <2>2, <2>3
    <2>5. pc' \in [Calls -> Places]
      BY <2>1 DEF TInv, Types, Places
    <2>6. file'.owner <= issued' /\ issued' \in Nat
      BY <1>4, <2>1, <2>3
    <2>7. QED
      BY <1>4, <2>1, <2>4, <2>5, <2>6 DEF TInv, Types
  <1>6. OneInside'
    BY DEF TInv, Types, OneInside, Claim, Return, Goto, Calls
  <1>7. Claimed' = Claimed \cup {c}
    BY <1>1 DEF Claimed, TInv, Types, Claim, Return, Goto, Calls, Insiders
  <1>8. Counted'
    BY <1>2, <1>7 DEF Counted, Claim
  <1>9. QED
    BY <1>5, <1>6, <1>8 DEF TInv

\* The other control calls return a session of an owner there has been.
LEMMA ControlTypes ==
    ASSUME TInv, NEW c \in Calls, Control(c)
    PROVE  TInv'
  <1> DEFINE s == copy[c]
  <1>1. /\ s \in Session /\ s.owner <= issued /\ s.gen + 1 \in Nat /\ 0 <= issued
        /\ file \in Session /\ file.owner <= issued /\ Types
        /\ halted \in BOOLEAN /\ cleared \in BOOLEAN
    BY DEF TInv, Types, Session
  <1>2. 0 \in Leases /\ NoEvidence \in Evidence
    <2>1. Cardinality(Claims) \in Nat
      BY StoreAssumption, FS_CardinalityType
    <2>2. QED
      BY <2>1 DEF Leases, Evidence
  <1>3. CASE Load(c) \/ LoadLocked(c)
    <2>1. Types'
      BY <1>1, <1>3 DEF Load, LoadLocked, Types, Goto, Places, history
    <2>2. OneInside'
      BY <1>3 DEF Load, LoadLocked, LockFree, TInv, Types, OneInside, Goto, Calls
    <2>3. Counted'
      BY <1>3, CountedStays DEF Load, LoadLocked, TInv, Types, Goto, Calls, Insiders
    <2>4. QED
      BY <2>1, <2>2, <2>3 DEF TInv
  <1>4. CASE Claim(c)
    BY <1>4, ClaimTypes
  <1>5. CASE Kill(c)
    <2> DEFINE p == [s EXCEPT !.owner = 0, !.gen = s.gen + 1, !.evidence = NoEvidence,
                              !.awaited = FALSE, !.tracking = FALSE]
    <2>1. p \in Session /\ p.owner = 0
      BY <1>1, <1>2 DEF Session
    <2>2. SavedControl(p) \in Session /\ SavedControl(p).owner <= issued
      BY <1>1, <2>1, ControlKept DEF Kept
    <2>3. QED
      BY <1>1, <1>5, <2>2, ReturnTypes DEF Kill
  <1>6. CASE Release(c)
    <2> DEFINE p == [s EXCEPT !.owner = 0, !.gen = 0, !.evidence = NoEvidence,
                              !.awaited = FALSE, !.tracking = FALSE]
    <2>1. p \in Session /\ p.owner = 0
      BY <1>1, <1>2 DEF Session
    <2>2. SavedControl(p) \in Session /\ SavedControl(p).owner <= issued
      BY <1>1, <2>1, ControlKept DEF Kept
    <2>3. QED
      BY <1>1, <1>6, <2>2, ReturnTypes DEF Release
  <1>7. CASE EmergencyStop(c)
    <2> DEFINE p == [s EXCEPT !.live = FALSE, !.tracking = FALSE, !.awaited = ~s.focus]
    <2>1. p \in Session /\ p.owner = s.owner
      BY <1>1 DEF Session
    <2>2. Saved(p) \in Session /\ Saved(p).owner <= issued
      BY <1>1, <2>1, SavedType
    <2>3. QED
      BY <1>1, <1>7, <2>2, ReturnTypes DEF EmergencyStop
  <1>8. CASE Start(c)
    <2> DEFINE r == [s EXCEPT !.tracking = FALSE, !.awaited = TRUE, !.evidence = NoEvidence]
               p == [s EXCEPT !.tracking = TRUE, !.awaited = FALSE, !.evidence = NoEvidence]
    <2>1. r \in Session /\ r.owner = s.owner /\ p \in Session /\ p.owner = s.owner
      BY <1>1, <1>2 DEF Session
    <2>2. \A q \in {r, p, s} : Saved(q) \in Session /\ Saved(q).owner <= issued
      BY <1>1, <2>1, SavedType
    <2>3. /\ \E f \in {Saved(r), Saved(p), Saved(s), file} : Return(c, f)
          /\ issued' = issued /\ halted' = halted
      BY <1>8 DEF Start
    <2>4. PICK f \in {Saved(r), Saved(p), Saved(s), file} : Return(c, f)
      BY <2>3
    <2>5. f \in Session /\ f.owner <= issued
      BY <1>1, <2>2
    <2>6. QED
      BY <1>1, <2>3, <2>4, <2>5, ReturnTypes
  <1>9. CASE Stop(c)
    <2> DEFINE p == [s EXCEPT !.tracking = FALSE, !.awaited = ~s.focus]
    <2>1. p \in Session /\ p.owner = s.owner
      BY <1>1 DEF Session
    <2>2. Saved(p) \in Session /\ Saved(p).owner <= issued
      BY <1>1, <2>1, SavedType
    <2>3. QED
      BY <1>1, <1>9, <2>2, ReturnTypes DEF Stop, history
  <1>10. CASE Set(c)
    <2>1. PICK live \in BOOLEAN :
              /\ \/ Return(c, Saved(s))
                 \/ Return(c, Saved([s EXCEPT !.live = live]))
              /\ issued' = issued
              /\ halted' \in BOOLEAN
      BY <1>1, <1>10 DEF Set
    <2> DEFINE p == [s EXCEPT !.live = live]
    <2>2. p \in Session /\ p.owner = s.owner
      BY <1>1 DEF Session
    <2>3. /\ Saved(p) \in Session /\ Saved(p).owner <= issued
          /\ Saved(s) \in Session /\ Saved(s).owner <= issued
      BY <1>1, <2>2, SavedType
    <2>4. QED
      BY <1>1, <2>1, <2>3, ReturnTypes
  <1>11. CASE SetFocus(c)
    <2> DEFINE p == [s EXCEPT !.focus = TRUE, !.awaited = FALSE,
                              !.evidence = NoEvidence, !.pictures = FALSE]
    <2>1. p \in Session /\ p.owner = s.owner
      BY <1>1, <1>2 DEF Session
    <2>2. Saved(p) \in Session /\ Saved(p).owner <= issued
      BY <1>1, <2>1, SavedType
    <2>3. QED
      BY <1>1, <1>11, <2>2, ReturnTypes DEF SetFocus
  <1>12. CASE ClearFocus(c)
    <2> DEFINE p == [s EXCEPT !.focus = FALSE, !.awaited = TRUE, !.evidence = NoEvidence,
                              !.pictures = FALSE, !.tracking = FALSE]
    <2>1. p \in Session /\ p.owner = s.owner
      BY <1>1, <1>2 DEF Session
    <2>2. SavedControl(p) \in Session /\ SavedControl(p).owner <= issued
      BY <1>1, <2>1, ControlKept DEF Kept
    <2>3. QED
      BY <1>1, <1>12, <2>2, ReturnTypes DEF ClearFocus
  <1>13. CASE Crash(c)
    <2> DEFINE p == [s EXCEPT !.tracking = FALSE, !.awaited = FALSE, !.evidence = NoEvidence]
    <2>1. p \in Session /\ p.owner = s.owner
      BY <1>1, <1>2 DEF Session
    <2>2. Saved(p) \in Session /\ Saved(p).owner <= issued
      BY <1>1, <2>1, SavedType
    <2>3. QED
      BY <1>1, <1>13, <2>2, ReturnTypes DEF Crash
  <1>14. CASE Select(c)
    <2> DEFINE p == [s EXCEPT !.awaited = FALSE]
    <2>1. p \in Session /\ p.owner = s.owner
      BY <1>1 DEF Session
    <2>2. \A q \in {p, s} : Saved(q) \in Session /\ Saved(q).owner <= issued
      BY <1>1, <2>1, SavedType
    <2>3. QED
      BY <1>1, <1>14, <2>2, ReturnTypes DEF Select
  <1>15. QED
    BY <1>3, <1>4, <1>5, <1>6, <1>7, <1>8, <1>9, <1>10, <1>11, <1>12, <1>13, <1>14
    DEF Control

LEMMA StudyStep ==
    ASSUME TInv, NEW c \in Studies, pc[c] # "done",
           NEW l \in Places \ {"locked"}, Goto(c, l),
           file' \in Session, file'.owner <= issued,
           copy' \in [Calls -> Session], \A d \in Calls : copy'[d].owner <= issued,
           number' \in [Studies -> Nat], lease' \in [Studies -> Leases],
           started' \in [Studies -> BOOLEAN], issued' = issued,
           halted' = halted, cleared' \in BOOLEAN
    PROVE  TInv'
  <1>1. Types'
    <2>1. pc' \in [Calls -> Places]
      BY DEF TInv, Types, Goto
    <2>2. halted' \in BOOLEAN /\ cleared' \in BOOLEAN
      BY DEF TInv, Types, history
    <2>3. issued' \in Nat
      BY DEF TInv, Types
    <2>4. QED
      BY <2>1, <2>2, <2>3 DEF Types
  <1>2. OneInside'
    BY DEF TInv, Types, OneInside, Goto, Calls
  <1>3. Counted'
    BY CountedStays DEF TInv, Types, Goto, Calls, Insiders
  <1>4. QED
    BY <1>1, <1>2, <1>3 DEF TInv

LEMMA StudyTypes ==
    ASSUME TInv, NEW c \in Studies, Study(c)
    PROVE  TInv'
  <1> DEFINE s == copy[c]
  <1>1. /\ c \in Calls /\ s \in Session /\ s.owner <= issued
        /\ file \in Session /\ file.owner <= issued /\ file.owner \in Leases /\ Types
        /\ copy \in [Calls -> Session] /\ \A d \in Calls : copy[d].owner <= issued
        /\ number \in [Studies -> Nat] /\ lease \in [Studies -> Leases]
        /\ started \in [Studies -> BOOLEAN] /\ cleared \in BOOLEAN
        /\ After(c) \in Places \ {"locked"}
    BY DEF TInv, Types, Calls, Session, After, Places
  <1>2. NoEvidence \in Evidence /\ EvidenceOf(c) \in Evidence
    BY <1>1 DEF EvidenceOf, Evidence
  <1>3. /\ number[c] \in Nat /\ started[c] \in BOOLEAN
        /\ (started[c] \/ file.tracking) \in BOOLEAN
        /\ (s.tracking \/ file.tracking) \in BOOLEAN
        /\ file.live \in BOOLEAN /\ file.voted \in Nat
    BY <1>1 DEF Session
  <1>4. CASE Ingest(c)
    <2> DEFINE p == [file EXCEPT !.focus = TRUE, !.awaited = FALSE, !.tracking = FALSE]
    <2>1. /\ pc[c] # "done" /\ Goto(c, "sent") /\ halted' = halted /\ cleared' \in BOOLEAN
          /\ file' = Saved(p) /\ copy' = copy /\ number' = number /\ started' = started
          /\ lease' \in [Studies -> Leases] /\ issued' = issued
      BY <1>1, <1>4 DEF Ingest
    <2>2. p \in Session /\ p.owner = file.owner
      BY <1>1 DEF Session
    <2>3. Saved(p) \in Session /\ Saved(p).owner <= issued
      BY <1>1, <2>2, SavedType
    <2>4. QED
      BY <1>1, <2>1, <2>3, StudyStep DEF Places
  <1>5. CASE BeginStudy(c)
    <2>1. /\ pc[c] # "done" /\ Goto(c, "loaded") /\ halted' = halted /\ cleared' \in BOOLEAN /\ issued' = issued
          /\ file' = file /\ number' = number /\ started' = started /\ lease' = lease
          /\ copy' = [copy EXCEPT ![c] = file]
      BY <1>1, <1>5 DEF BeginStudy, history
    <2>2. /\ copy' \in [Calls -> Session]
          /\ \A d \in Calls : copy'[d].owner <= issued
      BY <1>1, <2>1
    <2>3. QED
      BY <1>1, <2>1, <2>2, StudyStep DEF Places
  <1>6. CASE Look(c)
    <2>1. /\ pc[c] # "done" /\ halted' = halted /\ cleared' \in BOOLEAN /\ issued' = issued
          /\ file' = file /\ lease' = lease
          /\ started' \in [Studies -> BOOLEAN]
      BY <1>1, <1>3, <1>6 DEF Look, history
    <2>2. CASE s.focus \/ c \in LeasedStudies
      <3> DEFINE p == [s EXCEPT !.focus = TRUE, !.tracking = s.tracking \/ file.tracking]
      <3>1. p \in Session /\ p.owner = s.owner
        BY <1>1, <1>3 DEF Session
      <3>2. /\ number' = [number EXCEPT ![c] = NextFrame(c)]
            /\ copy' = [copy EXCEPT ![c].focus = TRUE, ![c].tracking = @ \/ file.tracking]
            /\ Goto(c, "looked")
        BY <1>6, <2>2 DEF Look
      <3>3. copy' = [copy EXCEPT ![c] = p]
        BY <1>1, <3>2 DEF Session
      <3>4. /\ copy' \in [Calls -> Session]
            /\ \A d \in Calls : copy'[d].owner <= issued
        BY <1>1, <3>1, <3>3
      <3>5. number' \in [Studies -> Nat]
        BY <1>1, <3>2, NextFramePositive
      <3>6. QED
        BY <2>1, <3>2, <3>4, <3>5, <1>1, StudyStep DEF Places
    <2>3. CASE ~(s.focus \/ c \in LeasedStudies)
      <3>1. Goto(c, "unfocused") /\ number' = number /\ copy' = copy
        BY <1>6, <2>3 DEF Look
      <3>2. QED
        BY <1>1, <2>1, <3>1, StudyStep DEF Places
    <2>4. QED
      BY <2>2, <2>3
  <1>7. CASE AwaitFocus(c)
    <2> DEFINE p == [s EXCEPT !.tracking = FALSE, !.awaited = TRUE, !.evidence = NoEvidence]
    <2>1. p \in Session /\ p.owner = s.owner
      BY <1>1, <1>2 DEF Session
    <2>2. Saved(p) \in Session /\ Saved(p).owner <= issued
      BY <1>1, <2>1, SavedType
    <2>3. QED
      BY <1>1, <1>7, <2>2, ReturnTypes DEF AwaitFocus, TInv, Types
  <1>8. CASE ShowPictures(c)
    <2> DEFINE v == IF file.voted = 0 THEN number[c] ELSE file.voted
               p == [file EXCEPT !.frame = number[c], !.shown = number[c], !.voted = v,
                        !.evidence = EvidenceOf(c), !.pictures = TRUE,
                        !.tracking = started[c] \/ file.tracking, !.awaited = FALSE]
    <2>1. v \in Nat
      BY <1>3
    <2>2. p \in Session /\ p.owner = file.owner
      BY <1>1, <1>2, <1>3, <2>1 DEF Session
    <2>3. Saved(p) \in Session /\ Saved(p).owner <= issued
      BY <1>1, <2>2, SavedType
    <2>4. /\ pc[c] # "done" /\ Goto(c, "pictured") /\ halted' = halted /\ cleared' \in BOOLEAN /\ issued' = issued
          /\ file' = Saved(p) /\ copy' = copy /\ number' = number
          /\ lease' = lease /\ started' = started
      BY <1>1, <1>8 DEF ShowPictures, history
    <2>5. QED
      BY <1>1, <2>3, <2>4, StudyStep DEF Places
  <1>9. CASE ShowSignal(c)
    <2> DEFINE p == [file EXCEPT !.frame = number[c], !.shown = number[c], !.voted = number[c],
                        !.evidence = EvidenceOf(c), !.pictures = TRUE,
                        !.tracking = started[c] \/ file.tracking, !.awaited = FALSE]
    <2>1. p \in Session /\ p.owner = file.owner
      BY <1>1, <1>2, <1>3 DEF Session
    <2>2. Saved(p) \in Session /\ Saved(p).owner <= issued
      BY <1>1, <2>1, SavedType
    <2>3. /\ pc[c] # "done" /\ halted' = halted /\ cleared' \in BOOLEAN /\ issued' = issued
          /\ file' = Saved(p) /\ copy' = copy /\ number' = number
          /\ lease' = lease /\ started' = started
      BY <1>1, <1>9 DEF ShowSignal, history
    <2>4. PICK l \in {"signalled", After(c)} : Goto(c, l)
      BY <1>9 DEF ShowSignal
    <2>5. l \in Places \ {"locked"}
      BY <1>1 DEF Places
    <2>6. QED
      BY <1>1, <2>2, <2>3, <2>4, <2>5, StudyStep
  <1>10. CASE Publish(c)
    <2> DEFINE p == [s EXCEPT !.frame = number[c], !.shown = number[c], !.voted = number[c],
                        !.evidence = EvidenceOf(c), !.pictures = TRUE, !.awaited = FALSE,
                        !.tracking = started[c] \/ file.tracking, !.live = LiveSaved(c)]
    <2>1. p \in Session /\ p.owner = s.owner
      <3> DEFINE n == number[c]
                 e == EvidenceOf(c)
                 t == started[c] \/ file.tracking
                 l == LiveSaved(c)
      <3>1. /\ n \in Nat /\ e \in Evidence /\ t \in BOOLEAN /\ l \in BOOLEAN
            /\ s \in Session
        BY <1>1, <1>2, <1>3 DEF LiveSaved
      <3>2. p = [s EXCEPT !.frame = n, !.shown = n, !.voted = n, !.evidence = e,
                          !.pictures = TRUE, !.awaited = FALSE, !.tracking = t, !.live = l]
        OBVIOUS
      <3> HIDE DEF n, e, t, l, s, p
      <3>3. QED
        BY <3>1, <3>2 DEF Session
    <2>2. Saved(p) \in Session /\ Saved(p).owner <= issued
      BY <1>1, <2>1, SavedType
    <2>3. /\ pc[c] # "done" /\ halted' = halted /\ cleared' \in BOOLEAN /\ issued' = issued
          /\ file' = Saved(p) /\ copy' = copy /\ number' = number /\ Goto(c, After(c))
          /\ lease' = lease /\ started' = started
      BY <1>1, <1>10 DEF Publish, history
    <2>4. QED
      BY <1>1, <2>2, <2>3, StudyStep
  <1>11. CASE GiveUp(c)
    <2>1. /\ pc[c] # "done" /\ Goto(c, After(c)) /\ halted' = halted /\ cleared' \in BOOLEAN /\ issued' = issued
          /\ file' = file /\ copy' = copy /\ number' = number
          /\ lease' = lease /\ started' = started
      BY <1>1, <1>11 DEF GiveUp, history
    <2>2. QED
      BY <1>1, <2>1, StudyStep
  <1>12. CASE BlockSurface(c)
    <2> DEFINE p == [file EXCEPT !.frame = number[c], !.evidence = NoEvidence, !.pictures = TRUE,
                        !.tracking = started[c] \/ file.tracking, !.awaited = FALSE]
    <2>1. p \in Session /\ p.owner = file.owner
      BY <1>1, <1>2, <1>3 DEF Session
    <2>2. Saved(p) \in Session /\ Saved(p).owner <= issued
      BY <1>1, <2>1, SavedType
    <2>3. /\ pc[c] # "done" /\ Goto(c, After(c)) /\ halted' = halted /\ cleared' \in BOOLEAN
          /\ file' = Saved(p) /\ copy' = copy /\ number' = number /\ issued' = issued
          /\ lease' = lease /\ started' = started
      BY <1>1, <1>12 DEF BlockSurface, history
    <2>4. QED
      BY <1>1, <2>2, <2>3, StudyStep
  <1>13. CASE Settle(c)
    <2> DEFINE p == [file EXCEPT !.awaited = FALSE]
    <2>1. p \in Session /\ p.owner = file.owner
      BY <1>1 DEF Session
    <2>2. Saved(p) \in Session /\ Saved(p).owner <= issued
      BY <1>1, <2>1, SavedType
    <2>3. /\ pc[c] # "done" /\ Goto(c, "done") /\ halted' = halted /\ cleared' \in BOOLEAN
          /\ file' \in {file, Saved(p)} /\ copy' = copy /\ number' = number /\ issued' = issued
          /\ lease' = lease /\ started' = started
      BY <1>1, <1>13 DEF Settle
    <2>4. file' \in Session /\ file'.owner <= issued
      BY <1>1, <2>2, <2>3
    <2>5. QED
      BY <1>1, <2>3, <2>4, StudyStep DEF Places
  <1>14. QED
    BY <1>4, <1>5, <1>6, <1>7, <1>8, <1>9, <1>10, <1>11, <1>12, <1>13 DEF Study

LEMMA TypesStep == TInv /\ [Next]_vars => TInv'
  <1> SUFFICES ASSUME TInv, [Next]_vars PROVE TInv'
    OBVIOUS
  <1>1. CASE Next
    <2>1. PICK c \in Calls : Control(c) \/ Study(c)
      BY <1>1 DEF Next
    <2>2. CASE Control(c)
      BY <2>2, ControlTypes
    <2>3. CASE Study(c)
      <3>1. c \in Studies
        BY <2>3 DEF Study, Ingest, BeginStudy, Look, AwaitFocus, ShowPictures,
               ShowSignal, Publish, GiveUp, BlockSurface, Settle, After, Studies
      <3>2. QED
        BY <2>3, <3>1, StudyTypes
    <2>4. QED
      BY <2>1, <2>2, <2>3
  <1>2. CASE UNCHANGED vars
    BY <1>2 DEF vars, calls, history, TInv, Types, OneInside, Counted, Claimed
  <1>3. QED
    BY <1>1, <1>2

\* Sessions, copies and leases keep their types, and the tracker lock keeps all
\* but one control call out (TypeOK).
THEOREM TypeCorrect == Spec => []TypeOK
  <1>1. TInv => TypeOK
    <2> SUFFICES ASSUME TInv PROVE TypeOK
      OBVIOUS
    <2>1. IsFiniteSet(Claims) /\ Claimed \subseteq Claims
      BY StoreAssumption DEF Claimed
    <2>2. /\ Cardinality(Claimed) <= Cardinality(Claims)
          /\ Cardinality(Claimed) \in Nat /\ Cardinality(Claims) \in Nat
      BY <2>1, FS_Subset, FS_CardinalityType
    <2>3. issued \in Leases
      BY <2>2 DEF TInv, Types, Counted, Leases
    <2>4. QED
      BY <2>3 DEF TInv, Types, OneInside, TypeOK
  <1>2. QED
    BY <1>1, TypesInit, TypesStep, PTL DEF Spec

-----------------------------------------------------------------------------
(* The fence: the generation of a session decides its owner *)

\* The signal of a session was made of its owner's pixels or of the tracker's
\* own, and of these only if there are local studies.
Clean(s) ==
    /\ s.evidence \in {NoEvidence, LocalPixels, Uploaded(s.owner)}
    /\ s.evidence = Uploaded(s.owner) => s.owner # 0
    /\ s.evidence = LocalPixels => LocalStudies # {}

\* Nobody holds a session of a later generation than the file, or another
\* session of the same.
Behind(c) ==
    /\ copy[c].gen <= file.gen
    /\ copy[c].gen = file.gen => copy[c].owner = file.owner
    /\ Clean(copy[c])
    /\ c \in Insiders /\ pc[c] = "locked" => copy[c].gen = file.gen

\* A frame that was sent was proved to be of an owner.
Proved(c) == pc[c] \notin {"new", "done"} => lease[c] # 0

FInv ==
    /\ Clean(file)
    /\ \A c \in Calls : Behind(c)
    /\ \A c \in LeasedStudies : Proved(c)

\* f is of the file's generation and owner.
Same(f) == f \in Session /\ f.gen = file.gen /\ f.owner = file.owner /\ Clean(f)

\* The owner stays, leaves, or has just been issued its lease.
Moved ==
    \/ file'.owner = file.owner /\ issued' = issued
    \/ file'.owner = issued + 1 /\ issued' = issued + 1 /\ file'.evidence = NoEvidence
    \/ file'.owner = 0 /\ issued' = issued /\ file'.evidence = NoEvidence

\* No save of a copy moves the source.
LEMMA SavedSame ==
    ASSUME TInv, FInv, NEW c \in Calls, NEW p \in Session,
           p.gen = copy[c].gen, p.owner = copy[c].owner,
           p.evidence \in {NoEvidence, copy[c].evidence}
    PROVE  Same(Saved(p))
  <1>1. /\ file \in Session /\ copy[c] \in Session
        /\ copy[c].gen <= file.gen /\ Clean(copy[c])
        /\ copy[c].gen = file.gen => copy[c].owner = file.owner
        /\ copy[c].gen \in Nat /\ file.gen \in Nat /\ Clean(file)
    BY DEF TInv, Types, FInv, Behind, Session
  <1>2. Clean(p)
    BY <1>1 DEF Clean, NoEvidence, LocalPixels, Uploaded
  <1>3. CASE Saved(p) = file
    BY <1>1, <1>3 DEF Same
  <1>4. CASE p.gen >= file.gen /\ Kept(Saved(p), p)
    BY <1>1, <1>2, <1>4 DEF Same, Kept, Clean
  <1>5. QED
    BY <1>1, <1>3, <1>4, SavedKept

\* Nor does a save of what the file says of its source.
LEMMA SavedFile ==
    ASSUME TInv, FInv, NEW p \in Session, p.gen = file.gen, p.owner = file.owner,
           p.evidence \in {NoEvidence, file.evidence}
    PROVE  Same(Saved(p))
  <1>1. /\ file \in Session /\ file.gen \in Nat /\ Clean(file)
    BY DEF TInv, Types, FInv, Session
  <1>2. Clean(p)
    BY <1>1 DEF Clean, NoEvidence, LocalPixels, Uploaded
  <1>3. CASE Saved(p) = file
    BY <1>1, <1>3 DEF Same
  <1>4. CASE p.gen >= file.gen /\ Kept(Saved(p), p)
    BY <1>1, <1>2, <1>4 DEF Same, Kept, Clean
  <1>5. QED
    BY <1>1, <1>3, <1>4, SavedKept

\* A call that leaves the source alone, and copies at most the file, keeps it.
LEMMA FenceStays ==
    ASSUME TInv, FInv, TInv', Same(file'), issued' = issued,
           \A c \in LeasedStudies : Proved(c)',
           \A c \in Calls : \/ copy'[c] = file
                            \/ /\ copy'[c].gen = copy[c].gen
                               /\ copy'[c].owner = copy[c].owner
                               /\ copy'[c].evidence = copy[c].evidence
                               /\ pc'[c] = "locked" => pc[c] = "locked"
    PROVE  FInv' /\ Moved
  <1> SUFFICES ASSUME NEW c \in Calls PROVE Behind(c)'
    BY DEF Same, FInv, Moved
  <1>1. CASE copy'[c] = file
    BY <1>1 DEF Same, FInv, Behind, Clean, TInv, Types, Session
  <1>2. CASE /\ copy'[c].gen = copy[c].gen
             /\ copy'[c].owner = copy[c].owner
             /\ copy'[c].evidence = copy[c].evidence
             /\ pc'[c] = "locked" => pc[c] = "locked"
    BY <1>2 DEF Same, FInv, Behind, Clean
  <1>3. QED
    BY <1>1, <1>2

\* A claim and a kill begin a generation of which nobody has a copy.
LEMMA NewGeneration ==
    ASSUME TInv, FInv, NEW c \in Insiders, pc[c] = "locked", lease' = lease,
           file'.gen = copy[c].gen + 1, file'.evidence = NoEvidence,
           copy' = copy, pc' = [pc EXCEPT ![c] = "done"]
    PROVE  FInv'
  <1>1. c \in Calls /\ copy[c].gen = file.gen /\ file.gen \in Nat
    BY DEF FInv, Behind, Calls, TInv, Types, Session
  <1>2. Clean(file)'
    BY DEF Clean, NoEvidence, LocalPixels, Uploaded
  <1>3. ASSUME NEW d \in Calls PROVE Behind(d)'
    <2>1. copy[d].gen \in Nat /\ copy[d].gen <= file.gen /\ Clean(copy[d])
      BY DEF FInv, Behind, TInv, Types, Session
    <2>2. copy'[d].gen < file'.gen /\ Clean(copy[d])'
      BY <1>1, <2>1 DEF Clean
    <2>3. ~(d \in Insiders /\ pc'[d] = "locked")
      BY <1>1 DEF TInv, Types, OneInside
    <2>4. QED
      BY <1>1, <2>1, <2>2, <2>3 DEF Behind
  <1>4. ASSUME NEW d \in LeasedStudies PROVE Proved(d)'
    BY DEF FInv, Proved, TInv, Types, Calls, Studies
  <1>5. QED
    BY <1>2, <1>3, <1>4 DEF FInv

LEMMA ReturnFence ==
    ASSUME TInv, FInv, TInv', NEW c \in Calls, NEW f, Same(f), Return(c, f), issued' = issued
    PROVE  FInv' /\ Moved
  <1>1. \A d \in LeasedStudies : Proved(d)'
    BY DEF Return, Goto, FInv, Proved, TInv, Types, Calls, Studies
  <1>2. QED
    BY <1>1, FenceStays DEF Return, Goto, TInv, Types

LEMMA ControlFence ==
    ASSUME Fenced', TInv, FInv, TInv', NEW c \in Calls, Control(c)
    PROVE  FInv' /\ Moved
  <1> DEFINE s == copy[c]
  <1>1. /\ s \in Session /\ file \in Session /\ Same(file)
        /\ s.owner \in Leases /\ s.gen \in Nat /\ s.gen + 1 \in Nat
    BY DEF TInv, Types, Session, Same, FInv
  <1>2. 0 \in Leases /\ NoEvidence \in Evidence
    <2>1. Cardinality(Claims) \in Nat
      BY StoreAssumption, FS_CardinalityType
    <2>2. QED
      BY <2>1 DEF Leases, Evidence
  <1>3. CASE Load(c) \/ LoadLocked(c)
    <2>1. /\ file' = file /\ copy' = [copy EXCEPT ![c] = file] /\ issued' = issued
          /\ \A d \in Calls : d # c => pc'[d] = pc[d]
      BY <1>3 DEF Load, LoadLocked, Goto, TInv, Types
    <2>2. \A d \in LeasedStudies : Proved(d)'
      <3>1. c \notin LeasedStudies /\ lease' = lease
        BY <1>3, StoreAssumption DEF Load, LoadLocked, Studies
      <3>2. QED
        BY <2>1, <3>1 DEF FInv, Proved, Calls, Studies
    <2>3. QED
      BY <1>1, <2>1, <2>2, FenceStays DEF TInv, Types
  <1>4. CASE Claim(c)
    <2>1. c \in Insiders /\ pc[c] = "locked"
      BY <1>4, StoreAssumption DEF Claim, InLock, Insiders
    <2> DEFINE p == [s EXCEPT !.owner = issued + 1, !.gen = s.gen + 1,
                              !.evidence = NoEvidence, !.pictures = FALSE,
                              !.focus = TRUE, !.awaited = FALSE, !.tracking = FALSE]
    <2>2. issued + 1 \in Leases
      BY <1>4, <2>1, LeasesLeft DEF Claim
    <2>3. p \in Session /\ p.gen = s.gen + 1 /\ p.evidence = NoEvidence /\ p.owner = issued + 1
      BY <1>1, <1>2, <2>2 DEF Session
    <2>4. /\ file' = SavedControl(p) /\ copy' = copy /\ lease' = lease
          /\ pc' = [pc EXCEPT ![c] = "done"] /\ issued' = issued + 1
      BY <1>4 DEF Claim, Return, Goto
    <2>5. FInv'
      BY <1>1, <2>1, <2>3, <2>4, ControlKept, NewGeneration DEF Kept
    <2>6. Moved
      BY <1>1, <2>3, <2>4, ControlKept DEF Kept, Moved
    <2>7. QED
      BY <2>5, <2>6
  <1>5. CASE Kill(c)
    <2>1. c \in Insiders /\ pc[c] = "locked"
      BY <1>5, StoreAssumption DEF Kill, InLock, Insiders
    <2> DEFINE p == [s EXCEPT !.owner = 0, !.gen = s.gen + 1, !.evidence = NoEvidence,
                              !.awaited = FALSE, !.tracking = FALSE]
    <2>2. p \in Session /\ p.gen = s.gen + 1 /\ p.evidence = NoEvidence /\ p.owner = 0
      BY <1>1, <1>2 DEF Session
    <2>3. /\ file' = SavedControl(p) /\ copy' = copy /\ lease' = lease
          /\ pc' = [pc EXCEPT ![c] = "done"] /\ issued' = issued
      BY <1>5 DEF Kill, Return, Goto
    <2>4. FInv' /\ Moved
      BY <1>1, <2>1, <2>2, <2>3, ControlKept, NewGeneration DEF Kept, Moved
    <2>5. QED
      BY <2>4
  <1>6. ~Release(c) /\ ~ClearFocus(c)
    <2>1. ASSUME Release(c) \/ ClearFocus(c) PROVE FALSE
      <3>1. c \in Releases \cup FocusClears /\ pc'[c] = "done"
        BY <2>1 DEF Release, ClearFocus, Return, Goto, TInv, Types
      <3>2. QED
        BY <3>1 DEF Fenced
    <2>2. QED
      BY <2>1
  <1>7. CASE EmergencyStop(c)
    <2> DEFINE p == [s EXCEPT !.live = FALSE, !.tracking = FALSE, !.awaited = ~s.focus]
    <2>1. p \in Session /\ p.gen = s.gen /\ p.owner = s.owner
          /\ p.evidence \in {NoEvidence, s.evidence}
      BY <1>1, <1>2 DEF Session
    <2>2. Same(Saved(p))
      BY <2>1, SavedSame
    <2>3. QED
      BY <1>7, <2>2, ReturnFence DEF EmergencyStop
  <1>8. CASE Start(c)
    <2> DEFINE r == [s EXCEPT !.tracking = FALSE, !.awaited = TRUE, !.evidence = NoEvidence]
               p == [s EXCEPT !.tracking = TRUE, !.awaited = FALSE, !.evidence = NoEvidence]
    <2>1. \A q \in {r, p, s} : /\ q \in Session /\ q.gen = s.gen /\ q.owner = s.owner
                               /\ q.evidence \in {NoEvidence, s.evidence}
      BY <1>1, <1>2 DEF Session
    <2>2. \A q \in {r, p, s} : Same(Saved(q))
      BY <2>1, SavedSame
    <2>3. PICK f \in {Saved(r), Saved(p), Saved(s), file} : Return(c, f)
      BY <1>8 DEF Start
    <2>4. Same(f)
      BY <1>1, <2>2
    <2>5. issued' = issued
      BY <1>8 DEF Start
    <2>6. QED
      BY <2>3, <2>4, <2>5, ReturnFence
  <1>9. CASE Stop(c)
    <2> DEFINE p == [s EXCEPT !.tracking = FALSE, !.awaited = ~s.focus]
    <2>1. p \in Session /\ p.gen = s.gen /\ p.owner = s.owner
          /\ p.evidence \in {NoEvidence, s.evidence}
      BY <1>1, <1>2 DEF Session
    <2>2. Same(Saved(p))
      BY <2>1, SavedSame
    <2>3. QED
      BY <1>9, <2>2, ReturnFence DEF Stop
  <1>10. CASE Set(c)
    <2>1. PICK live \in BOOLEAN :
              Return(c, Saved(s)) \/ Return(c, Saved([s EXCEPT !.live = live]))
      BY <1>10 DEF Set
    <2> DEFINE p == [s EXCEPT !.live = live]
    <2>2. \A q \in {p, s} : /\ q \in Session /\ q.gen = s.gen /\ q.owner = s.owner
                            /\ q.evidence \in {NoEvidence, s.evidence}
      BY <1>1 DEF Session
    <2>3. Same(Saved(p)) /\ Same(Saved(s))
      BY <2>2, SavedSame
    <2>4. issued' = issued
      BY <1>10 DEF Set
    <2>5. QED
      BY <2>1, <2>3, <2>4, ReturnFence
  <1>11. CASE SetFocus(c)
    <2> DEFINE p == [s EXCEPT !.focus = TRUE, !.awaited = FALSE,
                              !.evidence = NoEvidence, !.pictures = FALSE]
    <2>1. p \in Session /\ p.gen = s.gen /\ p.owner = s.owner
          /\ p.evidence \in {NoEvidence, s.evidence}
      BY <1>1, <1>2 DEF Session
    <2>2. Same(Saved(p))
      BY <2>1, SavedSame
    <2>3. QED
      BY <1>11, <2>2, ReturnFence DEF SetFocus
  <1>12. CASE Crash(c)
    <2> DEFINE p == [s EXCEPT !.tracking = FALSE, !.awaited = FALSE, !.evidence = NoEvidence]
    <2>1. p \in Session /\ p.gen = s.gen /\ p.owner = s.owner
          /\ p.evidence \in {NoEvidence, s.evidence}
      BY <1>1, <1>2 DEF Session
    <2>2. Same(Saved(p))
      BY <2>1, SavedSame
    <2>3. QED
      BY <1>12, <2>2, ReturnFence DEF Crash
  <1>13. CASE Select(c)
    <2> DEFINE p == [s EXCEPT !.awaited = FALSE]
    <2>1. \A q \in {p, s} : /\ q \in Session /\ q.gen = s.gen /\ q.owner = s.owner
                            /\ q.evidence \in {NoEvidence, s.evidence}
      BY <1>1 DEF Session
    <2>2. Same(Saved(p)) /\ Same(Saved(s))
      BY <2>1, SavedSame
    <2>3. QED
      BY <1>13, <2>2, ReturnFence DEF Select
  <1>14. QED
    BY <1>3, <1>4, <1>5, <1>6, <1>7, <1>8, <1>9, <1>10, <1>11, <1>12, <1>13 DEF Control

\* What a study shows is of the owner that the guard has found.
LEMMA SourceSaved ==
    ASSUME TInv, FInv, NEW c \in Studies, SourceCurrent(c), pc[c] \notin {"new", "done"},
           NEW p \in Session, p.evidence = EvidenceOf(c),
           \/ p.gen = file.gen /\ p.owner = file.owner
           \/ p.gen = copy[c].gen /\ p.owner = copy[c].owner
    PROVE  Same(Saved(p))
  <1>1. /\ file \in Session /\ file.gen \in Nat /\ copy[c].gen \in Nat
        /\ copy[c].gen <= file.gen
        /\ copy[c].gen = file.gen => copy[c].owner = file.owner
        /\ Clean(file)
    BY DEF TInv, Types, FInv, Behind, Session, Calls
  <1>2. CASE Saved(p) = file
    BY <1>1, <1>2 DEF Same
  <1>3. CASE p.gen >= file.gen /\ Kept(Saved(p), p)
    <2>1. Saved(p).owner = file.owner /\ Saved(p).gen = file.gen
      BY <1>1, <1>3 DEF Kept, Session
    <2>2. Saved(p).evidence = EvidenceOf(c) /\ Saved(p) \in Session
      BY <1>3 DEF Kept
    <2>3. CASE c \in LocalStudies /\ c \notin LeasedStudies
      BY <2>1, <2>2, <2>3 DEF Same, Clean, EvidenceOf, LocalPixels, NoEvidence, Uploaded
    <2>4. CASE c \in LeasedStudies
      <3>1. file.owner = lease[c] /\ lease[c] # 0
        BY <2>4, StoreAssumption DEF SourceCurrent, FInv, Proved
      <3>2. QED
        BY <2>1, <2>2, <2>4, <3>1
        DEF Same, Clean, EvidenceOf, LocalPixels, NoEvidence, Uploaded
    <2>5. QED
      BY <2>3, <2>4 DEF Studies
  <1>4. QED
    BY <1>1, <1>2, <1>3, SavedKept

LEMMA StudyFence ==
    ASSUME TInv, FInv, TInv', NEW c \in Studies, Study(c)
    PROVE  FInv' /\ Moved
  <1> DEFINE s == copy[c]
             t == started[c] \/ file.tracking
             e == EvidenceOf(c)
             n == number[c]
             v == IF file.voted = 0 THEN n ELSE file.voted
             x == file.live
  <1>1. /\ c \in Calls /\ s \in Session /\ file \in Session /\ Same(file)
        /\ n \in Nat /\ v \in Nat /\ x \in BOOLEAN /\ t \in BOOLEAN
    BY DEF TInv, Types, Session, Same, FInv, Calls
  <1>2. e \in Evidence /\ NoEvidence \in Evidence
    BY DEF EvidenceOf, Evidence, TInv, Types
  <1>3. issued' = issued
    BY DEF Study, Ingest, BeginStudy, Look, AwaitFocus, ShowPictures, ShowSignal, Publish, GiveUp, BlockSurface, Settle, After
  <1>4. \A d \in LeasedStudies : Proved(d)'
    <2>1. \A d \in Calls \ {c} : pc'[d] = pc[d]
      BY DEF Study, Ingest, BeginStudy, Look, AwaitFocus, ShowPictures, ShowSignal, Publish,
         GiveUp, BlockSurface, Settle, After, Return, Goto, TInv, Types
    <2>2. CASE Ingest(c)
      <3>1. lease'[c] # 0 /\ \A d \in Studies \ {c} : lease'[d] = lease[d]
        BY <2>2 DEF Ingest, TInv, Types
      <3>2. QED
        BY <2>1, <3>1 DEF FInv, Proved, Calls, Studies
    <2>3. CASE ~Ingest(c)
      <3>1. lease' = lease
        BY <2>3 DEF Study, BeginStudy, Look, AwaitFocus, ShowPictures, ShowSignal, Publish,
           GiveUp, BlockSurface, Settle, After, Return
      <3>2. c \in LeasedStudies => pc[c] \notin {"new", "done"}
        BY <2>3, StoreAssumption DEF Study, BeginStudy, Look, AwaitFocus, ShowPictures, ShowSignal,
           Publish, GiveUp, BlockSurface, Settle, After
      <3>3. QED
        BY <2>1, <3>1, <3>2 DEF FInv, Proved, Calls, Studies
    <2>4. QED
      BY <2>2, <2>3
  <1>5. CASE GiveUp(c)
    <2>1. /\ file' = file /\ copy' = copy
          /\ \A d \in Calls : pc'[d] = "locked" => pc[d] = "locked"
      BY <1>5 DEF GiveUp, Goto, After, TInv, Types
    <2>2. QED
      BY <1>1, <1>3, <1>4, <2>1, FenceStays
  <1>6. CASE Ingest(c)
    <2> DEFINE p == [file EXCEPT !.focus = TRUE, !.awaited = FALSE, !.tracking = FALSE]
    <2>1. p \in Session /\ p.gen = file.gen /\ p.owner = file.owner /\ p.evidence = file.evidence
      BY <1>1 DEF Session
    <2>2. Same(Saved(p))
      BY <2>1, SavedFile
    <2>3. /\ file' = Saved(p) /\ copy' = copy
          /\ \A d \in Calls : pc'[d] = "locked" => pc[d] = "locked"
      BY <1>6 DEF Ingest, Goto, TInv, Types
    <2>4. QED
      BY <1>3, <1>4, <2>2, <2>3, FenceStays
  <1>7. CASE Settle(c)
    <2> DEFINE p == [file EXCEPT !.awaited = FALSE]
    <2>1. p \in Session /\ p.gen = file.gen /\ p.owner = file.owner /\ p.evidence = file.evidence
      BY <1>1 DEF Session
    <2>2. Same(Saved(p))
      BY <2>1, SavedFile
    <2>3. /\ file' \in {file, Saved(p)} /\ copy' = copy
          /\ \A d \in Calls : pc'[d] = "locked" => pc[d] = "locked"
      BY <1>7 DEF Settle, Goto, TInv, Types
    <2>4. Same(file')
      BY <1>1, <2>2, <2>3
    <2>5. QED
      BY <1>3, <1>4, <2>3, <2>4, FenceStays
  <1>8. CASE BlockSurface(c)
    <2> DEFINE p == [file EXCEPT !.frame = n, !.evidence = NoEvidence, !.pictures = TRUE,
                        !.tracking = t, !.awaited = FALSE]
    <2>1. p \in Session /\ p.gen = file.gen /\ p.owner = file.owner /\ p.evidence = NoEvidence
      <3> HIDE DEF n, t
      <3>1. QED
        BY <1>1, <1>2 DEF Session
    <2>2. Same(Saved(p))
      BY <2>1, SavedFile
    <2>3. /\ file' = Saved(p) /\ copy' = copy
          /\ \A d \in Calls : pc'[d] = "locked" => pc[d] = "locked"
      BY <1>8 DEF BlockSurface, After, Goto, TInv, Types
    <2>4. QED
      BY <1>3, <1>4, <2>2, <2>3, FenceStays
  <1>9. CASE BeginStudy(c)
    <2>1. /\ file' = file /\ copy' = [copy EXCEPT ![c] = file]
          /\ \A d \in Calls : pc'[d] = "locked" => pc[d] = "locked"
      BY <1>9 DEF BeginStudy, Goto, TInv, Types
    <2>2. QED
      BY <1>1, <1>3, <1>4, <2>1, FenceStays DEF TInv, Types
  <1>10. CASE Look(c)
    <2>1. /\ file' = file
          /\ \/ copy' = [copy EXCEPT ![c].focus = TRUE, ![c].tracking = @ \/ file.tracking]
             \/ copy' = copy
          /\ \A d \in Calls : pc'[d] = "locked" => pc[d] = "locked"
      BY <1>1, <1>10 DEF Look, Goto, TInv, Types
    <2>2. \A d \in Calls : /\ copy'[d].gen = copy[d].gen
                           /\ copy'[d].owner = copy[d].owner
                           /\ copy'[d].evidence = copy[d].evidence
      BY <1>1, <2>1 DEF Session, TInv, Types
    <2>3. QED
      BY <1>1, <1>3, <1>4, <2>1, <2>2, FenceStays
  <1>11. CASE AwaitFocus(c)
    <2> DEFINE p == [s EXCEPT !.tracking = FALSE, !.awaited = TRUE, !.evidence = NoEvidence]
    <2>1. p \in Session /\ p.gen = s.gen /\ p.owner = s.owner
          /\ p.evidence \in {NoEvidence, s.evidence}
      BY <1>1, <1>2 DEF Session
    <2>2. Same(Saved(p))
      BY <1>1, <2>1, SavedSame
    <2>3. QED
      BY <1>1, <1>3, <1>11, <2>2, ReturnFence DEF AwaitFocus
  <1>12. CASE ShowPictures(c)
    <2> DEFINE p == [file EXCEPT !.frame = n, !.shown = n, !.voted = v,
                        !.evidence = e, !.pictures = TRUE, !.tracking = t, !.awaited = FALSE]
    <2>1. p \in Session /\ p.gen = file.gen /\ p.owner = file.owner /\ p.evidence = e
      <3> HIDE DEF n, v, e, t
      <3>1. QED
        BY <1>1, <1>2 DEF Session
    <2>2. SourceCurrent(c) /\ pc[c] \notin {"new", "done"}
      BY <1>12 DEF ShowPictures
    <2>3. Same(Saved(p))
      BY <2>1, <2>2, SourceSaved
    <2>4. file' = Saved(p) /\ copy' = copy
          /\ \A d \in Calls : pc'[d] = "locked" => pc[d] = "locked"
      BY <1>12 DEF ShowPictures, Goto, TInv, Types
    <2>5. QED
      BY <1>3, <1>4, <2>3, <2>4, FenceStays
  <1>13. CASE ShowSignal(c)
    <2> DEFINE p == [file EXCEPT !.frame = n, !.shown = n, !.voted = n,
                        !.evidence = e, !.pictures = TRUE, !.tracking = t, !.awaited = FALSE]
    <2>1. p \in Session /\ p.gen = file.gen /\ p.owner = file.owner /\ p.evidence = e
      <3> HIDE DEF n, v, e, t
      <3>1. QED
        BY <1>1, <1>2 DEF Session
    <2>2. SourceCurrent(c) /\ pc[c] \notin {"new", "done"}
      BY <1>13 DEF ShowSignal
    <2>3. Same(Saved(p))
      BY <2>1, <2>2, SourceSaved
    <2>4. file' = Saved(p) /\ copy' = copy
          /\ \A d \in Calls : pc'[d] = "locked" => pc[d] = "locked"
      BY <1>13 DEF ShowSignal, Goto, After, TInv, Types
    <2>5. QED
      BY <1>3, <1>4, <2>3, <2>4, FenceStays
  <1>14. CASE Publish(c)
    <2> DEFINE p == [s EXCEPT !.frame = n, !.shown = n, !.voted = n,
                        !.evidence = e, !.pictures = TRUE, !.awaited = FALSE,
                        !.tracking = t, !.live = x]
    <2>1. p \in Session /\ p.gen = s.gen /\ p.owner = s.owner /\ p.evidence = e
      <3> HIDE DEF s, n, v, e, t, x
      <3>1. QED
        BY <1>1, <1>2 DEF Session
    <2>2. SourceCurrent(c) /\ pc[c] \notin {"new", "done"}
      BY <1>14 DEF Publish
    <2>3. Same(Saved(p))
      BY <2>1, <2>2, SourceSaved
    <2>4. /\ file' = Saved(p) /\ copy' = copy
          /\ \A d \in Calls : pc'[d] = "locked" => pc[d] = "locked"
      BY <1>14 DEF Publish, LiveSaved, Goto, After, TInv, Types
    <2>5. QED
      BY <1>3, <1>4, <2>3, <2>4, FenceStays
  <1>15. QED
    BY <1>9, <1>10, <1>11, <1>12, <1>13, <1>14, <1>5, <1>6, <1>7, <1>8 DEF Study

LEMMA FenceInit == Init => FInv
  <1> SUFFICES ASSUME Init PROVE FInv
    OBVIOUS
  <1>1. Fresh.owner = 0 /\ Fresh.gen = 0 /\ Clean(Fresh)
    BY DEF Fresh, Clean, NoEvidence, LocalPixels, Uploaded
  <1>2. \A c \in Calls : Behind(c)
    BY <1>1 DEF Init, Behind, Insiders, Calls
  <1>3. \A c \in LeasedStudies : Proved(c)
    BY DEF Init, Proved, Calls, Studies
  <1>4. QED
    BY <1>1, <1>2, <1>3 DEF Init, FInv

\* A step is one call's, and only studies change the numbers.
LEMMA OtherCallsStay ==
    ASSUME TInv, NEW c \in Calls, Control(c) \/ Study(c)
    PROVE  /\ \A d \in Calls \ {c} : pc'[d] = pc[d]
           /\ Control(c) => c \notin Studies /\ number' = number
           /\ Study(c) => c \in Studies
  <1>1. pc \in [Calls -> Places]
    BY DEF TInv, Types
  <1>2. PICK l \in Places : Goto(c, l)
    <2>1. CASE Study(c)
      BY <2>1 DEF Study, Ingest, BeginStudy, Look, AwaitFocus, ShowPictures, ShowSignal,
         Publish, GiveUp, BlockSurface, Settle, After, Return, Places
    <2>2. CASE Control(c)
      BY <2>2 DEF Control, Load, LoadLocked, Claim, Kill, Release, EmergencyStop, Start, Stop,
         Set, SetFocus, ClearFocus, Select, Crash, Return, Places
    <2>3. QED
      BY <2>1, <2>2
  <1>3. ASSUME Control(c) PROVE c \notin Studies /\ number' = number
    <2>1. c \in Insiders \cup Outsiders \cup Crashes /\ number' = number
      BY <1>3 DEF Control, Load, LoadLocked, Claim, Kill, Release, EmergencyStop, Start, Stop,
         Set, SetFocus, ClearFocus, Select, Crash, Return, Insiders, Outsiders
    <2>2. QED
      BY <2>1, StoreAssumption
  <1>4. ASSUME Study(c) PROVE c \in Studies
    BY <1>4 DEF Study, Ingest, BeginStudy, Look, AwaitFocus, ShowPictures, ShowSignal,
       Publish, GiveUp, BlockSurface, Settle, After, Studies
  <1>5. QED
    BY <1>1, <1>2, <1>3, <1>4 DEF Goto

\* Who has saved stays done.
LEMMA FencedBefore == TInv /\ [Next]_vars /\ Fenced' => Fenced
  <1> SUFFICES ASSUME TInv, [Next]_vars, Fenced', NEW d \in Releases \cup FocusClears
               PROVE  pc[d] # "done"
    BY DEF Fenced
  <1>1. d \in Calls /\ pc'[d] # "done" /\ d \notin Studies
    BY StoreAssumption DEF Fenced, Calls, Insiders, Outsiders
  <1>2. CASE UNCHANGED vars
    BY <1>1, <1>2 DEF vars, calls
  <1>3. CASE Next
    <2>1. PICK c \in Calls : Control(c) \/ Study(c)
      BY <1>3 DEF Next
    <2>2. CASE c # d
      BY <1>1, <2>1, <2>2, OtherCallsStay
    <2>3. CASE c = d
      BY <1>1, <2>1, <2>3, OtherCallsStay
      DEF Control, Load, LoadLocked, Claim, Kill, Release, EmergencyStop, Start, Stop, Set,
          SetFocus, ClearFocus, Select, Crash, InLock
    <2>4. QED
      BY <2>2, <2>3
  <1>4. QED
    BY <1>2, <1>3

LEMMA FenceStep == TInv /\ FInv /\ TInv' /\ Fenced' /\ [Next]_vars => FInv' /\ Moved
  <1> SUFFICES ASSUME TInv, FInv, TInv', Fenced', [Next]_vars PROVE FInv' /\ Moved
    OBVIOUS
  <1>1. CASE Next
    <2>1. PICK c \in Calls : Control(c) \/ Study(c)
      BY <1>1 DEF Next
    <2>2. CASE Control(c)
      BY <2>2, ControlFence
    <2>3. CASE Study(c)
      BY <2>3, OtherCallsStay, StudyFence
    <2>4. QED
      BY <2>1, <2>2, <2>3
  <1>2. CASE UNCHANGED vars
    BY <1>2 DEF vars, calls, FInv, Behind, Clean, Proved, Moved
  <1>3. QED
    BY <1>1, <1>2

Guarded == Fenced => FInv

LEMMA GuardedStep == TInv /\ Guarded /\ TInv' /\ [Next]_vars => Guarded'
  BY FencedBefore, FenceStep DEF Guarded

LEMMA GuardedInit == Init => Guarded
  BY FenceInit DEF Guarded

\* However many claims, kills, stops, settings, crashes and studies there are, no
\* signal of uploaded pixels is of an earlier owner or left of a killed one, until
\* one of the two writers saves that pass the fence (NoEarlierOwner).
THEOREM NeverOfEarlierOwner == Spec => []NoEarlierOwner
  <1>1. Guarded => NoEarlierOwner
    BY DEF Guarded, FInv, Clean, NoEarlierOwner, NoEvidence, LocalPixels, Uploaded
  <1>2. QED
    BY <1>1, TypesInit, TypesStep, GuardedInit, GuardedStep, PTL DEF Spec

\* Until then the source gets an owner by a claim only (OwnersFromClaims).
THEOREM OwnersKept == Spec => OwnersFromClaims
  <1>1. TInv /\ Guarded /\ TInv' /\ [Next]_vars
        => [Fenced' /\ file'.owner # file.owner => file'.owner = 0 \/ issued' > issued]_vars
    <2> SUFFICES ASSUME TInv, Guarded, TInv', [Next]_vars, Fenced', file'.owner # file.owner
                 PROVE  file'.owner = 0 \/ issued' > issued
      OBVIOUS
    <2>1. Moved /\ issued \in Nat
      BY FencedBefore, FenceStep DEF Guarded, TInv, Types
    <2>2. QED
      BY <2>1 DEF Moved
  <1>2. QED
    BY <1>1, TypesInit, TypesStep, GuardedInit, GuardedStep, PTL DEF Spec, OwnersFromClaims

\* Every step of every writer grants, revokes, shows, hides, or changes nothing
\* that LeaseAuthority knows of.
LEMMA StepOfAuthority ==
    ASSUME TInv, FInv, TInv', Fenced', [Next]_vars
    PROVE  [Authority!Next]_(Authority!vars)
  <1>1. FInv' /\ Moved
    BY FenceStep
  <1>2. CASE file'.evidence = NoEvidence
    <2>1. Attributed' = 0
      BY <1>2 DEF Attributed, NoEvidence
    <2>2. QED
      BY <1>1, <2>1 DEF Moved, Authority!Next, Authority!Grant, Authority!Revoke, Authority!Hide
  <1>3. CASE file'.evidence = LocalPixels
    <2>1. Attributed' = 0 /\ file'.evidence # NoEvidence
      BY <1>3 DEF Attributed, LocalPixels, NoEvidence
    <2>2. QED
      BY <1>1, <2>1 DEF Moved, Authority!Next, Authority!Hide
  <1>4. CASE file'.evidence = Uploaded(file'.owner)
    <2>1. Attributed' = file'.owner /\ file'.evidence # NoEvidence /\ file'.owner # 0
      BY <1>1, <1>4 DEF Attributed, Uploaded, NoEvidence, FInv, Clean
    <2>2. file'.owner = file.owner /\ issued' = issued
      BY <1>1, <2>1 DEF Moved
    <2>3. QED
      BY <2>1, <2>2 DEF Authority!Next, Authority!Show
  <1>5. QED
    BY <1>1, <1>2, <1>3, <1>4 DEF FInv, Clean

\* The session file implements LeaseAuthority as long as the fence stands: whatever
\* is loaded before a claim, a kill or a publication and saved after it, the owner
\* is the last lease granted or none, and uploaded pixels are visible under their
\* own lease only (KeepsAuthority).
THEOREM AuthorityKept == Spec => KeepsAuthority
  <1>1. Init => Authority!Init
    BY DEF Init, Fresh, Attributed, NoEvidence, Authority!Init
  <1>2. TInv /\ Guarded /\ TInv' /\ [Next]_vars
        => [Fenced' => [Authority!Next]_(Authority!vars)]_vars
    BY FencedBefore, StepOfAuthority DEF Guarded
  <1>3. QED
    BY <1>1, <1>2, TypesInit, TypesStep, GuardedInit, GuardedStep, PTL DEF Spec, KeepsAuthority

-----------------------------------------------------------------------------
(* Publications, with all writers *)

\* A study has a number from the look on.
Numbered ==
    \A c \in Studies : pc[c] \in {"looked", "pictured", "signalled"} => number[c] > 0

\* The look gives a number before it makes the study one that publishes.
LEMMA NumberedStep == TInv /\ Numbered /\ [Next]_vars => Numbered'
  <1> SUFFICES ASSUME TInv, Numbered, [Next]_vars PROVE Numbered'
    OBVIOUS
  <1>1. ASSUME NEW c \in Calls, Control(c) PROVE Numbered'
    BY <1>1, OtherCallsStay DEF Numbered, Calls
  <1>2. ASSUME NEW c \in Calls, Study(c) PROVE Numbered'
    <2>1. c \in Studies /\ \A d \in Calls \ {c} : pc'[d] = pc[d]
      BY <1>2, OtherCallsStay
    <2>2. /\ pc \in [Calls -> Places] /\ number \in [Studies -> Nat]
          /\ NextFrame(c) > 0 /\ NextFrame(c) \in Nat
      BY NextFramePositive DEF TInv, Types
    <2>3. CASE Look(c)
      <3>1. \/ number' = [number EXCEPT ![c] = NextFrame(c)]
            \/ number' = number /\ pc'[c] = "unfocused"
        BY <2>2, <2>3 DEF Look, Goto
      <3>2. QED
        BY <2>1, <2>2, <3>1 DEF Numbered, Calls
    <2>4. CASE ~Look(c)
      <3>1. number' = number
        BY <1>2, <2>4 DEF Study, Ingest, BeginStudy, AwaitFocus, ShowPictures, ShowSignal,
           Publish, GiveUp, BlockSurface, Settle, After, Return
      <3>2. pc'[c] \in {"looked", "pictured", "signalled"} =>
              pc[c] \in {"looked", "pictured", "signalled"}
        BY <1>2, <2>2, <2>4 DEF Study, Ingest, BeginStudy, AwaitFocus, ShowPictures, ShowSignal,
           Publish, GiveUp, BlockSurface, Settle, After, Return, Goto
      <3>3. QED
        BY <2>1, <3>1, <3>2 DEF Numbered, Calls
    <2>5. QED
      BY <2>3, <2>4
  <1>3. CASE UNCHANGED vars
    BY <1>3 DEF vars, calls, Numbered
  <1>4. QED
    BY <1>1, <1>2, <1>3 DEF Next

\* A publication saves pictures under the number of its study, with the
\* execution controls of the file.
LEMMA PublicationSaves ==
    ASSUME TInv, Numbered, NEW c \in Studies,
           BlockSurface(c) \/ ShowPictures(c) \/ ShowSignal(c) \/ Publish(c)
    PROVE  \E p \in Session : /\ file' = Saved(p) /\ p.pictures
                              /\ p.frame = number[c] /\ p.frame > 0
                              /\ p.live = file.live
  <1>1. /\ c \in Calls /\ copy[c] \in Session /\ file \in Session /\ number[c] \in Nat
        /\ started[c] \in BOOLEAN /\ EvidenceOf(c) \in Evidence
        /\ pc[c] \in {"looked", "pictured", "signalled"}
    BY DEF TInv, Types, Calls, EvidenceOf, Evidence, BlockSurface, ShowPictures, ShowSignal,
       Publish
  <1>2. number[c] > 0
    BY <1>1 DEF Numbered
  <1>3. /\ (started[c] \/ file.tracking) \in BOOLEAN
        /\ file.live \in BOOLEAN /\ file.voted \in Nat
    BY <1>1 DEF Session
  <1>4. CASE ShowPictures(c)
    <2> DEFINE v == IF file.voted = 0 THEN number[c] ELSE file.voted
               p == [file EXCEPT !.frame = number[c], !.shown = number[c], !.voted = v,
                        !.evidence = EvidenceOf(c), !.pictures = TRUE,
                        !.tracking = started[c] \/ file.tracking, !.awaited = FALSE]
    <2>1. v \in Nat
      BY <1>1, <1>3
    <2>2. p \in Session /\ p.pictures /\ p.frame = number[c] /\ p.live = file.live
      BY <1>1, <1>3, <2>1 DEF Session
    <2>3. file' = Saved(p)
      BY <1>4 DEF ShowPictures
    <2>4. QED
      BY <1>2, <2>2, <2>3
  <1>5. CASE ShowSignal(c)
    <2> DEFINE p == [file EXCEPT !.frame = number[c], !.shown = number[c], !.voted = number[c],
                        !.evidence = EvidenceOf(c), !.pictures = TRUE,
                        !.tracking = started[c] \/ file.tracking, !.awaited = FALSE]
    <2>1. p \in Session /\ p.pictures /\ p.frame = number[c] /\ p.live = file.live
      BY <1>1, <1>3 DEF Session
    <2>2. file' = Saved(p)
      BY <1>5 DEF ShowSignal
    <2>3. QED
      BY <1>2, <2>1, <2>2
  <1>6. CASE Publish(c)
    <2> DEFINE s == copy[c]
               t == started[c] \/ file.tracking
               l == LiveSaved(c)
               e == EvidenceOf(c)
               n == number[c]
               p == [s EXCEPT !.frame = n, !.shown = n, !.voted = n,
                        !.evidence = e, !.pictures = TRUE, !.awaited = FALSE,
                        !.tracking = t, !.live = l]
    <2>0. /\ s \in Session /\ t \in BOOLEAN /\ l \in BOOLEAN /\ e \in Evidence /\ n \in Nat
          /\ l = file.live
      BY <1>1, <1>3 DEF LiveSaved
    <2>1. p \in Session /\ p.pictures /\ p.frame = n /\ p.live = file.live
      <3> HIDE DEF s, t, l, e, n
      <3>1. QED
        BY <2>0 DEF Session
    <2>2. file' = Saved(p)
      BY <1>6 DEF Publish
    <2>3. QED
      BY <1>2, <2>1, <2>2
  <1>7. CASE BlockSurface(c)
    <2> DEFINE p == [file EXCEPT !.frame = number[c], !.evidence = NoEvidence, !.pictures = TRUE,
                        !.tracking = started[c] \/ file.tracking, !.awaited = FALSE]
    <2>1. p \in Session /\ p.pictures /\ p.frame = number[c] /\ p.live = file.live
      BY <1>1, <1>3 DEF Session, Evidence
    <2>2. file' = Saved(p)
      BY <1>7 DEF BlockSurface
    <2>3. QED
      BY <1>2, <2>1, <2>2
  <1>8. QED
    BY <1>4, <1>5, <1>6, <1>7

\* A save of numbered pictures does not take the frame number back.
LEMMA SavedForward ==
    ASSUME file \in Session, NEW p \in Session, p.pictures, p.frame > 0
    PROVE  Saved(p).frame >= file.frame
  <1>1. file.frame \in Nat /\ p.frame \in Nat
    BY DEF Session
  <1>2. CASE Skipped(p)
    BY <1>1, <1>2 DEF Saved
  <1>3. CASE ~Skipped(p) /\ Current(p) /\ p.frame < file.frame
    BY <1>1, <1>3 DEF Saved, Merged, Session
  <1>4. CASE ~Skipped(p) /\ p.frame >= file.frame
    <2>1. Saved(p) = p
      BY <1>1, <1>4 DEF Saved, Merged
    <2>2. QED
      BY <1>1, <1>4, <2>1
  <1>5. CASE ~Skipped(p) /\ ~Current(p) /\ p.frame < file.frame
    BY <1>1, <1>5 DEF Skipped, OlderFrame
  <1>6. QED
    BY <1>1, <1>2, <1>3, <1>4, <1>5

\* What every publication keeps.
LEMMA PublicationKeeps ==
    ASSUME TInv, Numbered, [Next]_vars, Publication
    PROVE  file'.frame >= file.frame /\ (file'.live => file.live)
  <1>1. PICK c \in Studies :
          pc[c] \in {"looked", "pictured", "signalled"} /\ pc'[c] # pc[c]
    BY DEF Publication
  <1>2. c \in Calls /\ file \in Session /\ file.frame \in Nat
    BY DEF Calls, TInv, Types, Session
  <1>3. Control(c) \/ Study(c)
    <2>1. CASE UNCHANGED vars
      BY <1>1, <2>1 DEF vars, calls
    <2>2. CASE Next
      <3>1. PICK d \in Calls : Control(d) \/ Study(d)
        BY <2>2 DEF Next
      <3>2. c = d
        BY <1>1, <1>2, <3>1, OtherCallsStay
      <3>3. QED
        BY <3>1, <3>2
    <2>3. QED
      BY <2>1, <2>2
  <1>4. Study(c)
    BY <1>2, <1>3, OtherCallsStay
  <1>5. CASE BlockSurface(c) \/ ShowPictures(c) \/ ShowSignal(c) \/ Publish(c)
    <2>1. PICK p \in Session : /\ file' = Saved(p) /\ p.pictures /\ p.frame > 0
                               /\ p.live = file.live
      BY <1>5, PublicationSaves
    <2>2. QED
      BY <1>2, <2>1, SavedForward, SavedKept DEF Kept
  <1>6. CASE GiveUp(c)
    BY <1>2, <1>6 DEF GiveUp
  <1>7. QED
    BY <1>1, <1>4, <1>5, <1>6 DEF Study, Ingest, BeginStudy, Look, AwaitFocus, Settle

\* Whatever writers there are, studies that overlap never take the frame number
\* of the session back when they publish (FramesForward).
THEOREM FramesGoForward == Spec => FramesForward
  <1>1. Init => Numbered
    BY DEF Init, Numbered, Calls
  <1>2. TInv /\ Numbered /\ [Next]_vars => [Publication => file'.frame >= file.frame]_vars
    BY PublicationKeeps
  <1>3. QED
    BY <1>1, <1>2, NumberedStep, TypesInit, TypesStep, PTL DEF Spec, FramesForward

\* And none of them turns live execution on (PublicationsKeepLiveOff).
THEOREM LiveKeptOff == Spec => PublicationsKeepLiveOff
  <1>1. Init => Numbered
    BY DEF Init, Numbered, Calls
  <1>2. TInv /\ Numbered /\ [Next]_vars => [Publication /\ file'.live => file.live]_vars
    BY PublicationKeeps
  <1>3. QED
    BY <1>1, <1>2, NumberedStep, TypesInit, TypesStep, PTL DEF Spec, PublicationsKeepLiveOff

-----------------------------------------------------------------------------
(* A cleared focus *)

\* What a cleared session stands on: the file waits for a focus, and so does what
\* an emergency stop has loaded under the lock.  A local study that found no focus
\* has none to save.
CInv ==
    /\ cleared => Waiting(file) /\ \A c \in Emergencies : pc[c] = "locked" => Blank(copy[c])
    /\ \A c \in FocusClears : pc[c] # "locked"
    /\ \A c \in LocalStudies : pc[c] = "unfocused" => ~copy[c].focus

\* Without pictures a save has nothing to merge.
LEMMA BlankSaved ==
    ASSUME NEW p, ~p.pictures
    PROVE  Saved(p) \in {file, p} /\ SavedControl(p) = p
  BY DEF Saved, SavedControl, Merged, Current

\* Pictures are not saved while the session waits for a focus.
LEMMA PicturesFenced ==
    ASSUME NEW p, p.pictures, Waiting(file)
    PROVE  Saved(p) = file
  BY DEF Saved, Skipped, FocusGone, Waiting, Blank

\* A control call that returns keeps what is left of a cleared session, if it
\* leaves the file waiting.
LEMMA ClearReturn ==
    ASSUME TInv, CInv, NEW c \in Calls, c \notin FocusClears \cup LocalStudies,
           NEW f, Return(c, f),
           cleared /\ KeepsWaiting(c) => Waiting(f)
    PROVE  CInv'
  <1>1. /\ file' = f /\ copy' = copy /\ pc'[c] = "done"
        /\ \A d \in Calls \ {c} : pc'[d] = pc[d]
        /\ cleared' => cleared /\ KeepsWaiting(c)
    BY DEF Return, Goto, TInv, Types
  <1>2. \A d \in Emergencies \cup FocusClears \cup LocalStudies : d \in Calls
    BY DEF Calls, Insiders, Outsiders, Studies
  <1>3. \A d \in Calls : pc'[d] # "done" => pc'[d] = pc[d]
    BY <1>1
  <1>4. cleared' => Waiting(file')
    BY <1>1 DEF CInv
  <1>5. cleared' => \A d \in Emergencies : pc'[d] = "locked" => Blank(copy'[d])
    BY <1>1, <1>2, <1>3 DEF CInv
  <1>6. \A d \in FocusClears : pc'[d] # "locked"
    BY <1>2, <1>3 DEF CInv
  <1>7. \A d \in LocalStudies : pc'[d] = "unfocused" => ~copy'[d].focus
    BY <1>1, <1>2, <1>3 DEF CInv
  <1>8. QED
    BY <1>4, <1>5, <1>6, <1>7 DEF CInv, Waiting, Blank

\* A clear finds no emergency stop inside the lock, and one that enters later
\* loads the waiting session.
LEMMA ClearControl ==
    ASSUME TInv, CInv, NEW c \in Calls, Control(c)
    PROVE  CInv'
  <1>0. /\ pc \in [Calls -> Places] /\ copy \in [Calls -> Session] /\ file \in Session
        /\ \A d \in Emergencies \cup FocusClears \cup LocalStudies : d \in Calls
        /\ \A d \in Emergencies \cup FocusClears : d \notin Studies
        /\ \A d \in Emergencies : d \notin Outsiders
        /\ \A d \in FocusClears : d \notin Insiders
        /\ c \notin LocalStudies /\ c \notin Studies /\ copy[c] \in Session
    <2>1. c \notin Studies
      BY OtherCallsStay
    <2>2. QED
      BY <2>1, StoreAssumption DEF TInv, Types, Calls, Insiders, Outsiders, Studies
  <1>1. \A d \in Calls \ {c} : pc'[d] = pc[d]
    BY OtherCallsStay
  <1>2. CASE Load(c)
    <2>1. file' = file /\ cleared' = cleared /\ pc'[c] = "loaded"
      BY <1>0, <1>2 DEF Load, Goto, history
    <2>2. \A d \in Calls \ {c} : copy'[d] = copy[d]
      BY <1>0, <1>2 DEF Load
    <2>3. QED
      BY <1>0, <1>1, <2>1, <2>2 DEF CInv
  <1>3. CASE LoadLocked(c)
    <2>1. /\ file' = file /\ cleared' = cleared /\ copy'[c] = file /\ c \in Insiders
          /\ \A d \in Calls \ {c} : copy'[d] = copy[d]
      BY <1>0, <1>3 DEF LoadLocked, history
    <2>2. QED
      BY <1>0, <1>1, <2>1 DEF CInv, Waiting, Blank
  <1>4. CASE Claim(c) \/ Kill(c) \/ Release(c) \/ SetFocus(c) \/ Select(c) \/ Crash(c)
    <2>1. c \notin FocusClears /\ ~KeepsWaiting(c)
      BY <1>0, <1>4, StoreAssumption
      DEF Claim, Kill, Release, SetFocus, Select, Crash, KeepsWaiting, Insiders, Outsiders
    <2>2. PICK f : Return(c, f)
      BY <1>4 DEF Claim, Kill, Release, SetFocus, Select, Crash
    <2>3. QED
      BY <1>0, <2>1, <2>2, ClearReturn
  <1>5. CASE EmergencyStop(c)
    <2> DEFINE p == [copy[c] EXCEPT !.live = FALSE, !.tracking = FALSE,
                                    !.awaited = ~copy[c].focus]
    <2>1. /\ Return(c, Saved(p)) /\ c \in Emergencies /\ pc[c] = "locked"
          /\ c \notin FocusClears
      BY <1>0, <1>5, StoreAssumption DEF EmergencyStop, InLock, Insiders, Outsiders
    <2>2. ASSUME cleared PROVE Waiting(Saved(p))
      <3>1. Blank(copy[c]) /\ Waiting(file)
        BY <2>1, <2>2 DEF CInv
      <3>2. Waiting(p)
        BY <1>0, <3>1 DEF Waiting, Blank, Session
      <3>3. QED
        BY <3>1, <3>2, BlankSaved DEF Waiting, Blank
    <2>3. QED
      BY <1>0, <2>1, <2>2, ClearReturn
  <1>6. CASE Start(c) \/ Stop(c) \/ Set(c)
    <2> DEFINE s == copy[c]
    <2>1. c \in Starts \cup Stops \cup Settings /\ c \notin FocusClears /\ c \notin Emergencies
      BY <1>0, <1>6, StoreAssumption DEF Start, Stop, Set, Outsiders
    <2>2. PICK f : /\ Return(c, f)
                   /\ Waiting(s) => \E q : Waiting(q) /\ f \in {file, Saved(q)}
      <3>1. CASE Start(c)
        <4> DEFINE q == [s EXCEPT !.tracking = FALSE, !.awaited = TRUE, !.evidence = NoEvidence]
        <4>1. CASE s.focus
          BY <3>1, <4>1 DEF Start, Waiting, Blank
        <4>2. CASE ~s.focus
          <5>1. Return(c, Saved(q))
            BY <3>1, <4>2 DEF Start
          <5>2. Waiting(s) => Waiting(q)
            BY <1>0 DEF Waiting, Blank, Session
          <5>3. QED
            BY <5>1, <5>2
        <4>3. QED
          BY <4>1, <4>2
      <3>2. CASE Stop(c)
        <4> DEFINE q == [s EXCEPT !.tracking = FALSE, !.awaited = ~s.focus]
        <4>1. Return(c, Saved(q))
          BY <3>2 DEF Stop
        <4>2. Waiting(s) => Waiting(q)
          BY <1>0 DEF Waiting, Blank, Session
        <4>3. QED
          BY <4>1, <4>2
      <3>3. CASE Set(c)
        <4>1. CASE Return(c, Saved(s))
          BY <4>1
        <4>2. CASE \E live \in BOOLEAN : Return(c, Saved([s EXCEPT !.live = live]))
          <5>1. PICK live \in BOOLEAN : Return(c, Saved([s EXCEPT !.live = live]))
            BY <4>2
          <5> DEFINE q == [s EXCEPT !.live = live]
          <5>2. Waiting(s) => Waiting(q)
            BY <1>0 DEF Waiting, Blank, Session
          <5>3. QED
            BY <5>1, <5>2
        <4>3. QED
          BY <3>3, <4>1, <4>2 DEF Set
      <3>4. QED
        BY <1>6, <3>1, <3>2, <3>3
    <2>3. ASSUME cleared, KeepsWaiting(c) PROVE Waiting(f)
      <3>1. Waiting(s) /\ Waiting(file)
        BY <1>0, <2>1, <2>3 DEF KeepsWaiting, CInv
      <3>2. PICK q : Waiting(q) /\ f \in {file, Saved(q)}
        BY <2>2, <3>1
      <3>3. Saved(q) \in {file, q}
        BY <3>2, BlankSaved DEF Waiting, Blank
      <3>4. QED
        BY <3>1, <3>2, <3>3
    <2>4. QED
      BY <1>0, <2>1, <2>2, <2>3, ClearReturn
  <1>7. CASE ClearFocus(c)
    <2> DEFINE p == [copy[c] EXCEPT !.focus = FALSE, !.awaited = TRUE, !.evidence = NoEvidence,
                                    !.pictures = FALSE, !.tracking = FALSE]
    <2>1. /\ copy' = copy /\ pc'[c] = "done" /\ file' = SavedControl(p)
          /\ c \in FocusClears /\ LockFree
      BY <1>0, <1>7 DEF ClearFocus, Return, Goto, InLock, CInv
    <2>2. Waiting(p)
      BY <1>0 DEF Waiting, Blank, Session
    <2>3. file' = p
      BY <2>1, <2>2, BlankSaved DEF Waiting, Blank
    <2>4. \A d \in Emergencies : pc'[d] # "locked"
      BY <1>0, <1>1, <2>1 DEF LockFree, Insiders
    <2>5. QED
      BY <1>0, <1>1, <2>1, <2>2, <2>3, <2>4 DEF CInv
  <1>8. QED
    BY <1>2, <1>3, <1>4, <1>5, <1>6, <1>7 DEF Control

\* What a study publishes has pictures.
LEMMA PublicationPictures ==
    ASSUME TInv, NEW c \in Studies, BlockSurface(c) \/ ShowPictures(c) \/ ShowSignal(c) \/ Publish(c)
    PROVE  \E p : file' = Saved(p) /\ p.pictures
  <1>1. copy[c] \in Session /\ file \in Session
    BY DEF TInv, Types, Calls
  <1>2. CASE ShowPictures(c)
    <2> DEFINE v == IF file.voted = 0 THEN number[c] ELSE file.voted
               t == started[c] \/ file.tracking
               p == [file EXCEPT !.frame = number[c], !.shown = number[c], !.voted = v,
                        !.evidence = EvidenceOf(c), !.pictures = TRUE,
                        !.tracking = t, !.awaited = FALSE]
    <2>1. file' = Saved(p)
      BY <1>2 DEF ShowPictures
    <2>2. p.pictures
      BY <1>1 DEF Session
    <2>3. QED
      BY <2>1, <2>2
  <1>3. CASE ShowSignal(c)
    <2> DEFINE t == started[c] \/ file.tracking
               p == [file EXCEPT !.frame = number[c], !.shown = number[c], !.voted = number[c],
                        !.evidence = EvidenceOf(c), !.pictures = TRUE,
                        !.tracking = t, !.awaited = FALSE]
    <2>1. file' = Saved(p)
      BY <1>3 DEF ShowSignal
    <2>2. p.pictures
      BY <1>1 DEF Session
    <2>3. QED
      BY <2>1, <2>2
  <1>4. CASE Publish(c)
    <2> DEFINE t == started[c] \/ file.tracking
               p == [copy[c] EXCEPT !.frame = number[c], !.shown = number[c],
                        !.voted = number[c], !.evidence = EvidenceOf(c), !.pictures = TRUE,
                        !.awaited = FALSE, !.tracking = t, !.live = LiveSaved(c)]
    <2>1. file' = Saved(p)
      BY <1>4 DEF Publish
    <2>2. p.pictures
      BY <1>1 DEF Session
    <2>3. QED
      BY <2>1, <2>2
  <1>5. CASE BlockSurface(c)
    <2> DEFINE t == started[c] \/ file.tracking
               p == [file EXCEPT !.frame = number[c], !.evidence = NoEvidence, !.pictures = TRUE,
                        !.tracking = t, !.awaited = FALSE]
    <2>1. file' = Saved(p)
      BY <1>5 DEF BlockSurface
    <2>2. p.pictures
      BY <1>1 DEF Session
    <2>3. QED
      BY <2>1, <2>2
  <1>6. QED
    BY <1>2, <1>3, <1>4, <1>5

\* No study shows a capture while the session waits.
LEMMA ClearStudy ==
    ASSUME TInv, CInv, NEW c \in Calls, Study(c)
    PROVE  CInv'
  <1>0. /\ pc \in [Calls -> Places] /\ copy \in [Calls -> Session] /\ file \in Session
        /\ \A d \in Emergencies \cup FocusClears \cup LocalStudies : d \in Calls
        /\ c \in Studies /\ c \notin Emergencies \cup FocusClears
        /\ cleared' => cleared
        /\ Ingest(c) => ~cleared'
    <2>1. c \in Studies
      BY OtherCallsStay
    <2>2. (cleared' => cleared) /\ (Ingest(c) => ~cleared')
      <3>1. c \notin FocusClears
        BY <2>1, StoreAssumption DEF Outsiders
      <3>2. CASE Ingest(c)
        BY <3>2 DEF Ingest
      <3>3. CASE AwaitFocus(c)
        BY <3>1, <3>3 DEF AwaitFocus, Return, Ingest
      <3>4. CASE Settle(c)
        BY <3>4 DEF Settle, Ingest
      <3>5. CASE BlockSurface(c) \/ ShowPictures(c) \/ ShowSignal(c) \/ Publish(c)
        BY <3>5 DEF BlockSurface, ShowPictures, ShowSignal, Publish, Ingest, history
      <3>6. CASE BeginStudy(c) \/ Look(c) \/ GiveUp(c)
        BY <3>6 DEF BeginStudy, Look, GiveUp, Ingest, history
      <3>7. QED
        BY <3>2, <3>3, <3>4, <3>5, <3>6 DEF Study
    <2>3. QED
      BY <2>1, <2>2, StoreAssumption DEF TInv, Types, Calls, Insiders, Outsiders, Studies
  <1>1. \A d \in Calls \ {c} : pc'[d] = pc[d] /\ copy'[d] = copy[d]
    <2>1. \A d \in Calls \ {c} : copy'[d] = copy[d]
      BY <1>0 DEF Study, Ingest, BeginStudy, Look, AwaitFocus, ShowPictures, ShowSignal, Publish,
         GiveUp, BlockSurface, Settle, After, Return
    <2>2. QED
      BY <2>1, OtherCallsStay
  <1>2. c \in LocalStudies /\ pc'[c] = "unfocused" => ~copy'[c].focus
    <2>1. CASE Look(c)
      <3>1. CASE copy[c].focus \/ c \in LeasedStudies
        BY <1>0, <2>1, <3>1 DEF Look, Goto
      <3>2. CASE ~(copy[c].focus \/ c \in LeasedStudies)
        BY <1>0, <2>1, <3>2 DEF Look
      <3>3. QED
        BY <3>1, <3>2
    <2>2. CASE ~Look(c)
      BY <1>0, <2>2 DEF Study, Ingest, BeginStudy, AwaitFocus, ShowPictures, ShowSignal, Publish,
         GiveUp, BlockSurface, Settle, After, Return, Goto
    <2>3. QED
      BY <2>1, <2>2
  <1>3. cleared' => Waiting(file')
    <2> SUFFICES ASSUME cleared' PROVE Waiting(file')
      OBVIOUS
    <2>1. Waiting(file)
      BY <1>0 DEF CInv
    <2>2. CASE BlockSurface(c) \/ ShowPictures(c) \/ ShowSignal(c) \/ Publish(c)
      <3>1. PICK p : file' = Saved(p) /\ p.pictures
        BY <1>0, <2>2, PublicationPictures
      <3>2. QED
        BY <2>1, <3>1, PicturesFenced
    <2>3. CASE AwaitFocus(c)
      <3> DEFINE p == [copy[c] EXCEPT !.tracking = FALSE, !.awaited = TRUE,
                                      !.evidence = NoEvidence]
      <3>1. file' = Saved(p) /\ c \in LocalStudies /\ pc[c] = "unfocused"
        BY <2>3 DEF AwaitFocus, Return
      <3>2. ~p.focus /\ ~p.tracking /\ p.awaited
        BY <1>0, <3>1 DEF CInv, Session
      <3>3. CASE p.pictures
        BY <2>1, <3>1, <3>3, PicturesFenced
      <3>4. CASE ~p.pictures
        BY <2>1, <3>1, <3>2, <3>4, BlankSaved DEF Waiting, Blank
      <3>5. QED
        BY <3>3, <3>4
    <2>4. CASE file' = file
      BY <2>1, <2>4
    <2>5. QED
      BY <1>0, <2>2, <2>3, <2>4 DEF Study, BeginStudy, Look, GiveUp, BlockSurface, Settle, After
  <1>4. QED
    BY <1>0, <1>1, <1>2, <1>3 DEF CInv

\* After the focus was cleared no capture is shown, however many studies are on
\* their way and whatever else is called, until a call chooses a focus or ends the
\* waiting for one, uses the selector, or saves a session that it had loaded
\* before (ClearHolds).
THEOREM ClearKept == Spec => []ClearHolds
  <1>1. Init => CInv
    <2>1. \A c \in FocusClears \cup LocalStudies : c \in Calls
      BY DEF Calls, Outsiders, Studies
    <2>2. QED
      BY <2>1 DEF Init, CInv
  <1>2. TInv /\ CInv /\ [Next]_vars => CInv'
    <2> SUFFICES ASSUME TInv, CInv, [Next]_vars PROVE CInv'
      OBVIOUS
    <2>1. CASE UNCHANGED vars
      BY <2>1 DEF vars, calls, history, CInv
    <2>2. QED
      BY <2>1, ClearControl, ClearStudy DEF Next
  <1>3. CInv => ClearHolds
    BY DEF CInv, ClearHolds, Waiting, Blank
  <1>4. QED
    BY <1>1, <1>2, <1>3, TypesInit, TypesStep, PTL DEF Spec
=============================================================================
