------------------------- MODULE TrackerWorkers_proofs -------------------------
(***************************************************************************)
(* What is proved of the study gate and of the threads of a session, for   *)
(* every number of callers, threads, users and events.                     *)
(*                                                                         *)
(* The gate.  One that is taken and in time stands for one study, each     *)
(* recovery for one more; a study that ends frees whatever gate there is,  *)
(* so the count and the running studies go down together, whoever owned    *)
(* it: studies overlap only as often as a gate grew old.                   *)
(*                                                                         *)
(* The threads.  They use the gate as StudyGate means it, so what is       *)
(* proved of the gate holds of them.  And they are lost in one way only:   *)
(* the invariant counts, with those that run unregistered, the registered  *)
(* one whose entry a waiting call is about to remove; it was counted in    *)
(* crossed when it was started.                                            *)
(*                                                                         *)
(* The calls.  A plan waits for a thread only right after the step that    *)
(* marks it, and a worker has no plan but what is left of its cleanup:     *)
(* from this grammar of plans follows what every control point is worth.   *)
(***************************************************************************)
EXTENDS TrackerWorkers, FiniteSetTheorems, TLAPS

USE WorkersAssumption, GateAssumption, NoneAssumption

-----------------------------------------------------------------------------
(* The study gate *)

\* The studies that the gate itself stands for.
Standing == IF gate /\ ~old THEN 1 ELSE 0

Counted == Cardinality(studying) <= aged + Standing

IInv == TypeOK /\ GateHasStudy /\ Counted

LEMMA FiniteStudies ==
    ASSUME TypeOK
    PROVE  /\ IsFiniteSet(studying)
           /\ Cardinality(studying) \in Nat
<1>1. IsFiniteSet(studying)
  BY FS_Subset DEF TypeOK
<1> QED
  BY <1>1, FS_CardinalityType

LEMMA Initially == Init => IInv
<1> SUFFICES ASSUME Init PROVE IInv
  OBVIOUS
<1>1. Cardinality(studying) = 0
  BY FS_EmptySet DEF Init
<1>2. aged \in 0 .. MaxStale
  BY DEF Init
<1>3. /\ studying \subseteq Callers
      /\ gate \in BOOLEAN /\ old \in BOOLEAN
      /\ (old => gate) /\ (gate => last \in studying)
      /\ last \in Callers \cup {None}
  BY Zenon DEF Init
<1>4. TypeOK /\ GateHasStudy
  BY <1>2, <1>3 DEF TypeOK, GateHasStudy
<1>5. Counted
  BY <1>1 DEF Init, Counted, Standing
<1> QED
  BY <1>4, <1>5 DEF IInv

LEMMA Step == IInv /\ [Next]_vars => IInv'
<1> SUFFICES ASSUME IInv, [Next]_vars PROVE IInv'
  OBVIOUS
<1> USE DEF IInv
<1>1. IsFiniteSet(studying) /\ Cardinality(studying) \in Nat
  BY FiniteStudies
<1>2. ASSUME NEW c \in Callers, BeginStudy(c) PROVE IInv'
  <2>1. TypeOK' /\ GateHasStudy'
    BY <1>2 DEF BeginStudy, TypeOK, GateHasStudy
  <2>2. Cardinality(studying \cup {c}) = Cardinality(studying) + 1
    BY <1>1, <1>2, FS_AddElement DEF BeginStudy
  <2>3. Standing = 0 /\ Standing' = 1
    BY <1>2 DEF BeginStudy, Given, Standing
  <2>4. Counted'
    <3>1. Cardinality(studying') = Cardinality(studying) + 1 /\ aged' = aged
      BY <1>2, <2>2 DEF BeginStudy
    <3> QED
      BY <1>1, <2>3, <3>1 DEF Counted, TypeOK
  <2> QED
    BY <2>1, <2>4
<1>3. ASSUME NEW c \in Callers, NEW accepted \in BOOLEAN, FinishStudy(c, accepted)
      PROVE  IInv'
  <2>1. TypeOK' /\ GateHasStudy'
    BY <1>3 DEF FinishStudy, StillTaken, TypeOK, GateHasStudy
  <2>2. Cardinality(studying \ {c}) = Cardinality(studying) - 1
    BY <1>1, <1>3, FS_RemoveElement DEF FinishStudy
  <2>3. Standing' = 0 /\ Standing \in {0, 1}
    BY <1>3 DEF FinishStudy, StillTaken, Standing
  <2>4. Counted'
    <3>1. Cardinality(studying') = Cardinality(studying) - 1 /\ aged' = aged
      BY <1>3, <2>2 DEF FinishStudy
    <3> QED
      BY <1>1, <2>3, <3>1 DEF Counted, TypeOK
  <2> QED
    BY <2>1, <2>4
<1>4. CASE GrowOld
  <2>1. TypeOK' /\ GateHasStudy'
    BY <1>4 DEF GrowOld, TypeOK, GateHasStudy
  <2>2. Standing = 1 /\ Standing' = 0 /\ aged' = aged + 1 /\ studying' = studying
    BY <1>4 DEF GrowOld, Standing
  <2>3. Counted'
    BY <1>1, <2>2 DEF Counted, TypeOK
  <2> QED
    BY <2>1, <2>3
<1>5. CASE Restart
  <2>1. Cardinality(studying') = 0 /\ aged' = aged
    BY <1>5, FS_EmptySet DEF Restart
  <2>2. TypeOK' /\ GateHasStudy'
    BY <1>5 DEF Restart, TypeOK, GateHasStudy
  <2>3. Counted'
    BY <1>5, <2>1 DEF Restart, Counted, Standing, TypeOK
  <2> QED
    BY <2>2, <2>3
<1>6. CASE UNCHANGED vars
  BY <1>6 DEF vars, TypeOK, GateHasStudy, Counted, Standing
<1> QED
  BY <1>2, <1>3, <1>4, <1>5, <1>6 DEF Next, Study

-----------------------------------------------------------------------------
\* The inductive invariant of the gate (_begin_study_gate, _finish_study_gate).
THEOREM Invariance == Spec => []IInv
  BY Initially, Step, PTL DEF Spec

\* Every variable of the gate keeps its type.
THEOREM TypeCorrect == Spec => []TypeOK
<1>1. IInv => TypeOK
  BY DEF IInv
<1> QED
  BY Invariance, <1>1, PTL

\* A taken gate always belongs to a study that still runs.
THEOREM GateOwned == Spec => []GateHasStudy
<1>1. IInv => GateHasStudy
  BY DEF IInv
<1> QED
  BY Invariance, <1>1, PTL

\* Studies of a session overlap at most as often as a gate grew old.
THEOREM Overlap == Spec => []OverlapBounded
<1>1. IInv => OverlapBounded
  <2> SUFFICES ASSUME IInv PROVE OverlapBounded
    OBVIOUS
  <2>1. Cardinality(studying) \in Nat
    BY FiniteStudies DEF IInv
  <2>2. Standing \in {0, 1}
    BY DEF Standing
  <2> QED
    BY <2>1, <2>2 DEF IInv, Counted, OverlapBounded, TypeOK
<1> QED
  BY Invariance, <1>1, PTL

\* Without a step of the clock and without a late study the gate is a mutual
\* exclusion: no two studies of a session run at the same time.
THEOREM MutualExclusion ==
    Spec => [](aged = 0 => \A c, d \in studying : c = d)
<1>1. IInv => (aged = 0 => \A c, d \in studying : c = d)
  <2> SUFFICES ASSUME IInv, aged = 0, NEW c \in studying, NEW d \in studying, c # d
               PROVE  FALSE
    OBVIOUS
  <2>1. IsFiniteSet(studying) /\ Cardinality(studying) \in Nat
    BY FiniteStudies DEF IInv
  <2>2. Cardinality(studying) <= 1
    BY <2>1 DEF IInv, Counted, Standing
  <2>3. IsFiniteSet({c, d}) /\ Cardinality({c, d}) = 2
    <3>1. IsFiniteSet({c}) /\ Cardinality({c}) = 1
      BY FS_Singleton
    <3>2. d \notin {c} /\ {c} \cup {d} = {c, d}
      OBVIOUS
    <3>3. IsFiniteSet({c} \cup {d}) /\ Cardinality({c} \cup {d}) = Cardinality({c}) + 1
      BY <3>1, <3>2, FS_AddElement, Zenon
    <3> QED
      BY <3>1, <3>2, <3>3
  <2>4. Cardinality({c, d}) <= Cardinality(studying)
    BY <2>1, FS_Subset
  <2> QED
    BY <2>1, <2>2, <2>3, <2>4
<1> QED
  BY Invariance, <1>1, PTL

-----------------------------------------------------------------------------
(* The threads and the gate *)

LEMMA GateStep == [TrackerNext]_trackerVars => [Next]_vars
<1> SUFFICES ASSUME [TrackerNext]_trackerVars PROVE [Next]_vars
  OBVIOUS
<1>1. ASSUME NEW p \in Process, CallStep(p) PROVE UNCHANGED vars
  BY <1>1 DEF CallStep, Mark, Clear, Off, StartStep, On, Reconcile, Ensure
<1>2. ASSUME NEW w \in Workers, WorkerStep(w) \/ Crash(w) PROVE [Next]_vars
  <2>1. CASE Begin(w)
    BY <2>1 DEF Begin, Began, Next, Study
  <2>2. ASSUME NEW published \in BOOLEAN, Finish(w, published) PROVE [Next]_vars
    BY <2>2 DEF Finish, Ended, Next, Study
  <2>3. CASE Due(w) \/ Refused(w) \/ Leave(w) \/ Unregister(w) \/ Die(w) \/ Crash(w)
    BY <2>3 DEF Due, Refused, Leave, Unregister, Die, Crash
  <2> QED
    BY <1>2, <2>1, <2>2, <2>3 DEF WorkerStep
<1>3. ASSUME NEW s \in Producers, StopObserving(s) PROVE UNCHANGED vars
  BY <1>3 DEF StopObserving
<1>4. ASSUME NEW u \in Users, Call(u) PROVE UNCHANGED vars
  BY <1>4 DEF Call
<1>5. ASSUME NEW c \in Callers, ManualBegin(c) PROVE Next
  BY <1>5 DEF ManualBegin, Began, Next, Study
<1>6. ASSUME NEW c \in Callers, NEW published \in BOOLEAN, ManualEnd(c, published) PROVE Next
  BY <1>6 DEF ManualEnd, Ended, Next, Study
<1>7. CASE Round \/ Alarm
  BY <1>7 DEF Round, Alarm
<1>8. CASE Recycle \/ TimePasses
  BY <1>8 DEF Recycle, TimePasses, Next
<1>9. CASE UNCHANGED trackerVars
  BY <1>9 DEF trackerVars
<1> QED
  BY <1>1, <1>2, <1>3, <1>4, <1>5, <1>6, <1>7, <1>8, <1>9 DEF TrackerNext

\* The threads of a session, restarts of the process included, use the gate in
\* no other way than StudyGate says.
THEOREM UsesGate == TrackerSpec => Spec
<1>1. TrackerInit => Init
  BY DEF TrackerInit
<1> QED
  BY <1>1, GateStep, PTL DEF TrackerSpec, Spec

\* A taken gate belongs to a running study, whatever threads are started,
\* stopped, lost or killed with the process.
THEOREM TrackerGateOwned == TrackerSpec => []GateHasStudy
  BY UsesGate, GateOwned, PTL

\* Unregistered workers and manual captures overlap in their studies only as
\* often as a gate grew old.
THEOREM TrackerOverlap == TrackerSpec => []OverlapBounded
  BY UsesGate, Overlap, PTL

-----------------------------------------------------------------------------
(* Lost threads *)

\* Threads that may still study or observe.
Running(k) == {t \in Threads[k] : phase[t] \notin {"unregistered", "dead"}}

\* A registered thread is as good as lost while a call waits for another one.
Lost(k) ==
    {t \in Running(k) :
        registered[k] = t => \E p \in Process : target[p] \in Threads[k] /\ target[p] # t}

Shape ==
    /\ phase \in [Thread -> Phase]
    /\ registered \in [Kind -> Thread \cup {None}]
    /\ \A k \in Kind : registered[k] \in Threads[k] \cup {None}
    /\ target \in [Process -> Thread \cup {None}]
    /\ crossed \in [Kind -> Nat]

Accounted == \A k \in Kind : Cardinality(Lost(k)) <= crossed[k]

LostInv == Shape /\ Accounted

LEMMA Kinds ==
    /\ Workers = Threads["worker"] /\ Producers = Threads["stream"]
    /\ \A k \in Kind : IsFiniteSet(Threads[k]) /\ None \notin Threads[k] /\ Threads[k] \subseteq Thread
    /\ Workers \subseteq Process
<1>1. IsFiniteSet(Workers)
  BY FS_Subset
<1> QED
  BY <1>1 DEF Kind, Threads, Thread, Process

LEMMA FiniteLost ==
    ASSUME NEW k \in Kind
    PROVE  /\ IsFiniteSet(Lost(k)) /\ Cardinality(Lost(k)) \in Nat
           /\ IsFiniteSet(Lost(k)') /\ Cardinality(Lost(k)') \in Nat
<1>1. Lost(k) \subseteq Threads[k] /\ Lost(k)' \subseteq Threads[k]
  BY DEF Lost, Running
<1> QED
  BY <1>1, Kinds, FS_Subset, FS_CardinalityType

LEMMA OneMore ==
    ASSUME NEW S, NEW x, IsFiniteSet(S)
    PROVE  /\ IsFiniteSet(S \cup {x})
           /\ Cardinality(S \cup {x}) \in Nat /\ Cardinality(S) \in Nat
           /\ Cardinality(S \cup {x}) <= Cardinality(S) + 1
<1>1. IsFiniteSet(S \cup {x})
  BY FS_AddElement
<1>2. Cardinality(S \cup {x}) \in Nat /\ Cardinality(S) \in Nat
  BY <1>1, FS_CardinalityType
<1>3. CASE x \in S
  <2>1. Cardinality(S \cup {x}) = Cardinality(S)
    BY <1>3, FS_AddElement
  <2> QED
    BY <1>1, <1>2, <2>1
<1>4. CASE x \notin S
  <2>1. Cardinality(S \cup {x}) = Cardinality(S) + 1
    BY <1>4, FS_AddElement
  <2> QED
    BY <1>1, <1>2, <2>1
<1> QED
  BY <1>3, <1>4

\* A step that adds no lost thread keeps the account.
LEMMA Fewer ==
    ASSUME LostInv, NEW k \in Kind, Lost(k)' \subseteq Lost(k), crossed'[k] = crossed[k]
    PROVE  Cardinality(Lost(k)') <= crossed'[k]
<1>1. Cardinality(Lost(k)') <= Cardinality(Lost(k))
  BY FiniteLost, FS_Subset
<1> QED
  BY <1>1, FiniteLost DEF LostInv, Accounted, Shape

\* Steps that leave the registers and the waiting calls alone and start nothing.
LEMMA Quiet ==
    ASSUME LostInv, UNCHANGED <<registered, target, crossed>>, Shape',
           \A k \in Kind : Running(k)' \subseteq Running(k)
    PROVE  LostInv'
<1> SUFFICES ASSUME NEW k \in Kind PROVE Cardinality(Lost(k)') <= crossed'[k]
  BY DEF LostInv, Accounted
<1>1. Lost(k)' \subseteq Lost(k)
  BY DEF Lost
<1> QED
  BY <1>1, Fewer

LEMMA AdvanceQuiet ==
    ASSUME LostInv, UNCHANGED <<registered, target, crossed>>,
           NEW t \in Thread, NEW from \in Phase \ {"unregistered", "dead"}, NEW to \in Phase,
           Advance(t, from, to)
    PROVE  LostInv'
<1>1. Shape'
  BY DEF LostInv, Shape, Advance
<1>2. ASSUME NEW k \in Kind PROVE Running(k)' \subseteq Running(k)
  BY Kinds DEF Running, Advance, LostInv, Shape
<1> QED
  BY <1>1, <1>2, Quiet

LEMMA MarkKeeps ==
    ASSUME LostInv, NEW p \in Process, NEW k \in Kind, NEW step, Mark(p, k, step)
    PROVE  LostInv'
<1>1. Shape'
  BY Kinds DEF LostInv, Shape, Mark
<1>2. ASSUME NEW l \in Kind PROVE Lost(l)' \subseteq Lost(l)
  <2> SUFFICES ASSUME NEW t \in Lost(l)' PROVE t \in Lost(l)
    OBVIOUS
  <2>1. t \in Running(l)
    BY DEF Lost, Running, Mark
  <2>2. ASSUME registered[l] = t
        PROVE  \E q \in Process : target[q] \in Threads[l] /\ target[q] # t
    <3>1. PICK q \in Process : target'[q] \in Threads[l] /\ target'[q] # t
      BY <2>2 DEF Lost, Mark
    <3>2. q # p
      <4>1. ASSUME q = p PROVE target'[q] = registered[k]
        BY <4>1 DEF Mark, LostInv, Shape
      <4>2. ASSUME registered[k] \in Threads[l] PROVE k = l
        BY <4>2, Kinds DEF LostInv, Shape, Kind, Threads
      <4> QED
        BY <3>1, <4>1, <4>2, <2>2
    <3>3. target'[q] = target[q]
      BY <3>2 DEF Mark, LostInv, Shape
    <3> QED
      BY <3>1, <3>3
  <2> QED
    BY <2>1, <2>2 DEF Lost
<1>3. crossed' = crossed
  BY DEF Mark
<1> QED
  BY <1>1, <1>2, <1>3, Fewer DEF LostInv, Accounted

\* The thread whose entry a call removes was as good as lost.
LEMMA ClearKeeps ==
    ASSUME LostInv, NEW p \in Process, NEW k \in Kind, NEW step, Clear(p, k, step)
    PROVE  LostInv'
<1>1. Shape'
  <2>1. registered' = registered \/ registered' = [registered EXCEPT ![k] = None]
    BY DEF Clear, LostInv, Shape
  <2> QED
    BY <2>1 DEF LostInv, Shape, Clear
<1>2. ASSUME NEW l \in Kind PROVE Lost(l)' \subseteq Lost(l)
  <2> SUFFICES ASSUME NEW t \in Lost(l)' PROVE t \in Lost(l)
    OBVIOUS
  <2>1. t \in Running(l)
    BY DEF Lost, Running, Clear
  <2>2. ASSUME registered[l] = t
        PROVE  \E q \in Process : target[q] \in Threads[l] /\ target[q] # t
    <3>1. CASE registered'[l] = t
      <4>1. PICK q \in Process : target'[q] \in Threads[l] /\ target'[q] # t
        BY <3>1 DEF Lost
      <4>2. target'[q] = target[q]
        BY <4>1, Kinds DEF Clear, LostInv, Shape
      <4> QED
        BY <4>1, <4>2
    <3>2. CASE registered'[l] # t
      <4>1. l = k /\ Gone(target[p])
        BY <2>2, <3>2 DEF Clear, LostInv, Shape
      <4>2. target[p] \in Threads[l] /\ phase[target[p]] = "dead"
        BY <4>1 DEF Clear, Gone, Alive
      <4>3. phase[t] # "dead"
        BY <2>1 DEF Running
      <4> QED
        BY <4>2, <4>3
    <3> QED
      BY <3>1, <3>2
  <2> QED
    BY <2>1, <2>2 DEF Lost
<1>3. crossed' = crossed
  BY DEF Clear
<1> QED
  BY <1>1, <1>2, <1>3, Fewer DEF LostInv, Accounted
LEMMA UnregisterKeeps ==
    ASSUME LostInv, NEW w \in Workers, Unregister(w)
    PROVE  LostInv'
<1>1. w \in Threads["worker"] /\ w \in Thread /\ w # None
  BY Kinds DEF Kind
<1>2. /\ phase[w] = "closing"
      /\ phase' = [phase EXCEPT ![w] = "unregistered"]
      /\ registered' = [registered EXCEPT !["worker"] = None]
      /\ target' = target /\ crossed' = crossed
  BY DEF Unregister, Advance
<1>3. Shape'
  BY <1>1, <1>2 DEF LostInv, Shape, Phase
<1>4. Lost("stream")' \subseteq Lost("stream")
  BY <1>1, <1>2, Kinds DEF Lost, Running, LostInv, Shape, Kind
<1>5. Cardinality(Lost("worker")') <= Cardinality(Lost("worker"))
  <2>1. CASE registered["worker"] = w
    <3>1. Lost("worker")' \subseteq Lost("worker")
      BY <1>1, <1>2, <2>1, Kinds DEF Lost, Running, LostInv, Shape, Kind
    <3> QED
      BY <3>1, FiniteLost, FS_Subset DEF Kind
  <2>2. CASE registered["worker"] # w
    <3> DEFINE others == Lost("worker") \ {w}
    <3>1. w \in Lost("worker")
      BY <1>1, <1>2, <2>2 DEF Lost, Running
    <3>2. IsFiniteSet(others) /\ Cardinality(others) = Cardinality(Lost("worker")) - 1
      BY <3>1, FiniteLost, FS_RemoveElement DEF Kind
    <3>3. Lost("worker")' \subseteq others \cup {registered["worker"]}
      BY <1>1, <1>2, Kinds DEF Lost, Running, LostInv, Shape, Kind
    <3>4. /\ IsFiniteSet(others \cup {registered["worker"]})
          /\ Cardinality(others \cup {registered["worker"]}) <= Cardinality(others) + 1
      BY <3>2, OneMore
    <3>5. Cardinality(Lost("worker")') <= Cardinality(others \cup {registered["worker"]})
      BY <3>3, <3>4, FS_Subset
    <3>6. Cardinality(others \cup {registered["worker"]}) \in Nat
      BY <3>4, FS_CardinalityType
    <3> QED
      <4> HIDE DEF others
      <4> QED
        BY <3>2, <3>4, <3>5, <3>6, FiniteLost DEF Kind
  <2> QED
    BY <2>1, <2>2
<1>6. Cardinality(Lost("worker")') <= crossed'["worker"]
  BY <1>2, <1>5, FiniteLost DEF LostInv, Accounted, Shape, Kind
<1>7. Cardinality(Lost("stream")') <= crossed'["stream"]
  BY <1>2, <1>4, Fewer DEF Kind
<1> QED
  BY <1>3, <1>6, <1>7 DEF LostInv, Accounted, Kind

\* What a call of _ensure_worker starts is counted if a call waits.
LEMMA EnsureKeeps ==
    ASSUME LostInv, NEW p \in Process, Ensure(p)
    PROVE  LostInv'
<1>1. PICK w \in Entries("worker"), s \in Entries("stream") \cup {None} :
        /\ s = None => Needed("stream")
        /\ registered' = [k \in Kind |-> IF k = "worker" THEN w ELSE s]
        /\ phase' = [t \in Thread |->
                       IF \/ t = w /\ Needed("worker")
                          \/ t = s /\ Needed("stream")
                       THEN "looping" ELSE phase[t]]
        /\ crossed' = [k \in Kind |->
                         IF Needed(k) /\ registered'[k] # None /\ AwaitedIn(k) # {}
                         THEN crossed[k] + 1 ELSE crossed[k]]
  BY DEF Ensure
<1>2. target' = target
  BY DEF Ensure
<1>3. /\ w \in Threads["worker"] \cup {None}
      /\ s \in Threads["stream"] \cup {None}
  BY <1>1 DEF Entries, LostInv, Shape, Kind
<1>4. Shape'
  <2>1. phase' \in [Thread -> Phase]
    BY <1>1 DEF LostInv, Shape, Phase
  <2>2. registered' \in [Kind -> Thread \cup {None}]
    BY <1>1, <1>3, Kinds DEF Kind
  <2>3. crossed' \in [Kind -> Nat]
    BY <1>1 DEF LostInv, Shape
  <2>4. \A k \in Kind : registered'[k] \in Threads[k] \cup {None}
    BY <1>1, <1>3 DEF Kind
  <2> QED
    BY <1>2, <2>1, <2>2, <2>3, <2>4 DEF LostInv, Shape
<1>5. ASSUME NEW k \in Kind PROVE Cardinality(Lost(k)') <= crossed'[k]
  <2> DEFINE new == registered'[k]
  <2>1. new = IF k = "worker" THEN w ELSE s
    BY <1>1
  <2>2. \A t \in Threads[k] : t # new \/ ~Needed(k) => phase'[t] = phase[t]
    BY <1>1, <1>3, <2>1, Kinds DEF Kind, Threads, Thread
  <2>3. CASE ~Needed(k)
    <3>1. new = registered[k]
      BY <1>1, <2>1, <2>3 DEF Entries, Alive, Needed, Kind
    <3>2. Lost(k)' \subseteq Lost(k)
      BY <1>2, <2>2, <2>3, <3>1 DEF Lost, Running
    <3>3. crossed'[k] = crossed[k]
      BY <1>1, <2>3
    <3> QED
      BY <3>2, <3>3, Fewer
  <2>4. CASE Needed(k)
    <3>1. new \in Threads[k] => ~Alive(new) /\ new \notin AwaitedIn(k)
      BY <1>1, <2>1, <2>4, Kinds DEF Entries, Kind
    <3>2. \A t \in Lost(k)' : t # new => t \in Lost(k)
      <4> SUFFICES ASSUME NEW t \in Lost(k)', t # new PROVE t \in Lost(k)
        OBVIOUS
      <4>1. t \in Running(k)
        BY <2>2 DEF Lost, Running
      <4>2. t # registered[k]
        BY <4>1, <2>4, Kinds DEF Needed, Alive, Running
      <4> QED
        BY <4>1, <4>2 DEF Lost
    <3>3. CASE new # None /\ AwaitedIn(k) # {}
      <4>1. Lost(k)' \subseteq Lost(k) \cup {new}
        BY <3>2
      <4>2. /\ IsFiniteSet(Lost(k) \cup {new})
            /\ Cardinality(Lost(k) \cup {new}) <= Cardinality(Lost(k)) + 1
        BY FiniteLost, OneMore
      <4>3. /\ Cardinality(Lost(k)') <= Cardinality(Lost(k) \cup {new})
            /\ Cardinality(Lost(k) \cup {new}) \in Nat
        BY <4>1, <4>2, FS_Subset, FS_CardinalityType
      <4>4. crossed'[k] = crossed[k] + 1
        BY <1>1, <2>4, <3>3
      <4> HIDE DEF new
      <4> QED
        BY <4>2, <4>3, <4>4, FiniteLost DEF LostInv, Accounted, Shape
    <3>4. CASE ~(new # None /\ AwaitedIn(k) # {})
      <4>1. new \notin Lost(k)'
        <5>1. CASE new = None
          BY <5>1, Kinds DEF Lost, Running
        <5>2. CASE AwaitedIn(k) = {}
          <6>1. \A q \in Process : target'[q] \notin Threads[k]
            BY <1>2, <5>2 DEF AwaitedIn
          <6> QED
            BY <6>1 DEF Lost
        <5> QED
          BY <3>4, <5>1, <5>2
      <4>2. Lost(k)' \subseteq Lost(k)
        BY <3>2, <4>1
      <4>3. crossed'[k] = crossed[k]
        BY <1>1, <2>4, <3>4
      <4> QED
        BY <4>2, <4>3, Fewer
    <3> QED
      BY <3>3, <3>4
  <2> QED
    BY <2>3, <2>4
<1> QED
  BY <1>4, <1>5 DEF LostInv, Accounted

LEMMA RecycleKeeps == ASSUME LostInv, Recycle PROVE LostInv'
<1>1. Shape'
  BY DEF LostInv, Shape, Recycle, Phase
<1>2. ASSUME NEW k \in Kind PROVE Lost(k)' = {}
  BY Kinds DEF Recycle, Lost, Running
<1>3. crossed' = crossed
  BY DEF Recycle
<1> QED
  BY <1>1, <1>2, <1>3, Fewer DEF LostInv, Accounted

LEMMA Untouched == ASSUME LostInv, UNCHANGED <<phase, registered, target, crossed>> PROVE LostInv'
  BY DEF LostInv, Shape, Accounted, Lost, Running

LEMMA LostStep == LostInv /\ [TrackerNext]_trackerVars => LostInv'
<1> SUFFICES ASSUME LostInv, [TrackerNext]_trackerVars PROVE LostInv'
  OBVIOUS
<1>1. ASSUME NEW p \in Process, CallStep(p) PROVE LostInv'
  <2>1. CASE Off(p) \/ StartStep(p) \/ On(p) \/ Reconcile(p)
    BY <2>1, Untouched DEF Off, StartStep, On, Reconcile, threads
  <2> QED
    BY <1>1, <2>1, MarkKeeps, ClearKeeps, EnsureKeeps DEF CallStep, Kind
<1>2. ASSUME NEW w \in Workers, WorkerStep(w) \/ Crash(w) PROVE LostInv'
  <2>1. w \in Thread
    BY DEF Thread
  <2>2. CASE Unregister(w)
    BY <2>2, UnregisterKeeps
  <2>3. CASE Die(w)
    <3>1. Shape'
      BY <2>1, <2>3 DEF Die, Advance, LostInv, Shape, Phase
    <3>2. \A k \in Kind : Running(k)' \subseteq Running(k)
      BY <2>1, <2>3, Kinds DEF Die, Advance, Running, LostInv, Shape
    <3> QED
      BY <2>3, <3>1, <3>2, Quiet DEF Die
  <2>4. CASE Due(w) \/ Refused(w) \/ Leave(w) \/ Begin(w) \/ Crash(w)
    BY <2>1, <2>4, AdvanceQuiet DEF Due, Refused, Leave, Begin, Crash, Phase
  <2>5. ASSUME NEW published \in BOOLEAN, Finish(w, published) PROVE LostInv'
    BY <2>1, <2>5, AdvanceQuiet DEF Finish, Phase
  <2> QED
    BY <1>2, <2>2, <2>3, <2>4, <2>5 DEF WorkerStep
<1>3. ASSUME NEW s \in Producers, StopObserving(s) PROVE LostInv'
  BY <1>3, AdvanceQuiet DEF StopObserving, Phase, Thread
<1>4. ASSUME NEW u \in Users, Call(u) PROVE LostInv'
  BY <1>4, Untouched DEF Call, threads
<1>5. ASSUME NEW c \in Callers, ManualBegin(c) PROVE LostInv'
  BY <1>5, Untouched DEF ManualBegin, threads
<1>6. ASSUME NEW c \in Callers, NEW published \in BOOLEAN, ManualEnd(c, published) PROVE LostInv'
  BY <1>6, Untouched DEF ManualEnd, threads
<1>7. CASE Round \/ Alarm \/ TimePasses
  BY <1>7, Untouched DEF Round, Alarm, TimePasses, threads
<1>8. CASE Recycle
  BY <1>8, RecycleKeeps
<1>9. CASE UNCHANGED trackerVars
  BY <1>9, Untouched DEF trackerVars, threads
<1> QED
  BY <1>1, <1>2, <1>3, <1>4, <1>5, <1>6, <1>7, <1>8, <1>9 DEF TrackerNext

LEMMA LostInit == TrackerInit => LostInv
<1> SUFFICES ASSUME TrackerInit PROVE LostInv
  OBVIOUS
<1>1. Shape
  BY DEF TrackerInit, Shape, Phase
<1>2. ASSUME NEW k \in Kind PROVE Cardinality(Lost(k)) = 0 /\ crossed[k] = 0
  <2>1. Lost(k) = {}
    BY Kinds DEF TrackerInit, Lost, Running
  <2> QED
    BY <2>1, FS_EmptySet DEF TrackerInit
<1> QED
  BY <1>1, <1>2 DEF LostInv, Accounted

\* However calls that stop, start and ensure threads overlap, a worker or a
\* producer is lost only for one that was started while a call waited.
THEOREM OrphansCounted == TrackerSpec => []OrphansBounded
<1>1. LostInv => OrphansBounded
  <2> SUFFICES ASSUME LostInv, NEW k \in Kind PROVE Cardinality(Orphans(k)) <= crossed[k]
    BY DEF OrphansBounded
  <2>1. Orphans(k) \subseteq Lost(k)
    BY DEF Orphans, Lost, Running, Alive
  <2>2. Cardinality(Orphans(k)) <= Cardinality(Lost(k)) /\ Cardinality(Orphans(k)) \in Nat
    BY <2>1, FiniteLost, FS_Subset, FS_CardinalityType
  <2> QED
    BY <2>2, FiniteLost DEF LostInv, Accounted, Shape
<1> QED
  BY <1>1, LostInit, LostStep, PTL DEF TrackerSpec

-----------------------------------------------------------------------------
(* Types: the plans of the calls *)

\* A plan waits for a thread only right after the step that marked it, unless
\* it has reached that wait.
Paired(steps) ==
    /\ steps \in Seq(Steps)
    /\ \A i \in 2 .. Len(steps) :
         /\ steps[i] = "clearStream" => steps[i - 1] = "markStream"
         /\ steps[i] = "clearWorker" => steps[i - 1] = "markWorker"

\* What is left of the finally clause of a worker.
WorkerPlans == {<<>>, Cleanup, <<"clearStream", "unregister">>, <<"unregister">>}

\* A call about to wait for a thread has marked one of that kind, if any.
Waits(steps, t) ==
    steps # <<>> =>
      /\ Head(steps) = "clearStream" => t \in Producers \cup {None}
      /\ Head(steps) = "clearWorker" => t \in Workers \cup {None}

PlansInv ==
    /\ plan \in [Process -> Seq(Steps)]
    /\ \A p \in Process : Paired(plan[p]) /\ Waits(plan[p], target[p])
    /\ \A w \in Workers : plan[w] \in WorkerPlans /\ (phase[w] = "closing" <=> plan[w] # <<>>)

MarksInv ==
    /\ marked \subseteq {t \in Thread : Alive(t)}
    /\ \A s \in Producers : phase[s] \in {"looping", "dead"}

StudiesInv ==
    /\ tracking \in BOOLEAN /\ shown \in BOOLEAN
    /\ began \subseteq studying
    /\ \A w \in Workers : phase[w] = "studying" <=> w \in studying

LEMMA TailPaired ==
    ASSUME NEW s, Paired(s), s # <<>>
    PROVE  /\ Paired(Tail(s)) /\ Head(s) \in Steps
           /\ Head(s) \notin {"markStream", "markWorker"} => \A t : Waits(Tail(s), t)
           /\ Head(s) = "markStream" => \A t \in Producers \cup {None} : Waits(Tail(s), t)
           /\ Head(s) = "markWorker" => \A t \in Workers \cup {None} : Waits(Tail(s), t)
<1>1. s \in Seq(Steps) /\ Len(s) \in Nat \ {0}
  BY DEF Paired
<1>2. /\ Tail(s) \in Seq(Steps) /\ Len(Tail(s)) = Len(s) - 1
      /\ \A i \in 1 .. Len(s) - 1 : Tail(s)[i] = s[i + 1]
      /\ Head(s) = s[1] /\ Head(s) \in Steps
  BY <1>1
<1>3. Paired(Tail(s))
  <2> SUFFICES ASSUME NEW i \in 2 .. Len(Tail(s))
               PROVE  /\ Tail(s)[i] = "clearStream" => Tail(s)[i - 1] = "markStream"
                      /\ Tail(s)[i] = "clearWorker" => Tail(s)[i - 1] = "markWorker"
    BY <1>2 DEF Paired
  <2>1. i + 1 \in 2 .. Len(s) /\ (i + 1) - 1 = i
    BY <1>1, <1>2
  <2>2. Tail(s)[i] = s[i + 1] /\ Tail(s)[i - 1] = s[i]
    BY <1>1, <1>2
  <2> QED
    BY <2>1, <2>2 DEF Paired
<1>4. ASSUME Tail(s) # <<>>
      PROVE  /\ Head(Tail(s)) = "clearStream" => Head(s) = "markStream"
             /\ Head(Tail(s)) = "clearWorker" => Head(s) = "markWorker"
  <2>1. 2 \in 2 .. Len(s) /\ Head(Tail(s)) = s[2]
    BY <1>1, <1>2, <1>4
  <2> QED
    BY <1>2, <2>1 DEF Paired
<1> QED
  BY <1>2, <1>3, <1>4 DEF Waits

LEMMA TailOfWorker ==
    ASSUME NEW s \in WorkerPlans, s # <<>>
    PROVE  /\ Tail(s) \in WorkerPlans
           /\ Head(s) \in {"markStream", "clearStream", "unregister"}
           /\ Head(s) = "unregister" <=> Tail(s) = <<>>
<1>1. Tail(Cleanup) = <<"clearStream", "unregister">> /\ Head(Cleanup) = "markStream"
  BY DEF Cleanup
<1>2. Tail(<<"clearStream", "unregister">>) = <<"unregister">>
  OBVIOUS
<1>3. Tail(<<"unregister">>) = <<>>
  OBVIOUS
<1>4. CASE s = Cleanup
  <2>1. Tail(s) # <<>>
    BY <1>1, <1>4
  <2> QED
    BY <1>1, <1>4, <2>1 DEF WorkerPlans
<1>5. CASE s = <<"clearStream", "unregister">>
  <2>1. Tail(s) # <<>>
    BY <1>2, <1>5
  <2> QED
    BY <1>2, <1>5, <2>1 DEF WorkerPlans
<1>6. CASE s = <<"unregister">>
  BY <1>3, <1>6 DEF WorkerPlans
<1> QED
  BY <1>4, <1>5, <1>6 DEF WorkerPlans

\* A plan that waits for nothing at once.
Opens(s) == s # <<>> => s[1] \notin {"clearStream", "clearWorker"}

LEMMA Concatenated ==
    ASSUME NEW s, NEW t, Paired(s), Opens(s), Paired(t), Opens(t)
    PROVE  Paired(s \o t) /\ Opens(s \o t)
<1> DEFINE st == s \o t
<1>1. s \in Seq(Steps) /\ t \in Seq(Steps) /\ Len(s) \in Nat /\ Len(t) \in Nat
  BY DEF Paired
<1>2. /\ st \in Seq(Steps) /\ Len(st) = Len(s) + Len(t)
      /\ \A i \in 1 .. Len(s) + Len(t) : st[i] = IF i <= Len(s) THEN s[i] ELSE t[i - Len(s)]
  BY <1>1
<1> HIDE DEF st
<1>3. ASSUME NEW i \in 2 .. Len(st)
      PROVE  /\ st[i] = "clearStream" => st[i - 1] = "markStream"
             /\ st[i] = "clearWorker" => st[i - 1] = "markWorker"
  <2>1. CASE i <= Len(s)
    <3>1. i \in 2 .. Len(s) /\ st[i] = s[i] /\ st[i - 1] = s[i - 1]
      BY <1>1, <1>2, <2>1
    <3> QED
      BY <3>1 DEF Paired
  <2>2. CASE i = Len(s) + 1
    <3>0. i - Len(s) = 1 /\ ~(i <= Len(s)) /\ i \in 1 .. Len(s) + Len(t) /\ Len(t) # 0
      BY <1>1, <1>2, <2>2
    <3>1. st[i] = t[1] /\ t # <<>>
      BY <1>1, <1>2, <3>0
    <3> QED
      BY <3>1 DEF Opens
  <2>3. CASE i > Len(s) + 1
    <3> DEFINE j == i - Len(s)
    <3>0. /\ j \in 2 .. Len(t) /\ i - 1 - Len(s) = j - 1
          /\ ~(i <= Len(s)) /\ i \in 1 .. Len(s) + Len(t)
          /\ ~(i - 1 <= Len(s)) /\ i - 1 \in 1 .. Len(s) + Len(t)
      BY <1>1, <1>2, <2>3
    <3>1. j \in 2 .. Len(t) /\ st[i] = t[j] /\ st[i - 1] = t[j - 1]
      BY <1>2, <3>0
    <3> HIDE DEF j
    <3> QED
      BY <3>1 DEF Paired
  <2> QED
    BY <1>1, <1>2, <2>1, <2>2, <2>3
<1>4. Opens(st)
  BY <1>1, <1>2 DEF Opens
<1> QED
  BY <1>2, <1>3, <1>4 DEF st, Paired

\* The calls begin with plans that wait for nothing at once.
LEMMA NewPlans ==
    ASSUME NEW new \in {StopCall, KillCall, StartCall, EnsureCall, StopCall \o StartCall, Cleanup, <<>>}
    PROVE  Paired(new) /\ \A t : Waits(new, t)
<1>1. Paired(StopWorker) /\ Opens(StopWorker)
  <2> DEFINE s == StopWorker
  <2>1. s \in Seq(Steps) /\ Len(s) = 4
    BY DEF StopWorker, Steps
  <2>2. s[1] = "markStream" /\ s[2] = "clearStream" /\ s[3] = "markWorker" /\ s[4] = "clearWorker"
    BY DEF StopWorker
  <2> HIDE DEF s
  <2>3. ASSUME NEW i \in 2 .. 4
        PROVE  /\ s[i] = "clearStream" => s[i - 1] = "markStream"
               /\ s[i] = "clearWorker" => s[i - 1] = "markWorker"
    BY <2>2
  <2>4. Paired(s) /\ Opens(s)
    BY <2>1, <2>2, <2>3 DEF Paired, Opens
  <2> QED
    BY <2>4 DEF s
<1>2. ASSUME NEW step \in {"off", "start", "ensure"}
      PROVE  Paired(<<step>>) /\ Opens(<<step>>)
  BY DEF Paired, Opens, Steps
<1>3. Paired(Cleanup) /\ Opens(Cleanup)
  <2> DEFINE s == Cleanup
  <2>1. s \in Seq(Steps) /\ Len(s) = 3
    BY DEF Cleanup, Steps
  <2>2. s[1] = "markStream" /\ s[2] = "clearStream" /\ s[3] = "unregister"
    BY DEF Cleanup
  <2> HIDE DEF s
  <2>3. Paired(s) /\ Opens(s)
    BY <2>1, <2>2 DEF Paired, Opens
  <2> QED
    BY <2>3 DEF s
<1>4. Paired(<<>>) /\ Opens(<<>>)
  BY DEF Paired, Opens
<1>5. Paired(StopCall) /\ Opens(StopCall) /\ Paired(KillCall) /\ Opens(KillCall)
  BY <1>1, <1>2, Concatenated DEF StopCall, KillCall
<1>6. Paired(StopCall \o StartCall) /\ Opens(StopCall \o StartCall)
  BY <1>2, <1>5, Concatenated DEF StartCall
<1>7. Paired(new) /\ Opens(new)
  BY <1>2, <1>3, <1>4, <1>5, <1>6 DEF StartCall, EnsureCall
<1> QED
  BY <1>7 DEF Opens, Waits, Paired

\* Which workers close is the same after the step.
SameClosing == \A w \in Workers : phase'[w] = "closing" <=> phase[w] = "closing"

LEMMA PlansSame ==
    ASSUME PlansInv, UNCHANGED <<plan, target>>, SameClosing
    PROVE  PlansInv'
  BY DEF PlansInv, SameClosing

\* A call that takes a step keeps the grammar if what it waits for fits.
LEMMA PlansTaken ==
    ASSUME PlansInv, NEW p \in Process, NEW step, Takes(p, step), step # "unregister",
           \A q \in Process \ {p} : target'[q] = target[q],
           Waits(Tail(plan[p]), target'[p]), SameClosing
    PROVE  PlansInv'
<1>1. /\ plan[p] # <<>> /\ Head(plan[p]) = step
      /\ plan' = [plan EXCEPT ![p] = Tail(plan[p])]
  BY DEF Takes
<1>2. plan[p] \in Seq(Steps) /\ Paired(plan[p])
  BY DEF PlansInv
<1>3. Paired(Tail(plan[p])) /\ Tail(plan[p]) \in Seq(Steps)
  BY <1>1, <1>2, TailPaired DEF Paired
<1>4. plan' \in [Process -> Seq(Steps)]
  BY <1>1, <1>3 DEF PlansInv
<1>5. /\ plan'[p] = Tail(plan[p])
      /\ \A q \in Process \ {p} : plan'[q] = plan[q]
  BY <1>1 DEF PlansInv
<1>6. ASSUME NEW q \in Process PROVE Paired(plan'[q]) /\ Waits(plan'[q], target'[q])
  BY <1>3, <1>5 DEF PlansInv
<1>7. ASSUME NEW w \in Workers
      PROVE  plan'[w] \in WorkerPlans /\ (phase'[w] = "closing" <=> plan'[w] # <<>>)
  <2>1. CASE w = p
    BY <1>1, <1>5, <2>1, TailOfWorker DEF PlansInv, SameClosing
  <2>2. CASE w # p
    BY <1>5, <2>2, Kinds DEF PlansInv, SameClosing
  <2> QED
    BY <2>1, <2>2
<1> QED
  BY <1>4, <1>6, <1>7 DEF PlansInv, Paired, Waits

\* A call that is no worker's takes up a plan that waits for nothing at once.
LEMMA PlansTakenUp ==
    ASSUME PlansInv, NEW p \in Process \ Workers, NEW new, Paired(new),
           plan' = [plan EXCEPT ![p] = new], target' = target,
           Waits(new, target[p]), SameClosing
    PROVE  PlansInv'
<1>1. new \in Seq(Steps)
  BY DEF Paired
<1>2. /\ plan' \in [Process -> Seq(Steps)]
      /\ plan'[p] = new /\ \A q \in Process \ {p} : plan'[q] = plan[q]
  BY <1>1 DEF PlansInv
<1>3. ASSUME NEW q \in Process PROVE Paired(plan'[q]) /\ Waits(plan'[q], target'[q])
  BY <1>2 DEF PlansInv
<1>4. \A w \in Workers : plan'[w] = plan[w]
  BY <1>2, Kinds
<1> QED
  BY <1>2, <1>3, <1>4 DEF PlansInv, SameClosing, Paired, Waits

LEMMA PlansClose ==
    ASSUME PlansInv, Shape, NEW w \in Workers, Advance(w, "looping", "closing"),
           plan' = [plan EXCEPT ![w] = Cleanup], target' = target
    PROVE  PlansInv'
<1>1. w \in Process /\ w \in Thread
  BY Kinds DEF Thread
<1>2. Paired(Cleanup) /\ (\A t : Waits(Cleanup, t)) /\ Cleanup # <<>> /\ Cleanup \in Seq(Steps)
  BY NewPlans DEF Paired, Cleanup, Steps
<1>3. /\ plan' \in [Process -> Seq(Steps)]
      /\ plan'[w] = Cleanup /\ \A q \in Process \ {w} : plan'[q] = plan[q]
  BY <1>1, <1>2 DEF PlansInv
<1>4. phase'[w] = "closing" /\ \A v \in Workers \ {w} : phase'[v] = phase[v]
  BY <1>1 DEF Advance, Shape
<1>5. \A q \in Process : Paired(plan'[q]) /\ Waits(plan'[q], target'[q])
  BY <1>2, <1>3 DEF PlansInv
<1>6. ASSUME NEW v \in Workers
      PROVE  plan'[v] \in WorkerPlans /\ (phase'[v] = "closing" <=> plan'[v] # <<>>)
  BY <1>2, <1>3, <1>4, Kinds DEF PlansInv, WorkerPlans
<1> QED
  BY <1>3, <1>5, <1>6 DEF PlansInv, Paired, Waits

LEMMA PlansUnregister ==
    ASSUME PlansInv, Shape, NEW w \in Workers, Unregister(w)
    PROVE  PlansInv'
<1>1. w \in Process /\ w \in Thread
  BY Kinds DEF Thread
<1>2. /\ plan[w] # <<>> /\ Head(plan[w]) = "unregister"
      /\ plan' = [plan EXCEPT ![w] = Tail(plan[w])] /\ target' = target
  BY DEF Unregister, Takes
<1>3. Tail(plan[w]) = <<>> /\ Paired(<<>>) /\ \A t : Waits(<<>>, t)
  BY <1>2, TailOfWorker, NewPlans DEF PlansInv
<1>4. /\ plan' \in [Process -> Seq(Steps)]
      /\ plan'[w] = <<>> /\ \A q \in Process \ {w} : plan'[q] = plan[q]
  BY <1>1, <1>2, <1>3 DEF PlansInv
<1>5. phase'[w] = "unregistered" /\ \A v \in Workers \ {w} : phase'[v] = phase[v]
  BY <1>1 DEF Unregister, Advance, Shape
<1>6. \A q \in Process : Paired(plan'[q]) /\ Waits(plan'[q], target'[q])
  BY <1>2, <1>3, <1>4 DEF PlansInv
<1>7. ASSUME NEW v \in Workers
      PROVE  plan'[v] \in WorkerPlans /\ (phase'[v] = "closing" <=> plan'[v] # <<>>)
  BY <1>4, <1>5, Kinds DEF PlansInv, WorkerPlans
<1> QED
  BY <1>4, <1>6, <1>7 DEF PlansInv, Paired, Waits

\* What start_session does next waits for nothing.
LEMMA StartKeeps ==
    ASSUME PlansInv, NEW p \in Process, StartStep(p)
    PROVE  PlansInv'
<1>1. /\ plan[p] # <<>> /\ Head(plan[p]) = "start"
      /\ plan' = [plan EXCEPT ![p] = Started \o Tail(plan[p])]
      /\ target' = target /\ phase' = phase
  BY DEF StartStep, threads
<1>2. p \notin Workers
  BY <1>1, TailOfWorker DEF PlansInv
<1> DEFINE rest == Tail(plan[p])
           new  == Started \o rest
<1>3. plan[p] \in Seq(Steps) /\ Paired(plan[p]) /\ Paired(rest) /\ rest \in Seq(Steps)
  BY <1>1, TailPaired DEF PlansInv, Paired
<1>4. Opens(rest)
  <2> SUFFICES ASSUME rest # <<>> PROVE rest[1] \notin {"clearStream", "clearWorker"}
    BY DEF Opens
  <2>1. 2 \in 2 .. Len(plan[p]) /\ rest[1] = plan[p][2] /\ plan[p][1] = "start"
    BY <1>1, <1>3
  <2> QED
    BY <1>3, <2>1 DEF Paired
<1>5. Paired(Started) /\ Opens(Started)
  <2>1. CASE tracking
    <3>1. Started = <<"reconcile", "ensure">>
      BY <2>1 DEF Started
    <3> QED
      BY <3>1 DEF Paired, Opens, Steps
  <2>2. CASE ~tracking
    <3>1. Started = <<"on", "ensure">>
      BY <2>2 DEF Started
    <3> QED
      BY <3>1 DEF Paired, Opens, Steps
  <2> QED
    BY <2>1, <2>2
<1> HIDE DEF rest
<1>8. Paired(new) /\ Opens(new)
  BY <1>3, <1>4, <1>5, Concatenated
<1>9. \A t : Waits(new, t)
  BY <1>8 DEF Opens, Waits, Paired
<1> HIDE DEF new
<1>10. plan' = [plan EXCEPT ![p] = new]
  BY <1>1 DEF new, rest
<1>11. SameClosing
  BY <1>1 DEF SameClosing
<1> QED
  BY <1>1, <1>2, <1>8, <1>9, <1>10, <1>11, PlansTakenUp

LEMMA PlansStep ==
    ASSUME Shape, PlansInv, [TrackerNext]_trackerVars PROVE PlansInv'
<1> USE DEF PlansInv
<1>1. ASSUME NEW p \in Process, CallStep(p) PROVE PlansInv'
  <2>1. plan[p] # <<>> => Paired(plan[p])
    OBVIOUS
  <2>2. ASSUME NEW k \in Kind, NEW step \in {"markStream", "markWorker"},
               k = IF step = "markStream" THEN "stream" ELSE "worker", Mark(p, k, step)
        PROVE  PlansInv'
    <3>1. /\ plan[p] # <<>> /\ Head(plan[p]) = step /\ Takes(p, step)
          /\ target' = [target EXCEPT ![p] = registered[k]] /\ phase' = phase
      BY <2>2 DEF Mark, Takes
    <3>2. registered[k] \in IF step = "markStream" THEN Producers \cup {None} ELSE Workers \cup {None}
      BY <2>2, Kinds DEF Shape, Kind
    <3>3. Waits(Tail(plan[p]), registered[k])
      BY <2>1, <3>1, <3>2, TailPaired
    <3>4. target'[p] = registered[k] /\ \A q \in Process \ {p} : target'[q] = target[q]
      BY <3>1 DEF Shape
    <3> QED
      BY <2>2, <3>1, <3>3, <3>4, PlansTaken DEF SameClosing
  <2>3. ASSUME NEW k \in Kind, NEW step \in {"clearStream", "clearWorker"}, Clear(p, k, step)
        PROVE  PlansInv'
    <3>1. /\ plan[p] # <<>> /\ Head(plan[p]) = step /\ Takes(p, step)
          /\ target' = [target EXCEPT ![p] = None] /\ phase' = phase
      BY <2>3 DEF Clear, Takes
    <3>2. Waits(Tail(plan[p]), target'[p])
      BY <2>1, <3>1, TailPaired
    <3>3. \A q \in Process \ {p} : target'[q] = target[q]
      BY <3>1 DEF Shape
    <3> QED
      BY <2>3, <3>1, <3>2, <3>3, PlansTaken DEF SameClosing
  <2>4. ASSUME NEW step \in {"off", "on", "reconcile"}, Takes(p, step),
               target' = target, phase' = phase
        PROVE  PlansInv'
    <3>1. plan[p] # <<>> /\ Head(plan[p]) = step
      BY <2>4 DEF Takes
    <3>2. Waits(Tail(plan[p]), target'[p])
      BY <2>1, <2>4, <3>1, TailPaired
    <3> QED
      BY <2>4, <3>2, PlansTaken DEF SameClosing
  <2>5. CASE Ensure(p)
    <3>1. Takes(p, "ensure") /\ target' = target /\ plan[p] # <<>> /\ Head(plan[p]) = "ensure"
      BY <2>5 DEF Ensure, Takes
    <3>2. Waits(Tail(plan[p]), target'[p])
      BY <2>1, <3>1, TailPaired
    <3>3. ASSUME NEW v \in Workers PROVE phase'[v] = "closing" <=> phase[v] = "closing"
      <4>1. v \in Thread /\ v # None
        BY DEF Thread
      <4>2. PICK w \in Entries("worker"), s \in Entries("stream") \cup {None} :
              phase' = [t \in Thread |->
                          IF \/ t = w /\ Needed("worker")
                             \/ t = s /\ Needed("stream")
                          THEN "looping" ELSE phase[t]]
        BY <2>5 DEF Ensure
      <4>3. v = w /\ Needed("worker") => phase[v] = "dead"
        BY <4>1 DEF Entries, Alive
      <4>4. ~(v = s /\ Needed("stream"))
        BY <4>1, Kinds DEF Entries, Kind
      <4> QED
        BY <4>1, <4>2, <4>3, <4>4
    <3> QED
      BY <3>1, <3>2, <3>3, PlansTaken DEF SameClosing
  <2>6. CASE StartStep(p)
    BY <2>6, StartKeeps
  <2>7. CASE Off(p) \/ On(p) \/ Reconcile(p)
    BY <2>4, <2>7 DEF Off, On, Reconcile, threads
  <2>8. CASE Mark(p, "stream", "markStream")
    BY <2>2, <2>8 DEF Kind
  <2>9. CASE Mark(p, "worker", "markWorker")
    BY <2>2, <2>9 DEF Kind
  <2>10. CASE Clear(p, "stream", "clearStream") \/ Clear(p, "worker", "clearWorker")
    BY <2>3, <2>10 DEF Kind
  <2> QED
    BY <1>1, <2>5, <2>6, <2>7, <2>8, <2>9, <2>10 DEF CallStep
<1>2. ASSUME NEW t \in Thread, NEW from \in Phase \ {"closing"}, NEW to \in Phase \ {"closing"},
             Advance(t, from, to), UNCHANGED <<plan, target>>
      PROVE  PlansInv'
  BY <1>2, PlansSame DEF Advance, SameClosing, Shape
<1>3. ASSUME NEW w \in Workers, WorkerStep(w) \/ Crash(w) PROVE PlansInv'
  <2>1. w \in Thread
    BY DEF Thread
  <2>2. CASE Due(w) \/ Begin(w) \/ Refused(w) \/ Die(w)
    BY <1>2, <2>1, <2>2 DEF Due, Begin, Refused, Die, Phase
  <2>3. ASSUME NEW published \in BOOLEAN, Finish(w, published) PROVE PlansInv'
    BY <1>2, <2>1, <2>3 DEF Finish, Phase
  <2>4. CASE Leave(w) \/ Crash(w)
    BY <2>4, PlansClose DEF Leave, Crash
  <2>5. CASE Unregister(w)
    BY <2>5, PlansUnregister
  <2> QED
    BY <1>3, <2>2, <2>3, <2>4, <2>5 DEF WorkerStep
<1>4. ASSUME NEW s \in Producers, StopObserving(s) PROVE PlansInv'
  BY <1>2, <1>4 DEF StopObserving, Phase, Thread
<1>5. ASSUME NEW p \in Process \ Workers, plan[p] = <<>>,
             NEW new \in {StopCall, KillCall, StartCall, EnsureCall, StopCall \o StartCall},
             plan' = [plan EXCEPT ![p] = new], UNCHANGED <<target, phase>>
      PROVE  PlansInv'
  BY <1>5, NewPlans, PlansTakenUp DEF SameClosing
<1>6. ASSUME NEW u \in Users, Call(u) PROVE PlansInv'
  <2>1. u \in Process \ Workers
    BY DEF Process
  <2> QED
    BY <1>5, <1>6, <2>1 DEF Call, threads
<1>7. CASE Round \/ Alarm
  <2>1. Watchdog \in Process \ Workers
    BY DEF Process
  <2>2. CASE Round /\ ~tracking
    <3>1. plan' = [plan EXCEPT ![Watchdog] = StartCall]
      BY <2>2 DEF Round
    <3> QED
      BY <1>5, <2>1, <2>2, <3>1 DEF Round, threads
  <2>3. CASE (Round /\ tracking) \/ Alarm
    <3>1. plan' = [plan EXCEPT ![Watchdog] = StopCall \o StartCall]
      BY <2>3 DEF Round, Alarm
    <3>2. plan[Watchdog] = <<>> /\ UNCHANGED <<target, phase>>
      BY <2>3 DEF Round, Alarm, threads
    <3> QED
      BY <1>5, <2>1, <3>1, <3>2
  <2> QED
    BY <1>7, <2>2, <2>3
<1>8. CASE Recycle
  <2>1. /\ phase' = [t \in Thread |-> "dead"]
        /\ plan' = [p \in Process |-> IF p = Watchdog THEN StartCall ELSE <<>>]
    BY <1>8 DEF Recycle
  <2>2. \A new \in {StartCall, <<>>} : Paired(new) /\ new \in Seq(Steps) /\ \A t : Waits(new, t)
    <3>1. \A new \in {StartCall, <<>>} : Paired(new) /\ \A t : Waits(new, t)
      BY NewPlans
    <3>2. ASSUME NEW new, Paired(new) PROVE new \in Seq(Steps)
      BY <3>2 DEF Paired
    <3> QED
      BY <3>1, <3>2
  <2>3. \A w \in Workers : w \in Thread /\ w \in Process /\ w # Watchdog
    BY DEF Thread, Process
  <2>4. plan' \in [Process -> Seq(Steps)]
    BY <2>1, <2>2
  <2>5. \A p \in Process : Paired(plan'[p]) /\ Waits(plan'[p], target'[p])
    BY <2>1, <2>2
  <2>6. \A w \in Workers : plan'[w] = <<>> /\ phase'[w] = "dead"
    BY <2>1, <2>3
  <2> QED
    BY <2>4, <2>5, <2>6 DEF WorkerPlans, Paired, Waits
<1>9. ASSUME UNCHANGED <<plan, target, phase>> PROVE PlansInv'
  BY <1>9, PlansSame DEF SameClosing
<1>10. ASSUME NEW c \in Callers \ Workers, ManualBegin(c) PROVE PlansInv'
  BY <1>9, <1>10 DEF ManualBegin, threads
<1>11. ASSUME NEW c \in Callers \ Workers, NEW published \in BOOLEAN, ManualEnd(c, published)
       PROVE  PlansInv'
  BY <1>9, <1>11 DEF ManualEnd, threads
<1>12. CASE TimePasses \/ UNCHANGED trackerVars
  BY <1>9, <1>12 DEF TimePasses, trackerVars, threads
<1> QED
  BY <1>1, <1>3, <1>4, <1>6, <1>7, <1>8, <1>10, <1>11, <1>12 DEF TrackerNext

\* Only threads that live are marked, and a producer has nothing but its loop.
LEMMA MarksStep ==
    ASSUME Shape, MarksInv, [TrackerNext]_trackerVars PROVE MarksInv'
<1> USE DEF MarksInv
<1>1. ASSUME UNCHANGED <<phase, marked>> PROVE MarksInv'
  BY <1>1 DEF Alive
<1>2. ASSUME NEW p \in Process, CallStep(p) PROVE MarksInv'
  <2>1. ASSUME NEW k \in Kind, NEW step, Mark(p, k, step) PROVE MarksInv'
    <3>1. marked' = marked \cup {t \in {registered[k]} : Alive(t)} /\ phase' = phase
      BY <2>1 DEF Mark
    <3>2. Alive(registered[k]) => registered[k] \in Thread
      BY DEF Shape, Alive
    <3> QED
      BY <3>1, <3>2 DEF Alive
  <2>2. ASSUME NEW k \in Kind, NEW step, Clear(p, k, step) PROVE MarksInv'
    BY <1>1, <2>2 DEF Clear
  <2>3. CASE Ensure(p)
    <3>1. marked' = marked
      BY <2>3 DEF Ensure
    <3>2. \A t \in Thread : phase'[t] \in {phase[t], "looping"}
      BY <2>3 DEF Ensure
    <3> QED
      BY <3>1, <3>2, Kinds DEF Alive, Kind
  <2>4. CASE Off(p) \/ StartStep(p) \/ On(p) \/ Reconcile(p)
    BY <1>1, <2>4 DEF Off, StartStep, On, Reconcile, threads
  <2> QED
    BY <1>2, <2>1, <2>2, <2>3, <2>4 DEF CallStep, Kind
<1>3. ASSUME NEW w \in Workers, NEW from, NEW to \in Phase \ {"dead"}, Advance(w, from, to),
             marked' = marked
      PROVE  MarksInv'
  <2>1. w \in Thread /\ w \notin Producers
    BY DEF Thread
  <2> QED
    BY <1>3, <2>1 DEF Advance, Alive, Shape, Thread
<1>4. ASSUME NEW w \in Workers, WorkerStep(w) \/ Crash(w) PROVE MarksInv'
  <2>1. CASE Due(w) \/ Begin(w) \/ Refused(w) \/ Leave(w) \/ Unregister(w) \/ Crash(w)
    BY <1>3, <2>1 DEF Due, Begin, Refused, Leave, Unregister, Crash, Phase
  <2>2. ASSUME NEW published \in BOOLEAN, Finish(w, published) PROVE MarksInv'
    BY <1>3, <2>2 DEF Finish, Phase
  <2>3. CASE Die(w)
    <3>1. w \in Thread /\ w \notin Producers
      BY DEF Thread
    <3> QED
      BY <2>3, <3>1 DEF Die, Advance, Alive, Shape, Thread
  <2> QED
    BY <1>4, <2>1, <2>2, <2>3 DEF WorkerStep
<1>5. ASSUME NEW s \in Producers, StopObserving(s) PROVE MarksInv'
  <2>1. phase' = [phase EXCEPT ![s] = "dead"] /\ marked' = marked \ {s}
    BY <1>5 DEF StopObserving, Advance
  <2> QED
    BY <2>1 DEF Alive, Shape, Thread
<1>6. ASSUME NEW u \in Users, Call(u) PROVE MarksInv'
  BY <1>1, <1>6 DEF Call, threads
<1>7. ASSUME NEW c \in Callers \ Workers, ManualBegin(c) PROVE MarksInv'
  BY <1>1, <1>7 DEF ManualBegin, threads
<1>8. ASSUME NEW c \in Callers \ Workers, NEW published \in BOOLEAN, ManualEnd(c, published)
      PROVE  MarksInv'
  BY <1>1, <1>8 DEF ManualEnd, threads
<1>9. CASE Round \/ Alarm \/ TimePasses \/ UNCHANGED trackerVars
  BY <1>1, <1>9 DEF Round, Alarm, TimePasses, trackerVars, threads
<1>10. CASE Recycle
  BY <1>10 DEF Recycle, Thread
<1> QED
  BY <1>2, <1>4, <1>5, <1>6, <1>7, <1>8, <1>9, <1>10 DEF TrackerNext

\* A worker studies exactly while it has its place among the studies.
LEMMA StudiesStep ==
    ASSUME Shape, StudiesInv, [TrackerNext]_trackerVars PROVE StudiesInv'
<1> USE DEF StudiesInv
<1> DEFINE SameStudies == \A w \in Workers : phase'[w] = "studying" <=> phase[w] = "studying"
<1>1. ASSUME UNCHANGED <<studying, began>>, SameStudies,
             tracking' \in BOOLEAN, shown' \in BOOLEAN
      PROVE  StudiesInv'
  BY <1>1
<1>2. phase' = phase => SameStudies
  OBVIOUS
<1>3. ASSUME NEW p \in Process, CallStep(p) PROVE StudiesInv'
  <2>1. ASSUME NEW k \in Kind, NEW step, Mark(p, k, step) \/ Clear(p, k, step) PROVE StudiesInv'
    BY <1>1, <1>2, <2>1 DEF Mark, Clear, vars, session
  <2>2. CASE Off(p) \/ StartStep(p) \/ On(p) \/ Reconcile(p)
    BY <1>1, <1>2, <2>2 DEF Off, StartStep, On, Reconcile, threads, vars, session
  <2>3. CASE Ensure(p)
    <3>1. SameStudies
      <4> SUFFICES ASSUME NEW v \in Workers
                   PROVE  phase'[v] = "studying" <=> phase[v] = "studying"
        OBVIOUS
      <4>1. v \in Thread /\ v # None
        BY DEF Thread
      <4>2. PICK w \in Entries("worker"), s \in Entries("stream") \cup {None} :
              phase' = [t \in Thread |->
                          IF \/ t = w /\ Needed("worker")
                             \/ t = s /\ Needed("stream")
                          THEN "looping" ELSE phase[t]]
        BY <2>3 DEF Ensure
      <4>3. v = w /\ Needed("worker") => phase[v] = "dead"
        BY <4>1 DEF Entries, Alive
      <4>4. ~(v = s /\ Needed("stream"))
        BY <4>1, Kinds DEF Entries, Kind
      <4> QED
        BY <4>1, <4>2, <4>3, <4>4
    <3> QED
      BY <1>1, <2>3, <3>1 DEF Ensure, vars, session
  <2> QED
    BY <1>3, <2>1, <2>2, <2>3 DEF CallStep, Kind
<1>4. ASSUME NEW t \in Thread, NEW from \in Phase \ {"studying"}, NEW to \in Phase \ {"studying"},
             Advance(t, from, to), UNCHANGED <<studying, began>>,
             tracking' \in BOOLEAN, shown' \in BOOLEAN
      PROVE  StudiesInv'
  BY <1>1, <1>4 DEF Advance, Shape
<1>5. ASSUME NEW w \in Workers, WorkerStep(w) \/ Crash(w) PROVE StudiesInv'
  <2>1. w \in Thread
    BY DEF Thread
  <2>2. CASE Due(w) \/ Refused(w) \/ Leave(w) \/ Unregister(w) \/ Die(w) \/ Crash(w)
    BY <1>4, <2>1, <2>2 DEF Due, Refused, Leave, Unregister, Die, Crash, vars, session, Phase
  <2>3. CASE Begin(w)
    <3>1. /\ phase' = [phase EXCEPT ![w] = "studying"]
          /\ studying' = studying \cup {w}
          /\ began' = (IF tracking THEN began \cup {w} ELSE began)
          /\ UNCHANGED <<tracking, shown>>
      BY <2>3 DEF Begin, Advance, Began, BeginStudy, session
    <3> QED
      BY <2>1, <3>1 DEF Shape, Thread
  <2>4. ASSUME NEW published \in BOOLEAN, Finish(w, published) PROVE StudiesInv'
    <3>1. /\ phase' = [phase EXCEPT ![w] = "looping"]
          /\ studying' = studying \ {w} /\ began' = began \ {w}
          /\ tracking' \in BOOLEAN /\ shown' \in BOOLEAN
      BY <2>4 DEF Finish, Advance, Ended, FinishStudy
    <3> QED
      BY <2>1, <3>1 DEF Shape, Thread
  <2> QED
    BY <1>5, <2>2, <2>3, <2>4 DEF WorkerStep
<1>6. ASSUME NEW s \in Producers, StopObserving(s) PROVE StudiesInv'
  BY <1>4, <1>6 DEF StopObserving, vars, session, Phase, Thread
<1>7. ASSUME NEW c \in Callers \ Workers, ManualBegin(c) PROVE StudiesInv'
  <2>1. /\ phase' = phase /\ studying' = studying \cup {c}
        /\ began' = (IF tracking THEN began \cup {c} ELSE began)
        /\ UNCHANGED <<tracking, shown>>
    BY <1>7 DEF ManualBegin, Began, BeginStudy, session, threads
  <2> QED
    BY <2>1
<1>8. ASSUME NEW c \in Callers \ Workers, NEW published \in BOOLEAN, ManualEnd(c, published)
      PROVE  StudiesInv'
  <2>1. /\ phase' = phase /\ studying' = studying \ {c} /\ began' = began \ {c}
        /\ tracking' \in BOOLEAN /\ shown' \in BOOLEAN
    BY <1>8 DEF ManualEnd, Ended, FinishStudy, threads
  <2> QED
    BY <2>1
<1>9. ASSUME NEW u \in Users, Call(u) PROVE StudiesInv'
  BY <1>1, <1>2, <1>9 DEF Call, threads, vars, session
<1>10. CASE Round \/ Alarm \/ UNCHANGED trackerVars
  BY <1>1, <1>2, <1>10 DEF Round, Alarm, trackerVars, threads, vars, session
<1>11. CASE TimePasses
  BY <1>1, <1>2, <1>11 DEF TimePasses, GrowOld, threads, session
<1>12. CASE Recycle
  <2>1. phase' = [t \in Thread |-> "dead"] /\ studying' = {} /\ began' = {} /\ UNCHANGED <<tracking, shown>>
    BY <1>12 DEF Recycle, Restart, session
  <2> QED
    BY <2>1 DEF Thread
<1> QED
  BY <1>3, <1>5, <1>6, <1>7, <1>8, <1>9, <1>10, <1>11, <1>12 DEF TrackerNext

ThreadsInv == LostInv /\ PlansInv /\ MarksInv /\ StudiesInv

LEMMA ThreadsInit == TrackerInit => ThreadsInv
<1> SUFFICES ASSUME TrackerInit PROVE ThreadsInv
  OBVIOUS
<1>1. MarksInv /\ StudiesInv
  BY DEF TrackerInit, Init, MarksInv, StudiesInv, Thread
<1>2. Paired(<<>>) /\ <<>> \in Seq(Steps) /\ \A t : Waits(<<>>, t)
  BY NewPlans DEF Paired
<1>3. PlansInv
  BY <1>2, Kinds DEF TrackerInit, PlansInv, WorkerPlans, Thread
<1> QED
  BY <1>1, <1>3, LostInit DEF ThreadsInv

\* Whatever calls, crashes and restarts overlap, every thread and call is where
\* the code can put it: a worker studies exactly while the gate has its place,
\* only a worker that closes runs its cleanup, only live threads are marked, and
\* a call that joins a thread has marked one of that kind before.
THEOREM TrackerTypes == TrackerSpec => []TrackerTypeOK
<1>1. ThreadsInv /\ [TrackerNext]_trackerVars => ThreadsInv'
  BY LostStep, PlansStep, MarksStep, StudiesStep DEF ThreadsInv, LostInv
<1>2. TypeOK /\ ThreadsInv => TrackerTypeOK
  <2> SUFFICES ASSUME TypeOK, ThreadsInv PROVE TrackerTypeOK
    OBVIOUS
  <2> USE DEF ThreadsInv
  <2>1. /\ phase \in [Thread -> Phase] /\ target \in [Process -> Thread \cup {None}]
        /\ registered.worker \in Workers \cup {None} /\ registered.stream \in Producers \cup {None}
    BY Kinds DEF LostInv, Shape, Kind
  <2>2. /\ plan \in [Process -> Seq(Steps)]
        /\ \A w \in Workers : phase[w] = "closing" <=> plan[w] # <<>>
        /\ \A p \in Process : plan[p] # <<>> =>
             /\ Head(plan[p]) = "clearStream" => target[p] \in Producers \cup {None}
             /\ Head(plan[p]) = "clearWorker" => target[p] \in Workers \cup {None}
    BY DEF PlansInv, Waits
  <2> QED
    BY <2>1, <2>2 DEF TrackerTypeOK, MarksInv, StudiesInv
<1> QED
  BY <1>1, <1>2, ThreadsInit, UsesGate, TypeCorrect, PTL DEF TrackerSpec

-----------------------------------------------------------------------------
(* Why what was told to stop ends, as far as single steps can say it *)

\* Steps a stopped thread has before it at most: its capture, its study, its
\* loop, what is left of its finally clause, and its end.
PhaseSteps == [due |-> 7, studying |-> 6, looping |-> 5, closing |-> 1, unregistered |-> 1]
StepsToEnd(t) ==
    PhaseSteps[phase[t]] + IF t \in Workers /\ phase[t] = "closing" THEN Len(plan[t]) ELSE 0

\* The thread took no step.
Rests(t) == phase'[t] = phase[t] /\ (t \in Workers => plan'[t] = plan[t])

\* A thread whose stop event is set comes nearer to its end with each of its own
\* steps, and no start, stop, repair, kill or loss of its entry puts it back:
\* it begins no further study, and nobody takes the event from it.
Nearer(t) == t \notin marked' \/ Rests(t) \/ StepsToEnd(t)' < StepsToEnd(t)
StoppedAdvances == [][\A t \in marked : Nearer(t)]_trackerVars

StoppedBounded == \A t \in marked : StepsToEnd(t) \in 1 .. 7

LEMMA StepsCounted ==
    ASSUME Shape, PlansInv, MarksInv, NEW t \in marked
    PROVE  /\ t \in Thread /\ Alive(t) /\ phase[t] \in DOMAIN PhaseSteps
           /\ t \in Workers /\ phase[t] = "closing" => Len(plan[t]) \in 1 .. 3
           /\ t \in Producers => phase[t] = "looping"
           /\ StepsToEnd(t) \in 1 .. 7
<1>1. t \in Thread /\ Alive(t) /\ phase[t] \in Phase \ {"dead"}
  BY DEF MarksInv, Alive, Shape
<1>2. t \in Producers => phase[t] = "looping"
  BY <1>1 DEF MarksInv
<1>3. phase[t] \in DOMAIN PhaseSteps
  BY <1>1 DEF Phase, PhaseSteps
<1>4. ASSUME NEW s \in WorkerPlans, s # <<>> PROVE Len(s) \in 1 .. 3
  BY <1>4 DEF WorkerPlans, Cleanup
<1>5. t \in Workers /\ phase[t] = "closing" => Len(plan[t]) \in 1 .. 3
  BY <1>4 DEF PlansInv
<1>6. StepsToEnd(t) \in 1 .. 7
  <2>1. CASE t \in Workers /\ phase[t] = "closing"
    <3>1. StepsToEnd(t) = 1 + Len(plan[t])
      BY <2>1 DEF StepsToEnd, PhaseSteps
    <3>2. \A n \in 1 .. 3 : 1 + n \in 1 .. 7
      OBVIOUS
    <3> QED
      BY <1>5, <2>1, <3>1, <3>2
  <2>2. CASE ~(t \in Workers /\ phase[t] = "closing")
    BY <1>3, <2>2 DEF StepsToEnd, PhaseSteps
  <2> QED
    BY <2>1, <2>2
<1> QED
  BY <1>1, <1>2, <1>3, <1>5, <1>6

\* A block of a call moves only the thread whose finally clause it is.
LEMMA CallsAdvance ==
    ASSUME Shape, PlansInv, MarksInv, NEW p \in Process, CallStep(p), NEW t \in marked
    PROVE  Nearer(t)
<1>1. t \in Thread /\ Alive(t) /\ t # None
  BY StepsCounted DEF Alive
<1>2. phase'[t] = phase[t]
  <2>1. CASE Ensure(p)
    <3>1. PICK w \in Entries("worker"), s \in Entries("stream") \cup {None} :
            phase' = [x \in Thread |->
                        IF \/ x = w /\ Needed("worker")
                           \/ x = s /\ Needed("stream")
                        THEN "looping" ELSE phase[x]]
      BY <2>1 DEF Ensure
    <3>2. ~(t = w /\ Needed("worker")) /\ ~(t = s /\ Needed("stream"))
      BY <1>1 DEF Entries
    <3> QED
      BY <1>1, <3>1, <3>2
  <2>2. CASE ~Ensure(p)
    BY <2>2 DEF CallStep, Mark, Clear, Off, StartStep, On, Reconcile, threads
  <2> QED
    BY <2>1, <2>2
<1>3. \/ \E step : Takes(p, step)
      \/ StartStep(p)
  BY DEF CallStep, Mark, Clear, Off, On, Reconcile, Ensure
<1>4. \A q \in Process \ {p} : plan'[q] = plan[q]
  BY <1>3 DEF Takes, StartStep, PlansInv
<1>5. CASE ~(t \in Workers /\ t = p)
  BY <1>2, <1>4, <1>5, Kinds DEF Nearer, Rests
<1>6. CASE t \in Workers /\ t = p
  <2>1. plan[p] # <<>>
    BY <1>3 DEF Takes, StartStep
  <2>2. phase[t] = "closing" /\ plan[t] \in Seq(Steps) /\ plan[t] # <<>>
    BY <1>6, <2>1 DEF PlansInv
  <2>3. Head(plan[t]) # "start"
    BY <1>6, <2>2, TailOfWorker DEF PlansInv
  <2>4. plan'[t] = Tail(plan[t])
    BY <1>3, <1>6, <2>3 DEF Takes, StartStep, PlansInv
  <2>5. Len(plan'[t]) = Len(plan[t]) - 1 /\ Len(plan[t]) \in Nat
    BY <2>2, <2>4
  <2>6. StepsToEnd(t) = 1 + Len(plan[t])
    BY <1>6, <2>2 DEF StepsToEnd, PhaseSteps
  <2>7. StepsToEnd(t)' = 1 + Len(plan'[t])
    BY <1>2, <1>6, <2>2 DEF StepsToEnd, PhaseSteps
  <2> QED
    BY <2>5, <2>6, <2>7 DEF Nearer
<1> QED
  BY <1>5, <1>6

LEMMA ThreadsAdvance ==
    ASSUME Shape, PlansInv, MarksInv, NEW w \in Workers, WorkerStep(w) \/ Crash(w),
           NEW t \in marked
    PROVE  Nearer(t)
<1>1. t \in Thread /\ w \in Thread /\ w \in Process
  BY StepsCounted, Kinds DEF Thread
<1>2. /\ \A x \in Thread \ {w} : phase'[x] = phase[x]
      /\ \A q \in Process \ {w} : plan'[q] = plan[q]
  BY <1>1 DEF WorkerStep, Due, Begin, Refused, Finish, Leave, Crash, Unregister, Die, Advance,
     Takes, Shape, PlansInv
<1>3. CASE t # w
  BY <1>1, <1>2, <1>3, Kinds DEF Nearer, Rests
<1>4. CASE t = w
  <2>1. ASSUME NEW from, NEW to \in {"studying", "looping", "unregistered"}, Advance(w, from, to)
        PROVE  phase[t] = from /\ phase'[t] = to /\ StepsToEnd(t)' = PhaseSteps[to]
    <3>1. phase[t] = from /\ phase'[t] = to
      BY <1>1, <1>4, <2>1 DEF Advance, Shape
    <3> QED
      BY <3>1 DEF StepsToEnd, PhaseSteps
  <2>2. phase[t] # "closing" => StepsToEnd(t) = PhaseSteps[phase[t]]
    BY StepsCounted DEF StepsToEnd, PhaseSteps
  <2>3. ~Due(w)
    BY <1>4 DEF Due
  <2>4. CASE Begin(w) \/ Refused(w)
    BY <2>1, <2>2, <2>4 DEF Begin, Refused, Nearer, PhaseSteps
  <2>5. ASSUME NEW published \in BOOLEAN, Finish(w, published) PROVE Nearer(t)
    BY <2>1, <2>2, <2>5 DEF Finish, Nearer, PhaseSteps
  <2>6. CASE Leave(w) \/ Crash(w)
    <3>1. phase[t] = "looping" /\ phase'[t] = "closing" /\ plan'[t] = Cleanup
      BY <1>1, <1>4, <2>6 DEF Leave, Crash, Advance, Shape, PlansInv
    <3>2. StepsToEnd(t)' = 1 + Len(Cleanup) /\ Len(Cleanup) = 3
      BY <1>4, <3>1 DEF StepsToEnd, PhaseSteps, Cleanup
    <3>3. StepsToEnd(t) = 5
      BY <2>2, <3>1 DEF PhaseSteps
    <3> QED
      BY <3>2, <3>3 DEF Nearer
  <2>7. CASE Unregister(w)
    <3>1. phase[t] = "closing" /\ StepsToEnd(t)' = 1
      BY <2>1, <2>7 DEF Unregister, PhaseSteps
    <3>2. Len(plan[t]) \in 1 .. 3 /\ StepsToEnd(t) = 1 + Len(plan[t])
      BY <1>4, <3>1, StepsCounted DEF StepsToEnd, PhaseSteps
    <3> QED
      BY <3>1, <3>2 DEF Nearer
  <2>8. CASE Die(w)
    BY <1>4, <2>8 DEF Die, Nearer
  <2> QED
    BY <2>3, <2>4, <2>5, <2>6, <2>7, <2>8 DEF WorkerStep
<1> QED
  BY <1>3, <1>4

LEMMA AllAdvance ==
    ASSUME Shape, PlansInv, MarksInv, [TrackerNext]_trackerVars, NEW t \in marked
    PROVE  Nearer(t)
<1>1. ASSUME UNCHANGED <<phase, plan>> PROVE Nearer(t)
  BY <1>1 DEF Nearer, Rests
<1>2. ASSUME NEW s \in Producers, StopObserving(s) PROVE Nearer(t)
  <2>1. s = t \/ phase'[t] = phase[t]
    BY <1>2, StepsCounted DEF StopObserving, Advance, Shape
  <2> QED
    BY <1>2, <2>1 DEF StopObserving, Nearer, Rests
<1>3. ASSUME NEW p \in Process \ Workers, NEW new, plan' = [plan EXCEPT ![p] = new], phase' = phase
      PROVE  Nearer(t)
  BY <1>3, Kinds DEF Nearer, Rests, PlansInv
<1>4. ASSUME NEW u \in Users, Call(u) PROVE Nearer(t)
  <2>1. u \in Process \ Workers
    BY DEF Process
  <2> QED
    BY <1>3, <1>4, <2>1 DEF Call, threads
<1>5. CASE Round \/ Alarm
  <2>1. Watchdog \in Process \ Workers
    BY DEF Process
  <2> QED
    BY <1>3, <1>5, <2>1 DEF Round, Alarm, threads
<1>6. CASE Recycle
  BY <1>6 DEF Recycle, Nearer
<1>7. ASSUME NEW c \in Callers \ Workers,
             ManualBegin(c) \/ \E published \in BOOLEAN : ManualEnd(c, published)
      PROVE  Nearer(t)
  BY <1>1, <1>7 DEF ManualBegin, ManualEnd, threads
<1>8. CASE TimePasses \/ UNCHANGED trackerVars
  BY <1>1, <1>8 DEF TimePasses, trackerVars, threads
<1> QED
  BY <1>2, <1>4, <1>5, <1>6, <1>7, <1>8, CallsAdvance, ThreadsAdvance DEF TrackerNext

\* A thread whose stop event is set is a bounded number of its own steps from
\* its end, whatever calls, starts and repairs go on around it.
THEOREM StopsAdvance == TrackerSpec => []StoppedBounded /\ StoppedAdvances
<1>1. ThreadsInv /\ [TrackerNext]_trackerVars => ThreadsInv'
  BY LostStep, PlansStep, MarksStep, StudiesStep DEF ThreadsInv, LostInv
<1>2. ThreadsInv => StoppedBounded
  BY StepsCounted DEF ThreadsInv, LostInv, StoppedBounded
<1>3. ThreadsInv /\ [TrackerNext]_trackerVars => [\A t \in marked : Nearer(t)]_trackerVars
  BY AllAdvance DEF ThreadsInv, LostInv
<1> QED
  BY <1>1, <1>2, <1>3, ThreadsInit, PTL DEF TrackerSpec, StoppedAdvances
=============================================================================
