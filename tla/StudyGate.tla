------------------------------- MODULE StudyGate -------------------------------
(***************************************************************************)
(* The study gate of one session (mobile_api/window_tracker.py): the       *)
(* tracker's worker, a manual capture, the frame-analysis worker and a     *)
(* preview may all ask for a study of the same session, and the gate lets  *)
(* one through.  A study that runs for more than ninety seconds, or three  *)
(* times the capture timeout, leaves a gate that the next caller takes     *)
(* over; the late study goes on.  The age is read from the wall clock, so  *)
(* a step of the clock ages a gate as well as a slow study does.           *)
(***************************************************************************)
EXTENDS Naturals, FiniteSets

CONSTANTS
    Callers,      \* threads that ask for studies of the session
    MaxStale      \* bound: how often a gate grows too old in a behaviour

ASSUME GateAssumption == IsFiniteSet(Callers) /\ MaxStale \in Nat

None == "none"
ASSUME NoneAssumption == None \notin Callers

VARIABLES
    studying,     \* callers between the taking of the gate and its release
    gate,         \* the session is in _active_studies
    old,          \* its start time is longer ago than the limit
    aged,         \* how often that has happened
    last          \* history: the caller that took the gate last

vars == <<studying, gate, old, aged, last>>

Init ==
    /\ studying = {}
    /\ gate = FALSE
    /\ old = FALSE
    /\ aged = 0
    /\ last = None

-----------------------------------------------------------------------------
(* The gate *)

\* Mutant: every caller is let through.
GivenAlways == TRUE

\* The gate is given to a caller when it is free, or taken over when it is old.
Given == ~gate \/ old

\* _begin_study_gate: a caller that is refused goes away without a change.
BeginStudy(c) ==
    /\ c \notin studying
    /\ Given
    /\ studying' = studying \cup {c}
    /\ gate' = TRUE
    /\ old' = FALSE
    /\ last' = c
    /\ UNCHANGED aged

\* Mutant: only a study that was accepted gives the gate back.
StillTakenIfRefused(accepted) == ~accepted /\ gate

\* Is the session still in _active_studies after a study?  Whatever its
\* outcome, the finally clause discards the session, be the gate the caller's
\* own or that of a caller that has taken it over.
StillTaken(accepted) == FALSE

\* _finish_study_gate.
FinishStudy(c, accepted) ==
    /\ c \in studying
    /\ studying' = studying \ {c}
    /\ gate' = StillTaken(accepted)
    /\ old' = (StillTaken(accepted) /\ old)
    /\ UNCHANGED <<aged, last>>

\* The time passes: the gate is older than the limit.
GrowOld ==
    /\ gate /\ ~old
    /\ aged < MaxStale
    /\ old' = TRUE
    /\ aged' = aged + 1
    /\ UNCHANGED <<studying, gate, last>>

\* The process ends: the gate is kept in memory.
Restart ==
    /\ studying' = {}
    /\ gate' = FALSE
    /\ old' = FALSE
    /\ last' = None
    /\ UNCHANGED aged

Study(c) == BeginStudy(c) \/ \E accepted \in BOOLEAN : FinishStudy(c, accepted)

Next == (\E c \in Callers : Study(c)) \/ GrowOld \/ Restart

Spec == Init /\ [][Next]_vars

-----------------------------------------------------------------------------
(* Properties *)

\* The gate is free or taken by a caller, and its age is that of a taken gate.
TypeOK ==
    /\ studying \subseteq Callers
    /\ gate \in BOOLEAN
    /\ old \in BOOLEAN
    /\ old => gate
    /\ aged \in 0 .. MaxStale
    /\ last \in Callers \cup {None}

\* A taken gate belongs to a study that still runs: no way of taking it over
\* and giving it back leaves a session closed to studies with none running.
GateHasStudy == gate => last \in studying

\* Each recovery of an old gate lets at most one more study run at a time:
\* without one, studies of a session never overlap, and an overlap never grows
\* by the late studies ending and new ones beginning.
OverlapBounded == Cardinality(studying) <= aged + 1
=============================================================================
