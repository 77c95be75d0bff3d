---------------------------- MODULE TrackerLocks ----------------------------
(***************************************************************************)
(* The order in which the calls of the window tracker take its locks       *)
(* (mobile_api/window_tracker.py): self._lock of the whole process, and    *)
(* for each session the commit lock of its file and the lock of its CPU    *)
(* stream control.  A call is a sequence of blocks; inside a block its     *)
(* locks are taken one after another and all are released at its end.      *)
(* Releasing never waits, so the steps between are left out; so are locks  *)
(* under which no other lock is taken (lease cache, registry guard).  All  *)
(* three are modelled re-entrant, as the two that are re-entered are.      *)
(***************************************************************************)
EXTENDS Sequences, Naturals

CONSTANTS
    Sessions,
    Controls,         \* claims, heartbeats, starts, stops, focus changes
    Kills,            \* kills of an external source
    LeasedStudies,    \* studies of a frame uploaded under a lease
    TimedStudies,     \* studies of a capture made by the tracker itself
    StreamStudies,    \* studies of a keyframe of the CPU stream
    Producers         \* capture loops of the CPU streams

Calls == Controls \cup Kills \cup LeasedStudies \cup TimedStudies
             \cup StreamStudies \cup Producers

\* No study works on pixels the tracker captured itself.
FeedsOnly == TimedStudies = {} /\ StreamStudies = {}

Tracker   == [kind |-> "tracker"]
Commit(s) == [kind |-> "commit", of |-> s]
Stream(s) == [kind |-> "stream", of |-> s]

VARIABLES
    plan,     \* the blocks of each call, as its branches will have it
    block,    \* the block each call is in
    taken     \* the locks of that block it has taken so far

vars == <<plan, block, taken>>

-----------------------------------------------------------------------------
(* What each call takes *)

\* Stopping a stream: look it up, wait for its thread, then drop its control
\* or, if the thread is stuck, mark it so under its own lock.
StopStream(s) ==
    {<< <<Tracker>> >>, << <<Tracker>>, <<Tracker>> >>,
     << <<Tracker>>, <<Tracker, Stream(s)>> >>}

\* Then look the worker up and, after it has ended or not, drop it.
StopWorker(s) ==
    {stop \o << <<Tracker>> >> : stop \in StopStream(s)} \cup
    {stop \o << <<Tracker>>, <<Tracker>> >> : stop \in StopStream(s)}

\* Mutant: the commit lock is taken first.
SaveCommitFirst(s) == << <<Commit(s), Tracker>> >>

\* Save the session while the change is prepared under the tracker lock.
Save(s) == << <<Tracker, Commit(s)>> >>

\* Some control operations only save (a conditional claim, a heartbeat, new
\* control settings), the others stop the worker of the session first.
Control(s) == {Save(s)} \cup {stop \o Save(s) : stop \in StopWorker(s)}

\* A kill revokes the lease first and stops the worker after.
Kill(s) == {Save(s) \o stop : stop \in StopWorker(s)}

\* Mutant: the lease is proved after the commit lock is taken.
LeasedCommitFirst(s) ==
    {<< <<Commit(s), Tracker>> >>, << <<Commit(s), Tracker, Tracker>> >>}

\* The publication of a study proves its source under the tracker lock or the
\* lock of its stream, commits, and prunes old artifacts under the tracker
\* lock, unless the study was superseded.
LeasedStudy(s) ==
    {<< <<Tracker, Commit(s)>> >>, << <<Tracker, Commit(s), Tracker>> >>}
TimedStudy(s) ==
    {<< <<Commit(s)>> >>, << <<Commit(s), Tracker>> >>}
StreamStudy(s) ==
    {<< <<Tracker>>, <<Stream(s), Commit(s)>> >>,
     << <<Tracker>>, <<Stream(s), Commit(s), Tracker>> >>}

\* One round of a capture loop: observe, publish its health, hand over a
\* keyframe, wake the worker.
Producer(s) ==
    {<< <<Stream(s)>>, <<Tracker>>, <<Stream(s)>>, <<Stream(s)>>, <<Tracker>> >>}

PlansOf(p) ==
    UNION {(IF p \in Controls      THEN Control(s)     ELSE {}) \cup
           (IF p \in Kills         THEN Kill(s)        ELSE {}) \cup
           (IF p \in LeasedStudies THEN LeasedStudy(s) ELSE {}) \cup
           (IF p \in TimedStudies  THEN TimedStudy(s)  ELSE {}) \cup
           (IF p \in StreamStudies THEN StreamStudy(s) ELSE {}) \cup
           (IF p \in Producers     THEN Producer(s)    ELSE {}) : s \in Sessions}

-----------------------------------------------------------------------------
Returned(p) == block[p] > Len(plan[p])
Here(p) == plan[p][block[p]]
Holds(p) == IF Returned(p) THEN {} ELSE {Here(p)[i] : i \in 1 .. taken[p]}

\* p stands before the acquisition of a lock.
Waiting(p) == ~Returned(p) /\ taken[p] < Len(Here(p))
Wanted(p)  == Here(p)[taken[p] + 1]

Free(p, k) == \A q \in Calls \ {p} : k \notin Holds(q)

Init ==
    /\ plan \in [Calls -> UNION {PlansOf(p) : p \in Calls}]
    /\ \A p \in Calls : plan[p] \in PlansOf(p)
    /\ block = [p \in Calls |-> 1]
    /\ taken = [p \in Calls |-> 0]

Take(p) ==
    /\ Waiting(p)
    /\ Free(p, Wanted(p))
    /\ taken' = [taken EXCEPT ![p] = @ + 1]
    /\ UNCHANGED <<plan, block>>

Leave(p) ==
    /\ ~Returned(p)
    /\ taken[p] = Len(Here(p))
    /\ block' = [block EXCEPT ![p] = @ + 1]
    /\ taken' = [taken EXCEPT ![p] = 0]
    /\ UNCHANGED plan

Next == \E p \in Calls : Take(p) \/ Leave(p)

Spec == Init /\ [][Next]_vars
FairSpec == Spec /\ \A p \in Calls : WF_vars(Take(p)) /\ WF_vars(Leave(p))

-----------------------------------------------------------------------------
(* Properties *)

Locks == {Tracker} \cup {Commit(s) : s \in Sessions} \cup {Stream(s) : s \in Sessions}

\* Every call stands in one of its blocks, or has returned and holds nothing,
\* and the locks it stands among are locks of the tracker.
TypeOK ==
    /\ \A p \in Calls : plan[p] \in PlansOf(p)
    /\ block \in [Calls -> Nat \ {0}]
    /\ taken \in [Calls -> Nat]
    /\ \A p \in Calls : Returned(p) => block[p] = Len(plan[p]) + 1 /\ taken[p] = 0
    /\ \A p \in Calls : ~Returned(p) => taken[p] <= Len(Here(p))
    /\ \A p \in Calls : Holds(p) \subseteq Locks

\* p stands before a lock that q holds.
WaitsFor(p, q) == p # q /\ Waiting(p) /\ Wanted(p) \in Holds(q)

\* No group of calls waits in a circle: a capture study, source control, the
\* operator state and the dashboard cannot freeze one another.
NoCircularWait ==
    ~ \E D \in SUBSET Calls :
          /\ D # {}
          /\ \A p \in D : \E q \in D : WaitsFor(p, q)

\* A completed study that holds the commit lock of a session never waits for
\* the tracker lock while a control operation holding it waits for the commit
\* lock (docs/architecture, CPU streaming, section 5).
NoOppositeWait ==
    \A p, q \in Calls : \A s \in Sessions :
        ~ /\ Commit(s) \in Holds(p) /\ WaitsFor(p, q) /\ Wanted(p) = Tracker
          /\ WaitsFor(q, p) /\ Wanted(q) = Commit(s)

\* Every call returns, whatever the others do: /v3, source control and the
\* studies keep answering.
EveryCallReturns == \A p \in Calls : <>Returned(p)
=============================================================================
