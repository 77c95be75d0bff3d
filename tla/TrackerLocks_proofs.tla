------------------------ MODULE TrackerLocks_proofs ------------------------
(***************************************************************************)
(* Why the calls of the tracker cannot freeze one another when every study *)
(* is of an uploaded frame, whatever the number of calls and sessions.  A  *)
(* block of more than one lock then begins with the tracker lock, so a     *)
(* call that waits while it holds something holds the tracker lock; only   *)
(* one call does, and a circle would need two.                             *)
(***************************************************************************)
EXTENDS TrackerLocks, TLAPS

Blocks == Seq(Locks)

\* A block of more than one lock begins with the tracker lock, and takes one
\* other lock at most.
TrackerFirst ==
    {b \in Blocks : /\ Len(b) > 1 => b[1] = Tracker
                    /\ Len(b) > 2 => Len(b) = 3 /\ b[3] = Tracker}

\* A lock has at most one holder.
Exclusive ==
    \A p, q \in Calls : p # q => Holds(p) \cap Holds(q) = {}

IInv == TypeOK /\ Exclusive

-----------------------------------------------------------------------------
(* The shape of the plans *)

\* Stopping a worker only takes the tracker lock, and under it that of the stream.
LEMMA StopShape ==
    ASSUME NEW s \in Sessions
    PROVE  StopWorker(s) \subseteq Seq(TrackerFirst)
<1>1. <<Tracker>> \in TrackerFirst /\ <<Tracker, Stream(s)>> \in TrackerFirst
  <2>1. Tracker \in Locks /\ Stream(s) \in Locks
    BY DEF Locks
  <2>2. <<Tracker>> \in Blocks /\ <<Tracker, Stream(s)>> \in Blocks
    BY <2>1 DEF Blocks
  <2>3. /\ Len(<<Tracker>>) = 1
        /\ <<Tracker, Stream(s)>>[1] = Tracker /\ Len(<<Tracker, Stream(s)>>) = 2
    OBVIOUS
  <2> QED
    BY <2>2, <2>3 DEF TrackerFirst
<1>2. StopStream(s) \subseteq Seq(TrackerFirst)
  BY <1>1 DEF StopStream
<1>3. << <<Tracker>> >> \in Seq(TrackerFirst)
      /\ << <<Tracker>>, <<Tracker>> >> \in Seq(TrackerFirst)
  BY <1>1
<1>4. ASSUME NEW f \in Seq(TrackerFirst), NEW g \in Seq(TrackerFirst)
      PROVE  f \o g \in Seq(TrackerFirst)
  OBVIOUS
<1> QED
  BY <1>2, <1>3, <1>4 DEF StopWorker

\* The plans of control operations, kills and leased studies.
LEMMA FeedShape ==
    ASSUME NEW s \in Sessions
    PROVE  Control(s) \cup Kill(s) \cup LeasedStudy(s) \cup Producer(s)
             \subseteq Seq(TrackerFirst)
<1>1. Tracker \in Locks /\ Commit(s) \in Locks /\ Stream(s) \in Locks
  BY DEF Locks
<1>2. /\ <<Tracker, Commit(s)>> \in TrackerFirst
      /\ <<Tracker>> \in TrackerFirst
      /\ <<Stream(s)>> \in TrackerFirst
      /\ <<Tracker, Commit(s), Tracker>> \in TrackerFirst
  <2>1. /\ <<Tracker, Commit(s)>> \in Blocks
        /\ <<Tracker>> \in Blocks
        /\ <<Stream(s)>> \in Blocks
        /\ <<Tracker, Commit(s), Tracker>> \in Blocks
    BY <1>1 DEF Blocks
  <2>2. /\ <<Tracker, Commit(s)>>[1] = Tracker /\ Len(<<Tracker, Commit(s)>>) = 2
        /\ Len(<<Tracker>>) = 1
        /\ Len(<<Stream(s)>>) = 1
        /\ <<Tracker, Commit(s), Tracker>>[1] = Tracker
        /\ <<Tracker, Commit(s), Tracker>>[3] = Tracker
        /\ Len(<<Tracker, Commit(s), Tracker>>) = 3
    OBVIOUS
  <2> QED
    BY <2>1, <2>2 DEF TrackerFirst
<1>3. Save(s) \in Seq(TrackerFirst)
  BY <1>2 DEF Save
<1>4. ASSUME NEW f \in Seq(TrackerFirst), NEW g \in Seq(TrackerFirst)
      PROVE  f \o g \in Seq(TrackerFirst)
  OBVIOUS
<1>5. Control(s) \subseteq Seq(TrackerFirst) /\ Kill(s) \subseteq Seq(TrackerFirst)
  BY <1>3, <1>4, StopShape DEF Control, Kill
<1>6. LeasedStudy(s) \subseteq Seq(TrackerFirst)
  BY <1>2 DEF LeasedStudy
<1>7. Producer(s) \subseteq Seq(TrackerFirst)
  BY <1>2 DEF Producer
<1> QED
  BY <1>5, <1>6, <1>7

\* The plans of studies of the tracker's own captures.
LocalBlocks(s) ==
    {<<Commit(s)>>, <<Tracker>>, <<Commit(s), Tracker>>,
     <<Stream(s), Commit(s)>>, <<Stream(s), Commit(s), Tracker>>}

LEMMA LocalShape ==
    ASSUME NEW s \in Sessions
    PROVE  /\ LocalBlocks(s) \subseteq Blocks
           /\ TimedStudy(s) \cup StreamStudy(s) \subseteq Seq(LocalBlocks(s))
<1>1. Tracker \in Locks /\ Commit(s) \in Locks /\ Stream(s) \in Locks
  BY DEF Locks
<1>2. /\ <<Commit(s)>> \in Blocks
      /\ <<Tracker>> \in Blocks
      /\ <<Commit(s), Tracker>> \in Blocks
      /\ <<Stream(s), Commit(s)>> \in Blocks
      /\ <<Stream(s), Commit(s), Tracker>> \in Blocks
  BY <1>1 DEF Blocks
<1>3. LocalBlocks(s) \subseteq Blocks
  BY <1>2 DEF LocalBlocks
<1>4. /\ <<Commit(s)>> \in LocalBlocks(s) /\ <<Tracker>> \in LocalBlocks(s)
      /\ <<Commit(s), Tracker>> \in LocalBlocks(s)
      /\ <<Stream(s), Commit(s)>> \in LocalBlocks(s)
      /\ <<Stream(s), Commit(s), Tracker>> \in LocalBlocks(s)
  BY DEF LocalBlocks
<1> QED
  BY <1>3, <1>4 DEF TimedStudy, StreamStudy

\* Studies of pixels the tracker captured itself.
Locals == TimedStudies \cup StreamStudies

\* Whatever its kind, a call takes locks of the tracker block by block.
LEMMA PlanShape ==
    ASSUME NEW p \in Calls
    PROVE  /\ PlansOf(p) \subseteq Seq(Blocks)
           /\ FeedsOnly => PlansOf(p) \subseteq Seq(TrackerFirst)
           /\ \A f \in PlansOf(p) :
                  \/ f \in Seq(TrackerFirst)
                  \/ p \in Locals /\ \E s \in Sessions : f \in Seq(LocalBlocks(s))
<1>1. Seq(TrackerFirst) \subseteq Seq(Blocks)
      /\ \A s \in Sessions : Seq(LocalBlocks(s)) \subseteq Seq(Blocks)
  BY LocalShape DEF TrackerFirst
<1>2. \A f \in PlansOf(p) :
          \/ f \in Seq(TrackerFirst)
          \/ p \in Locals /\ \E s \in Sessions : f \in Seq(LocalBlocks(s))
  BY FeedShape, LocalShape DEF PlansOf, Locals
<1>4. PlansOf(p) \subseteq Seq(Blocks)
  BY <1>1, <1>2
<1>3. FeedsOnly => PlansOf(p) \subseteq Seq(TrackerFirst)
  BY FeedShape DEF PlansOf, FeedsOnly
<1> QED
  BY <1>2, <1>3, <1>4

-----------------------------------------------------------------------------
(* The inductive invariant *)

\* In every state of it, the block of a call that has not returned is a
\* sequence of locks.
LEMMA HereIsBlock ==
    ASSUME TypeOK, NEW p \in Calls, ~Returned(p)
    PROVE  /\ plan[p] \in Seq(Blocks)
           /\ block[p] \in 1 .. Len(plan[p])
           /\ Here(p) \in Blocks
           /\ Len(Here(p)) \in Nat
           /\ FeedsOnly => Here(p) \in TrackerFirst
<1>1. plan[p] \in Seq(Blocks) /\ (FeedsOnly => plan[p] \in Seq(TrackerFirst))
  BY PlanShape DEF TypeOK
<1>2. block[p] \in 1 .. Len(plan[p])
  BY <1>1 DEF TypeOK, Returned
<1> QED
  BY <1>1, <1>2 DEF Here, Blocks

\* At the start nobody holds anything.
LEMMA InitInvariant == Init => IInv
<1> SUFFICES ASSUME Init PROVE IInv
  OBVIOUS
<1>1. \A p \in Calls : Holds(p) = {}
  BY DEF Init, Holds
<1>2. \A p \in Calls : Len(plan[p]) \in Nat
  BY PlanShape DEF Init
<1>3. \A p \in Calls : Returned(p) => block[p] = Len(plan[p]) + 1 /\ taken[p] = 0
  BY <1>2 DEF Init, Returned
<1>4. \A p \in Calls : ~Returned(p) => taken[p] <= Len(Here(p))
  <2> SUFFICES ASSUME NEW p \in Calls, ~Returned(p)
               PROVE  taken[p] <= Len(Here(p))
    OBVIOUS
  <2>1. plan[p] \in Seq(Blocks) /\ block[p] = 1 /\ taken[p] = 0
    BY PlanShape DEF Init
  <2>2. Here(p) \in Seq(Locks)
    BY <2>1 DEF Here, Blocks, Returned
  <2> QED
    BY <2>1, <2>2
<1>5. TypeOK
  BY <1>1, <1>3, <1>4 DEF TypeOK, Init
<1> QED
  BY <1>1, <1>5 DEF IInv, Exclusive

\* A call that takes a lock adds it to what it holds; nobody else held it.
LEMMA TakeInvariant ==
    ASSUME IInv, NEW p \in Calls, Take(p)
    PROVE  IInv'
<1> USE DEF IInv
<1>1. ~Returned(p) /\ taken[p] < Len(Here(p)) /\ Free(p, Wanted(p))
  BY DEF Take, Waiting
<1>2. /\ Here(p) \in Blocks /\ Len(Here(p)) \in Nat
  BY <1>1, HereIsBlock
<1>3. /\ taken \in [Calls -> Nat] /\ block \in [Calls -> Nat \ {0}]
      /\ taken' = [taken EXCEPT ![p] = @ + 1]
      /\ plan' = plan /\ block' = block
  BY DEF Take, TypeOK
<1>4. \A q \in Calls : /\ Returned(q)' <=> Returned(q)
                       /\ Here(q)' = Here(q)
  BY <1>3 DEF Returned, Here
<1>5. taken' \in [Calls -> Nat] /\ taken'[p] = taken[p] + 1
      /\ \A q \in Calls \ {p} : taken'[q] = taken[q]
  BY <1>3
<1>6. \A q \in Calls \ {p} : Holds(q)' = Holds(q)
  BY <1>4, <1>5 DEF Holds
<1>7. Holds(p)' = Holds(p) \cup {Wanted(p)}
  <2>1. Holds(p) = {Here(p)[i] : i \in 1 .. taken[p]}
    BY <1>1 DEF Holds
  <2>2. Holds(p)' = {Here(p)[i] : i \in 1 .. taken[p] + 1}
    BY <1>1, <1>4, <1>5 DEF Holds
  <2>3. taken[p] \in Nat
    BY <1>3
  <2>4. 1 .. taken[p] + 1 = (1 .. taken[p]) \cup {taken[p] + 1}
    BY <2>3
  <2>5. {Here(p)[i] : i \in 1 .. taken[p] + 1}
          = {Here(p)[i] : i \in 1 .. taken[p]} \cup {Here(p)[taken[p] + 1]}
    BY <2>4
  <2> QED
    BY <2>1, <2>2, <2>5 DEF Wanted
<1>8. Wanted(p) \in Locks
  BY <1>1, <1>2, <1>3 DEF Wanted, Blocks
<1>9. TypeOK'
  <2>1. \A q \in Calls : plan'[q] \in PlansOf(q)
    BY <1>3 DEF TypeOK
  <2>2. \A q \in Calls : Returned(q)' => block'[q] = Len(plan'[q]) + 1 /\ taken'[q] = 0
    BY <1>1, <1>3, <1>4, <1>5 DEF TypeOK
  <2>3. \A q \in Calls : ~Returned(q)' => taken'[q] <= Len(Here(q)')
    BY <1>1, <1>2, <1>3, <1>4, <1>5 DEF TypeOK
  <2>4. \A q \in Calls : Holds(q)' \subseteq Locks
    BY <1>6, <1>7, <1>8 DEF TypeOK
  <2> QED
    BY <1>3, <1>5, <2>1, <2>2, <2>3, <2>4 DEF TypeOK
<1>10. Exclusive'
  <2>1. \A q \in Calls \ {p} : Wanted(p) \notin Holds(q)
    BY <1>1 DEF Free
  <2> QED
    BY <1>6, <1>7, <2>1 DEF Exclusive
<1> QED
  BY <1>9, <1>10

\* A call that leaves a block holds nothing after it.
LEMMA LeaveInvariant ==
    ASSUME IInv, NEW p \in Calls, Leave(p)
    PROVE  IInv'
<1> USE DEF IInv
<1>1. ~Returned(p)
  BY DEF Leave
<1>2. /\ plan[p] \in Seq(Blocks) /\ block[p] \in 1 .. Len(plan[p])
  BY <1>1, HereIsBlock
<1>3. /\ taken \in [Calls -> Nat] /\ block \in [Calls -> Nat \ {0}]
      /\ block' = [block EXCEPT ![p] = @ + 1]
      /\ taken' = [taken EXCEPT ![p] = 0]
      /\ plan' = plan
  BY DEF Leave, TypeOK
<1>4. \A q \in Calls \ {p} : /\ Returned(q)' <=> Returned(q)
                             /\ Here(q)' = Here(q)
                             /\ taken'[q] = taken[q] /\ block'[q] = block[q]
                             /\ plan'[q] = plan[q]
  BY <1>3 DEF Returned, Here
<1>5. \A q \in Calls \ {p} : Holds(q)' = Holds(q)
  BY <1>4 DEF Holds
<1>6. taken'[p] = 0 /\ block'[p] = block[p] + 1 /\ plan'[p] = plan[p]
      /\ taken' \in [Calls -> Nat] /\ block' \in [Calls -> Nat \ {0}]
  BY <1>3
<1>7. Holds(p)' = {}
  BY <1>6 DEF Holds
<1>8. TypeOK'
  <2>1. \A q \in Calls : plan'[q] \in PlansOf(q)
    BY <1>3 DEF TypeOK
  <2>2. Returned(p)' => block'[p] = Len(plan'[p]) + 1 /\ taken'[p] = 0
    BY <1>2, <1>6 DEF Returned
  <2>3. ~Returned(p)' => taken'[p] <= Len(Here(p)')
    <3>1. ~Returned(p)' => Here(p)' \in Seq(Locks)
      BY <1>2, <1>6 DEF Returned, Here, Blocks
    <3> QED
      BY <3>1, <1>6
  <2>4. \A q \in Calls \ {p} :
            /\ Returned(q)' => block'[q] = Len(plan'[q]) + 1 /\ taken'[q] = 0
            /\ ~Returned(q)' => taken'[q] <= Len(Here(q)')
    BY <1>4 DEF TypeOK
  <2>5. \A q \in Calls : Holds(q)' \subseteq Locks
    BY <1>5, <1>7 DEF TypeOK
  <2> QED
    BY <1>6, <2>1, <2>2, <2>3, <2>4, <2>5 DEF TypeOK
<1>9. Exclusive'
  BY <1>5, <1>7 DEF Exclusive
<1> QED
  BY <1>8, <1>9

\* The inductive invariant: the types, and that a lock has one holder.
THEOREM Invariance == Spec => []IInv
<1>1. Init => IInv
  BY InitInvariant
<1>2. IInv /\ [Next]_vars => IInv'
  <2> SUFFICES ASSUME IInv, [Next]_vars PROVE IInv'
    OBVIOUS
  <2>1. CASE Next
    BY <2>1, TakeInvariant, LeaveInvariant DEF Next
  <2>2. CASE UNCHANGED vars
    <3>1. plan' = plan /\ block' = block /\ taken' = taken
      BY <2>2 DEF vars
    <3>2. \A p \in Calls : /\ Returned(p)' <=> Returned(p)
                           /\ Here(p)' = Here(p)
                           /\ Holds(p)' = Holds(p)
      BY <3>1 DEF Returned, Here, Holds
    <3>3. TypeOK'
      BY <3>1, <3>2 DEF IInv, TypeOK
    <3>4. Exclusive'
      BY <3>2 DEF IInv, Exclusive
    <3> QED
      BY <3>3, <3>4 DEF IInv
  <2> QED
    BY <2>1, <2>2
<1> QED
  BY <1>1, <1>2, PTL DEF Spec

\* Every call stands in a block of its plan and holds locks of the tracker
\* only; once returned it holds none.
THEOREM TypeCorrect == Spec => []TypeOK
<1>1. IInv => TypeOK
  BY DEF IInv
<1> QED
  BY <1>1, Invariance, PTL

-----------------------------------------------------------------------------
(* Absence of circular waits *)

\* A call that waits while it holds a lock holds the tracker lock.
LEMMA WaiterHoldsTracker ==
    ASSUME TypeOK, FeedsOnly, NEW p \in Calls, Waiting(p), Holds(p) # {}
    PROVE  Tracker \in Holds(p)
<1>1. ~Returned(p) /\ taken[p] < Len(Here(p))
  BY DEF Waiting
<1>2. Here(p) \in TrackerFirst /\ Len(Here(p)) \in Nat /\ taken[p] \in Nat
  BY <1>1, HereIsBlock DEF TypeOK
<1>3. Holds(p) = {Here(p)[i] : i \in 1 .. taken[p]}
  BY <1>1 DEF Holds
<1>4. taken[p] >= 1
  BY <1>2, <1>3
<1>5. Here(p)[1] = Tracker
  BY <1>1, <1>2, <1>4 DEF TrackerFirst
<1> QED
  BY <1>2, <1>3, <1>4, <1>5

\* When every study is of an uploaded frame, no set of calls of the tracker
\* waits in a circle, however many calls and sessions there are.
THEOREM NoDeadlock ==
    ASSUME FeedsOnly
    PROVE  Spec => []NoCircularWait
<1>1. IInv => NoCircularWait
  <2> SUFFICES ASSUME IInv,
                      NEW D \in SUBSET Calls, D # {},
                      \A p \in D : \E q \in D : WaitsFor(p, q)
               PROVE  FALSE
    BY DEF NoCircularWait
  <2>1. PICK p \in D : TRUE
    OBVIOUS
  <2>2. PICK q \in D : WaitsFor(p, q)
    BY <2>1
  <2>3. PICK r \in D : WaitsFor(q, r)
    BY <2>2
  <2>4. PICK t \in D : WaitsFor(r, t)
    BY <2>3
  <2>5. Tracker \in Holds(q)
    BY <2>2, <2>3, WaiterHoldsTracker DEF WaitsFor, IInv
  <2>6. Tracker \in Holds(r)
    BY <2>3, <2>4, WaiterHoldsTracker DEF WaitsFor, IInv
  <2>7. q # r
    BY <2>3 DEF WaitsFor
  <2> QED
    BY <2>5, <2>6, <2>7 DEF IInv, Exclusive
<1> QED
  BY <1>1, Invariance, PTL

\* The one order of locks that is not the tracker's: a local study prunes old
\* artifacts, for which it takes the tracker lock, while it holds the commit lock.
PrunesInside(p) ==
    /\ p \in Locals /\ Waiting(p) /\ Wanted(p) = Tracker
    /\ \E s \in Sessions : Commit(s) \in Holds(p)

\* Whatever studies there are, whoever waits in a circle does so because of such
\* a prune (_prune_session_artifacts): every other order is safe.
CirclesPrune ==
    \A D \in SUBSET Calls :
        (D # {} /\ \A p \in D : \E q \in D : WaitsFor(p, q))
            => \E p \in D : PrunesInside(p)

\* The locks of different sorts are different, and those of the sessions too.
LEMMA SortsApart ==
    ASSUME NEW s, NEW t
    PROVE  /\ Tracker # Commit(s) /\ Tracker # Stream(s) /\ Commit(s) # Stream(t)
           /\ Commit(s) = Commit(t) => s = t
  BY DEF Tracker, Commit, Stream

\* A call in a block of the first kind that waits for another one and holds a
\* lock holds the tracker lock and nothing else.
LEMMA LedWaiter ==
    ASSUME IInv, NEW p \in Calls, NEW q \in Calls, WaitsFor(p, q),
           Here(p) \in TrackerFirst, Holds(p) # {}
    PROVE  Holds(p) = {Tracker} /\ Wanted(p) # Tracker
<1>1. ~Returned(p) /\ taken[p] < Len(Here(p)) /\ p # q /\ Wanted(p) \in Holds(q)
  BY DEF WaitsFor, Waiting
<1>2. Len(Here(p)) \in Nat /\ taken[p] \in Nat
  BY <1>1, HereIsBlock DEF IInv, TypeOK
<1>3. Holds(p) = {Here(p)[i] : i \in 1 .. taken[p]}
  BY <1>1 DEF Holds
<1>4. taken[p] >= 1
  BY <1>2, <1>3
<1>5. Here(p)[1] = Tracker
  BY <1>1, <1>2, <1>4 DEF TrackerFirst
<1>6. Tracker \in Holds(p)
  BY <1>2, <1>3, <1>4, <1>5
<1>7. Wanted(p) # Tracker
  BY <1>1, <1>6 DEF IInv, Exclusive
<1>8. taken[p] # 2
  BY <1>1, <1>2, <1>7 DEF TrackerFirst, Wanted
<1>9. taken[p] = 1
  <2>1. Len(Here(p)) > 2 => Len(Here(p)) = 3
    BY DEF TrackerFirst
  <2>2. \A t, n \in Nat : (t < n /\ t >= 1 /\ t # 2 /\ (n > 2 => n = 3)) => t = 1
    OBVIOUS
  <2>3. taken[p] < Len(Here(p))
    BY <1>1
  <2> QED
    BY <1>2, <1>4, <1>8, <2>1, <2>2, <2>3
<1> QED
  BY <1>3, <1>5, <1>7, <1>9

\* Where a call stands that waits for another one and holds something.
LEMMA HoldingWaiter ==
    ASSUME IInv, NEW p \in Calls, NEW q \in Calls, WaitsFor(p, q), Holds(p) # {}
    PROVE  \/ Holds(p) = {Tracker} /\ Wanted(p) # Tracker
           \/ PrunesInside(p)
           \/ \E s \in Sessions : Holds(p) = {Stream(s)} /\ Wanted(p) = Commit(s)
<1>1. ~Returned(p) /\ taken[p] < Len(Here(p))
  BY DEF WaitsFor, Waiting
<1>2. /\ Len(Here(p)) \in Nat /\ taken[p] \in Nat
      /\ plan[p] \in PlansOf(p) /\ block[p] \in 1 .. Len(plan[p])
  BY <1>1, HereIsBlock DEF IInv, TypeOK
<1>3. Holds(p) = {Here(p)[i] : i \in 1 .. taken[p]}
  BY <1>1 DEF Holds
<1>4. taken[p] >= 1
  BY <1>2, <1>3
<1>5. \/ plan[p] \in Seq(TrackerFirst)
      \/ p \in Locals /\ \E s \in Sessions : plan[p] \in Seq(LocalBlocks(s))
  BY <1>2, PlanShape
<1>6. CASE plan[p] \in Seq(TrackerFirst)
  <2>1. Here(p) \in TrackerFirst
    BY <1>2, <1>6 DEF Here
  <2> QED
    BY <2>1, LedWaiter
<1>7. CASE p \in Locals /\ \E s \in Sessions : plan[p] \in Seq(LocalBlocks(s))
  <2>1. PICK s \in Sessions : plan[p] \in Seq(LocalBlocks(s))
    BY <1>7
  <2>2. Here(p) \in LocalBlocks(s)
    BY <1>2, <2>1 DEF Here
  <2>3. \/ Here(p) = <<Commit(s), Tracker>>
        \/ Here(p) = <<Stream(s), Commit(s)>>
        \/ Here(p) = <<Stream(s), Commit(s), Tracker>>
    BY <1>1, <1>2, <1>4, <2>2 DEF LocalBlocks
  <2>4. CASE Here(p) = <<Commit(s), Tracker>>
    <3>1. taken[p] = 1 /\ Here(p)[1] = Commit(s) /\ Here(p)[2] = Tracker
      BY <1>1, <1>2, <1>4, <2>4
    <3>2. Commit(s) \in Holds(p) /\ Wanted(p) = Tracker
      BY <1>3, <3>1 DEF Wanted
    <3> QED
      BY <1>7, <3>2 DEF PrunesInside, WaitsFor
  <2>5. CASE Here(p) = <<Stream(s), Commit(s)>>
    <3>1. taken[p] = 1 /\ Here(p)[1] = Stream(s) /\ Here(p)[2] = Commit(s)
      BY <1>1, <1>2, <1>4, <2>5
    <3>2. Holds(p) = {Stream(s)} /\ Wanted(p) = Commit(s)
      BY <1>3, <3>1 DEF Wanted
    <3> QED
      BY <3>2
  <2>6. CASE Here(p) = <<Stream(s), Commit(s), Tracker>>
    <3>1. /\ taken[p] = 1 \/ taken[p] = 2
          /\ Here(p)[1] = Stream(s) /\ Here(p)[2] = Commit(s) /\ Here(p)[3] = Tracker
      BY <1>1, <1>2, <1>4, <2>6
    <3>2. CASE taken[p] = 1
      <4>1. Holds(p) = {Stream(s)} /\ Wanted(p) = Commit(s)
        BY <1>3, <3>1, <3>2 DEF Wanted
      <4> QED
        BY <4>1
    <3>3. CASE taken[p] = 2
      <4>1. Commit(s) \in Holds(p) /\ Wanted(p) = Tracker
        BY <1>3, <3>1, <3>3 DEF Wanted
      <4> QED
        BY <1>7, <4>1 DEF PrunesInside, WaitsFor
    <3> QED
      BY <3>1, <3>2, <3>3
  <2> QED
    BY <2>3, <2>4, <2>5, <2>6
<1> QED
  BY <1>5, <1>6, <1>7

\* Whatever the calls and sessions are, local studies included, a circle of
\* waits contains a local study that prunes inside its commit.
THEOREM OnlyPrunesDeadlock == Spec => []CirclesPrune
<1>1. IInv => CirclesPrune
  <2> SUFFICES ASSUME IInv,
                      NEW D \in SUBSET Calls, D # {},
                      \A p \in D : \E q \in D : WaitsFor(p, q),
                      ~ \E p \in D : PrunesInside(p)
               PROVE  FALSE
    BY DEF CirclesPrune
  <2>1. \A p, q \in D : WaitsFor(p, q) => Wanted(p) \in Holds(q)
    BY DEF WaitsFor
  <2>2. \A q \in D : Holds(q) # {} =>
            \/ Holds(q) = {Tracker} /\ Wanted(q) # Tracker
            \/ \E s \in Sessions : Holds(q) = {Stream(s)} /\ Wanted(q) = Commit(s)
    BY HoldingWaiter
  <2>3. \A q \in D : \A s \in Sessions : Commit(s) \notin Holds(q)
    BY <2>2, SortsApart
  <2>4. \A q \in D : Holds(q) # {} => Holds(q) = {Tracker} /\ Wanted(q) # Tracker
    BY <2>1, <2>2, <2>3
  <2>5. PICK p \in D : TRUE
    OBVIOUS
  <2>6. PICK q \in D : WaitsFor(p, q)
    BY <2>5
  <2>7. PICK r \in D : WaitsFor(q, r)
    BY <2>6
  <2>8. Wanted(q) = Tracker
    BY <2>1, <2>4, <2>6, <2>7
  <2> QED
    BY <2>1, <2>4, <2>6, <2>8
<1> QED
  BY <1>1, Invariance, PTL

\* What Take(p) and Leave(p) ask for: a lock that nobody else holds, or the end
\* of the block.
CanGo(p) ==
    \/ Waiting(p) /\ Free(p, Wanted(p))
    \/ ~Returned(p) /\ taken[p] = Len(Here(p))

\* Unless all have returned, some call can take its next step, or one of those
\* on their way prunes in its commit.
SomeCallGoesOn ==
    \/ \A p \in Calls : Returned(p)
    \/ \E p \in Calls : CanGo(p)
    \/ \E p \in Calls : PrunesInside(p)

\* The tracker never comes to rest with a call on its way, whatever is studied,
\* unless a local study prunes inside its commit at that moment.
THEOREM NeverStuck == Spec => []SomeCallGoesOn
<1>1. IInv /\ CirclesPrune => SomeCallGoesOn
  <2> SUFFICES ASSUME IInv, CirclesPrune,
                      NEW c \in Calls, ~Returned(c),
                      \A p \in Calls : ~CanGo(p)
               PROVE  \E p \in Calls : PrunesInside(p)
    BY DEF SomeCallGoesOn
  <2> DEFINE D == {p \in Calls : ~Returned(p)}
  <2>1. ASSUME NEW p \in D PROVE \E q \in D : WaitsFor(p, q)
    <3>0. taken[p] <= Len(Here(p)) /\ taken[p] \in Nat /\ Len(Here(p)) \in Nat
      BY HereIsBlock DEF IInv, TypeOK
    <3>1. Waiting(p) /\ ~Free(p, Wanted(p))
      BY <3>0 DEF CanGo, Waiting
    <3>2. PICK q \in Calls \ {p} : Wanted(p) \in Holds(q)
      BY <3>1 DEF Free
    <3>3. ~Returned(q)
      BY <3>2 DEF Holds
    <3> QED
      BY <3>1, <3>2, <3>3 DEF WaitsFor
  <2>2. D # {} /\ D \in SUBSET Calls
    OBVIOUS
  <2> HIDE DEF D
  <2>3. \E p \in D : PrunesInside(p)
    BY <2>1, <2>2 DEF CirclesPrune
  <2> QED
    BY <2>2, <2>3
<1>2. Spec => []CirclesPrune
  BY OnlyPrunesDeadlock
<1> QED
  BY <1>1, <1>2, Invariance, PTL
=============================================================================
