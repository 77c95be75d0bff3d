----------------------------- MODULE TrackerWorkers -----------------------------
(***************************************************************************)
(* The threads of one tracked session (mobile_api/window_tracker.py) and   *)
(* the calls that start and stop them: a worker that studies through the   *)
(* gate of StudyGate and a producer that observes the screen (the CPU      *)
(* stream).  Both are registered under the session; _ensure_worker starts  *)
(* what is missing, _stop_worker marks what is registered, waits for a     *)
(* bounded time and removes the entry if the thread it marked is gone.     *)
(* The launcher (launch/start_phoenixguard_24_7_tracker.py) watches the    *)
(* session over HTTP and starts or restarts it.                            *)
(*                                                                         *)
(* A call is a plan: the steps it has yet to take, one for each block of   *)
(* code between two waits or releases of the tracker lock.  A join may     *)
(* give up at any time.  The identity of a thread is used again once it is *)
(* dead and no call waits for it.                                          *)
(***************************************************************************)
EXTENDS StudyGate, Sequences

CONSTANTS
    Workers,      \* worker threads; the other callers of the gate are manual
    Producers,    \* threads of the CPU stream
    Users,        \* clients of the control endpoints
    Watchdog,     \* the launcher
    MaxEvents     \* bound: control calls, manual captures, crashes of a worker,
                  \* restarts of the API process and false alarms of the launcher

ASSUME WorkersAssumption ==
    /\ Workers \subseteq Callers /\ None \notin Producers
    /\ Workers \cap Producers = {} /\ Watchdog \notin Users
    /\ (Users \cup {Watchdog}) \cap (Workers \cup Producers) = {}
    /\ IsFiniteSet(Producers)
    /\ MaxEvents \in Nat

Kind    == {"worker", "stream"}
Threads == [k \in Kind |-> IF k = "worker" THEN Workers ELSE Producers]
Thread  == Workers \cup Producers
Phase   == {"looping", "due", "studying", "closing", "unregistered", "dead"}
Steps   == {"markStream", "clearStream", "markWorker", "clearWorker", "off", "start",
            "on", "reconcile", "ensure", "unregister"}
Process == Users \cup {Watchdog} \cup Workers     \* whoever runs a plan

VARIABLES
    tracking,     \* tracking_enabled of the saved session
    shown,        \* it has a capture time: something was published since its start
    phase,        \* where each thread stands
    registered,   \* _workers and _cpu_streams: the thread of each kind
    marked,       \* threads whose stop event is set
    plan,         \* the steps each call has yet to take
    target,       \* the thread each call waits for
    began,        \* callers whose study began while the session tracked
    crossed,      \* history: threads started while a call waited for another one
    events        \* how many calls, crashes, restarts and alarms there were

session == <<tracking, shown>>
threads == <<phase, registered, marked, crossed>>
trackerVars == <<vars, session, threads, plan, target, began, events>>

TrackerInit ==
    /\ Init
    /\ tracking = FALSE /\ shown = FALSE
    /\ phase = [t \in Thread |-> "dead"]
    /\ registered = [k \in Kind |-> None]
    /\ marked = {}
    /\ plan = [p \in Process |-> <<>>]
    /\ target = [p \in Process |-> None]
    /\ began = {}
    /\ crossed = [k \in Kind |-> 0]
    /\ events = 0

Alive(t) == t # None /\ phase[t] # "dead"
AwaitedIn(k) == {target[p] : p \in Process} \cap Threads[k]

-----------------------------------------------------------------------------
(* The plans of the calls *)

StopWorker == <<"markStream", "clearStream", "markWorker", "clearWorker">>
\* stop_session, emergency_stop_session and a claim stop before they save,
\* kill_external_source saves before it stops.
StopCall == StopWorker \o <<"off">>
KillCall == <<"off">> \o StopWorker
\* start_session, by what it finds in the session it loads.
StartCall == <<"start">>
Started == IF tracking THEN <<"reconcile", "ensure">> ELSE <<"on", "ensure">>
\* get_session of a session that tracks, and a manual capture that was refused.
EnsureCall == <<"ensure">>
\* The finally clause of a worker.
Cleanup == <<"markStream", "clearStream", "unregister">>

Event == events < MaxEvents /\ events' = events + 1

Takes(p, step) ==
    /\ plan[p] # <<>> /\ Head(plan[p]) = step
    /\ plan' = [plan EXCEPT ![p] = Tail(@)]

-----------------------------------------------------------------------------
(* The steps of a call *)

\* The stop event of the registered thread is set; that of a dead one says nothing.
Mark(p, k, step) ==
    /\ Takes(p, step)
    /\ target' = [target EXCEPT ![p] = registered[k]]
    /\ marked' = marked \cup {t \in {registered[k]} : Alive(t)}
    /\ UNCHANGED <<vars, session, phase, registered, crossed, began, events>>

\* Mutant: the entry is removed although the thread did not stop in time.
GoneOrLate(t) == t # None

\* The thread that was waited for is gone.
Gone(t) == t # None /\ ~Alive(t)

\* The join has returned or given up.  Whatever is registered by now goes.
Clear(p, k, step) ==
    /\ Takes(p, step)
    /\ target[p] \in Threads[k] \cup {None}
    /\ registered' = [registered EXCEPT ![k] = IF Gone(target[p]) THEN None ELSE @]
    /\ target' = [target EXCEPT ![p] = None]
    /\ UNCHANGED <<vars, session, phase, marked, crossed, began, events>>

Off(p) ==
    /\ Takes(p, "off")
    /\ tracking' = FALSE
    /\ UNCHANGED <<vars, shown, threads, target, began, events>>

StartStep(p) ==
    /\ plan[p] # <<>> /\ Head(plan[p]) = "start"
    /\ plan' = [plan EXCEPT ![p] = Started \o Tail(@)]
    /\ UNCHANGED <<vars, session, threads, target, began, events>>

On(p) ==
    /\ Takes(p, "on")
    /\ tracking' = TRUE
    /\ shown' = FALSE
    /\ UNCHANGED <<vars, threads, target, began, events>>

\* The loaded session, which tracks, is saved if no worker is alive.
Reconcile(p) ==
    /\ Takes(p, "reconcile")
    /\ tracking' = (tracking \/ ~Alive(registered.worker))
    /\ UNCHANGED <<vars, shown, threads, target, began, events>>

Needed(k) == ~Alive(registered[k])

\* What becomes of a kind of thread in _ensure_worker: the entry afterwards.
Entries(k) ==
    IF Needed(k)
    THEN {t \in Threads[k] : ~Alive(t) /\ t \notin AwaitedIn(k)}
    ELSE {registered[k]}

\* _ensure_worker and _ensure_cpu_stream_v3, which may fail and leaves no
\* stream then.  All of it runs under the tracker lock.
Ensure(p) ==
    /\ Takes(p, "ensure")
    /\ \E w \in Entries("worker"), s \in Entries("stream") \cup {None} :
         /\ s = None => Needed("stream")
         /\ registered' = [k \in Kind |-> IF k = "worker" THEN w ELSE s]
         /\ phase' = [t \in Thread |->
                        IF \/ t = w /\ Needed("worker")
                           \/ t = s /\ Needed("stream")
                        THEN "looping" ELSE phase[t]]
         /\ crossed' = [k \in Kind |->
                          IF Needed(k) /\ registered'[k] # None /\ AwaitedIn(k) # {}
                          THEN crossed[k] + 1 ELSE crossed[k]]
    /\ UNCHANGED <<vars, session, marked, target, began, events>>

-----------------------------------------------------------------------------
(* The worker and the producer *)

Advance(w, from, to) ==
    /\ phase[w] = from
    /\ phase' = [phase EXCEPT ![w] = to]

\* A capture is due: the loop saw no stop event and a session that tracks.
Due(w) ==
    /\ Advance(w, "looping", "due")
    /\ w \notin marked /\ tracking
    /\ UNCHANGED <<vars, session, registered, marked, crossed, plan, target, began, events>>

\* _capture_and_analyze up to the gate, by the worker or by a manual capture.
Began(c) ==
    /\ BeginStudy(c)
    /\ began' = IF tracking THEN began \cup {c} ELSE began

Begin(w) ==
    /\ Advance(w, "due", "studying")
    /\ Began(w)
    /\ UNCHANGED <<session, registered, marked, crossed, plan, target, events>>

\* Mutant: the worker studies although the gate refused.
RefusedStudies(w) ==
    /\ Advance(w, "due", "studying")
    /\ ~Given
    /\ UNCHANGED <<vars, session, registered, marked, crossed, plan, target, began, events>>

Refused(w) ==
    /\ Advance(w, "due", "looping")
    /\ ~Given
    /\ UNCHANGED <<vars, session, registered, marked, crossed, plan, target, began, events>>

\* The end of a study.  A publication of one that began while the session
\* tracked turns tracking on.
Ended(c, published) ==
    /\ FinishStudy(c, published)
    /\ began' = began \ {c}
    /\ tracking' = (tracking \/ (published /\ c \in began))
    /\ shown' = (shown \/ published)

Finish(w, published) ==
    /\ Advance(w, "studying", "looping")
    /\ Ended(w, published)
    /\ UNCHANGED <<registered, marked, crossed, plan, target, events>>

\* Mutant: the loop looks at the session only.
LeavesIfOff(w) == ~tracking

Leaves(w) == w \in marked \/ ~tracking

Leave(w) ==
    /\ Advance(w, "looping", "closing")
    /\ Leaves(w)
    /\ plan' = [plan EXCEPT ![w] = Cleanup]
    /\ UNCHANGED <<vars, session, registered, marked, crossed, target, began, events>>

\* An error outside the gate: the handler saves a session that does not track.
Crash(w) ==
    /\ Event
    /\ Advance(w, "looping", "closing")
    /\ tracking' = FALSE
    /\ plan' = [plan EXCEPT ![w] = Cleanup]
    /\ UNCHANGED <<vars, shown, registered, marked, crossed, target, began>>

\* The worker removes whatever worker is registered; its thread ends later.
Unregister(w) ==
    /\ Takes(w, "unregister")
    /\ Advance(w, "closing", "unregistered")
    /\ registered' = [registered EXCEPT !.worker = None]
    /\ UNCHANGED <<vars, session, marked, crossed, target, began, events>>

Die(w) ==
    /\ Advance(w, "unregistered", "dead")
    /\ marked' = marked \ {w}
    /\ UNCHANGED <<vars, session, registered, crossed, plan, target, began, events>>

\* The producer's loop ends; its entry stays.
StopObserving(s) ==
    /\ Advance(s, "looping", "dead")
    /\ Leaves(s)
    /\ marked' = marked \ {s}
    /\ UNCHANGED <<vars, session, registered, crossed, plan, target, began, events>>

WorkerStep(w) ==
    \/ Due(w) \/ Begin(w) \/ Refused(w) \/ Leave(w) \/ Unregister(w) \/ Die(w)
    \/ \E published \in BOOLEAN : Finish(w, published)

-----------------------------------------------------------------------------
(* The users, the launcher and the process *)

Call(u) ==
    /\ Event
    /\ plan[u] = <<>>
    /\ \E new \in {StopCall, KillCall, StartCall, EnsureCall} : plan' = [plan EXCEPT ![u] = new]
    /\ UNCHANGED <<vars, session, threads, target, began>>

\* capture_once: a study of a caller that is no worker.
ManualBegin(c) ==
    /\ Event
    /\ Began(c)
    /\ UNCHANGED <<session, threads, plan, target>>

ManualEnd(c, published) ==
    /\ Ended(c, published)
    /\ UNCHANGED <<threads, plan, target, events>>

Unserved == \A w \in Workers : Alive(w) => w \in marked

\* Mutant: the launcher trusts a session that says it is running.
StaleNever == FALSE

\* A capture that was published grows old because nobody studies; a session
\* that has published nothing since its start counts as warming.
Stale == shown /\ Unserved

\* A round of the launcher: start what does not run, restart what is stale.
Round ==
    /\ plan[Watchdog] = <<>>
    /\ ~tracking \/ Stale
    /\ plan' = [plan EXCEPT ![Watchdog] = IF tracking THEN StopCall \o StartCall ELSE StartCall]
    /\ UNCHANGED <<vars, session, threads, target, began, events>>

\* A study so slow that the launcher finds the session stale under a worker.
Alarm ==
    /\ Event
    /\ plan[Watchdog] = <<>> /\ tracking /\ shown
    /\ plan' = [plan EXCEPT ![Watchdog] = StopCall \o StartCall]
    /\ UNCHANGED <<vars, session, threads, target, began>>

\* The API process ends and is started again by the launcher, which reconciles
\* the session with it.  Only the saved session is left of the old process.
Recycle ==
    /\ Event
    /\ Restart
    /\ phase' = [t \in Thread |-> "dead"]
    /\ registered' = [k \in Kind |-> None]
    /\ marked' = {} /\ began' = {}
    /\ plan' = [p \in Process |-> IF p = Watchdog THEN StartCall ELSE <<>>]
    /\ target' = [p \in Process |-> None]
    /\ UNCHANGED <<session, crossed>>

TimePasses == GrowOld /\ UNCHANGED <<session, threads, plan, target, began, events>>

CallStep(p) ==
    \/ Mark(p, "stream", "markStream") \/ Clear(p, "stream", "clearStream")
    \/ Mark(p, "worker", "markWorker") \/ Clear(p, "worker", "clearWorker")
    \/ Off(p) \/ StartStep(p) \/ On(p) \/ Reconcile(p) \/ Ensure(p)

TrackerNext ==
    \/ \E p \in Process : CallStep(p)
    \/ \E w \in Workers : WorkerStep(w) \/ Crash(w)
    \/ \E s \in Producers : StopObserving(s)
    \/ \E u \in Users : Call(u)
    \/ \E c \in Callers \ Workers : ManualBegin(c) \/ \E published \in BOOLEAN : ManualEnd(c, published)
    \/ Round \/ Alarm \/ Recycle \/ TimePasses

TrackerSpec ==
    /\ TrackerInit /\ [][TrackerNext]_trackerVars
    /\ \A p \in Process : WF_trackerVars(CallStep(p))
    /\ \A w \in Workers : WF_trackerVars(WorkerStep(w))
    /\ \A s \in Producers : WF_trackerVars(StopObserving(s))
    /\ \A c \in Callers \ Workers : WF_trackerVars(\E published \in BOOLEAN : ManualEnd(c, published))
    /\ WF_trackerVars(Round)

-----------------------------------------------------------------------------
(* Properties *)

\* Phases, entries, marks and plans have their types; a worker studies exactly
\* while it holds its place in the gate, only a worker that closes has a plan,
\* and a call that joins a thread has marked one of that kind, if any.
TrackerTypeOK ==
    /\ TypeOK
    /\ tracking \in BOOLEAN /\ shown \in BOOLEAN
    /\ phase \in [Thread -> Phase]
    /\ registered.worker \in Workers \cup {None}
    /\ registered.stream \in Producers \cup {None}
    /\ marked \subseteq {t \in Thread : Alive(t)}
    /\ plan \in [Process -> Seq(Steps)]
    /\ target \in [Process -> Thread \cup {None}]
    /\ began \subseteq studying
    /\ \A w \in Workers :
         /\ phase[w] = "studying" <=> w \in studying
         /\ phase[w] = "closing" <=> plan[w] # <<>>
    /\ \A s \in Producers : phase[s] \in {"looping", "dead"}
    /\ \A p \in Process : plan[p] # <<>> =>
         /\ Head(plan[p]) = "clearStream" => target[p] \in Producers \cup {None}
         /\ Head(plan[p]) = "clearWorker" => target[p] \in Workers \cup {None}

\* Threads that run without being registered: no stop reaches them.
Orphans(k) ==
    {t \in Threads[k] : Alive(t) /\ phase[t] # "unregistered" /\ registered[k] # t}

\* A call that stops a worker or stream may remove the entry of one that was
\* started meanwhile, but there is no other way to lose a thread: as many run
\* unregistered as were started while a call waited for an older one.
OrphansBounded == \A k \in Kind : Cardinality(Orphans(k)) <= crossed[k]

\* A thread whose stop event is set ends, however the join went and whoever
\* has removed or replaced its entry.
StoppedEnds == \A t \in Thread : t \in marked ~> t \notin marked

\* The launcher keeps the session studied: again and again a worker studies,
\* but for a session that was started and has published nothing since.
Served ==
    \/ []<>(\E w \in Workers : phase[w] = "studying")
    \/ <>[](tracking /\ ~shown)
=============================================================================
