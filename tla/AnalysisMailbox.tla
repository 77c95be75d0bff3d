-------------------------- MODULE AnalysisMailbox --------------------------
(***************************************************************************)
(* The single-slot analysis mailbox of one session (mobile_api/            *)
(* frame_ingest.py): request handlers enqueue frames, one daemon worker    *)
(* thread studies them, and thread-pool handlers that move or kill the     *)
(* chart source invalidate whatever is queued.  Every action is one        *)
(* critical section of _ANALYSIS_MAILBOX_LOCK, or one call made outside    *)
(* it.                                                                     *)
(*                                                                         *)
(* A job is named by the order in which it was enqueued, which is also the *)
(* name of the worker thread its enqueue may create.  The lease check and  *)
(* the study belong to the tracker: here they answer anything they can.    *)
(***************************************************************************)
EXTENDS Naturals

CONSTANTS
    MaxFrames,    \* bound: frames enqueued
    Keys,         \* identity keys a frame can carry
    NoKey,        \* the empty identity key ()
    RetryLimit,   \* PHOENIXGUARD_FRAME_STUDY_TRANSIENT_RETRY_LIMIT
    MaxFences,    \* bound: source claims and kills
    MaxCrashes    \* bound: workers that die without their cleanup

ASSUME MailboxAssumption ==
    /\ MaxFrames \in Nat \ {0}
    /\ NoKey \notin Keys
    /\ RetryLimit \in Nat
    /\ MaxFences \in Nat
    /\ MaxCrashes \in Nat

Frame == 1..MaxFrames
None  == 0

VARIABLES
    arrived,      \* jobs enqueued so far
    hpc,          \* where the handler that enqueued a job stands
    jobKey,       \* job.identity_key
    jobEpoch,     \* job.mailbox_epoch
    closed,       \* jobs whose image has been closed
    present,      \* is a mailbox registered for the session?
    epoch, key, active, pending, worker, started,   \* the mailbox's fields
    result,       \* frame behind mailbox.last_result
    completed,    \* mailbox.last_completed_frame_id
    failed,       \* mailbox.last_failed_frame_id
    pc,           \* where each worker thread stands
    job, tries, outcome,                            \* each worker's locals
    fence, fences, crashes, newest                  \* history, see below

handlerVars == <<arrived, hpc, jobKey, jobEpoch>>
slotVars    == <<present, epoch, key, active, pending, worker, started>>
statusVars  == <<result, completed, failed>>
workerVars  == <<pc, job, tries, outcome>>
historyVars == <<fence, fences, crashes, newest>>
vars == <<handlerVars, closed, slotVars, statusVars, workerVars, historyVars>>

HandlerPC == {"new", "start", "mark", "done"}
WorkerPC  == {"none", "loop", "check", "lease", "recheck", "study", "judge",
              "sleep", "finish", "exited", "dead"}
Outcome   == {"completed", "failed", "notAccepted", "discarded"}

Alive(t) == pc[t] \notin {"none", "exited", "dead"}

\* A worker that has taken a job off the slot and not yet settled it.
Working(t) == Alive(t) /\ pc[t] # "loop"

Held == {active, pending} \ {None}

TypeOK ==
    /\ arrived \in 0..MaxFrames
    /\ hpc \in [Frame -> HandlerPC]
    /\ jobKey \in [Frame -> Keys \cup {NoKey}]
    /\ jobEpoch \in [Frame -> Nat]
    /\ closed \in SUBSET Frame
    /\ present \in BOOLEAN /\ started \in BOOLEAN
    /\ epoch \in Nat
    /\ key \in Keys \cup {NoKey}
    /\ active \in 0..MaxFrames /\ pending \in 0..MaxFrames /\ worker \in 0..MaxFrames
    /\ result \in 0..MaxFrames /\ completed \in 0..MaxFrames /\ failed \in 0..MaxFrames
    /\ pc \in [Frame -> WorkerPC]
    /\ job \in [Frame -> 0..MaxFrames]
    /\ tries \in [Frame -> 0..RetryLimit]
    /\ outcome \in [Frame -> Outcome]
    /\ fence \in 0..MaxFrames /\ newest \in 0..MaxFrames
    /\ fences \in Nat /\ crashes \in Nat

Init ==
    /\ arrived = 0
    /\ hpc = [f \in Frame |-> "new"]
    /\ jobKey = [f \in Frame |-> NoKey]
    /\ jobEpoch = [f \in Frame |-> 0]
    /\ closed = {}
    /\ present = FALSE /\ epoch = 0 /\ key = NoKey
    /\ active = None /\ pending = None /\ worker = None /\ started = FALSE
    /\ result = None /\ completed = None /\ failed = None
    /\ pc = [t \in Frame |-> "none"]
    /\ job = [t \in Frame |-> None]
    /\ tries = [t \in Frame |-> 0]
    /\ outcome = [t \in Frame |-> "discarded"]
    /\ fence = 0 /\ fences = 0 /\ crashes = 0 /\ newest = 0

\* The tests a worker repeats under the lock before it spends work on its job.
Current(f) ==
    /\ active = f
    /\ jobEpoch[f] = epoch
    /\ jobKey[f] = key

-----------------------------------------------------------------------------
(* The handler of one uploaded frame. *)

\* Mutant: a thread that has not been started yet looks dead.
WedgedBeforeStart ==
    /\ active # None
    /\ worker = None \/ ~Alive(worker)

\* The slot is wedged: the thread that owned the active job is gone.
Wedged ==
    /\ active # None
    /\ \/ worker = None
       \/ started /\ ~Alive(worker)

\* A frame of another chart supersedes what the slot was about.
Rebinds(k) == key # NoKey /\ key # k

\* Mutant: healing a wedged slot leaves the epoch alone.
EpochUnhealed(k) == epoch + (IF Rebinds(k) THEN 1 ELSE 0)

\* Each reason to disown the jobs in hand raises the epoch once.
EpochAfter(k) == epoch + (IF Rebinds(k) THEN 1 ELSE 0) + (IF Wedged THEN 1 ELSE 0)

\* Mutant: a rebind forgets the image of the job that waited.
DisplacedIfBusy(k) ==
    {IF active # None /\ ~Wedged THEN pending ELSE None,
     IF Wedged THEN active ELSE None} \ {None}

\* Jobs that lose their place to a new frame.
Displaced(k) ==
    {IF Rebinds(k) \/ (active # None /\ ~Wedged) THEN pending ELSE None,
     IF Wedged THEN active ELSE None} \ {None}

\* First critical section of _enqueue_analysis_job.
Enqueue(k) ==
    LET f       == arrived + 1
        waiting == IF Rebinds(k) THEN None ELSE pending
        busy    == active # None /\ ~Wedged
    IN
    /\ arrived < MaxFrames
    /\ arrived' = f
    /\ present' = TRUE
    /\ key' = k
    /\ epoch' = EpochAfter(k)
    /\ jobKey' = [jobKey EXCEPT ![f] = k]
    /\ jobEpoch' = [jobEpoch EXCEPT ![f] = EpochAfter(k)]
    /\ result' = IF Rebinds(k) THEN None ELSE result
    /\ closed' = closed \cup Displaced(k)
    /\ \/ /\ busy
          /\ pending' = f
          /\ hpc' = [hpc EXCEPT ![f] = "done"]
          /\ UNCHANGED <<active, worker, started>>
       \/ /\ ~busy
          /\ active' = f
          /\ pending' = waiting
          /\ worker' = f
          /\ started' = FALSE
          /\ hpc' = [hpc EXCEPT ![f] = "start"]
    /\ UNCHANGED <<completed, failed, workerVars, historyVars>>

\* No mailbox yet and the registry is full of busy ones: 503, image released.
Refuse ==
    LET f == arrived + 1 IN
    /\ arrived < MaxFrames
    /\ ~present
    /\ arrived' = f
    /\ hpc' = [hpc EXCEPT ![f] = "done"]
    /\ closed' = closed \cup {f}
    /\ UNCHANGED <<jobKey, jobEpoch, slotVars, statusVars, workerVars, historyVars>>

\* worker.start() returns: the thread runs, the handler has yet to note it.
StartWorker(f) ==
    /\ hpc[f] = "start"
    /\ hpc' = [hpc EXCEPT ![f] = "mark"]
    /\ pc' = [pc EXCEPT ![f] = "loop"]
    /\ UNCHANGED <<arrived, jobKey, jobEpoch, closed, slotVars, statusVars,
                   job, tries, outcome, historyVars>>

\* worker.start() raises: the slot and whatever waits behind it are given up.
StartFails(f) ==
    /\ hpc[f] = "start"
    /\ hpc' = [hpc EXCEPT ![f] = "done"]
    /\ active' = IF active = f THEN None ELSE active
    /\ worker' = IF worker = f THEN None ELSE worker
    /\ started' = IF worker = f THEN FALSE ELSE started
    /\ pending' = None
    /\ closed' = closed \cup ({f, pending} \ {None})
    /\ epoch' = epoch + 1
    /\ key' = NoKey
    /\ result' = None
    /\ failed' = IF pending # None THEN pending ELSE f
    /\ UNCHANGED <<arrived, jobKey, jobEpoch, present, completed, workerVars,
                   historyVars>>

\* Last critical section: only a worker known to have started can look dead.
MarkStarted(f) ==
    /\ hpc[f] = "mark"
    /\ hpc' = [hpc EXCEPT ![f] = "done"]
    /\ started' = IF worker = f THEN TRUE ELSE started
    /\ UNCHANGED <<arrived, jobKey, jobEpoch, closed, present, epoch, key, active,
                   pending, worker, statusVars, workerVars, historyVars>>

-----------------------------------------------------------------------------
(* Requests that change who owns the chart source, and registry pressure. *)

\* The history variable fence records the last job enqueued before this.
Invalidate ==
    /\ present
    /\ fences < MaxFences
    /\ fences' = fences + 1
    /\ fence' = arrived
    /\ epoch' = epoch + 1
    /\ key' = NoKey
    /\ result' = None /\ completed' = None /\ failed' = None
    /\ pending' = None
    /\ closed' = closed \cup ({pending} \ {None})
    /\ UNCHANGED <<handlerVars, present, active, worker, started, workerVars,
                   crashes, newest>>

\* Another session needs a registry entry and this mailbox is the oldest idle.
Evict ==
    /\ present
    /\ active = None /\ pending = None
    /\ present' = FALSE /\ epoch' = 0 /\ key' = NoKey
    /\ worker' = None /\ started' = FALSE
    /\ result' = None /\ completed' = None /\ failed' = None
    /\ UNCHANGED <<handlerVars, closed, active, pending, workerVars, historyVars>>

-----------------------------------------------------------------------------
(* The worker thread. *)

\* Head of the worker's loop: it reads the active job, or finds none and leaves.
Take(t) ==
    /\ pc[t] = "loop"
    /\ job' = [job EXCEPT ![t] = active]
    /\ pc' = [pc EXCEPT ![t] = IF active = None THEN "exited" ELSE "check"]
    /\ worker' = IF active = None THEN None ELSE worker
    /\ started' = IF active = None THEN FALSE ELSE started
    /\ UNCHANGED <<handlerVars, closed, present, epoch, key, active, pending,
                   statusVars, tries, outcome, historyVars>>

\* The worker goes on to the next stage of its job, or reaches a verdict on it.
Proceed(t, next) ==
    /\ pc' = [pc EXCEPT ![t] = next]
    /\ UNCHANGED <<handlerVars, closed, slotVars, statusVars, job, tries, outcome,
                   historyVars>>

Settle(t, o) ==
    /\ outcome' = [outcome EXCEPT ![t] = o]
    /\ pc' = [pc EXCEPT ![t] = IF o = "notAccepted" THEN "judge" ELSE "finish"]
    /\ UNCHANGED <<handlerVars, closed, slotVars, statusVars, job, tries,
                   historyVars>>

\* _analysis_job_still_current, before and after the lease is validated.
CheckCurrent(t, here, next) ==
    /\ pc[t] = here
    /\ \/ Current(job[t]) /\ Proceed(t, next)
       \/ ~Current(job[t]) /\ Settle(t, "discarded")

\* _analysis_job_lease_outcome: the tracker allows, disowns, or fails to say.
ValidateLease(t, verdict) ==
    /\ pc[t] = "lease"
    /\ \/ verdict = "allowed" /\ Proceed(t, "recheck")
       \/ verdict \in {"discarded", "failed"} /\ Settle(t, verdict)

\* tracker.ingest_external_frame, however it ends.
Study(t, o) ==
    /\ pc[t] = "study"
    /\ Settle(t, o)

\* A rejected study is tried again only while nothing newer waits.
MayRetry(t) == Current(job[t]) /\ pending = None

TriesLeft(t) == tries[t] < RetryLimit

Judge(t) ==
    /\ pc[t] = "judge"
    /\ IF TriesLeft(t) /\ MayRetry(t)
       THEN /\ pc' = [pc EXCEPT ![t] = "sleep"]
            /\ tries' = [tries EXCEPT ![t] = @ + 1]
       ELSE /\ pc' = [pc EXCEPT ![t] = "finish"]
            /\ UNCHANGED tries
    /\ UNCHANGED <<handlerVars, closed, slotVars, statusVars, job, outcome,
                   historyVars>>

Wake(t) ==
    /\ pc[t] = "sleep"
    /\ Proceed(t, IF MayRetry(t) THEN "check" ELSE "finish")

\* Between two jobs, and after the last, a worker's locals mean nothing.
ForgetLocals(t) ==
    /\ job' = [job EXCEPT ![t] = None]
    /\ tries' = [tries EXCEPT ![t] = 0]
    /\ outcome' = [outcome EXCEPT ![t] = "discarded"]

\* An exception escapes the worker's own handler: only its finally clause runs.
Crash(t) ==
    /\ pc[t] \in {"check", "lease", "recheck", "study", "sleep"}
    /\ crashes < MaxCrashes
    /\ crashes' = crashes + 1
    /\ pc' = [pc EXCEPT ![t] = "dead"]
    /\ closed' = closed \cup {job[t]}
    /\ ForgetLocals(t)
    /\ UNCHANGED <<handlerVars, slotVars, statusVars, fence, fences, newest>>

\* Mutant: the epoch of the job is not compared.
RecordsAnyEpoch(t) == outcome[t] # "discarded" /\ jobKey[job[t]] = key

\* Only the outcome of a job of the present owner is recorded.
Records(t) ==
    /\ outcome[t] # "discarded"
    /\ jobEpoch[job[t]] = epoch
    /\ jobKey[job[t]] = key

\* Mutant: the worker leaves although a frame waits.
HandOverNothing(t) ==
    /\ active' = IF active = job[t] THEN None ELSE active
    /\ worker' = None
    /\ started' = FALSE
    /\ pc' = [pc EXCEPT ![t] = "exited"]
    /\ UNCHANGED pending

\* The slot goes to the frame that waits, and to the same thread, or is freed.
HandOver(t) ==
    \/ /\ pending = None
       /\ active' = IF active = job[t] THEN None ELSE active
       /\ worker' = None
       /\ started' = FALSE
       /\ pc' = [pc EXCEPT ![t] = "exited"]
       /\ UNCHANGED pending
    \/ /\ pending # None
       /\ active' = pending
       /\ pending' = None
       /\ pc' = [pc EXCEPT ![t] = "loop"]
       /\ UNCHANGED <<worker, started>>

\* Closing the image and the worker's last critical section for its job.
Finish(t) ==
    LET f == job[t]
        publishes == Records(t) /\ outcome[t] = "completed"
        fails     == Records(t) /\ outcome[t] # "completed"
    IN
    /\ pc[t] = "finish"
    /\ closed' = closed \cup {f}
    /\ result' = IF publishes THEN f ELSE result
    /\ completed' = IF publishes THEN f ELSE completed
    /\ newest' = IF publishes THEN f ELSE newest
    /\ failed' = IF fails THEN f ELSE failed
    /\ HandOver(t)
    /\ ForgetLocals(t)
    /\ UNCHANGED <<handlerVars, present, epoch, key, fence, fences, crashes>>

-----------------------------------------------------------------------------
HandlerStep(f) == StartWorker(f) \/ StartFails(f) \/ MarkStarted(f)

WorkerStep(t) ==
    \/ Take(t)
    \/ CheckCurrent(t, "check", "lease")
    \/ \E v \in {"allowed", "discarded", "failed"} : ValidateLease(t, v)
    \/ CheckCurrent(t, "recheck", "study")
    \/ \E o \in Outcome : Study(t, o)
    \/ Judge(t)
    \/ Wake(t)
    \/ Finish(t)

Next ==
    \/ \E k \in Keys : Enqueue(k)
    \/ Refuse
    \/ \E f \in Frame : HandlerStep(f)
    \/ Invalidate
    \/ Evict
    \/ \E t \in Frame : WorkerStep(t) \/ Crash(t)

Spec == Init /\ [][Next]_vars

\* Handlers and worker threads keep running; the tracker's calls return.
FairSpec ==
    /\ Spec
    /\ \A f \in Frame : WF_vars(HandlerStep(f)) /\ WF_vars(WorkerStep(f))

-----------------------------------------------------------------------------
(* Properties. *)

\* The visible result belongs to the chart the mailbox is bound to now, and
\* to a frame enqueued after the last claim or kill of the source: a slow
\* study of the previous chart can never become the current answer.
ResultOfPresentOwner ==
    /\ result # None => result > fence /\ jobKey[result] = key
    /\ completed # None => completed > fence

\* At most one thread is between taking a job and settling it, and it is the
\* one the mailbox knows: self-healing and restarts never run two studies.
OneStudyAtATime ==
    \A t \in Frame : Working(t) => worker = t /\ active = job[t]

\* An image is released exactly when nothing will read it any more: never
\* under a worker that is still using it, and always once its job is gone.
ImagesReleased ==
    /\ \A t \in Frame : Working(t) => job[t] \notin closed
    /\ \A f \in 1..arrived : f \in closed \/ f \in Held

\* Results only move forward: after the study of a frame was published, no
\* frame enqueued earlier is, whatever restarts, rebinds and heals between.
ResultsMoveForward == [][newest' # newest => newest' > newest]_newest

\* Every enqueued frame leaves the mailbox, however the studies before it
\* end: only behind a worker that died may it wait, until the next enqueue.
EveryFrameLeaves ==
    \A f \in Frame : (f \in Held /\ ~Wedged) ~> (f \notin Held \/ Wedged)

\* The mailbox keeps the promise of LatestFrame.
Board == INSTANCE LatestFrame WITH held <- Held, published <- result
KeepsPromise == Board!Spec

-----------------------------------------------------------------------------
(* The strengthening that makes the safety properties inductive. *)

\* Who owns the slot: the registered worker, or the handler about to start it.
SlotInv ==
    /\ \A f \in Frame : hpc[f] = "new" <=> f > arrived
    /\ \A f \in Frame : hpc[f] \in {"new", "start"} => pc[f] = "none"
    /\ \A f \in Frame : hpc[f] = "start" => worker = f /\ active = f /\ ~started
    /\ \A t \in Frame : Alive(t) => worker = t
    /\ \A t \in Frame : Working(t) => job[t] = active
    /\ (active = None) <=> (worker = None)
    /\ pending # None => active # None /\ pending # active
    /\ active # None => present
    /\ active <= arrived /\ pending <= arrived

\* A job may cross neither a fence nor a newer published job.
EpochInv ==
    /\ fence <= arrived /\ newest <= arrived
    /\ \A f \in Held : jobKey[f] \in Keys /\ jobEpoch[f] <= epoch
    /\ \A f \in Held : jobEpoch[f] = epoch => f > fence /\ f > newest
    /\ (pending # None /\ jobEpoch[pending] = epoch) => pending > active
    /\ result # None => result <= arrived /\ result > fence /\ jobKey[result] = key
    /\ completed # None => completed > fence
    /\ key = NoKey => result = None

\* A held image is open, except that a dying worker closes the one it had.
ImageInv ==
    /\ closed \subseteq 1..arrived
    /\ pending \notin closed
    /\ active \in closed => pc[worker] = "dead"
    /\ \A f \in 1..arrived : f \in closed \/ f \in Held

IInv == TypeOK /\ SlotInv /\ EpochInv /\ ImageInv
=============================================================================
