----------------------- MODULE AnalysisMailbox_proofs -----------------------
(***************************************************************************)
(* The safety of the analysis mailbox for every number of frames, keys,    *)
(* retries, fences and crashes.  One lemma per action shows that it        *)
(* preserves IInv; the theorems follow from IInv, and the last one shows   *)
(* that the mailbox implements LatestFrame.                                *)
(***************************************************************************)
EXTENDS AnalysisMailbox, TLAPS

USE DEF Frame, None, Held, Alive, Working, handlerVars, slotVars, statusVars,
        workerVars, historyVars, EpochAfter, Displaced, TriesLeft, HandOver

-----------------------------------------------------------------------------
(* The initial states satisfy the invariant. *)

\* The empty mailbox has the declared types.
LEMMA InitTypeOK == Init => TypeOK
<1> USE MailboxAssumption DEF MailboxAssumption
<1> SUFFICES ASSUME Init PROVE TypeOK OBVIOUS
<1>1. arrived \in 0..MaxFrames BY DEF Init
<1>2. hpc \in [Frame -> HandlerPC] BY DEF Init, HandlerPC
<1>3. jobKey \in [Frame -> Keys \cup {NoKey}] BY DEF Init
<1>4. jobEpoch \in [Frame -> Nat] BY DEF Init
<1>5. closed \in SUBSET Frame BY DEF Init
<1>6. present \in BOOLEAN /\ started \in BOOLEAN BY DEF Init
<1>7.  epoch \in Nat /\ key \in Keys \cup {NoKey} BY DEF Init
<1>8. active \in 0..MaxFrames /\ pending \in 0..MaxFrames /\ worker \in 0..MaxFrames
    /\ result \in 0..MaxFrames /\ completed \in 0..MaxFrames /\ failed \in 0..MaxFrames BY DEF Init
<1>9. pc \in [Frame -> WorkerPC] BY DEF Init, WorkerPC
<1>10. job \in [Frame -> 0..MaxFrames] BY DEF Init
<1>11. tries \in [Frame -> 0..RetryLimit] BY DEF Init
<1>12. outcome \in [Frame -> Outcome] BY DEF Init, Outcome
<1>13. fence \in 0..MaxFrames /\ newest \in 0..MaxFrames /\ fences \in Nat /\ crashes \in Nat BY DEF Init
<1> QED BY <1>1, <1>2, <1>3, <1>4, <1>5, <1>6, <1>7, <1>8, <1>9, <1>10, <1>11, <1>12, <1>13 DEF TypeOK

\* The empty mailbox satisfies every part of the invariant.
LEMMA InitInv == Init => IInv
<1> USE MailboxAssumption DEF MailboxAssumption
<1>1. Init => SlotInv BY DEF Init, SlotInv
<1>2. Init => EpochInv BY DEF Init, EpochInv
<1>3. Init => ImageInv BY DEF Init, ImageInv
<1>4. QED BY InitTypeOK, <1>1, <1>2, <1>3 DEF IInv

-----------------------------------------------------------------------------
(* The handlers' actions, the fences and the registry. *)

\* An arriving frame: refused as late, put in the slot, or put there after a rebind
\* or a heal that raised the epoch and closed what it displaced.
LEMMA EnqueueInv == ASSUME IInv, NEW k \in Keys, Enqueue(k) PROVE IInv'
<1> USE MailboxAssumption DEF MailboxAssumption
<1> DEFINE f == arrived + 1
           busy == active # None /\ ~Wedged
           bumps == epoch' > epoch
<1>1. f \in Frame /\ hpc[f] = "new" /\ pc[f] = "none" /\ arrived' = f /\ arrived \in Nat
  BY DEF IInv, TypeOK, SlotInv, Enqueue
<1>2. /\ present' = TRUE /\ key' = k
      /\ epoch' \in Nat /\ epoch' >= epoch
      /\ jobKey' = [jobKey EXCEPT ![f] = k]
      /\ jobEpoch' = [jobEpoch EXCEPT ![f] = epoch']
      /\ UNCHANGED <<completed, failed, workerVars, historyVars>>
  BY DEF Enqueue, IInv, TypeOK
<1>3. Rebinds(k) \/ Wedged => bumps BY DEF Enqueue, IInv, TypeOK
<1>4. Wedged => active # None /\ \A u \in Frame : ~Alive(u)
  BY DEF IInv, SlotInv, Wedged
<1>5. active = None => worker = None /\ pending = None /\ \A u \in Frame : ~Alive(u)
  BY DEF IInv, SlotInv
<1>9. result' = (IF Rebinds(k) THEN None ELSE result) BY DEF Enqueue
<1>10. /\ jobKey' \in [Frame -> Keys \cup {NoKey}] /\ jobEpoch' \in [Frame -> Nat]
       /\ jobKey'[f] = k /\ jobEpoch'[f] = epoch'
       /\ \A g \in 1..arrived : g # f /\ jobKey'[g] = jobKey[g] /\ jobEpoch'[g] = jobEpoch[g]
  BY <1>1, <1>2 DEF IInv, TypeOK
<1>11. /\ active \in 0..arrived /\ pending \in 0..arrived
       /\ fence \in 0..arrived /\ newest \in 0..arrived /\ epoch \in Nat
  BY DEF IInv, TypeOK, SlotInv, EpochInv
<1>12. result # None /\ ~Rebinds(k) =>
         result \in 1..arrived /\ result > fence /\ jobKey[result] = k
  BY <1>1 DEF IInv, TypeOK, EpochInv, Rebinds
<1>13. result' # None => result' <= arrived' /\ result' > fence' /\ jobKey'[result'] = key'
  <2>1. SUFFICES ASSUME result' # None
                 PROVE  result' <= arrived' /\ result' > fence' /\ jobKey'[result'] = key'
    OBVIOUS
  <2>2. result' = result /\ result # None /\ ~Rebinds(k) BY <1>9, <2>1
  <2>3. result \in 1..arrived /\ result > fence /\ jobKey[result] = k BY <1>12, <2>2
  <2>4. jobKey'[result] = k BY <1>10, <2>3
  <2>5. fence' = fence /\ key' = k BY <1>2
  <2>6. QED BY <1>1, <2>2, <2>3, <2>4, <2>5
<1>14. NoKey # k OBVIOUS
<1>15. \A g \in 1..arrived, e \in Held : g = e /\ jobEpoch'[g] = epoch' =>
         ~bumps /\ jobEpoch[g] = epoch /\ g > fence /\ g > newest
  BY <1>2, <1>10, <1>11 DEF IInv, TypeOK, EpochInv
<1>16. jobKey'[f] \in Keys /\ jobEpoch'[f] <= epoch'
  <2>1. epoch' <= epoch' BY <1>2
  <2>2. QED BY <1>10, <2>1
<1>6. CASE busy
  <2>1. pending' = f /\ hpc' = [hpc EXCEPT ![f] = "done"]
        /\ UNCHANGED <<active, worker, started>>
    BY <1>6 DEF Enqueue
  <2>2. closed' = closed \cup ({pending} \ {None}) BY <1>6 DEF Enqueue
  <2>3. TypeOK'
    <3>1. closed' \in SUBSET Frame BY <2>2 DEF IInv, TypeOK
    <3>2. hpc' \in [Frame -> HandlerPC] BY <1>1, <2>1 DEF IInv, TypeOK, HandlerPC
    <3>3. present' \in BOOLEAN /\ started' \in BOOLEAN BY <1>2, <2>1 DEF IInv, TypeOK
    <3>4. result' \in 0..MaxFrames BY <1>9 DEF IInv, TypeOK
    <3>5. pending' \in 0..MaxFrames /\ arrived' \in 0..MaxFrames BY <1>1, <2>1
    <3>6. QED BY <1>2, <1>10, <2>1, <3>1, <3>2, <3>3, <3>4, <3>5 DEF IInv, TypeOK
  <2>4. SlotInv'
    BY <1>1, <1>2, <1>6, <1>11, <2>1 DEF IInv, TypeOK, SlotInv
  <2>5. EpochInv'
    <3>1. Held' = {active, f} /\ active \in 1..arrived /\ active \in Held
      BY <1>6, <1>11, <1>1, <2>1
    <3>2. jobKey[active] \in Keys /\ jobEpoch[active] <= epoch BY <3>1 DEF IInv, EpochInv
    <3>3. \A g \in Held' : jobKey'[g] \in Keys /\ jobEpoch'[g] <= epoch'
      <4>1. jobKey'[active] = jobKey[active] /\ jobEpoch'[active] = jobEpoch[active]
        BY <1>10, <3>1
      <4>2. jobEpoch[active] \in Nat BY <3>1, <1>1, <1>11 DEF IInv, TypeOK
      <4>3. jobEpoch[active] <= epoch' BY <1>2, <1>11, <3>2, <4>2
      <4>4. \A g \in Held' : g = active \/ g = f BY <3>1
      <4>5. QED BY <1>16, <3>2, <4>1, <4>3, <4>4
    <3>4. \A g \in Held' : jobEpoch'[g] = epoch' => g > fence' /\ g > newest'
      BY <1>1, <1>2, <1>11, <1>15, <3>1
    <3>5. pending' > active' BY <1>1, <1>11, <2>1
    <3>6. QED BY <1>1, <1>2, <1>11, <1>13, <1>14, <3>3, <3>4, <3>5 DEF IInv, EpochInv
  <2>6. ImageInv'
    <3>1. f \notin closed /\ closed \subseteq 1..arrived /\ f # pending
      BY <1>1, <1>11 DEF IInv, ImageInv
    <3>2. closed' \subseteq 1..arrived' BY <1>1, <1>11, <2>2, <3>1
    <3>3. pending' \notin closed' BY <2>1, <2>2, <3>1
    <3>4. active' \in closed' => pc'[worker'] = "dead"
      BY <1>2, <1>6, <2>1, <2>2 DEF IInv, SlotInv, ImageInv
    <3>5. \A g \in 1..arrived' : g \in closed' \/ g \in Held'
      BY <1>1, <1>11, <2>1, <2>2 DEF IInv, ImageInv
    <3>6. QED BY <3>2, <3>3, <3>4, <3>5 DEF ImageInv
  <2>7. QED BY <2>3, <2>4, <2>5, <2>6 DEF IInv
<1>7. CASE ~busy
  <2>1. /\ active' = f /\ worker' = f /\ started' = FALSE
        /\ hpc' = [hpc EXCEPT ![f] = "start"]
        /\ pending' = IF Rebinds(k) THEN None ELSE pending
    BY <1>7 DEF Enqueue
  <2>2. closed' = closed \cup ({IF Rebinds(k) THEN pending ELSE None,
                                IF Wedged THEN active ELSE None} \ {None})
    BY <1>7 DEF Enqueue
  <2>a. \A u \in Frame : ~Alive(u) BY <1>4, <1>5, <1>7
  <2>b. active # None => Wedged /\ bumps BY <1>3, <1>7
  <2>3. TypeOK'
    <3>1. closed' \in SUBSET Frame BY <2>2 DEF IInv, TypeOK
    <3>2. hpc' \in [Frame -> HandlerPC] BY <1>1, <2>1 DEF IInv, TypeOK, HandlerPC
    <3>3. present' \in BOOLEAN /\ started' \in BOOLEAN BY <1>2, <2>1
    <3>4. result' \in 0..MaxFrames BY <1>9 DEF IInv, TypeOK
    <3>5. pending' \in 0..MaxFrames /\ arrived' \in 0..MaxFrames
          /\ active' \in 0..MaxFrames /\ worker' \in 0..MaxFrames
      BY <1>1, <2>1 DEF IInv, TypeOK
    <3>6. QED BY <1>2, <1>10, <3>1, <3>2, <3>3, <3>4, <3>5 DEF IInv, TypeOK
  <2>4. SlotInv'
    <3>1. \A g \in Frame : hpc[g] # "start"
      BY <1>1, <1>7 DEF IInv, TypeOK, SlotInv, Wedged
    <3>2. pending' # None => pending' # active' BY <1>1, <1>11, <2>1
    <3>3. QED BY <1>1, <1>2, <1>11, <2>1, <2>a, <3>1, <3>2 DEF IInv, TypeOK, SlotInv
  <2>5. EpochInv'
    <3>1. \A g \in Held' : g = f \/ (g = pending /\ g # None) BY <2>1
    <3>2. pending # None => bumps BY <1>5, <2>b
    <3>3. pending # None => pending \in 1..arrived /\ jobKey[pending] \in Keys
                           /\ jobEpoch[pending] <= epoch /\ jobEpoch[pending] \in Nat
      BY <1>1, <1>11 DEF IInv, TypeOK, EpochInv
    <3>4. \A g \in Held' : jobKey'[g] \in Keys /\ jobEpoch'[g] <= epoch'
      <4>1. CASE pending # None
        <5>1. jobKey'[pending] = jobKey[pending] /\ jobEpoch'[pending] = jobEpoch[pending]
          BY <1>10, <3>3, <4>1
        <5>2. jobEpoch[pending] <= epoch' BY <1>2, <1>11, <3>3, <4>1
        <5>3. QED BY <1>16, <3>1, <3>3, <4>1, <5>1, <5>2
      <4>2. CASE pending = None BY <1>16, <3>1, <4>2
      <4>3. QED BY <4>1, <4>2
    <3>5. \A g \in Held' : jobEpoch'[g] = epoch' => g = f
      <4>1. CASE pending # None
        <5>1. jobEpoch'[pending] = jobEpoch[pending] BY <1>10, <3>3, <4>1
        <5>2. jobEpoch[pending] < epoch' BY <1>2, <1>11, <3>2, <3>3, <4>1
        <5>3. jobEpoch'[pending] # epoch' BY <1>2, <3>3, <4>1, <5>1, <5>2
        <5>4. QED BY <3>1, <5>3
      <4>2. CASE pending = None BY <3>1, <4>2
      <4>3. QED BY <4>1, <4>2
    <3>6. f > fence' /\ f > newest' /\ fence' <= arrived' /\ newest' <= arrived'
      BY <1>1, <1>2, <1>11
    <3>7. pending' # None => pending' # f /\ pending' \in Held' BY <1>1, <1>11, <2>1
    <3>8. QED BY <1>2, <1>13, <1>14, <3>4, <3>5, <3>6, <3>7 DEF IInv, EpochInv
  <2>6. ImageInv'
    <3>1. f \notin closed /\ closed \subseteq 1..arrived /\ f # pending /\ f # active
      BY <1>1, <1>11 DEF IInv, ImageInv
    <3>2. closed' \subseteq 1..arrived' BY <1>1, <1>11, <2>2, <3>1
    <3>3. pending' \notin closed'
      <4>1. pending # None => pending # active BY DEF IInv, SlotInv
      <4>2. pending \notin closed /\ None \notin closed BY <3>1 DEF IInv, ImageInv
      <4>3. QED BY <2>1, <2>2, <4>1, <4>2
    <3>4. active' \notin closed' BY <1>1, <2>1, <2>2, <3>1
    <3>5. \A g \in 1..arrived' : g \in closed' \/ g \in Held'
      BY <1>1, <1>11, <2>1, <2>2, <2>b DEF IInv, ImageInv
    <3>6. QED BY <3>2, <3>3, <3>4, <3>5 DEF ImageInv
  <2>7. QED BY <2>3, <2>4, <2>5, <2>6 DEF IInv
<1>8. QED BY <1>6, <1>7

\* A frame refused for lack of room closes its image and changes nothing else.
LEMMA RefuseInv == ASSUME IInv, Refuse PROVE IInv'
<1> USE MailboxAssumption DEF MailboxAssumption
<1>1. TypeOK' BY DEF IInv, TypeOK, SlotInv, Refuse, HandlerPC, WorkerPC
<1>2. SlotInv' BY DEF IInv, TypeOK, SlotInv, Refuse, HandlerPC, WorkerPC
<1>3. EpochInv' BY DEF IInv, TypeOK, SlotInv, EpochInv, Refuse
<1>4. ImageInv' BY DEF IInv, TypeOK, SlotInv, ImageInv, Refuse
<1>5. QED BY <1>1, <1>2, <1>3, <1>4 DEF IInv

\* The thread a handler starts is the worker of the slot.
LEMMA StartWorkerInv == ASSUME IInv, NEW f \in Frame, StartWorker(f) PROVE IInv'
<1> USE MailboxAssumption DEF MailboxAssumption
<1>1. TypeOK' BY DEF IInv, TypeOK, SlotInv, StartWorker, HandlerPC, WorkerPC
<1>2. SlotInv' BY DEF IInv, TypeOK, SlotInv, StartWorker, HandlerPC, WorkerPC
<1>3. EpochInv' BY DEF IInv, TypeOK, SlotInv, EpochInv, StartWorker
<1>4. ImageInv' BY DEF IInv, TypeOK, SlotInv, ImageInv, StartWorker
<1>5. QED BY <1>1, <1>2, <1>3, <1>4 DEF IInv

\* When the thread cannot start the frame is released and the slot is free again.
LEMMA StartFailsInv == ASSUME IInv, NEW f \in Frame, StartFails(f) PROVE IInv'
<1> USE MailboxAssumption DEF MailboxAssumption
<1>a. hpc[f] = "start" /\ worker = f /\ active = f /\ ~started
  BY DEF IInv, SlotInv, StartFails
<1>1. TypeOK'
  <2>1. hpc' \in [Frame -> HandlerPC] BY DEF IInv, TypeOK, StartFails, HandlerPC
  <2>2. closed' \in SUBSET Frame BY DEF IInv, TypeOK, StartFails
  <2>3. active' = None /\ worker' = None /\ started' = FALSE /\ pending' = None
    BY <1>a DEF StartFails
  <2>4. epoch' \in Nat /\ failed' \in 0..MaxFrames BY DEF IInv, TypeOK, StartFails
  <2>6. /\ present' \in BOOLEAN /\ started' \in BOOLEAN /\ key' \in Keys \cup {NoKey}
    BY DEF IInv, TypeOK, StartFails
  <2>7. result' \in 0..MaxFrames BY DEF StartFails
  <2>5. QED BY <2>1, <2>2, <2>3, <2>4, <2>6, <2>7 DEF IInv, TypeOK, StartFails
<1>2. SlotInv' BY DEF IInv, TypeOK, SlotInv, StartFails, HandlerPC, WorkerPC
<1>3. EpochInv' BY DEF IInv, TypeOK, SlotInv, EpochInv, StartFails
<1>4. ImageInv' BY DEF IInv, TypeOK, SlotInv, ImageInv, StartFails
<1>5. QED BY <1>1, <1>2, <1>3, <1>4 DEF IInv

\* A handler that goes on after its thread has started disturbs no worker.
LEMMA MarkStartedInv == ASSUME IInv, NEW f \in Frame, MarkStarted(f) PROVE IInv'
<1> USE MailboxAssumption DEF MailboxAssumption
<1>1. TypeOK' BY DEF IInv, TypeOK, SlotInv, MarkStarted, HandlerPC, WorkerPC
<1>2. SlotInv' BY DEF IInv, TypeOK, SlotInv, MarkStarted, HandlerPC, WorkerPC
<1>3. EpochInv' BY DEF IInv, TypeOK, SlotInv, EpochInv, MarkStarted
<1>4. ImageInv' BY DEF IInv, TypeOK, SlotInv, ImageInv, MarkStarted
<1>5. QED BY <1>1, <1>2, <1>3, <1>4 DEF IInv

\* A claim or kill raises the epoch and takes what waits, not what is at work.
LEMMA InvalidateInv == ASSUME IInv, Invalidate PROVE IInv'
<1> USE MailboxAssumption DEF MailboxAssumption
<1>1. TypeOK' BY DEF IInv, TypeOK, SlotInv, Invalidate, HandlerPC, WorkerPC
<1>2. SlotInv' BY DEF IInv, TypeOK, SlotInv, Invalidate, HandlerPC, WorkerPC
<1>3. EpochInv' BY DEF IInv, TypeOK, SlotInv, EpochInv, Invalidate
<1>4. ImageInv' BY DEF IInv, TypeOK, SlotInv, ImageInv, Invalidate
<1>5. QED BY <1>1, <1>2, <1>3, <1>4 DEF IInv

\* Only a mailbox without worker, frame or starting handler is evicted.
LEMMA EvictInv == ASSUME IInv, Evict PROVE IInv'
<1> USE MailboxAssumption DEF MailboxAssumption
<1>1. TypeOK' BY DEF IInv, TypeOK, SlotInv, Evict, HandlerPC, WorkerPC
<1>2. SlotInv' BY DEF IInv, TypeOK, SlotInv, Evict, HandlerPC, WorkerPC
<1>3. EpochInv' BY DEF IInv, TypeOK, SlotInv, EpochInv, Evict
<1>4. ImageInv' BY DEF IInv, TypeOK, SlotInv, ImageInv, Evict
<1>5. QED BY <1>1, <1>2, <1>3, <1>4 DEF IInv

-----------------------------------------------------------------------------
(* The worker's actions: Proceed and Settle first, which most of them use. *)

\* A worker that goes on to its next stage keeps its frame.
LEMMA ProceedInv ==
    ASSUME IInv, NEW t \in Frame, Working(t),
           NEW next \in {"check", "lease", "recheck", "study", "judge", "sleep", "finish"},
           Proceed(t, next)
    PROVE  IInv'
<1> USE MailboxAssumption DEF MailboxAssumption
<1>1. TypeOK' BY DEF IInv, TypeOK, Proceed, WorkerPC
<1>2. SlotInv' BY DEF IInv, TypeOK, SlotInv, Proceed, WorkerPC
<1>3. EpochInv' BY DEF IInv, EpochInv, Proceed
<1>4. ImageInv' BY DEF IInv, TypeOK, SlotInv, ImageInv, Proceed
<1>5. QED BY <1>1, <1>2, <1>3, <1>4 DEF IInv

\* A worker that settles an outcome keeps its frame until it hands over.
LEMMA SettleInv ==
    ASSUME IInv, NEW t \in Frame, Working(t), NEW o \in Outcome, Settle(t, o)
    PROVE  IInv'
<1> USE MailboxAssumption DEF MailboxAssumption
<1>1. TypeOK' BY DEF IInv, TypeOK, Settle, WorkerPC
<1>2. SlotInv' BY DEF IInv, TypeOK, SlotInv, Settle, WorkerPC
<1>3. EpochInv' BY DEF IInv, EpochInv, Settle
<1>4. ImageInv' BY DEF IInv, TypeOK, SlotInv, ImageInv, Settle
<1>5. QED BY <1>1, <1>2, <1>3, <1>4 DEF IInv

\* A worker takes the frame of the slot it was started for.
LEMMA TakeInv == ASSUME IInv, NEW t \in Frame, Take(t) PROVE IInv'
<1> USE MailboxAssumption DEF MailboxAssumption
<1>1. TypeOK' BY DEF IInv, TypeOK, SlotInv, Take, HandlerPC, WorkerPC
<1>2. SlotInv' BY DEF IInv, TypeOK, SlotInv, Take, HandlerPC, WorkerPC
<1>3. EpochInv' BY DEF IInv, TypeOK, SlotInv, EpochInv, Take
<1>4. ImageInv' BY DEF IInv, TypeOK, SlotInv, ImageInv, Take
<1>5. QED BY <1>1, <1>2, <1>3, <1>4 DEF IInv

\* The check of the epoch reads the mailbox and changes only the stage.
LEMMA CheckCurrentInv ==
    ASSUME IInv, NEW t \in Frame, NEW here \in {"check", "recheck"},
           NEW next \in {"lease", "study"}, CheckCurrent(t, here, next)
    PROVE  IInv'
<1>1. Working(t) BY DEF CheckCurrent
<1>2. "discarded" \in Outcome BY DEF Outcome
<1>3. CASE Proceed(t, next) BY <1>1, <1>3, ProceedInv
<1>4. CASE Settle(t, "discarded") BY <1>1, <1>2, <1>4, SettleInv
<1>5. QED BY <1>3, <1>4 DEF CheckCurrent

\* The check of the lease changes only the stage of its worker.
LEMMA ValidateLeaseInv ==
    ASSUME IInv, NEW t \in Frame, NEW v \in {"allowed", "discarded", "failed"},
           ValidateLease(t, v)
    PROVE  IInv'
<1>1. Working(t) BY DEF ValidateLease
<1>3. CASE Proceed(t, "recheck") BY <1>1, <1>3, ProceedInv
<1>4. CASE Settle(t, v) /\ v # "allowed" 
  <2>1. v \in Outcome BY <1>4 DEF Outcome
  <2>2. QED BY <1>1, <2>1, <1>4, SettleInv
<1>5. QED BY <1>3, <1>4 DEF ValidateLease

\* A study changes only the stage of its worker.
LEMMA StudyInv == ASSUME IInv, NEW t \in Frame, NEW o \in Outcome, Study(t, o) PROVE IInv'
<1>1. Working(t) /\ Settle(t, o) BY DEF Study
<1>2. QED BY <1>1, SettleInv

\* The judgement of an outcome may grant one more try, within the limit.
LEMMA JudgeInv == ASSUME IInv, NEW t \in Frame, Judge(t) PROVE IInv'
<1> USE MailboxAssumption DEF MailboxAssumption
<1> DEFINE retry == tries[t] < RetryLimit /\ MayRetry(t)
<1>a. Working(t) BY DEF Judge
<1>1. CASE retry
  <2>0. tries' = [tries EXCEPT ![t] = @ + 1] BY <1>1 DEF Judge
  <2>a. tries \in [Frame -> 0..RetryLimit] BY DEF IInv, TypeOK
  <2>b. tries[t] < RetryLimit BY <1>1
  <2>c. tries[t] + 1 \in 0..RetryLimit BY <2>a, <2>b
  <2>1. tries' \in [Frame -> 0..RetryLimit] BY <2>0, <2>a, <2>c
  <2>2. pc' = [pc EXCEPT ![t] = "sleep"] BY <1>1 DEF Judge
  <2>3. TypeOK' BY <2>1, <2>2 DEF IInv, TypeOK, Judge, WorkerPC
  <2>4. SlotInv' BY <1>a, <2>2 DEF IInv, TypeOK, SlotInv, Judge
  <2>5. EpochInv' BY DEF IInv, EpochInv, Judge
  <2>6. ImageInv' BY <1>a, <2>2 DEF IInv, TypeOK, SlotInv, ImageInv, Judge
  <2>7. QED BY <2>3, <2>4, <2>5, <2>6 DEF IInv
<1>2. CASE ~retry
  <2>1. Proceed(t, "finish") BY <1>2 DEF Judge, Proceed
  <2>2. QED BY <1>a, <2>1, ProceedInv
<1>3. QED BY <1>1, <1>2

\* A worker that waited for its retry starts over with the same frame.
LEMMA WakeInv == ASSUME IInv, NEW t \in Frame, Wake(t) PROVE IInv'
<1>1. Working(t) BY DEF Wake
<1>2. CASE Proceed(t, "check") BY <1>1, <1>2, ProceedInv
<1>3. CASE Proceed(t, "finish") BY <1>1, <1>3, ProceedInv
<1>4. QED BY <1>2, <1>3 DEF Wake

\* A worker that raises keeps its frame until its hand-over.
LEMMA CrashInv == ASSUME IInv, NEW t \in Frame, Crash(t) PROVE IInv'
<1> USE MailboxAssumption DEF MailboxAssumption
<1>a. Working(t) BY DEF Crash
<1>b. worker = t /\ job[t] = active /\ active # None
  BY <1>a DEF IInv, TypeOK, SlotInv
<1>1. TypeOK'
  <2>1. closed' \in SUBSET Frame BY <1>b DEF IInv, TypeOK, Crash
  <2>2. pc' \in [Frame -> WorkerPC] BY DEF IInv, TypeOK, Crash, WorkerPC
  <2>3. job' \in [Frame -> 0..MaxFrames] BY DEF IInv, TypeOK, Crash, ForgetLocals
  <2>4. tries' \in [Frame -> 0..RetryLimit] BY DEF IInv, TypeOK, Crash, ForgetLocals
  <2>5. outcome' \in [Frame -> Outcome]
    BY DEF IInv, TypeOK, Crash, ForgetLocals, Outcome
  <2>6. crashes' \in Nat BY DEF IInv, TypeOK, Crash
  <2>7. QED BY <2>1, <2>2, <2>3, <2>4, <2>5, <2>6 DEF IInv, TypeOK, Crash
<1>2. SlotInv' BY DEF IInv, TypeOK, SlotInv, Crash, ForgetLocals
<1>3. EpochInv' BY DEF IInv, EpochInv, Crash
<1>4. ImageInv'
  <2>0. active \in 1..arrived BY <1>b DEF IInv, TypeOK, SlotInv
  <2>1. closed' \subseteq 1..arrived' BY <1>b, <2>0 DEF IInv, ImageInv, Crash
  <2>2. pending' \notin closed' BY <1>b DEF IInv, SlotInv, ImageInv, Crash
  <2>3. pc'[worker'] = "dead" BY <1>b DEF IInv, TypeOK, Crash
  <2>4. \A f \in 1..arrived' : f \in closed' \/ f \in Held'
    BY DEF IInv, ImageInv, Crash
  <2>5. QED BY <2>1, <2>2, <2>3, <2>4 DEF ImageInv
<1>5. QED BY <1>1, <1>2, <1>3, <1>4 DEF IInv

\* A worker that finishes records its result if its epoch stands, closes its image,
\* and hands the slot over or leaves it.
LEMMA FinishInv == ASSUME IInv, NEW t \in Frame, Finish(t) PROVE IInv'
<1> USE MailboxAssumption DEF MailboxAssumption
<1>a. Working(t) BY DEF Finish
<1>b. worker = t /\ job[t] = active /\ active # None /\ active \in Frame
  BY <1>a DEF IInv, TypeOK, SlotInv
<1>e. active \in 1..arrived BY <1>b DEF IInv, TypeOK, SlotInv
<1>c. \/ pending = None /\ active' = None /\ worker' = None /\ pending' = None
         /\ pc' = [pc EXCEPT ![t] = "exited"]
      \/ pending # None /\ active' = pending /\ worker' = t /\ pending' = None
         /\ pc' = [pc EXCEPT ![t] = "loop"]
  BY <1>b DEF Finish
<1>d. \/ UNCHANGED <<result, completed, newest>>
      \/ result' = active /\ completed' = active /\ newest' = active /\ Records(t)
  BY <1>b DEF Finish
<1>1. TypeOK'
  <2>1. closed' \in SUBSET Frame BY <1>b DEF IInv, TypeOK, Finish
  <2>2. pc' \in [Frame -> WorkerPC] BY <1>c DEF IInv, TypeOK, WorkerPC
  <2>3. job' \in [Frame -> 0..MaxFrames] BY DEF IInv, TypeOK, Finish, ForgetLocals
  <2>4. tries' \in [Frame -> 0..RetryLimit] BY DEF IInv, TypeOK, Finish, ForgetLocals
  <2>5. outcome' \in [Frame -> Outcome]
    BY DEF IInv, TypeOK, Finish, ForgetLocals, Outcome
  <2>b. pending \in 0..MaxFrames /\ t \in 0..MaxFrames /\ None \in 0..MaxFrames
    BY DEF IInv, TypeOK
  <2>6. active' \in 0..MaxFrames /\ worker' \in 0..MaxFrames /\ pending' \in 0..MaxFrames
    BY <1>c, <2>b
  <2>a. started' \in BOOLEAN BY DEF IInv, TypeOK, Finish
  <2>7. result' \in 0..MaxFrames /\ completed' \in 0..MaxFrames /\ newest' \in 0..MaxFrames
    BY <1>b, <1>d DEF IInv, TypeOK
  <2>8. failed' \in 0..MaxFrames BY <1>b DEF IInv, TypeOK, Finish
  <2>9. QED BY <2>1, <2>2, <2>3, <2>4, <2>5, <2>6, <2>7, <2>8, <2>a
        DEF IInv, TypeOK, Finish
<1>2. SlotInv'
  <2>1. UNCHANGED <<hpc, arrived, present>> BY DEF Finish
  <2>2. hpc[t] # "start" /\ pc \in [Frame -> WorkerPC] /\ active # pending
    BY <1>a DEF IInv, TypeOK, SlotInv
  <2>3. job' = [job EXCEPT ![t] = None] BY DEF Finish, ForgetLocals
  <2>4. \A u \in Frame : Alive(u) <=> u = t /\ worker = t BY <1>a, <1>b DEF IInv, SlotInv
  <2>5. \A u \in Frame : Alive(u)' => worker' = u /\ ~Working(u)'
    BY <1>b, <1>c, <2>2, <2>4
  <2>6. \A u \in Frame : hpc[u] \in {"new", "start"} => pc'[u] = "none"
    <3>1. \A u \in Frame : hpc[u] \in {"new", "start"} => pc[u] = "none"
      BY DEF IInv, SlotInv
    <3>2. pc[t] # "none" BY <1>a
    <3>3. \A u \in Frame : u # t => pc'[u] = pc[u] BY <1>c, <2>2
    <3>4. QED BY <3>1, <3>2, <3>3
  <2>7. \A u \in Frame : hpc[u] # "start" BY <1>b, <2>2 DEF IInv, SlotInv
  <2>8. pending <= arrived /\ pending \in Nat /\ arrived \in Nat /\ t # None
    BY DEF IInv, TypeOK, SlotInv
  <2>9. QED BY <1>b, <1>c, <2>1, <2>5, <2>6, <2>7, <2>8 DEF IInv, SlotInv
<1>3. EpochInv'
  <2>1. UNCHANGED <<arrived, fence, jobKey, jobEpoch, epoch, key>> BY DEF Finish
  <2>2. CASE UNCHANGED <<result, completed, newest>>
    BY <1>c, <2>1, <2>2 DEF IInv, EpochInv
  <2>3. CASE result' = active /\ completed' = active /\ newest' = active /\ Records(t)
    <3>1. jobEpoch[active] = epoch /\ jobKey[active] = key BY <1>b, <2>3 DEF Records
    <3>2. active > fence /\ jobKey[active] # NoKey /\ active \in Nat /\ active \in Held
      BY <1>b, <3>1 DEF IInv, TypeOK, EpochInv
    <3>3. active <= arrived /\ arrived \in Nat /\ fence \in Nat /\ pending \in Nat
      BY <1>e DEF IInv, TypeOK
    <3>4. \A f \in Held' : f = pending /\ pending # None BY <1>c
    <3>5. \A f \in Held' : jobKey[f] \in Keys /\ jobEpoch[f] <= epoch
      BY <3>4 DEF IInv, EpochInv
    <3>6. \A f \in Held' : jobEpoch[f] = epoch => f > fence /\ f > active
      BY <3>4 DEF IInv, EpochInv
    <3>7. QED BY <1>b, <1>c, <2>1, <2>3, <3>1, <3>2, <3>3, <3>5, <3>6 DEF IInv, EpochInv
  <2>4. QED BY <1>d, <2>2, <2>3
<1>4. ImageInv'
  <2>1. closed' = closed \cup {active} /\ arrived' = arrived BY <1>b DEF Finish
  <2>2. active # pending /\ active \in Frame /\ pending \notin closed
    BY <1>b DEF IInv, TypeOK, SlotInv, ImageInv
  <2>3. None \notin closed BY DEF IInv, TypeOK
  <2>4. QED BY <1>b, <1>c, <2>1, <2>2, <2>3 DEF IInv, TypeOK, SlotInv, ImageInv
<1>5. QED BY <1>1, <1>2, <1>3, <1>4 DEF IInv

-----------------------------------------------------------------------------
(* Every step preserves the invariant, and so does a stutter. *)

\* Every step keeps the invariant.
LEMMA NextInv == ASSUME IInv, [Next]_vars PROVE IInv'
<1>1. CASE \E k \in Keys : Enqueue(k) BY <1>1, EnqueueInv
<1>2. CASE Refuse BY <1>2, RefuseInv
<1>3. ASSUME NEW f \in Frame, HandlerStep(f) PROVE IInv'
  BY <1>3, StartWorkerInv, StartFailsInv, MarkStartedInv DEF HandlerStep
<1>4. CASE Invalidate BY <1>4, InvalidateInv
<1>5. CASE Evict BY <1>5, EvictInv
<1>6. ASSUME NEW t \in Frame, WorkerStep(t) PROVE IInv'
  <2>1. CASE Take(t) BY <2>1, TakeInv
  <2>2. CASE CheckCurrent(t, "check", "lease") BY <2>2, CheckCurrentInv
  <2>3. CASE \E v \in {"allowed", "discarded", "failed"} : ValidateLease(t, v)
    BY <2>3, ValidateLeaseInv
  <2>4. CASE CheckCurrent(t, "recheck", "study") BY <2>4, CheckCurrentInv
  <2>5. CASE \E o \in Outcome : Study(t, o) BY <2>5, StudyInv
  <2>6. CASE Judge(t) BY <2>6, JudgeInv
  <2>7. CASE Wake(t) BY <2>7, WakeInv
  <2>8. CASE Finish(t) BY <2>8, FinishInv
  <2>9. QED BY <1>6, <2>1, <2>2, <2>3, <2>4, <2>5, <2>6, <2>7, <2>8 DEF WorkerStep
<1>7. CASE \E t \in Frame : Crash(t) BY <1>7, CrashInv
<1>8. CASE UNCHANGED vars
  <2>1. TypeOK' BY <1>8 DEF IInv, TypeOK, vars
  <2>2. SlotInv' BY <1>8 DEF IInv, SlotInv, vars
  <2>3. EpochInv' BY <1>8 DEF IInv, EpochInv, vars
  <2>4. ImageInv' BY <1>8 DEF IInv, ImageInv, vars
  <2>5. QED BY <2>1, <2>2, <2>3, <2>4 DEF IInv
<1>9. QED BY <1>1, <1>2, <1>3, <1>4, <1>5, <1>6, <1>7, <1>8 DEF Next

\* The inductive invariant holds in every reachable state of the mailbox.
THEOREM Invariance == Spec => []IInv
BY InitInv, NextInv, PTL DEF Spec

\* Type correctness of the mailbox, its handlers and its workers.
THEOREM TypeCorrect == Spec => []TypeOK
<1>1. IInv => TypeOK BY DEF IInv
<1>2. QED BY Invariance, <1>1, PTL

\* A result or a completed frame of an earlier chart source is never visible.
THEOREM ResultOwned == Spec => []ResultOfPresentOwner
<1>1. IInv => ResultOfPresentOwner BY DEF IInv, EpochInv, ResultOfPresentOwner
<1>2. QED BY Invariance, <1>1, PTL

\* Restarts, rebinds and self-healing never put two studies at work.
THEOREM SingleStudy == Spec => []OneStudyAtATime
<1>1. IInv => OneStudyAtATime BY DEF IInv, SlotInv, OneStudyAtATime
<1>2. QED BY Invariance, <1>1, PTL

\* No image is closed under its worker, and none is leaked.
THEOREM ImageOwnership == Spec => []ImagesReleased
<1>1. ASSUME IInv PROVE ImagesReleased
  <2>1. ASSUME NEW t \in Frame, Working(t) PROVE job[t] \notin closed
    BY <1>1, <2>1 DEF IInv, SlotInv, ImageInv
  <2>2. QED BY <1>1, <2>1 DEF IInv, ImageInv, ImagesReleased
<1>2. QED BY Invariance, <1>1, PTL

\* The only step that publishes is Finish, and it publishes a newer frame.
LEMMA FinishPublishes ==
    ASSUME IInv, NEW t \in Frame, Finish(t)
    PROVE  \/ UNCHANGED <<newest, result>>
           \/ /\ active \in Held /\ active > fence /\ active > newest
              /\ newest' = active /\ result' = active
<1>1. Working(t) BY DEF Finish
<1>2. job[t] = active /\ active # None BY <1>1 DEF IInv, SlotInv
<1>3. CASE Records(t) /\ outcome[t] = "completed"
  <2>1. newest' = active /\ result' = active BY <1>2, <1>3 DEF Finish
  <2>2. jobEpoch[active] = epoch /\ active \in Held BY <1>2, <1>3 DEF Records
  <2>3. QED BY <2>1, <2>2 DEF IInv, EpochInv
<1>4. CASE ~(Records(t) /\ outcome[t] = "completed") BY <1>4 DEF Finish
<1>5. QED BY <1>3, <1>4

\* Published frames only get newer, across every restart of the worker.
THEOREM MonotoneResults == Spec => ResultsMoveForward
<1>1. ASSUME IInv, [Next]_vars PROVE [newest' # newest => newest' > newest]_newest
  <2>1. CASE \E t \in Frame : Finish(t) BY <1>1, <2>1, FinishPublishes
  <2>2. CASE ~\E t \in Frame : Finish(t)
    BY <1>1, <2>2 DEF Next, vars, Enqueue, Refuse, HandlerStep, StartWorker,
       StartFails, MarkStarted, Invalidate, Evict, WorkerStep, Take, CheckCurrent,
       ValidateLease, Study, Judge, Wake, Proceed, Settle, Crash
  <2>3. QED BY <2>1, <2>2
<1>2. QED BY Invariance, <1>1, PTL DEF Spec, ResultsMoveForward

-----------------------------------------------------------------------------
(* The mailbox implements LatestFrame. *)

\* A frame that is enqueued, or refused, arrives on the board.
LEMMA ArrivalRefines ==
    ASSUME IInv, (\E k \in Keys : Enqueue(k)) \/ Refuse
    PROVE  Board!Arrive
<1> USE MailboxAssumption DEF MailboxAssumption
<1>1. Board!AtMostTwo(Held') BY DEF Board!AtMostTwo
<1>2. arrived < MaxFrames /\ arrived' = arrived + 1 BY DEF Enqueue, Refuse
<1>3. result' \in {result, 0} BY DEF Enqueue, Refuse
<1>4. UNCHANGED <<fence, newest>> BY DEF Enqueue, Refuse
<1>5. \E kept \in SUBSET Held : Held' \in {kept, kept \cup {arrived + 1}}
  <2>1. CASE Refuse BY <2>1 DEF Refuse
  <2>2. ASSUME NEW k \in Keys, Enqueue(k)
        PROVE  \E kept \in SUBSET Held : Held' \in {kept, kept \cup {arrived + 1}}
    <3>1. arrived + 1 \notin Held /\ arrived + 1 # None
      BY DEF IInv, TypeOK, SlotInv
    <3>2. Held' \ {arrived + 1} \in SUBSET Held /\ arrived + 1 \in Held'
      BY <2>2, <3>1 DEF Enqueue
    <3>3. Held' = (Held' \ {arrived + 1}) \cup {arrived + 1} BY <3>2
    <3>4. QED BY <3>2, <3>3
  <2>3. QED BY <2>1, <2>2
<1>6. QED BY <1>1, <1>2, <1>3, <1>4, <1>5 DEF Board!Arrive

\* The end of a job publishes on the board, or releases what it held.
LEMMA FinishRefines ==
    ASSUME IInv, NEW t \in Frame, Finish(t)
    PROVE  Board!Next
<1>1. Working(t) BY DEF Finish
<1>2. job[t] = active /\ active # None /\ active # pending
  BY <1>1 DEF IInv, SlotInv
<1>3. Held' = Held \ {active} /\ UNCHANGED <<arrived, fence>>
  BY <1>2 DEF Finish
<1>4. CASE UNCHANGED <<newest, result>>
  BY <1>3, <1>4 DEF Board!Next, Board!Release
<1>5. CASE /\ active \in Held /\ active > fence /\ active > newest
           /\ newest' = active /\ result' = active
  BY <1>3, <1>5 DEF Board!Next, Board!Publish
<1>6. QED BY <1>4, <1>5, FinishPublishes

\* Every step of the mailbox is a step of LatestFrame or leaves it unchanged.
LEMMA StepRefines == ASSUME IInv, [Next]_vars PROVE [Board!Next]_Board!vars
<1> USE DEF Board!vars
<1>1. CASE (\E k \in Keys : Enqueue(k)) \/ Refuse
  BY <1>1, ArrivalRefines DEF Board!Next
<1>2. ASSUME NEW f \in Frame, HandlerStep(f) PROVE [Board!Next]_Board!vars
  <2>1. CASE StartWorker(f) \/ MarkStarted(f) BY <2>1 DEF StartWorker, MarkStarted
  <2>2. CASE StartFails(f)
    BY <2>2 DEF StartFails, Board!Next, Board!Release
  <2>3. QED BY <1>2, <2>1, <2>2 DEF HandlerStep
<1>3. CASE Invalidate
  BY <1>3 DEF Invalidate, Board!Next, Board!RaiseFence
<1>4. CASE Evict
  BY <1>4 DEF Evict, Board!Next, Board!Release
<1>5. ASSUME NEW t \in Frame, WorkerStep(t) PROVE [Board!Next]_Board!vars
  <2>1. CASE Finish(t) BY <2>1, FinishRefines
  <2>2. CASE ~Finish(t)
    BY <1>5, <2>2 DEF WorkerStep, Take, CheckCurrent, ValidateLease, Study, Judge,
       Wake, Proceed, Settle
  <2>3. QED BY <2>1, <2>2
<1>6. CASE \E t \in Frame : Crash(t) BY <1>6 DEF Crash
<1>7. CASE UNCHANGED vars BY <1>7 DEF vars
<1>8. QED BY <1>1, <1>2, <1>3, <1>4, <1>5, <1>6, <1>7 DEF Next

\* The mailbox keeps the promise of LatestFrame: nothing older than the last
\* claim or kill of the source, or than an earlier result, is ever published.
THEOREM Refinement == Spec => KeepsPromise
<1>1. Init => Board!Init BY DEF Init, Board!Init
<1>2. QED BY Invariance, StepRefines, <1>1, PTL DEF Spec, KeepsPromise, Board!Spec

-----------------------------------------------------------------------------
(* Why every frame leaves, as far as single steps can say it: a frame in   *)
(* the slot always has a thread or a handler that will come to it, and a   *)
(* thread that has taken one is a bounded number of its own steps away     *)
(* from giving it up.                                                      *)

\* Unless its worker died, the frame in the slot is in the hands of a living
\* worker, or of the handler that is about to start one or to note that it did:
\* no combination of failed starts, crashes and heals leaves the slot taken,
\* nobody at work, and the next upload unable to see it.
SlotAttended ==
    active # None /\ ~Wedged => hpc[worker] \in {"start", "mark"} \/ Alive(worker)

\* A worker that is not known to have started has a handler that will note it.
StartNoted == worker # None /\ ~started => hpc[worker] \in {"start", "mark"}

\* Steps a worker has before it at most, in its present try ...
StageSteps == [sleep |-> 7, check |-> 6, lease |-> 5, recheck |-> 4, study |-> 3,
               judge |-> 2, finish |-> 1]

\* ... and with those that it may yet be granted.
StepsLeft(t) == 6 * (RetryLimit - tries[t]) + StageSteps[pc[t]]

\* A worker with a frame never has more steps before it than one attempt and
\* all retries take.
StudyBounded ==
    \A t \in Frame : Working(t) => StepsLeft(t) \in 1 .. 6 * (RetryLimit + 1)

\* While a worker keeps its frame, it stands still or comes nearer to the end.
Nearer(t) ==
    Working(t)' => /\ job'[t] = job[t]
                   /\ \/ pc'[t] = pc[t] /\ tries'[t] = tries[t]
                      \/ StepsLeft(t)' < StepsLeft(t)

\* No arrival, claim, heal or retry ever puts a study back.
StudyAdvances == [][\A t \in Frame : Working(t) => Nearer(t)]_vars

\* A handler leaves its worker noted, gone, or no longer the slot's.
LEMMA NotedStep == ASSUME IInv, StartNoted, [Next]_vars PROVE StartNoted'
<1> USE MailboxAssumption DEF MailboxAssumption
<1>a. /\ hpc \in [Frame -> HandlerPC] /\ pc \in [Frame -> WorkerPC]
      /\ worker \in 0..MaxFrames /\ arrived \in 0..MaxFrames
  BY DEF IInv, TypeOK
<1>b. \A f \in Frame : f > arrived => hpc[f] = "new"
  BY DEF IInv, SlotInv
<1>1. ASSUME NEW k \in Keys, Enqueue(k) PROVE StartNoted'
  <2>1. arrived + 1 \in Frame /\ hpc[arrived + 1] = "new" BY <1>a, <1>b, <1>1 DEF Enqueue
  <2>2. CASE UNCHANGED <<worker, started>> /\ hpc' = [hpc EXCEPT ![arrived + 1] = "done"]
    BY <1>a, <2>1, <2>2 DEF StartNoted
  <2>3. CASE worker' = arrived + 1 /\ hpc' = [hpc EXCEPT ![arrived + 1] = "start"]
    BY <1>a, <2>1, <2>3 DEF StartNoted
  <2>4. QED BY <1>1, <2>2, <2>3 DEF Enqueue
<1>2. CASE Refuse
  <2>1. arrived + 1 \in Frame /\ hpc[arrived + 1] = "new" BY <1>a, <1>b, <1>2 DEF Refuse
  <2>2. QED BY <1>a, <1>2, <2>1 DEF Refuse, StartNoted
<1>3. ASSUME NEW f \in Frame, HandlerStep(f) PROVE StartNoted'
  <2>1. CASE StartWorker(f) BY <1>a, <2>1 DEF StartWorker, StartNoted
  <2>2. CASE StartFails(f)
    <3>1. worker = f BY <2>2 DEF StartFails, IInv, SlotInv
    <3>2. QED BY <2>2, <3>1 DEF StartFails, StartNoted
  <2>3. CASE MarkStarted(f) BY <1>a, <2>3 DEF MarkStarted, StartNoted
  <2>4. QED BY <1>3, <2>1, <2>2, <2>3 DEF HandlerStep
<1>4. CASE Invalidate BY <1>4 DEF Invalidate, StartNoted
<1>5. CASE Evict BY <1>5 DEF Evict, StartNoted
<1>6. ASSUME NEW t \in Frame, WorkerStep(t) \/ Crash(t) PROVE StartNoted'
  <2>1. CASE Take(t) BY <2>1 DEF Take, StartNoted
  <2>2. CASE Finish(t) BY <2>2 DEF Finish, StartNoted
  <2>3. CASE ~Take(t) /\ ~Finish(t)
    BY <1>6, <2>3 DEF WorkerStep, CheckCurrent, ValidateLease, Study, Judge, Wake,
       Proceed, Settle, Crash, StartNoted
  <2>4. QED BY <2>1, <2>2, <2>3
<1>7. CASE UNCHANGED vars BY <1>7 DEF vars, StartNoted
<1>8. QED BY <1>1, <1>2, <1>3, <1>4, <1>5, <1>6, <1>7 DEF Next

\* The frame in the slot is always attended to, or its worker is known dead.
THEOREM NoFrameStranded == Spec => []SlotAttended
<1>1. Init => StartNoted BY DEF Init, StartNoted
<1>2. StartNoted => SlotAttended BY DEF StartNoted, SlotAttended, Wedged
<1>3. QED BY Invariance, NotedStep, <1>1, <1>2, PTL DEF Spec

\* What an action of a worker leaves to the others.
LEMMA OthersStay ==
    ASSUME IInv, NEW t \in Frame, WorkerStep(t) \/ Crash(t), NEW u \in Frame, u # t
    PROVE  pc'[u] = pc[u] /\ tries'[u] = tries[u] /\ job'[u] = job[u]
<1>1. /\ pc \in [Frame -> WorkerPC] /\ tries \in [Frame -> 0..RetryLimit]
      /\ job \in [Frame -> 0..MaxFrames]
  BY DEF IInv, TypeOK
<1>2. CASE Take(t) BY <1>1, <1>2 DEF Take
<1>3. CASE CheckCurrent(t, "check", "lease") \/ CheckCurrent(t, "recheck", "study")
  BY <1>1, <1>3 DEF CheckCurrent, Proceed, Settle
<1>4. ASSUME NEW v \in {"allowed", "discarded", "failed"}, ValidateLease(t, v)
      PROVE  pc'[u] = pc[u] /\ tries'[u] = tries[u] /\ job'[u] = job[u]
  BY <1>1, <1>4 DEF ValidateLease, Proceed, Settle
<1>5. ASSUME NEW o \in Outcome, Study(t, o)
      PROVE  pc'[u] = pc[u] /\ tries'[u] = tries[u] /\ job'[u] = job[u]
  BY <1>1, <1>5 DEF Study, Settle
<1>6. CASE Judge(t) BY <1>1, <1>6 DEF Judge
<1>7. CASE Wake(t) BY <1>1, <1>7 DEF Wake, Proceed
<1>8. CASE Finish(t) BY <1>1, <1>8 DEF Finish, ForgetLocals
<1>9. CASE Crash(t) BY <1>1, <1>9 DEF Crash, ForgetLocals
<1>10. QED BY <1>2, <1>3, <1>4, <1>5, <1>6, <1>7, <1>8, <1>9 DEF WorkerStep

\* The stages of a study come in this order, and only a granted retry goes back.
LEMMA StageAdvances ==
    ASSUME IInv, NEW t \in Frame, Working(t), WorkerStep(t) \/ Crash(t)
    PROVE  \/ ~Working(t)'
           \/ job'[t] = job[t] /\ StepsLeft(t)' < StepsLeft(t)
<1> USE MailboxAssumption DEF MailboxAssumption
<1>1. /\ pc \in [Frame -> WorkerPC] /\ tries \in [Frame -> 0..RetryLimit]
      /\ job \in [Frame -> 0..MaxFrames]
  BY DEF IInv, TypeOK
<1>2. tries[t] \in 0..RetryLimit /\ RetryLimit \in Nat BY <1>1
<1>3. ASSUME StageSteps[pc'[t]] \in Nat, StageSteps[pc[t]] \in Nat,
             StageSteps[pc'[t]] < StageSteps[pc[t]], tries'[t] = tries[t]
      PROVE  StepsLeft(t)' < StepsLeft(t)
  BY <1>2, <1>3 DEF StepsLeft
<1>4. /\ StageSteps["sleep"] = 7 /\ StageSteps["check"] = 6 /\ StageSteps["lease"] = 5
      /\ StageSteps["recheck"] = 4 /\ StageSteps["study"] = 3 /\ StageSteps["judge"] = 2
      /\ StageSteps["finish"] = 1
  BY DEF StageSteps
<1>6. CASE Take(t) BY <1>6 DEF Take
<1>7. CASE CheckCurrent(t, "check", "lease")
  <2>1. /\ pc[t] = "check" /\ pc'[t] \in {"lease", "finish"}
        /\ tries'[t] = tries[t] /\ job'[t] = job[t]
    BY <1>1, <1>7 DEF CheckCurrent, Proceed, Settle
  <2>2. QED BY <1>3, <1>4, <2>1
<1>8. CASE CheckCurrent(t, "recheck", "study")
  <2>1. /\ pc[t] = "recheck" /\ pc'[t] \in {"study", "finish"}
        /\ tries'[t] = tries[t] /\ job'[t] = job[t]
    BY <1>1, <1>8 DEF CheckCurrent, Proceed, Settle
  <2>2. QED BY <1>3, <1>4, <2>1
<1>9. ASSUME NEW v \in {"allowed", "discarded", "failed"}, ValidateLease(t, v)
      PROVE  job'[t] = job[t] /\ StepsLeft(t)' < StepsLeft(t)
  <2>1. /\ pc[t] = "lease" /\ pc'[t] \in {"recheck", "judge", "finish"}
        /\ tries'[t] = tries[t] /\ job'[t] = job[t]
    BY <1>1, <1>9 DEF ValidateLease, Proceed, Settle
  <2>2. QED BY <1>3, <1>4, <2>1
<1>10. ASSUME NEW o \in Outcome, Study(t, o)
       PROVE  job'[t] = job[t] /\ StepsLeft(t)' < StepsLeft(t)
  <2>1. /\ pc[t] = "study" /\ pc'[t] \in {"judge", "finish"}
        /\ tries'[t] = tries[t] /\ job'[t] = job[t]
    BY <1>1, <1>10 DEF Study, Settle
  <2>2. QED BY <1>3, <1>4, <2>1
<1>11. CASE Judge(t)
  <2>1. pc[t] = "judge" /\ job'[t] = job[t] BY <1>11 DEF Judge
  <2>2. CASE TriesLeft(t) /\ MayRetry(t)
    <3>1. pc' = [pc EXCEPT ![t] = "sleep"] /\ tries' = [tries EXCEPT ![t] = @ + 1]
      BY <1>11, <2>2 DEF Judge
    <3>2. pc'[t] = "sleep" /\ tries'[t] = tries[t] + 1 BY <1>1, <3>1
    <3>3. StepsLeft(t) = 6 * (RetryLimit - tries[t]) + 2
          /\ StepsLeft(t)' = 6 * (RetryLimit - (tries[t] + 1)) + 7
      BY <1>4, <2>1, <3>2 DEF StepsLeft
    <3>4. QED BY <1>2, <2>1, <3>3
  <2>3. CASE ~(TriesLeft(t) /\ MayRetry(t))
    <3>1. pc'[t] = "finish" /\ tries'[t] = tries[t]
      BY <1>1, <1>11, <2>3 DEF Judge
    <3>2. QED BY <1>3, <1>4, <2>1, <3>1
  <2>4. QED BY <2>2, <2>3
<1>12. CASE Wake(t)
  <2>1. /\ pc[t] = "sleep" /\ pc'[t] \in {"check", "finish"}
        /\ tries'[t] = tries[t] /\ job'[t] = job[t]
    BY <1>1, <1>12 DEF Wake, Proceed
  <2>2. QED BY <1>3, <1>4, <2>1
<1>13. CASE Finish(t) BY <1>1, <1>13 DEF Finish
<1>14. CASE Crash(t) BY <1>1, <1>14 DEF Crash
<1>15. QED
  BY <1>6, <1>7, <1>8, <1>9, <1>10, <1>11, <1>12, <1>13, <1>14 DEF WorkerStep

\* Whatever else happens, no step of the mailbox puts a study back.
LEMMA NearerStep ==
    ASSUME IInv, [Next]_vars, NEW u \in Frame, Working(u)
    PROVE  Nearer(u)
<1>1. CASE \E t \in Frame : WorkerStep(t) \/ Crash(t)
  <2>1. PICK t \in Frame : WorkerStep(t) \/ Crash(t) BY <1>1
  <2>2. CASE t = u BY <2>1, <2>2, StageAdvances DEF Nearer
  <2>3. CASE t # u BY <2>1, <2>3, OthersStay DEF Nearer
  <2>4. QED BY <2>2, <2>3
<1>2. ASSUME NEW f \in Frame, HandlerStep(f) PROVE Nearer(u)
  <2>1. CASE StartWorker(f)
    <3>1. pc[f] = "none" BY <2>1 DEF StartWorker, IInv, SlotInv
    <3>2. pc' = [pc EXCEPT ![f] = "loop"] /\ UNCHANGED <<tries, job>>
      BY <2>1 DEF StartWorker
    <3>3. QED BY <3>1, <3>2 DEF Nearer, IInv, TypeOK
  <2>2. CASE StartFails(f) \/ MarkStarted(f)
    BY <2>2 DEF StartFails, MarkStarted, Nearer
  <2>3. QED BY <1>2, <2>1, <2>2 DEF HandlerStep
<1>3. CASE (\E k \in Keys : Enqueue(k)) \/ Refuse \/ Invalidate \/ Evict \/ UNCHANGED vars
  BY <1>3 DEF Enqueue, Refuse, Invalidate, Evict, vars, Nearer
<1>4. QED BY <1>1, <1>2, <1>3 DEF Next

\* Who sleeps has been granted a retry.
SleepIsRetry == \A t \in Frame : pc[t] = "sleep" => tries[t] > 0

LEMMA SleepStep == ASSUME IInv, SleepIsRetry, [Next]_vars PROVE SleepIsRetry'
<1>1. /\ pc \in [Frame -> WorkerPC] /\ tries \in [Frame -> 0..RetryLimit]
  BY DEF IInv, TypeOK
<1> SUFFICES ASSUME NEW u \in Frame, pc'[u] = "sleep" PROVE tries'[u] > 0
  BY DEF SleepIsRetry
<1>2. pc[u] = "sleep" => tries[u] > 0 BY DEF SleepIsRetry
<1>3. ASSUME NEW t \in Frame, WorkerStep(t) \/ Crash(t) PROVE tries'[u] > 0
  <2>1. CASE t # u BY <1>2, <1>3, <2>1, OthersStay
  <2>2. CASE t = u
    <3>1. CASE Judge(t)
      <4>1. TriesLeft(t) /\ MayRetry(t) BY <1>1, <2>2, <3>1 DEF Judge
      <4>2. tries' = [tries EXCEPT ![t] = @ + 1] BY <3>1, <4>1 DEF Judge
      <4>3. QED BY <1>1, <2>2, <4>2
    <3>2. CASE ~Judge(t)
      BY <1>1, <1>3, <2>2, <3>2 DEF WorkerStep, Take, CheckCurrent, ValidateLease,
         Study, Wake, Proceed, Settle, Finish, Crash
    <3>3. QED BY <3>1, <3>2
  <2>3. QED BY <2>1, <2>2
<1>4. ASSUME NEW f \in Frame, HandlerStep(f) PROVE tries'[u] > 0
  BY <1>1, <1>2, <1>4 DEF HandlerStep, StartWorker, StartFails, MarkStarted
<1>5. CASE (\E k \in Keys : Enqueue(k)) \/ Refuse \/ Invalidate \/ Evict \/ UNCHANGED vars
  BY <1>2, <1>5 DEF Enqueue, Refuse, Invalidate, Evict, vars
<1>6. QED BY <1>3, <1>4, <1>5 DEF Next

\* A study takes a bounded number of its worker's steps, retries included, and
\* nothing that the handlers do meanwhile makes it longer.
THEOREM StudiesEnd == Spec => []StudyBounded /\ StudyAdvances
<1>1. IInv /\ SleepIsRetry => StudyBounded
  <2>1. SUFFICES ASSUME IInv, SleepIsRetry, NEW t \in Frame, Working(t)
                 PROVE  StepsLeft(t) \in 1 .. 6 * (RetryLimit + 1)
    BY DEF StudyBounded
  <2>2. tries[t] \in 0..RetryLimit /\ RetryLimit \in Nat
    BY <2>1, MailboxAssumption DEF MailboxAssumption, IInv, TypeOK
  <2>3. pc[t] \in {"check", "lease", "recheck", "study", "judge", "sleep", "finish"}
    BY <2>1 DEF IInv, TypeOK, WorkerPC
  <2>4. StageSteps[pc[t]] \in 1..7 /\ (StageSteps[pc[t]] = 7 => pc[t] = "sleep")
    BY <2>3 DEF StageSteps
  <2>5. pc[t] = "sleep" => tries[t] > 0 BY <2>1 DEF SleepIsRetry
  <2>6. QED BY <2>2, <2>4, <2>5 DEF StepsLeft
<1>2. IInv /\ [Next]_vars => [\A t \in Frame : Working(t) => Nearer(t)]_vars
  BY NearerStep
<1>3. Init => SleepIsRetry BY DEF Init, SleepIsRetry
<1>4. QED BY Invariance, SleepStep, <1>1, <1>2, <1>3, PTL DEF Spec, StudyAdvances
=============================================================================
