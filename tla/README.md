# PhoenixGuard: verification of the live tracking core

PhoenixGuard watches a trading chart. Frames of the chart come from a browser
tab, a captured window or the tracker's own capture; each one is studied by a
pipeline of models, and the study becomes the decision a dashboard, a voice
interface and an executor read. The hard part of the program is not the
models: it is that frames, studies, heartbeats, claims and kills of a chart
source run at the same time, that a study takes seconds while its source may
be replaced in milliseconds, and that a wrong interleaving shows a decision for
a chart that is no longer there, or trades on it. This directory holds TLA+
models of that core, TLC configurations that check them, and TLAPS proofs about
them.

Paths below are relative to `Backend/src/phoenixguard/` of the repository; WT is
`mobile_api/window_tracker.py`, FI `mobile_api/frame_ingest.py`, TB
`Backend/launch/phoenixguard_direct_trade_bridge.py`.

## 1. The system

| Component | State it keeps | Operations | Interacts with |
|---|---|---|---|
| Frame-ingest endpoints (FI) | feed runtime rows, rate limits | upload, heartbeat, claim, kill, status | validate a lease, enqueue in the mailbox |
| Frame-analysis mailbox (FI 127-1225) | one waiting frame, one running frame, epoch, worker thread, last result | enqueue, take, study, retry, hand over, invalidate, evict | endpoints, tracker (`ingest_external_frame`, lease check) |
| Leased chart source (WT 32366-34120, 36875-36955) | `capture_source_v3` of the session, heartbeat in memory, feed counter | claim, reclaim, heartbeat, release, kill, ingest, complete, fail | session store, lease cache, CPU streams |
| Lease cache (WT 43317-43451) | copy in memory, sidecar file, both under the stamp of the session file | keep, answer | session file, atomic writer |
| Session store (WT 6505-6569, 43594-43900) | session JSON, last-good copy | load, save with generation fence and merge | every control call, every study |
| Tracker worker, study gate (WT 37137-37402) | worker and producer threads, active studies | ensure, stop, loop, begin and finish a study | session store, CPU streams, launcher |
| CPU stream (`vision/cpu_stream_v3.py`, WT 36295-36830) | generation, keyframe slot, recovery of frozen captures | capture, push, take, requeue, finish, stop | tracker worker, publication |
| Locks (WT) | `self._lock`, commit locks, stream control locks | | all of the above |
| Direct trade bridge (TB) | lock file, watermark, trigger state | launch, read, fire, confirm, press, end | tracker's state over HTTP, broker's buttons |
| MT4 bridge and expert advisor (`Backend/tools`, `Backend/launch/mt4`) | command and acknowledgement files | poll, write, acknowledge | executor |
| Execution, decision, study, vision, memory, business, voice, frontend | scores, ledgers, accounts | | read-only or outside the protocol |

`PROJECT.json` lists every component, those left out with the reason.

What makes the core hard:

- **Concurrency.** HTTP handlers, one worker thread per mailbox, one worker and
  one capture loop per session, all in one process. A study holds no lock while
  the models run; everything it read before may be stale when it publishes.
- **Whole-session writes.** Every writer of the session loads all of it, changes
  a part and saves all of it; some load seconds before they save.
- **Ownership changes.** A source is claimed, released for recovery, reclaimed
  by compare-and-swap and killed while a study of the old owner is running.
  Generations restart at zero when a lease is released.
- **Failure.** Threads fail to start, workers raise or are cut short, session
  files cannot be replaced, captures freeze, the process is restarted between two
  writes, a bridge is killed with its lock in place.
- **Time.** Heartbeats age, sources and gates become stale, retries and
  recoveries have limits, joins give up, and the wall clock is set back.

What makes each component correct:

- mailbox: only results of the present source are visible and they get newer;
  one study at a time; every image is closed exactly once; every frame leaves;
- leased source: a decision is usable only when it is proved by the last frame
  of the present owner; a kill is final; recovery is atomic and bounded; a frame
  in process is settled;
- lease cache: an answer is never older than the call; a save never takes the
  source back;
- session store: no save brings an earlier owner or its signal back, no publication
  takes the frame number back or turns live execution on, or shows what the user
  cleared;
- worker and gate: a taken gate has a study, overlaps and lost threads are
  accounted for, what is stopped ends, and the session stays studied;
- CPU stream: only the newest keyframe is published, of the present view, nothing stays
  in flight without a worker, and what is on the screen is studied;
- locks: no circular wait;
- trade bridge: one bridge trades (it is not so, section 5), a dead one blocks nobody,
  a bridge enters candles once and in order, and its contracts are capped.

## 2. The modules

| Module | Models | Proofs |
|---|---|---|
| `AnalysisMailbox` | the mailbox of one session, handlers and workers | `AnalysisMailbox_proofs` |
| `LatestFrame` | what the mailbox promises, abstractly | refinement in `AnalysisMailbox_proofs` |
| `SourceLease`, `MCSourceLease` | the ownership record of a leased source and the study of its frames | `SourceLease_proofs` |
| `LeaseCache` | session file, memory copy and sidecar of the lease | `LeaseCache_proofs` |
| `SessionStore`, `MCSessionStore` | the saved session, its control calls and its studies | `SessionStore_proofs` |
| `LeaseAuthority` | what a leased source promises, abstractly | refinements in `SourceLease_proofs` and `SessionStore_proofs` |
| `StudyGate` | the gate that lets one study of a session through | `TrackerWorkers_proofs` |
| `TrackerWorkers` | the threads of a session, over `StudyGate`, and the launcher | `TrackerWorkers_proofs` |
| `CPUStream` | observer, keyframe slot and the workers that study through it | `CPUStream_proofs` |
| `TrackerLocks` | the lock order of the tracker's calls | `TrackerLocks_proofs` |
| `TradeBridge`, `MCTradeBridge` | the instances of the trade bridge, their lock and their trades | `TradeBridge_proofs` |

Each component is a parameterised module with its own `.cfg` files; an MC module
adds a constraint or a concrete constant for TLC. Definitions whose comment
begins with `Mutant:` are wrong versions of the definition after them, used to
show that a property can fail, and take no part in a run. The map in
`PROJECT.json` names the lines each definition stands for.

The modules meet at the tracker. `AnalysisMailbox` and `SourceLease` are two
views of one upload: the mailbox's `ValidateLease` and `Study` are the calls
whose inside is `SourceLease`. `SourceLease` takes the session file as one
variable; `SessionStore` shows what its writers may do to it, `LeaseCache` what
readers may be told of it, and `TrackerLocks` that the locks both rely on are
taken in an order without circles. `TrackerWorkers` is composed with `StudyGate`
(it EXTENDS it, and implements it); the study it counts is the one `CPUStream`
feeds and `SessionStore` publishes.

### AnalysisMailbox

One mailbox, any number of frames. A frame number is also its upload handler
and, if it starts one, its worker thread: `Enqueue(f)` is the critical section
of `_enqueue_analysis_job`, `StartWorker`, `StartFails` and `MarkStarted` what
the handler does after it, and `Take`, `CheckCurrent`, `ValidateLease`, `Study`,
`Judge`, `Wake`, `Crash` and `Finish` are the stages of the worker, each between
two accesses to the mailbox lock. `Invalidate` is a claim or kill of the source,
`Evict` the pruning of idle mailboxes. `epoch` is the mailbox epoch that
fences late workers. `closed` records the images closed, so that a leak and a
use after close can be seen. A worker may end with an exception wherever the
code can raise outside its handlers (`Crash`).

`LatestFrame` keeps only the frames that arrived, those held (two at most), a
fence and the newest published frame. `KeepsPromise` maps the mailbox to it.

### SourceLease

`source` is `capture_source_v3` with the fields the properties tell apart;
`feed` is the frame counter of the external feed; `decision` the lease and frame
behind the visible decision; `beat` the heartbeat in memory; `study` the stage of
the mailbox worker inside `ingest_external_frame`. Every action is one critical
section of `self._lock`. `Claim` and `Reclaim` share `TakeOver`; `Reclaim` adds
the compare-and-swap on what `Observe` returned; `LoseRace` is its refusal. A
`Heartbeat` records freshness and pending changes, or must release the lease
(`ReleaseForReclaim`). `Begin`, `StudyPublishes`, `StudyEnds`, `Complete`,
`Reject` and `Error` are the stages of a study. `Restart` forgets memory: the
lease is then read from the sidecar, which leaves out the `stream` record
(`cold`). A lease is the order in which its token was issued; the client's
knowledge of tokens is that it presents any issued one, however old. Frame
number and capture time are one counter.

The publicly visible state is derived as in the code: the heartbeat overlays the
persisted state (`OverlaidState`), freshness decides `LIVE` against `STALE`
(`PublicState`).

### LeaseCache

`disk` is the session file: its stamp and its content, the number of changes the
source record has gone through. `mem` and `side` are the two copies. Every
action is one file operation or one locked access to the cache: `Stat`,
`ReadMemory`, `ReadSidecar`, `ReadSession`, `Restat`, `KeepInMemory`,
`KeepInSidecar` for readers, and load, lock, write and keep for savers. Owners
change the record under both locks; touchers load and save it unchanged under
the commit lock; pollers read under `self._lock`; watchers read under none, as
the endpoints and the mailbox workers do through `validate_external_source_lease`.
A write either replaces the file with a new stamp or, `MaxFallbacks` times,
leaves it and writes the last-good copy.

The code has two situations in which an old lease can be answered (section 5).
The history variable `disturbed` records exactly those: a changed source record
was saved while a lookup without the tracker lock was under way, or went to the
last-good file. `AnswersCurrent` and `CacheHonest` say that there is no third.

`SavesNeverRevert` speaks of the savers that load under the commit lock, or
under `self._lock` when they change the source. The writers that load a session
before they take a lock are the subject of `SessionStore`.

### SessionStore

`file` is the saved session with the fields its writers fight over: owner and
generation of the source, frame, overlay and vote numbers, whose pixels the
visible signal was made of, pictures, focus, `awaiting_focus`, tracking and live
execution. A call is a request, made once; its action is the save, with all the
fields it sets, and before it stands the load, under the lock (`LoadLocked`) or
outside (`Load`), as in the code. `Saved` is `_save_session_committed` for an
ordinary payload: skipped when it is of an earlier generation (`OlderSource`),
shows a capture although the focus was cleared (`FocusGone`), or carries earlier
pictures (`OlderFrame`), otherwise merged. `SavedControl` is a control write
(`__control_write_v3`), which passes the fences.

| Calls | Action | Load |
|---|---|---|
| claim, kill, release of the source | `Claim`, `Kill`, `Release` | under the lock |
| emergency stop | `EmergencyStop` | under the lock |
| start, stop, change of the controls | `Start`, `Stop`, `Set` | before it |
| choice and clear of the focus | `SetFocus`, `ClearFocus` | before it |
| arm, cancel and callbacks of the focus selector, demo trade | `Select` | before it |
| handler of a crashed worker | `Crash` | before the commit lock |
| upload of a frame, and its outcome | `Ingest`, `Settle` | under the lock |
| study | `BeginStudy`, `Look`, then `AwaitFocus`, `BlockSurface`, `ShowPictures`, `ShowSignal`, `Publish` or `GiveUp` | at its start, again with its number |

An upload that proves its lease makes its pixels the focus and ends tracking
(`Ingest`, WT 33560-33849); when its study is over, accepted or failed, the request
saves once more (`Settle`). A study publishes up to three times: `ShowPictures`,
which the code does only under `PHOENIXGUARD_DIRECT_BIAS_EARLY_PUBLISH`,
`ShowSignal` and `Publish`, each behind the exact-lease guard (`SourceCurrent`) that
a local study passes freely (WT 36896-36898). `BlockSurface` is a study whose pixels
are not the broker's: it shows them without a signal (WT 40698-40818).

`frame_index`, `capture_count` and `display_frame_id` move together and are one
number. The display state is a file of its own and is left out, and so are the
writers that load and save inside one block of the lock and change nothing that is
kept here: memory projections (WT 35552-35621), the locked window (32243), a capture
surface that is not there (39647) and a duplicate picture (39765), of which the last
two write a status only while the session is tracked, when no clear is in force.

What the properties say, and what they leave out on purpose, because the code does
not keep it (section 5):

- `NoEarlierOwner`: a signal of *uploaded* pixels is the present owner's. A local
  study passes the guard and shows its pixels under any owner.
- `OwnersFromClaims`, `KeepsAuthority`, and `NoEarlierOwner` too, hold `Fenced`, that
  is until a focus clear (a control write of an early load) or a release (it resets
  the generation) has saved. All other calls and studies are in.
- `ClearHolds` is for as long as the history `cleared` lasts. It begins with the save of
  a focus clear. It ends with every call that gives the session a focus or ends its
  waiting for one: a choice of the focus, any use of the selector, a claim, an upload
  and the outcome of an uploaded study, a kill, a release, a crash handler. It also ends
  when a start, stop or change of a control saves a session loaded when it was not
  waiting for a focus (`KeepsWaiting`). What remains is what the fence of
  `_save_session_committed` is for: captures on their way, at any stage, with emergency
  stops and calls made after the clear among them.
- `FramesForward` and `PublicationsKeepLiveOff` speak of publications, with all
  writers around them.

### LeaseAuthority

The promise that `SourceLease` and `SessionStore` share: leases are granted one
after the other, the present one is the last granted or none, and a result of
uploaded pixels is visible only under the lease that brought them. It has an owner,
a count of grants, the lease of the visible result, and four actions (`Grant`,
`Revoke`, `Show`, `Hide`). In `SourceLease` the visible result is the decision and
a revocation is a kill or a release; in `SessionStore` it is the signal, when it was
made of uploaded pixels (`Attributed`), and each save of the
session is one of the four or none. `KeepsAuthority` is the mapping of each.

### StudyGate and TrackerWorkers

`StudyGate` is `_begin_study_gate` and `_finish_study_gate`: a gate older than its
limit is taken over, and a late study frees whatever gate there is. `Restart` is
the end of the process.

`TrackerWorkers` adds the worker and producer threads and the calls that start
and stop them. A call is a `plan`, the blocks of code it has yet to run, one for
each stretch between two waits or releases of the tracker lock: `StopWorker`
marks what is registered, waits and removes the entry if the thread it marked is
gone; a kill saves first and stops then; a start either repairs or turns tracking
on, and then ensures threads. A join may give up at any time (`Clear` is enabled
at once and may find its thread alive). A thread identity is used again once it
is dead and no call waits for it. The launcher (`Round`) starts a session that does
not run and restarts one that is stale; a session is stale when something was
published and no unmarked worker serves it, or, a bounded number of times, by a
false alarm. A study is published when it is accepted. `crossed` counts the
threads that were started while a call waited for an older one.

### CPUStream

A frame is the picture it shows and the view (window identity and geometry) it
was taken of. One picture stands for all frames that count as duplicates of each
other; how large a change is, the pixels tell, so `Push` chooses between rest,
motion and material change. Keyframe identities are used again when nobody refers
to them. The offscreen capture may freeze (`surface` lags behind `screen`), and
only a recovery capture, asked for after `Threshold` duplicates, sees the screen.
`elapsed` is what has passed of the two intervals the code compares with; the
clock may step back (`StepBack`), after which frames are rejected until it catches
up. The chart is locked with a visible recovery capture available; the mode that
captures in the background only is left out. A study ends in `Publish`, behind the
guard that compares its keyframe with the newest of the registered stream, in `Drop`,
which shows nothing, or in `Refuse`, after which its keyframe may be put back. Frame
rings, pixel measures, health
reports and the error back-off are left out.

### TrackerLocks

A call is a sequence of blocks of nested locks, chosen in `Init` among the
branches of its code (`PlansOf`). `Take` is one acquisition, `Leave` the end of
a block. Data is left out altogether. Locks under which nothing is taken (the
cache lock, the registry guards) cannot be part of a circle and are left out.

### TradeBridge

Launches of the bridge for one session. `Launch`, `Probe`, `Steal`, `Reopen` and
`Sign` are `_InstanceLock.acquire`, one action per file operation, the lock being
its creator and whether the process id is in it yet. A verdict is its number and
the candle it is about; sides and the reasons of a refusal are left out, so that
any state may be refused (`Skip`, `Abandon`). Listeners hear verdicts in order;
pollers may get an old answer, which the watermark (`mark`, `Fresh`) refuses unless
the newest sidecar is attached to it (`masked`). The trigger has its defaults (one
entry per candle, no re-arming, flip guard, cool-down); `max_trades_per_session`
is a constant. `Fire` consumes the candle's entry, `Confirm` reads the state once
more, `Press` and `PressAgain` are the two contracts. A bridge may be interrupted
anywhere, and then runs its `finally` clause, or killed, and then leaves the lock.
Memory ends with the process: what a bridge has entered is not known to the next one.
Histories: `crowded` (launches overlapped, or a live bridge's lock was removed), which
only bounds the run and is the premise of a lemma, `met` (who met a live bridge),
`masked`.

## 3. Runs

| Run | Shows | Bounds and why they are enough |
|---|---|---|
| `AnalysisMailbox.cfg` | ownership of results, one study at a time, images, monotone results, refinement of `LatestFrame`, every frame leaves | 3 frames: one running, one waiting, one arriving; 2 identities to rebind; 1 retry, 1 fence, 1 crash |
| `MCSourceLease.cfg` | usable decisions, errors, ownership, recovery budget, kills, compare-and-swap, every study settles, `LeaseAuthority` | 2 leases (an old owner and the present one), 2 frames (under study and newer), 1 kill, 1 restart, 1 recovery client; stale after the first missed beat. `OneStory`: with a recovery client on its way studies are short, one frame, no retry, no announced change, no restart, since its claim looks at none of these |
| `SourceLease_retry.cfg` | violation, see findings | 1 lease, 1 frame, 1 retry |
| `LeaseCache.cfg` | answers, copies and saves | 2 owners, 1 toucher, a locked and a lock-free reader; 3 saves, 1 touch, 1 failed replace, 2 crashes: the old lease, the present one and one overtaking |
| `MCSessionStore.cfg` | owner and signal of the session, `LeaseAuthority`, cleared focus, frame numbers, live execution | every kind of call: 2 claims, one each of the others, 1 uploaded and 2 local studies; any four of them in one behaviour (`FewCalls`): a stale save needs an early load, a change of owner, a study and its stages, and a capture in flight a clear and one call more. Claims are alike, and so are local studies (`Alike`); what a call has loaded is forgotten when it has returned (`Remembered`) |
| `SessionStore_halt.cfg` | violation, see findings | 1 emergency stop, 1 change of a control |
| `TrackerLocks.cfg` | no circular wait, every call returns | one of each kind of call about one session: a circle needs two calls, and the tracker lock is the only one shared between sessions |
| `TrackerLocks_local.cfg` | violation, see findings | 1 control operation, 2 local studies, 1 loop |
| `TrackerWorkers.cfg` | gate, overlaps, orphans, stops end, the session is served | 2 workers and 2 producers (a late one and its successor), a manual capture, a user, the launcher; 1 gate grown old, 1 event (call, manual capture, crash, restart or false alarm) on top of the launcher's own rounds |
| `CPUStream.cfg` | slot, flight, publication, the screen is studied | 1 worker, 2 pictures, 2 views, 1 freeze, 1 stop or step of the clock, threshold 2, 2 requeues. 4 identities: one worker's keyframe, the slot, the chosen one and the newest |
| `MCTradeBridge.cfg` | no blocking, order of entries, contracts | 3 launches (2 listeners, 1 poller): the dead, the thief and a third; 5 verdicts, two per candle; 2 trades. `CrowdsIdle`: where launches crowd one verdict is published, as two bridges share nothing but the lock |
| `TradeBridge_refused.cfg` | violation, see findings | 3 launches that do not overlap (`LaunchesApart`): one that trades, one refused, one more |

`CHECK_DEADLOCK FALSE` stands where all processes may end: the mailbox when all
frames have come, the cache, the locks, the store and the bridge when all calls
have returned; in `TrackerWorkers` a session that was started without a worker
may stop (section 5). `MCSourceLease` and `CPUStream` are checked for deadlock.

The largest state spaces are those of `MCSourceLease` (569,232 distinct states),
`MCSessionStore` (445,238 up to symmetry, 17 steps deep), `MCTradeBridge` (220,016)
and `CPUStream` (201,150). Checked once beyond these bounds, with no violation:
the safety properties of `TrackerWorkers` with two events (6.8 million states),
`CPUStream` with three pictures and threshold 1 (678,515 states), and, without
reaching the end, `MCSessionStore` with five calls (2.1 million).

Every property of a passing run has a mutant in `PROJECT.json` under which TLC
finds it violated.

**Fairness.** `AnalysisMailbox`: weak fairness of each handler's and worker's own
steps (`HandlerStep`, `WorkerStep`): a thread that runs goes on, and the calls it
makes return; nothing is assumed of arrivals, claims or crashes. `SourceLease`:
weak fairness of the study's steps, for the same reason. `TrackerLocks`: weak
fairness of each call's acquisitions and releases; a call makes finitely many,
so a lock is not kept from it for ever. `TrackerWorkers`: threads and calls go on,
studies return, and the launcher polls for ever, as its loop does; nothing is
assumed of users, crashes or time. `CPUStream`: producer and workers go on, time
passes, the clock catches up, `_ensure_worker` brings a stopped stream back (the
bound on troubles lets it stop finitely often), and captures of either sort may
fail but not always: that is the strong fairness of `Push` and `PushVisible`.

## 4. Proofs

The proofs hold for all values of the constants. Assumptions are those named in
the modules (bounds are naturals, process sets are disjoint), plus the ones a
theorem states.

- **AnalysisMailbox.** `IInv` is the type invariant and three parts: who may
  stand where (a worker at work is the one the slot names, or an older one whose
  epoch is gone), how epochs relate the running frame to the visible result, and
  which images are closed. The properties alone are not inductive: that a late
  worker cannot record its result follows from epochs it took long before. From
  `IInv`: `TypeCorrect`, `ResultOwned`, `SingleStudy`, `ImageOwnership`,
  `MonotoneResults`, and `Refinement`, that every step is a step of
  `LatestFrame` or a stutter. `NoFrameStranded` and `StudiesEnd` are the part of
  `EveryFrameLeaves` that single steps can say: a frame in the slot has a living
  worker, or a handler that is about to start one, unless its worker is known dead;
  and a worker that has a frame comes closer to giving it up with each of its steps,
  of which it has at most `6 * (RetryLimit + 1)`, whatever handlers do meanwhile.
- **SourceLease.** `IInv` follows one frame from the study that begins it to the
  state it earns: who owns the source (`BoundInv`), which frame the worker has in
  hand (`StudyInv`), which one the source says is in process (`ProcessInv`), what
  `LIVE`, `ERROR` and the decision rest on (`SettledInv`), where an announced change
  is still remembered (`NewsInv`), how many recoveries the counters account for
  (`BudgetInv`) and what a recovery client may have missed (`SeenInv`). No
  property is inductive alone: that a live source has no news beyond its frame needs
  that the heartbeat which brought the news is at least as recent as the study
  (`beatAge <= sourceAge`), so that when it has aged away the source is stale too;
  that recovery is atomic needs that every change of the source raises its revision.
  All seven safety and action properties of the run are theorems, for any number
  of leases, frames, kills and restarts. So is `AuthorityKept`, that the record
  implements `LeaseAuthority`: a publication is `Show` because the guard it passes
  holds the lock under which the lease is compared. `DecisionsGoForward` adds that
  within one lease the visible decision never goes back to an earlier frame, and
  `StudiesSettle` what single steps say of `EveryStudySettles`: no action but a
  restart touches a study from outside, each of its own steps brings it nearer to its
  end, of which it has at most `6 * (RetryLimit + 1)`, and when it is over no frame is
  in process unless the source was killed.
- **LeaseCache.** `SaveInv`, locks and what a saver has in hand, needs no
  assumption on readers or writes and gives `NoRevert`. `IInv` adds the relation of
  stamps to contents: until the history is disturbed, whatever a process holds, or
  would accept as a hit, is the present record. `Answers` and `HonestCopies` follow
  for any readers, writers, failed replaces and crashes.
- **SessionStore.** `TInv` types everything; that leases do not run out needs that a
  claim is counted once, when it returns. As long as no focus clear and no release
  has saved (`Fenced`), `FInv` holds: nobody holds a session of a later generation
  than the file, or of the same generation and another owner, and what is loaded under
  the lock is of the present one; a save of an earlier generation is skipped. A fence
  that stands after a step stood before it (`FencedBefore`), so `Fenced => FInv` is
  inductive for all calls. It gives `NeverOfEarlierOwner`, `OwnersKept` and
  `AuthorityKept`, that the file implements `LeaseAuthority` for that long, with local
  studies at work. `FramesGoForward` and `LiveKeptOff` need no fence:
  what a study publishes is numbered, has pictures and the file's own execution
  controls, and a save of numbered pictures is skipped or raised to the file's number.
  `ClearKept` needs no assumption on the writers either and rests on `CInv`: while a
  clear lasts the file waits for a focus and fences pictures, an emergency stop under
  the lock has loaded nothing older, and a local study without a focus has none to
  save; every other call that could save pictures or a focus ends the history, as
  `KeepsWaiting` says.
- **StudyGate and TrackerWorkers.** The gate's `IInv` counts the studies that are not
  the gate's own against the times it grew old (`Overlap`; `MutualExclusion` until
  the first). `UsesGate` proves that `TrackerWorkers` implements `StudyGate`, so its
  theorems hold of the threads (`TrackerGateOwned`, `TrackerOverlap`).
  `OrphansCounted`: a thread is lost only when a call that waits for an older thread
  removes the entry of a newer one. `LostInv` accounts for it by counting the
  registered thread as lost while a call waits for another one: no more are lost than
  were started while a call waited. `TrackerTypes` needs a grammar of the plans:
  a wait for a thread stands right after the step that marks it (`Paired`), a call
  that has come to one has marked a thread of that kind or found none (`Waits`), and
  what a worker has yet to run is a remainder of its `finally` clause
  (`WorkerPlans`). `StopsAdvance` is what single steps
  say of `StoppedEnds`: a thread whose stop event is set is at most seven of its own
  steps from its end (its capture, its study, its loop, what is left of its `finally`
  clause), and nothing that starts, repairs or loses threads puts it back.
- **CPUStream.** The producer holds a captured frame or a selected keyframe but
  never both, a selected keyframe is the newest, and the newest keyframe is one of
  the present view (`StreamInv`). From that, for any number of workers: the slot
  holds the newest keyframe (`SlotHoldsNewest`), what is in flight is held by a worker
  (`InFlightIsHeld`), what is published was studied from the newest keyframe and the
  present view (`PublishesPresent`), and no keyframe is studied by two workers at once
  (`OneWorkerEach`: whoever takes one takes it out of the slot, and `KeptApart` says
  that slot, selection and hands never share an identity).
- **TrackerLocks.** A block of more than one lock begins with the tracker lock
  when every study is of an uploaded frame (`FeedsOnly`), so a call that waits
  while it holds something holds the tracker lock; locks have one holder, so a
  circle, which needs two such calls, is impossible (`NoDeadlock`). With local
  studies it is possible (section 5); `OnlyPrunesDeadlock` says, without any
  assumption on what is studied, that it is then always the same one: every circle
  of waits contains a study of the tracker's own capture that prunes artifacts inside
  its commit. `NeverStuck` follows: unless all calls have returned, or a study
  prunes there, some call can take its next step.
- **TradeBridge.** `Locked`: unless launches crowded, whoever is past the launch owns
  the lock, and the only launch under way is alone; `Encounters`: who is refused has
  met a live bridge; `Paid`: presses are twice the trades counted, and one more
  between the two presses of a trade. They give `NeverBlocked` and
  `Capped`, and as a lemma that two bridges trade only where launches crowded
  (`SingleBridge`), which they do (section 5).
  `Forward` adds `Candles`: what a bridge has noted lies under its watermark, its active
  candle is not later than the verdict noted last, nor its last entry later than the
  active candle, whose entry is spent once it is taken or on its way. It assumes
  `Keyed`, that verdicts name their candle by its key (section 5 says what happens
  otherwise).

Only model-checked: liveness (`EveryFrameLeaves`, `EveryStudySettles`,
`EveryCallReturns`, `StoppedEnds`, `Served`, `ScreenIsStudied`), which is out of the
prover's reach. Of the first four the part that speaks of single steps is proved
(`NoFrameStranded` and `StudiesEnd`, `StudiesSettle`, `NeverStuck`, `StopsAdvance`);
what fairness adds is TLC's. The type invariants of the mailbox, the lease, the
cache, the store, the locks, the stream and the bridge are proved and left out of
the runs. The properties of the violation runs are refuted by TLC.

## 5. Findings and observations

Against what a document or a test says (violation runs):

1. **A retried frame is refused** (`SourceLease_retry.cfg`). The mailbox offers a
   rejected frame again with its number; the tracker has already counted it and
   raises "External frame_id did not advance" (WT 33585). The test of the retry uses
   a stub that does not count.
2. **A change of a control undoes an emergency stop** (`SessionStore_halt.cfg`).
   `update_session_controls` loads the session before it takes the lock (WT 35732)
   and saves `live_execution_enabled` as it was.
3. **A local study can deadlock with a control operation**
   (`TrackerLocks_local.cfg`). The prune of artifacts takes the tracker lock inside
   the commit lock, against `docs/architecture/PHOENIXGUARD_V3_CPU_STREAMING_ARCHITECTURE.md`,
   lines 171-175. Leased studies are safe: their guard holds the tracker lock
   already.
4. **A refused instance of the bridge lets a third one trade**
   (`TradeBridge_refused.cfg`). `main` acquires the lock inside the `try` whose
   `finally` clause releases it (TB 2194, 2381), and the release removes the file
   whoever made it. The comment at TB 292-294 says that "a live owner still refuses a
   second instance"; it does, and the refusal removes the live owner's lock.

Behaviour met while modelling that has no run of its own. The properties are stated
around it, by an exception, a history variable or an assumption; most was met as a
counterexample to a stronger form of one. Where a document or comment says otherwise,
that is noted:

- *Lease cache.* A lock-free reader stores what it read under a stamp taken a second
  time (WT 43435), and a save that went to the last-good file leaves the stamp as it
  was, so that after a crash an old sidecar is accepted (WT 6539), whereas the comment
  at WT 43444-43445 counts on the authoritative session after an interrupted write.
  Both are `disturbed`.
- *Study gate.* A study that returns late frees the gate of the study that took over
  (WT 37400): `OverlapBounded` allows for it.
- *Session store.* A local study passes the publication guard after a claim (WT
  36896-36898) and shows its pixels under the new owner; the architecture document
  (148-149), in its paragraph on uploads, has "A source switch discards superseded
  publication", which is true of uploads only, and `NoEarlierOwner` speaks of theirs. A
  focus clear writes a killed owner back (WT 34272). A release resets the generation to
  zero (WT 33016), after which an older session passes for a newer one: `Fenced`. A
  publication whose study began while the tracker ran turns tracking on again after a
  stop (WT 42520). Early pictures overtake a newer vote (WT 41587). A local study that
  finds no focus saves the session as it loaded it, with live execution as it was before
  an emergency stop (WT 40033-40044). A release or kill that loaded before a local
  study's publication overwrites it, the frame number included (WT 33016, 33236).
- *Focus clears.* A clear lasts until something gives the session a focus or takes it
  out of `awaiting_focus`, and not every such thing is a choice of the user: an upload
  on a claimed source turns the focus region on again (WT 33784-33789), the outcome of an
  uploaded study, a kill, a release and a crash handler change the status, and so does
  arming the selector when no window is found (WT 34317-34423), after which a capture
  in flight is shown. A stop, start or change of a setting that loaded the session
  before the clear brings its focus back. Each ends `cleared`.
- *Tracker worker.* A stop that waits for an old worker removes the entry of a new
  one, which no later stop reaches (WT 37175, 36756): what `crossed` counts. A start
  that meets a worker on its way out starts none (WT 37140); a session that has
  published nothing yet then counts as "warming" for ever
  (`runtime/tracker_bootstrap.py` 155-170): the second disjunct of `Served`.
- *CPU stream.* The heartbeat of a frozen picture can take the place of the recovery
  capture when the slot becomes free during a capture (WT 36443): the premise of
  `ScreenIsStudied`. After a recovery, frozen frames and recovered ones are accepted
  in turn. After a backward step of the clock all frames are rejected until it
  catches up. With two workers, a requeued keyframe that the second one takes is
  cleared from flight by the end of the first.
- *Trade bridge.* Two launches that overlap can both get in: a lock just created reads
  as process 0, which is dead, and it is unlinked after the check (`crowded`, like
  finding 4). A bridge that is launched again within a candle enters it again, whereas
  the repository's README.md, 166-167, promises "at most one entry per observed candle":
  the trigger state is in memory (TB 152-166, 2192-2257), and `EntriesForward` and
  `ContractsCapped` speak of one process. A refusal after `should_trigger` uses the
  candle's only entry up. The confirmation compares `candle_key` alone, so that verdicts
  which name their candle by a sequence only may enter one twice (`Keyed = FALSE`). The
  watermark includes the newest sidecar, so that an old answer to a poll is not seen to
  be old (`masked`).

## 6. Not modelled, and the plan

Not modelled in any module: the content of frames and decisions, wall-clock
time beyond the thresholds the code compares with, equal file stamps for different
saves, feed status rows, and the components marked so in `PROJECT.json`. The
backend has about 190,000 lines; most are numerical, vision and decision code and
response building, which keep no state between actors and have no protocol to
check, and the models stay with the part that has.

Hazards without a property, each with its note in `PROJECT.json`: a kill fenced by
the exact current lease that is refused because the source is in error (WT 33204),
where the code's intention is not stated; the freshness key of the last-good file
(WT 6518), which compares capture times and counters that the models keep as one
number; and three that do go wrong in the code, which the properties exempt and
section 5 describes: the lookup that holds no lock (WT 43435), the save to the
last-good file (WT 6539) and the heartbeat in place of a recovery capture (WT 36443).

What would come next, in order:

1. The display state file and the last-good freshness key, as a second file beside
   `SessionStore`'s, with loads that choose between them.
2. The composition of `AnalysisMailbox` and `SourceLease`: a frame's way from upload
   to a usable decision, with the lease checked before the upload is awaited. The
   product of the two state spaces needs a coarser mailbox, for which `LatestFrame`
   is the candidate.
3. The MT4 file protocol. A module of it has to contain the bridge's command file,
   which stays if the bridge dies; the expert advisor's poll, `OrderSend`, stop
   attachment (a position whose stops cannot be attached is closed and not recorded,
   so that the next poll opens it again) and `SavePersistentState`, with a crash
   between the two; and the check `IDENTITY_NOT_ADVANCING`, which refuses everything
   after the tracker's counters have started again. The expert advisor is written in
   MQL4, and its acknowledgements are read by the bridge in `Backend/tools`.
4. Feed runtime rows, whose expiry and replacement by concurrent requests affect
   what a dashboard is told, and the singleton guard of the API process, a lock file
   in the manner of `TradeBridge`'s.
5. What single steps say of `Served` and `ScreenIsStudied`: which of the launcher's
   and the producer's steps bring the next study nearer.
