----------------------------- MODULE SessionStore -----------------------------
(***************************************************************************)
(* The session file of one session and its writers                         *)
(* (mobile_api/window_tracker.py).  Every writer reads the whole session,  *)
(* changes a part, and saves the whole under the commit lock, where        *)
(* _save_session_committed decides whether it is too old.  Some load and   *)
(* save inside one block of the tracker lock; others load first, stop the  *)
(* worker or wait for the lock, and save what they loaded.  A study loads  *)
(* at its start and publishes three times, seconds later: its pictures,    *)
(* the model's signal, and the whole.  The request of an uploaded frame    *)
(* saves the session before its study and once more after it.              *)
(*                                                                         *)
(* A call stands for one request and is made once.  frame_index,           *)
(* capture_count and display_frame_id are one number; the display state,   *)
(* which has a file of its own, is left out, and so are the writers that   *)
(* load and save inside one lock and change nothing that is kept here.     *)
(***************************************************************************)
EXTENDS Naturals, FiniteSets, FiniteSetsExt

CONSTANTS
    Claims, Kills, Releases,   \* of the chart source
    Emergencies,               \* emergency stops
    Starts, Stops,             \* of the tracker
    Settings,                  \* changes of the execution controls
    FocusSets, FocusClears,
    Selectors,                 \* of the focus selector and of a demo trade: they
                               \* save what they loaded, with other fields changed
    Crashes,                   \* handlers of a crashed worker
    LeasedStudies,       \* studies of a frame uploaded under a lease
    LocalStudies,        \* studies of the tracker's own capture that no stop
                         \* waits for: manual, or of a worker that is too slow
    Tracking, Live       \* is the tracker on, and live execution, at first?

\* Load and save inside one block of the tracker lock, or load before it.
Insiders  == Claims \cup Kills \cup Releases \cup Emergencies
Outsiders == Starts \cup Stops \cup Settings \cup FocusSets \cup FocusClears \cup Selectors
Studies   == LeasedStudies \cup LocalStudies
Calls     == Insiders \cup Outsiders \cup Crashes \cup Studies

ASSUME StoreAssumption ==
    /\ IsFiniteSet(Claims)
    /\ Insiders \cap (Outsiders \cup Crashes \cup Studies) = {}
    /\ (Outsiders \cup Crashes) \cap Studies = {}
    /\ LeasedStudies \cap LocalStudies = {}
    /\ FocusClears \cap (Starts \cup Stops \cup Settings \cup FocusSets \cup Selectors \cup Crashes) = {}
    /\ (Emergencies \cup Starts \cup Stops \cup Settings)
         \cap (Claims \cup Kills \cup Releases \cup FocusSets \cup Selectors \cup Crashes) = {}
    /\ Tracking \in BOOLEAN /\ Live \in BOOLEAN

VARIABLES
    file,      \* the saved session
    pc,        \* where each call is
    copy,      \* the session as each call has loaded and changed it
    number,    \* the frame number of each study
    lease,     \* the lease under which a study's frame was uploaded
    issued,    \* leases issued so far
    started,   \* did the study begin while the tracker was on?
    halted,    \* history: live execution was stopped, and not allowed since
    cleared    \* history: the focus was cleared, and nothing since has ended the
               \* waiting for one, or saved a session loaded before

calls   == <<pc, copy, number, lease, started>>
history == <<halted, cleared>>
vars    == <<file, calls, issued, history>>

\* Whose pixels the visible signal of a session was made of.
NoEvidence  == [of |-> "none", lease |-> 0]
LocalPixels == [of |-> "local", lease |-> 0]
Uploaded(l) == [of |-> "lease", lease |-> l]

Leases   == 0 .. Cardinality(Claims)
Evidence == {NoEvidence, LocalPixels} \cup {Uploaded(l) : l \in Leases}

Session ==
    [owner    : Leases,          \* the lease of capture_source_v3, 0 if none
     gen      : Nat,             \* its source_generation
     frame    : Nat,             \* frame_index
     shown    : Nat,             \* overlay_frame_id
     voted    : Nat,             \* model_vote_frame_id
     evidence : Evidence,
     pictures : BOOLEAN,         \* paths of windows, charts and overlays
     focus    : BOOLEAN,         \* manual_focus_region.enabled
     awaited  : BOOLEAN,         \* status is awaiting_focus
     tracking : BOOLEAN,         \* tracking_enabled
     live     : BOOLEAN]         \* execution_controls.live_execution_enabled

Fresh ==
    [owner |-> 0, gen |-> 0, frame |-> 0, shown |-> 0, voted |-> 0,
     evidence |-> NoEvidence, pictures |-> FALSE, focus |-> TRUE,
     awaited |-> FALSE, tracking |-> Tracking, live |-> Live]

Init ==
    /\ file = Fresh
    /\ pc = [c \in Calls |-> "new"]
    /\ copy = [c \in Calls |-> Fresh]
    /\ number = [c \in Studies |-> 0]
    /\ lease = [c \in Studies |-> 0]
    /\ started = [c \in Studies |-> FALSE]
    /\ issued = 0
    /\ halted = FALSE /\ cleared = FALSE

-----------------------------------------------------------------------------
(* _save_session_committed *)

\* Mutant: the generations are not compared.
OlderSourceNever(p) == FALSE

\* The payload was loaded under an earlier owner of the source.
OlderSource(p) == file.gen > p.gen

\* Mutant: a capture is shown whatever became of the focus.
FocusGoneNever(p) == FALSE

\* The focus was cleared while the capture was on its way.
FocusGone(p) == p.pictures /\ ~file.tracking /\ ~file.focus /\ file.awaited

\* The overlay or the vote is not older than the saved one.
Current(p) ==
    /\ p.pictures
    /\ \/ p.voted > 0 /\ p.voted >= file.voted
       \/ p.shown > 0 /\ p.shown >= file.shown

\* Mutant: pictures are saved whatever their number.
OlderFrameNever(p) == FALSE

\* The payload carries pictures of an earlier frame.
OlderFrame(p) ==
    /\ p.pictures /\ ~Current(p)
    /\ p.frame > 0 /\ file.frame > 0 /\ p.frame < file.frame

Skipped(p) == OlderSource(p) \/ FocusGone(p) \/ OlderFrame(p)

\* A current overlay is saved under the newest frame number.
Merged(p) ==
    IF Current(p) /\ p.frame < file.frame THEN [p EXCEPT !.frame = file.frame] ELSE p

\* What a save leaves in the file, without and with __control_write_v3.
Saved(p)        == IF Skipped(p) THEN file ELSE Merged(p)
SavedControl(p) == Merged(p)

-----------------------------------------------------------------------------
(* Control calls *)

LockFree == \A c \in Insiders : pc[c] # "locked"

Goto(c, l) == pc' = [pc EXCEPT ![c] = l]

\* The session is loaded, and the worker stopped where the call does so, before
\* the tracker lock is asked for.
Load(c) ==
    /\ c \in Outsiders \cup Crashes
    /\ pc[c] = "new"
    /\ copy' = [copy EXCEPT ![c] = file]
    /\ Goto(c, "loaded")
    /\ UNCHANGED <<file, number, lease, started, issued, history>>

\* The session is loaded under the lock that is held until it is saved.
LoadLocked(c) ==
    /\ c \in Insiders
    /\ pc[c] = "new" /\ LockFree
    /\ copy' = [copy EXCEPT ![c] = file]
    /\ Goto(c, "locked")
    /\ UNCHANGED <<file, number, lease, started, issued, history>>

\* A session in which the focus was cleared.
Blank(p)   == ~p.focus /\ ~p.pictures
Waiting(p) == Blank(p) /\ ~p.tracking /\ p.awaited

\* A call that leaves a cleared session waiting: it loads it under the lock, or
\* loaded it when it was waiting.
KeepsWaiting(c) ==
    \/ c \in Emergencies \cup Studies
    \/ c \in Starts \cup Stops \cup Settings /\ Waiting(copy[c])

\* The end of a call: f is the file it leaves.
Return(c, f) ==
    /\ file' = f
    /\ Goto(c, "done")
    /\ cleared' = (c \in FocusClears \/ (cleared /\ KeepsWaiting(c)))
    /\ UNCHANGED <<copy, number, lease, started>>

\* Saving under the tracker lock, after a load under it or before it.
InLock(c) == pc[c] = "locked" \/ (pc[c] = "loaded" /\ c \in Outsiders /\ LockFree)

\* claim_external_source: another owner, nothing of the earlier one is shown.
Claim(c) ==
    /\ c \in Claims /\ InLock(c)
    /\ issued' = issued + 1
    /\ Return(c, SavedControl([copy[c] EXCEPT
           !.owner = issued + 1, !.gen = @ + 1, !.evidence = NoEvidence,
           !.pictures = FALSE, !.focus = TRUE, !.awaited = FALSE, !.tracking = FALSE]))
    /\ UNCHANGED halted

\* kill_external_source: the pictures stay, as history.
Kill(c) ==
    /\ c \in Kills /\ InLock(c)
    /\ Return(c, SavedControl([copy[c] EXCEPT
           !.owner = 0, !.gen = @ + 1, !.evidence = NoEvidence,
           !.awaited = FALSE, !.tracking = FALSE]))
    /\ UNCHANGED <<issued, halted>>

\* heartbeat_external_source_v3 releases the lease of a frame that no study
\* accepts; the source starts again from generation zero.
Release(c) ==
    /\ c \in Releases /\ InLock(c)
    /\ Return(c, IF copy[c].owner = 0 THEN file ELSE SavedControl([copy[c] EXCEPT
           !.owner = 0, !.gen = 0, !.evidence = NoEvidence,
           !.awaited = FALSE, !.tracking = FALSE]))
    /\ UNCHANGED <<issued, halted>>

\* emergency_stop_session
EmergencyStop(c) ==
    /\ c \in Emergencies /\ InLock(c)
    /\ Return(c, Saved([copy[c] EXCEPT
           !.live = FALSE, !.tracking = FALSE, !.awaited = ~copy[c].focus]))
    /\ halted' = TRUE
    /\ UNCHANGED issued

\* start_session: refused without a focus, a repair when the session says that
\* it is running, and otherwise a new beginning.  A session that is tracked and
\* does not wait for a focus may still be in another state than running.
Start(c) ==
    /\ c \in Starts /\ InLock(c)
    /\ \/ /\ ~copy[c].focus
          /\ Return(c, Saved([copy[c] EXCEPT
                 !.tracking = FALSE, !.awaited = TRUE, !.evidence = NoEvidence]))
       \/ /\ copy[c].focus /\ copy[c].tracking /\ ~copy[c].awaited
          /\ \E workerAlive \in BOOLEAN :
                 Return(c, IF workerAlive THEN file ELSE Saved(copy[c]))
       \/ /\ copy[c].focus
          /\ Return(c, Saved([copy[c] EXCEPT
                 !.tracking = TRUE, !.awaited = FALSE, !.evidence = NoEvidence]))
    /\ UNCHANGED <<issued, halted>>

\* stop_session
Stop(c) ==
    /\ c \in Stops /\ InLock(c)
    /\ Return(c, Saved([copy[c] EXCEPT !.tracking = FALSE, !.awaited = ~copy[c].focus]))
    /\ UNCHANGED <<issued, halted>>

\* update_session_controls: what the request does not name is kept as loaded.
Set(c) ==
    /\ c \in Settings /\ InLock(c)
    /\ \/ /\ Return(c, Saved(copy[c]))
          /\ UNCHANGED halted
       \/ \E live \in BOOLEAN :
              /\ Return(c, Saved([copy[c] EXCEPT !.live = live]))
              /\ halted' = (halted /\ ~live)
    /\ UNCHANGED issued

\* set_focus_region
SetFocus(c) ==
    /\ c \in FocusSets /\ InLock(c)
    /\ Return(c, Saved([copy[c] EXCEPT
           !.focus = TRUE, !.awaited = FALSE, !.evidence = NoEvidence, !.pictures = FALSE]))
    /\ UNCHANGED <<issued, halted>>

\* clear_focus_region is a control write of what was loaded before.
ClearFocus(c) ==
    /\ c \in FocusClears /\ InLock(c)
    /\ Return(c, SavedControl([copy[c] EXCEPT
           !.focus = FALSE, !.awaited = TRUE, !.evidence = NoEvidence,
           !.pictures = FALSE, !.tracking = FALSE]))
    /\ UNCHANGED <<issued, halted>>

\* arm_focus_selector ends the waiting for a focus when it finds no window;
\* cancel_focus_selector, the selector's callbacks and execute_demo_random_trade
\* keep what they have loaded.
Select(c) ==
    /\ c \in Selectors /\ InLock(c)
    /\ \/ Return(c, Saved(copy[c]))
       \/ Return(c, Saved([copy[c] EXCEPT !.awaited = FALSE]))
    /\ UNCHANGED <<issued, halted>>

\* The handler of a crashed worker saves under the commit lock alone.
Crash(c) ==
    /\ c \in Crashes /\ pc[c] = "loaded"
    /\ Return(c, Saved([copy[c] EXCEPT
           !.tracking = FALSE, !.awaited = FALSE, !.evidence = NoEvidence]))
    /\ UNCHANGED <<issued, halted>>

Control(c) ==
    \/ Load(c) \/ LoadLocked(c)
    \/ Claim(c) \/ Kill(c) \/ Release(c) \/ EmergencyStop(c)
    \/ Start(c) \/ Stop(c) \/ Set(c) \/ SetFocus(c) \/ ClearFocus(c)
    \/ Select(c) \/ Crash(c)

-----------------------------------------------------------------------------
(* Studies *)

\* ingest_external_frame has proved the lease of an uploaded frame: its pixels
\* are the focus, and the tracker's own capture is over.
Ingest(c) ==
    /\ c \in LeasedStudies
    /\ pc[c] = "new" /\ LockFree /\ file.owner # 0
    /\ lease' = [lease EXCEPT ![c] = file.owner]
    /\ file' = Saved([file EXCEPT !.focus = TRUE, !.awaited = FALSE, !.tracking = FALSE])
    /\ Goto(c, "sent")
    /\ cleared' = FALSE
    /\ UNCHANGED <<copy, number, started, issued, halted>>

\* _capture_and_analyze_claimed loads the session.
BeginStudy(c) ==
    /\ c \in Studies
    /\ pc[c] = (IF c \in LeasedStudies THEN "sent" ELSE "new")
    /\ copy' = [copy EXCEPT ![c] = file]
    /\ Goto(c, "loaded")
    /\ UNCHANGED <<file, number, lease, started, issued, history>>

NextFrame(c) ==
    Max({copy[c].frame, file.frame, file.shown, file.voted}) + 1

\* It loads the session again, sees whether the tracker was started meanwhile,
\* and gives the capture a number.  A local capture needs a focus.
Look(c) ==
    /\ c \in Studies /\ pc[c] = "loaded"
    /\ started' = [started EXCEPT ![c] = copy[c].tracking \/ file.tracking]
    /\ IF copy[c].focus \/ c \in LeasedStudies
       THEN /\ number' = [number EXCEPT ![c] = NextFrame(c)]
            /\ copy' = [copy EXCEPT ![c].focus = TRUE, ![c].tracking = @ \/ file.tracking]
            /\ Goto(c, "looked")
       ELSE /\ Goto(c, "unfocused")
            /\ UNCHANGED <<number, copy>>
    /\ UNCHANGED <<file, lease, issued, history>>

AwaitFocus(c) ==
    /\ c \in LocalStudies /\ pc[c] = "unfocused" /\ LockFree
    /\ Return(c, Saved([copy[c] EXCEPT
           !.tracking = FALSE, !.awaited = TRUE, !.evidence = NoEvidence]))
    /\ UNCHANGED <<issued, halted>>

\* Mutant: any owner will do.
SourceCurrentIfHeld(c) == c \in LocalStudies \/ (LockFree /\ file.owner # 0)

\* _external_source_publication_guard_v3 holds the tracker lock while it proves
\* the exact lease; a local capture passes without.
SourceCurrent(c) == c \in LocalStudies \/ (LockFree /\ file.owner = lease[c])

\* Where a study ends: the request of an uploaded frame has its outcome to save.
After(c) == IF c \in LeasedStudies THEN "ending" ELSE "done"

EvidenceOf(c) == IF c \in LeasedStudies THEN Uploaded(lease[c]) ELSE LocalPixels

\* The captured pixels are not the broker's: they are shown, and no signal.
BlockSurface(c) ==
    /\ c \in Studies /\ pc[c] = "looked" /\ SourceCurrent(c)
    /\ file' = Saved([file EXCEPT
           !.frame = number[c], !.evidence = NoEvidence, !.pictures = TRUE,
           !.tracking = started[c] \/ @, !.awaited = FALSE])
    /\ Goto(c, After(c))
    /\ UNCHANGED <<copy, number, lease, started, issued, history>>

\* Under PHOENIXGUARD_DIRECT_BIAS_EARLY_PUBLISH the pictures and the first
\* signal are put into the saved session as soon as they are there; the vote is
\* still the earlier one's.
ShowPictures(c) ==
    /\ c \in Studies /\ pc[c] = "looked" /\ SourceCurrent(c)
    /\ file' = Saved([file EXCEPT
           !.frame = number[c], !.shown = number[c],
           !.voted = IF @ = 0 THEN number[c] ELSE @,
           !.evidence = EvidenceOf(c), !.pictures = TRUE,
           !.tracking = started[c] \/ @, !.awaited = FALSE])
    /\ Goto(c, "pictured")
    /\ UNCHANGED <<copy, number, lease, started, issued, history>>

\* The model's signal follows.
ShowSignal(c) ==
    /\ c \in Studies /\ pc[c] \in {"looked", "pictured"} /\ SourceCurrent(c)
    /\ file' = Saved([file EXCEPT
           !.frame = number[c], !.shown = number[c], !.voted = number[c],
           !.evidence = EvidenceOf(c), !.pictures = TRUE,
           !.tracking = started[c] \/ @, !.awaited = FALSE])
    /\ \E l \in {"signalled", After(c)} : Goto(c, l)
    /\ UNCHANGED <<copy, number, lease, started, issued, history>>

\* Mutant: the execution controls are saved as they were loaded.
LiveOf(c) == copy[c].live

\* Execution controls come from the saved session.
LiveSaved(c) == file.live

\* The complete study is put into the session as it was loaded.
Publish(c) ==
    /\ c \in Studies /\ pc[c] = "signalled" /\ SourceCurrent(c)
    /\ file' = Saved([copy[c] EXCEPT
           !.frame = number[c], !.shown = number[c], !.voted = number[c],
           !.evidence = EvidenceOf(c), !.pictures = TRUE, !.awaited = FALSE,
           !.tracking = started[c] \/ file.tracking, !.live = LiveSaved(c)])
    /\ Goto(c, After(c))
    /\ UNCHANGED <<copy, number, lease, started, issued, history>>

\* A study fails, finds a newer one published, or has lost its source.
GiveUp(c) ==
    /\ c \in Studies /\ pc[c] \in {"sent", "loaded", "looked", "pictured", "signalled"}
    /\ Goto(c, After(c))
    /\ UNCHANGED <<file, copy, number, lease, started, issued, history>>

\* ingest_external_frame ends an accepted study, and
\* fail_external_frame_analysis one that failed, unless the lease was lost or
\* another frame is in process meanwhile.
Settle(c) ==
    /\ c \in LeasedStudies /\ pc[c] = "ending" /\ LockFree
    /\ \/ /\ file.owner = lease[c]
          /\ file' = Saved([file EXCEPT !.awaited = FALSE])
          /\ cleared' = FALSE
       \/ UNCHANGED <<file, cleared>>
    /\ Goto(c, "done")
    /\ UNCHANGED <<copy, number, lease, started, issued, halted>>

Study(c) ==
    \/ Ingest(c) \/ BeginStudy(c) \/ Look(c) \/ AwaitFocus(c)
    \/ BlockSurface(c) \/ ShowPictures(c) \/ ShowSignal(c) \/ Publish(c)
    \/ GiveUp(c) \/ Settle(c)

Next == \E c \in Calls : Control(c) \/ Study(c)

Spec == Init /\ [][Next]_vars

-----------------------------------------------------------------------------
(* Properties *)

Places == {"new", "sent", "loaded", "locked", "looked", "unfocused",
           "pictured", "signalled", "ending", "done"}

\* Sessions and copies are sessions, at most one control call is inside the
\* tracker lock, and leases are those that claims have issued.
TypeOK ==
    /\ file \in Session
    /\ pc \in [Calls -> Places]
    /\ copy \in [Calls -> Session]
    /\ number \in [Studies -> Nat] /\ lease \in [Studies -> Leases]
    /\ started \in [Studies -> BOOLEAN]
    /\ issued \in Leases
    /\ halted \in BOOLEAN /\ cleared \in BOOLEAN
    /\ file.owner <= issued
    /\ \A c, d \in Insiders : pc[c] = "locked" /\ pc[d] = "locked" => c = d

\* Neither a release, after which generations start again, nor a clear, which is
\* not compared with the file, has saved yet: the generation of a session decides
\* its owner.
Fenced == \A c \in Releases \cup FocusClears : pc[c] # "done"

\* A signal of uploaded pixels is one of the present owner's: none is left of an
\* earlier owner, or of a source that was killed.  The tracker's own capture
\* passes under any owner and is not excluded.
NoEarlierOwner ==
    Fenced /\ file.evidence.of = "lease" => file.evidence.lease = file.owner

\* A source gets an owner by a claim only: no save of a session loaded under an
\* earlier owner brings that owner back, be it replaced or killed.
OwnersFromClaims ==
    [][Fenced' /\ file'.owner # file.owner => file'.owner = 0 \/ issued' > issued]_vars

\* A step that publishes the pictures, the signal or the result of a study.
Publication ==
    \E c \in Studies : pc[c] \in {"looked", "pictured", "signalled"} /\ pc'[c] # pc[c]

\* No publication takes the frame number of the session back, in whatever order
\* the studies that overlap come to an end.
FramesForward == [][Publication => file'.frame >= file.frame]_vars

\* After an emergency stop live execution stays off until it is asked for.
LiveStaysOff == halted => ~file.live

\* No publication turns live execution on, however long ago its study loaded the
\* session.
PublicationsKeepLiveOff == [][Publication /\ file'.live => file.live]_vars

\* After the focus was cleared no capture is shown, not one that was on its way
\* either, until a chart is chosen or the focus selector used, a frame uploaded,
\* the waiting for a focus ended, or a session saved that a call had loaded before.
ClearHolds == cleared => ~file.focus /\ ~file.pictures

\* The lease whose uploaded pixels the visible signal was made of, if any.
Attributed == IF file.evidence.of = "lease" THEN file.evidence.lease ELSE 0

\* As long as the fence stands, every step of every writer is one of
\* LeaseAuthority: no save of an older copy brings an owner back, and a signal of
\* uploaded pixels is visible under the lease that brought them, or not at all.
Authority == INSTANCE LeaseAuthority WITH owner <- file.owner, visible <- Attributed
KeepsAuthority ==
    Authority!Init /\ [][Fenced' => [Authority!Next]_(Authority!vars)]_vars
=============================================================================
