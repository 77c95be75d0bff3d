------------------------------- MODULE CPUStream -------------------------------
(***************************************************************************)
(* The CPU stream of one session: a producer captures the window several   *)
(* times a second, the observer (vision/cpu_stream_v3.py) decides which    *)
(* frames are keyframes, and workers study them through a slot for one     *)
(* waiting keyframe (mobile_api/window_tracker.py).                        *)
(*                                                                         *)
(* A frame is the picture it shows and the view (identity and geometry of  *)
(* the window) it was taken of.  Keyframes have an identity in place of    *)
(* their sequence number, used again when nobody refers to them; newest is *)
(* the one the observer selected last.  The capture may be frozen: the     *)
(* window's own pixels no longer follow the screen, and only the visible   *)
(* recovery capture shows it.  Time is what has elapsed of the intervals   *)
(* that the code compares with.  A stream that was stopped leaves nothing  *)
(* but the keyframes in the hands of workers.                              *)
(***************************************************************************)
EXTENDS Naturals

CONSTANTS
    Workers,        \* threads that study; more than one if a worker was lost
    MaxKeyframes,   \* bound: keyframes that anyone refers to at a time
    None,
    MaxPictures,    \* bound: changes of the picture on the screen
    MaxViews,       \* bound: changes of the window's identity or geometry
    MaxFreezes,     \* bound: how often the capture freezes
    MaxTroubles,    \* bound: stopped streams and backward steps of the clock
    Threshold,      \* duplicates in a row that ask for a recovery capture
    RequeueLimit    \* how often a keyframe is put back: 2

ASSUME StreamAssumption ==
    /\ None \notin Nat
    /\ None \notin [id : Nat, picture : Nat, view : Nat, attempts : Nat]
    /\ None \notin [picture : Nat, view : Nat, visible : BOOLEAN]
    /\ {MaxKeyframes, MaxPictures, MaxViews, MaxFreezes, MaxTroubles, RequeueLimit} \subseteq Nat
    /\ Threshold \in Nat \ {0}

VARIABLES
    screen, view,     \* what a capture of the visible window would show
    surface,          \* the picture an offscreen capture shows
    open,             \* the stream is registered
    shot,             \* the frame that was captured and not yet pushed
    previous,         \* the picture pushed last in this generation
    seenView,         \* the view of this generation
    newest,           \* the keyframe selected last in this generation
    elapsed,          \* since then: 0, the minimum interval (1), the heartbeat (2)
    behind,           \* the clock is before the last observation
    streak, pending,  \* duplicates in a row, and the recovery they ask for
    rested,           \* the minimum time between two recoveries has passed
    chosen,           \* the keyframe that is selected and not yet in the slot
    latest, inFlight, \* the slot, and the keyframe that was taken from it
    held, stage,      \* of each worker: its keyframe and what it does with it
    freezes, troubles \* how often these happened

window   == <<screen, view, surface, freezes>>
observer == <<previous, seenView, newest, elapsed, behind>>
recovery == <<streak, pending, rested>>
slot     == <<latest, inFlight>>
workers  == <<held, stage>>
streamVars == <<window, open, shot, observer, recovery, chosen, slot, workers, troubles>>

StreamInit ==
    /\ screen = 0 /\ view = 0 /\ surface = 0
    /\ open = FALSE /\ shot = None /\ chosen = None
    /\ previous = None /\ seenView = None /\ newest = None /\ elapsed = 2 /\ behind = FALSE
    /\ streak = 0 /\ pending = FALSE /\ rested = TRUE
    /\ latest = None /\ inFlight = None
    /\ held = [w \in Workers |-> None]
    /\ stage = [w \in Workers |-> "idle"]
    /\ freezes = 0 /\ troubles = 0

Free == latest = None /\ inFlight = None

-----------------------------------------------------------------------------
(* The producer *)

\* One round of the loop up to the capture.  A recovery that was asked for
\* takes its turn once the slot is free.
Capture ==
    /\ open /\ shot = None /\ chosen = None
    /\ LET visible == pending /\ Free
       IN  /\ shot' = [picture |-> IF visible THEN screen ELSE surface,
                       view |-> view, visible |-> visible]
           /\ pending' = (pending /\ ~visible)
           /\ rested' = (rested /\ ~visible)
    /\ UNCHANGED <<window, open, observer, streak, chosen, slot, workers, troubles>>

\* The capture or the recovery raises: the loop goes on with the next round.
CaptureFails ==
    /\ shot # None
    /\ shot' = None
    /\ UNCHANGED <<window, open, observer, recovery, chosen, slot, workers, troubles>>

NewGeneration == seenView # shot.view
Before == IF NewGeneration THEN None ELSE previous

\* What the frame is beside the one before it.  How large a change is shows in
\* the pixels only.
States ==
    IF Before = None THEN {"keyframe"}
    ELSE IF shot.picture = Before THEN {"duplicate"}
    ELSE {"rest", "motion", "material_change"}

\* Mutant: nothing but a change of the picture is a reason for a heartbeat.
HeartbeatIfChanged(state) ==
    Free /\ ~shot.visible /\ elapsed = 2 /\ state # "duplicate"

Heartbeat(state) == Free /\ ~shot.visible /\ elapsed = 2

\* _select_keyframe, and the first frame of a generation, which is not asked
\* whether the slot is free.
Accepted(state) ==
    \/ state = "keyframe"
    \/ shot.visible /\ Free /\ state # "duplicate"
    \/ state = "material_change" /\ Free /\ elapsed >= 1
    \/ state # "material_change" /\ Heartbeat(state)

\* Duplicates ask for a recovery; everything else ends the streak.
Recovered(state) ==
    IF state = "duplicate"
    THEN /\ streak' = IF streak < Threshold THEN streak + 1 ELSE streak
         /\ pending' = (~shot.visible /\ streak' >= Threshold /\ rested)
    ELSE streak' = 0 /\ pending' = FALSE

Known  == {latest, chosen} \cup {held[w] : w \in Workers}
Used   == {newest, inFlight} \cup {k.id : k \in Known \ {None}}
Unused == 1 .. MaxKeyframes \ Used

\* The observer takes the frame, under the lock of the stream.
Push ==
    /\ shot # None /\ ~behind
    /\ \E state \in States :
         /\ Recovered(state)
         /\ IF Accepted(state)
            THEN /\ Unused # {}
                 /\ newest' = CHOOSE k \in Unused : TRUE
                 /\ chosen' = [id |-> newest', picture |-> shot.picture, view |-> shot.view,
                               attempts |-> 0]
                 /\ elapsed' = 0
            ELSE UNCHANGED <<chosen, newest, elapsed>>
    /\ previous' = shot.picture
    /\ seenView' = shot.view
    /\ shot' = None
    /\ UNCHANGED <<window, open, behind, rested, slot, workers, troubles>>

\* A frame that is not later than the last one is rejected, whatever it shows.
PushRejected ==
    /\ shot # None /\ behind
    /\ streak' = 0 /\ pending' = FALSE
    /\ shot' = None
    /\ UNCHANGED <<window, open, observer, rested, chosen, slot, workers, troubles>>

\* The selected keyframe replaces what waits in the slot.
Store ==
    /\ chosen # None
    /\ latest' = chosen
    /\ chosen' = None
    /\ UNCHANGED <<window, open, shot, observer, recovery, inFlight, workers, troubles>>

-----------------------------------------------------------------------------
(* The workers *)

Take(w) ==
    /\ stage[w] = "idle" /\ open /\ latest # None
    /\ held' = [held EXCEPT ![w] = latest]
    /\ stage' = [stage EXCEPT ![w] = "studying"]
    /\ inFlight' = latest.id
    /\ latest' = None
    /\ UNCHANGED <<window, open, shot, observer, recovery, chosen, troubles>>

\* Mutant: any keyframe of a stream that is there may be published.
CurrentIfOpen(k) == open

\* The publication guard: the keyframe is still the observer's newest.
Current(k) == open /\ k.id = newest

\* What the study has found is shown.
Publish(w) ==
    /\ stage[w] = "studying" /\ Current(held[w])
    /\ stage' = [stage EXCEPT ![w] = "published"]
    /\ UNCHANGED <<window, open, shot, observer, recovery, chosen, slot, held, troubles>>

\* The study ends and shows nothing.
Drop(w) ==
    /\ stage[w] = "studying"
    /\ stage' = [stage EXCEPT ![w] = "ending"]
    /\ UNCHANGED <<window, open, shot, observer, recovery, chosen, slot, held, troubles>>

\* The gate, or the capture surface, refuses the study.
Refuse(w) ==
    /\ stage[w] = "studying"
    /\ stage' = [stage EXCEPT ![w] = "refused"]
    /\ UNCHANGED <<window, open, shot, observer, recovery, chosen, slot, held, troubles>>

\* Mutant: a refused keyframe is put back although a newer one was selected.
ReturnableOld(k) == latest = None /\ k.attempts < RequeueLimit

Returnable(k) == k.id = newest /\ latest = None /\ k.attempts < RequeueLimit

\* The slot of the registered stream, be it the one the keyframe came from.
Requeue(w) ==
    /\ stage[w] = "refused"
    /\ stage' = [stage EXCEPT ![w] = "ending"]
    /\ inFlight' = IF open /\ inFlight = held[w].id THEN None ELSE inFlight
    /\ latest' = IF open /\ Returnable(held[w])
                 THEN [held[w] EXCEPT !.attempts = @ + 1] ELSE latest
    /\ UNCHANGED <<window, open, shot, observer, recovery, chosen, held, troubles>>

\* Mutant: the keyframe in flight is cleared by a study that was published only.
ClearedIfShown(w) == open /\ inFlight = held[w].id /\ stage[w] = "published"

Cleared(w) == open /\ inFlight = held[w].id

\* The finally clause.
Finish(w) ==
    /\ stage[w] \in {"published", "ending"}
    /\ stage' = [stage EXCEPT ![w] = "idle"]
    /\ held' = [held EXCEPT ![w] = None]
    /\ inFlight' = IF Cleared(w) THEN None ELSE inFlight
    /\ UNCHANGED <<window, open, shot, observer, recovery, chosen, latest, troubles>>

-----------------------------------------------------------------------------
(* The window, the time and the life of the stream *)

Frozen == surface # screen

\* The picture changes; the offscreen capture follows unless it freezes.
Change ==
    /\ screen < MaxPictures
    /\ screen' = screen + 1
    /\ \/ surface' = screen' /\ UNCHANGED freezes
       \/ /\ freezes < MaxFreezes \/ Frozen
          /\ surface' = surface
          /\ freezes' = IF Frozen THEN freezes ELSE freezes + 1
    /\ UNCHANGED <<view, open, shot, observer, recovery, chosen, slot, workers, troubles>>

Move ==
    /\ view < MaxViews
    /\ view' = view + 1
    /\ UNCHANGED <<screen, surface, freezes, open, shot, observer, recovery, chosen, slot,
                   workers, troubles>>

Elapse ==
    /\ elapsed < 2
    /\ elapsed' = elapsed + 1
    /\ UNCHANGED <<window, open, shot, previous, seenView, newest, behind, recovery, chosen, slot,
                   workers, troubles>>

Rest ==
    /\ ~rested
    /\ rested' = TRUE
    /\ UNCHANGED <<window, open, shot, observer, streak, pending, chosen, slot, workers,
                   troubles>>

\* The clock is set back, or a step forward was undone.
StepBack ==
    /\ open /\ previous # None /\ ~behind /\ troubles < MaxTroubles
    /\ behind' = TRUE
    /\ troubles' = troubles + 1
    /\ UNCHANGED <<window, open, shot, previous, seenView, newest, elapsed, recovery, chosen, slot,
                   workers>>

CatchUp ==
    /\ behind
    /\ behind' = FALSE
    /\ UNCHANGED <<window, open, shot, previous, seenView, newest, elapsed, recovery, chosen, slot,
                   workers, troubles>>

\* The stream and all it knows are dropped.
Stop ==
    /\ open /\ troubles < MaxTroubles
    /\ troubles' = troubles + 1
    /\ open' = FALSE /\ shot' = None /\ chosen' = None
    /\ previous' = None /\ seenView' = None /\ newest' = None /\ elapsed' = 2 /\ behind' = FALSE
    /\ streak' = 0 /\ pending' = FALSE /\ rested' = TRUE
    /\ latest' = None /\ inFlight' = None
    /\ UNCHANGED <<window, workers>>

\* _ensure_worker starts a stream with a new observer.
Start ==
    /\ ~open
    /\ open' = TRUE
    /\ UNCHANGED <<window, shot, observer, recovery, chosen, slot, workers, troubles>>

Observe == Capture \/ Push \/ PushRejected \/ Store
WorkerStep(w) == Take(w) \/ Publish(w) \/ Drop(w) \/ Refuse(w) \/ Requeue(w) \/ Finish(w)

StreamNext ==
    \/ Observe \/ CaptureFails
    \/ \E w \in Workers : WorkerStep(w)
    \/ Change \/ Move \/ Elapse \/ Rest \/ StepBack \/ CatchUp \/ Stop \/ Start

PushVisible == Push /\ shot.visible

\* Captures of either sort may fail, but not every one of them.
StreamSpec ==
    /\ StreamInit /\ [][StreamNext]_streamVars
    /\ SF_streamVars(Push) /\ SF_streamVars(PushVisible) /\ WF_streamVars(Observe)
    /\ \A w \in Workers : WF_streamVars(WorkerStep(w))
    /\ WF_streamVars(Elapse) /\ WF_streamVars(Rest) /\ WF_streamVars(CatchUp) /\ WF_streamVars(Start)

-----------------------------------------------------------------------------
(* Properties *)

\* Frames, keyframes and stages have their types; a keyframe is put back as
\* often as the limit says; a stream that is not registered holds nothing.
StreamTypeOK ==
    /\ screen \in 0 .. MaxPictures /\ surface \in 0 .. screen /\ view \in 0 .. MaxViews
    /\ shot = None \/ shot \in [picture : 0 .. screen, view : 0 .. view, visible : BOOLEAN]
    /\ Used \subseteq 1 .. MaxKeyframes \cup {None}
    /\ Known \ {None} \subseteq [id : Used, picture : 0 .. screen, view : 0 .. view,
                                attempts : 0 .. RequeueLimit]
    /\ \A w \in Workers :
         /\ stage[w] \in {"idle", "studying", "published", "refused", "ending"}
         /\ stage[w] = "idle" <=> held[w] = None
    /\ elapsed \in 0 .. 2 /\ streak \in 0 .. Threshold /\ {pending, rested, behind, open} \subseteq BOOLEAN
    /\ ~open => {shot, chosen, latest, inFlight, newest} = {None}

\* What waits in the slot is the newest keyframe, unless a newer one is on its
\* way there: a keyframe that is put back never stands before a newer one.
SlotNewest == latest # None =>
    latest.id = newest \/ (chosen # None /\ chosen.id = newest)

\* The keyframe in flight is in the hands of a worker: with none studying it,
\* the slot would count as busy and no change of the screen would be studied.
InFlightHeld == inFlight # None => \E w \in Workers : held[w] # None /\ held[w].id = inFlight

\* A study is published only while its keyframe is the one that the registered
\* stream selected last, and shows the window as that stream sees it then: never
\* a keyframe that another one has replaced, an earlier view, or a stream that
\* was stopped, however long the study took and wherever its keyframe has been.
PublishesPresentView ==
    [][\A w \in Workers : stage[w] # "published" /\ stage'[w] = "published" =>
           open /\ held[w].id = newest /\ held[w].view = seenView]_streamVars

\* The slot was taken when a capture began that a recovery was due for, and is
\* free before the frame is pushed: the frame may take it as a heartbeat.
Straddled == shot # None /\ ~shot.visible /\ pending /\ Free

\* What is on the screen is studied again and again, although changes are
\* dropped while the slot is busy, captures freeze and the clock steps back;
\* the slot must not, for ever, become free while a capture is on its way.
ScreenIsStudied ==
    <>[]~Straddled => []<>(\E w \in Workers : stage[w] = "studying" /\ held[w].picture = screen)
=============================================================================
