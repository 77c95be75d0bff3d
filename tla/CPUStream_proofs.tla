---------------------------- MODULE CPUStream_proofs ----------------------------
(***************************************************************************)
(* What is proved of the CPU stream, for any number of workers, pictures,  *)
(* views and keyframes.  The slot's properties are not inductive: they     *)
(* need that the producer holds a captured frame or a selected keyframe    *)
(* but never both, that the selected one is the newest, and, for what is   *)
(* published, that the newest keyframe is always one of the present view.  *)
(***************************************************************************)
EXTENDS CPUStream, TLAPS

LEMMA Bounds ==
    /\ MaxKeyframes \in Nat /\ MaxPictures \in Nat /\ MaxViews \in Nat /\ RequeueLimit \in Nat
    /\ Threshold \in Nat /\ Threshold > 0 /\ None \notin Nat
    /\ None \notin [id : Nat, picture : Nat, view : Nat, attempts : Nat]
    /\ None \notin [picture : Nat, view : Nat, visible : BOOLEAN]
  BY StreamAssumption

USE Bounds

Ident    == 1 .. MaxKeyframes
Pictured == [id : Ident, picture : 0 .. screen, view : 0 .. view, attempts : 0 .. RequeueLimit]
Stages   == {"idle", "studying", "published", "refused", "ending"}

\* The types, with the set of identities in use written out.
FrameTypes ==
    /\ screen \in Nat /\ screen <= MaxPictures
    /\ surface \in 0 .. screen
    /\ view \in Nat /\ view <= MaxViews
    /\ shot \in [picture : 0 .. screen, view : 0 .. view, visible : BOOLEAN] \cup {None}
    /\ latest \in Pictured \cup {None}
    /\ chosen \in Pictured \cup {None}
    /\ held \in [Workers -> Pictured \cup {None}]
    /\ stage \in [Workers -> Stages]
    /\ \A w \in Workers : stage[w] = "idle" <=> held[w] = None
    /\ newest \in Ident \cup {None}
    /\ inFlight \in Ident \cup {None}

StateTypes ==
    /\ elapsed \in 0 .. 2
    /\ streak \in 0 .. Threshold
    /\ pending \in BOOLEAN /\ rested \in BOOLEAN /\ behind \in BOOLEAN /\ open \in BOOLEAN

ClosedEmpty == ~open =>
    shot = None /\ chosen = None /\ latest = None /\ inFlight = None /\ newest = None

\* The producer is before the observer or behind it.
OneFrame == chosen # None => shot = None /\ chosen.id = newest

\* The newest keyframe is one of the view that the observer sees.
NewestSeen == \A k \in Known \ {None} : k.id = newest => k.view = seenView

StreamInv ==
    /\ FrameTypes /\ StateTypes /\ ClosedEmpty
    /\ OneFrame /\ SlotNewest /\ InFlightHeld /\ NewestSeen

LEMMA StreamStart == StreamInit => StreamInv
<1> SUFFICES ASSUME StreamInit PROVE StreamInv
  OBVIOUS
<1>1. FrameTypes
  <2>1. held \in [Workers -> Pictured \cup {None}] /\ stage \in [Workers -> Stages]
    BY DEF StreamInit, Stages
  <2>2. \A w \in Workers : stage[w] = "idle" <=> held[w] = None
    BY DEF StreamInit
  <2>3. screen = 0 /\ surface = 0 /\ view = 0
    BY DEF StreamInit
  <2>4. shot = None /\ latest = None /\ chosen = None /\ newest = None /\ inFlight = None
    BY DEF StreamInit
  <2>5. 0 <= MaxPictures /\ 0 <= MaxViews /\ 0 \in 0 .. 0
    OBVIOUS
  <2>6. screen \in Nat /\ screen <= MaxPictures /\ surface \in 0 .. screen /\ view \in Nat /\ view <= MaxViews
    BY <2>3, <2>5
  <2> QED
    BY <2>1, <2>2, <2>4, <2>6 DEF FrameTypes
<1>4. StateTypes
  <2>1. elapsed \in 0 .. 2 /\ streak \in 0 .. Threshold
    BY DEF StreamInit
  <2> QED
    BY <2>1, Zenon DEF StreamInit, StateTypes
<1>2. ClosedEmpty /\ OneFrame /\ SlotNewest /\ InFlightHeld
  BY DEF StreamInit, ClosedEmpty, OneFrame, SlotNewest, InFlightHeld
<1>3. NewestSeen
  BY DEF StreamInit, NewestSeen, Known
<1> QED
  BY <1>1, <1>2, <1>3, <1>4 DEF StreamInv

\* A frame that the observer takes, by whether it becomes a keyframe.
LEMMA PushKeeps == ASSUME StreamInv, Push PROVE StreamInv'
<1> USE DEF StreamInv
<1>1. /\ shot # None /\ shot \in [picture : 0 .. screen, view : 0 .. view, visible : BOOLEAN]
      /\ chosen = None /\ open
  BY DEF Push, FrameTypes, OneFrame, ClosedEmpty
<1>2. PICK state \in States :
        /\ Recovered(state)
        /\ IF Accepted(state)
           THEN /\ Unused # {}
                /\ newest' = CHOOSE k \in Unused : TRUE
                /\ chosen' = [id |-> newest', picture |-> shot.picture, view |-> shot.view,
                              attempts |-> 0]
           ELSE UNCHANGED <<chosen, newest>>
  BY Zenon DEF Push
<1>3. streak' \in 0 .. Threshold
  BY <1>2 DEF Recovered, StateTypes
<1>4. pending' \in BOOLEAN
  <2>1. pending' = FALSE \/ pending' = (~shot.visible /\ streak' >= Threshold /\ rested)
    BY <1>2 DEF Recovered
  <2> QED
    BY <2>1, Zenon
<1>5. elapsed' \in 0 .. 2
  BY DEF Push, StateTypes
<1>6. StateTypes'
  <2>1. shot.view \in 0 .. view
    BY <1>1
  <2> QED
    BY <1>3, <1>4, <1>5 DEF Push, StateTypes, window
<1>7. /\ seenView' = shot.view /\ shot' = None
      /\ UNCHANGED <<screen, view, surface, open, latest, inFlight, held, stage>>
  BY DEF Push, window, slot, workers
<1>8. CASE UNCHANGED <<chosen, newest>> /\ ~NewGeneration
  <2>1. FrameTypes'
    BY <1>7, <1>8 DEF FrameTypes, Pictured
  <2>2. NewestSeen'
    BY <1>7, <1>8 DEF NewestSeen, NewGeneration, Known
  <2> QED
    BY <1>1, <1>6, <1>7, <1>8, <2>1, <2>2 DEF ClosedEmpty, OneFrame, SlotNewest, InFlightHeld
<1>9. ASSUME newest' \in Unused,
             chosen' = [id |-> newest', picture |-> shot.picture, view |-> shot.view,
                        attempts |-> 0]
      PROVE  StreamInv'
  <2>1. newest' \in Ident /\ newest' \notin Used
    BY <1>9 DEF Unused, Ident
  <2>2. chosen' \in Pictured' /\ chosen' # None
    BY <1>1, <1>7, <1>9, <2>1 DEF Pictured, FrameTypes, Ident
  <2>3. FrameTypes'
    BY <1>7, <2>1, <2>2 DEF FrameTypes, Pictured
  <2>4. NewestSeen'
    <3> SUFFICES ASSUME NEW k \in Known' \ {None}, k.id = newest' PROVE k.view = seenView'
      BY DEF NewestSeen
    <3>1. k = chosen' \/ k \in Known \ {None}
      BY <1>7 DEF Known
    <3>2. k \notin Known \ {None}
      BY <2>1 DEF Used
    <3> QED
      BY <1>7, <1>9, <3>1, <3>2
  <2>5. OneFrame' /\ SlotNewest' /\ InFlightHeld' /\ ClosedEmpty'
    BY <1>1, <1>7, <1>9, <2>2 DEF OneFrame, SlotNewest, InFlightHeld, ClosedEmpty
  <2> QED
    BY <1>6, <2>3, <2>4, <2>5
<1>10. CASE Accepted(state)
  <2>1. newest' \in Unused
    BY <1>2, <1>10
  <2> QED
    BY <1>2, <1>9, <1>10, <2>1
<1>11. CASE ~Accepted(state)
  <2>1. ~NewGeneration
    BY <1>11 DEF Accepted, States, Before
  <2> QED
    BY <1>2, <1>8, <1>11, <2>1
<1> QED
  BY <1>10, <1>11

\* What a worker does to its keyframe and to the slot.
LEMMA WorkerKeeps ==
    ASSUME StreamInv, NEW w \in Workers, WorkerStep(w)
    PROVE  StreamInv'
<1> USE DEF StreamInv
<1>1. UNCHANGED <<screen, view, surface, open, shot, chosen, newest, seenView, elapsed, streak,
                  pending, rested, behind>>
  BY DEF WorkerStep, Take, Publish, Drop, Refuse, Requeue, Finish, window, observer, recovery
<1>2. CASE Take(w)
  <2>1. held' = [held EXCEPT ![w] = latest] /\ stage' = [stage EXCEPT ![w] = "studying"]
    BY <1>2 DEF Take
  <2>2. latest # None /\ inFlight' = latest.id /\ latest' = None /\ open
    BY <1>2 DEF Take
  <2>3. FrameTypes'
    BY <1>1, <2>1, <2>2 DEF FrameTypes, Pictured, Stages
  <2>4. NewestSeen'
    BY <1>1, <2>1, <2>2 DEF NewestSeen, Known, FrameTypes
  <2>5. InFlightHeld'
    BY <2>1, <2>2 DEF InFlightHeld, FrameTypes
  <2>6. StateTypes' /\ OneFrame' /\ SlotNewest' /\ ClosedEmpty'
    BY <1>1, <1>2, <2>2 DEF Take, StateTypes, OneFrame, SlotNewest, ClosedEmpty
  <2> QED
    BY <2>3, <2>4, <2>5, <2>6
<1>3. CASE Publish(w) \/ Drop(w) \/ Refuse(w)
  <2>1. PICK s \in Stages \ {"idle"} : stage' = [stage EXCEPT ![w] = s]
    BY <1>3 DEF Publish, Drop, Refuse, Stages
  <2>2. UNCHANGED <<held, latest, inFlight>> /\ stage[w] # "idle"
    BY <1>3 DEF Publish, Drop, Refuse, slot
  <2>3. FrameTypes'
    BY <1>1, <2>1, <2>2 DEF FrameTypes, Pictured, Stages
  <2>5. NewestSeen' /\ InFlightHeld'
    BY <1>1, <2>2 DEF NewestSeen, Known, InFlightHeld
  <2>6. StateTypes' /\ OneFrame' /\ SlotNewest' /\ ClosedEmpty'
    BY <1>1, <2>2 DEF StateTypes, OneFrame, SlotNewest, ClosedEmpty
  <2> QED
    BY <2>3, <2>5, <2>6
<1>4. CASE Requeue(w)
  <2>1. held' = held /\ stage' = [stage EXCEPT ![w] = "ending"] /\ stage[w] # "idle"
    BY <1>4 DEF Requeue
  <2>2. inFlight' \in {inFlight, None}
    BY <1>4 DEF Requeue
  <2>3. CASE latest' = latest
    <3>1. FrameTypes'
      BY <1>1, <2>1, <2>2, <2>3 DEF FrameTypes, Pictured, Stages
    <3>2. NewestSeen' /\ InFlightHeld'
      BY <1>1, <2>1, <2>2, <2>3 DEF NewestSeen, Known, InFlightHeld
    <3>3. StateTypes' /\ OneFrame' /\ SlotNewest' /\ ClosedEmpty'
      BY <1>1, <2>1, <2>2, <2>3 DEF StateTypes, OneFrame, SlotNewest, ClosedEmpty
    <3> QED
      BY <3>1, <3>2, <3>3
  <2>4. CASE open /\ Returnable(held[w]) /\ latest' = [held[w] EXCEPT !.attempts = @ + 1]
    <3>1. held[w] \in Pictured /\ held[w] # None /\ held[w] \in Known
      BY <2>1 DEF FrameTypes, Known
    <3>2. latest' \in Pictured /\ latest'.id = held[w].id /\ latest'.view = held[w].view
      BY <2>4, <3>1 DEF Returnable, Pictured
    <3>3. FrameTypes'
      BY <1>1, <2>1, <2>2, <3>2 DEF FrameTypes, Pictured, Stages
    <3>4. NewestSeen' /\ InFlightHeld'
      BY <1>1, <2>1, <2>2, <3>1, <3>2 DEF NewestSeen, Known, InFlightHeld
    <3>5. StateTypes' /\ OneFrame' /\ SlotNewest' /\ ClosedEmpty'
      BY <1>1, <2>1, <2>2, <2>4, <3>2 DEF StateTypes, OneFrame, SlotNewest, ClosedEmpty, Returnable
    <3> QED
      BY <3>3, <3>4, <3>5
  <2> QED
    BY <1>4, <2>3, <2>4 DEF Requeue
<1>5. CASE Finish(w)
  <2>1. held' = [held EXCEPT ![w] = None] /\ stage' = [stage EXCEPT ![w] = "idle"]
    BY <1>5 DEF Finish
  <2>2. latest' = latest /\ inFlight' = IF Cleared(w) THEN None ELSE inFlight
    BY <1>5 DEF Finish
  <2>3. FrameTypes'
    BY <1>1, <2>1, <2>2 DEF FrameTypes, Pictured, Stages
  <2>4. NewestSeen'
    BY <1>1, <2>1, <2>2 DEF NewestSeen, Known, FrameTypes
  <2>5. InFlightHeld'
    BY <1>1, <2>1, <2>2 DEF InFlightHeld, FrameTypes, Cleared, ClosedEmpty
  <2>6. StateTypes' /\ OneFrame' /\ SlotNewest' /\ ClosedEmpty'
    BY <1>1, <2>2 DEF StateTypes, OneFrame, SlotNewest, ClosedEmpty
  <2> QED
    BY <2>3, <2>4, <2>5, <2>6
<1> QED
  BY <1>2, <1>3, <1>4, <1>5 DEF WorkerStep

\* The window changes or moves: what was captured stays a past or present one.
LEMMA WindowKeeps == ASSUME StreamInv, Change \/ Move PROVE StreamInv'
<1> USE DEF StreamInv
<1>1. UNCHANGED <<open, shot, observer, recovery, chosen, slot, workers>>
  BY DEF Change, Move
<1>2. /\ screen' \in Nat /\ screen <= screen' /\ screen' <= MaxPictures /\ surface' \in 0 .. screen'
      /\ view' \in Nat /\ view <= view' /\ view' <= MaxViews
  <2>1. CASE Change
    BY <2>1 DEF Change, FrameTypes
  <2>2. CASE Move
    BY <2>2 DEF Move, FrameTypes
  <2> QED
    BY <2>1, <2>2
<1>3. Pictured \subseteq Pictured'
  BY <1>2 DEF Pictured, FrameTypes
<1>4. shot' \in [picture : 0 .. screen', view : 0 .. view', visible : BOOLEAN] \cup {None}
  BY <1>1, <1>2 DEF FrameTypes
<1>5. FrameTypes'
  BY <1>1, <1>2, <1>3, <1>4 DEF FrameTypes, observer, slot, workers
<1>6. StateTypes'
  BY <1>1, <1>2 DEF StateTypes, FrameTypes, observer, recovery
<1>7. ClosedEmpty' /\ OneFrame' /\ SlotNewest' /\ InFlightHeld' /\ NewestSeen'
  BY <1>1 DEF ClosedEmpty, OneFrame, SlotNewest, InFlightHeld, NewestSeen, Known, observer, slot,
              workers
<1> QED
  BY <1>5, <1>6, <1>7

\* The producer between two frames, and the time.
LEMMA QuietKeeps ==
    ASSUME StreamInv, Capture \/ CaptureFails \/ PushRejected \/ Store \/ Elapse \/ Rest
                      \/ StepBack \/ CatchUp \/ Start
    PROVE  StreamInv'
<1> USE DEF StreamInv
<1>1. UNCHANGED <<screen, view, surface, newest, seenView, inFlight, held, stage>>
  BY DEF Capture, CaptureFails, PushRejected, Store, Elapse, Rest, StepBack, CatchUp, Start,
         window, observer, slot, workers
<1>2. elapsed' \in 0 .. 2 /\ streak' \in 0 .. Threshold
  BY DEF Capture, CaptureFails, PushRejected, Store, Elapse, Rest, StepBack, CatchUp, Start,
         observer, recovery, StateTypes
<1>3. rested' \in {rested, TRUE, rested /\ ~(pending /\ Free)}
      /\ pending' \in {pending, FALSE, pending /\ ~(pending /\ Free)}
      /\ behind' \in {behind, TRUE, FALSE} /\ open' \in {open, TRUE}
  BY Zenon DEF Capture, CaptureFails, PushRejected, Store, Elapse, Rest, StepBack, CatchUp, Start,
         observer, recovery
<1>4. StateTypes'
  <2>1. rested' \in BOOLEAN /\ pending' \in BOOLEAN /\ behind' \in BOOLEAN /\ open' \in BOOLEAN
    BY <1>3, Zenon DEF StateTypes
  <2> QED
    BY <1>1, <1>2, <2>1 DEF StateTypes
<1>5. CASE Capture
  <2>1. shot' \in [picture : 0 .. screen, view : 0 .. view, visible : BOOLEAN]
    <3>1. shot' = [picture |-> IF pending /\ Free THEN screen ELSE surface, view |-> view,
                   visible |-> pending /\ Free]
      BY <1>5 DEF Capture
    <3>2. (pending /\ Free) \in BOOLEAN
      BY Zenon
    <3> QED
      BY <3>1, <3>2 DEF FrameTypes
  <2>2. open /\ chosen = None /\ UNCHANGED <<open, chosen, latest>>
    BY <1>5 DEF Capture, slot
  <2> QED
    BY <1>1, <1>4, <2>1, <2>2
    DEF FrameTypes, Pictured, ClosedEmpty, OneFrame, SlotNewest, InFlightHeld, NewestSeen, Known
<1>6. CASE Store
  <2>1. chosen # None /\ latest' = chosen /\ chosen' = None /\ UNCHANGED <<open, shot>>
    BY <1>6 DEF Store
  <2> QED
    BY <1>1, <1>4, <2>1
    DEF FrameTypes, Pictured, ClosedEmpty, OneFrame, SlotNewest, InFlightHeld, NewestSeen, Known
<1>7. CASE CaptureFails \/ PushRejected \/ Elapse \/ Rest \/ StepBack \/ CatchUp \/ Start
  <2>1. shot' \in {shot, None} /\ open' \in {open, TRUE} /\ UNCHANGED <<chosen, latest>>
    BY <1>7 DEF CaptureFails, PushRejected, Elapse, Rest, StepBack, CatchUp, Start, slot
  <2>2. FrameTypes'
    BY <1>1, <2>1 DEF FrameTypes, Pictured
  <2>3. ClosedEmpty'
    <3>1. ~open' => ~open
      BY <2>1, Zenon
    <3> QED
      BY <1>1, <2>1, <3>1 DEF ClosedEmpty
  <2>4. OneFrame' /\ SlotNewest' /\ InFlightHeld' /\ NewestSeen'
    BY <1>1, <2>1 DEF OneFrame, SlotNewest, InFlightHeld, NewestSeen, Known
  <2> QED
    BY <1>4, <2>2, <2>3, <2>4
<1> QED
  BY <1>5, <1>6, <1>7

\* A stream that is stopped leaves the keyframes in the hands of workers.
LEMMA StopKeeps == ASSUME StreamInv, Stop PROVE StreamInv'
<1> USE DEF StreamInv
<1>1. /\ open' = FALSE /\ shot' = None /\ chosen' = None /\ newest' = None /\ latest' = None
      /\ inFlight' = None /\ elapsed' = 2 /\ streak' = 0
      /\ pending' = FALSE /\ rested' = TRUE /\ behind' = FALSE
      /\ UNCHANGED <<screen, view, surface, held, stage>>
  BY DEF Stop, window, workers
<1>2. FrameTypes'
  BY <1>1 DEF FrameTypes, Pictured
<1>3. StateTypes'
  <2>1. elapsed' \in 0 .. 2 /\ streak' \in 0 .. Threshold
    BY <1>1 DEF StateTypes
  <2> QED
    BY <1>1, <2>1, Zenon DEF StateTypes
<1>4. NewestSeen'
  <2> SUFFICES ASSUME NEW k \in Known' \ {None} PROVE k.id # None
    BY <1>1 DEF NewestSeen
  <2>1. k \in Pictured
    BY <1>1 DEF Known, FrameTypes
  <2> QED
    BY <2>1 DEF Pictured, Ident
<1> QED
  BY <1>1, <1>2, <1>3, <1>4 DEF ClosedEmpty, OneFrame, SlotNewest, InFlightHeld

LEMMA StreamStep == StreamInv /\ [StreamNext]_streamVars => StreamInv'
<1> SUFFICES ASSUME StreamInv, [StreamNext]_streamVars PROVE StreamInv'
  OBVIOUS
<1>1. CASE UNCHANGED streamVars
  BY <1>1 DEF streamVars, window, observer, recovery, slot, workers, StreamInv, FrameTypes, Pictured,
     StateTypes, ClosedEmpty, OneFrame, SlotNewest, InFlightHeld, NewestSeen, Known
<1> QED
  BY <1>1, PushKeeps, WorkerKeeps, WindowKeeps, QuietKeeps, StopKeeps DEF StreamNext, Observe

\* The invariant of the slot, the observer and the workers.
THEOREM StreamInvariance == StreamSpec => []StreamInv
  BY StreamStart, StreamStep, PTL DEF StreamSpec

\* Frames, keyframes and stages have their types, and a stream that is not
\* registered holds nothing.
THEOREM StreamTypes == StreamSpec => []StreamTypeOK
<1>1. StreamInv => StreamTypeOK
  <2> SUFFICES ASSUME StreamInv PROVE StreamTypeOK
    OBVIOUS
  <2> USE DEF StreamInv
  <2>1. \A k \in Known \ {None} : k \in Pictured
    BY DEF FrameTypes, Known
  <2>2. \A k \in Known \ {None} : k.id \in Used
    BY DEF Used
  <2>3. Known \ {None} \subseteq [id : Used, picture : 0 .. screen, view : 0 .. view,
                                 attempts : 0 .. RequeueLimit]
    BY <2>1, <2>2 DEF Pictured
  <2>4. Used \subseteq 1 .. MaxKeyframes \cup {None}
    BY <2>1 DEF Used, FrameTypes, Pictured, Ident
  <2>5. {pending, rested, behind, open} \subseteq BOOLEAN
    <3> SUFFICES ASSUME NEW b \in {pending, rested, behind, open} PROVE b \in BOOLEAN
      OBVIOUS
    <3> QED
      BY Zenon DEF StateTypes
  <2> QED
    BY <2>3, <2>4, <2>5 DEF StreamTypeOK, FrameTypes, StateTypes, Stages, ClosedEmpty
<1> QED
  BY <1>1, StreamInvariance, PTL

\* A keyframe that is put back never stands before a newer one.
THEOREM SlotHoldsNewest == StreamSpec => []SlotNewest
  BY StreamInvariance, PTL DEF StreamInv

\* However studies end, no keyframe stays in flight without a worker.
THEOREM InFlightIsHeld == StreamSpec => []InFlightHeld
  BY StreamInvariance, PTL DEF StreamInv

\* A study is published only while its keyframe is the newest of the registered
\* stream, and of the view that the stream sees (PublishesPresentView).
THEOREM PublishesPresent == StreamSpec => PublishesPresentView
<1>1. StreamInv /\ [StreamNext]_streamVars =>
        [\A w \in Workers : stage[w] # "published" /\ stage'[w] = "published" =>
             open /\ held[w].id = newest /\ held[w].view = seenView]_streamVars
  <2> SUFFICES ASSUME StreamInv, StreamNext, NEW w \in Workers,
                      stage[w] # "published", stage'[w] = "published"
               PROVE  open /\ held[w].id = newest /\ held[w].view = seenView
    OBVIOUS
  <2>0. stage \in [Workers -> Stages]
    BY DEF StreamInv, FrameTypes
  <2>1. PICK u \in Workers : WorkerStep(u)
    BY DEF StreamNext, Observe, Capture, Push, PushRejected, Store, CaptureFails,
           Change, Move, Elapse, Rest, StepBack, CatchUp, Stop, Start, workers
  <2>2. Publish(w)
    BY <2>0, <2>1 DEF WorkerStep, Take, Publish, Drop, Refuse, Requeue, Finish
  <2>3. Current(held[w]) /\ stage[w] = "studying"
    BY <2>2 DEF Publish
  <2>4. held[w] \in Known \ {None}
    BY <2>3 DEF StreamInv, FrameTypes, Known
  <2> QED
    BY <2>3, <2>4 DEF StreamInv, NewestSeen, Current
<1> QED
  BY <1>1, StreamInvariance, PTL DEF StreamSpec, PublishesPresentView

-----------------------------------------------------------------------------
(* No two workers study the same keyframe, although a refused one is put     *)
(* back while its worker is still there, workers are lost and replaced, and  *)
(* a stopped stream leaves keyframes in their hands.                         *)

\* A worker that may still publish its keyframe or put it back.
Busy(w) == stage[w] \in {"studying", "refused"}

\* A keyframe is studied by one worker at a time, so that it is published once
\* at most between two refusals.
StudiedByOne ==
    \A u, w \in Workers : u # w /\ Busy(u) /\ Busy(w) => held[u].id # held[w].id

\* Nor is one that is at work waiting in the slot, or about to.
KeptApart ==
    /\ StudiedByOne
    /\ chosen # None => /\ latest # None => latest.id # chosen.id
                        /\ \A w \in Workers : Busy(w) => held[w].id # chosen.id
    /\ latest # None => \A w \in Workers : Busy(w) => held[w].id # latest.id

\* A keyframe that the observer selects is nobody's.
LEMMA PushApart == ASSUME StreamInv, KeptApart, Push PROVE KeptApart'
<1>1. chosen = None /\ UNCHANGED <<latest, held, stage>>
  BY DEF Push, slot, workers, StreamInv, OneFrame
<1>2. \/ chosen' = None
      \/ chosen' # None /\ chosen'.id \in Unused
  <2>1. PICK state \in States :
          IF Accepted(state)
          THEN /\ Unused # {}
               /\ newest' = CHOOSE k \in Unused : TRUE
               /\ chosen' = [id |-> newest', picture |-> shot.picture, view |-> shot.view,
                             attempts |-> 0]
          ELSE UNCHANGED <<chosen, newest>>
    BY Zenon DEF Push
  <2>2. CASE Accepted(state)
    <3>1. newest' \in Unused
      BY <2>1, <2>2
    <3>2. chosen'.id = newest'
      BY <2>1, <2>2
    <3>3. chosen' # None
      <4>1. shot \in [picture : 0 .. screen, view : 0 .. view, visible : BOOLEAN]
        BY DEF Push, StreamInv, FrameTypes
      <4>2. chosen' \in [id : Nat, picture : Nat, view : Nat, attempts : Nat]
        BY <2>1, <2>2, <3>1, <4>1 DEF Unused, StreamInv, FrameTypes
      <4> QED
        BY <4>2
    <3> QED
      BY <3>1, <3>2, <3>3
  <2>3. CASE ~Accepted(state)
    BY <1>1, <2>1, <2>3
  <2> QED
    BY <2>2, <2>3
<1>3. \A w \in Workers : Busy(w) => held[w] \in Known \ {None}
  BY DEF Busy, StreamInv, FrameTypes, Known
<1>4. \A k \in Known \ {None} : k.id \notin Unused
  BY DEF Unused, Used
<1>5. latest # None => latest \in Known \ {None}
  BY DEF Known
<1> QED
  BY <1>1, <1>2, <1>3, <1>4, <1>5 DEF KeptApart, StudiedByOne, Busy

\* A worker takes what nobody has, and gives back what it no longer has.
LEMMA WorkerApart ==
    ASSUME StreamInv, KeptApart, NEW w \in Workers, WorkerStep(w)
    PROVE  KeptApart'
<1>1. /\ held \in [Workers -> Pictured \cup {None}] /\ stage \in [Workers -> Stages]
      /\ chosen' = chosen
  BY DEF StreamInv, FrameTypes, WorkerStep, Take, Publish, Drop, Refuse, Requeue, Finish
<1>2. CASE Take(w)
  <2>1. /\ latest # None /\ latest' = None
        /\ held'[w] = latest /\ \A u \in Workers \ {w} : held'[u] = held[u] /\ stage'[u] = stage[u]
    BY <1>1, <1>2 DEF Take
  <2> QED
    BY <1>1, <2>1 DEF KeptApart, StudiedByOne, Busy
<1>3. CASE Publish(w) \/ Drop(w) \/ Refuse(w) \/ Finish(w)
  <2>1. latest' = latest /\ \A u \in Workers \ {w} : held'[u] = held[u] /\ stage'[u] = stage[u]
    BY <1>1, <1>3 DEF Publish, Drop, Refuse, Finish, slot
  <2>2. Busy(w)' => Busy(w) /\ held'[w] = held[w]
    BY <1>1, <1>3 DEF Publish, Drop, Refuse, Finish, Busy
  <2> QED
    BY <1>1, <2>1, <2>2 DEF KeptApart, StudiedByOne, Busy
<1>4. CASE Requeue(w)
  <2>1. /\ held' = held /\ Busy(w) /\ ~Busy(w)'
        /\ \A u \in Workers \ {w} : stage'[u] = stage[u]
    BY <1>1, <1>4 DEF Requeue, Busy
  <2>2. latest' = latest \/ latest'.id = held[w].id
    BY <1>1, <1>4 DEF Requeue, Pictured, StreamInv, FrameTypes
  <2> QED
    BY <1>1, <2>1, <2>2 DEF KeptApart, StudiedByOne, Busy
<1> QED
  BY <1>2, <1>3, <1>4 DEF WorkerStep

\* Each keyframe is in the hands of one worker at a time, for any number of
\* workers, refusals, and streams stopped and started again under them.
THEOREM OneWorkerEach == StreamSpec => []StudiedByOne
<1>1. StreamInit => KeptApart
  BY DEF StreamInit, KeptApart, StudiedByOne, Busy
<1>2. StreamInv /\ KeptApart /\ [StreamNext]_streamVars => KeptApart'
  <2> SUFFICES ASSUME StreamInv, KeptApart, [StreamNext]_streamVars PROVE KeptApart'
    OBVIOUS
  <2>1. CASE Store
    BY <2>1 DEF Store, workers, KeptApart, StudiedByOne, Busy
  <2>2. CASE Stop
    BY <2>2 DEF Stop, workers, KeptApart, StudiedByOne, Busy
  <2>3. CASE Capture \/ CaptureFails \/ PushRejected \/ Change \/ Move \/ Elapse \/ Rest
             \/ StepBack \/ CatchUp \/ Start \/ UNCHANGED streamVars
    <3>1. UNCHANGED <<chosen, latest, held, stage>>
      BY <2>3 DEF Capture, CaptureFails, PushRejected, Change, Move, Elapse, Rest, StepBack,
         CatchUp, Start, streamVars, slot, workers
    <3> QED
      BY <3>1 DEF KeptApart, StudiedByOne, Busy
  <2> QED
    BY <2>1, <2>2, <2>3, PushApart, WorkerApart DEF StreamNext, Observe
<1>3. KeptApart => StudiedByOne
  BY DEF KeptApart
<1> QED
  BY <1>1, <1>2, <1>3, StreamInvariance, PTL DEF StreamSpec
=============================================================================
