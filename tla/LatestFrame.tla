---------------------------- MODULE LatestFrame ----------------------------
(***************************************************************************)
(* What the asynchronous frame-analysis mailbox promises its session,      *)
(* without workers, locks or epochs: frames arrive in order, at most two   *)
(* are held at a time (one under study, one waiting), a change of chart    *)
(* source raises a fence that no earlier frame may cross, and the frame    *)
(* whose study becomes visible is always newer than the fence and newer    *)
(* than every frame published before it.                                   *)
(***************************************************************************)
EXTENDS Naturals

CONSTANT MaxFrames    \* number of frames considered, 1..MaxFrames in order of arrival

VARIABLES
    arrived,      \* frames seen so far
    held,         \* frames under study or waiting
    fence,        \* last frame seen when the source last changed hands
    newest,       \* newest frame ever published
    published     \* frame whose study is visible now, 0 for none

vars == <<arrived, held, fence, newest, published>>

Init ==
    /\ arrived = 0
    /\ held = {}
    /\ fence = 0
    /\ newest = 0
    /\ published = 0

AtMostTwo(S) == \A f, g, h \in S : f = g \/ g = h \/ f = h

\* A frame arrives: it is refused, or it is held, possibly in place of others.
Arrive ==
    /\ arrived < MaxFrames
    /\ arrived' = arrived + 1
    /\ \E kept \in SUBSET held : held' \in {kept, kept \cup {arrived + 1}}
    /\ AtMostTwo(held')
    /\ published' \in {published, 0}
    /\ UNCHANGED <<fence, newest>>

\* The study of a held frame becomes visible.
Publish(f) ==
    /\ f \in held
    /\ f > fence
    /\ f > newest
    /\ held' = held \ {f}
    /\ newest' = f
    /\ published' = f
    /\ UNCHANGED <<arrived, fence>>

\* Held frames are given up without a visible study.
Release ==
    /\ held' \in SUBSET held
    /\ published' \in {published, 0}
    /\ UNCHANGED <<arrived, fence, newest>>

\* The chart source changes hands: nothing seen so far may be published.
RaiseFence ==
    /\ fence' = arrived
    /\ published' = 0
    /\ held' \in SUBSET held
    /\ UNCHANGED <<arrived, newest>>

Next ==
    \/ Arrive
    \/ \E f \in held : Publish(f)
    \/ Release
    \/ RaiseFence

Spec == Init /\ [][Next]_vars
=============================================================================
