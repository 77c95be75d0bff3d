--------------------------- MODULE LeaseAuthority ---------------------------
(***************************************************************************)
(* What a leased chart source promises whoever reads the session, without  *)
(* locks, heartbeats, generations or saves: leases are granted one after   *)
(* the other, one at a time is the owner's, one that was taken from its    *)
(* owner is never the owner's again, and a result made of uploaded pixels  *)
(* is visible only while the lease that brought them is the owner's.       *)
(* SourceLease (the ownership record) and SessionStore (the session file   *)
(* under all its writers) both implement it.                               *)
(***************************************************************************)
EXTENDS Naturals

VARIABLES
    owner,        \* the lease that owns the source, 0 for none
    issued,       \* leases granted so far
    visible       \* the lease whose pixels made the visible result, 0 for none

vars == <<owner, issued, visible>>

Init == owner = 0 /\ issued = 0 /\ visible = 0

\* The next lease, and nothing of the last one.
Grant ==
    /\ owner' = issued + 1
    /\ issued' = issued + 1
    /\ visible' = 0

\* Nobody owns the source any more: a kill, or a lease given back.
Revoke ==
    /\ owner' = 0
    /\ visible' = 0
    /\ UNCHANGED issued

\* A result of the owner's pixels becomes visible.
Show ==
    /\ owner # 0
    /\ visible' = owner
    /\ UNCHANGED <<owner, issued>>

\* The visible result is withdrawn, or is one of other pixels.
Hide ==
    /\ visible' = 0
    /\ UNCHANGED <<owner, issued>>

Next == Grant \/ Revoke \/ Show \/ Hide

Spec == Init /\ [][Next]_vars
=============================================================================
