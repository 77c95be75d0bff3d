--------------------------- MODULE MCSessionStore ---------------------------
(***************************************************************************)
(* SessionStore for TLC: many kinds of calls are offered, and a behaviour  *)
(* makes a few of them.                                                    *)
(***************************************************************************)
EXTENDS SessionStore, TLC

CONSTANT MaxCalls    \* bound: calls made in one behaviour

FewCalls == Cardinality({c \in Calls : pc[c] # "new"}) <= MaxCalls

\* Claims are alike, and so are the tracker's own captures.
Alike == Permutations(Claims) \cup Permutations(LocalStudies)

\* What a call has loaded, and what is known of a study, matters until it ends.
Alive(c) == pc[c] \notin {"new", "done"}
Remembered ==
    <<file, pc, issued, history,
      [c \in Calls |-> IF Alive(c) /\ pc[c] # "ending" THEN copy[c] ELSE Fresh],
      [c \in Studies |-> IF Alive(c) THEN <<number[c], lease[c], started[c]>> ELSE <<>>]>>
=============================================================================
