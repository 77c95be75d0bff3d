----------------------------- MODULE LeaseCache -----------------------------
(***************************************************************************)
(* How the tracker remembers the lease of an external chart source without *)
(* parsing the session file: a copy in memory and a small sidecar file,    *)
(* both valid only under the stamp (mtime and size) the session file had   *)
(* when they were taken (mobile_api/window_tracker.py).  Every action is   *)
(* one file operation or one locked access to the cache.                   *)
(*                                                                         *)
(* The content of the session is the number of changes its source record   *)
(* has gone through.  Owners change it under self._lock and the commit     *)
(* lock of the session; touchers save it unchanged under the commit lock;  *)
(* pollers read the lease under self._lock, watchers under no lock.        *)
(***************************************************************************)
EXTENDS Naturals

CONSTANTS
    Owners,        \* claims, kills, and the stages of a study
    Touchers,      \* saves that leave the source record alone
    Pollers,       \* heartbeats
    Watchers,      \* endpoints and mailbox workers that validate a lease
    Nobody,        \* no lock holder
    MaxSaves,      \* bound: changes of the source record
    MaxTouches,    \* bound: saves without a change
    MaxFallbacks,  \* bound: saves whose replace stays locked
    MaxCrashes     \* bound: restarts of the process

ASSUME CacheAssumption ==
    /\ Nobody \notin Owners \cup Touchers \cup Pollers \cup Watchers
    /\ Owners \cap (Touchers \cup Pollers \cup Watchers) = {}
    /\ Touchers \cap (Pollers \cup Watchers) = {}
    /\ Pollers \cap Watchers = {}
    /\ MaxSaves \in Nat /\ MaxTouches \in Nat
    /\ MaxFallbacks \in Nat /\ MaxCrashes \in Nat

Readers == Pollers \cup Watchers
Writers == Owners \cup Touchers
Proc    == Readers \cup Writers

VARIABLES
    disk,        \* stamp of the session file, and the content a reader finds
    mem, side,   \* the two copies of the lease
    lock,        \* holder of self._lock
    commit,      \* holder of the commit lock of the session
    pc, stat, got, keeps, floor,            \* locals of each process
    saves, touches, fallbacks, crashes,     \* history
    disturbed    \* history: a new source record met a lookup under way that holds
                 \* no lock, or did not get into the session file

locals  == <<pc, stat, got, keeps, floor>>
history == <<saves, touches, fallbacks, crashes, disturbed>>
vars == <<disk, mem, side, lock, commit, locals, history>>

Copy == [stamp: Nat, content: Nat]
Empty == [stamp |-> 0, content |-> 0]

TypeOK ==
    /\ disk \in Copy /\ mem \in Copy /\ side \in Copy
    /\ lock \in Proc \cup {Nobody} /\ commit \in Proc \cup {Nobody}
    /\ pc \in [Proc -> {"idle", "load", "save", "write", "stat", "mem", "side", "session",
                        "restat", "keepMem", "keepSide", "done"}]
    /\ stat \in [Proc -> Nat] /\ got \in [Proc -> Nat] /\ floor \in [Proc -> Nat]
    /\ keeps \in [Proc -> BOOLEAN]
    /\ saves \in 0..MaxSaves /\ touches \in 0..MaxTouches
    /\ fallbacks \in 0..MaxFallbacks /\ crashes \in 0..MaxCrashes
    /\ disturbed \in BOOLEAN

\* The locals of a process that is between two calls.
Blank(value) == [p \in Proc |-> value]

Init ==
    /\ disk = [stamp |-> 1, content |-> 0] /\ mem = disk /\ side = disk
    /\ lock = Nobody /\ commit = Nobody
    /\ pc = Blank("idle") /\ stat = Blank(0) /\ got = Blank(0)
    /\ keeps = Blank(FALSE) /\ floor = Blank(0)
    /\ saves = 0 /\ touches = 0 /\ fallbacks = 0 /\ crashes = 0 /\ disturbed = FALSE

GoTo(p, next) == pc' = [pc EXCEPT ![p] = next]

-----------------------------------------------------------------------------
(* Taking self._lock and saving the session. *)

\* Mutant: heartbeats read the lease under no lock.
LockFreeFor(p) == p \in Pollers \/ lock = Nobody

LockFree(p) == lock = Nobody

TakeLock(p) ==
    /\ pc[p] = "idle"
    /\ LockFree(p)
    /\ \/ p \in Owners /\ saves < MaxSaves /\ saves' = saves + 1 /\ GoTo(p, "load")
       \/ p \in Pollers /\ GoTo(p, "stat") /\ UNCHANGED saves
    /\ lock' = p
    /\ UNCHANGED <<disk, mem, side, commit, stat, got, keeps, floor, touches, fallbacks,
                   crashes, disturbed>>

\* An owner's payload is the session as it stands, with a changed source.
LoadToChange(p) ==
    /\ p \in Owners /\ pc[p] = "load"
    /\ got' = [got EXCEPT ![p] = disk.content + 1]
    /\ GoTo(p, "save")
    /\ UNCHANGED <<disk, mem, side, lock, commit, stat, keeps, floor, history>>

TakeCommit(p) ==
    /\ commit = Nobody
    /\ \/ p \in Owners /\ pc[p] = "save" /\ GoTo(p, "write") /\ UNCHANGED touches
       \/ /\ p \in Touchers /\ pc[p] = "idle"
          /\ touches < MaxTouches /\ touches' = touches + 1
          /\ GoTo(p, "load")
    /\ commit' = p
    /\ UNCHANGED <<disk, mem, side, lock, stat, got, keeps, floor, saves, fallbacks, crashes,
                   disturbed>>

\* Mutant: the payload was read before the commit lock was taken.
LoadedBefore == disk.content - 1

LoadedNow == disk.content

\* A toucher loads the session inside the commit lock.
LoadToTouch(p) ==
    /\ p \in Touchers /\ pc[p] = "load"
    /\ got' = [got EXCEPT ![p] = LoadedNow]
    /\ GoTo(p, "write")
    /\ UNCHANGED <<disk, mem, side, lock, commit, stat, keeps, floor, history>>

\* Which watchers are between their first look at the session and their answer.
Asking == {"mem", "side", "session", "restat", "keepMem", "keepSide", "done"}
Overtaken == {p \in Watchers : pc[p] \in Asking}

\* The session file is replaced, or stays locked and .last_good is written
\* beside it: then the stamp is the old one, and readers find the new content
\* only if it looks fresher than the file (a revoked decision may not).
Write(p) ==
    /\ pc[p] = "write"
    /\ \/ /\ disk' = [stamp |-> disk.stamp + 1, content |-> got[p]]
          /\ disturbed' = (disturbed \/ (p \in Owners /\ Overtaken # {}))
          /\ UNCHANGED fallbacks
       \/ /\ fallbacks < MaxFallbacks
          /\ fallbacks' = fallbacks + 1
          /\ disturbed' = TRUE
          /\ \/ disk' = [disk EXCEPT !.content = got[p]]
             \/ UNCHANGED disk
    /\ keeps' = [keeps EXCEPT ![p] = TRUE]
    /\ GoTo(p, "restat")
    /\ UNCHANGED <<mem, side, lock, commit, stat, got, floor, saves, touches, crashes>>

-----------------------------------------------------------------------------
(* _cache_external_source_lease_v3: stat again, keep in memory, and on disk. *)

Restat(p) ==
    /\ pc[p] = "restat"
    /\ stat' = [stat EXCEPT ![p] = disk.stamp]
    /\ GoTo(p, "keepMem")
    /\ UNCHANGED <<disk, mem, side, lock, commit, got, keeps, floor, history>>

KeepInMemory(p) ==
    /\ pc[p] = "keepMem"
    /\ mem' = [stamp |-> stat[p], content |-> got[p]]
    /\ GoTo(p, IF keeps[p] THEN "keepSide" ELSE "done")
    /\ UNCHANGED <<disk, side, lock, commit, stat, got, keeps, floor, history>>

KeepInSidecar(p) ==
    /\ pc[p] = "keepSide"
    /\ side' = [stamp |-> stat[p], content |-> got[p]]
    /\ GoTo(p, "done")
    /\ UNCHANGED <<disk, mem, lock, commit, stat, got, keeps, floor, history>>

-----------------------------------------------------------------------------
(* _external_source_lease_snapshot_v3: memory, then sidecar, then session. *)

\* The history variable floor is the content the answer must not precede.
Stat(p) ==
    /\ \/ p \in Pollers /\ pc[p] = "stat"
       \/ p \in Watchers /\ pc[p] = "idle"
    /\ stat' = [stat EXCEPT ![p] = disk.stamp]
    /\ floor' = [floor EXCEPT ![p] = disk.content]
    /\ GoTo(p, "mem")
    /\ UNCHANGED <<disk, mem, side, lock, commit, got, keeps, history>>

\* Mutant: any copy will do.
HitAny(copy, p) == copy # Empty

Hit(copy, p) == copy.stamp = stat[p]

ReadMemory(p) ==
    /\ pc[p] = "mem"
    /\ \/ Hit(mem, p) /\ got' = [got EXCEPT ![p] = mem.content] /\ GoTo(p, "done")
       \/ ~Hit(mem, p) /\ GoTo(p, "side") /\ UNCHANGED got
    /\ UNCHANGED <<disk, mem, side, lock, commit, stat, keeps, floor, history>>

ReadSidecar(p) ==
    /\ pc[p] = "side"
    /\ \/ Hit(side, p) /\ got' = [got EXCEPT ![p] = side.content] /\ GoTo(p, "restat")
       \/ ~Hit(side, p) /\ GoTo(p, "session") /\ UNCHANGED got
    /\ keeps' = [keeps EXCEPT ![p] = FALSE]
    /\ UNCHANGED <<disk, mem, side, lock, commit, stat, floor, history>>

ReadSession(p) ==
    /\ pc[p] = "session"
    /\ got' = [got EXCEPT ![p] = disk.content]
    /\ keeps' = [keeps EXCEPT ![p] = TRUE]
    /\ GoTo(p, "restat")
    /\ UNCHANGED <<disk, mem, side, lock, commit, stat, floor, history>>

-----------------------------------------------------------------------------
\* The call returns and lets go of its locks.
Return(p) ==
    /\ pc[p] = "done"
    /\ lock' = IF lock = p THEN Nobody ELSE lock
    /\ commit' = IF commit = p THEN Nobody ELSE commit
    /\ GoTo(p, "idle")
    /\ stat' = [stat EXCEPT ![p] = 0] /\ got' = [got EXCEPT ![p] = 0]
    /\ floor' = [floor EXCEPT ![p] = 0] /\ keeps' = [keeps EXCEPT ![p] = FALSE]
    /\ UNCHANGED <<disk, mem, side, history>>

\* The process dies and comes back: files stay, memory and locks do not.
Crash ==
    /\ crashes < MaxCrashes
    /\ crashes' = crashes + 1
    /\ mem' = Empty
    /\ lock' = Nobody /\ commit' = Nobody
    /\ pc' = Blank("idle") /\ stat' = Blank(0) /\ got' = Blank(0)
    /\ keeps' = Blank(FALSE) /\ floor' = Blank(0)
    /\ UNCHANGED <<disk, side, saves, touches, fallbacks, disturbed>>

Step(p) ==
    \/ TakeLock(p) \/ LoadToChange(p)
    \/ TakeCommit(p) \/ LoadToTouch(p) \/ Write(p)
    \/ Restat(p) \/ KeepInMemory(p) \/ KeepInSidecar(p)
    \/ Stat(p) \/ ReadMemory(p) \/ ReadSidecar(p) \/ ReadSession(p)
    \/ Return(p)

Next == Crash \/ \E p \in Proc : Step(p)

Spec == Init /\ [][Next]_vars

-----------------------------------------------------------------------------
(* Properties. *)

\* A reader is never told of a lease that was replaced before it asked.
AnswersAlways ==
    \A p \in Readers : pc[p] = "done" => got[p] >= floor[p]

\* That can fail only after a new source record was saved while a lookup
\* without the tracker lock was under way, or beside the session file.
AnswersCurrent == AnswersAlways \/ disturbed

\* Until then, whenever no save is under way, a copy that carries the stamp of
\* the session file carries its source record, after restarts in the middle of
\* a save too.
CacheHonest ==
    (lock = Nobody /\ commit = Nobody /\ ~disturbed) =>
        \A copy \in {mem, side} :
            copy.stamp = disk.stamp => copy.content = disk.content

\* No save takes the source record back to an earlier one, although owners
\* load it before they hold the commit lock.
SavesNeverRevert == [][disk'.content >= disk.content]_disk

-----------------------------------------------------------------------------
(* The strengthening that makes them inductive. *)

Saving == {"write", "restat", "keepMem", "keepSide", "done"}
InHand == {"restat", "keepMem", "keepSide", "done"}

\* Where a process can stand, and which locks it then holds.
LockInv ==
    /\ \A p \in Owners :
        /\ pc[p] \in {"idle", "load", "save"} \cup Saving
        /\ pc[p] # "idle" => lock = p
        /\ pc[p] \in Saving => commit = p
    /\ \A p \in Touchers :
        /\ pc[p] \in {"idle", "load"} \cup Saving
        /\ pc[p] # "idle" => commit = p
    /\ \A p \in Pollers :
        /\ pc[p] \in {"idle", "stat"} \cup Asking
        /\ pc[p] # "idle" => lock = p
    /\ \A p \in Watchers : pc[p] \in {"idle"} \cup Asking

\* What a save is about to write was loaded from the present content.
LoadInv ==
    /\ \A p \in Owners : pc[p] \in {"save", "write"} => got[p] = disk.content + 1
    /\ \A p \in Touchers : pc[p] = "write" => got[p] = disk.content

\* Stamps only grow, and an undisturbed copy under the present stamp is the
\* present content.
StampInv ==
    /\ disk.stamp > 0
    /\ \A p \in Proc : stat[p] <= disk.stamp
    /\ \A copy \in {mem, side} :
        /\ copy.stamp <= disk.stamp
        /\ (copy.stamp = disk.stamp /\ ~disturbed) => copy.content = disk.content

\* What a process holds in its hand, or would accept as a hit, is present.
AnswerInv ==
    ~disturbed =>
    /\ \A p \in Proc : pc[p] \in InHand => got[p] = disk.content
    /\ \A p \in Readers :
        /\ pc[p] \in Asking => floor[p] = disk.content
        /\ pc[p] \in {"mem", "side"} =>
            \A copy \in {mem, side} : copy.stamp = stat[p] => copy.content = disk.content

SaveInv == TypeOK /\ LockInv /\ LoadInv
IInv    == SaveInv /\ StampInv /\ AnswerInv
=============================================================================
