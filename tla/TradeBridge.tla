------------------------------ MODULE TradeBridge ------------------------------
(***************************************************************************)
(* The direct trade bridge (launch/phoenixguard_direct_trade_bridge.py): a *)
(* process that hears the verdicts the tracker publishes and presses the   *)
(* broker's buttons, twice for each entry.  One bridge should trade for a  *)
(* session: a lock file with the process id of its creator keeps others    *)
(* out, and the lock of a dead process is taken away.  A bridge may be     *)
(* interrupted anywhere, and then removes the lock, or killed, and then    *)
(* leaves it.                                                              *)
(*                                                                         *)
(* A verdict is its number, which stands for its token, in the order of    *)
(* publication; its candle is given.  What a refusal rests on (no action,  *)
(* another side, age, veto, calibration) is left out.  The defaults of the *)
(* trigger are taken: one entry for each candle, neither re-arming nor     *)
(* flip guard nor cool-down.  A launch is made once, and no process id is  *)
(* used again.                                                             *)
(***************************************************************************)
EXTENDS Naturals

CONSTANTS
    Bridges,       \* launches of the bridge for the session
    Listeners,     \* those that listen to the stream; the others poll
    Nobody,        \* no creator of a lock
    MaxVerdicts,   \* bound: verdicts published
    CandleOf,      \* the closed candle that each verdict is about
    Keyed,         \* do verdicts name their candle by its key?
    MaxTrades      \* max_trades_per_session

Verdict == 1 .. MaxVerdicts

ASSUME BridgeAssumption ==
    /\ Listeners \subseteq Bridges /\ Nobody \notin Bridges
    /\ MaxVerdicts \in Nat /\ MaxTrades \in Nat \ {0}
    /\ CandleOf \in [Verdict -> Nat \ {0}]
    /\ \A v, w \in Verdict : v <= w => CandleOf[v] <= CandleOf[w]
    /\ Keyed \in BOOLEAN

VARIABLES
    pc,         \* where each launch is
    lock,       \* the lock file: its creator, and is the process id in it?
    newest,     \* the verdict published last
    mark,       \* _state_epoch_watermark of each bridge, in verdicts
    heard,      \* the verdict each bridge took note of last
    trigger,    \* its _BridgeTriggerState
    goal,       \* the verdict of the trade that it executes
    presses,    \* history: how often it pressed a button
    entered,    \* history: the candle of its last entry
    crowded,    \* history: launches overlapped, or the lock of a live bridge was removed
    met,        \* history: launches that met another live bridge
    masked      \* history: pollers that took an old answer under a new epoch

file    == <<lock, crowded, met>>
reading == <<mark, heard, masked>>
trade   == <<trigger, goal, presses, entered>>
vars    == <<pc, file, newest, reading, trade>>

Starts  == {"probe", "steal", "reopen", "sign"}
Trades  == {"loop", "aiming", "armed", "pressed"}
Phases  == Starts \cup Trades \cup {"off", "refused", "leaving", "gone"}

Starting == {b \in Bridges : pc[b] \in Starts}
Trading  == {b \in Bridges : pc[b] \in Trades}
Live     == {b \in Bridges : pc[b] \notin {"off", "gone"}}

TriggerState == [last : 0 .. newest, active : Nat, spent : 0 .. 1, executed : 0 .. MaxTrades]

NoLock == [by |-> Nobody, signed |-> FALSE]
Untriggered == [last |-> 0, active |-> 0, spent |-> 0, executed |-> 0]

Init ==
    /\ pc = [b \in Bridges |-> "off"]
    /\ lock = NoLock
    /\ newest = 0
    /\ mark = [b \in Bridges |-> 0] /\ heard = [b \in Bridges |-> 0]
    /\ trigger = [b \in Bridges |-> Untriggered]
    /\ goal = [b \in Bridges |-> 0]
    /\ presses = [b \in Bridges |-> 0] /\ entered = [b \in Bridges |-> 0]
    /\ crowded = FALSE /\ met = {} /\ masked = {}

Goto(b, from, to) ==
    /\ pc[b] \in from
    /\ pc' = [pc EXCEPT ![b] = to]

-----------------------------------------------------------------------------
(* _InstanceLock *)

\* The lock file is created if there is none; otherwise the launch goes on
\* at the phase that is named.
CreateOr(b, otherwise) ==
    /\ pc' = [pc EXCEPT ![b] = IF lock = NoLock THEN "sign" ELSE otherwise]
    /\ lock' = IF lock = NoLock THEN [by |-> b, signed |-> FALSE] ELSE lock

Launch(b) ==
    /\ pc[b] = "off"
    /\ CreateOr(b, "probe")
    /\ crowded' = (crowded \/ Starting # {})
    /\ met' = IF Live = {} THEN met ELSE met \cup Starting \cup {b}
    /\ UNCHANGED <<newest, reading, trade>>

\* Mutant: an existing lock counts as held.
OwnerTrusted == lock # NoLock

\* The process id in the file is that of a live process; an empty file, or none,
\* is nobody's.
OwnerAlive == lock.signed /\ lock.by \in Live

Probe(b) ==
    /\ Goto(b, {"probe"}, IF OwnerAlive THEN "refused" ELSE "steal")
    /\ UNCHANGED <<file, newest, reading, trade>>

\* The stale file is removed, unless it is gone.
Steal(b) ==
    /\ Goto(b, {"steal"}, IF lock = NoLock THEN "refused" ELSE "reopen")
    /\ lock' = NoLock
    /\ UNCHANGED <<crowded, met, newest, reading, trade>>

Reopen(b) ==
    /\ pc[b] = "reopen"
    /\ CreateOr(b, "refused")
    /\ UNCHANGED <<crowded, met, newest, reading, trade>>

\* The process id goes into the file that was created, be it still there or not.
Sign(b) ==
    /\ Goto(b, {"sign"}, "loop")
    /\ lock' = IF lock.by = b THEN [lock EXCEPT !.signed = TRUE] ELSE lock
    /\ UNCHANGED <<crowded, met, newest, reading, trade>>

\* Nothing is left of what the process kept in memory.
Forget(b) ==
    /\ mark' = [mark EXCEPT ![b] = 0] /\ heard' = [heard EXCEPT ![b] = 0]
    /\ trigger' = [trigger EXCEPT ![b] = Untriggered]
    /\ goal' = [goal EXCEPT ![b] = 0]
    /\ presses' = [presses EXCEPT ![b] = 0] /\ entered' = [entered EXCEPT ![b] = 0]

\* The finally clause of main removes whatever lock there is, that of another
\* bridge after a refusal too.
Release(b) ==
    /\ Goto(b, {"refused", "leaving"}, "gone")
    /\ Forget(b)
    /\ lock' = NoLock
    /\ crowded' = (crowded \/ lock.by \in Live \ {b})
    /\ UNCHANGED <<met, masked, newest>>

\* An interrupt, or an error that ends the process.
Leave(b) ==
    /\ Goto(b, Starts \cup Trades, "leaving")
    /\ UNCHANGED <<file, newest, reading, trade>>

\* The kill switch, or a crash.
Kill(b) ==
    /\ Goto(b, Phases \ {"off", "gone"}, "gone")
    /\ Forget(b)
    /\ UNCHANGED <<file, masked, newest>>

-----------------------------------------------------------------------------
(* What the tracker publishes and how it is read *)

Publish ==
    /\ newest < MaxVerdicts
    /\ newest' = newest + 1
    /\ UNCHANGED <<pc, file, reading, trade>>

\* Mutant: the watermark is not compared.
FreshAlways(b, epoch) == TRUE

\* The state is not older than the newest that the bridge has seen.
Fresh(b, epoch) == mark[b] <= epoch

\* A state with verdict v is read.  Its epoch is its own, or that of the newest
\* sidecar, which is attached whatever the age of the rest.
Reads(b, v, epoch) ==
    /\ v \in 1 .. newest /\ epoch \in {v, newest}
    /\ Fresh(b, epoch)
    /\ mark' = [mark EXCEPT ![b] = IF @ < epoch THEN epoch ELSE @]

\* The bridge takes note of verdict v.  The stream does not go back; an answer
\* to a poll may.
Notes(b, v, epoch) ==
    /\ b \in Listeners => v >= heard[b]
    /\ heard' = [heard EXCEPT ![b] = v]
    /\ masked' = IF v < heard[b] /\ v < epoch THEN masked \cup {b} ELSE masked

-----------------------------------------------------------------------------
(* _BridgeTriggerState *)

\* Mutant: one trade too many.
LimitedLate(t) == t.executed > MaxTrades

Limited(t) == t.executed >= MaxTrades

\* should_trigger looks at the candle first, and forgets the one before it.
Turned(t, v) ==
    IF Limited(t) \/ CandleOf[v] = t.active THEN t
    ELSE [last |-> t.last, active |-> CandleOf[v], spent |-> 0, executed |-> t.executed]

Fires(t, v) == ~Limited(t) /\ v # t.last /\ Turned(t, v).spent < 1

Fired(t, v) ==
    [last |-> v, active |-> Turned(t, v).active, spent |-> Turned(t, v).spent + 1,
     executed |-> t.executed]

\* record_trade_execution
Traded(t, v) ==
    [last |-> v, active |-> t.active, spent |-> t.spent, executed |-> t.executed + 1]

-----------------------------------------------------------------------------
(* The loop *)

\* A state is read and refused before the trigger is asked.
Skip(b) ==
    /\ pc[b] = "loop"
    /\ \E v \in 1 .. newest, epoch \in 1 .. newest : Reads(b, v, epoch)
    /\ UNCHANGED <<pc, file, newest, heard, masked, trade>>

\* A verdict that the trigger does not fire for.
Hold(b) ==
    /\ pc[b] = "loop"
    /\ \E v \in 1 .. newest, epoch \in 1 .. newest :
         /\ Reads(b, v, epoch) /\ Notes(b, v, epoch)
         /\ ~Fires(trigger[b], v)
         /\ trigger' = [trigger EXCEPT ![b] = Turned(@, v)]
    /\ UNCHANGED <<pc, file, newest, goal, presses, entered>>

\* The trigger fires, and the chart is clicked.
Fire(b) ==
    /\ Goto(b, {"loop"}, "aiming")
    /\ \E v \in 1 .. newest, epoch \in 1 .. newest :
         /\ Reads(b, v, epoch) /\ Notes(b, v, epoch)
         /\ Fires(trigger[b], v)
         /\ trigger' = [trigger EXCEPT ![b] = Fired(@, v)]
         /\ goal' = [goal EXCEPT ![b] = v]
    /\ UNCHANGED <<file, newest, presses, entered>>

\* _confirm_pre_click_match compares candles by their keys.
Confirmed(v, w) == Keyed => CandleOf[w] = CandleOf[v]

\* After the delay the state is read once more, and the trade is that of the
\* verdict it shows.
Confirm(b) ==
    /\ Goto(b, {"aiming"}, "armed")
    /\ \E w \in 1 .. newest, epoch \in 1 .. newest :
         /\ Reads(b, w, epoch)
         /\ Confirmed(goal[b], w)
         /\ goal' = [goal EXCEPT ![b] = w]
    /\ UNCHANGED <<file, newest, heard, masked, trigger, presses, entered>>

\* The state cannot be read, or is refused: the trigger stays as it is.
Abandon(b) ==
    /\ Goto(b, {"aiming"}, "loop")
    /\ mark' = mark \/ \E v \in 1 .. newest, epoch \in 1 .. newest : Reads(b, v, epoch)
    /\ UNCHANGED <<file, newest, heard, masked, trade>>

Press(b) ==
    /\ Goto(b, {"armed"}, "pressed")
    /\ presses' = [presses EXCEPT ![b] = @ + 1]
    /\ entered' = [entered EXCEPT ![b] = CandleOf[goal[b]]]
    /\ UNCHANGED <<file, newest, reading, trigger, goal>>

\* The second press, and record_trade_execution.
PressAgain(b) ==
    /\ Goto(b, {"pressed"}, "loop")
    /\ presses' = [presses EXCEPT ![b] = @ + 1]
    /\ trigger' = [trigger EXCEPT ![b] = Traded(@, goal[b])]
    /\ UNCHANGED <<file, newest, reading, goal, entered>>

Start(b) == Launch(b) \/ Probe(b) \/ Steal(b) \/ Reopen(b) \/ Sign(b)
End(b)   == Release(b) \/ Leave(b) \/ Kill(b)
Loop(b)  == Skip(b) \/ Hold(b) \/ Fire(b) \/ Confirm(b) \/ Abandon(b) \/ Press(b) \/ PressAgain(b)

Next == Publish \/ \E b \in Bridges : Start(b) \/ End(b) \/ Loop(b)

Spec == Init /\ [][Next]_vars

-----------------------------------------------------------------------------
(* Properties *)

\* Locks, verdicts and trigger states have their types.
TypeOK ==
    /\ pc \in [Bridges -> Phases]
    /\ lock \in [by : Bridges \cup {Nobody}, signed : BOOLEAN]
    /\ newest \in 0 .. MaxVerdicts
    /\ mark \in [Bridges -> 0 .. newest] /\ heard \in [Bridges -> 0 .. newest]
    /\ trigger \in [Bridges -> TriggerState]
    /\ goal \in [Bridges -> 0 .. newest]
    /\ presses \in [Bridges -> Nat] /\ entered \in [Bridges -> Nat]
    /\ crowded \in BOOLEAN /\ met \subseteq Bridges /\ masked \subseteq Bridges

\* Not two bridges trade for one session: a live owner still refuses a second
\* instance (the comment at lines 292-294).  It does not hold: a refused launch
\* removes the lock of the owner that has refused it.
OneBridge == \A b, c \in Trading : b = c

\* A bridge that ended without clean-up never blocks the next launch: whoever is
\* refused has met a live one (lines 294-295).
StaleNeverBlocks == \A b \in Bridges : pc[b] = "refused" => b \in met

\* Each entry of a bridge is for a later candle than the one before: at most one
\* entry for each candle, and none for a candle that has been left.  This goes
\* for one bridge process (what it entered is forgotten with it), for listeners
\* whatever they read before they press, and for pollers as long as the watermark
\* is not raised by a sidecar over an old answer.
EntriesForward ==
    [][\A b \in Bridges \ masked : Press(b) => entered[b] < CandleOf[goal[b]]]_vars

\* A bridge presses at most twice for each of the trades it may execute, although
\* it may end between the presses, and before the trade is counted (the help of
\* the option, lines 2149-2150: a cap for this process, each execution fires two
\* contracts).
ContractsCapped == \A b \in Bridges : presses[b] <= 2 * MaxTrades
=============================================================================
