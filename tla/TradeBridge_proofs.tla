-------------------------- MODULE TradeBridge_proofs --------------------------
(***************************************************************************)
(* What is proved of the trade bridge for every number of launches,        *)
(* verdicts, candles and trades.  The arguments: (1) until launches        *)
(* overlap or a lock is removed, a launch finds the lock of whoever        *)
(* trades, so its owner stands in the file (Locked); (2) whoever is in its *)
(* start phases while another lives has met it (Encounters); (3) what a    *)
(* bridge takes note of does not go back unless it is masked, so the       *)
(* active candle only advances, and its entry is spent when an entry is on *)
(* its way (Candles); (4) presses are twice the trades counted, and one    *)
(* more between the two (Paid).                                            *)
(***************************************************************************)
EXTENDS TradeBridge, TLAPS

USE BridgeAssumption

-----------------------------------------------------------------------------
(* Types *)

\* A trade that is on its way has a verdict, and there is room for it.
Aimed ==
    \A b \in Bridges : pc[b] \in {"aiming", "armed", "pressed"} =>
        goal[b] >= 1 /\ trigger[b].executed < MaxTrades

Typed == TypeOK /\ Aimed

LEMMA TriggerTypes ==
    ASSUME Typed, NEW b \in Bridges, NEW v \in 1 .. newest
    PROVE  /\ v \in Verdict /\ CandleOf[v] \in Nat \ {0}
           /\ Turned(trigger[b], v) \in TriggerState
           /\ Turned(trigger[b], v).executed = trigger[b].executed
           /\ Turned(trigger[b], v).last = trigger[b].last
           /\ Fires(trigger[b], v) =>
                 /\ Turned(trigger[b], v).active = CandleOf[v]
                 /\ Turned(trigger[b], v).spent = 0
                 /\ trigger[b].executed < MaxTrades
                 /\ Fired(trigger[b], v) = [last |-> v, active |-> CandleOf[v], spent |-> 1,
                                            executed |-> trigger[b].executed]
<1>0. newest \in 0 .. MaxVerdicts /\ MaxVerdicts \in Nat
  BY DEF Typed, TypeOK
<1>1. v \in Verdict /\ CandleOf[v] \in Nat \ {0}
  BY <1>0 DEF Verdict
<1>2. trigger[b] \in TriggerState
  BY DEF Typed, TypeOK, TriggerState
<1> DEFINE t == trigger[b]
<1>3. Turned(t, v) \in {t, [last |-> t.last, active |-> CandleOf[v], spent |-> 0,
                              executed |-> t.executed]}
  BY DEF Turned
<1>4. /\ Turned(t, v) \in TriggerState
      /\ Turned(t, v).executed = t.executed
      /\ Turned(t, v).last = t.last
  BY <1>1, <1>2, <1>3 DEF TriggerState
<1>5. ASSUME Fires(t, v)
      PROVE  /\ Turned(t, v).active = CandleOf[v]
             /\ Turned(t, v).spent = 0
             /\ t.executed < MaxTrades
             /\ Fired(t, v) = [last |-> v, active |-> CandleOf[v], spent |-> 1,
                               executed |-> t.executed]
  <2>1. ~Limited(t) /\ Turned(t, v).spent < 1
    BY <1>5 DEF Fires
  <2>2. Turned(t, v).spent = 0 /\ t.executed < MaxTrades
    BY <1>2, <1>4, <2>1 DEF Limited, TriggerState
  <2>3. Turned(t, v).active = CandleOf[v]
    BY <1>1, <1>2, <2>1 DEF Turned, TriggerState
  <2> QED
    BY <1>4, <2>2, <2>3 DEF Fired, TriggerState
<1> QED
  BY <1>1, <1>4, <1>5

LEMMA TypeInit == Init => Typed
<1> SUFFICES ASSUME Init PROVE Typed
  OBVIOUS
<1>1. trigger \in [Bridges -> TriggerState]
  BY DEF Init, Untriggered, TriggerState
<1>2. NoLock \in [by : Bridges \cup {Nobody}, signed : BOOLEAN]
  BY DEF NoLock
<1>3. pc \in [Bridges -> Phases]
  BY DEF Init, Phases
<1>4. Aimed
  BY DEF Init, Aimed
<1>5. /\ newest \in 0 .. MaxVerdicts /\ goal \in [Bridges -> 0 .. newest]
      /\ mark \in [Bridges -> 0 .. newest] /\ heard \in [Bridges -> 0 .. newest]
      /\ presses \in [Bridges -> Nat] /\ entered \in [Bridges -> Nat]
  BY DEF Init
<1> QED
  BY <1>1, <1>2, <1>3, <1>4, <1>5 DEF Init, Typed, TypeOK

\* What a step that changes neither trades nor verdicts has to keep.
ControlTyped ==
    /\ pc \in [Bridges -> Phases]
    /\ lock \in [by : Bridges \cup {Nobody}, signed : BOOLEAN]
    /\ crowded \in BOOLEAN /\ met \subseteq Bridges

LEMMA ControlKeeps ==
    ASSUME Typed, ControlTyped', UNCHANGED <<newest, reading, trade>>,
           \A b \in Bridges : pc'[b] \in {"aiming", "armed", "pressed"} => pc[b] = pc'[b]
    PROVE  Typed'
<1>1. /\ UNCHANGED <<newest, mark, heard, masked>>
      /\ UNCHANGED <<trigger, goal, presses, entered>>
  BY DEF reading, trade
<1>2. TypeOK'
  BY <1>1 DEF Typed, TypeOK, ControlTyped, TriggerState
<1>3. Aimed'
  BY <1>1 DEF Typed, Aimed
<1> QED
  BY <1>2, <1>3 DEF Typed

LEMMA LockTypes ==
    ASSUME lock \in [by : Bridges \cup {Nobody}, signed : BOOLEAN], NEW b \in Bridges
    PROVE  \A f \in {lock, NoLock, [by |-> b, signed |-> FALSE],
                         [lock EXCEPT !.signed = TRUE]} :
             f \in [by : Bridges \cup {Nobody}, signed : BOOLEAN]
<1>1. NoLock \in [by : Bridges \cup {Nobody}, signed : BOOLEAN]
  BY DEF NoLock
<1>2. [by |-> b, signed |-> FALSE] \in [by : Bridges \cup {Nobody}, signed : BOOLEAN]
  OBVIOUS
<1>3. [lock EXCEPT !.signed = TRUE] \in [by : Bridges \cup {Nobody}, signed : BOOLEAN]
  OBVIOUS
<1> QED
  BY <1>1, <1>2, <1>3, Zenon

LEMMA TypeStep == Typed /\ [Next]_vars => Typed'
<1> SUFFICES ASSUME Typed, [Next]_vars PROVE Typed'
  OBVIOUS
<1>0. TypeOK /\ ControlTyped
  BY DEF Typed, TypeOK, ControlTyped
<1>1. ASSUME NEW b \in Bridges, Start(b) \/ Leave(b) PROVE Typed'
  <2>1. UNCHANGED <<newest, reading, trade>>
    BY <1>1 DEF Start, Launch, Probe, Steal, Reopen, Sign, Leave
  <2>2. PICK phase \in {"probe", "steal", "reopen", "sign", "refused", "loop", "leaving"} :
          pc' = [pc EXCEPT ![b] = phase]
    BY <1>1 DEF Start, Launch, Probe, Steal, Reopen, Sign, Leave, CreateOr, Goto
  <2>3. lock' \in [by : Bridges \cup {Nobody}, signed : BOOLEAN]
    <3>1. lock' \in {lock, NoLock, [by |-> b, signed |-> FALSE], [lock EXCEPT !.signed = TRUE]}
      BY <1>1 DEF Start, Launch, Probe, Steal, Reopen, Sign, Leave, CreateOr, file
    <3> QED
      BY <1>0, <3>1, LockTypes DEF ControlTyped
  <2>4. crowded' \in BOOLEAN /\ met' \subseteq Bridges
    BY <1>0, <1>1 DEF Start, Launch, Probe, Steal, Reopen, Sign, Leave, Starting,
                      file, ControlTyped
  <2>5. pc' \in [Bridges -> Phases]
    BY <1>0, <2>2 DEF ControlTyped, Phases, Starts, Trades
  <2>6. \A c \in Bridges : pc'[c] \in {"aiming", "armed", "pressed"} => pc[c] = pc'[c]
    BY <1>0, <2>2 DEF ControlTyped
  <2> QED
    BY <2>1, <2>3, <2>4, <2>5, <2>6, ControlKeeps DEF ControlTyped
<1>2. ASSUME NEW b \in Bridges, Release(b) \/ Kill(b) PROVE Typed'
  <2>1. pc' = [pc EXCEPT ![b] = "gone"] /\ Forget(b) /\ UNCHANGED <<masked, newest>>
    BY <1>2 DEF Release, Kill, Goto
  <2>2. lock' \in [by : Bridges \cup {Nobody}, signed : BOOLEAN]
    <3>1. lock' \in {lock, NoLock}
      BY <1>2 DEF Release, Kill, file
    <3> QED
      BY <1>0, <3>1, LockTypes DEF ControlTyped
  <2>3. crowded' \in BOOLEAN /\ met' \subseteq Bridges
    BY <1>0, <1>2 DEF Release, Kill, file, TypeOK
  <2>4. trigger' \in [Bridges -> TriggerState']
    <3>1. Untriggered \in TriggerState /\ TriggerState' = TriggerState
      BY <1>0, <2>1 DEF TypeOK, TriggerState, Untriggered
    <3> QED
      BY <1>0, <2>1, <3>1 DEF Forget, TypeOK
  <2>5. Aimed'
    BY <1>0, <2>1 DEF Typed, Aimed, Forget, TypeOK
  <2>6. pc' \in [Bridges -> Phases]
    BY <1>0, <2>1 DEF TypeOK, Phases
  <2> QED
    BY <1>0, <2>1, <2>2, <2>3, <2>4, <2>5, <2>6 DEF Typed, TypeOK, Forget
<1>3. ASSUME NEW b \in Bridges, Skip(b) \/ Abandon(b) PROVE Typed'
  <2>1. mark' \in [Bridges -> 0 .. newest]
    BY <1>0, <1>3 DEF Skip, Abandon, Reads, TypeOK
  <2>2. pc' = pc \/ pc' = [pc EXCEPT ![b] = "loop"]
    BY <1>3 DEF Skip, Abandon, Goto
  <2>3. UNCHANGED <<lock, crowded, met, newest, heard, masked>> /\ UNCHANGED trade
    BY <1>3 DEF Skip, Abandon, file
  <2> QED
    BY <1>0, <2>1, <2>2, <2>3 DEF Typed, TypeOK, Aimed, trade, TriggerState, Phases, Trades
<1>4. ASSUME NEW b \in Bridges, Hold(b) PROVE Typed'
  <2>1. PICK v \in 1 .. newest, epoch \in 1 .. newest :
          /\ Reads(b, v, epoch) /\ Notes(b, v, epoch)
          /\ trigger' = [trigger EXCEPT ![b] = Turned(@, v)]
    BY <1>4 DEF Hold
  <2>2. /\ Turned(trigger[b], v) \in TriggerState
        /\ Turned(trigger[b], v).executed = trigger[b].executed
    BY TriggerTypes
  <2>3. UNCHANGED <<pc, lock, crowded, met, newest, goal, presses, entered>>
    BY <1>4 DEF Hold, file
  <2>4. trigger' \in [Bridges -> TriggerState'] /\ Aimed'
    BY <1>0, <2>1, <2>2, <2>3 DEF Typed, TypeOK, Aimed, TriggerState
  <2>5. /\ mark' \in [Bridges -> 0 .. newest] /\ heard' \in [Bridges -> 0 .. newest]
        /\ masked' \subseteq Bridges
    BY <1>0, <2>1 DEF Reads, Notes, TypeOK
  <2> QED
    BY <1>0, <2>3, <2>4, <2>5 DEF Typed, TypeOK
<1>5. ASSUME NEW b \in Bridges, Fire(b) PROVE Typed'
  <2>1. PICK v \in 1 .. newest, epoch \in 1 .. newest :
          /\ Reads(b, v, epoch) /\ Notes(b, v, epoch) /\ Fires(trigger[b], v)
          /\ trigger' = [trigger EXCEPT ![b] = Fired(@, v)]
          /\ goal' = [goal EXCEPT ![b] = v]
    BY <1>5 DEF Fire
  <2>2. /\ CandleOf[v] \in Nat /\ trigger[b].executed < MaxTrades
        /\ Fired(trigger[b], v) = [last |-> v, active |-> CandleOf[v], spent |-> 1,
                                   executed |-> trigger[b].executed]
    BY <2>1, TriggerTypes
  <2>3. trigger[b] \in TriggerState
    BY <1>0 DEF TypeOK
  <2>4. /\ Fired(trigger[b], v) \in TriggerState
        /\ Fired(trigger[b], v).executed = trigger[b].executed
    BY <2>2, <2>3 DEF TriggerState
  <2>5. /\ UNCHANGED <<lock, crowded, met, newest, presses, entered>>
        /\ pc' = [pc EXCEPT ![b] = "aiming"]
    BY <1>5 DEF Fire, file, Goto
  <2>6. /\ trigger' \in [Bridges -> TriggerState'] /\ goal' \in [Bridges -> 0 .. newest]
        /\ pc' \in [Bridges -> Phases]
    BY <1>0, <2>1, <2>4, <2>5 DEF TypeOK, TriggerState, Phases, Trades
  <2>7. Aimed'
    BY <1>0, <2>1, <2>2, <2>4, <2>5 DEF Typed, TypeOK, Aimed
  <2>8. /\ mark' \in [Bridges -> 0 .. newest] /\ heard' \in [Bridges -> 0 .. newest]
        /\ masked' \subseteq Bridges
    BY <1>0, <2>1 DEF Reads, Notes, TypeOK
  <2> QED
    BY <1>0, <2>5, <2>6, <2>7, <2>8 DEF Typed, TypeOK
<1>6. ASSUME NEW b \in Bridges, Confirm(b) PROVE Typed'
  <2>1. PICK w \in 1 .. newest, epoch \in 1 .. newest :
          Reads(b, w, epoch) /\ goal' = [goal EXCEPT ![b] = w]
    BY <1>6 DEF Confirm
  <2>2. /\ UNCHANGED <<lock, crowded, met, newest, heard, masked, trigger, presses, entered>>
        /\ pc[b] = "aiming" /\ pc' = [pc EXCEPT ![b] = "armed"]
    BY <1>6 DEF Confirm, Goto, file
  <2>3. mark' \in [Bridges -> 0 .. newest] /\ goal' \in [Bridges -> 0 .. newest]
    BY <1>0, <2>1 DEF Reads, TypeOK
  <2>4. Aimed'
    BY <1>0, <2>1, <2>2 DEF Typed, TypeOK, Aimed
  <2> QED
    BY <1>0, <2>2, <2>3, <2>4 DEF Typed, TypeOK, TriggerState, Phases, Trades
<1>7. ASSUME NEW b \in Bridges, Press(b) PROVE Typed'
  <2>1. /\ UNCHANGED <<lock, crowded, met, newest, mark, heard, masked, trigger, goal>>
        /\ pc[b] = "armed" /\ pc' = [pc EXCEPT ![b] = "pressed"]
        /\ presses' = [presses EXCEPT ![b] = presses[b] + 1]
        /\ entered' = [entered EXCEPT ![b] = CandleOf[goal[b]]]
    BY <1>7 DEF Press, Goto, file, reading
  <2>2. goal[b] \in 1 .. newest
    BY <1>0, <2>1 DEF Typed, TypeOK, Aimed
  <2>3. CandleOf[goal[b]] \in Nat
    BY <2>2, TriggerTypes
  <2>4. Aimed'
    BY <1>0, <2>1 DEF Typed, TypeOK, Aimed
  <2> QED
    BY <1>0, <2>1, <2>3, <2>4 DEF Typed, TypeOK, TriggerState, Phases, Trades
<1>8. ASSUME NEW b \in Bridges, PressAgain(b) PROVE Typed'
  <2>1. /\ UNCHANGED <<lock, crowded, met, newest, mark, heard, masked, goal, entered>>
        /\ pc[b] = "pressed" /\ pc' = [pc EXCEPT ![b] = "loop"]
        /\ presses' = [presses EXCEPT ![b] = presses[b] + 1]
        /\ trigger' = [trigger EXCEPT ![b] = Traded(trigger[b], goal[b])]
    BY <1>8 DEF PressAgain, Goto, file, reading
  <2>2. trigger[b].executed < MaxTrades /\ goal[b] \in 0 .. newest /\ trigger[b] \in TriggerState
    BY <1>0, <2>1 DEF Typed, TypeOK, Aimed
  <2>3. Traded(trigger[b], goal[b]) \in TriggerState
    BY <2>2 DEF Traded, TriggerState
  <2>4. Aimed'
    BY <1>0, <2>1 DEF Typed, TypeOK, Aimed
  <2>5. trigger' \in [Bridges -> TriggerState']
    BY <1>0, <2>1, <2>3 DEF TypeOK, TriggerState
  <2> QED
    BY <1>0, <2>1, <2>4, <2>5 DEF Typed, TypeOK, Phases, Trades
<1>9. CASE Publish
  <2>1. newest' = newest + 1 /\ newest < MaxVerdicts /\ UNCHANGED <<pc, file, reading, trade>>
    BY <1>9 DEF Publish
  <2>2. newest \in Nat /\ newest' \in 0 .. MaxVerdicts
    BY <1>0, <2>1 DEF TypeOK
  <2>3. trigger' \in [Bridges -> TriggerState']
    BY <1>0, <2>1, <2>2 DEF TypeOK, TriggerState, trade
  <2>4. UNCHANGED <<pc, lock, crowded, met, mark, heard, masked, trigger, goal, presses, entered>>
    BY <2>1 DEF file, reading, trade
  <2>5. Aimed'
    BY <2>4 DEF Typed, Aimed
  <2> QED
    BY <1>0, <2>1, <2>2, <2>3, <2>4, <2>5 DEF Typed, TypeOK
<1>10. CASE UNCHANGED vars
  <2>1. UNCHANGED <<newest, reading, trade>> /\ UNCHANGED <<pc, lock, crowded, met>>
    BY <1>10 DEF vars, file
  <2>2. ControlTyped'
    BY <1>0, <2>1 DEF ControlTyped
  <2> QED
    BY <2>1, <2>2, ControlKeeps
<1> QED
  BY <1>1, <1>2, <1>3, <1>4, <1>5, <1>6, <1>7, <1>8, <1>9, <1>10 DEF Next, End, Loop

-----------------------------------------------------------------------------
(* The lock file *)

\* Those that hold the lock: a bridge whose process id is in the file, or soon
\* will be.
Holding == Trades \cup {"sign"}

\* Unless launches overlap or a lock is removed, launches come one at a time,
\* whoever trades stands in the file, and a lock is stolen when nobody does.
Locked ==
    crowded \/
    /\ \A b, c \in Starting : b = c
    /\ \A b \in Bridges : pc[b] \in Holding => lock.by = b
    /\ \A b \in Trading : lock.signed
    /\ \A b, c \in Bridges : pc[b] \in {"steal", "reopen"} => pc[c] \notin Holding

\* A launch that found a lock has made none, whoever starts while another lives
\* has met it, and so has one whose lock file was made or removed by another.
Encounters ==
    /\ \A b \in Bridges : pc[b] \in {"off", "probe", "steal", "reopen"} => lock.by # b
    /\ \A b \in Starting, c \in Live : b # c => b \in met
    /\ \A b \in Bridges : pc[b] \in {"probe", "steal"} /\ lock = NoLock => b \in met
    /\ \A b \in Bridges : pc[b] = "reopen" /\ lock # NoLock => b \in met
    /\ StaleNeverBlocks

LEMMA LockInit == Init => Locked /\ Encounters
  BY DEF Init, Locked, Encounters, Holding, Starts, Trades, Starting, Trading, Live, NoLock,
         StaleNeverBlocks

\* Steps in the loop change no lock and no phase that the lock depends on.
LEMMA LoopKeepsLock ==
    ASSUME Typed, NEW b \in Bridges, Loop(b)
    PROVE  UNCHANGED file /\ \E phase \in Trades : pc[b] \in Trades /\ pc' = [pc EXCEPT ![b] = phase]
<1>1. UNCHANGED file
  BY DEF Loop, Skip, Hold, Fire, Confirm, Abandon, Press, PressAgain
<1>2. CASE Skip(b) \/ Hold(b)
  <2>1. pc[b] = "loop" /\ pc' = pc
    BY <1>2 DEF Skip, Hold
  <2>2. pc' = [pc EXCEPT ![b] = "loop"]
    BY <2>1 DEF Typed, TypeOK
  <2> QED
    BY <1>1, <2>1, <2>2 DEF Trades
<1>3. CASE Fire(b) \/ Confirm(b) \/ Abandon(b) \/ Press(b) \/ PressAgain(b)
  BY <1>1, <1>3 DEF Fire, Confirm, Abandon, Press, PressAgain, Goto, Trades
<1> QED
  BY <1>2, <1>3 DEF Loop

LEMMA LockStep == Typed /\ Locked /\ [Next]_vars => Locked'
<1> SUFFICES ASSUME Typed, Locked, [Next]_vars, ~crowded' PROVE Locked'
  BY DEF Locked
<1>0. /\ pc \in [Bridges -> Phases] /\ lock \in [by : Bridges \cup {Nobody}, signed : BOOLEAN]
      /\ crowded \in BOOLEAN
  BY DEF Typed, TypeOK
<1> USE DEF Holding, Starts, Trades, Starting, Trading, Live
<1>1. ASSUME NEW b \in Bridges, Launch(b) PROVE Locked'
  <2>1. /\ pc[b] = "off" /\ ~crowded
        /\ \A c \in Bridges : pc[c] \notin Starts
    BY <1>0, <1>1 DEF Launch
  <2>2. PICK phase \in {"probe", "sign"} : pc' = [pc EXCEPT ![b] = phase]
    BY <1>1 DEF Launch, CreateOr
  <2>3. Starting' = {b}
    BY <1>0, <2>1, <2>2
  <2>4. CASE lock = NoLock
    <3>1. \A c \in Bridges : pc[c] \notin Holding
      BY <1>0, <2>1, <2>4 DEF Locked, NoLock
    <3>2. lock' = [by |-> b, signed |-> FALSE]
      BY <1>1, <2>4 DEF Launch, CreateOr
    <3> QED
      BY <1>0, <2>1, <2>2, <2>3, <3>1, <3>2 DEF Locked
  <2>5. CASE lock # NoLock
    <3>1. pc' = [pc EXCEPT ![b] = "probe"] /\ lock' = lock
      BY <1>1, <2>5 DEF Launch, CreateOr
    <3> QED
      BY <1>0, <2>1, <2>3, <3>1 DEF Locked
  <2> QED
    BY <2>4, <2>5
<1>2. ASSUME NEW b \in Bridges, Probe(b) PROVE Locked'
  BY <1>0, <1>2 DEF Probe, Goto, OwnerAlive, file, Locked
<1>3. ASSUME NEW b \in Bridges, Steal(b) PROVE Locked'
  BY <1>0, <1>3 DEF Steal, Goto, NoLock, Locked
<1>4. ASSUME NEW b \in Bridges, Reopen(b) PROVE Locked'
  BY <1>0, <1>4 DEF Reopen, CreateOr, NoLock, Locked
<1>5. ASSUME NEW b \in Bridges, Sign(b) PROVE Locked'
  BY <1>0, <1>5 DEF Sign, Goto, Locked
<1>6. ASSUME NEW b \in Bridges, Release(b) PROVE Locked'
  BY <1>0, <1>6 DEF Release, Goto, NoLock, Locked
<1>7. ASSUME NEW b \in Bridges, Leave(b) \/ Kill(b) PROVE Locked'
  <2>1. PICK phase \in {"leaving", "gone"} : pc' = [pc EXCEPT ![b] = phase]
    BY <1>7 DEF Leave, Kill, Goto
  <2>2. lock' = lock /\ crowded' = crowded
    BY <1>7 DEF Leave, Kill, file
  <2> QED
    BY <1>0, <2>1, <2>2 DEF Locked
<1>8. ASSUME NEW b \in Bridges, Loop(b) PROVE Locked'
  <2>1. PICK phase \in Trades : pc[b] \in Trades /\ pc' = [pc EXCEPT ![b] = phase]
    BY <1>8, LoopKeepsLock
  <2>2. lock' = lock /\ crowded' = crowded
    BY <1>8, LoopKeepsLock DEF file
  <2> QED
    BY <1>0, <2>1, <2>2 DEF Locked
<1>9. CASE Publish \/ UNCHANGED vars
  <2>1. UNCHANGED <<pc, lock, crowded>>
    BY <1>9 DEF Publish, vars, file
  <2> QED
    BY <2>1 DEF Locked
<1> QED
  BY <1>1, <1>2, <1>3, <1>4, <1>5, <1>6, <1>7, <1>8, <1>9 DEF Next, Start, End

LEMMA EncounterStep == Typed /\ Encounters /\ [Next]_vars => Encounters'
<1> SUFFICES ASSUME Typed, Encounters, [Next]_vars PROVE Encounters'
  OBVIOUS
<1>0. /\ pc \in [Bridges -> Phases] /\ lock \in [by : Bridges \cup {Nobody}, signed : BOOLEAN]
      /\ met \subseteq Bridges
  BY DEF Typed, TypeOK
<1> USE DEF Encounters, StaleNeverBlocks, Starts, Trades, Starting, Live
<1>1. ASSUME NEW b \in Bridges, Launch(b) PROVE Encounters'
  BY <1>0, <1>1 DEF Launch, CreateOr, NoLock
<1>2. ASSUME NEW b \in Bridges, Probe(b) PROVE Encounters'
  BY <1>0, <1>2 DEF Probe, Goto, OwnerAlive, file
<1>3. ASSUME NEW b \in Bridges, Steal(b) PROVE Encounters'
  BY <1>0, <1>3 DEF Steal, Goto, NoLock
<1>4. ASSUME NEW b \in Bridges, Reopen(b) PROVE Encounters'
  BY <1>0, <1>4 DEF Reopen, CreateOr, NoLock
<1>5. ASSUME NEW b \in Bridges, Sign(b) PROVE Encounters'
  BY <1>0, <1>5 DEF Sign, Goto, NoLock
<1>6. ASSUME NEW b \in Bridges, Release(b) PROVE Encounters'
  BY <1>0, <1>6 DEF Release, Goto, NoLock
<1>7. ASSUME NEW b \in Bridges, Leave(b) \/ Kill(b) PROVE Encounters'
  <2>1. PICK phase \in {"leaving", "gone"} : pc' = [pc EXCEPT ![b] = phase]
    BY <1>7 DEF Leave, Kill, Goto
  <2>2. lock' = lock /\ met' = met /\ pc[b] \notin {"off", "gone"}
    BY <1>7 DEF Leave, Kill, file, Goto
  <2> QED
    BY <1>0, <2>1, <2>2
<1>8. ASSUME NEW b \in Bridges, Loop(b) PROVE Encounters'
  <2>1. PICK phase \in Trades : pc[b] \in Trades /\ pc' = [pc EXCEPT ![b] = phase]
    BY <1>8, LoopKeepsLock
  <2>2. lock' = lock /\ met' = met
    BY <1>8, LoopKeepsLock DEF file
  <2> QED
    BY <1>0, <2>1, <2>2
<1>9. CASE Publish \/ UNCHANGED vars
  <2>1. UNCHANGED <<pc, lock, met>>
    BY <1>9 DEF Publish, vars, file
  <2> QED
    BY <2>1
<1> QED
  BY <1>1, <1>2, <1>3, <1>4, <1>5, <1>6, <1>7, <1>8, <1>9 DEF Next, Start, End

-----------------------------------------------------------------------------
(* Presses *)

\* A bridge has pressed twice for each trade counted, and once more between the
\* two presses; before its loop it has done nothing.
Paid ==
    \A b \in Bridges :
      /\ presses[b] <= 2 * MaxTrades
      /\ pc[b] \in {"loop", "aiming", "armed"} => presses[b] = 2 * trigger[b].executed
      /\ pc[b] = "pressed" => presses[b] = 2 * trigger[b].executed + 1
      /\ pc[b] \in Starts \cup {"off"} => presses[b] = 0 /\ trigger[b] = Untriggered

LEMMA PaidInit == Init => Paid
<1> SUFFICES ASSUME Init PROVE Paid
  OBVIOUS
<1>1. \A b \in Bridges : pc[b] = "off" /\ presses[b] = 0 /\ trigger[b] = Untriggered
  BY DEF Init
<1>2. 0 <= 2 * MaxTrades
  OBVIOUS
<1> QED
  BY <1>1, <1>2 DEF Paid

\* Steps that press no button and count no trade.
LEMMA PaidKeeps ==
    ASSUME Typed, Paid, NEW b \in Bridges, NEW phase \in Phases \ {"pressed", "off"},
           pc' = [pc EXCEPT ![b] = phase], presses' = presses,
           phase \in {"loop", "aiming", "armed"} =>
               pc[b] \in {"sign", "loop", "aiming", "armed"},
           phase \in Starts => pc[b] \in Starts \cup {"off"} /\ trigger' = trigger,
           \A c \in Bridges : trigger'[c].executed = trigger[c].executed,
           \A c \in Bridges \ {b} : trigger'[c] = trigger[c]
    PROVE  Paid'
<1>1. pc \in [Bridges -> Phases]
  BY DEF Typed, TypeOK
<1> QED
  BY <1>1 DEF Paid, Starts, Untriggered

LEMMA PaidStep == Typed /\ Paid /\ [Next]_vars => Paid'
<1> SUFFICES ASSUME Typed, Paid, [Next]_vars PROVE Paid'
  OBVIOUS
<1>0. TypeOK
  BY DEF Typed
<1>1. ASSUME NEW b \in Bridges, Start(b) \/ Leave(b) PROVE Paid'
  <2>1. presses' = presses /\ trigger' = trigger
    BY <1>1 DEF Start, Launch, Probe, Steal, Reopen, Sign, Leave, trade
  <2>2. PICK phase \in Phases \ {"pressed", "off"} :
          /\ pc' = [pc EXCEPT ![b] = phase]
          /\ phase \in {"loop", "aiming", "armed"} => pc[b] \in {"sign", "loop", "aiming", "armed"}
          /\ phase \in Starts => pc[b] \in Starts \cup {"off"}
    <3>1. CASE Launch(b)
      <4>1. PICK phase \in {"probe", "sign"} : pc' = [pc EXCEPT ![b] = phase]
        BY <3>1 DEF Launch, CreateOr
      <4> QED
        BY <3>1, <4>1 DEF Launch, Phases, Starts
    <3>2. CASE Probe(b) \/ Steal(b) \/ Reopen(b)
      <4>1. pc[b] \in Starts
        BY <3>2 DEF Probe, Steal, Reopen, Goto, Starts
      <4>2. PICK phase \in {"steal", "reopen", "sign", "refused"} : pc' = [pc EXCEPT ![b] = phase]
        BY <3>2 DEF Probe, Steal, Reopen, Goto, CreateOr
      <4> QED
        BY <4>1, <4>2 DEF Phases, Starts
    <3>3. CASE Sign(b) \/ Leave(b)
      BY <3>3 DEF Sign, Leave, Goto, Phases, Starts, Trades
    <3> QED
      BY <1>1, <3>1, <3>2, <3>3 DEF Start
  <2> QED
    BY <2>1, <2>2, PaidKeeps
<1>2. ASSUME NEW b \in Bridges, Release(b) \/ Kill(b) PROVE Paid'
  <2>1. /\ pc' = [pc EXCEPT ![b] = "gone"]
        /\ presses' = [presses EXCEPT ![b] = 0]
        /\ trigger' = [trigger EXCEPT ![b] = Untriggered]
    BY <1>2 DEF Release, Kill, Goto, Forget
  <2> QED
    BY <1>0, <2>1 DEF Paid, TypeOK, Starts
<1>3. ASSUME NEW b \in Bridges, Skip(b) \/ Hold(b) PROVE Paid'
  <2>1. pc' = [pc EXCEPT ![b] = "loop"] /\ pc[b] = "loop" /\ presses' = presses
    BY <1>0, <1>3 DEF Skip, Hold, trade, TypeOK
  <2>2. /\ \A c \in Bridges : trigger'[c].executed = trigger[c].executed
        /\ \A c \in Bridges \ {b} : trigger'[c] = trigger[c]
    <3>1. CASE Skip(b)
      BY <3>1 DEF Skip, trade
    <3>2. CASE Hold(b)
      <4>1. PICK v \in 1 .. newest : trigger' = [trigger EXCEPT ![b] = Turned(@, v)]
        BY <3>2 DEF Hold
      <4> QED
        BY <1>0, <4>1, TriggerTypes DEF TypeOK
    <3> QED
      BY <1>3, <3>1, <3>2
  <2> QED
    BY <2>1, <2>2, PaidKeeps DEF Phases, Starts, Trades
<1>4. ASSUME NEW b \in Bridges, Fire(b) PROVE Paid'
  <2>1. PICK v \in 1 .. newest :
          Fires(trigger[b], v) /\ trigger' = [trigger EXCEPT ![b] = Fired(@, v)]
    BY <1>4 DEF Fire
  <2>2. Fired(trigger[b], v).executed = trigger[b].executed
    BY DEF Fired
  <2>3. pc' = [pc EXCEPT ![b] = "aiming"] /\ pc[b] = "loop" /\ presses' = presses
    BY <1>4 DEF Fire, Goto
  <2>4. /\ \A c \in Bridges : trigger'[c].executed = trigger[c].executed
        /\ \A c \in Bridges \ {b} : trigger'[c] = trigger[c]
    BY <1>0, <2>1, <2>2 DEF TypeOK
  <2> QED
    BY <2>3, <2>4, PaidKeeps DEF Phases, Starts, Trades
<1>5. ASSUME NEW b \in Bridges, Confirm(b) \/ Abandon(b) PROVE Paid'
  <2>1. presses' = presses /\ trigger' = trigger /\ pc[b] = "aiming"
    BY <1>5 DEF Confirm, Abandon, trade, Goto
  <2>2. PICK phase \in {"armed", "loop"} : pc' = [pc EXCEPT ![b] = phase]
    BY <1>5 DEF Confirm, Abandon, Goto
  <2> QED
    BY <2>1, <2>2, PaidKeeps DEF Phases, Starts, Trades
<1>6. ASSUME NEW b \in Bridges, Press(b) PROVE Paid'
  <2>1. /\ pc[b] = "armed" /\ pc' = [pc EXCEPT ![b] = "pressed"]
        /\ presses' = [presses EXCEPT ![b] = presses[b] + 1] /\ trigger' = trigger
    BY <1>6 DEF Press, Goto
  <2>2. trigger[b].executed < MaxTrades /\ trigger[b].executed \in Nat
    BY <1>0, <2>1 DEF Typed, Aimed, TypeOK, TriggerState
  <2>3. presses[b] = 2 * trigger[b].executed
    BY <2>1 DEF Paid
  <2>4. presses[b] + 1 <= 2 * MaxTrades
    BY <2>2, <2>3
  <2> QED
    BY <1>0, <2>1, <2>3, <2>4 DEF Paid, TypeOK, Starts
<1>7. ASSUME NEW b \in Bridges, PressAgain(b) PROVE Paid'
  <2>1. /\ pc[b] = "pressed" /\ pc' = [pc EXCEPT ![b] = "loop"]
        /\ presses' = [presses EXCEPT ![b] = presses[b] + 1]
        /\ trigger' = [trigger EXCEPT ![b] = Traded(trigger[b], goal[b])]
    BY <1>7 DEF PressAgain, Goto
  <2>2. trigger[b].executed < MaxTrades /\ trigger[b].executed \in Nat
    BY <1>0, <2>1 DEF Typed, Aimed, TypeOK, TriggerState
  <2>3. presses[b] = 2 * trigger[b].executed + 1
    BY <2>1 DEF Paid
  <2>4. Traded(trigger[b], goal[b]).executed = trigger[b].executed + 1
    BY DEF Traded
  <2>5. presses[b] + 1 = 2 * (trigger[b].executed + 1) /\ presses[b] + 1 <= 2 * MaxTrades
    BY <2>2, <2>3
  <2> QED
    BY <1>0, <2>1, <2>4, <2>5 DEF Paid, TypeOK, Starts
<1>8. CASE Publish \/ UNCHANGED vars
  <2>1. UNCHANGED <<pc, presses, trigger>>
    BY <1>8 DEF Publish, vars, trade
  <2> QED
    BY <2>1 DEF Paid
<1> QED
  BY <1>1, <1>2, <1>3, <1>4, <1>5, <1>6, <1>7, <1>8 DEF Next, End, Loop

-----------------------------------------------------------------------------
(* Candles *)

\* What a bridge has noted lies under its watermark.  The active candle is not
\* later than that of the verdict noted last, the last entry not later than the
\* active candle, whose entry is spent once it is taken or on its way.
CandlesOf(b) ==
    /\ \/ trigger[b].active = 0
       \/ heard[b] >= 1 /\ trigger[b].active <= CandleOf[heard[b]]
    /\ \/ entered[b] = 0
       \/ entered[b] < trigger[b].active
       \/ entered[b] = trigger[b].active /\ trigger[b].spent = 1
    /\ pc[b] \in {"aiming", "armed", "pressed"} =>
         trigger[b].active = CandleOf[goal[b]] /\ trigger[b].spent = 1
    /\ pc[b] \in {"aiming", "armed"} => entered[b] < trigger[b].active

Candles ==
    /\ \A b \in Bridges : heard[b] <= mark[b]
    /\ \A b \in Bridges \ masked : CandlesOf(b)

LEMMA CandlesInit == Init => Candles
<1> SUFFICES ASSUME Init PROVE Candles
  OBVIOUS
<1>1. \A b \in Bridges : /\ heard[b] = 0 /\ mark[b] = 0 /\ entered[b] = 0
                         /\ trigger[b].active = 0 /\ pc[b] = "off"
  BY DEF Init, Untriggered
<1> QED
  BY <1>1 DEF Candles, CandlesOf

\* A bridge keeps what holds of it in the steps of others.
LEMMA CandlesKept ==
    ASSUME Candles, NEW b \in Bridges,
           masked' \in {masked, masked \cup {b}},
           heard'[b] <= mark'[b], b \notin masked' => CandlesOf(b)',
           \A c \in Bridges \ {b} :
             /\ mark'[c] = mark[c] /\ heard'[c] = heard[c] /\ trigger'[c] = trigger[c]
             /\ goal'[c] = goal[c] /\ entered'[c] = entered[c] /\ pc'[c] = pc[c]
    PROVE  Candles'
  BY DEF Candles, CandlesOf

\* Whoever takes note of a verdict, and is not masked by it, does not go back.
LEMMA NotesForward ==
    ASSUME Typed, Candles, NEW b \in Bridges, NEW v \in 1 .. newest, NEW epoch \in 1 .. newest,
           Reads(b, v, epoch), Notes(b, v, epoch)
    PROVE  /\ heard' = [heard EXCEPT ![b] = v] /\ heard'[b] <= mark'[b]
           /\ masked' \in {masked, masked \cup {b}}
           /\ \A c \in Bridges \ {b} : mark'[c] = mark[c] /\ heard'[c] = heard[c]
           /\ b \notin masked' =>
                 /\ b \notin masked /\ heard[b] <= v
                 /\ trigger[b].active <= CandleOf[v]
<1>1. /\ mark \in [Bridges -> 0 .. newest] /\ heard \in [Bridges -> 0 .. newest]
      /\ newest \in 0 .. MaxVerdicts /\ trigger[b].active \in Nat
  BY DEF Typed, TypeOK, TriggerState
<1>2. epoch >= v /\ mark[b] <= epoch /\ heard[b] <= mark[b]
  BY DEF Reads, Fresh, Candles
<1>3. /\ heard' = [heard EXCEPT ![b] = v]
      /\ mark' = [mark EXCEPT ![b] = IF mark[b] < epoch THEN epoch ELSE mark[b]]
      /\ masked' = IF v < heard[b] /\ v < epoch THEN masked \cup {b} ELSE masked
  BY DEF Reads, Notes
<1>4. /\ heard'[b] <= mark'[b] /\ masked' \in {masked, masked \cup {b}}
      /\ \A c \in Bridges \ {b} : mark'[c] = mark[c] /\ heard'[c] = heard[c]
  BY <1>1, <1>2, <1>3
<1>5. ASSUME b \notin masked'
      PROVE  b \notin masked /\ heard[b] <= v /\ trigger[b].active <= CandleOf[v]
  <2>1. b \notin masked /\ heard[b] <= v
    BY <1>1, <1>2, <1>3, <1>5
  <2>2. /\ v \in Verdict /\ CandleOf[v] \in Nat
        /\ heard[b] >= 1 => heard[b] \in Verdict /\ CandleOf[heard[b]] \in Nat
    BY <1>1 DEF Verdict
  <2>3. heard[b] >= 1 => CandleOf[heard[b]] <= CandleOf[v]
    BY <2>1, <2>2
  <2>4. \/ trigger[b].active = 0
        \/ heard[b] >= 1 /\ trigger[b].active <= CandleOf[heard[b]]
    BY <2>1 DEF Candles, CandlesOf
  <2> QED
    BY <1>1, <2>1, <2>2, <2>3, <2>4
<1> QED
  BY <1>3, <1>4, <1>5

\* When the trigger looks at a later verdict, the active candle advances or stays.
LEMMA TurnForward ==
    ASSUME Typed, Candles, NEW b \in Bridges \ masked, NEW v \in 1 .. newest,
           trigger[b].active <= CandleOf[v]
    PROVE  LET t == Turned(trigger[b], v) IN
           /\ t.active \in Nat /\ t.active <= CandleOf[v]
           /\ \/ entered[b] = 0
              \/ entered[b] < t.active
              \/ entered[b] = t.active /\ t.spent = 1
<1>1. trigger[b] \in TriggerState /\ entered[b] \in Nat /\ CandleOf[v] \in Nat \ {0}
  BY TriggerTypes DEF Typed, TypeOK
<1>2. \/ entered[b] = 0
      \/ entered[b] < trigger[b].active
      \/ entered[b] = trigger[b].active /\ trigger[b].spent = 1
  BY DEF Candles, CandlesOf
<1>3. CASE Turned(trigger[b], v) = trigger[b]
  BY <1>1, <1>2, <1>3 DEF TriggerState
<1>4. CASE /\ CandleOf[v] # trigger[b].active
           /\ Turned(trigger[b], v) = [last |-> trigger[b].last, active |-> CandleOf[v], spent |-> 0,
                                       executed |-> trigger[b].executed]
  BY <1>1, <1>2, <1>4 DEF TriggerState
<1> QED
  BY <1>3, <1>4 DEF Turned

LEMMA CandlesStep == Keyed /\ Typed /\ Candles /\ [Next]_vars => Candles'
<1> SUFFICES ASSUME Keyed, Typed, Candles, [Next]_vars PROVE Candles'
  OBVIOUS
<1>0. TypeOK
  BY DEF Typed
<1>1. ASSUME NEW b \in Bridges, Start(b) \/ Leave(b) PROVE Candles'
  <2>1. UNCHANGED <<mark, heard, masked, trigger, goal, entered>>
    BY <1>1 DEF Start, Launch, Probe, Steal, Reopen, Sign, Leave, reading, trade
  <2>2. /\ pc'[b] \notin {"aiming", "armed", "pressed"}
        /\ \A c \in Bridges \ {b} : pc'[c] = pc[c]
    BY <1>0, <1>1 DEF Start, Launch, Probe, Steal, Reopen, Sign, Leave, Goto, CreateOr, TypeOK
  <2> QED
    BY <2>1, <2>2 DEF Candles, CandlesOf
<1>2. ASSUME NEW b \in Bridges, Release(b) \/ Kill(b) PROVE Candles'
  <2>1. /\ pc' = [pc EXCEPT ![b] = "gone"] /\ masked' = masked /\ Forget(b)
    BY <1>2 DEF Release, Kill, Goto
  <2>2. /\ mark'[b] = 0 /\ heard'[b] = 0 /\ entered'[b] = 0 /\ pc'[b] = "gone"
        /\ trigger'[b] = Untriggered
        /\ \A c \in Bridges \ {b} :
             /\ mark'[c] = mark[c] /\ heard'[c] = heard[c] /\ trigger'[c] = trigger[c]
             /\ goal'[c] = goal[c] /\ entered'[c] = entered[c] /\ pc'[c] = pc[c]
    BY <1>0, <2>1 DEF Forget, TypeOK
  <2>3. CandlesOf(b)'
    BY <2>2 DEF CandlesOf, Untriggered
  <2> QED
    BY <2>1, <2>2, <2>3, CandlesKept
<1>3. ASSUME NEW b \in Bridges, Skip(b) \/ Abandon(b) PROVE Candles'
  <2>1. /\ UNCHANGED <<heard, masked, trigger, goal, entered>>
        /\ pc' = [pc EXCEPT ![b] = "loop"]
    BY <1>0, <1>3 DEF Skip, Abandon, trade, Goto, TypeOK
  <2>2. heard[b] <= mark'[b] /\ \A c \in Bridges \ {b} : mark'[c] = mark[c]
    BY <1>0, <1>3 DEF Skip, Abandon, Reads, Fresh, TypeOK, Candles
  <2>3. b \notin masked' => CandlesOf(b)'
    BY <1>0, <2>1 DEF Candles, CandlesOf, TypeOK
  <2> QED
    BY <1>0, <2>1, <2>2, <2>3, CandlesKept DEF TypeOK
<1>4. ASSUME NEW b \in Bridges, Hold(b) PROVE Candles'
  <2>1. PICK v \in 1 .. newest, epoch \in 1 .. newest :
          /\ Reads(b, v, epoch) /\ Notes(b, v, epoch)
          /\ trigger' = [trigger EXCEPT ![b] = Turned(trigger[b], v)]
    BY <1>4 DEF Hold
  <2>2. UNCHANGED <<pc, goal, entered>> /\ pc[b] = "loop"
    BY <1>4 DEF Hold
  <2>3. /\ heard'[b] = v /\ trigger'[b] = Turned(trigger[b], v)
        /\ \A c \in Bridges \ {b} : trigger'[c] = trigger[c]
    BY <1>0, <2>1 DEF Notes, TypeOK
  <2>4. ASSUME b \notin masked' PROVE CandlesOf(b)'
    <3>1. b \in Bridges \ masked /\ trigger[b].active <= CandleOf[v]
      BY <2>1, <2>4, NotesForward
    <3>2. /\ trigger'[b].active \in Nat /\ trigger'[b].active <= CandleOf[v]
          /\ \/ entered[b] = 0
             \/ entered[b] < trigger'[b].active
             \/ entered[b] = trigger'[b].active /\ trigger'[b].spent = 1
      BY <2>3, <3>1, TurnForward
    <3> QED
      BY <2>2, <2>3, <3>2 DEF CandlesOf
  <2> QED
    BY <2>1, <2>2, <2>3, <2>4, NotesForward, CandlesKept
<1>5. ASSUME NEW b \in Bridges, Fire(b) PROVE Candles'
  <2>1. PICK v \in 1 .. newest, epoch \in 1 .. newest :
          /\ Reads(b, v, epoch) /\ Notes(b, v, epoch) /\ Fires(trigger[b], v)
          /\ trigger' = [trigger EXCEPT ![b] = Fired(trigger[b], v)]
          /\ goal' = [goal EXCEPT ![b] = v]
    BY <1>5 DEF Fire
  <2>2. pc' = [pc EXCEPT ![b] = "aiming"] /\ entered' = entered
    BY <1>5 DEF Fire, Goto
  <2>3. /\ trigger'[b].active = CandleOf[v] /\ trigger'[b].spent = 1
        /\ CandleOf[v] \in Nat \ {0}
        /\ Turned(trigger[b], v).active = CandleOf[v] /\ Turned(trigger[b], v).spent = 0
    BY <1>0, <2>1, TriggerTypes DEF TypeOK
  <2>4. /\ heard'[b] = v /\ goal'[b] = v /\ pc'[b] = "aiming"
        /\ \A c \in Bridges \ {b} :
             trigger'[c] = trigger[c] /\ goal'[c] = goal[c] /\ pc'[c] = pc[c]
    BY <1>0, <2>1, <2>2 DEF Notes, TypeOK
  <2>5. ASSUME b \notin masked' PROVE CandlesOf(b)'
    <3>1. b \in Bridges \ masked /\ trigger[b].active <= CandleOf[v]
      BY <2>1, <2>5, NotesForward
    <3>2. entered[b] = 0 \/ entered[b] < CandleOf[v]
      BY <2>3, <3>1, TurnForward
    <3>3. entered'[b] < CandleOf[v]
      BY <2>2, <2>3, <3>2
    <3> QED
      BY <2>3, <2>4, <3>3 DEF CandlesOf
  <2> QED
    BY <2>1, <2>2, <2>4, <2>5, NotesForward, CandlesKept
<1>6. ASSUME NEW b \in Bridges, Confirm(b) PROVE Candles'
  <2>1. PICK w \in 1 .. newest, epoch \in 1 .. newest :
          Reads(b, w, epoch) /\ Confirmed(goal[b], w) /\ goal' = [goal EXCEPT ![b] = w]
    BY <1>6 DEF Confirm
  <2>2. /\ UNCHANGED <<heard, masked, trigger, entered>>
        /\ pc[b] = "aiming" /\ pc' = [pc EXCEPT ![b] = "armed"]
    BY <1>6 DEF Confirm, Goto
  <2>3. CandleOf[goal'[b]] = CandleOf[goal[b]]
    BY <1>0, <2>1 DEF Confirmed, TypeOK
  <2>4. heard[b] <= mark'[b] /\ \A c \in Bridges \ {b} : mark'[c] = mark[c]
    BY <1>0, <2>1 DEF Reads, Fresh, TypeOK, Candles
  <2>5. b \notin masked' => CandlesOf(b)'
    BY <1>0, <2>2, <2>3 DEF Candles, CandlesOf, TypeOK
  <2> QED
    BY <1>0, <2>1, <2>2, <2>4, <2>5, CandlesKept DEF TypeOK
<1>7. ASSUME NEW b \in Bridges, Press(b) PROVE Candles'
  <2>1. /\ UNCHANGED <<mark, heard, masked, trigger, goal>>
        /\ pc[b] = "armed" /\ pc' = [pc EXCEPT ![b] = "pressed"]
        /\ entered' = [entered EXCEPT ![b] = CandleOf[goal[b]]]
    BY <1>7 DEF Press, Goto, reading
  <2>2. b \notin masked' => CandlesOf(b)'
    BY <1>0, <2>1 DEF Candles, CandlesOf, TypeOK
  <2> QED
    BY <1>0, <2>1, <2>2, CandlesKept DEF TypeOK, Candles
<1>8. ASSUME NEW b \in Bridges, PressAgain(b) PROVE Candles'
  <2>1. /\ UNCHANGED <<mark, heard, masked, goal, entered>>
        /\ pc[b] = "pressed" /\ pc' = [pc EXCEPT ![b] = "loop"]
        /\ trigger' = [trigger EXCEPT ![b] = Traded(trigger[b], goal[b])]
    BY <1>8 DEF PressAgain, Goto, reading
  <2>2. trigger'[b].active = trigger[b].active /\ trigger'[b].spent = trigger[b].spent
    BY <1>0, <2>1 DEF Traded, TypeOK
  <2>3. b \notin masked' => CandlesOf(b)'
    BY <1>0, <2>1, <2>2 DEF Candles, CandlesOf, TypeOK
  <2> QED
    BY <1>0, <2>1, <2>3, CandlesKept DEF TypeOK, Candles
<1>9. CASE Publish \/ UNCHANGED vars
  <2>1. UNCHANGED <<pc, mark, heard, masked, trigger, goal, entered>>
    BY <1>9 DEF Publish, vars, reading, trade
  <2> QED
    BY <2>1 DEF Candles, CandlesOf
<1> QED
  BY <1>1, <1>2, <1>3, <1>4, <1>5, <1>6, <1>7, <1>8, <1>9 DEF Next, End, Loop

-----------------------------------------------------------------------------
(* Theorems *)

\* The inductive invariant of the bridges: lock, encounters and presses.
IInv == Typed /\ Locked /\ Encounters /\ Paid

\* It holds for every number of launches, verdicts and trades.
THEOREM Invariance == Spec => []IInv
<1>1. Init => IInv
  BY TypeInit, LockInit, PaidInit DEF IInv
<1>2. IInv /\ [Next]_vars => IInv'
  BY TypeStep, LockStep, EncounterStep, PaidStep DEF IInv
<1> QED
  BY <1>1, <1>2, PTL DEF Spec

\* Locks, verdicts and trigger states keep their types (_InstanceLock,
\* _BridgeTriggerState).
THEOREM TypeCorrect == Spec => []TypeOK
<1>1. IInv => TypeOK
  BY DEF IInv, Typed
<1> QED
  BY <1>1, Invariance, PTL

\* Two bridges trade at once only if launches overlapped or the lock of a live
\* bridge was removed (_InstanceLock.acquire): what is left of OneBridge.
TradesAlone == crowded \/ OneBridge

THEOREM SingleBridge == Spec => []TradesAlone
<1>1. IInv => TradesAlone
  BY DEF IInv, Locked, TradesAlone, OneBridge, Trading, Holding
<1> QED
  BY <1>1, Invariance, PTL

\* Whoever is refused has met a live bridge: the lock of a dead one never blocks
\* a launch (_InstanceLock.acquire, the kill switch).
THEOREM NeverBlocked == Spec => []StaleNeverBlocks
<1>1. IInv => StaleNeverBlocks
  BY DEF IInv, Encounters
<1> QED
  BY <1>1, Invariance, PTL

\* No bridge presses more than twice for each trade it may execute, wherever it
\* ends (max_trades_per_session).
THEOREM Capped == Spec => []ContractsCapped
<1>1. IInv => ContractsCapped
  BY DEF IInv, Paid, ContractsCapped
<1> QED
  BY <1>1, Invariance, PTL

\* When verdicts name their candle by its key, each entry of a bridge is for a
\* later candle than the one before, whatever order it reads verdicts in and
\* whatever it reads between aiming and pressing (should_trigger,
\* _confirm_pre_click_match, the watermark).
THEOREM Forward == ASSUME Keyed PROVE Spec => EntriesForward
<1>1. Init => Candles
  BY CandlesInit
<1>2. Typed /\ Candles /\ [Next]_vars => Candles'
  BY CandlesStep
<1>3. Typed /\ Candles /\ [Next]_vars
        => [\A b \in Bridges \ masked : Press(b) => entered[b] < CandleOf[goal[b]]]_vars
  BY DEF Candles, CandlesOf, Press, Goto
<1>4. Spec => []Typed
  <2>1. IInv => Typed
    BY DEF IInv
  <2> QED
    BY <2>1, Invariance, PTL
<1> QED
  BY <1>1, <1>2, <1>3, <1>4, PTL DEF Spec, EntriesForward
=============================================================================
