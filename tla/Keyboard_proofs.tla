--------------------------- MODULE Keyboard_proofs ---------------------------
(***************************************************************************)
(* Proofs about Keyboard: for any keys and bindings, no key is taken for   *)
(* held that is not, and none is neither the client's nor the              *)
(* compositor's.                                                           *)
(***************************************************************************)
EXTENDS Keyboard, TLAPS

\* A key is the client's or the compositor's.
NotBoth == forwarded \cap suppressed_keys \subseteq orphan

\* Modifiers are bound to nothing.
ModifiersPass == suppressed_keys \subseteq Letters

\* An Alt-Tab without its modifier is one that a repeat began.
RepeatedCycle == cycle_state /\ CycleModifier \notin pressed_keys => down \subseteq orphan

IInv == TypeOK /\ KeysAreHeld /\ KeysAreAccounted /\ NotBoth /\ ModifiersPass /\ RepeatedCycle

LEMMA HoldsNothing == NoAction \in Holds
BY DEF Holds

-----------------------------------------------------------------------------
(* What input shares with the pointer keeps its type *)

\* Whatever an action does, the focus stays where it was or on an output there is.
LEMMA ActionsKeepSession ==
    ASSUME SessionTypeOK, NEW effect \in Effects, execute_action(effect)
    PROVE  SessionTypeOK' /\ UNCHANGED session_lock
BY OutputsAssumption DEF SessionTypeOK, Known, monitors, execute_action

\* Locks, fullscreen and monitors.
LEMMA WorldKeepsSession ==
    ASSUME SessionTypeOK, World
    PROVE  SessionTypeOK' /\ (Unlocked => Unlocked')
<1>1. CASE ConfirmLock \/ EndLock
  BY <1>1 DEF SessionTypeOK, Known, monitors, Unlocked, ConfirmLock, EndLock
<1>2. CASE enter_fullscreen
  BY <1>2 DEF SessionTypeOK, Known, monitors, Unlocked, enter_fullscreen
<1>3. CASE exit_fullscreen_for_gesture
  BY <1>3 DEF SessionTypeOK, Known, monitors, Unlocked, exit_fullscreen_for_gesture
<1>4. ASSUME NEW o \in Outputs, exit_fullscreen_on(o)
      PROVE  SessionTypeOK' /\ (Unlocked => Unlocked')
  BY <1>4 DEF SessionTypeOK, Known, monitors, Unlocked, exit_fullscreen_on
<1>5. ASSUME NEW o \in Outputs, Unplug(o)
      PROVE  SessionTypeOK' /\ (Unlocked => Unlocked')
  BY <1>5, OutputsAssumption DEF SessionTypeOK, Known, Unlocked, Unplug
<1>6. ASSUME NEW o \in Outputs, Plug(o)
      PROVE  SessionTypeOK' /\ (Unlocked => Unlocked')
  BY <1>6, OutputsAssumption DEF SessionTypeOK, Known, Unlocked, Plug, Left, FocusLeft
<1>7. CASE PlugFails
  BY <1>7 DEF SessionTypeOK, Known, Unlocked, PlugFails, Left, FocusLeft
<1>. QED BY <1>1, <1>2, <1>3, <1>4, <1>5, <1>6, <1>7 DEF World

\* Executing a bound action begins an Alt-Tab at most.
LEMMA ExecutingKeepsType ==
    ASSUME SessionTypeOK, cycle_state \in BOOLEAN, NEW a \in Actions, Execute(a)
    PROVE  /\ SessionTypeOK' /\ UNCHANGED session_lock
           /\ cycle_state' \in BOOLEAN
           /\ cycle_state' = cycle_state \/ (a.cycles /\ cycle_state')
<1>1. a.effect \in Effects
  BY KeyboardAssumption
<1>2. execute_action(a.effect)
  BY DEF Execute
<1>. QED BY <1>1, <1>2, ActionsKeepSession DEF Execute

-----------------------------------------------------------------------------
(* Keys *)

\* A press: locked, it is the client's; at the end of an Alt-Tab too; else it is passed
\* on, switches the VT or runs a binding.
LEMMA PressKeeps ==
    ASSUME IInv, NEW k \in Keys, Press(k)
    PROVE  IInv'
<1>. USE DEF IInv, KeysAreHeld, KeysAreAccounted, NotBoth, ModifiersPass, RepeatedCycle, pressed_keys
<1>1. CASE ForwardLocked(k, TRUE) /\ UNCHANGED cut
  <2>1. TypeOK'
    BY <1>1 DEF Press, ForwardLocked, TypeOK, SessionTypeOK, Known, session, monitors
  <2>2. suppressed_keys = {} /\ suppressed_keys' = {} /\ held_action' = NoAction /\ ~cycle_state'
    BY <1>1 DEF ForwardLocked
  <2>3. forwarded' = forwarded \cup {k} /\ down' = down \cup {k} /\ UNCHANGED <<cut, orphan>>
    BY <1>1 DEF Press, ForwardLocked
  <2>4. KeysAreHeld'
    BY <2>2, <2>3
  <2>5. KeysAreAccounted'
    BY <2>2, <2>3
  <2>. QED BY <2>1, <2>2, <2>4, <2>5
<1>2. CASE Unlocked /\ end_cycle(k, TRUE)
  BY <1>2 DEF Press, ForwardLocked, end_cycle, EndsCycle, TypeOK, SessionTypeOK, Known, session, monitors, Unlocked
<1>3. CASE Unlocked /\ ~EndsCycle /\ PassOn(k)
  BY <1>3 DEF Press, ForwardLocked, EndsCycle, PassOn, end_cycle, TypeOK, SessionTypeOK, Known, session, monitors, Unlocked
<1>4. CASE Unlocked /\ SwitchVt(k) /\ cut' = down'
  BY <1>4 DEF Press, SwitchVt, TypeOK, SessionTypeOK, Known, session, monitors, Unlocked
<1>5. ASSUME Unlocked, ~EndsCycle, NEW a \in Actions, Bound(k, a), UNCHANGED cut
      PROVE  IInv'
  <2>1. /\ SessionTypeOK' /\ UNCHANGED session_lock
        /\ cycle_state' \in BOOLEAN
        /\ cycle_state' = cycle_state \/ (a.cycles /\ cycle_state')
    BY <1>5, ExecutingKeepsType DEF Bound, TypeOK
  <2>2. Held(k, a) \in Holds /\ NoAction \in Holds /\ NoAction.key = NoKey /\ Held(k, a).key = k
    BY DEF Holds, Held, NoAction
  <2>3. TypeOK'
    BY <1>5, <2>1, <2>2 DEF Press, Bound, TypeOK, Keys
  <2>4. Unlocked'
    BY <1>5, <2>1 DEF Unlocked
  <2>5. cycle_state' => CycleModifier \in pressed_keys'
    BY <1>5, <2>1 DEF Bound, EndsCycle
  <2>6. KeysAreHeld'
    BY <1>5, <2>2, <2>4, <2>5 DEF Press, Bound
  <2>7. KeysAreAccounted' /\ NotBoth'
    BY <1>5 DEF Press, Bound
  <2>8. ModifiersPass' /\ RepeatedCycle'
    BY <1>5, <2>5 DEF Press, Bound
  <2>. QED BY <2>3, <2>6, <2>7, <2>8
<1>. QED BY <1>1, <1>2, <1>3, <1>4, <1>5 DEF Press

\* A release ends its repeat, and goes where the press went, or to the client when it
\* ends an Alt-Tab: which only a modifier does, or any key once a repeat began one.
LEMMA ReleaseKeeps ==
    ASSUME IInv, NEW k \in Keys, Release(k)
    PROVE  IInv'
<1>. USE DEF IInv, KeysAreHeld, KeysAreAccounted, NotBoth, ModifiersPass, RepeatedCycle, pressed_keys
<1>1. CASE ForwardLocked(k, FALSE)
  BY <1>1 DEF Release, ForwardLocked, TypeOK, SessionTypeOK, Known, session, monitors, Unlocked
<1>2. CASE Unlocked /\ StopRepeat(k) /\ end_cycle(k, FALSE)
  <2>1. k \in suppressed_keys => k \in orphan
    BY <1>2, KeyboardAssumption DEF Release, end_cycle, EndsCycle
  <2>2. TypeOK'
    BY <1>2, HoldsNothing DEF Release, end_cycle, StopRepeat, TypeOK, SessionTypeOK, Known, session, monitors
  <2>. QED BY <1>2, <2>1, <2>2 DEF Release, end_cycle, StopRepeat, session, monitors, Unlocked, NoAction
<1>3. CASE Unlocked /\ StopRepeat(k) /\ ~EndsCycle /\ Released(k) /\ UNCHANGED <<session, cycle_state>>
  <2>1. TypeOK'
    BY <1>3, HoldsNothing DEF Release, Released, StopRepeat, TypeOK, SessionTypeOK, Known, session, monitors
  <2>2. KeysAreHeld'
    BY <1>3 DEF Release, Released, StopRepeat, EndsCycle, session, monitors, Unlocked, NoAction, TypeOK
  <2>3. KeysAreAccounted' /\ NotBoth' /\ ModifiersPass' /\ RepeatedCycle'
    BY <1>3 DEF Release, Released, EndsCycle
  <2>. QED BY <2>1, <2>2, <2>3
<1>. QED BY <1>1, <1>2, <1>3 DEF Release

\* A repeat that begins an Alt-Tab without its modifier leaves every key that is down in
\* doubt.
LEMMA RepeatKeeps ==
    ASSUME IInv, KeyRepeat
    PROVE  IInv'
<1>. USE DEF IInv, KeysAreHeld, KeysAreAccounted, NotBoth, ModifiersPass, RepeatedCycle, pressed_keys
<1>1. held_action.action \in Actions
  BY DEF KeyRepeat, TypeOK, Holds, Held, NoAction
<1>2. /\ SessionTypeOK' /\ UNCHANGED session_lock
      /\ cycle_state' \in BOOLEAN
      /\ cycle_state' = cycle_state \/ (held_action.action.cycles /\ cycle_state')
  BY <1>1, ExecutingKeepsType DEF KeyRepeat, TypeOK
<1>3. TypeOK'
  BY <1>2 DEF KeyRepeat, TypeOK
<1>. QED BY <1>2, <1>3 DEF KeyRepeat, Unlocked

-----------------------------------------------------------------------------
(* The theorems *)

LEMMA Initially == Init => IInv
BY HoldsNothing, OutputsAssumption
   DEF Init, SessionInit, SessionTypeOK, Known, IInv, TypeOK, pressed_keys, KeysAreHeld, KeysAreAccounted, NotBoth,
       ModifiersPass, RepeatedCycle

LEMMA StepKeeps == IInv /\ [Next]_vars => IInv'
<1>. SUFFICES ASSUME IInv, [Next]_vars PROVE IInv'
  OBVIOUS
<1>. USE DEF IInv, KeysAreHeld, KeysAreAccounted, NotBoth, ModifiersPass, RepeatedCycle, pressed_keys
<1>1. ASSUME NEW k \in Keys, Press(k) PROVE IInv'
  BY <1>1, PressKeeps
<1>2. ASSUME NEW k \in Keys, Release(k) PROVE IInv'
  BY <1>2, ReleaseKeeps
<1>3. CASE KeyRepeat
  BY <1>3, RepeatKeeps
<1>4. CASE Lock
  BY <1>4, HoldsNothing DEF Lock, BeginLock, monitors, ResetForLock, TypeOK, SessionTypeOK, Known
<1>5. ASSUME NEW S \in SUBSET down, VtSwitch(S) PROVE IInv'
  BY <1>5 DEF VtSwitch, session, monitors, Unlocked, TypeOK, SessionTypeOK, Known
<1>6. ASSUME NEW a \in Actions, OtherBinding(a) PROVE IInv'
  <2>1. SessionTypeOK' /\ UNCHANGED session_lock /\ cycle_state' = cycle_state
    BY <1>6, ExecutingKeepsType DEF OtherBinding, TypeOK
  <2>. QED BY <1>6, <2>1 DEF OtherBinding, TypeOK, Unlocked
<1>7. CASE World
  <2>1. SessionTypeOK' /\ (Unlocked => Unlocked')
    BY <1>7, WorldKeepsSession DEF TypeOK
  <2>. QED BY <1>7, <2>1 DEF World, keyboard, TypeOK
<1>8. CASE UNCHANGED vars
  BY <1>8 DEF vars, session, monitors, keyboard, TypeOK, SessionTypeOK, Known, Unlocked
<1>. QED BY <1>1, <1>2, <1>3, <1>4, <1>5, <1>6, <1>7, <1>8 DEF Next

\* The strengthening: a key is the client's or the compositor's, but for keys in doubt.
THEOREM Invariance == Spec => []IInv
BY Initially, StepKeeps, PTL DEF Spec

\* The variables of the keyboard and of the session keep to their types.
THEOREM TypeCorrect == Spec => []TypeOK
<1>. IInv => TypeOK
  BY DEF IInv
<1>. QED BY Invariance, PTL

\* Whatever locks, VT switches and bindings come between press and release, nobody takes
\* a key for held that is not: not the client, the repeat, nor an Alt-Tab.
THEOREM HeldKeysAreDown == Spec => []KeysAreHeld
<1>. IInv => KeysAreHeld
  BY DEF IInv
<1>. QED BY Invariance, PTL

\* Whatever happens, a key that is down and was not interrupted is either the client's or
\* a binding's: the client hears of both its press and its release, or of neither.
THEOREM KeysBelongToOne == Spec => []KeysAreAccounted
<1>. IInv => KeysAreAccounted
  BY DEF IInv
<1>. QED BY Invariance, PTL
=============================================================================
