------------------------------ MODULE Keyboard ------------------------------
(***************************************************************************)
(* The keyboard (input/keyboard.rs): which presses are bindings and which  *)
(* go to the client, the releases that are kept from it, the repeat of a   *)
(* held binding (apply_key_repeat in state/animation.rs), Alt-Tab and its  *)
(* modifier, and what the session lock and a VT switch reset.              *)
(*                                                                         *)
(* The world outside: the keys that are physically down, what smithay has  *)
(* forwarded, and the releases that a VT switch swallowed.                 *)
(***************************************************************************)
EXTENDS Session

CONSTANTS
    Modifiers,      \* modifier keys
    Letters,        \* other keys
    CycleModifier,  \* config.cycle_modifier, one of Modifiers
    Actions,        \* what keys may be bound to: [effect, repeatable, cycles]
    NoKey

Keys == Modifiers \cup Letters

ASSUME KeyboardAssumption ==
    /\ CycleModifier \in Modifiers
    /\ Modifiers \cap Letters = {}
    /\ NoKey \notin Keys
    /\ Actions \subseteq [effect : Effects, repeatable : BOOLEAN, cycles : BOOLEAN]

VARIABLES
    down,             \* keys that are physically down
    lost,             \* keys xkb takes for down: their release was swallowed
    forwarded,        \* keys whose press went to the client, and no release yet
    suppressed_keys,  \* keys whose release is kept from the client
    held_action,      \* the key that repeats, and its action
    cycle_state,      \* an Alt-Tab is going on
    cut,              \* history: keys that a lock or a VT switch found down
    orphan            \* history: keys that lost a release, see VtSwitch and KeyRepeat

keyboard == <<down, lost, forwarded, suppressed_keys, held_action, cycle_state, cut, orphan>>
vars == <<session, keyboard>>

NoAction == [key |-> NoKey]
Held(k, a) == [key |-> k, action |-> a]
Holds == {NoAction} \cup {Held(k, a) : k \in Keys, a \in Actions}

\* What xkb takes for pressed.
pressed_keys == down \cup lost

-----------------------------------------------------------------------------
(* Executing an action *)

\* execute_action: CycleWindows begins or goes on with an Alt-Tab, unless no window
\* was ever focused.
Execute(a) ==
    /\ execute_action(a.effect)
    /\ cycle_state' \in IF a.cycles THEN {cycle_state, TRUE} ELSE {cycle_state}

-----------------------------------------------------------------------------
(* Key events.  The filter runs when xkb has taken the event in. *)

\* While locked every key goes to the lock surface.
ForwardLocked(k, pressed) ==
    /\ ~Unlocked
    /\ forwarded' = IF pressed THEN forwarded \cup {k} ELSE forwarded \ {k}
    /\ UNCHANGED <<session, suppressed_keys, held_action, cycle_state>>

\* The cycle modifier is up: the Alt-Tab ends, and the event goes to the client.
EndsCycle == cycle_state /\ CycleModifier \notin pressed_keys'

end_cycle(k, pressed) ==
    /\ EndsCycle
    /\ cycle_state' = FALSE
    /\ forwarded' = IF pressed THEN forwarded \cup {k} ELSE forwarded \ {k}
    /\ UNCHANGED <<session, suppressed_keys>>

\* A key that is bound to nothing, or that pass_keys gives to the focused window.
PassOn(k) ==
    /\ forwarded' = forwarded \cup {k}
    /\ UNCHANGED <<session, suppressed_keys, held_action, cycle_state>>

\* Ctrl+Alt+Fn.  The switch itself is VtSwitch.
SwitchVt(k) ==
    /\ k \in Letters
    /\ suppressed_keys' = {}
    /\ cycle_state' = FALSE
    /\ UNCHANGED <<session, forwarded, held_action>>

\* A binding; the ones that cycle are bound with the cycle modifier.
Bound(k, a) ==
    /\ k \in Letters
    /\ a.cycles => CycleModifier \in pressed_keys'
    /\ suppressed_keys' = suppressed_keys \cup {k}
    /\ held_action' = IF a.repeatable THEN Held(k, a) ELSE NoAction
    /\ Execute(a)
    /\ UNCHANGED forwarded

Press(k) ==
    /\ k \notin down
    /\ down' = down \cup {k}
    /\ UNCHANGED <<lost, orphan>>
    /\ \/ ForwardLocked(k, TRUE) /\ UNCHANGED cut
       \/ /\ Unlocked
          /\ end_cycle(k, TRUE)
          /\ UNCHANGED <<held_action, cut>>
       \/ /\ Unlocked /\ ~EndsCycle
          /\ \/ PassOn(k) /\ UNCHANGED cut
             \/ SwitchVt(k) /\ cut' = down'
             \/ UNCHANGED cut /\ \E a \in Actions : Bound(k, a)

\* A release that was not announced by a press to the client is kept from it.
Released(k) ==
    /\ suppressed_keys' = suppressed_keys \ {k}
    /\ forwarded' = IF k \in suppressed_keys THEN forwarded ELSE forwarded \ {k}

\* The release of the held key ends its repeat.
SlipStopRepeat(k) ==
    held_action' = IF EndsCycle THEN NoAction ELSE held_action

StopRepeat(k) ==
    held_action' = IF held_action.key = k THEN NoAction ELSE held_action

\* xkb counts presses: one that was lost may outlast the next release.
Release(k) ==
    /\ k \in down
    /\ down' = down \ {k}
    /\ cut' = cut \ {k}
    /\ lost' \in {lost, lost \ {k}}
    /\ \/ ForwardLocked(k, FALSE)
       \/ /\ Unlocked
          /\ StopRepeat(k)
          /\ \/ end_cycle(k, FALSE)
             \/ /\ ~EndsCycle
                /\ Released(k)
                /\ UNCHANGED <<session, cycle_state>>
    /\ UNCHANGED orphan

\* apply_key_repeat: delay and rate have passed.  A binding that cycles begins a new
\* Alt-Tab if its modifier has ended the one before; the next key event ends that
\* one and goes to the client, whatever it was.
KeyRepeat ==
    /\ held_action # NoAction
    /\ Execute(held_action.action)
    /\ orphan' = IF cycle_state' /\ CycleModifier \notin pressed_keys
                 THEN orphan \cup down ELSE orphan
    /\ UNCHANGED <<down, lost, forwarded, suppressed_keys, held_action, cut>>

-----------------------------------------------------------------------------
(* Interruptions *)

\* What SessionLockHandler::lock resets of the keyboard.
SlipResetForLock ==
    held_action' = NoAction /\ cycle_state' = FALSE /\ UNCHANGED suppressed_keys

ResetForLock ==
    held_action' = NoAction /\ cycle_state' = FALSE /\ suppressed_keys' = {}

Lock ==
    /\ BeginLock
    /\ ResetForLock
    /\ cut' = down
    /\ UNCHANGED <<down, lost, forwarded, orphan>>

\* PauseSession resets part of it; keys that go up while the VT is elsewhere are
\* never heard of.
VtSwitch(S) ==
    /\ suppressed_keys' = {}
    /\ cycle_state' = FALSE
    /\ down' = down \ S
    /\ lost' = lost \cup S
    /\ cut' = down'
    /\ orphan' = orphan \cup S
    /\ UNCHANGED <<session, forwarded, held_action>>

\* A gesture or a mouse binding: these are not bound to CycleWindows.
OtherBinding(a) ==
    /\ Unlocked /\ ~a.cycles
    /\ Execute(a)
    /\ UNCHANGED <<down, lost, forwarded, suppressed_keys, held_action, cut, orphan>>

World ==
    /\ \/ ConfirmLock \/ EndLock
       \/ enter_fullscreen
       \/ PlugFails
       \/ \E o \in Outputs : exit_fullscreen_on(o) \/ Unplug(o) \/ Plug(o)
       \/ Unlocked /\ is_fullscreen /\ exit_fullscreen_for_gesture
    /\ UNCHANGED keyboard

Init ==
    /\ SessionInit
    /\ down = {} /\ lost = {} /\ forwarded = {} /\ suppressed_keys = {}
    /\ held_action = NoAction /\ cycle_state = FALSE
    /\ cut = {} /\ orphan = {}

Next ==
    \/ \E k \in Keys : Press(k) \/ Release(k)
    \/ KeyRepeat
    \/ Lock
    \/ \E S \in SUBSET down : VtSwitch(S)
    \/ \E a \in Actions : OtherBinding(a)
    \/ World

Spec == Init /\ [][Next]_vars

TypeOK ==
    /\ SessionTypeOK
    /\ down \cup lost \cup forwarded \cup suppressed_keys \cup cut \cup orphan \subseteq Keys
    /\ held_action \in Holds
    /\ cycle_state \in BOOLEAN

-----------------------------------------------------------------------------
(* Properties.  They are silent on a key from the moment one of its releases went    *)
(* astray: swallowed by a VT switch, or at the end of a repeated Alt-Tab.             *)

\* The client believes a key held only while it is down.  The compositor repeats a
\* binding only while its key is down, keeps back releases that are still to come, and
\* cycles while the modifier or a repeating key holds the Alt-Tab; while the screen is
\* locked it does none of that.
KeysAreHeld ==
    /\ forwarded \subseteq down \cup orphan
    /\ held_action # NoAction => Unlocked /\ held_action.key \in down \cup orphan
    /\ suppressed_keys # {} => Unlocked /\ suppressed_keys \subseteq down \cup orphan
    /\ cycle_state => /\ Unlocked
                      /\ \/ CycleModifier \in pressed_keys
                         \/ held_action # NoAction /\ held_action.action.cycles

\* A key that nothing interrupted while it was down either went to the client, which
\* will hear of its release, or is kept from it: never neither, never both.
KeysAreAccounted ==
    \A k \in down \ (cut \cup orphan) : (k \in forwarded) # (k \in suppressed_keys)
=============================================================================
