--------------------------- MODULE Pointer_proofs ---------------------------
(***************************************************************************)
(* Proofs about Pointer: for any outputs and buttons, no button and no     *)
(* gesture sticks, what steers an output is pinned to one that is there or *)
(* was replaced, and nothing begins to lead a fullscreen viewport.         *)
(***************************************************************************)
EXTENDS Pointer, TLAPS

\* The pointer p, when the buttons of held are down, the outputs of outs are known and
\* the session lock is lock.
Sound(p, held, outs, lock) ==
    /\ p \in PointerType
    /\ p.client \cup p.pressed \subseteq held
    /\ p.grab.output \in outs \cup {NoOutput}
    /\ p.panning \subseteq outs
    /\ \A o \in p.edge : o \in outs /\ p.grab = Grab("move", o)
    /\ lock # "unlocked" => /\ p.panning \cap outputs = {}
                            /\ p.grab.kind \notin {"pan", "navigate", "navigated"}

\* The buttons a surface or a grab may take for pressed.  A mouse with a middle button of
\* its own has its release kept with the click of the touchpad; then any may be.
Held == IF MouseHasMiddle THEN Buttons ELSE buttons \cup unheard

\* The middle button may be taken for pressed whatever it is.
Excused == MouseHasMiddle \/ Middle \in unheard

USE DEF Held, Excused, Known, monitors, hands

\* A middle press that waits has not been sent, and its button is down until its
\* release waits too.
WaitingIsUnsent ==
    ~Excused /\ pending_middle_click # "none" =>
      /\ Middle \notin ptr.client \cup ptr.pressed
      /\ pending_middle_click = "pressed" => Middle \in buttons

IInv ==
    /\ TypeOK
    /\ Sound(ptr, Held, Known, session_lock)
    /\ WaitingIsUnsent
    /\ GestureHasHand
    /\ ~Unlocked => gesture_state = NoGesture /\ pending_middle_click = "none"

LEMMA IInvImplies ==
    ASSUME IInv
    PROVE  TypeOK /\ (~MouseHasMiddle => ButtonsAreHeld) /\ GestureHasHand /\ SteeringIsPinned
<1>. SUFFICES ASSUME IInv
              PROVE  (~MouseHasMiddle => ButtonsAreHeld) /\ SteeringIsPinned
  BY DEF IInv
<1>1. ~MouseHasMiddle => ButtonsAreHeld
  BY DEF IInv, Sound, ButtonsAreHeld
<1>2. PinnedOutputsExist /\ EdgePanHasGrab
  BY DEF IInv, TypeOK, GesturesTypeOK, Sound, PinnedOutputsExist, EdgePanHasGrab
<1>3. LockedIsQuiet
  BY DEF IInv, Sound, LockedIsQuiet, Unlocked
<1>. QED BY <1>1, <1>2, <1>3 DEF SteeringIsPinned

-----------------------------------------------------------------------------
(* Calls on the pointer *)

LEMMA GrabTypes ==
    /\ NoGrab \in GrabType /\ ClickGrab \in GrabType
    /\ NoGrab.kind = "none" /\ NoGrab.output = NoOutput
    /\ ClickGrab.kind = "client" /\ ClickGrab.output = NoOutput
    /\ \A kind, o : Grab(kind, o).kind = kind /\ Grab(kind, o).output = o
    /\ \A kind \in Pinned, o \in Outputs : Grab(kind, o) \in GrabType
BY DEF GrabType, NoGrab, ClickGrab, Grab

\* The fields of a pointer after a change of some of them.
LEMMA UnsetFields ==
    ASSUME NEW p \in PointerType
    PROVE  /\ Unset(p) \in PointerType
           /\ Unset(p).grab = NoGrab
           /\ Unset(p).edge = IF p.grab.kind = "move" THEN p.edge \ {p.grab.output} ELSE p.edge
           /\ Unset(p).client = p.client /\ Unset(p).pressed = p.pressed
           /\ Unset(p).panning = p.panning /\ Unset(p).resize = p.resize
BY GrabTypes DEF PointerType, Unset

LEMMA UnsetIsSound ==
    ASSUME NEW p, NEW held, NEW outs, NEW lock, Sound(p, held, outs, lock)
    PROVE  Sound(Unset(p), held, outs, lock) /\ Unset(p).edge = {}
<1>1. p \in PointerType
  BY DEF Sound
<1>2. \A o \in p.edge : p.grab.kind = "move" /\ p.grab.output = o
  BY GrabTypes DEF Sound
<1>3. Unset(p).edge = {}
  BY <1>1, <1>2, UnsetFields
<1>. QED BY <1>1, <1>3, UnsetFields, GrabTypes DEF Sound

\* Leaving one surface for another leaves its buttons.
LEMMA EnteringIsSound ==
    ASSUME NEW p, NEW held, NEW outs, NEW lock, Sound(p, held, outs, lock),
           NEW q \in Entering(p)
    PROVE  Sound(q, held, outs, lock) /\ q.grab = p.grab /\ q.edge = p.edge
           /\ q.client = {} /\ q.pressed = p.pressed /\ q.panning = p.panning
BY DEF Entering, Sound, PointerType

LEMMA UnsetGrabIsSound ==
    ASSUME NEW p, NEW held, NEW outs, NEW lock, Sound(p, held, outs, lock),
           NEW q \in UnsetGrab(p)
    PROVE  Sound(q, held, outs, lock) /\ q.grab = NoGrab /\ q.edge = {}
           /\ q.client \subseteq p.client /\ q.pressed = p.pressed
<1>1. CASE p.grab = NoGrab
  BY <1>1, GrabTypes DEF UnsetGrab, Sound
<1>2. CASE p.grab # NoGrab
  <2> DEFINE u == Unset(p)
  <2>1. /\ Sound(u, held, outs, lock) /\ u.edge = {} /\ u.grab = NoGrab
        /\ u.client = p.client /\ u.pressed = p.pressed
    <3>1. p \in PointerType
      BY DEF Sound
    <3>. QED BY <3>1, UnsetIsSound, UnsetFields
  <2>2. q = u \/ q \in Entering(u)
    BY <1>2 DEF UnsetGrab
  <2> HIDE DEF u
  <2>. QED BY <2>1, <2>2, EnteringIsSound
<1>. QED BY <1>1, <1>2

\* A grab of the compositor is set, on an output that is known.
LEMMA SetGrabIsSound ==
    ASSUME NEW p, NEW held, NEW outs, NEW lock, Sound(p, held, outs, lock),
           NEW kind \in Pinned, NEW o \in outs, outs \subseteq Outputs,
           lock # "unlocked" => kind \in {"move", "resize"}
    PROVE  Sound(SetGrab(p, kind, o), held, outs, lock)
           /\ SetGrab(p, kind, o).grab = Grab(kind, o)
           /\ SetGrab(p, kind, o).client = {} /\ SetGrab(p, kind, o).pressed = p.pressed
<1> DEFINE u == Unset(p)
<1>1. Sound(u, held, outs, lock) /\ u.edge = {} /\ u.pressed = p.pressed
  BY UnsetIsSound, UnsetFields DEF Sound
<1>2. SetGrab(p, kind, o) = [u EXCEPT !.grab = Grab(kind, o), !.client = {}, !.focus = "other"]
  BY DEF SetGrab
<1> HIDE DEF u
<1>3. Grab(kind, o) \in GrabType /\ Grab(kind, o).output = o /\ Grab(kind, o).kind = kind
  BY GrabTypes
<1> DEFINE s == SetGrab(p, kind, o)
<1>4. /\ s \in PointerType /\ s.grab = Grab(kind, o) /\ s.client = {} /\ s.edge = {}
      /\ s.pressed = p.pressed /\ s.panning = u.panning
  BY <1>1, <1>2, <1>3 DEF Sound, PointerType
<1> HIDE DEF s
<1>5. Sound(s, held, outs, lock)
  BY <1>1, <1>3, <1>4 DEF Sound
<1>. QED BY <1>4, <1>5 DEF s

LEMMA StartIsSound ==
    ASSUME NEW p, NEW held, NEW lock, Sound(p, held, Known, lock), SessionTypeOK,
           focused_output # NoOutput,
           NEW q, \/ q \in {StartMove(p), StartResize(p)}
                  \/ lock = "unlocked" /\ q \in {StartPan(p), StartNavigate(p)}
    PROVE  /\ Sound(q, held, Known, lock)
           /\ q.client = {} /\ q.pressed = p.pressed
           /\ q.grab.kind = "pan" => q = StartPan(p) /\ q.grab = Grab("pan", focused_output)
<1>. USE DEF SessionTypeOK
<1>1. {"move", "resize", "navigate", "pan"} \subseteq Pinned
  BY DEF Pinned
<1>2. CASE q = StartMove(p)
  BY <1>1, <1>2, SetGrabIsSound, GrabTypes DEF StartMove
<1>3. CASE q = StartResize(p)
  <2>1. Sound(StartResizing(p), held, Known, lock) /\ StartResizing(p).pressed = p.pressed
    BY DEF StartResizing, Sound, PointerType
  <2>. QED BY <1>1, <1>3, <2>1, SetGrabIsSound, GrabTypes DEF StartResize
<1>4. CASE lock = "unlocked" /\ q = StartPan(p)
  <2> DEFINE m == [p EXCEPT !.panning = @ \cup {focused_output}]
  <2>1. /\ m \in PointerType /\ m.pressed = p.pressed /\ m.client = p.client
        /\ m.grab = p.grab /\ m.edge = p.edge /\ m.panning = p.panning \cup {focused_output}
    BY DEF Sound, PointerType
  <2>3. Sound(m, held, Known, lock)
    <3> HIDE DEF m
    <3>. QED BY <1>4, <2>1 DEF Sound
  <2>2. q = SetGrab(m, "pan", focused_output)
    BY <1>4 DEF StartPan
  <2> HIDE DEF m
  <2>4. Sound(q, held, Known, lock) /\ q.grab = Grab("pan", focused_output)
        /\ q.client = {} /\ q.pressed = m.pressed
    <3>1. /\ "pan" \in Pinned /\ focused_output \in Known /\ Known \subseteq Outputs
          /\ lock # "unlocked" => "pan" \in {"move", "resize"}
      BY <1>1, <1>4
    <3> HIDE DEF SessionTypeOK
    <3>2. /\ Sound(SetGrab(m, "pan", focused_output), held, Known, lock)
          /\ SetGrab(m, "pan", focused_output).grab = Grab("pan", focused_output)
          /\ SetGrab(m, "pan", focused_output).client = {}
          /\ SetGrab(m, "pan", focused_output).pressed = m.pressed
      BY <2>3, <3>1, SetGrabIsSound
    <3>. QED BY <2>2, <3>2
  <2>. QED BY <1>4, <2>1, <2>4
<1>5. CASE lock = "unlocked" /\ q = StartNavigate(p)
  <2>1. Sound(q, held, Known, lock) /\ q.grab = Grab("navigate", focused_output)
        /\ q.client = {} /\ q.pressed = p.pressed
    <3>1. /\ "navigate" \in Pinned /\ focused_output \in Known /\ Known \subseteq Outputs
          /\ lock # "unlocked" => "navigate" \in {"move", "resize"}
      BY <1>1, <1>5
    <3>2. q = SetGrab(p, "navigate", focused_output)
      BY <1>5 DEF StartNavigate
    <3> HIDE DEF SessionTypeOK
    <3>. QED BY <3>1, <3>2, SetGrabIsSound
  <2>. QED BY <2>1, GrabTypes
<1>. QED BY <1>2, <1>3, <1>4, <1>5

\* A press goes to the client or to the grab.
LEMMA PressIsSound ==
    ASSUME NEW p, NEW held, NEW outs, NEW lock, Sound(p, held, outs, lock),
           NEW b \in Buttons, b \in held
    PROVE  /\ Sound(PressTo(p, b), held, outs, lock)
           /\ PressTo(p, b).grab \in {p.grab, ClickGrab}
           /\ PressTo(p, b).pressed = p.pressed \cup {b}
           /\ PressTo(p, b).client \subseteq p.client \cup {b}
<1> DEFINE q == [p EXCEPT !.pressed = @ \cup {b}]
<1>0. /\ q \in PointerType /\ q.grab = p.grab /\ q.client = p.client /\ q.edge = p.edge
      /\ q.pressed = p.pressed \cup {b} /\ q.panning = p.panning
  BY DEF Sound, PointerType
<1>1. Sound(q, held, outs, lock) /\ q.grab = p.grab /\ q.client = p.client
      /\ q.pressed = p.pressed \cup {b}
  <2> HIDE DEF q
  <2>. QED BY <1>0 DEF Sound
<1>2. CASE p.grab \in {NoGrab, ClickGrab}
  <2>1. p.edge = {}
    BY <1>2, GrabTypes DEF Sound
  <2>2. q.edge = {}
    BY <2>1 DEF Sound, PointerType
  <2>3. PressTo(p, b) = [q EXCEPT !.client = @ \cup {b}, !.grab = ClickGrab]
    BY <1>2 DEF PressTo
  <2> HIDE DEF q
  <2> DEFINE s == PressTo(p, b)
  <2>4. /\ s \in PointerType /\ s.client = q.client \cup {b} /\ s.pressed = q.pressed
        /\ s.grab = ClickGrab /\ s.edge = {} /\ s.panning = q.panning
    <3>1. ClickGrab \in GrabType /\ q \in PointerType
      BY <1>1, GrabTypes DEF Sound
    <3> HIDE DEF s
    <3>2. s = [q EXCEPT !.client = @ \cup {b}, !.grab = ClickGrab]
      BY <2>3 DEF s
    <3>. QED BY <2>2, <3>1, <3>2 DEF PointerType
  <2> HIDE DEF s
  <2>5. Sound(s, held, outs, lock)
    BY <1>1, <2>4, GrabTypes DEF Sound
  <2>. QED BY <1>1, <2>4, <2>5 DEF s
<1>3. CASE p.grab \notin {NoGrab, ClickGrab}
  BY <1>1, <1>3 DEF PressTo
<1>. QED BY <1>2, <1>3

\* A release; the last one ends the grab.
LEMMA ReleaseIsSound ==
    ASSUME NEW p, NEW held, NEW outs, NEW lock, Sound(p, held, outs, lock),
           NEW b
    PROVE  /\ Sound(ReleaseTo(p, b), held \ {b}, outs, lock)
           /\ ReleaseTo(p, b).grab \in {p.grab, NoGrab}
           /\ ReleaseTo(p, b).pressed = p.pressed \ {b}
           /\ ReleaseTo(p, b).client = p.client \ {b}
<1> DEFINE q == [p EXCEPT !.pressed = @ \ {b}, !.client = @ \ {b}]
<1>1. Sound(q, held \ {b}, outs, lock) /\ q.grab = p.grab
      /\ q.client = p.client \ {b} /\ q.pressed = p.pressed \ {b}
  BY DEF Sound, PointerType
<1>2. ReleaseTo(p, b) = IF q.pressed = {} THEN EndGrab(q) ELSE q
  BY DEF ReleaseTo
<1> HIDE DEF q
<1> DEFINE u == Unset(q)
<1>3. Sound(u, held \ {b}, outs, lock) /\ u.edge = {} /\ u.grab = NoGrab
      /\ u.client = q.client /\ u.pressed = q.pressed
  <2>1. q \in PointerType
    BY <1>1 DEF Sound
  <2>. QED BY <1>1, <2>1, UnsetIsSound, UnsetFields
<1>4. EndGrab(q) \in {u, [u EXCEPT !.resize = "WaitingForLastCommit"],
                      [u EXCEPT !.panning = @ \ {focused_output}]}
  BY DEF EndGrab
<1> HIDE DEF u
<1>5. /\ Sound(EndGrab(q), held \ {b}, outs, lock) /\ EndGrab(q).grab = NoGrab
      /\ EndGrab(q).client = q.client /\ EndGrab(q).pressed = q.pressed
  BY <1>3, <1>4 DEF Sound, PointerType
<1>. QED BY <1>1, <1>2, <1>5

\* The click that waits is sent: its button is down afterwards only if it still is.
LEMMA FlushIsSound ==
    ASSUME IInv, pending_middle_click # "none", NEW p, Sound(p, Held, Known, session_lock)
    PROVE  /\ Sound(Flushed(p), Held, Known, session_lock)
           /\ Flushed(p).grab \in {p.grab, ClickGrab, NoGrab}
           /\ ~Excused /\ Middle \notin buttons =>
                 Middle \notin Flushed(p).client \cup Flushed(p).pressed
<1> DEFINE held == Held \cup {Middle}
           sent == PressTo(p, Middle)
<1>0. Middle \in Buttons /\ pending_middle_click \in {"pressed", "clicked"}
  BY GesturesAssumption DEF IInv, TypeOK, GesturesTypeOK
<1>1. Sound(p, held, Known, session_lock)
  BY DEF Sound
<1>2. Sound(sent, held, Known, session_lock) /\ sent.grab \in {p.grab, ClickGrab}
      /\ sent.pressed = p.pressed \cup {Middle}
      /\ sent.client \subseteq p.client \cup {Middle}
  BY <1>0, <1>1, PressIsSound
<1>3. CASE pending_middle_click = "clicked"
  <2>1. Flushed(p) = ReleaseTo(sent, Middle)
    BY <1>3 DEF Flushed
  <2> HIDE DEF sent
  <2>2. /\ Sound(ReleaseTo(sent, Middle), held \ {Middle}, Known, session_lock)
        /\ ReleaseTo(sent, Middle).grab \in {sent.grab, NoGrab}
        /\ ReleaseTo(sent, Middle).pressed = sent.pressed \ {Middle}
        /\ ReleaseTo(sent, Middle).client = sent.client \ {Middle}
    BY <1>0, <1>2, ReleaseIsSound
  <2>. QED BY <1>2, <2>1, <2>2 DEF Sound
<1>4. CASE pending_middle_click = "pressed"
  <2>1. Flushed(p) = sent
    BY <1>4 DEF Flushed
  <2>2. CASE Excused
    <3>1. held = Held
      BY <1>0, <2>2
    <3> HIDE DEF held, sent, Held, Excused
    <3>. QED BY <1>2, <2>1, <2>2, <3>1
  <2>3. CASE ~Excused
    <3>1. Middle \in buttons /\ held = Held
      BY <1>4, <2>3 DEF IInv, WaitingIsUnsent
    <3> HIDE DEF held, sent, Held, Excused
    <3>. QED BY <1>2, <2>1, <2>3, <3>1
  <2>. QED BY <2>2, <2>3
<1>. QED BY <1>0, <1>3, <1>4

\* Motion: only a move changes anything, and re-pins itself.
LEMMA MotionIsSound ==
    ASSUME NEW p, NEW held, NEW outs, NEW lock, Sound(p, held, outs, lock),
           outs \subseteq Outputs, NEW o \in outs \cup {NoOutput}, NEW q \in GrabMotion(p, o)
    PROVE  /\ Sound(q, held, outs, lock)
           /\ q.client \subseteq p.client /\ q.pressed = p.pressed /\ q.panning = p.panning
           /\ q.grab = p.grab \/ q.grab.kind = "move"
<1>1. CASE p.grab.kind = "move"
  <2>1. q \in MoveMotion(p, o)
    BY <1>1, GrabTypes DEF GrabMotion
  <2>0. p.grab = Grab("move", p.grab.output) /\ p.grab.output \in outs
    <3>1. p.grab \in GrabType
      BY DEF Sound, PointerType
    <3>2. p.grab = Grab("move", p.grab.output) /\ p.grab.output \in Outputs
      BY <1>1, <3>1 DEF GrabType, NoGrab, ClickGrab, Grab
    <3>. QED BY <3>2, OutputsAssumption DEF Sound
  <2>2. CASE o \notin {p.grab.output, NoOutput}
    <3>1. q = [p EXCEPT !.edge = @ \ {p.grab.output}, !.grab = Grab("move", o)]
      BY <2>1, <2>2 DEF MoveMotion
    <3>2. p.edge \ {p.grab.output} = {}
      BY GrabTypes DEF Sound
    <3>3. Grab("move", o) \in GrabType /\ Grab("move", o).output = o /\ Grab("move", o).kind = "move"
      BY <2>2, GrabTypes DEF Pinned
    <3>4. /\ q \in PointerType /\ q.client = p.client /\ q.pressed = p.pressed /\ q.edge = {}
          /\ q.grab = Grab("move", o) /\ q.panning = p.panning
      BY <3>1, <3>2, <3>3 DEF Sound, PointerType
    <3>. QED BY <2>2, <3>3, <3>4 DEF Sound
  <2>3. CASE o \in {p.grab.output, NoOutput}
    <3> DEFINE g == p.grab.output
    <3>1. q \in {[p EXCEPT !.edge = @ \cup {g}], [p EXCEPT !.edge = @ \ {g}]}
      BY <2>1, <2>3 DEF MoveMotion
    <3>2. p.grab = Grab("move", g) /\ g \in outs
      BY <2>0
    <3> HIDE DEF g
    <3>3. /\ q \in PointerType /\ q.client = p.client /\ q.pressed = p.pressed
          /\ q.edge \subseteq p.edge \cup {g} /\ q.grab = p.grab /\ q.panning = p.panning
      BY <3>1, <3>2 DEF Sound, PointerType
    <3>. QED BY <3>2, <3>3 DEF Sound
  <2>. QED BY <2>2, <2>3
<1>2. CASE p.grab = NoGrab
  <2>1. q = p \/ q \in Entering(p)
    BY <1>2, GrabTypes DEF GrabMotion
  <2>. QED BY <2>1, EnteringIsSound
<1>3. CASE p.grab.kind # "move" /\ p.grab # NoGrab
  BY <1>3 DEF GrabMotion
<1>. QED BY <1>1, <1>2, <1>3

\* A resize keeps the focus on its output; a focus that is there does not get lost.
LEMMA FocusStays ==
    ASSUME NEW p, NEW held, NEW outs, NEW lock, Sound(p, held, outs, lock),
           NEW o \in outs \cup {NoOutput}
    PROVE  /\ FocusAfter(p, o) \in outs \cup {NoOutput}
           /\ o # NoOutput => FocusAfter(p, o) # NoOutput
<1>1. CASE p.grab.kind = "resize"
  <2>1. p.grab \in GrabType
    BY DEF Sound, PointerType
  <2>2. p.grab.output # NoOutput
    BY <1>1, <2>1, OutputsAssumption DEF GrabType, NoGrab, ClickGrab, Grab
  <2>. QED BY <1>1, <2>2 DEF FocusAfter, Sound
<1>. QED BY <1>1 DEF FocusAfter

-----------------------------------------------------------------------------
(* The session *)

\* Whatever an action does, the focus stays where it was or on an output there is.
LEMMA ActionsKeepSession ==
    ASSUME SessionTypeOK, \/ \E effect \in Effects : execute_action(effect)
                          \/ act_after_leaving
    PROVE  SessionTypeOK' /\ UNCHANGED <<session_lock, monitors>>
BY OutputsAssumption DEF SessionTypeOK, execute_action, act_after_leaving

LEMMA LeavingKeepsSession ==
    ASSUME SessionTypeOK, (\E o \in Outputs : exit_fullscreen_on(o)) \/ exit_fullscreen_on(focused_output)
                            \/ exit_fullscreen_for_gesture \/ LeaveFullscreen
    PROVE  SessionTypeOK' /\ UNCHANGED <<session_lock, monitors, focused_output>>
           /\ fullscreen' \subseteq fullscreen
           /\ (LeaveFullscreen => focused_output \notin fullscreen')
           /\ (exit_fullscreen_on(focused_output) => focused_output \notin fullscreen')
<1>1. ASSUME NEW o, exit_fullscreen_on(o)
      PROVE  SessionTypeOK' /\ UNCHANGED <<session_lock, monitors, focused_output>>
             /\ fullscreen' = fullscreen \ {o}
  BY <1>1 DEF SessionTypeOK, exit_fullscreen_on
<1>2. ASSUME exit_fullscreen_for_gesture
      PROVE  SessionTypeOK' /\ UNCHANGED <<session_lock, monitors, focused_output>>
             /\ fullscreen' = fullscreen \ {focused_output}
  BY <1>2 DEF SessionTypeOK, exit_fullscreen_for_gesture
<1>3. ASSUME LeaveFullscreen
      PROVE  SessionTypeOK' /\ UNCHANGED <<session_lock, monitors, focused_output>>
             /\ fullscreen' = fullscreen \ {focused_output}
  BY <1>2, <1>3 DEF SessionTypeOK, LeaveFullscreen, session, is_fullscreen
<1>. QED BY <1>1, <1>2, <1>3

\* What a step may not do to the viewport of a fullscreen window.
StaysLocked == \A o \in fullscreen \cap fullscreen' : o \in Led' => o \in Led

\* Enough for the invariant to hold after a step that leaves the gesture alone, and for
\* the viewport to stay locked.
LEMMA PointerStep ==
    ASSUME IInv, SessionTypeOK', UNCHANGED <<session_lock, monitors>>,
           Sound(ptr', Held', Known, session_lock), (buttons \cup unheard)' \subseteq Buttons,
           UNCHANGED <<hand, gesture_state, gesture_output, pending_middle_click>>,
           ~Excused' /\ pending_middle_click # "none" =>
              /\ Middle \notin ptr'.client \cup ptr'.pressed
              /\ pending_middle_click = "pressed" => Middle \in buttons',
           ptr'.grab.kind = "pan" =>
              \/ ptr'.grab = ptr.grab
              \/ ptr'.grab = Grab("pan", focused_output) /\ focused_output \notin fullscreen'
    PROVE  IInv' /\ StaysLocked
<1>1. TypeOK'
  BY DEF IInv, TypeOK, GesturesTypeOK, Sound
<1>2. Sound(ptr, Held, Known, session_lock)'
  BY DEF Sound
<1>3. IInv'
  BY <1>1, <1>2 DEF IInv, WaitingIsUnsent, GestureHasHand, Unlocked
<1>4. StaysLocked
  <2> SUFFICES ASSUME NEW o \in fullscreen \cap fullscreen', ptr'.grab = Grab("pan", o)
               PROVE  ptr.grab = Grab("pan", o)
    BY DEF StaysLocked, Led
  <2>. QED BY GrabTypes
<1>. QED BY <1>3, <1>4

\* What moves the pointer without the mouse leaves it as sound as motion does.
LEMMA RemappedIsSound ==
    ASSUME NEW held, NEW lock, Sound(ptr, held, Known, lock), SessionTypeOK,
           NEW p \in Remapped(ptr)
    PROVE  /\ Sound(p, held, Known, lock)
           /\ p.client \subseteq ptr.client /\ p.pressed = ptr.pressed
           /\ p.grab.kind = "pan" => p.grab = ptr.grab
<1>1. focused_output \in Known \cup {NoOutput} /\ Known \subseteq Outputs
  BY DEF SessionTypeOK
<1>2. CASE p \in GrabMotion(ptr, focused_output)
  <2>1. /\ Sound(p, held, Known, lock)
        /\ p.client \subseteq ptr.client /\ p.pressed = ptr.pressed
        /\ p.grab = ptr.grab \/ p.grab.kind = "move"
    BY <1>1, <1>2, MotionIsSound
  <2>. QED BY <2>1
<1>3. CASE p = ptr
  BY <1>3
<1>. QED BY <1>2, <1>3 DEF Remapped

LEMMA CarriedIsSound ==
    ASSUME IInv, SessionTypeOK', UNCHANGED <<session_lock, monitors>>, Carried \/ UNCHANGED ptr
    PROVE  /\ Sound(ptr', Held, Known, session_lock)
           /\ ptr'.client \subseteq ptr.client /\ ptr'.pressed = ptr.pressed
           /\ ptr'.grab.kind = "pan" => ptr'.grab = ptr.grab
<1>1. /\ focused_output' \in Known \cup {NoOutput} /\ Known \subseteq Outputs
      /\ Sound(ptr, Held, Known, session_lock)
  BY DEF SessionTypeOK, IInv
<1>2. CASE ptr' \in GrabMotion(ptr, focused_output')
  <2>1. /\ Sound(ptr', Held, Known, session_lock)
        /\ ptr'.client \subseteq ptr.client /\ ptr'.pressed = ptr.pressed
        /\ ptr'.grab = ptr.grab \/ ptr'.grab.kind = "move"
    BY <1>1, <1>2, MotionIsSound
  <2>. QED BY <2>1
<1>3. CASE ptr' = ptr
  BY <1>1, <1>3
<1>. QED BY <1>2, <1>3 DEF Carried

LEMMA ActIsSound ==
    ASSUME IInv, Act
    PROVE  /\ SessionTypeOK' /\ UNCHANGED <<session_lock, monitors>>
           /\ Sound(ptr', Held, Known, session_lock)
           /\ ptr'.client \subseteq ptr.client /\ ptr'.pressed = ptr.pressed
           /\ ptr'.grab.kind = "pan" => ptr'.grab = ptr.grab
<1>1. SessionTypeOK' /\ UNCHANGED <<session_lock, monitors>>
  BY ActionsKeepSession DEF Act, IInv, TypeOK
<1>2. Carried \/ UNCHANGED ptr
  BY DEF Act
<1>. QED BY <1>1, <1>2, CarriedIsSound

-----------------------------------------------------------------------------
(* Buttons and motion *)

LEMMA DispatchIsSound ==
    ASSUME SessionTypeOK, focused_output # NoOutput, Unlocked, NEW b \in Buttons, NEW p,
           Sound(p, Held \cup {b}, Known, session_lock), Dispatch(p, b),
           ~Excused /\ pending_middle_click # "none" => Middle \notin p.client \cup p.pressed
    PROVE  /\ Sound(ptr', Held \cup {b}, Known, session_lock)
           /\ ~Excused /\ pending_middle_click # "none" => Middle \notin ptr'.client \cup ptr'.pressed
           /\ ptr'.grab.kind = "pan" => ptr'.grab \in {p.grab, Grab("pan", focused_output)}
<1>1. session_lock = "unlocked"
  BY DEF Unlocked
<1>2. CASE (b # Middle \/ MouseHasMiddle) /\ ptr' = PressTo(p, b)
  <2>1. /\ Sound(ptr', Held \cup {b}, Known, session_lock)
        /\ ptr'.grab \in {p.grab, ClickGrab} /\ ptr'.pressed = p.pressed \cup {b}
        /\ ptr'.client \subseteq p.client \cup {b}
    BY <1>1, <1>2, PressIsSound
  <2>2. ptr'.grab.kind = "pan" => ptr'.grab = p.grab
    BY <2>1, GrabTypes
  <2>. QED BY <1>1, <1>2, <2>1, <2>2
<1>3. CASE ptr' = p
  BY <1>1, <1>3
<1>4. CASE ptr' \in {StartMove(p), StartResize(p), StartPan(p), StartNavigate(p)}
  <2>1. /\ Sound(ptr', Held \cup {b}, Known, session_lock)
        /\ ptr'.client = {} /\ ptr'.pressed = p.pressed
        /\ ptr'.grab.kind = "pan" => ptr'.grab = Grab("pan", focused_output)
    BY <1>1, <1>4, StartIsSound
  <2>. QED BY <1>1, <2>1
<1>. QED BY <1>2, <1>3, <1>4 DEF Dispatch, SentOn

LEMMA PressKeeps ==
    ASSUME IInv, NEW b \in Buttons, PressButton(b)
    PROVE  IInv' /\ StaysLocked
<1>1. /\ b \notin buttons /\ buttons' = buttons \cup {b} /\ (buttons \cup unheard)' \subseteq Buttons
      /\ UNCHANGED <<hand, gesture_state, gesture_output, plugs, unheard>>
      /\ Sound(ptr, Held, Known, session_lock)
      /\ SessionTypeOK /\ WaitingIsUnsent
  BY DEF PressButton, Elsewhere, IInv, TypeOK
<1>2. Held' = Held \cup {b} /\ Sound(ptr, Held', Known, session_lock)
  BY <1>1 DEF Sound
<1>8. CASE Deaf /\ UNCHANGED <<session, ptr, pending_middle_click>>
  <2>1. UNCHANGED <<session_lock, monitors, focused_output, fullscreen, exited>> /\ SessionTypeOK'
    BY <1>8, <1>1 DEF session, SessionTypeOK
  <2>. QED BY <1>8, <1>1, <1>2, <2>1, PointerStep DEF WaitingIsUnsent
<1>3. CASE BufferMiddle(b) /\ Unlocked
  <2>1. /\ b = Middle /\ UNCHANGED session /\ pending_middle_click' = "pressed"
        /\ ptr' = IF pending_middle_click = "none" THEN ptr ELSE Flushed(ptr)
    BY <1>3 DEF BufferMiddle
  <2>2. /\ Sound(ptr', Held, Known, session_lock)
        /\ ~Excused => Middle \notin ptr'.client \cup ptr'.pressed
        /\ ptr'.grab \in {ptr.grab, ClickGrab, NoGrab}
    <3>1. ~Excused => Middle \notin buttons
      BY <1>1, <2>1
    <3>2. CASE pending_middle_click = "none"
      BY <1>1, <2>1, <3>1, <3>2 DEF Sound
    <3>3. CASE pending_middle_click # "none"
      BY <1>1, <2>1, <3>1, <3>3, FlushIsSound
    <3>. QED BY <3>2, <3>3
  <2>3. /\ UNCHANGED <<session_lock, monitors, focused_output, fullscreen, exited>>
        /\ session_lock = "unlocked"
    BY <1>3, <2>1 DEF session, Unlocked
  <2>4. Sound(ptr, Held, Known, session_lock)'
    BY <1>1, <2>2, <2>3 DEF Sound
  <2>5. TypeOK'
    BY <1>1, <2>1, <2>3, <2>4 DEF IInv, TypeOK, SessionTypeOK, GesturesTypeOK, Sound
  <2>6. IInv'
    BY <1>1, <2>1, <2>2, <2>3, <2>4, <2>5 DEF IInv, WaitingIsUnsent, GestureHasHand, Unlocked
  <2>7. StaysLocked
    <3> SUFFICES ASSUME NEW o \in fullscreen \cap fullscreen', ptr'.grab = Grab("pan", o)
                 PROVE  ptr.grab = Grab("pan", o)
      BY <1>1, <2>3 DEF StaysLocked, Led
    <3>. QED BY <2>2, GrabTypes
  <2>. QED BY <2>6, <2>7
<1>9. Unlocked /\ ~Deaf => focused_output # NoOutput
  BY <1>1 DEF Deaf, SessionTypeOK
<1>4. CASE ~Unlocked /\ ptr' = PressTo(ptr, b) /\ UNCHANGED session /\ UNCHANGED pending_middle_click
  <2>1. UNCHANGED <<session_lock, monitors, focused_output, fullscreen, exited>> /\ SessionTypeOK'
    BY <1>1, <1>4 DEF session, SessionTypeOK
  <2>2. pending_middle_click = "none"
    BY <1>4 DEF IInv
  <2>3. Sound(ptr', Held', Known, session_lock) /\ ptr'.grab \in {ptr.grab, ClickGrab}
    BY <1>1, <1>2, <1>4, PressIsSound
  <2>4. ptr'.grab.kind = "pan" => ptr'.grab = ptr.grab
    BY <2>3, GrabTypes
  <2>. QED BY <1>1, <1>4, <2>1, <2>2, <2>3, <2>4, PointerStep
<1>5. CASE ~Deaf /\ Unlocked /\ is_fullscreen /\ PressFullscreen(b) /\ UNCHANGED pending_middle_click
  <2>1. CASE SentOn(b) /\ ptr' = PressTo(ptr, b) /\ UNCHANGED session
    <3>1. UNCHANGED <<session_lock, monitors, focused_output, fullscreen, exited>> /\ SessionTypeOK'
      BY <1>1, <2>1 DEF session, SessionTypeOK
    <3>2. /\ Sound(ptr', Held', Known, session_lock) /\ ptr'.grab \in {ptr.grab, ClickGrab}
          /\ ptr'.pressed = ptr.pressed \cup {b} /\ ptr'.client \subseteq ptr.client \cup {b}
      BY <1>1, <1>2, <2>1, PressIsSound
    <3>3. ptr'.grab.kind = "pan" => ptr'.grab = ptr.grab
      BY <3>2, GrabTypes
    <3>4. b # Middle \/ MouseHasMiddle
      BY <2>1 DEF SentOn
    <3>. QED BY <1>1, <1>5, <3>1, <3>2, <3>3, <3>4, PointerStep DEF WaitingIsUnsent
  <2>2. ASSUME exit_fullscreen_on(focused_output), NEW p \in Remapped(ptr), Dispatch(p, b)
        PROVE  IInv' /\ StaysLocked
    <3>1. SessionTypeOK' /\ UNCHANGED <<session_lock, monitors>> /\ focused_output \notin fullscreen'
      BY <1>1, <2>2, LeavingKeepsSession
    <3>2. /\ Sound(p, Held \cup {b}, Known, session_lock)
          /\ p.client \subseteq ptr.client /\ p.pressed = ptr.pressed
          /\ p.grab.kind = "pan" => p.grab = ptr.grab
      <4>1. Sound(ptr, Held \cup {b}, Known, session_lock)
        BY <1>2
      <4>. QED BY <1>1, <2>2, <4>1, RemappedIsSound
    <3>3. ~Excused /\ pending_middle_click # "none" => Middle \notin p.client \cup p.pressed
      BY <1>1, <3>2 DEF WaitingIsUnsent
    <3>4. /\ Sound(ptr', Held \cup {b}, Known, session_lock)
          /\ ~Excused /\ pending_middle_click # "none" => Middle \notin ptr'.client \cup ptr'.pressed
          /\ ptr'.grab.kind = "pan" => ptr'.grab \in {p.grab, Grab("pan", focused_output)}
      <4> HIDE DEF Held, Excused
      <4>. QED BY <1>1, <1>5, <1>9, <2>2, <3>2, <3>3, DispatchIsSound
    <3>5. ptr'.grab.kind = "pan" => ptr'.grab \in {ptr.grab, Grab("pan", focused_output)}
      BY <3>2, <3>4
    <3>. QED BY <1>1, <1>2, <1>5, <3>1, <3>4, <3>5, PointerStep DEF WaitingIsUnsent
  <2>3. CASE act_after_leaving /\ Carried
    <3>1. SessionTypeOK' /\ UNCHANGED <<session_lock, monitors>>
      BY <1>1, <2>3, ActionsKeepSession
    <3>2. /\ Sound(ptr', Held, Known, session_lock)
          /\ ptr'.client \subseteq ptr.client /\ ptr'.pressed = ptr.pressed
          /\ ptr'.grab.kind = "pan" => ptr'.grab = ptr.grab
      BY <2>3, <3>1, CarriedIsSound
    <3>3. Sound(ptr', Held', Known, session_lock)
      BY <1>2, <3>2 DEF Sound
    <3>. QED BY <1>1, <1>5, <3>1, <3>2, <3>3, PointerStep DEF WaitingIsUnsent
  <2>. QED BY <1>5, <2>1, <2>2, <2>3 DEF PressFullscreen
<1>6. CASE Act /\ UNCHANGED pending_middle_click
  <2>1. /\ SessionTypeOK' /\ UNCHANGED <<session_lock, monitors>>
        /\ Sound(ptr', Held, Known, session_lock)
        /\ ptr'.client \subseteq ptr.client /\ ptr'.pressed = ptr.pressed
        /\ ptr'.grab.kind = "pan" => ptr'.grab = ptr.grab
    BY <1>6, ActIsSound
  <2>2. Sound(ptr', Held', Known, session_lock)
    BY <1>2, <2>1 DEF Sound
  <2>. QED BY <1>1, <1>6, <2>1, <2>2, PointerStep DEF WaitingIsUnsent
<1>7. CASE ~Deaf /\ Unlocked /\ ~is_fullscreen /\ Dispatch(ptr, b) /\ UNCHANGED session
           /\ UNCHANGED pending_middle_click
  <2>1. UNCHANGED <<session_lock, monitors, focused_output, fullscreen, exited>> /\ SessionTypeOK'
    BY <1>1, <1>7 DEF session, SessionTypeOK
  <2>2. focused_output \notin fullscreen'
    BY <1>7, <2>1 DEF is_fullscreen
  <2>3. ~Excused /\ pending_middle_click # "none" => Middle \notin ptr.client \cup ptr.pressed
    BY <1>1 DEF WaitingIsUnsent
  <2>4. /\ Sound(ptr', Held \cup {b}, Known, session_lock)
        /\ ~Excused /\ pending_middle_click # "none" => Middle \notin ptr'.client \cup ptr'.pressed
        /\ ptr'.grab.kind = "pan" => ptr'.grab \in {ptr.grab, Grab("pan", focused_output)}
    <3>1. Sound(ptr, Held \cup {b}, Known, session_lock)
      BY <1>2
    <3> HIDE DEF Held, Excused
    <3>. QED BY <1>1, <1>7, <1>9, <2>3, <3>1, DispatchIsSound
  <2>. QED BY <1>1, <1>2, <1>7, <2>1, <2>2, <2>4, PointerStep DEF WaitingIsUnsent
<1>. QED BY <1>8, <1>3, <1>4, <1>5, <1>6, <1>7 DEF PressButton, PressSeen

\* The button of a middle press that waits comes up before the click is sent.
LEMMA ReleaseKeeps ==
    ASSUME IInv, NEW b \in Buttons, ReleaseButton(b)
    PROVE  IInv' /\ StaysLocked
<1>1. /\ buttons' = buttons \ {b} /\ buttons' \subseteq Buttons /\ unheard \subseteq Buttons
      /\ UNCHANGED <<hand, gesture_state, gesture_output, plugs>>
      /\ UNCHANGED <<session_lock, monitors, focused_output, fullscreen, exited>>
      /\ Sound(ptr, Held, Known, session_lock)
      /\ SessionTypeOK /\ SessionTypeOK' /\ WaitingIsUnsent
  BY DEF ReleaseButton, Elsewhere, IInv, TypeOK, session, SessionTypeOK
<1>4. CASE unheard' = unheard \cup {b} /\ UNCHANGED <<ptr, pending_middle_click>>
  <2>1. Sound(ptr', Held', Known, session_lock)
    BY <1>4, <1>1 DEF Sound
  <2>2. ~Excused' /\ pending_middle_click # "none" =>
           /\ Middle \notin ptr'.client \cup ptr'.pressed
           /\ pending_middle_click = "pressed" => Middle \in buttons'
    BY <1>4, <1>1 DEF WaitingIsUnsent
  <2>. QED BY <1>4, <1>1, <2>1, <2>2, PointerStep
<1>2. CASE Unlocked /\ b = Middle /\ pending_middle_click # "none"
           /\ pending_middle_click' = "clicked" /\ UNCHANGED <<ptr, unheard>>
  <2>1. ~Excused => Middle \notin ptr.client \cup ptr.pressed
    BY <1>1, <1>2 DEF WaitingIsUnsent
  <2>2. Sound(ptr, Held, Known, session_lock)'
    BY <1>1, <1>2, <2>1 DEF Sound
  <2>3. TypeOK'
    BY <1>1, <1>2 DEF IInv, TypeOK, GesturesTypeOK
  <2>4. WaitingIsUnsent'
    BY <1>2, <2>1 DEF WaitingIsUnsent
  <2>5. IInv'
    BY <1>1, <1>2, <2>2, <2>3, <2>4 DEF IInv, GestureHasHand, Unlocked
  <2>6. StaysLocked
    BY <1>1, <1>2 DEF StaysLocked, Led
  <2>. QED BY <2>5, <2>6
<1>3. CASE /\ ~(Unlocked /\ b = Middle /\ pending_middle_click # "none")
           /\ ptr' = ReleaseTo(ptr, b) /\ unheard' = unheard \ {b} /\ UNCHANGED pending_middle_click
  <2>1. /\ Sound(ptr', Held', Known, session_lock) /\ ptr'.grab \in {ptr.grab, NoGrab}
        /\ ptr'.pressed = ptr.pressed \ {b} /\ ptr'.client = ptr.client \ {b}
    <3>1. /\ Sound(ptr', Held \ {b}, Known, session_lock) /\ ptr'.grab \in {ptr.grab, NoGrab}
          /\ ptr'.pressed = ptr.pressed \ {b} /\ ptr'.client = ptr.client \ {b}
      BY <1>1, <1>3, ReleaseIsSound
    <3>2. Held \ {b} \subseteq Held'
      BY <1>1, <1>3
    <3>. QED BY <3>1, <3>2 DEF Sound
  <2>2. ptr'.grab.kind = "pan" => ptr'.grab = ptr.grab
    BY <2>1, GrabTypes
  <2>3. pending_middle_click # "none" => b # Middle
    BY <1>3 DEF IInv
  <2>4. ~Excused' /\ pending_middle_click # "none" =>
           /\ Middle \notin ptr'.client \cup ptr'.pressed
           /\ pending_middle_click = "pressed" => Middle \in buttons'
    BY <1>1, <1>3, <2>1, <2>3 DEF WaitingIsUnsent
  <2>. QED BY <1>1, <1>3, <2>1, <2>2, <2>4, PointerStep
<1>. QED BY <1>4, <1>2, <1>3 DEF ReleaseButton, ReleaseSeen

LEMMA MotionKeeps ==
    ASSUME IInv, NEW o \in Outputs, Motion(o)
    PROVE  IInv' /\ StaysLocked
<1>1. /\ o \in Known
      /\ UNCHANGED <<hand, gesture_state, gesture_output, plugs>>
      /\ UNCHANGED <<session_lock, monitors, hands, fullscreen, exited, pending_middle_click>>
      /\ Sound(ptr, Held, Known, session_lock)
      /\ SessionTypeOK /\ Known \subseteq Outputs /\ focused_output \in Known \cup {NoOutput}
      /\ WaitingIsUnsent /\ buttons \cup unheard \subseteq Buttons
  BY OutputsAssumption DEF Motion, LockedMotion, UnlockedMotion, Elsewhere, IInv, TypeOK, SessionTypeOK
<1>2. /\ focused_output' \in Known \cup {NoOutput}
      /\ outputs # {} => focused_output' # NoOutput
      /\ \/ ptr' \in GrabMotion(ptr, focused_output')
         \/ ptr' \in Entering(ptr)
  <2>1. CASE LockedMotion
    BY <1>1, <2>1 DEF LockedMotion, SessionTypeOK
  <2>2. CASE UnlockedMotion(o)
    <3>1. o # NoOutput /\ focused_output' = FocusAfter(ptr, o)
      BY <1>1, <2>2, OutputsAssumption DEF UnlockedMotion
    <3>2. FocusAfter(ptr, o) \in Known \cup {NoOutput} /\ FocusAfter(ptr, o) # NoOutput
      BY <1>1, <3>1, FocusStays
    <3>. QED BY <2>2, <3>1, <3>2 DEF UnlockedMotion
  <2>. QED BY <2>1, <2>2 DEF Motion
<1>3. /\ Sound(ptr', Held, Known, session_lock)
      /\ ptr'.client \subseteq ptr.client /\ ptr'.pressed = ptr.pressed
      /\ ptr'.grab = ptr.grab \/ ptr'.grab.kind = "move"
  <2>1. CASE ptr' \in GrabMotion(ptr, focused_output')
    BY <1>1, <1>2, <2>1, MotionIsSound
  <2>2. CASE ptr' \in Entering(ptr)
    BY <1>1, <2>2, EnteringIsSound
  <2>. QED BY <1>2, <2>1, <2>2
<1>4. SessionTypeOK'
  BY <1>1, <1>2 DEF SessionTypeOK
<1>5. ptr'.grab.kind = "pan" => ptr'.grab = ptr.grab
  BY <1>3
<1>. QED BY <1>1, <1>3, <1>4, <1>5, PointerStep DEF WaitingIsUnsent

LEMMA NavigateKeeps ==
    ASSUME IInv, Navigate
    PROVE  IInv' /\ StaysLocked
<1>1. /\ SessionTypeOK /\ Sound(ptr, Held, Known, session_lock) /\ WaitingIsUnsent
      /\ ptr.grab.kind = "navigate" /\ ptr' = [ptr EXCEPT !.grab.kind = "navigated"]
      /\ UNCHANGED <<hand, gesture_state, gesture_output, hands, pending_middle_click>>
      /\ buttons \cup unheard \subseteq Buttons
  BY DEF Navigate, Elsewhere, IInv, TypeOK
<1>2. SessionTypeOK' /\ UNCHANGED <<session_lock, monitors>>
  <2>1. \E effect \in Effects : execute_action(effect)
    BY DEF Navigate, Effects
  <2>. QED BY <1>1, <2>1, ActionsKeepSession
<1>3. ptr.grab \in [kind : Pinned, output : Outputs]
  BY <1>1, GrabTypes DEF Sound, PointerType, GrabType
<1>4. /\ ptr' \in PointerType /\ ptr'.client = ptr.client /\ ptr'.pressed = ptr.pressed
      /\ ptr'.panning = ptr.panning /\ ptr'.edge = ptr.edge
      /\ ptr'.grab.kind = "navigated" /\ ptr'.grab.output = ptr.grab.output
  BY <1>1, <1>3 DEF Sound, PointerType, GrabType, Pinned
<1>5. ptr.edge = {}
  BY <1>1, GrabTypes DEF Sound
<1>6. Sound(ptr', Held, Known, session_lock)
  BY <1>1, <1>4, <1>5 DEF Sound
<1>. QED BY <1>1, <1>2, <1>4, <1>6, PointerStep DEF WaitingIsUnsent

LEMMA ScrollKeeps ==
    ASSUME IInv, Scroll
    PROVE  IInv' /\ StaysLocked
<1>1. /\ SessionTypeOK /\ Sound(ptr, Held, Known, session_lock) /\ WaitingIsUnsent
      /\ UNCHANGED <<hand, gesture_state, gesture_output, hands, pending_middle_click>>
      /\ ptr' \in Remapped(ptr) /\ buttons \cup unheard \subseteq Buttons
  BY DEF Scroll, Elsewhere, IInv, TypeOK
<1>2. SessionTypeOK' /\ UNCHANGED <<session_lock, monitors>>
  BY <1>1, LeavingKeepsSession DEF Scroll
<1>3. /\ Sound(ptr', Held, Known, session_lock)
      /\ ptr'.client \subseteq ptr.client /\ ptr'.pressed = ptr.pressed
      /\ ptr'.grab.kind = "pan" => ptr'.grab = ptr.grab
  BY <1>1, RemappedIsSound
<1>. QED BY <1>1, <1>2, <1>3, PointerStep DEF WaitingIsUnsent

-----------------------------------------------------------------------------
(* Clients *)

LEMMA RequestKeeps ==
    ASSUME IInv, Request
    PROVE  IInv' /\ StaysLocked
<1>1. /\ SessionTypeOK /\ Sound(ptr, Held, Known, session_lock) /\ WaitingIsUnsent
      /\ UNCHANGED <<hand, gesture_state, gesture_output, hands, pending_middle_click>>
      /\ UNCHANGED <<session_lock, monitors, focused_output, fullscreen, exited>>
      /\ ptr' \in {StartMove(ptr), StartResize(ptr)} /\ focused_output # NoOutput
      /\ buttons \cup unheard \subseteq Buttons
  BY DEF Request, Elsewhere, IInv, TypeOK, session
<1>2. SessionTypeOK'
  BY <1>1 DEF SessionTypeOK
<1>3. Sound(ptr', Held, Known, session_lock) /\ ptr'.client = {} /\ ptr'.pressed = ptr.pressed
  BY <1>1, StartIsSound
<1>4. ptr'.grab.kind \in {"move", "resize"}
  <2>1. focused_output \in Known /\ Known \subseteq Outputs /\ {"move", "resize"} \subseteq Pinned
    BY <1>1 DEF SessionTypeOK, Pinned
  <2>2. Sound(StartResizing(ptr), Held, Known, session_lock)
    BY <1>1 DEF Sound, StartResizing, PointerType
  <2>3. CASE ptr' = StartMove(ptr)
    BY <1>1, <2>1, <2>3, SetGrabIsSound, GrabTypes DEF StartMove
  <2>4. CASE ptr' = StartResize(ptr)
    BY <2>1, <2>2, <2>4, SetGrabIsSound, GrabTypes DEF StartResize
  <2>. QED BY <1>1, <2>3, <2>4
<1>. QED BY <1>1, <1>2, <1>3, <1>4, PointerStep DEF WaitingIsUnsent

LEMMA CommitKeeps ==
    ASSUME IInv, Commit
    PROVE  IInv' /\ StaysLocked
<1>1. /\ SessionTypeOK /\ Sound(ptr, Held, Known, session_lock) /\ WaitingIsUnsent
      /\ UNCHANGED <<hand, gesture_state, gesture_output, hands, pending_middle_click>>
      /\ UNCHANGED <<session_lock, monitors, focused_output, fullscreen, exited>>
      /\ ptr' = [ptr EXCEPT !.resize = "Idle"]
      /\ buttons \cup unheard \subseteq Buttons
  BY DEF Commit, Elsewhere, IInv, TypeOK, session
<1>2. SessionTypeOK'
  BY <1>1 DEF SessionTypeOK
<1>3. Sound(ptr', Held, Known, session_lock) /\ ptr'.client = ptr.client
      /\ ptr'.pressed = ptr.pressed /\ ptr'.grab = ptr.grab
  BY <1>1 DEF Sound, PointerType
<1>. QED BY <1>1, <1>2, <1>3, PointerStep DEF WaitingIsUnsent

LEMMA SetFullscreenKeeps ==
    ASSUME IInv, SetFullscreen
    PROVE  IInv' /\ StaysLocked
<1>1. /\ SessionTypeOK /\ Sound(ptr, Held, Known, session_lock) /\ WaitingIsUnsent
      /\ UNCHANGED <<hand, gesture_state, gesture_output, hands, pending_middle_click>>
      /\ buttons \cup unheard \subseteq Buttons /\ focused_output \in Known \cup {NoOutput} /\ Known \subseteq Outputs
  BY DEF SetFullscreen, Elsewhere, IInv, TypeOK, SessionTypeOK
<1>2. CASE enter_fullscreen /\ ptr' \in Entering(ptr) \cup GrabMotion(ptr, focused_output)
  <2>1. SessionTypeOK' /\ UNCHANGED <<session_lock, monitors>>
    BY <1>1, <1>2 DEF enter_fullscreen, SessionTypeOK
  <2>2. /\ Sound(ptr', Held, Known, session_lock)
        /\ ptr'.client \subseteq ptr.client /\ ptr'.pressed = ptr.pressed
        /\ ptr'.grab = ptr.grab \/ ptr'.grab.kind = "move"
    <3>1. CASE ptr' \in Entering(ptr)
      BY <1>1, <3>1, EnteringIsSound
    <3>2. CASE ptr' \in GrabMotion(ptr, focused_output)
      BY <1>1, <3>2, MotionIsSound
    <3>. QED BY <1>2, <3>1, <3>2
  <2>3. ptr'.grab.kind = "pan" => ptr'.grab = ptr.grab
    BY <2>2
  <2>. QED BY <1>1, <2>1, <2>2, <2>3, PointerStep DEF WaitingIsUnsent
<1>3. CASE (\E o \in Outputs : exit_fullscreen_on(o)) /\ UNCHANGED ptr
  <2>1. SessionTypeOK' /\ UNCHANGED <<session_lock, monitors>>
    BY <1>1, <1>3, LeavingKeepsSession
  <2>. QED BY <1>1, <1>3, <2>1, PointerStep DEF WaitingIsUnsent
<1>. QED BY <1>2, <1>3 DEF SetFullscreen

-----------------------------------------------------------------------------
(* The session lock and monitors *)

LEMMA LockKeeps ==
    ASSUME IInv, Lock
    PROVE  IInv' /\ StaysLocked
<1>1. /\ TypeOK /\ SessionTypeOK /\ Sound(ptr, Held, Known, session_lock)
      /\ UNCHANGED <<monitors, focused_output, fullscreen, exited, hand, gesture_output, hands>>
      /\ session_lock' = "pending" /\ gesture_state' = NoGesture /\ pending_middle_click' = "none"
  BY DEF IInv, TypeOK, Lock, BeginLock, DropInteraction
<1>2. PICK p \in UnsetGrab(ptr) : ptr' = Stilled(p, outputs)
  BY DEF Lock, DropInteraction
<1>3. Sound(p, Held, Known, session_lock) /\ p.grab = NoGrab /\ p.edge = {}
  BY <1>1, UnsetGrabIsSound
<1>4. /\ ptr' \in PointerType /\ ptr'.client = p.client /\ ptr'.pressed = p.pressed
      /\ ptr'.edge = {} /\ ptr'.panning = p.panning \ outputs /\ ptr'.grab = NoGrab
  BY <1>2, <1>3 DEF Sound, PointerType, Stilled
<1>5. Sound(ptr, Held, Known, session_lock)'
  BY <1>1, <1>3, <1>4, GrabTypes DEF Sound
<1>6. NoGesture.kind = "none" /\ NoGesture.fired = 0
      /\ NoGesture = [kind |-> "none", fired |-> 0]
  BY DEF NoGesture, Gesture
<1>7. TypeOK'
  BY <1>1, <1>4, <1>6 DEF TypeOK, SessionTypeOK, GesturesTypeOK
<1>8. IInv'
  BY <1>1, <1>5, <1>6, <1>7 DEF IInv, WaitingIsUnsent, GestureHasHand
<1>9. StaysLocked
  BY <1>1, <1>4, <1>6, GrabTypes DEF StaysLocked, Led
<1>. QED BY <1>8, <1>9

LEMMA LockAnswersKeep ==
    ASSUME IInv, LockAnswers
    PROVE  IInv' /\ StaysLocked
<1>1. /\ TypeOK /\ SessionTypeOK /\ Sound(ptr, Held, Known, session_lock) /\ ~Unlocked
      /\ UNCHANGED <<monitors, focused_output, fullscreen, exited>>
      /\ UNCHANGED <<hand, gesture_state, gesture_output, ptr, hands, pending_middle_click>>
      /\ session_lock' \in {"locked", "unlocked"}
  BY DEF IInv, TypeOK, LockAnswers, ConfirmLock, EndLock, Elsewhere, Unlocked
<1>2. gesture_state = NoGesture /\ pending_middle_click = "none"
  BY <1>1 DEF IInv
<1>3. session_lock # "unlocked"
  BY <1>1 DEF Unlocked
<1>4. Sound(ptr, Held, Known, session_lock)'
  BY <1>1, <1>3 DEF Sound
<1>5. TypeOK'
  BY <1>1 DEF TypeOK, SessionTypeOK, GesturesTypeOK
<1>6. IInv'
  BY <1>1, <1>2, <1>4, <1>5 DEF IInv, WaitingIsUnsent, GestureHasHand
<1>7. StaysLocked
  BY <1>1 DEF StaysLocked, Led
<1>. QED BY <1>6, <1>7

LEMMA UnplugKeeps ==
    ASSUME IInv, NEW o \in Outputs, UnplugOutput(o)
    PROVE  IInv' /\ StaysLocked
<1>1. /\ TypeOK /\ SessionTypeOK /\ Sound(ptr, Held, Known, session_lock) /\ WaitingIsUnsent
      /\ UNCHANGED <<session_lock, replaced, exited, hand, hands, pending_middle_click>>
      /\ outputs' \subseteq outputs /\ outputs \ {o} \subseteq outputs'
      /\ fullscreen' = fullscreen \ {o}
  BY DEF IInv, TypeOK, UnplugOutput, Unplug, SessionTypeOK
<1>2. SessionTypeOK'
  BY OutputsAssumption DEF IInv, TypeOK, UnplugOutput, Unplug, SessionTypeOK
<1>3. PICK p \in UnsetGrab(ptr) \cup Entering(Unset(ptr)) : ptr' = Stilled(p, outputs \ outputs')
  BY DEF UnplugOutput, DropPinned
<1>4. Sound(p, Held, Known, session_lock) /\ p.grab = NoGrab /\ p.edge = {}
      /\ p.client \subseteq ptr.client /\ p.pressed = ptr.pressed
  <2>1. CASE p \in UnsetGrab(ptr)
    BY <1>1, <2>1, UnsetGrabIsSound
  <2>2. CASE p \in Entering(Unset(ptr))
    <3> DEFINE u == Unset(ptr)
    <3>1. ptr \in PointerType
      BY <1>1 DEF Sound
    <3>2. Sound(u, Held, Known, session_lock) /\ u.edge = {}
      BY <1>1, UnsetIsSound
    <3>3. u.grab = NoGrab /\ u.pressed = ptr.pressed
      BY <3>1, UnsetFields
    <3>4. p \in Entering(u)
      BY <2>2
    <3> HIDE DEF u
    <3>5. /\ Sound(p, Held, Known, session_lock) /\ p.grab = u.grab /\ p.edge = u.edge
          /\ p.client = {} /\ p.pressed = u.pressed
      BY <3>2, <3>4, EnteringIsSound
    <3>. QED BY <3>2, <3>3, <3>5
  <2>. QED BY <2>1, <2>2
<1>5. /\ ptr' \in PointerType /\ ptr'.client = p.client /\ ptr'.pressed = p.pressed
      /\ ptr'.edge = {} /\ ptr'.panning = p.panning \ (outputs \ outputs') /\ ptr'.grab = NoGrab
  BY <1>3, <1>4 DEF Sound, PointerType, Stilled
<1>6. Sound(ptr, Held, Known, session_lock)'
  BY <1>1, <1>4, <1>5, GrabTypes DEF Sound
<1>7. NoGesture.kind = "none" /\ NoGesture = [kind |-> "none", fired |-> 0]
  BY DEF NoGesture, Gesture
<1>8. \/ /\ gesture_output' = NoOutput /\ gesture_state' = NoGesture
      \/ /\ gesture_output # o /\ UNCHANGED <<gesture_output, gesture_state>>
  BY DEF UnplugOutput, DropPinned
<1>9. /\ gesture_output' \in (Known \cup {NoOutput})'
      /\ gesture_state' \in {NoGesture, gesture_state}
  BY <1>1, <1>7, <1>8 DEF IInv, TypeOK, GesturesTypeOK
<1>10. TypeOK'
  BY <1>1, <1>2, <1>5, <1>7, <1>9 DEF TypeOK, GesturesTypeOK
<1>11. WaitingIsUnsent' /\ GestureHasHand'
  BY <1>1, <1>4, <1>5, <1>7, <1>9 DEF IInv, WaitingIsUnsent, GestureHasHand
<1>12. IInv'
  BY <1>1, <1>6, <1>9, <1>10, <1>11 DEF IInv, Unlocked
<1>13. StaysLocked
  BY <1>1, <1>5, <1>7, <1>8, GrabTypes DEF StaysLocked, Led
<1>. QED BY <1>12, <1>13

\* A monitor that comes may replace the placeholder: what is pinned to it stays known.
LEMMA PlugKeeps ==
    ASSUME IInv, NEW o \in Outputs, PlugOutput(o)
    PROVE  IInv' /\ StaysLocked
<1> DEFINE K == Known \cup {o}
<1>1. /\ TypeOK /\ SessionTypeOK /\ Sound(ptr, Held, Known, session_lock) /\ WaitingIsUnsent
      /\ UNCHANGED <<session_lock, fullscreen, exited>>
      /\ UNCHANGED <<hand, gesture_state, gesture_output, hands, pending_middle_click>>
      /\ o \notin fullscreen /\ o \notin ptr.panning
  BY DEF IInv, TypeOK, PlugOutput, Plug, Elsewhere, Fresh
<1>2. SessionTypeOK' /\ Known' = K /\ K \subseteq Outputs /\ outputs' \subseteq outputs \cup {o}
  BY <1>1, OutputsAssumption DEF PlugOutput, Plug, Left, FocusLeft, SessionTypeOK
<1>3. Sound(ptr, Held, K, session_lock)
  BY <1>1 DEF Sound
<1>4. \/ UNCHANGED ptr
      \/ focused_output' = FocusAfter(ptr, o) /\ ptr' \in GrabMotion(ptr, focused_output')
  BY DEF PlugOutput
<1>5. /\ Sound(ptr', Held, K, session_lock)
      /\ ptr'.client \subseteq ptr.client /\ ptr'.pressed = ptr.pressed /\ ptr'.panning = ptr.panning
      /\ ptr'.grab = ptr.grab \/ ptr'.grab.kind = "move"
  <2>1. CASE UNCHANGED ptr
    BY <1>3, <2>1
  <2>2. CASE focused_output' = FocusAfter(ptr, o) /\ ptr' \in GrabMotion(ptr, focused_output')
    <3>1. o \in K
      OBVIOUS
    <3> HIDE DEF K
    <3>2. focused_output' \in K \cup {NoOutput}
      BY <1>3, <2>2, <3>1, FocusStays
    <3>. QED BY <1>2, <1>3, <2>2, <3>2, MotionIsSound
  <2>. QED BY <1>4, <2>1, <2>2
<1>6. Sound(ptr, Held, Known, session_lock)'
  <2>1. session_lock # "unlocked" => ptr'.panning \cap outputs' = {}
    BY <1>1, <1>2, <1>5 DEF Sound
  <2>2. Held' = Held /\ session_lock' = session_lock
    BY <1>1
  <2> HIDE DEF K, Held, Known
  <2>. QED BY <1>2, <1>5, <2>1, <2>2 DEF Sound
<1>7. gesture_output' \in (Known \cup {NoOutput})' /\ ptr' \in PointerType
  BY <1>1, <1>2, <1>5 DEF TypeOK, GesturesTypeOK, Sound
<1>8. TypeOK'
  BY <1>1, <1>2, <1>7 DEF TypeOK, GesturesTypeOK
<1>9. IInv'
  BY <1>1, <1>5, <1>6, <1>8 DEF IInv, WaitingIsUnsent, GestureHasHand, Unlocked
<1>10. StaysLocked
  <2> SUFFICES ASSUME NEW x \in fullscreen, x \in Led'
               PROVE  x \in Led
    BY DEF StaysLocked
  <2>1. x \in outputs
    BY <1>1, <1>2 DEF Led
  <2>2. ptr'.grab = Grab("pan", x) => ptr.grab = Grab("pan", x)
    BY <1>5, GrabTypes
  <2>. QED BY <1>1, <2>1, <2>2 DEF Led
<1>. QED BY <1>9, <1>10

\* Without its Output the monitor leaves nothing behind but what was pinned before.
LEMMA PlugFailedKeeps ==
    ASSUME IInv, PlugFailed
    PROVE  IInv' /\ StaysLocked
<1>1. /\ TypeOK /\ SessionTypeOK /\ Sound(ptr, Held, Known, session_lock)
      /\ UNCHANGED <<session_lock, fullscreen, exited>>
      /\ UNCHANGED <<hand, gesture_state, gesture_output, ptr, hands, pending_middle_click>>
  BY DEF IInv, TypeOK, PlugFailed, PlugFails, Elsewhere
<1>2. SessionTypeOK' /\ Known' = Known /\ outputs' = {}
  BY <1>1 DEF PlugFailed, PlugFails, Left, FocusLeft, SessionTypeOK
<1>3. Sound(ptr, Held, Known, session_lock)'
  BY <1>1, <1>2 DEF Sound
<1>4. TypeOK'
  BY <1>1, <1>2 DEF TypeOK, GesturesTypeOK
<1>5. IInv'
  BY <1>1, <1>3, <1>4 DEF IInv, WaitingIsUnsent, GestureHasHand, Unlocked
<1>6. StaysLocked
  BY <1>2 DEF StaysLocked, Led
<1>. QED BY <1>5, <1>6

-----------------------------------------------------------------------------
(* Gestures *)

GestureStates == [kind : {"none"} \cup UNION {Hands[h] : h \in DOMAIN Hands}, fired : 0..2]

LEMMA HandTypes ==
    /\ DOMAIN Hands = {"none", "swipe", "pinch", "hold"}
    /\ Hands["none"] = {} /\ Hands["hold"] = {"HoldAction"}
    /\ Hands["swipe"] = {"SwipePan", "SwipeMove", "SwipeResize", "SwipeThreshold"}
    /\ Hands["pinch"] = {"PinchZoom", "PinchForward", "PinchThreshold"}
    /\ UNION {Hands[h] : h \in DOMAIN Hands} =
         {"SwipePan", "SwipeMove", "SwipeResize", "SwipeThreshold",
          "PinchZoom", "PinchForward", "PinchThreshold", "HoldAction"}
    /\ NoGesture = Gesture("none")
    /\ \A kind : Gesture(kind).kind = kind /\ Gesture(kind).fired = 0
    /\ \A kind \in {"none"} \cup UNION {Hands[h] : h \in DOMAIN Hands} : Gesture(kind) \in GestureStates
<1>1. Hands = [h \in {"none", "swipe", "pinch", "hold"} |->
                 CASE h = "swipe" -> Swipes [] h = "pinch" -> Pinches [] h = "hold" -> {"HoldAction"}
                   [] OTHER -> {}]
  BY DEF Hands
<1>2. /\ DOMAIN Hands = {"none", "swipe", "pinch", "hold"}
      /\ Hands["none"] = {} /\ Hands["hold"] = {"HoldAction"}
      /\ Hands["swipe"] = {"SwipePan", "SwipeMove", "SwipeResize", "SwipeThreshold"}
      /\ Hands["pinch"] = {"PinchZoom", "PinchForward", "PinchThreshold"}
  BY <1>1 DEF Swipes, Pinches
<1>3. UNION {Hands[h] : h \in DOMAIN Hands} =
         Hands["none"] \cup Hands["swipe"] \cup Hands["pinch"] \cup Hands["hold"]
  BY <1>2
<1>. QED BY <1>2, <1>3 DEF NoGesture, Gesture, GestureStates

\* What steers the camera of an output.
Camera == {"SwipePan", "PinchZoom"}

\* Enough for the invariant to hold after a step of a gesture, and for the viewport to
\* stay locked: what begins to steer a camera does so on an output that is not
\* fullscreen, and no drag begins.
LEMMA GestureStep ==
    ASSUME IInv, SessionTypeOK', Unlocked, UNCHANGED <<session_lock, monitors, hands>>,
           Sound(ptr', Held, Known, session_lock),
           hand' \in DOMAIN Hands, gesture_state' \in GestureStates,
           gesture_output' \in Known \cup {NoOutput}, GestureHasHand',
           pending_middle_click' \in {pending_middle_click, "none"},
           ~Excused /\ pending_middle_click' # "none" => Middle \notin ptr'.client \cup ptr'.pressed,
           ptr'.grab.kind = "pan" => ptr'.grab = ptr.grab,
           gesture_state'.kind \in Camera =>
              \/ gesture_state.kind = gesture_state'.kind /\ UNCHANGED gesture_output
              \/ gesture_output' \notin fullscreen'
    PROVE  IInv' /\ StaysLocked
<1>1. TypeOK'
  BY DEF IInv, TypeOK, GesturesTypeOK, Sound, GestureStates
<1>2. Sound(ptr, Held, Known, session_lock)'
  BY DEF Sound
<1>3. WaitingIsUnsent'
  BY DEF IInv, WaitingIsUnsent
<1>4. IInv'
  BY <1>1, <1>2, <1>3 DEF IInv, Unlocked
<1>5. StaysLocked
  <2> SUFFICES ASSUME NEW o \in fullscreen \cap fullscreen', o \in Led'
               PROVE  o \in Led
    BY DEF StaysLocked
  <2>1. CASE gesture_output' = o /\ gesture_state'.kind \in Camera
    BY <2>1 DEF Led, Camera
  <2>2. CASE ptr'.grab = Grab("pan", o)
    BY <2>2, GrabTypes DEF Led
  <2>. QED BY <2>1, <2>2 DEF Led, Camera
<1>. QED BY <1>4, <1>5

\* While the session is locked no gesture event does anything.
LEMMA LockedGesture ==
    ASSUME IInv, ~Unlocked, hand' \in DOMAIN Hands,
           UNCHANGED <<session, ptr, gesture_state, gesture_output, pending_middle_click, hands, plugs>>
    PROVE  IInv' /\ StaysLocked
<1>1. UNCHANGED <<session_lock, monitors, focused_output, fullscreen, exited>>
  BY DEF session
<1>2. gesture_state.kind = "none" /\ TypeOK /\ Sound(ptr, Held, Known, session_lock)
  BY HandTypes DEF IInv
<1>3. TypeOK'
  BY <1>1, <1>2 DEF TypeOK, SessionTypeOK, GesturesTypeOK
<1>4. Sound(ptr, Held, Known, session_lock)'
  BY <1>1, <1>2 DEF Sound
<1>5. IInv'
  BY <1>1, <1>2, <1>3, <1>4 DEF IInv, WaitingIsUnsent, GestureHasHand, Unlocked
<1>. QED BY <1>1, <1>5 DEF StaysLocked, Led

\* The timer sends the click that waits.
LEMMA FlushKeeps ==
    ASSUME IInv, FlushPending, UNCHANGED <<hands, plugs>>
    PROVE  IInv' /\ StaysLocked
<1>1. /\ UNCHANGED <<session_lock, monitors, focused_output, fullscreen, exited>>
      /\ UNCHANGED <<hand, gesture_state, gesture_output>>
      /\ ptr' = Flushed(ptr) /\ pending_middle_click' = "none"
      /\ Unlocked
  BY DEF FlushPending, session, IInv
<1>2. SessionTypeOK'
  BY <1>1 DEF IInv, TypeOK, SessionTypeOK
<1>3. Sound(ptr', Held, Known, session_lock) /\ ptr'.grab \in {ptr.grab, ClickGrab, NoGrab}
  <2>1. Sound(ptr, Held, Known, session_lock) /\ pending_middle_click # "none"
    BY DEF IInv, FlushPending
  <2>. QED BY <1>1, <2>1, FlushIsSound
<1>4. ptr'.grab.kind = "pan" => ptr'.grab = ptr.grab
  BY <1>3, GrabTypes
<1>5. /\ hand \in DOMAIN Hands /\ gesture_state \in GestureStates
      /\ gesture_output \in Known \cup {NoOutput} /\ GestureHasHand
  BY DEF IInv, TypeOK, GesturesTypeOK, GestureStates
<1>6. GestureHasHand'
  BY <1>1, <1>5 DEF GestureHasHand
<1>. QED BY <1>1, <1>2, <1>3, <1>4, <1>5, <1>6, GestureStep

\* A swipe that begins to move or resize the window, if there is an output.
LEMMA SteerIsSound ==
    ASSUME NEW p, NEW held, NEW lock, Sound(p, held, Known, lock), SessionTypeOK,
           NEW kind \in Swipes, Steer(p, kind)
    PROVE  /\ Sound(ptr', held, Known, lock)
           /\ ptr'.grab.kind = "pan" => ptr'.grab = p.grab
           /\ gesture_output' = focused_output
           /\ gesture_state' \in {gesture_state, Gesture(kind)}
<1>0. gesture_output' = focused_output /\ gesture_state' \in {gesture_state, Gesture(kind)}
  BY DEF Steer
<1>1. CASE kind = "SwipeMove" /\ focused_output # NoOutput
  <2>1. ptr' = StartMove(p)
    BY <1>1 DEF Steer
  <2>2. StartMove(p).grab = Grab("move", focused_output)
    <3>1. focused_output \in Known /\ Known \subseteq Outputs /\ "move" \in Pinned
      BY <1>1 DEF SessionTypeOK, Pinned
    <3>. QED BY <3>1, SetGrabIsSound DEF StartMove
  <2>3. Sound(StartMove(p), held, Known, lock)
    <3> DEFINE q == StartMove(p)
    <3>1. q \in {StartMove(p), StartResize(p)} /\ focused_output # NoOutput
      BY <1>1
    <3> HIDE DEF q
    <3>2. Sound(q, held, Known, lock)
      BY <3>1, StartIsSound
    <3>. QED BY <3>2 DEF q
  <2>4. StartMove(p).grab.kind = "move"
    BY <2>2, GrabTypes
  <2>. QED BY <1>0, <2>1, <2>3, <2>4
<1>2. CASE kind = "SwipeResize"
  <2>1. ptr' = [p EXCEPT !.resize = "Resizing"]
    BY <1>2 DEF Steer, StartResizing
  <2>2. /\ ptr' \in PointerType /\ ptr'.grab = p.grab /\ ptr'.edge = p.edge
        /\ ptr'.client = p.client /\ ptr'.pressed = p.pressed /\ ptr'.panning = p.panning
    BY <2>1 DEF Sound, PointerType
  <2>. QED BY <1>0, <2>2 DEF Sound
<1>3. CASE kind \notin {"SwipeMove", "SwipeResize"} \/ (kind = "SwipeMove" /\ focused_output = NoOutput)
  <2>1. ptr' = p
    BY <1>3 DEF Steer
  <2>. QED BY <1>0, <2>1
<1>. QED BY <1>1, <1>2, <1>3

LEMMA SwipeBeginKeeps ==
    ASSUME IInv, Unlocked, hand = "none", hand' = "swipe", SwipeBegin, UNCHANGED <<hands, plugs>>
    PROVE  IInv' /\ StaysLocked
<1>1. /\ TypeOK /\ SessionTypeOK /\ Sound(ptr, Held, Known, session_lock)
      /\ focused_output \in Known \cup {NoOutput} /\ gesture_output \in Known \cup {NoOutput}
  BY DEF IInv, TypeOK, SessionTypeOK, GesturesTypeOK
<1>2. gesture_state.kind = "none" /\ gesture_state \in GestureStates
  BY HandTypes DEF IInv, TypeOK, GesturesTypeOK, GestureStates, GestureHasHand
<1>3. /\ SessionTypeOK' /\ UNCHANGED <<session_lock, monitors, focused_output>>
      /\ focused_output \notin fullscreen'
  BY <1>1, LeavingKeepsSession DEF SwipeBegin
<1>4. PICK r \in Remapped(ptr) :
          TapSwipe(r) \/ Swipe(IF pending_middle_click = "none" THEN r ELSE Flushed(r))
  BY DEF SwipeBegin
<1> DEFINE p == IF pending_middle_click = "none" THEN r ELSE Flushed(r)
<1>5. Sound(r, Held, Known, session_lock) /\ (r.grab.kind = "pan" => r.grab = ptr.grab)
  BY <1>1, <1>4, RemappedIsSound
<1>6. Sound(p, Held, Known, session_lock) /\ (p.grab.kind = "pan" => p.grab = ptr.grab)
  <2>1. CASE pending_middle_click = "none"
    BY <1>5, <2>1
  <2>2. CASE pending_middle_click # "none"
    BY <1>5, <2>2, FlushIsSound, GrabTypes
  <2>. QED BY <2>1, <2>2
<1>7. /\ pending_middle_click' = "none"
      /\ \/ \E q \in {r, p}, kind \in Swipes : Steer(q, kind)
         \/ /\ ptr' = p /\ gesture_output' \in {gesture_output, focused_output}
            /\ gesture_state' = gesture_state
  BY <1>4 DEF SwipeBegin, TapSwipe, Swipe, Swipes
<1> HIDE DEF p
<1>8. CASE \E q \in {r, p}, kind \in Swipes : Steer(q, kind)
  <2>1. PICK q \in {r, p}, kind \in Swipes : Steer(q, kind)
    BY <1>8
  <2>2. Sound(q, Held, Known, session_lock) /\ (q.grab.kind = "pan" => q.grab = ptr.grab)
    BY <1>5, <1>6
  <2>3. /\ Sound(ptr', Held, Known, session_lock) /\ (ptr'.grab.kind = "pan" => ptr'.grab = q.grab)
        /\ gesture_output' = focused_output /\ gesture_state' \in {gesture_state, Gesture(kind)}
    BY <1>1, <2>1, <2>2, SteerIsSound
  <2>4. /\ kind \in Hands["swipe"] /\ gesture_state' \in GestureStates
        /\ gesture_state'.kind \in {"none", kind}
    BY <1>2, <2>3, HandTypes DEF Swipes
  <2>5. hand' \in DOMAIN Hands /\ GestureHasHand'
    BY <2>4, HandTypes DEF GestureHasHand
  <2>. QED BY <1>1, <1>3, <1>7, <2>2, <2>3, <2>4, <2>5, GestureStep
<1>9. CASE /\ ptr' = p /\ gesture_output' \in {gesture_output, focused_output}
           /\ gesture_state' = gesture_state
  <2>1. hand' \in DOMAIN Hands /\ GestureHasHand'
    BY <1>2, <1>9, HandTypes DEF GestureHasHand
  <2>2. gesture_state'.kind \notin Camera
    BY <1>2, <1>9 DEF Camera
  <2>. QED BY <1>1, <1>2, <1>3, <1>6, <1>7, <1>9, <2>1, <2>2, GestureStep
<1>. QED BY <1>7, <1>8, <1>9

LEMMA PinchBeginKeeps ==
    ASSUME IInv, Unlocked, hand = "none", hand' = "pinch", PinchBegin, UNCHANGED <<hands, plugs>>
    PROVE  IInv' /\ StaysLocked
<1>1. /\ SessionTypeOK /\ Sound(ptr, Held, Known, session_lock) /\ WaitingIsUnsent
      /\ focused_output \in Known \cup {NoOutput} /\ gesture_output \in Known \cup {NoOutput}
      /\ UNCHANGED pending_middle_click
  BY DEF IInv, TypeOK, SessionTypeOK, GesturesTypeOK, PinchBegin
<1>2. gesture_state.kind = "none" /\ gesture_state \in GestureStates
  BY HandTypes DEF IInv, TypeOK, GesturesTypeOK, GestureStates, GestureHasHand
<1>3. SessionTypeOK' /\ UNCHANGED <<session_lock, monitors, focused_output>>
  BY <1>1, LeavingKeepsSession DEF PinchBegin, session, SessionTypeOK
<1>4. \/ UNCHANGED <<gesture_state, gesture_output>>
      \/ /\ gesture_state' = Gesture("PinchZoom") /\ gesture_output' = focused_output
         /\ focused_output \notin fullscreen'
      \/ /\ gesture_state' \in {Gesture("PinchThreshold"), Gesture("PinchForward")}
         /\ UNCHANGED gesture_output
  BY <1>1, LeavingKeepsSession DEF PinchBegin
<1>5. /\ hand' \in DOMAIN Hands /\ gesture_state' \in GestureStates
      /\ gesture_state'.kind \in {"none"} \cup Hands["pinch"]
      /\ gesture_output' \in Known \cup {NoOutput}
      /\ gesture_state'.kind \in Camera => gesture_output' \notin fullscreen'
  BY <1>1, <1>2, <1>4, HandTypes DEF Camera
<1>6. GestureHasHand'
  BY <1>5 DEF GestureHasHand
<1>7. /\ Sound(ptr', Held, Known, session_lock)
      /\ ptr'.client \subseteq ptr.client /\ ptr'.pressed = ptr.pressed
      /\ ptr'.grab.kind = "pan" => ptr'.grab = ptr.grab
  <2>1. CASE UNCHANGED ptr
    BY <1>1, <2>1
  <2>2. CASE ptr' \in Remapped(ptr)
    BY <1>1, <2>2, RemappedIsSound
  <2>. QED BY <2>1, <2>2 DEF PinchBegin
<1>. QED BY <1>1, <1>3, <1>5, <1>6, <1>7, GestureStep DEF WaitingIsUnsent

LEMMA HoldBeginKeeps ==
    ASSUME IInv, Unlocked, hand = "none", hand' = "hold", HoldBegin, UNCHANGED <<hands, plugs>>
    PROVE  IInv' /\ StaysLocked
<1>1. /\ SessionTypeOK /\ Sound(ptr, Held, Known, session_lock) /\ WaitingIsUnsent
      /\ gesture_output \in Known \cup {NoOutput}
      /\ UNCHANGED <<ptr, pending_middle_click, gesture_output>>
      /\ UNCHANGED <<session_lock, monitors, focused_output, fullscreen, exited>>
  BY DEF IInv, TypeOK, GesturesTypeOK, HoldBegin, session
<1>2. gesture_state.kind = "none" /\ gesture_state \in GestureStates
  BY HandTypes DEF IInv, TypeOK, GesturesTypeOK, GestureStates, GestureHasHand
<1>3. SessionTypeOK'
  BY <1>1 DEF SessionTypeOK
<1>4. /\ hand' \in DOMAIN Hands /\ gesture_state' \in GestureStates
      /\ gesture_state'.kind \in {"none"} \cup Hands["hold"]
      /\ gesture_state'.kind \notin Camera
  BY <1>2, HandTypes DEF HoldBegin, Camera
<1>5. GestureHasHand'
  BY <1>4 DEF GestureHasHand
<1>. QED BY <1>1, <1>3, <1>4, <1>5, GestureStep DEF WaitingIsUnsent

\* warp_pointer leaves the pointer as sound as motion does.
LEMMA WarpIsSound ==
    ASSUME IInv, NEW o \in Known \cup {NoOutput}, outputs # {} => o # NoOutput, Warp(o)
    PROVE  /\ SessionTypeOK' /\ UNCHANGED <<session_lock, monitors, fullscreen>>
           /\ Sound(ptr', Held, Known, session_lock)
           /\ ptr'.client \subseteq ptr.client /\ ptr'.pressed = ptr.pressed
           /\ ptr'.grab.kind = "pan" => ptr'.grab = ptr.grab
<1>1. /\ SessionTypeOK /\ Known \subseteq Outputs /\ Sound(ptr, Held, Known, session_lock)
      /\ UNCHANGED <<session_lock, monitors, fullscreen, exited>>
      /\ focused_output' = FocusAfter(ptr, o) /\ ptr' \in GrabMotion(ptr, focused_output')
  BY DEF IInv, TypeOK, SessionTypeOK, Warp
<1>2. focused_output' \in Known \cup {NoOutput} /\ (o # NoOutput => focused_output' # NoOutput)
  BY <1>1, FocusStays
<1>3. /\ Sound(ptr', Held, Known, session_lock)
      /\ ptr'.client \subseteq ptr.client /\ ptr'.pressed = ptr.pressed
      /\ ptr'.grab = ptr.grab \/ ptr'.grab.kind = "move"
  BY <1>1, <1>2, MotionIsSound
<1>4. SessionTypeOK'
  BY <1>1, <1>2 DEF SessionTypeOK
<1>. QED BY <1>1, <1>3, <1>4

LEMMA UpdateKeeps ==
    ASSUME IInv, Unlocked, SwipeUpdate \/ PinchUpdate, UNCHANGED <<hands, plugs>>
    PROVE  IInv' /\ StaysLocked
<1>1. /\ SessionTypeOK /\ Sound(ptr, Held, Known, session_lock) /\ WaitingIsUnsent
      /\ UNCHANGED <<hand, pending_middle_click>>
      /\ hand \in DOMAIN Hands /\ gesture_state \in GestureStates /\ GestureHasHand
      /\ gesture_output \in Known \cup {NoOutput} /\ focused_output \in Known \cup {NoOutput}
      /\ outputs # {} => focused_output # NoOutput
  BY DEF IInv, TypeOK, SessionTypeOK, GesturesTypeOK, GestureStates, SwipeUpdate, PinchUpdate
<1>2. ASSUME NEW o \in Known \cup {NoOutput}, outputs # {} => o # NoOutput, Warp(o),
             UNCHANGED gesture_state, gesture_output' \in Known \cup {NoOutput},
             gesture_state.kind \in Camera => UNCHANGED gesture_output
      PROVE  IInv' /\ StaysLocked
  <2>1. GestureHasHand'
    BY <1>1, <1>2 DEF GestureHasHand
  <2>2. /\ SessionTypeOK' /\ UNCHANGED <<session_lock, monitors, fullscreen>>
        /\ Sound(ptr', Held, Known, session_lock)
        /\ ptr'.client \subseteq ptr.client /\ ptr'.pressed = ptr.pressed
        /\ ptr'.grab.kind = "pan" => ptr'.grab = ptr.grab
    BY <1>2, WarpIsSound
  <2>. QED BY <1>1, <1>2, <2>1, <2>2, GestureStep DEF WaitingIsUnsent
<1>3. ASSUME NEW kind \in Camera, SteerCamera(kind)
      PROVE  IInv' /\ StaysLocked
  BY <1>1, <1>2, <1>3 DEF SteerCamera
<1>4. CASE SwipeMove
  <2>1. PICK o \in outputs \cup {gesture_output} :
                /\ gesture_output' = o
                /\ Warp(IF o # gesture_output THEN o ELSE focused_output)
    BY <1>4 DEF SwipeMove
  <2>2. gesture_output # NoOutput /\ UNCHANGED gesture_state /\ gesture_state.kind \notin Camera
    BY <1>4 DEF SwipeMove, Camera
  <2> DEFINE w == IF o # gesture_output THEN o ELSE focused_output
  <2>3. w \in Known \cup {NoOutput} /\ (outputs # {} => w # NoOutput)
        /\ gesture_output' \in Known \cup {NoOutput}
    BY <1>1, <2>1, OutputsAssumption DEF SessionTypeOK
  <2>4. Warp(w)
    BY <2>1
  <2> HIDE DEF w
  <2>. QED BY <1>2, <2>2, <2>3, <2>4
<1>5. CASE SwipeResize
  <2> DEFINE w == IF NoOutput \in {gesture_output, focused_output} THEN focused_output ELSE gesture_output
  <2>1. Warp(w) /\ UNCHANGED <<gesture_state, gesture_output>>
    BY <1>5 DEF SwipeResize
  <2>2. w \in Known \cup {NoOutput} /\ (outputs # {} => w # NoOutput)
    BY <1>1
  <2> HIDE DEF w
  <2>. QED BY <1>1, <1>2, <2>1, <2>2
<1>6. ASSUME NEW kind \in {"SwipeThreshold", "PinchThreshold"}, Threshold(kind)
      PROVE  IInv' /\ StaysLocked
  <2>1. /\ UNCHANGED gesture_output /\ gesture_state.kind = kind
        /\ gesture_state' = [gesture_state EXCEPT !.fired = @ + 1]
        /\ gesture_state.fired < Fires[kind]
        /\ Act \/ UNCHANGED <<session, ptr>>
    BY <1>6 DEF Threshold
  <2>2. /\ SessionTypeOK' /\ UNCHANGED <<session_lock, monitors>>
        /\ Sound(ptr', Held, Known, session_lock)
        /\ ptr'.client \subseteq ptr.client /\ ptr'.pressed = ptr.pressed
        /\ ptr'.grab.kind = "pan" => ptr'.grab = ptr.grab
    <3>1. CASE Act
      BY <3>1, ActIsSound
    <3>2. CASE UNCHANGED <<session, ptr>>
      BY <1>1, <3>2 DEF session, SessionTypeOK
    <3>. QED BY <2>1, <3>1, <3>2
  <2>3. Fires[kind] \in {1, 2}
    BY <1>6 DEF Fires
  <2>4. /\ gesture_state' \in GestureStates /\ gesture_state'.kind = kind
    BY <1>1, <2>1, <2>3 DEF GestureStates
  <2>5. GestureHasHand' /\ gesture_state'.kind \notin Camera
    BY <1>1, <1>6, <2>1, <2>4 DEF GestureHasHand, Camera
  <2>. QED BY <1>1, <2>1, <2>2, <2>4, <2>5, GestureStep DEF WaitingIsUnsent
<1>. QED BY <1>3, <1>4, <1>5, <1>6 DEF SwipeUpdate, PinchUpdate, Camera

LEMMA EndGestureKeeps ==
    ASSUME IInv, EndGesture, UNCHANGED <<hands, plugs>>
    PROVE  IInv' /\ StaysLocked
<1>1. /\ SessionTypeOK /\ Sound(ptr, Held, Known, session_lock) /\ WaitingIsUnsent
      /\ hand' = "none" /\ hand' \in DOMAIN Hands
      /\ gesture_output \in Known \cup {NoOutput} /\ focused_output \in Known \cup {NoOutput}
      /\ outputs # {} => focused_output # NoOutput
  BY HandTypes DEF IInv, TypeOK, GesturesTypeOK, SessionTypeOK, EndGesture
<1>2. CASE ~Unlocked
  BY <1>1, <1>2, LockedGesture DEF EndGesture
<1>3. CASE Unlocked
  <2>1. /\ gesture_state' = NoGesture /\ gesture_output' \in {gesture_output, NoOutput}
        /\ UNCHANGED pending_middle_click
    BY <1>3 DEF EndGesture, SwipeEnd, PinchEnd, HoldEnd, Taken
  <2>2. /\ gesture_state' \in GestureStates /\ gesture_state'.kind = "none"
        /\ gesture_state'.kind \notin Camera
        /\ gesture_output' \in Known \cup {NoOutput}
    BY <1>1, <2>1, HandTypes DEF Camera
  <2>3. GestureHasHand'
    BY <2>2 DEF GestureHasHand
  <2>4. /\ SessionTypeOK' /\ UNCHANGED <<session_lock, monitors>>
        /\ Sound(ptr', Held, Known, session_lock)
        /\ ptr'.client \subseteq ptr.client /\ ptr'.pressed = ptr.pressed
        /\ ptr'.grab.kind = "pan" => ptr'.grab = ptr.grab
    <3>1. \/ Act \/ Warp(focused_output)
          \/ UNCHANGED session /\ \/ ptr' = ptr
                                  \/ ptr' \in UnsetGrab(ptr)
                                  \/ ptr' = [ptr EXCEPT !.resize = "WaitingForLastCommit"]
      <4>1. CASE SwipeEnd
        BY <4>1 DEF SwipeEnd
      <4>. QED BY <1>3, <4>1 DEF EndGesture, PinchEnd, HoldEnd
    <3>2. UNCHANGED session => SessionTypeOK' /\ UNCHANGED <<session_lock, monitors>>
      BY <1>1 DEF session, SessionTypeOK
    <3>3. CASE Act
      BY <3>3, ActIsSound
    <3>4. CASE Warp(focused_output)
      BY <1>1, <3>4, WarpIsSound
    <3>5. CASE UNCHANGED session /\ ptr' = ptr
      BY <1>1, <3>2, <3>5
    <3>6. CASE UNCHANGED session /\ ptr' \in UnsetGrab(ptr)
      <4>1. /\ Sound(ptr', Held, Known, session_lock) /\ ptr'.grab = NoGrab
            /\ ptr'.client \subseteq ptr.client /\ ptr'.pressed = ptr.pressed
        BY <1>1, <3>6, UnsetGrabIsSound
      <4>. QED BY <3>2, <3>6, <4>1, GrabTypes
    <3>7. CASE UNCHANGED session /\ ptr' = [ptr EXCEPT !.resize = "WaitingForLastCommit"]
      <4>1. /\ Sound(ptr', Held, Known, session_lock) /\ ptr'.grab = ptr.grab
            /\ ptr'.client = ptr.client /\ ptr'.pressed = ptr.pressed
        BY <1>1, <3>7 DEF Sound, PointerType
      <4>. QED BY <3>2, <3>7, <4>1
    <3>. QED BY <3>1, <3>3, <3>4, <3>5, <3>6, <3>7
  <2>. QED BY <1>1, <1>3, <2>1, <2>2, <2>3, <2>4, GestureStep DEF WaitingIsUnsent
<1>. QED BY <1>2, <1>3

LEMMA BeginGestureKeeps ==
    ASSUME IInv, NEW h \in DOMAIN Hands \ {"none"}, BeginGesture(h), UNCHANGED <<hands, plugs>>
    PROVE  IInv' /\ StaysLocked
<1>1. hand = "none" /\ hand' = h /\ hand' \in DOMAIN Hands
  BY DEF BeginGesture
<1>2. CASE /\ ~Unlocked
           /\ UNCHANGED <<session, ptr, gesture_state, gesture_output, pending_middle_click>>
  BY <1>1, <1>2, LockedGesture
<1>3. CASE Unlocked /\ h = "swipe" /\ SwipeBegin
  BY <1>1, <1>3, SwipeBeginKeeps
<1>4. CASE Unlocked /\ h = "pinch" /\ PinchBegin
  BY <1>1, <1>4, PinchBeginKeeps
<1>5. CASE Unlocked /\ h = "hold" /\ HoldBegin
  BY <1>1, <1>5, HoldBeginKeeps
<1>. QED BY <1>2, <1>3, <1>4, <1>5 DEF BeginGesture

-----------------------------------------------------------------------------
(* The theorems *)

LEMMA InitIInv == Init => IInv
<1> SUFFICES ASSUME Init PROVE IInv
  OBVIOUS
<1>1. SessionTypeOK
  BY OutputsAssumption DEF Init, SessionInit, SessionTypeOK
<1>2. GesturesTypeOK /\ gesture_state.kind = "none"
  BY HandTypes, GrabTypes DEF Init, GesturesInit, GesturesTypeOK, NewPointer, PointerType, GestureStates
<1>3. Sound(ptr, Held, Known, session_lock)
  BY <1>2, GrabTypes DEF Init, SessionInit, GesturesInit, GesturesTypeOK, NewPointer, Sound
<1>. QED BY <1>1, <1>2, <1>3
     DEF Init, SessionInit, GesturesInit, IInv, TypeOK, WaitingIsUnsent, GestureHasHand, Unlocked

LEMMA NextKeeps ==
    ASSUME IInv, [Next]_vars
    PROVE  IInv' /\ StaysLocked
<1>1. CASE GestureNext /\ UNCHANGED <<hands, plugs>>
  BY <1>1, BeginGestureKeeps, UpdateKeeps, EndGestureKeeps, FlushKeeps DEF GestureNext
<1>2. ASSUME NEW b \in Buttons, PressButton(b) \/ ReleaseButton(b)
      PROVE  IInv' /\ StaysLocked
  BY <1>2, PressKeeps, ReleaseKeeps
<1>3. ASSUME NEW o \in Outputs, Motion(o) \/ UnplugOutput(o) \/ PlugOutput(o)
      PROVE  IInv' /\ StaysLocked
  BY <1>3, MotionKeeps, UnplugKeeps, PlugKeeps
<1>4. CASE Navigate \/ Scroll \/ Request \/ Commit \/ SetFullscreen \/ Lock \/ LockAnswers \/ PlugFailed
  BY <1>4, NavigateKeeps, ScrollKeeps, RequestKeeps, CommitKeeps, SetFullscreenKeeps, LockKeeps,
     LockAnswersKeep, PlugFailedKeeps
<1>5. CASE UNCHANGED vars
  <2>1. /\ UNCHANGED <<session_lock, monitors, focused_output, fullscreen, exited>>
        /\ UNCHANGED <<ptr, hand, gesture_state, gesture_output, pending_middle_click, hands>>
    BY <1>5 DEF vars, session, gestures
  <2>2. IInv'
    BY <2>1 DEF IInv, TypeOK, SessionTypeOK, GesturesTypeOK, Sound, WaitingIsUnsent,
                GestureHasHand, Unlocked
  <2>. QED BY <2>1, <2>2 DEF StaysLocked, Led
<1>. QED BY <1>1, <1>2, <1>3, <1>4, <1>5 DEF Next

\* For any outputs and buttons: the invariant behind the properties below.
THEOREM Invariance == Spec => []IInv
<1>1. IInv /\ [Next]_vars => IInv'
  BY NextKeeps
<1>. QED BY InitIInv, <1>1, PTL DEF Spec

\* Every variable of the pointer, the gestures and the session keeps its type: gestures
\* fire at most as often as they may, and the focus is on an output that is there, or on
\* a placeholder that was replaced; nowhere only when there is no output.
THEOREM TypeCorrect == Spec => []TypeOK
<1>1. IInv => TypeOK
  BY IInvImplies
<1>. QED BY Invariance, <1>1, PTL

\* No surface and no grab ever takes a button for pressed that is physically up:
\* pointer_button in input/pointer.rs, the middle clicks flush_middle_click sends late,
\* set_grab and unset in grabs/*.rs, and the session lock account for every release.
\* The mouse must lack the middle button that the touchpad taps (the README says why), and
\* a button that went up while there was no output is excepted until it goes up again.
THEOREM ButtonsStayHeld == ASSUME ~MouseHasMiddle PROVE Spec => []ButtonsAreHeld
<1>1. IInv => ButtonsAreHeld
  BY IInvImplies
<1>. QED BY Invariance, <1>1, PTL

\* GestureState is always one the fingers on the touchpad began: the begin, update and
\* end handlers of input/gestures, the lock and teardown_output leave no stale one.
THEOREM GesturesHaveHands == Spec => []GestureHasHand
<1>1. IInv => GestureHasHand
  BY IInvImplies
<1>. QED BY Invariance, <1>1, PTL

\* Grabs, gestures, edge panning and panning flags name outputs that are there, an edge
\* pans only under a move over that output, and none of it survives the session lock:
\* grabs/*.rs, SessionLockHandler::lock and teardown_output.  What was begun on a
\* placeholder is the exception: it stays pinned to it when a monitor replaces it.
THEOREM SteeringStaysPinned == Spec => []SteeringIsPinned
<1>1. IInv => SteeringIsPinned
  BY IInvImplies
<1>. QED BY Invariance, <1>1, PTL

\* No gesture and no drag of the canvas begins to lead the viewport of a window that stays
\* fullscreen: exit_fullscreen_for_gesture and exit_fullscreen_on come first, as
\* state/fullscreen.rs and input/pointer.rs have it.  A window dragged onto the output may
\* still pan it at its edges, and so may a gesture pinned to no output: see the README.
THEOREM ViewportStays == Spec => ViewportStaysLocked
<1>1. IInv /\ [Next]_vars => [\A o \in fullscreen \cap fullscreen' : o \in Led' => o \in Led]_vars
  BY NextKeeps DEF StaysLocked
<1>. QED BY Invariance, <1>1, PTL DEF Spec, ViewportStaysLocked
=============================================================================
