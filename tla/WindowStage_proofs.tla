-------------------------- MODULE WindowStage_proofs --------------------------
(***************************************************************************)
(* Proofs about WindowStage for any windows, outputs, dialogs and widgets: *)
(* deferred requests are settled, the focus history and the keyboard focus *)
(* hold only mapped windows, and a cycle finds its history as it left it.  *)
(***************************************************************************)
EXTENDS WindowStage, WellFoundedInduction, TLAPS

-----------------------------------------------------------------------------
(* The deferred requests *)

\* No step leaves a deferred fullscreen request without the commit that takes it up.
LEMMA NextKeepsDeferred ==
    ASSUME DeferredHasCommit, [Next]_vars
    PROVE  DeferredHasCommit'
<1> USE DEF DeferredHasCommit
<1>1. CASE UNCHANGED vars
  BY <1>1 DEF vars, pending
<1>2. ASSUME NEW w \in Windows, NewToplevel(w)
      PROVE  DeferredHasCommit'
  BY <1>2 DEF NewToplevel
<1>3. ASSUME NEW w \in Windows, CommitSized(w)
      PROVE  DeferredHasCommit'
  BY <1>3 DEF CommitSized, SettlePending
<1>4. ASSUME NEW w \in Windows, FullscreenRequest(w)
      PROVE  DeferredHasCommit'
  BY <1>4 DEF FullscreenRequest
<1>5. ASSUME NEW w \in Windows, UnfullscreenRequest(w)
      PROVE  DeferredHasCommit'
  BY <1>5 DEF UnfullscreenRequest
<1>6. ASSUME NEW w \in Windows, MaximizeRequest(w) \/ UnmaximizeRequest(w)
      PROVE  DeferredHasCommit'
  BY <1>6 DEF MaximizeRequest, UnmaximizeRequest
<1>7. ASSUME NEW w \in Windows, ToplevelDestroyed(w)
      PROVE  DeferredHasCommit'
  BY <1>7 DEF ToplevelDestroyed
<1>8. ASSUME NEW w \in Windows,
             X11Map(w) \/ CommitUnsized(w) \/ DialogHint(w) \/ DialogUnset(w)
               \/ SurfaceDestroyed(w) \/ X11Unmapped(w)
               \/ \E leave \in BOOLEAN : FocusWindow(w, leave)
      PROVE  DeferredHasCommit'
  BY <1>8 DEF X11Map, CommitUnsized, DialogHint, DialogUnset, SurfaceDestroyed,
              X11Unmapped, FocusWindow, pending
<1>9. ASSUME (\E f \in {Other, NoWindow} : FocusElsewhere(f)) \/ RefocusHead
               \/ ToggleFullscreen
               \/ (\E o \in Outputs : ExitFullscreenOn(o) \/ SwitchOutput(o))
      PROVE  DeferredHasCommit'
  BY <1>9 DEF FocusElsewhere, RefocusHead, ToggleFullscreen, ExitFullscreenOn,
              SwitchOutput, pending
<1>10. ASSUME (\E back \in BOOLEAN : CycleWindows(back)) \/ EndCycle
                \/ (\E lock \in BOOLEAN : DropCycle(lock)) \/ RefreshSpace
       PROVE  DeferredHasCommit'
  BY <1>10 DEF CycleWindows, EndCycle, DropCycle, RefreshSpace, pending
<1>11. QED
  BY <1>1, <1>2, <1>3, <1>4, <1>5, <1>6, <1>7, <1>8, <1>9, <1>10 DEF Next

\* A deferred fullscreen request always has a first sized commit ahead of it
\* (handlers/xdg_shell.rs, handlers/compositor.rs).
THEOREM DeferredIsSettled == Spec => []DeferredHasCommit
<1>1. Init => DeferredHasCommit
  BY DEF Init, DeferredHasCommit
<1>2. DeferredHasCommit /\ [Next]_vars => DeferredHasCommit'
  BY NextKeepsDeferred
<1>3. QED
  BY <1>1, <1>2, PTL DEF Spec

-----------------------------------------------------------------------------
(* What retain does to a list, by induction over its places: the least one at  *)
(* which it went wrong would have a predecessor at which it had not.           *)

\* The natural numbers are well-founded.
LEMMA Least ==
    ASSUME NEW T \in SUBSET Nat, T # {}
    PROVE  \E n \in T : \A m \in T : n <= m
<1>1. IsWellFoundedOn(OpToRel(<, Nat), Nat)
  BY NatLessThanWellFounded
<1>2. PICK n \in T : \A m \in T : <<m, n>> \notin OpToRel(<, Nat)
  <2> HIDE DEF OpToRel
  <2>. QED BY <1>1, WFMin
<1>3. \A m \in T : ~(m < n)
  BY <1>2 DEF OpToRel
<1>. QED BY <1>3

\* R is the function Without builds, up to n.
Retains(R, h, w, n) ==
    R = [i \in 0..n |-> IF i = 0 THEN <<>>
                        ELSE IF h[i] = w THEN R[i - 1] ELSE Append(R[i - 1], h[i])]

LEMMA RetainExists ==
    ASSUME NEW h, NEW w, NEW n \in Nat
    PROVE  \E R : Retains(R, h, w, n)
<1> DEFINE Bad == {m \in Nat : ~\E R : Retains(R, h, w, m)}
<1> SUFFICES ASSUME Bad # {} PROVE FALSE
  OBVIOUS
<1>1. PICK m \in Bad : \A k \in Bad : m <= k
  BY Least
<1>2. m # 0
  <2>1. Retains([i \in 0..0 |-> <<>>], h, w, 0)
    BY DEF Retains
  <2>. QED BY <2>1
<1>3. m - 1 \in Nat /\ m - 1 \notin Bad
  BY <1>1, <1>2
<1>4. PICK R : Retains(R, h, w, m - 1)
  BY <1>3
<1> DEFINE Q == [i \in 0..m |-> IF i < m THEN R[i]
                               ELSE IF h[m] = w THEN R[m - 1] ELSE Append(R[m - 1], h[m])]
<1>5. Retains(Q, h, w, m)
  <2>1. \A i \in 0..m - 1 : R[i] = IF i = 0 THEN <<>>
                        ELSE IF h[i] = w THEN R[i - 1] ELSE Append(R[i - 1], h[i])
    BY <1>4 DEF Retains
  <2>2. \A i \in 0..m : Q[i] = IF i = 0 THEN <<>>
                        ELSE IF h[i] = w THEN Q[i - 1] ELSE Append(Q[i - 1], h[i])
    BY <2>1, <1>2, <1>3
  <2>3. Q = [i \in 0..m |-> Q[i]]
    OBVIOUS
  <2> HIDE DEF Q
  <2>. QED BY <2>2, <2>3 DEF Retains
<1>. QED BY <1>5

LEMMA WithoutIs ==
    ASSUME NEW h, NEW w, Len(h) \in Nat
    PROVE  \E R : Retains(R, h, w, Len(h)) /\ Without(h, w) = R[Len(h)]
<1> DEFINE kept == CHOOSE R : Retains(R, h, w, Len(h))
<1>1. Retains(kept, h, w, Len(h))
  BY RetainExists
<1>2. Without(h, w) = kept[Len(h)]
  BY DEF Without, Retains
<1>. QED BY <1>1, <1>2

\* f places the elements of g, in their order, among the first n of h: at those places
\* that do not hold w.
Places(f, g, h, w, n) ==
    /\ f \in [1..Len(g) -> 1..n]
    /\ \A i, j \in 1..Len(g) : i < j => f[i] < f[j]
    /\ \A i \in 1..Len(g) : g[i] = h[f[i]] /\ h[f[i]] # w
    /\ \A k \in 1..n : h[k] # w => \E i \in 1..Len(g) : f[i] = k

LEMMA RetainPlaces ==
    ASSUME NEW S, NEW h \in Seq(S), NEW w, NEW R, Retains(R, h, w, Len(h)),
           NEW n \in 0..Len(h)
    PROVE  R[n] \in Seq(S) /\ \E f : Places(f, R[n], h, w, n)
<1> DEFINE Good(i) == R[i] \in Seq(S) /\ \E f : Places(f, R[i], h, w, i)
           Bad == {m \in Nat : m <= Len(h) /\ ~Good(m)}
<1>. Len(h) \in Nat
  OBVIOUS
<1>0. \A i \in 0..Len(h) : R[i] = IF i = 0 THEN <<>>
                        ELSE IF h[i] = w THEN R[i - 1] ELSE Append(R[i - 1], h[i])
  BY DEF Retains
<1> SUFFICES ASSUME Bad # {} PROVE FALSE
  OBVIOUS
<1>1. PICK m \in Bad : \A k \in Bad : m <= k
  BY Least
<1>2. m # 0
  <2>1. R[0] = <<>>
    BY <1>0
  <2>2. Places([i \in 1..0 |-> i], <<>>, h, w, 0)
    BY DEF Places
  <2>3. <<>> \in Seq(S)
    OBVIOUS
  <2>4. Good(0)
    <3> HIDE DEF Places
    <3>. QED BY <2>1, <2>2, <2>3
  <2> HIDE DEF Good
  <2>. QED BY <1>1, <2>4
<1>3. m - 1 \in Nat /\ m - 1 \notin Bad /\ m \in 1..Len(h) /\ m - 1 <= Len(h)
  <2> HIDE DEF Good
  <2>. QED BY <1>1, <1>2
<1>4. Good(m - 1)
  BY <1>3
<1> DEFINE r == R[m - 1]
<1>5. PICK f : Places(f, r, h, w, m - 1)
  BY <1>4
<1>6. r \in Seq(S) /\ Len(r) \in Nat /\ h[m] \in S
  BY <1>3, <1>4
<1>7. R[m] = IF h[m] = w THEN r ELSE Append(r, h[m])
  BY <1>0, <1>2, <1>3
<1> HIDE DEF r
<1>8. CASE h[m] = w
  <2>1. Places(f, r, h, w, m)
    BY <1>3, <1>5, <1>6, <1>8 DEF Places
  <2>2. Good(m)
    BY <1>6, <1>7, <1>8, <2>1
  <2>. QED BY <2>2
<1>9. CASE h[m] # w
  <2> DEFINE g == Append(r, h[m])
             e == [i \in 1..Len(r) + 1 |-> IF i <= Len(r) THEN f[i] ELSE m]
  <2>1. g \in Seq(S) /\ Len(g) = Len(r) + 1 /\ g[Len(r) + 1] = h[m]
        /\ \A i \in 1..Len(r) : g[i] = r[i]
    BY <1>6
  <2>2. e \in [1..Len(g) -> 1..m]
    BY <1>3, <1>5, <1>6, <2>1 DEF Places
  <2>3. \A i \in 1..Len(r) : e[i] = f[i] /\ f[i] \in 1..m - 1
    BY <1>5, <1>6 DEF Places
  <2>4. e[Len(r) + 1] = m
    BY <1>6
  <2> HIDE DEF g, e
  <2>5. \A i \in 1..Len(g) : i \in 1..Len(r) \/ i = Len(r) + 1
    BY <1>6, <2>1
  <2>6. \A i, j \in 1..Len(g) : i < j => e[i] < e[j]
    <3> SUFFICES ASSUME NEW i \in 1..Len(g), NEW j \in 1..Len(g), i < j
                 PROVE  e[i] < e[j]
      OBVIOUS
    <3>1. i \in 1..Len(r)
      BY <1>6, <2>1
    <3>2. CASE j \in 1..Len(r)
      BY <1>5, <2>3, <3>1, <3>2 DEF Places
    <3>3. CASE j = Len(r) + 1
      BY <1>3, <2>3, <2>4, <3>1, <3>3
    <3>. QED BY <2>5, <3>2, <3>3
  <2>7. \A i \in 1..Len(g) : g[i] = h[e[i]] /\ h[e[i]] # w
    BY <1>5, <1>9, <2>1, <2>3, <2>4, <2>5 DEF Places
  <2>8. \A k \in 1..m : h[k] # w => \E i \in 1..Len(g) : e[i] = k
    <3> SUFFICES ASSUME NEW k \in 1..m, h[k] # w
                 PROVE  \E i \in 1..Len(g) : e[i] = k
      OBVIOUS
    <3>1. CASE k = m
      BY <1>6, <2>1, <2>4, <3>1
    <3>2. CASE k # m
      <4>1. k \in 1..m - 1
        BY <1>3, <3>2
      <4>2. PICK i \in 1..Len(r) : f[i] = k
        BY <1>5, <4>1 DEF Places
      <4>3. i \in 1..Len(g)
        BY <1>6, <2>1
      <4>. QED BY <2>3, <4>2, <4>3
    <3>. QED BY <3>1, <3>2
  <2>9. Places(e, g, h, w, m)
    BY <2>2, <2>6, <2>7, <2>8 DEF Places
  <2>10. Good(m)
    BY <1>7, <1>9, <2>1, <2>9 DEF g
  <2>. QED BY <2>10
<1>. QED BY <1>8, <1>9

\* What retain leaves is a thinner list, that has everything but w.
LEMMA WithoutThins ==
    ASSUME NEW h \in Seq(Windows), NEW w
    PROVE  /\ Without(h, w) \in Seq(Windows)
           /\ Thinned(Without(h, w), h)
           /\ Members(Without(h, w)) = Members(h) \ {w}
<1>1. Len(h) \in Nat
  OBVIOUS
<1>2. PICK R : Retains(R, h, w, Len(h)) /\ Without(h, w) = R[Len(h)]
  BY <1>1, WithoutIs
<1> DEFINE g == Without(h, w)
<1>3. g \in Seq(Windows) /\ \E f : Places(f, g, h, w, Len(h))
  BY <1>1, <1>2, RetainPlaces
<1>4. PICK f : Places(f, g, h, w, Len(h))
  BY <1>3
<1> HIDE DEF g
<1>5. Thinned(g, h)
  BY <1>4 DEF Thinned, Places
<1>6. Members(g) = Members(h) \ {w}
  <2>1. ASSUME NEW x \in Members(g)
        PROVE  x \in Members(h) \ {w}
    <3>1. PICK i \in 1..Len(g) : x = g[i]
      BY DEF Members
    <3>2. f[i] \in 1..Len(h) /\ x = h[f[i]] /\ x # w
      BY <1>4, <3>1 DEF Places
    <3>. QED BY <3>2 DEF Members
  <2>2. ASSUME NEW x \in Members(h) \ {w}
        PROVE  x \in Members(g)
    <3>1. PICK k \in 1..Len(h) : x = h[k]
      BY DEF Members
    <3>2. PICK i \in 1..Len(g) : f[i] = k
      BY <1>4, <3>1 DEF Places
    <3>3. x = g[i]
      BY <1>4, <3>1, <3>2 DEF Places
    <3>. QED BY <3>3 DEF Members
  <2>. QED BY <2>1, <2>2
<1>. QED BY <1>3, <1>5, <1>6 DEF g

Distinct(h) == \A i, j \in 1..Len(h) : h[i] = h[j] => i = j

LEMMA ThinnedKeeps ==
    ASSUME NEW h \in Seq(Windows), NEW g \in Seq(Windows), Thinned(g, h), Distinct(h)
    PROVE  Distinct(g)
BY DEF Thinned, Distinct

LEMMA PushedIs ==
    ASSUME NEW h \in Seq(Windows), Distinct(h), NEW w \in Windows
    PROVE  /\ Pushed(h, w) \in Seq(Windows) /\ Distinct(Pushed(h, w))
           /\ Members(Pushed(h, w)) = Members(h) \cup {w}
<1> DEFINE g == Without(h, w)
<1>1. g \in Seq(Windows) /\ Distinct(g) /\ Members(g) = Members(h) \ {w}
  BY WithoutThins, ThinnedKeeps
<1>2. Pushed(h, w) = <<w>> \o g
  BY DEF Pushed
<1> HIDE DEF g
<1> DEFINE p == <<w>> \o g
<1>3. /\ p \in Seq(Windows) /\ Len(p) = Len(g) + 1 /\ Len(g) \in Nat /\ p[1] = w
      /\ \A i \in 1..Len(g) : p[i + 1] = g[i]
  BY <1>1
<1> HIDE DEF p
<1>4. \A i \in 1..Len(p) : i = 1 \/ (i - 1 \in 1..Len(g) /\ p[i] = g[i - 1])
  BY <1>3
<1>5. \A i \in 1..Len(g) : g[i] # w
  BY <1>1 DEF Members
<1>6. Distinct(p)
  <2> SUFFICES ASSUME NEW i \in 1..Len(p), NEW j \in 1..Len(p), p[i] = p[j]
               PROVE  i = j
    BY DEF Distinct
  <2>1. CASE i = 1
    BY <1>3, <1>4, <1>5, <2>1
  <2>2. CASE j = 1
    BY <1>3, <1>4, <1>5, <2>2
  <2>3. CASE i # 1 /\ j # 1
    <3>1. /\ i - 1 \in 1..Len(g) /\ p[i] = g[i - 1] /\ j - 1 \in 1..Len(g) /\ p[j] = g[j - 1]
      BY <1>4, <2>3
    <3>2. i - 1 = j - 1
      BY <1>1, <3>1 DEF Distinct
    <3>. QED BY <1>3, <3>2
  <2>. QED BY <2>1, <2>2, <2>3
<1>7. Members(p) = Members(g) \cup {w}
  <2>1. ASSUME NEW x \in Members(p)
        PROVE  x \in Members(g) \cup {w}
    BY <1>3, <1>4, <2>1 DEF Members
  <2>2. ASSUME NEW x \in Members(g)
        PROVE  x \in Members(p)
    BY <1>3, <2>2 DEF Members
  <2>3. w \in Members(p)
    BY <1>3 DEF Members
  <2>. QED BY <2>1, <2>2, <2>3
<1>. QED BY <1>1, <1>2, <1>3, <1>6, <1>7 DEF p

-----------------------------------------------------------------------------
(* The inductive invariant *)

\* What is not the keyboard's: types; a window that waits for its first commit is a live
\* Wayland window, and every live window is mapped.
WorldOK ==
    /\ status \in [Windows -> {"new", "live", "closed", "gone"}]
    /\ dying \in Windows \cup {NoWindow}
    /\ space \subseteq Windows /\ ruled \subseteq Widgets /\ modal \subseteq Windows
    /\ pending_center \cup pending_fit \cup pending_fullscreen \subseteq Windows
    /\ fullscreen \in [Outputs -> Windows \cup {NoWindow}]
    /\ active_output \in Outputs
    /\ pending_center \subseteq Live \ X11
    /\ Live \subseteq space

\* With the windows sp mapped, those of lv alive and the widgets rd known: f may have
\* the focus, h may be the history.
FocusOK(f, sp, lv) ==
    /\ f \in Windows \cup {Other, NoWindow}
    /\ f \in Windows \ (X11 \cup modal) => f \in sp \cap lv

HistoryOK(h, sp, lv, rd) ==
    /\ h \in Seq(Windows)
    /\ Distinct(h)
    /\ Members(h) \ X11 \subseteq sp \cap lv
    /\ Members(h) \cap rd = {}

Sane(k, sp, lv, rd) ==
    /\ k = [focus |-> k.focus, history |-> k.history]
    /\ FocusOK(k.focus, sp, lv)
    /\ HistoryOK(k.history, sp, lv, rd)

CycleOK ==
    /\ cycle_state \in Nat
    /\ shown \in Windows \cup {NoWindow}
    /\ shown = NoWindow <=> cycle_state = 0

IInv == WorldOK /\ Sane(Keyboard, space, Live, ruled) /\ CycleOK

LEMMA IInvImplies ==
    ASSUME IInv
    PROVE  TypeOK /\ HistoryIsMapped /\ FocusIsMapped
BY DEF IInv, WorldOK, Sane, FocusOK, HistoryOK, CycleOK, Keyboard, TypeOK, HistoryIsMapped,
       WidgetsLeaveHistory, FocusIsMapped, Distinct

\* What a step may not do to a cycle.
FrozenStep == cycle_state # 0 /\ cycle_state' # 0 => Thinned(focus_history', focus_history)
RangeStep ==
    cycle_state <= Len(focus_history) /\ ruled' = ruled => cycle_state' <= Len(focus_history')

LEMMA ThinnedSelf == ASSUME NEW h \in Seq(Windows) PROVE Thinned(h, h)
<1>1. [i \in 1..Len(h) |-> i] \in [1..Len(h) -> 1..Len(h)]
  OBVIOUS
<1>. QED BY <1>1 DEF Thinned

-----------------------------------------------------------------------------
(* Calls on the keyboard *)

LEMMA SaneElsewhere ==
    ASSUME NEW k, NEW sp, NEW lv, NEW rd, NEW sq, NEW lw, Sane(k, sp, lv, rd),
           sp \cap lv \subseteq sq \cap lw
    PROVE  Sane(k, sq, lw, rd)
BY DEF Sane, FocusOK, HistoryOK

\* A window that may be focused: and it is no widget, or not listed then.
Focusable(f, sp, lv, rd) ==
    /\ FocusOK(f, sp, lv)
    /\ f \in rd => f \in ruled \cup modal

LEMMA SetFocusIsSane ==
    ASSUME NEW k, NEW sp, NEW lv, NEW rd, HistoryOK(k.history, sp, lv, rd),
           NEW f, Focusable(f, sp, lv, rd), NEW sq \in SUBSET Windows
    PROVE  /\ Sane(SetFocus(k, f, sq), sp, lv, rd)
           /\ SetFocus(k, f, sq).focus = f
           /\ cycle_state # 0 => SetFocus(k, f, sq).history = k.history
<1> DEFINE j == SetFocus(k, f, sq)
<1>1. j = [focus |-> j.focus, history |-> j.history] /\ j.focus = f
  BY DEF SetFocus
<1>2. j.history = IF f # k.focus /\ cycle_state = 0 /\ f \in sq \ (ruled \cup modal)
                  THEN Pushed(k.history, f) ELSE k.history
  BY DEF SetFocus
<1> HIDE DEF j
<1>3. HistoryOK(j.history, sp, lv, rd)
  <2>1. CASE f # k.focus /\ cycle_state = 0 /\ f \in sq \ (ruled \cup modal)
    <3>1. f \in Windows /\ (f \in X11 \/ f \in sp \cap lv) /\ f \notin rd
      BY <2>1 DEF Focusable, FocusOK
    <3>2. /\ Pushed(k.history, f) \in Seq(Windows) /\ Distinct(Pushed(k.history, f))
          /\ Members(Pushed(k.history, f)) = Members(k.history) \cup {f}
      BY <3>1, PushedIs DEF HistoryOK
    <3>. QED BY <1>2, <2>1, <3>1, <3>2 DEF HistoryOK
  <2>2. CASE ~(f # k.focus /\ cycle_state = 0 /\ f \in sq \ (ruled \cup modal))
    BY <1>2, <2>2
  <2>. QED BY <2>1, <2>2
<1>4. Sane(j, sp, lv, rd)
  BY <1>1, <1>3 DEF Sane, Focusable
<1>. QED BY <1>1, <1>2, <1>4 DEF j

\* raise_and_focus of one of S: that window or a modal dialog of it.
LEMMA RaiseIsSane ==
    ASSUME NEW k, NEW sp, NEW lv, NEW rd, HistoryOK(k.history, sp, lv, rd),
           NEW S, \A v \in S : Focusable(v, sp, lv, rd), NEW sq \in SUBSET Windows,
           NEW j \in RaiseAndFocus(k, S, sq)
    PROVE  /\ Sane(j, sp, lv, rd)
           /\ j.focus \in S \cup modal
           /\ cycle_state # 0 => j.history = k.history
<1>0. PICK v \in S : \E f \in RaiseTargets(v, sq) : j = SetFocus(k, f, sq)
  BY DEF RaiseAndFocus
<1>1. PICK f \in RaiseTargets(v, sq) : j = SetFocus(k, f, sq)
  BY <1>0
<1>2. f = v \/ f \in sq \cap modal
  BY DEF RaiseTargets, ModalChildren
<1>3. Focusable(f, sp, lv, rd)
  BY <1>2 DEF Focusable, FocusOK
<1>. QED BY <1>1, <1>2, <1>3, SetFocusIsSane

LEMMA HoverIsSane ==
    ASSUME NEW k, NEW sp, NEW lv, NEW rd, Sane(k, sp, lv, rd),
           NEW S, \A u \in S \ ruled : Focusable(u, sp, lv, rd), NEW sq \in SUBSET Windows,
           NEW v \in HoverTargets(S), NEW j \in HoverFocus(k, v, sq)
    PROVE  /\ Sane(j, sp, lv, rd)
           /\ cycle_state # 0 => j.history = k.history
<1>1. CASE v = NoWindow
  BY <1>1 DEF HoverFocus
<1>2. CASE v # NoWindow
  <2>1. v \in S \ ruled /\ j \in RaiseAndFocus(k, {v}, sq)
    BY <1>2 DEF HoverTargets, HoverFocus
  <2>2. \A u \in {v} : Focusable(u, sp, lv, rd)
    BY <2>1
  <2>. QED BY <2>1, <2>2, RaiseIsSane DEF Sane
<1>. QED BY <1>1, <1>2

\* Taking a window out of the history.
LEMMA WithoutIsOK ==
    ASSUME NEW h, NEW sp, NEW lv, NEW rd, HistoryOK(h, sp, lv, rd), NEW w
    PROVE  /\ HistoryOK(Without(h, w), sp, lv, rd)
           /\ w \notin Members(Without(h, w))
           /\ Members(Without(h, w)) \subseteq Members(h)
           /\ Thinned(Without(h, w), h)
BY WithoutThins, ThinnedKeeps DEF HistoryOK

\* The widget rule: where it is applied the window leaves the history, and its head has
\* the focus.
LEMMA ApplyRuleIsSane ==
    ASSUME NEW k, Sane(k, space, Live, ruled), space \subseteq Windows,
           NEW w, NEW rd, rd = ruled \cup ({w} \cap Widgets)
    PROVE  /\ Sane(ApplyRule(k, w), space, Live, rd)
           /\ cycle_state # 0 => \/ ApplyRule(k, w).history = k.history
                                 \/ /\ ApplyRule(k, w).history = Without(k.history, w)
                                    /\ rd # ruled
<1>1. CASE w \notin Widgets \ ruled
  BY <1>1 DEF ApplyRule
<1>2. CASE w \in Widgets \ ruled
  <2> DEFINE h == Without(k.history, w)
             j == [k EXCEPT !.history = h]
  <2>1. HistoryOK(h, space, Live, ruled) /\ w \notin Members(h)
    BY WithoutIsOK DEF Sane
  <2>2. HistoryOK(h, space, Live, rd)
    BY <1>2, <2>1 DEF HistoryOK
  <2>3. j = [focus |-> k.focus, history |-> h]
    BY DEF Sane
  <2>4. ApplyRule(k, w) = IF h = <<>> THEN j ELSE SetFocus(j, Head(h), space)
    BY <1>2 DEF ApplyRule
  <2> HIDE DEF h
  <2>5. Sane(j, space, Live, rd) /\ j.history = h
    BY <2>2, <2>3 DEF Sane
  <2> HIDE DEF j
  <2>6. CASE h = <<>>
    BY <1>2, <2>4, <2>5, <2>6 DEF h
  <2>7. CASE h # <<>>
    <3>1. Head(h) \in Members(h) /\ Members(h) \subseteq Windows
      BY <2>2, <2>7 DEF HistoryOK, Members
    <3>2. Focusable(Head(h), space, Live, rd)
      BY <2>2, <3>1 DEF Focusable, FocusOK, HistoryOK
    <3>3. /\ Sane(SetFocus(j, Head(h), space), space, Live, rd)
          /\ cycle_state # 0 => SetFocus(j, Head(h), space).history = h
      BY <2>2, <2>5, <3>2, SetFocusIsSane
    <3>4. ApplyRule(k, w) = SetFocus(j, Head(h), space) /\ rd # ruled
      BY <1>2, <2>4, <2>7
    <3>. QED BY <3>3, <3>4 DEF h
  <2>. QED BY <2>6, <2>7
<1>. QED BY <1>1, <1>2

\* Enough for a step that leaves the cycle alone.
LEMMA KeyboardStep ==
    ASSUME IInv, WorldOK', NEW k, SetKeyboard(k), UNCHANGED <<modal, cycle>>,
           Sane(k, space', Live', ruled'),
           cycle_state # 0 =>
              \/ k.history = focus_history
              \/ ruled' # ruled /\ \E w : k.history = Without(focus_history, w)
    PROVE  IInv' /\ FrozenStep /\ RangeStep
<1>1. Keyboard' = k
  BY DEF Sane, SetKeyboard, Keyboard
<1>2. Sane(Keyboard, space, Live, ruled)'
  BY <1>1 DEF Sane, FocusOK
<1>3. IInv'
  BY <1>2 DEF IInv, CycleOK, cycle
<1>4. focus_history \in Seq(Windows) /\ focus_history' = k.history /\ k.history \in Seq(Windows)
  BY DEF IInv, Sane, HistoryOK, Keyboard, SetKeyboard
<1>5. FrozenStep
  BY <1>4, ThinnedSelf, WithoutThins DEF FrozenStep
<1>6. RangeStep
  BY <1>4 DEF RangeStep, IInv, CycleOK, cycle
<1>. QED BY <1>3, <1>5, <1>6

\* The same when the keyboard is left alone as well.
LEMMA WorldStep ==
    ASSUME IInv, WorldOK', UNCHANGED <<modal, ruled, keyboard, cycle>>,
           space \cap Live \subseteq space' \cap Live'
    PROVE  IInv' /\ FrozenStep /\ RangeStep
<1>1. Sane(Keyboard, space', Live', ruled') /\ SetKeyboard(Keyboard)
      /\ Keyboard.history = focus_history
  BY SaneElsewhere DEF IInv, SetKeyboard, Keyboard, keyboard
<1>. QED BY <1>1, KeyboardStep

-----------------------------------------------------------------------------
(* The steps *)

Kept == IInv' /\ FrozenStep /\ RangeStep

LEMMA LiveIsFocusable ==
    ASSUME IInv, NEW sp \in SUBSET Windows, NEW lv
    PROVE  \A f \in sp \cap lv : Focusable(f, sp, lv, ruled)
BY DEF Focusable, FocusOK

LEMMA ExitKeeps ==
    ASSUME WorldOK, NEW S \in SUBSET Outputs, ExitFullscreen(S)
    PROVE  /\ space \subseteq space' /\ space' \subseteq Windows
           /\ fullscreen' \in [Outputs -> Windows \cup {NoWindow}]
BY WindowStageAssumption DEF WorldOK, ExitFullscreen

LEMMA EnterKeeps ==
    ASSUME WorldOK, NEW w \in Windows, EnterFullscreen(w)
    PROVE  /\ space \subseteq space' /\ space' \subseteq Windows
           /\ fullscreen' \in [Outputs -> Windows \cup {NoWindow}]
BY WindowStageAssumption DEF WorldOK, EnterFullscreen

LEMMA NewToplevelKeeps ==
    ASSUME IInv, NEW w \in Windows, NewToplevel(w)
    PROVE  Kept
<1>1. Live' = Live \cup {w}
  BY DEF IInv, WorldOK, NewToplevel, Live
<1>2. WorldOK'
  BY <1>1 DEF IInv, WorldOK, NewToplevel
<1>3. UNCHANGED <<modal, ruled, keyboard, cycle>> /\ space \cap Live \subseteq space' \cap Live'
  BY <1>1 DEF NewToplevel
<1>. QED BY <1>2, <1>3, WorldStep DEF Kept

LEMMA X11MapKeeps ==
    ASSUME IInv, NEW w \in Windows, X11Map(w)
    PROVE  Kept
<1>1. Live' = Live \cup {w} /\ space' = space \cup {w} /\ w \in X11 /\ w \notin Live
      /\ UNCHANGED <<modal, ruled, cycle>>
  BY DEF IInv, WorldOK, X11Map, Live, life
<1>2. WorldOK'
  BY <1>1 DEF IInv, WorldOK, X11Map, pending
<1>3. PICK v \in HoverTargets((space \cap Live) \cup {w}) :
        \E k \in HoverFocus(Keyboard, v, space') : SetKeyboard(k)
  BY DEF X11Map
<1>4. PICK k \in HoverFocus(Keyboard, v, space') : SetKeyboard(k)
  BY <1>3
<1>5. Sane(Keyboard, space', Live', ruled)
  BY <1>1, SaneElsewhere DEF IInv
<1>6. \A u \in ((space \cap Live) \cup {w}) \ ruled : Focusable(u, space', Live', ruled)
  BY <1>1 DEF IInv, WorldOK, Focusable, FocusOK
<1>7. space' \in SUBSET Windows
  BY <1>2 DEF WorldOK
<1>8. Sane(k, space', Live', ruled) /\ (cycle_state # 0 => k.history = Keyboard.history)
  BY <1>4, <1>5, <1>6, <1>7, HoverIsSane
<1>9. Keyboard.history = focus_history /\ ruled' = ruled
  BY <1>1 DEF Keyboard
<1>. QED BY <1>1, <1>2, <1>4, <1>8, <1>9, KeyboardStep DEF Kept

LEMMA CommitUnsizedKeeps ==
    ASSUME IInv, NEW w \in Windows, CommitUnsized(w)
    PROVE  Kept
<1>1. /\ ruled' = ruled \cup ({w} \cap Widgets) /\ SetKeyboard(ApplyRule(Keyboard, w))
      /\ UNCHANGED <<modal, cycle, space, status>> /\ Live' = Live
  BY DEF CommitUnsized, Live
<1>2. WorldOK' /\ space \subseteq Windows
  BY <1>1 DEF IInv, WorldOK, CommitUnsized, pending
<1>3. /\ Sane(ApplyRule(Keyboard, w), space, Live, ruled')
      /\ cycle_state # 0 => \/ ApplyRule(Keyboard, w).history = Keyboard.history
                            \/ /\ ApplyRule(Keyboard, w).history = Without(Keyboard.history, w)
                               /\ ruled' # ruled
  BY <1>1, <1>2, ApplyRuleIsSane DEF IInv
<1>4. Keyboard.history = focus_history
  BY DEF Keyboard
<1>. QED BY <1>1, <1>2, <1>3, <1>4, KeyboardStep DEF Kept

LEMMA CommitSizedKeeps ==
    ASSUME IInv, NEW w \in Windows, CommitSized(w)
    PROVE  Kept
<1> DEFINE S == (space \cap Live) \ ({w} \cap Widgets)
           rd == ruled \cup ({w} \cap Widgets)
           covers == \E o \in Outputs : fullscreen[o] = w
           deferred == w \in pending_fit \cup pending_fullscreen
<1>0. /\ w \in pending_center /\ w \in space /\ w \in Live /\ space \in SUBSET Windows
      /\ ruled' = rd /\ UNCHANGED <<status, dying, modal, active_output, cycle>> /\ Live' = Live
      /\ pending_center' = pending_center \ {w} /\ pending_fit' \subseteq pending_fit
      /\ pending_fullscreen' \subseteq pending_fullscreen
  BY DEF CommitSized, IInv, WorldOK, SettlePending, Live
<1> DEFINE Placed(k1) == {ApplyRule(k1, w)} \cup
                         (IF w \in Widgets \/ covers \/ deferred THEN {} ELSE RaiseAndFocus(k1, {w}, space))
           Settled(k3) ==
             IF w \in pending_fullscreen /\ EntersFullscreen(w, rd)
             THEN EnterFullscreen(w) /\ SetKeyboard(SetFocus(k3, w, space))
             ELSE /\ UNCHANGED <<fullscreen, space>>
                  /\ IF w \in pending_fit \ (pending_fullscreen \cup Widgets)
                     THEN \E k \in RaiseAndFocus(k3, {w}, space) : SetKeyboard(k)
                     ELSE SetKeyboard(k3)
<1>1. PICK v \in HoverTargets(S) :
        \E k1 \in HoverFocus(Keyboard, v, space) : \E k2 \in Placed(k1) :
        \E k3 \in HoverFocus(k2, v, space) : Settled(k3)
  BY <1>0 DEF CommitSized
<1> HIDE DEF Settled
<1>2. PICK k1 \in HoverFocus(Keyboard, v, space) :
        \E k2 \in Placed(k1) : \E k3 \in HoverFocus(k2, v, space) : Settled(k3)
  BY <1>1
<1> HIDE DEF Placed
<1>3. PICK k2 \in Placed(k1) : \E k3 \in HoverFocus(k2, v, space) : Settled(k3)
  BY <1>2
<1>4. PICK k3 \in HoverFocus(k2, v, space) : Settled(k3)
  BY <1>3
<1>5. \A u \in S \ ruled : Focusable(u, space, Live, ruled) /\ Focusable(u, space, Live, rd)
  BY <1>0 DEF Focusable, FocusOK
<1>6. w \notin Widgets => /\ Focusable(w, space, Live, ruled) /\ Focusable(w, space, Live, rd)
                          /\ rd = ruled
  BY <1>0 DEF Focusable, FocusOK, IInv, WorldOK
<1> HIDE DEF S
<1>7. /\ Sane(k1, space, Live, ruled)
      /\ cycle_state # 0 => k1.history = focus_history
  <2>1. Keyboard.history = focus_history /\ Sane(Keyboard, space, Live, ruled)
    BY DEF Keyboard, IInv
  <2>. QED BY <1>0, <1>2, <1>5, <2>1, HoverIsSane
<1>8. /\ Sane(k2, space, Live, rd)
      /\ cycle_state # 0 => \/ k2.history = k1.history
                            \/ k2.history = Without(k1.history, w) /\ rd # ruled
  <2>1. CASE k2 = ApplyRule(k1, w)
    BY <1>0, <1>7, <2>1, ApplyRuleIsSane
  <2>2. CASE w \notin Widgets /\ k2 \in RaiseAndFocus(k1, {w}, space)
    <3>1. \A u \in {w} : Focusable(u, space, Live, ruled)
      BY <1>6, <2>2
    <3>2. HistoryOK(k1.history, space, Live, ruled)
      BY <1>7 DEF Sane
    <3>3. Sane(k2, space, Live, ruled) /\ (cycle_state # 0 => k2.history = k1.history)
      BY <1>0, <2>2, <3>1, <3>2, RaiseIsSane
    <3>. QED BY <1>6, <2>2, <3>3
  <2>. QED BY <1>3, <2>1, <2>2 DEF Placed
<1>9. /\ Sane(k3, space, Live, rd)
      /\ cycle_state # 0 => k3.history = k2.history
  <2>1. \A u \in S \ ruled : Focusable(u, space, Live, rd)
    BY <1>5
  <2>2. Sane(k2, space, Live, rd)
    BY <1>8
  <2>3. space \in SUBSET Windows /\ v \in HoverTargets(S) /\ k3 \in HoverFocus(k2, v, space)
    BY <1>0, <1>1, <1>4
  <2> HIDE DEF rd
  <2>. QED BY <2>1, <2>2, <2>3, HoverIsSane
<1>10. ASSUME NEW k, SetKeyboard(k), Sane(k, space, Live, rd), cycle_state # 0 => k.history = k3.history,
              space \subseteq space', space' \subseteq Windows,
              fullscreen' \in [Outputs -> Windows \cup {NoWindow}]
       PROVE  Kept
  <2>1. WorldOK'
    BY <1>0, <1>10 DEF IInv, WorldOK
  <2>2. Sane(k, space', Live', ruled')
    BY <1>0, <1>10, SaneElsewhere
  <2>. QED BY <1>0, <1>7, <1>8, <1>9, <1>10, <2>1, <2>2, KeyboardStep DEF Kept
<1>11. WorldOK /\ fullscreen \in [Outputs -> Windows \cup {NoWindow}] /\ space \subseteq Windows
       /\ HistoryOK(k3.history, space, Live, rd)
  BY <1>9 DEF IInv, WorldOK, Sane
<1>12. CASE w \in pending_fullscreen /\ EntersFullscreen(w, rd)
  <2>1. EnterFullscreen(w) /\ SetKeyboard(SetFocus(k3, w, space))
    BY <1>4, <1>12 DEF Settled
  <2>2. w \notin Widgets
    BY <1>12 DEF EntersFullscreen
  <2>3. /\ Sane(SetFocus(k3, w, space), space, Live, rd)
        /\ cycle_state # 0 => SetFocus(k3, w, space).history = k3.history
    BY <1>0, <1>6, <1>11, <2>2, SetFocusIsSane
  <2>4. /\ space \subseteq space' /\ space' \subseteq Windows
        /\ fullscreen' \in [Outputs -> Windows \cup {NoWindow}]
    BY <1>11, <2>1, EnterKeeps
  <2>. QED BY <1>10, <2>1, <2>3, <2>4
<1>13. CASE ~(w \in pending_fullscreen /\ EntersFullscreen(w, rd))
  <2>1. /\ UNCHANGED <<fullscreen, space>>
        /\ IF w \in pending_fit \ (pending_fullscreen \cup Widgets)
           THEN \E k \in RaiseAndFocus(k3, {w}, space) : SetKeyboard(k)
           ELSE SetKeyboard(k3)
    BY <1>4, <1>13 DEF Settled
  <2>2. CASE w \in pending_fit \ (pending_fullscreen \cup Widgets)
    <3>1. PICK k \in RaiseAndFocus(k3, {w}, space) : SetKeyboard(k)
      BY <2>1, <2>2
    <3>2. \A u \in {w} : Focusable(u, space, Live, rd)
      BY <1>6, <2>2
    <3>3. Sane(k, space, Live, rd) /\ (cycle_state # 0 => k.history = k3.history)
      BY <1>0, <1>11, <3>1, <3>2, RaiseIsSane
    <3>. QED BY <1>10, <1>11, <2>1, <3>1, <3>3
  <2>3. CASE w \notin pending_fit \ (pending_fullscreen \cup Widgets)
    BY <1>9, <1>10, <1>11, <2>1, <2>3
  <2>. QED BY <2>2, <2>3
<1>. QED BY <1>12, <1>13

\* The requests of clients and taskbars.
LEMMA FullscreenRequestKeeps ==
    ASSUME IInv, NEW w \in Windows, FullscreenRequest(w)
    PROVE  Kept
<1>0. /\ w \in Live \ X11 /\ w \in space /\ space \in SUBSET Windows /\ Live' = Live
      /\ UNCHANGED <<status, dying, ruled, modal, pending_center, pending_fit, active_output, cycle>>
      /\ pending_fullscreen' \subseteq pending_fullscreen \cup {w}
      /\ WorldOK
  BY DEF FullscreenRequest, IInv, WorldOK, Live, life
<1>1. CASE UNCHANGED <<fullscreen, space, keyboard>>
  <2>1. WorldOK'
    BY <1>0, <1>1 DEF WorldOK
  <2>. QED BY <1>0, <1>1, <2>1, WorldStep DEF Kept
<1>2. CASE EnterFullscreen(w) /\ SetKeyboard(SetFocus(Keyboard, w, space))
  <2>1. /\ space \subseteq space' /\ space' \subseteq Windows
        /\ fullscreen' \in [Outputs -> Windows \cup {NoWindow}]
    BY <1>0, <1>2, EnterKeeps
  <2>2. WorldOK'
    BY <1>0, <2>1 DEF WorldOK
  <2>3. Focusable(w, space, Live, ruled) /\ Keyboard.history = focus_history
        /\ HistoryOK(Keyboard.history, space, Live, ruled)
    BY <1>0 DEF Focusable, FocusOK, Keyboard, IInv, Sane
  <2>4. /\ Sane(SetFocus(Keyboard, w, space), space, Live, ruled)
        /\ cycle_state # 0 => SetFocus(Keyboard, w, space).history = focus_history
    BY <1>0, <2>3, SetFocusIsSane
  <2>5. Sane(SetFocus(Keyboard, w, space), space', Live', ruled')
    BY <1>0, <2>1, <2>4, SaneElsewhere
  <2>. QED BY <1>0, <1>2, <2>2, <2>4, <2>5, KeyboardStep DEF Kept
<1>. QED BY <1>1, <1>2 DEF FullscreenRequest

LEMMA UnfullscreenRequestKeeps ==
    ASSUME IInv, NEW w \in Windows, UnfullscreenRequest(w)
    PROVE  Kept
<1>0. /\ Live' = Live /\ WorldOK
      /\ UNCHANGED <<status, dying, ruled, modal, pending_center, pending_fit, active_output,
                     keyboard, cycle>>
      /\ pending_fullscreen' \subseteq pending_fullscreen
  BY DEF UnfullscreenRequest, IInv, Live, life
<1>1. UNCHANGED <<fullscreen, space>> \/ \E o \in Outputs : ExitFullscreen({o})
  BY DEF UnfullscreenRequest
<1>2. /\ space \subseteq space' /\ space' \subseteq Windows
      /\ fullscreen' \in [Outputs -> Windows \cup {NoWindow}]
  BY <1>0, <1>1, ExitKeeps DEF WorldOK
<1>3. WorldOK'
  BY <1>0, <1>2 DEF WorldOK
<1>. QED BY <1>0, <1>2, <1>3, WorldStep DEF Kept

LEMMA MaximizeRequestKeeps ==
    ASSUME IInv, NEW w \in Windows, MaximizeRequest(w)
    PROVE  Kept
<1>0. /\ w \in Live /\ w \in space /\ space \in SUBSET Windows /\ Live' = Live /\ WorldOK
      /\ UNCHANGED <<status, dying, ruled, modal, space, pending_center, pending_fullscreen,
                     fullscreen, active_output, cycle>>
      /\ pending_fit' \subseteq pending_fit \cup {w}
  BY DEF MaximizeRequest, IInv, WorldOK, Live, life
<1>1. WorldOK'
  BY <1>0 DEF WorldOK
<1>2. CASE UNCHANGED keyboard
  BY <1>0, <1>1, <1>2, WorldStep DEF Kept
<1>3. CASE \E k \in RaiseAndFocus(Keyboard, {w}, space) : SetKeyboard(k)
  <2>1. PICK k \in RaiseAndFocus(Keyboard, {w}, space) : SetKeyboard(k)
    BY <1>3
  <2>2. \A u \in {w} : Focusable(u, space, Live, ruled)
    BY <1>0 DEF Focusable, FocusOK
  <2>3. HistoryOK(Keyboard.history, space, Live, ruled) /\ Keyboard.history = focus_history
    BY DEF IInv, Sane, Keyboard
  <2>4. Sane(k, space, Live, ruled) /\ (cycle_state # 0 => k.history = focus_history)
    BY <1>0, <2>1, <2>2, <2>3, RaiseIsSane
  <2>. QED BY <1>0, <1>1, <2>1, <2>4, KeyboardStep DEF Kept
<1>. QED BY <1>2, <1>3 DEF MaximizeRequest

LEMMA UnmaximizeRequestKeeps ==
    ASSUME IInv, NEW w \in Windows, UnmaximizeRequest(w)
    PROVE  Kept
<1>0. /\ Live' = Live /\ UNCHANGED <<ruled, modal, space, keyboard, cycle>>
  BY DEF UnmaximizeRequest, Live, life
<1>1. WorldOK'
  BY <1>0 DEF IInv, WorldOK, UnmaximizeRequest, life
<1>. QED BY <1>0, <1>1, WorldStep DEF Kept

\* A dialog becomes modal, or no longer is.
LEMMA DialogHintKeeps ==
    ASSUME IInv, NEW w \in Windows, DialogHint(w)
    PROVE  Kept
<1>0. /\ Live' = Live /\ modal' = modal \cup {w} /\ focus' = w
      /\ UNCHANGED <<ruled, space, focus_history, cycle_state, shown>>
  BY DEF DialogHint, Live, cycle
<1>1. WorldOK'
  BY <1>0 DEF IInv, WorldOK, DialogHint, pending
<1>2. Sane(Keyboard, space, Live, ruled)'
  BY <1>0 DEF IInv, Sane, FocusOK, HistoryOK, Keyboard
<1>3. FrozenStep /\ RangeStep
  BY <1>0, ThinnedSelf DEF FrozenStep, RangeStep, IInv, Sane, HistoryOK, Keyboard
<1>. QED BY <1>0, <1>1, <1>2, <1>3 DEF Kept, IInv, CycleOK

LEMMA DialogUnsetKeeps ==
    ASSUME IInv, NEW w \in Windows, DialogUnset(w)
    PROVE  Kept
<1>0. /\ Live' = Live /\ modal' = modal \ {w} /\ w \in Live /\ w \in space
      /\ UNCHANGED <<ruled, space, focus, focus_history, cycle_state, shown>>
  BY DEF DialogUnset, Live, cycle, keyboard, IInv, WorldOK
<1>1. WorldOK'
  BY <1>0 DEF IInv, WorldOK, DialogUnset, pending
<1>2. Sane(Keyboard, space, Live, ruled)'
  BY <1>0 DEF IInv, Sane, FocusOK, HistoryOK, Keyboard
<1>3. FrozenStep /\ RangeStep
  BY <1>0, ThinnedSelf DEF FrozenStep, RangeStep, IInv, Sane, HistoryOK, Keyboard
<1>. QED BY <1>0, <1>1, <1>2, <1>3 DEF Kept, IInv, CycleOK

\* Input.
LEMMA FocusWindowKeeps ==
    ASSUME IInv, NEW w \in Windows, NEW leave \in BOOLEAN, FocusWindow(w, leave)
    PROVE  Kept
<1> DEFINE S == IF leave THEN {active_output} ELSE {}
<1>0. /\ w \in Live \cap space /\ WorldOK /\ ExitFullscreen(S) /\ Live' = Live
      /\ UNCHANGED <<status, dying, ruled, modal, pending, active_output, cycle>>
      /\ active_output \in Outputs
  BY DEF FocusWindow, IInv, WorldOK, Live, life
<1>1. /\ space \subseteq space' /\ space' \subseteq Windows
      /\ fullscreen' \in [Outputs -> Windows \cup {NoWindow}]
  BY <1>0, ExitKeeps
<1>2. WorldOK'
  BY <1>0, <1>1 DEF WorldOK, pending
<1>3. PICK k \in RaiseAndFocus(Keyboard, {w}, space') \cup {SetFocus(Keyboard, w, space')} :
        SetKeyboard(k)
  BY DEF FocusWindow
<1>4. /\ Keyboard.history = focus_history /\ Sane(Keyboard, space', Live, ruled)
      /\ HistoryOK(Keyboard.history, space', Live, ruled)
  <2>1. Sane(Keyboard, space', Live, ruled)
    BY <1>1, SaneElsewhere DEF IInv
  <2>. QED BY <2>1 DEF Sane, Keyboard
<1>5. Focusable(w, space', Live, ruled)
  BY <1>0, <1>1 DEF Focusable, FocusOK
<1>6. Sane(k, space', Live, ruled) /\ (cycle_state # 0 => k.history = focus_history)
  <2>1. \A u \in {w} : Focusable(u, space', Live, ruled)
    BY <1>5
  <2>2. CASE k \in RaiseAndFocus(Keyboard, {w}, space')
    BY <1>1, <1>4, <2>1, <2>2, RaiseIsSane
  <2>3. CASE k = SetFocus(Keyboard, w, space')
    BY <1>1, <1>4, <1>5, <2>3, SetFocusIsSane
  <2>. QED BY <1>3, <2>2, <2>3
<1>. QED BY <1>0, <1>2, <1>3, <1>6, KeyboardStep DEF Kept

LEMMA FocusElsewhereKeeps ==
    ASSUME IInv, NEW f \in {Other, NoWindow}, FocusElsewhere(f)
    PROVE  Kept
<1>0. /\ Live' = Live /\ focus' = f
      /\ UNCHANGED <<ruled, modal, space, focus_history, cycle_state, shown>>
  BY DEF FocusElsewhere, Live, cycle, life
<1>1. WorldOK'
  BY <1>0 DEF IInv, WorldOK, FocusElsewhere, pending, life
<1>2. Sane(Keyboard, space, Live, ruled)'
  BY <1>0, WindowStageAssumption DEF IInv, Sane, FocusOK, HistoryOK, Keyboard
<1>3. FrozenStep /\ RangeStep
  BY <1>0, ThinnedSelf DEF FrozenStep, RangeStep, IInv, Sane, HistoryOK, Keyboard
<1>. QED BY <1>0, <1>1, <1>2, <1>3 DEF Kept, IInv, CycleOK

LEMMA RefocusHeadKeeps ==
    ASSUME IInv, RefocusHead
    PROVE  Kept
<1>0. /\ Live' = Live /\ UNCHANGED <<life, ruled, modal, space, pending, fullscreen, active_output, cycle>>
  BY DEF RefocusHead, Live, life
<1>1. WorldOK' /\ space \in SUBSET Windows
  BY <1>0 DEF IInv, WorldOK, pending, life
<1>2. /\ Keyboard.history = focus_history /\ Sane(Keyboard, space, Live, ruled)
      /\ HistoryOK(focus_history, space, Live, ruled)
  BY DEF Keyboard, IInv, Sane
<1>3. CASE focus_history = <<>>
  <2>1. NoWindow \notin space
    BY <1>1, WindowStageAssumption
  <2>2. SetFocus(Keyboard, NoWindow, space) = [focus |-> NoWindow, history |-> focus_history]
    BY <1>2, <2>1 DEF SetFocus
  <2>3. SetKeyboard(SetFocus(Keyboard, NoWindow, space))
    BY <1>3, <2>2 DEF RefocusHead, SetKeyboard
  <2>4. Focusable(NoWindow, space, Live, ruled)
    BY <1>1, WindowStageAssumption DEF Focusable, FocusOK, IInv, WorldOK
  <2>5. /\ Sane(SetFocus(Keyboard, NoWindow, space), space, Live, ruled)
        /\ cycle_state # 0 => SetFocus(Keyboard, NoWindow, space).history = focus_history
    BY <1>1, <1>2, <2>4, SetFocusIsSane
  <2>. QED BY <1>0, <1>1, <2>3, <2>5, KeyboardStep DEF Kept
<1>4. CASE focus_history # <<>>
  <2>1. Head(focus_history) \in Members(focus_history) /\ Members(focus_history) \subseteq Windows
    BY <1>2, <1>4 DEF HistoryOK, Members
  <2>2. Focusable(Head(focus_history), space, Live, ruled)
    BY <1>2, <2>1 DEF Focusable, FocusOK, HistoryOK
  <2>3. /\ Sane(SetFocus(Keyboard, Head(focus_history), space), space, Live, ruled)
        /\ cycle_state # 0 => SetFocus(Keyboard, Head(focus_history), space).history = focus_history
    BY <1>1, <1>2, <2>2, SetFocusIsSane
  <2>4. SetKeyboard(SetFocus(Keyboard, Head(focus_history), space))
    BY <1>4 DEF RefocusHead
  <2>. QED BY <1>0, <1>1, <2>3, <2>4, KeyboardStep DEF Kept
<1>. QED BY <1>3, <1>4

LEMMA ToggleKeeps ==
    ASSUME IInv, ToggleFullscreen \/ \E o \in Outputs : ExitFullscreenOn(o) \/ SwitchOutput(o)
    PROVE  Kept
<1>0. /\ Live' = Live /\ WorldOK /\ UNCHANGED <<status, dying, ruled, modal, pending, keyboard, cycle>>
      /\ active_output' \in Outputs
  BY DEF ToggleFullscreen, ExitFullscreenOn, SwitchOutput, Live, life, IInv, WorldOK
<1>1. \/ \E S \in SUBSET Outputs : ExitFullscreen(S)
      \/ \E w \in Windows : EnterFullscreen(w)
      \/ UNCHANGED <<fullscreen, space>>
  BY <1>0 DEF ToggleFullscreen, ExitFullscreenOn, SwitchOutput, WorldOK
<1>2. /\ space \subseteq space' /\ space' \subseteq Windows
      /\ fullscreen' \in [Outputs -> Windows \cup {NoWindow}]
  BY <1>0, <1>1, ExitKeeps, EnterKeeps DEF WorldOK
<1>3. WorldOK'
  BY <1>0, <1>2 DEF WorldOK, pending
<1>. QED BY <1>0, <1>2, <1>3, WorldStep DEF Kept

\* The cycle moves inside the history and focuses what is there.
LEMMA CycleWindowsKeeps ==
    ASSUME IInv, NEW backward \in BOOLEAN, CycleWindows(backward)
    PROVE  Kept
<1> DEFINE len == Len(focus_history)
           idx == IF cycle_state = 0 THEN 1 % len
                  ELSE IF backward THEN (cycle_state - 1 + len - 1) % len
                  ELSE cycle_state % len
           w == focus_history[idx + 1]
<1>0. /\ Live' = Live /\ WorldOK /\ ExitFullscreen({active_output}) /\ active_output \in Outputs
      /\ UNCHANGED <<status, dying, ruled, modal, pending, active_output, focus_history>>
  BY DEF CycleWindows, Live, life, IInv, WorldOK
<1>1. /\ space \subseteq space' /\ space' \subseteq Windows
      /\ fullscreen' \in [Outputs -> Windows \cup {NoWindow}]
  BY <1>0, ExitKeeps
<1>2. WorldOK'
  BY <1>0, <1>1 DEF WorldOK, pending
<1>3. /\ HistoryOK(focus_history, space, Live, ruled) /\ FocusOK(focus, space, Live)
      /\ cycle_state \in Nat /\ CycleOK
  BY DEF IInv, Sane, Keyboard, CycleOK
<1>4. CASE focus_history = <<>>
  <2>1. UNCHANGED <<focus, cycle>>
    BY <1>4 DEF CycleWindows
  <2>. QED BY <1>0, <1>1, <1>2, <2>1, WorldStep DEF Kept, keyboard
<1>5. CASE focus_history # <<>>
  <2>1. len \in Nat \ {0}
    BY <1>3, <1>5 DEF HistoryOK
  <2>2. idx \in 0..len - 1
    <3> HIDE DEF len
    <3>1. \A a \in Nat : a % len \in 0..len - 1
      BY <2>1
    <3>2. cycle_state # 0 => cycle_state - 1 + len - 1 \in Nat
      BY <1>3, <2>1
    <3>. QED BY <1>3, <3>1, <3>2
  <2>3. cycle_state' = idx + 1 /\ shown' = w /\ focus' \in RaiseTargets(w, space')
    BY <1>5 DEF CycleWindows
  <2> HIDE DEF idx
  <2>4. idx + 1 \in 1..len
    BY <2>1, <2>2
  <2>5. w \in Members(focus_history) /\ w \in Windows /\ (w \in X11 \/ w \in space \cap Live)
    BY <1>3, <2>4 DEF HistoryOK, Members
  <2> HIDE DEF w
  <2>6. focus' = w \/ focus' \in space' \cap modal
    BY <2>3 DEF RaiseTargets, ModalChildren
  <2>7. FocusOK(focus', space', Live)
    BY <1>1, <2>5, <2>6 DEF FocusOK
  <2>8. Sane(Keyboard, space, Live, ruled)'
    BY <1>0, <1>1, <1>3, <2>7 DEF Sane, Keyboard, FocusOK, HistoryOK
  <2>9. CycleOK'
    BY <2>1, <2>3, <2>4, <2>5, WindowStageAssumption DEF CycleOK
  <2>10. FrozenStep /\ RangeStep
    BY <1>0, <1>3, <2>1, <2>3, <2>4, ThinnedSelf DEF FrozenStep, RangeStep, HistoryOK
  <2>. QED BY <1>2, <2>8, <2>9, <2>10 DEF Kept, IInv
<1>. QED BY <1>4, <1>5

LEMMA EndCycleKeeps ==
    ASSUME IInv, EndCycle
    PROVE  Kept
<1>0. /\ Live' = Live /\ UNCHANGED <<life, space, pending, fullscreen, active_output, focus>>
      /\ UNCHANGED <<ruled, modal>> /\ cycle_state \in Nat \ {0} /\ cycle_state' = 0 /\ shown' = NoWindow
  BY DEF EndCycle, Live, life, IInv, CycleOK
<1>1. WorldOK'
  BY <1>0 DEF IInv, WorldOK, life, pending
<1>2. HistoryOK(focus_history, space, Live, ruled) /\ FocusOK(focus, space, Live)
  BY DEF IInv, Sane, Keyboard
<1>3. HistoryOK(focus_history', space, Live, ruled)
  <2>1. CASE cycle_state > Len(focus_history)
    BY <1>2, <2>1 DEF EndCycle
  <2>2. CASE ~(cycle_state > Len(focus_history))
    <3> DEFINE w == focus_history[cycle_state]
    <3>1. cycle_state \in 1..Len(focus_history)
      BY <1>0, <1>2, <2>2 DEF HistoryOK
    <3>2. w \in Members(focus_history) /\ w \in Windows
      BY <1>2, <3>1 DEF HistoryOK, Members
    <3>3. focus_history' = Pushed(focus_history, w)
      BY <2>2 DEF EndCycle
    <3> HIDE DEF w
    <3>4. /\ focus_history' \in Seq(Windows) /\ Distinct(focus_history')
          /\ Members(focus_history') = Members(focus_history) \cup {w}
      BY <1>2, <3>2, <3>3, PushedIs DEF HistoryOK
    <3>. QED BY <1>2, <3>2, <3>4 DEF HistoryOK
  <2>. QED BY <2>1, <2>2
<1>4. Sane(Keyboard, space, Live, ruled)'
  BY <1>0, <1>2, <1>3 DEF Sane, Keyboard, FocusOK, HistoryOK
<1>5. CycleOK' /\ FrozenStep /\ RangeStep
  <2>1. Len(focus_history') \in Nat
    BY <1>3 DEF HistoryOK
  <2>. QED BY <1>0, <2>1 DEF CycleOK, FrozenStep, RangeStep
<1>. QED BY <1>1, <1>4, <1>5 DEF Kept, IInv

LEMMA DropCycleKeeps ==
    ASSUME IInv, NEW lock \in BOOLEAN, DropCycle(lock)
    PROVE  Kept
<1>0. /\ Live' = Live /\ UNCHANGED <<life, space, pending, fullscreen, active_output, focus_history>>
      /\ UNCHANGED <<ruled, modal>> /\ cycle_state' = 0 /\ shown' = NoWindow
      /\ focus' \in {NoWindow, focus}
  BY DEF DropCycle, Live, life
<1>1. WorldOK'
  BY <1>0 DEF IInv, WorldOK, life, pending
<1>2. HistoryOK(focus_history, space, Live, ruled) /\ FocusOK(focus, space, Live)
  BY DEF IInv, Sane, Keyboard
<1>3. FocusOK(focus', space, Live)
  BY <1>0, <1>2, WindowStageAssumption DEF FocusOK
<1>4. Sane(Keyboard, space, Live, ruled)'
  BY <1>0, <1>2, <1>3 DEF Sane, Keyboard, FocusOK, HistoryOK
<1>5. CycleOK' /\ FrozenStep /\ RangeStep
  BY <1>0, <1>2 DEF CycleOK, FrozenStep, RangeStep, HistoryOK
<1>. QED BY <1>1, <1>4, <1>5 DEF Kept, IInv

\* The clamp after a removal.
LEMMA ClampIs ==
    ASSUME CycleOK, NEW h, Len(h) \in Nat
    PROVE  /\ ClampCycle(h) \in Nat /\ ClampCycle(h) <= Len(h)
           /\ cycle_state = 0 => ClampCycle(h) = 0
BY DEF ClampCycle, CycleOK

\* A window closes: the focus moves on while it is still mapped, to something else or to
\* a modal dialog, and then it is taken out of everything.
LEMMA ToplevelDestroyedKeeps ==
    ASSUME IInv, NEW w \in Windows, ToplevelDestroyed(w)
    PROVE  Kept
<1> DEFINE moves == focus \in {w, NoWindow} \/ (focus_history # <<>> /\ Head(focus_history) = w)
           k0 == Keyboard
           rest == space \ {w}
           lv == Live \ {w}
<1>0. /\ w \in Live \ X11 /\ WorldOK /\ Live \subseteq space /\ space \in SUBSET Windows
      /\ status' = [status EXCEPT ![w] = IF dying = w THEN "gone" ELSE "closed"]
      /\ dying' = NoWindow /\ space' = rest
      /\ pending_center' = pending_center \ {w} /\ pending_fit' = pending_fit \ {w}
      /\ pending_fullscreen' = pending_fullscreen \ {w}
      /\ UNCHANGED <<ruled, modal, active_output>>
      /\ \E o : fullscreen' = [p \in Outputs |-> IF p = o THEN NoWindow ELSE fullscreen[p]]
  BY DEF ToplevelDestroyed, IInv, WorldOK
<1>1. Live' = lv
  BY <1>0 DEF Live, WorldOK
<1>2. WorldOK'
  BY <1>0, <1>1 DEF WorldOK
<1>3. PICK k1 :
        /\ k1 \in IF moves THEN RaiseAndFocus(k0, Followers(w), space)
                                \cup {SetFocus(k0, NoWindow, space)}
                  ELSE {k0}
        /\ \E k2 \in LET k == [k1 EXCEPT !.history = Without(k1.history, w)]
                     IN  {k} \cup RaiseAndFocus(k, (rest \cap Live) \ ruled, rest) :
              /\ SetKeyboard(k2)
              /\ cycle_state' = ClampCycle(Without(k1.history, w))
              /\ shown' = IF cycle_state' = 0 THEN NoWindow ELSE shown
  BY DEF ToplevelDestroyed
<1>4. /\ Sane(k0, space, Live, ruled) /\ k0.history = focus_history /\ k0.focus = focus
      /\ HistoryOK(k0.history, space, Live, ruled)
  BY DEF IInv, Keyboard, Sane
<1> HIDE DEF k0
<1>5. /\ Sane(k1, space, Live, ruled) /\ k1.focus \in lv \cup modal \cup X11 \cup {Other, NoWindow}
      /\ cycle_state # 0 => k1.history = focus_history
  <2>1. CASE moves /\ k1 \in RaiseAndFocus(k0, Followers(w), space)
    <3>1. Followers(w) \subseteq lv \cap space
      BY <1>0, WindowStageAssumption DEF Followers
    <3>2. \A u \in Followers(w) : Focusable(u, space, Live, ruled)
      BY <1>0, <3>1 DEF Focusable, FocusOK
    <3>3. /\ Sane(k1, space, Live, ruled) /\ k1.focus \in Followers(w) \cup modal
          /\ cycle_state # 0 => k1.history = k0.history
      <4>1. space \in SUBSET Windows /\ HistoryOK(k0.history, space, Live, ruled)
        BY <1>0, <1>4
      <4>2. k1 \in RaiseAndFocus(k0, Followers(w), space)
        BY <2>1
      <4>. QED BY <3>2, <4>1, <4>2, RaiseIsSane
    <3>. QED BY <1>4, <3>1, <3>3
  <2>2. CASE moves /\ k1 = SetFocus(k0, NoWindow, space)
    <3>1. Focusable(NoWindow, space, Live, ruled)
      BY <1>0, WindowStageAssumption DEF Focusable, FocusOK, WorldOK
    <3>2. /\ Sane(k1, space, Live, ruled) /\ k1.focus = NoWindow
          /\ cycle_state # 0 => k1.history = k0.history
      <4>1. space \in SUBSET Windows /\ HistoryOK(k0.history, space, Live, ruled)
        BY <1>0, <1>4
      <4>2. k1 = SetFocus(k0, NoWindow, space)
        BY <2>2
      <4>. QED BY <3>1, <4>1, <4>2, SetFocusIsSane
    <3>. QED BY <1>4, <3>2
  <2>3. CASE ~moves /\ k1 = k0
    <3>1. focus # w /\ FocusOK(focus, space, Live)
      BY <1>4, <2>3 DEF Sane
    <3>2. focus \in lv \cup modal \cup X11 \cup {Other, NoWindow}
      BY <3>1 DEF FocusOK
    <3>. QED BY <1>4, <2>3, <3>2
  <2>. QED BY <1>3, <2>1, <2>2, <2>3
<1> DEFINE h == Without(k1.history, w)
           k == [k1 EXCEPT !.history = h]
<1>6. HistoryOK(h, space, Live, ruled) /\ w \notin Members(h) /\ Thinned(h, k1.history)
  BY <1>5, WithoutIsOK DEF Sane
<1>7. PICK k2 :
        /\ k2 \in {k} \cup RaiseAndFocus(k, (rest \cap Live) \ ruled, rest)
        /\ SetKeyboard(k2)
        /\ cycle_state' = ClampCycle(h)
        /\ shown' = IF cycle_state' = 0 THEN NoWindow ELSE shown
  BY <1>3
<1>8. k = [focus |-> k1.focus, history |-> h]
  BY <1>5 DEF Sane
<1> HIDE DEF h
<1>9. HistoryOK(h, rest, lv, ruled) /\ FocusOK(k1.focus, rest, lv)
  <2>1. HistoryOK(h, rest, lv, ruled)
    BY <1>0, <1>6 DEF HistoryOK
  <2>2. FocusOK(k1.focus, space, Live)
    BY <1>5 DEF Sane
  <2>3. FocusOK(k1.focus, rest, lv)
    BY <1>0, <1>5, <2>2, WindowStageAssumption DEF FocusOK
  <2>. QED BY <2>1, <2>3
<1>10. Sane(k, rest, lv, ruled) /\ k.history = h
  BY <1>8, <1>9 DEF Sane
<1> HIDE DEF k
<1>11. Sane(k2, rest, lv, ruled) /\ (cycle_state # 0 => k2.history = h)
  <2>1. CASE k2 = k
    BY <1>10, <2>1
  <2>2. CASE k2 \in RaiseAndFocus(k, (rest \cap Live) \ ruled, rest)
    <3>1. \A u \in (rest \cap Live) \ ruled : Focusable(u, rest, lv, ruled)
      BY <1>0 DEF Focusable, FocusOK
    <3>2. rest \in SUBSET Windows /\ HistoryOK(k.history, rest, lv, ruled)
      BY <1>0, <1>9, <1>10
    <3> DEFINE S == (rest \cap Live) \ ruled
    <3>3. (\A u \in S : Focusable(u, rest, lv, ruled)) /\ k2 \in RaiseAndFocus(k, S, rest)
      BY <2>2, <3>1
    <3> HIDE DEF rest, lv, S
    <3>4. Sane(k2, rest, lv, ruled) /\ (cycle_state # 0 => k2.history = k.history)
      BY <3>2, <3>3, RaiseIsSane
    <3>. QED BY <1>10, <3>4
  <2>. QED BY <1>7, <2>1, <2>2
<1>12. Keyboard' = k2
  BY <1>7, <1>11 DEF Sane, SetKeyboard, Keyboard
<1>13. Sane(Keyboard, space, Live, ruled)'
  BY <1>0, <1>1, <1>11, <1>12 DEF Sane, FocusOK
<1>14. CycleOK /\ Len(h) \in Nat
  BY <1>6 DEF IInv, HistoryOK
<1>15. cycle_state' \in Nat /\ cycle_state' <= Len(h) /\ (cycle_state = 0 => cycle_state' = 0)
  BY <1>7, <1>14, ClampIs
<1>16. CycleOK'
  BY <1>7, <1>14, <1>15 DEF CycleOK
<1>17. focus_history' = k2.history /\ Len(k2.history) \in Nat
  BY <1>7, <1>11 DEF SetKeyboard, Sane, HistoryOK
<1>18. FrozenStep
  BY <1>5, <1>6, <1>11, <1>17 DEF FrozenStep
<1>19. RangeStep
  BY <1>11, <1>15, <1>17 DEF RangeStep
<1>. QED BY <1>2, <1>13, <1>16, <1>18, <1>19 DEF Kept, IInv

LEMMA SurfaceDestroyedKeeps ==
    ASSUME IInv, NEW w \in Windows, SurfaceDestroyed(w)
    PROVE  Kept
<1>0. /\ WorldOK /\ UNCHANGED <<ruled, modal, space, pending, fullscreen, active_output, focus>>
      /\ \/ status[w] = "live" /\ dying' = w /\ UNCHANGED status
         \/ status[w] = "closed" /\ status' = [status EXCEPT ![w] = "gone"] /\ UNCHANGED dying
      /\ focus_history' = Without(focus_history, w)
      /\ cycle_state' = ClampCycle(focus_history')
      /\ shown' = IF cycle_state' = 0 THEN NoWindow ELSE shown
  BY DEF SurfaceDestroyed, IInv
<1>1. Live' = Live
  BY <1>0 DEF Live, WorldOK
<1>2. WorldOK'
  BY <1>0, <1>1 DEF WorldOK, pending
<1>3. HistoryOK(focus_history, space, Live, ruled) /\ FocusOK(focus, space, Live) /\ CycleOK
  BY DEF IInv, Sane, Keyboard
<1>4. HistoryOK(focus_history', space, Live, ruled) /\ Thinned(focus_history', focus_history)
  BY <1>0, <1>3, WithoutIsOK
<1>5. Sane(Keyboard, space, Live, ruled)'
  BY <1>0, <1>1, <1>3, <1>4 DEF Sane, Keyboard, FocusOK, HistoryOK
<1>6. /\ cycle_state' \in Nat /\ cycle_state' <= Len(focus_history')
      /\ cycle_state = 0 => cycle_state' = 0
  BY <1>0, <1>3, <1>4, ClampIs DEF HistoryOK
<1>7. CycleOK' /\ FrozenStep /\ RangeStep
  BY <1>0, <1>3, <1>4, <1>6 DEF CycleOK, FrozenStep, RangeStep
<1>. QED BY <1>2, <1>5, <1>7 DEF Kept, IInv

LEMMA X11UnmappedKeeps ==
    ASSUME IInv, NEW w \in Windows, X11Unmapped(w)
    PROVE  Kept
<1>0. /\ WorldOK /\ w \in X11 \cap Live /\ status' = [status EXCEPT ![w] = "closed"]
      /\ space' = space \ {w} /\ UNCHANGED <<dying, ruled, modal, pending, fullscreen, active_output, cycle>>
  BY DEF X11Unmapped, IInv
<1>1. Live' = Live \ {w}
  BY <1>0 DEF Live, WorldOK
<1>2. WorldOK' /\ space' \in SUBSET Windows
  BY <1>0, <1>1 DEF WorldOK, pending
<1>3. /\ Sane(Keyboard, space', Live', ruled) /\ Keyboard.history = focus_history
      /\ HistoryOK(Keyboard.history, space', Live', ruled)
  BY <1>0, <1>1 DEF IInv, Sane, FocusOK, HistoryOK, Keyboard
<1>4. PICK k \in {Keyboard} \cup RaiseAndFocus(Keyboard, (space' \cap Live) \ ruled, space') :
        SetKeyboard(k)
  BY DEF X11Unmapped
<1>5. \A u \in (space' \cap Live) \ ruled : Focusable(u, space', Live', ruled)
  BY <1>0, <1>1 DEF WorldOK, Focusable, FocusOK
<1>6. Sane(k, space', Live', ruled) /\ (cycle_state # 0 => k.history = focus_history)
  BY <1>2, <1>3, <1>4, <1>5, RaiseIsSane
<1>. QED BY <1>0, <1>2, <1>4, <1>6, KeyboardStep DEF Kept

LEMMA RefreshSpaceKeeps ==
    ASSUME IInv, RefreshSpace
    PROVE  Kept
<1>0. /\ Live' = Live /\ UNCHANGED <<life, ruled, modal, pending, fullscreen, active_output, keyboard, cycle>>
      /\ space \cap Live \subseteq space' /\ space' \subseteq space
  BY DEF RefreshSpace, Live, life
<1>1. WorldOK'
  BY <1>0 DEF IInv, WorldOK, life, pending
<1>. QED BY <1>0, <1>1, WorldStep DEF Kept

-----------------------------------------------------------------------------
(* The theorems *)

LEMMA InitIInv == Init => IInv
<1> SUFFICES ASSUME Init PROVE IInv
  OBVIOUS
<1>1. WorldOK
  BY DEF Init, WorldOK, Live
<1>2. Sane(Keyboard, space, Live, ruled)
  BY WindowStageAssumption DEF Init, Sane, Keyboard, FocusOK, HistoryOK, Distinct, Members
<1>. QED BY <1>1, <1>2 DEF Init, IInv, CycleOK

LEMMA NextKeeps ==
    ASSUME IInv, [Next]_vars
    PROVE  Kept
<1>1. ASSUME NEW w \in Windows,
             \/ NewToplevel(w) \/ X11Map(w) \/ CommitUnsized(w) \/ CommitSized(w)
             \/ FullscreenRequest(w) \/ UnfullscreenRequest(w)
             \/ MaximizeRequest(w) \/ UnmaximizeRequest(w)
             \/ DialogHint(w) \/ DialogUnset(w)
      PROVE  Kept
  BY <1>1, NewToplevelKeeps, X11MapKeeps, CommitUnsizedKeeps, CommitSizedKeeps,
     FullscreenRequestKeeps, UnfullscreenRequestKeeps, MaximizeRequestKeeps,
     UnmaximizeRequestKeeps, DialogHintKeeps, DialogUnsetKeeps
<1>2. ASSUME NEW w \in Windows,
             \/ \E leave \in BOOLEAN : FocusWindow(w, leave)
             \/ ToplevelDestroyed(w) \/ SurfaceDestroyed(w) \/ X11Unmapped(w)
      PROVE  Kept
  BY <1>2, FocusWindowKeeps, ToplevelDestroyedKeeps, SurfaceDestroyedKeeps, X11UnmappedKeeps
<1>3. ASSUME (\E f \in {Other, NoWindow} : FocusElsewhere(f)) \/ RefocusHead \/ ToggleFullscreen
               \/ (\E o \in Outputs : ExitFullscreenOn(o) \/ SwitchOutput(o))
      PROVE  Kept
  BY <1>3, FocusElsewhereKeeps, RefocusHeadKeeps, ToggleKeeps
<1>4. ASSUME (\E back \in BOOLEAN : CycleWindows(back)) \/ EndCycle
               \/ (\E lock \in BOOLEAN : DropCycle(lock)) \/ RefreshSpace
      PROVE  Kept
  BY <1>4, CycleWindowsKeeps, EndCycleKeeps, DropCycleKeeps, RefreshSpaceKeeps
<1>5. CASE UNCHANGED vars
  <2>1. /\ Live' = Live /\ UNCHANGED <<status, dying, space, ruled, modal, pending, fullscreen,
                                       active_output, keyboard, cycle>>
    BY <1>5 DEF vars, Live, life
  <2>2. WorldOK'
    BY <2>1 DEF IInv, WorldOK, pending
  <2>. QED BY <2>1, <2>2, WorldStep DEF Kept
<1>. QED BY <1>1, <1>2, <1>3, <1>4, <1>5 DEF Next

\* The invariant behind the properties below.
THEOREM Invariance == Spec => []IInv
<1>1. IInv /\ [Next]_vars => IInv'
  BY NextKeeps DEF Kept
<1>. QED BY InitIInv, <1>1, PTL DEF Spec

\* Every variable keeps its type; the focus history (state/navigation.rs) is a list
\* without repetition, and the cycle shows a window exactly while it goes on.
THEOREM TypeCorrect == Spec => []TypeOK
<1>1. IInv => TypeOK
  BY IInvImplies
<1>. QED BY Invariance, <1>1, PTL

\* A Wayland window in the focus history is alive and mapped, and no widget is listed
\* once its rule is applied: update_focus_history, toplevel_destroyed, destroyed and the
\* widget rule of handlers/compositor.rs, in any order.
THEOREM HistoryStaysMapped == Spec => []HistoryIsMapped
<1>1. IInv => HistoryIsMapped
  BY IInvImplies
<1>. QED BY Invariance, <1>1, PTL

\* Keyboard focus is never left on a Wayland window that has closed and is no modal
\* dialog: raise_and_focus and its callers, toplevel_destroyed above all.
THEOREM FocusStaysMapped == Spec => []FocusIsMapped
<1>1. IInv => FocusIsMapped
  BY IInvImplies
<1>. QED BY Invariance, <1>1, PTL

\* While an Alt-Tab cycle goes on windows only leave the focus history, in every step:
\* focus_changed looks at cycle_state before it updates the history.
THEOREM HistoryStaysFrozen == Spec => HistoryFrozen
<1>1. IInv /\ [Next]_vars =>
        [cycle_state # 0 /\ cycle_state' # 0 => Thinned(focus_history', focus_history)]_vars
  BY NextKeeps DEF Kept, FrozenStep
<1>. QED BY Invariance, <1>1, PTL DEF Spec, HistoryFrozen

\* The index of the cycle stays inside the history in every step but the widget rule's:
\* cycle_windows, and the clamps in toplevel_destroyed and destroyed.
THEOREM CycleInRange == Spec => CycleStaysInRange
<1>1. IInv /\ [Next]_vars =>
        [cycle_state <= Len(focus_history) /\ ruled' = ruled =>
           cycle_state' <= Len(focus_history')]_vars
  BY NextKeeps DEF Kept, RangeStep
<1>. QED BY Invariance, <1>1, PTL DEF Spec, CycleStaysInRange
=============================================================================
