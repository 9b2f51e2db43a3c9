-------------------------------- MODULE Tiling --------------------------------
(***************************************************************************)
(* Workspaces and forced tiling (state/tile.rs, state/workspace.rs): which *)
(* workspace a window is a member of, the tile it has there, where it is   *)
(* on the canvas, and how tiles are split, merged and rebuilt when windows *)
(* come, go, float, become fullscreen or are dragged.                      *)
(*                                                                         *)
(* The pointer, the camera and the stacking order are left out: what the   *)
(* code reads from them (the workspace under the pointer, the order of     *)
(* insertion, the tile to split, the half that is taken, whether the       *)
(* camera shows the active workspace) is any value they could give.  A     *)
(* tiled Wayland client takes the size it is configured with.  A window is *)
(* fullscreen on one output at most, X11 windows never are, and widgets    *)
(* are no part of Windows: WindowStage has them all.                       *)
(***************************************************************************)
EXTENDS Integers, FiniteSets, FiniteSetsExt

CONSTANTS
    Windows,      \* a window that goes never comes back
    X11,          \* windows of Xwayland
    Fixed,        \* X11 windows that x11_should_float: dialogs, menus, fixed sizes
    Dialogs,      \* Wayland windows that may become modal
    Workspaces,
    Zone,         \* WorkspaceState.rect
    Gap,          \* config.snap_gap, rounded
    MinTile,      \* the least width and height of a tile, 80 in the code
    Anywhere,     \* a place no tile rectangle describes
    NoWorkspace   \* None

Rect == [x : Int, y : Int, w : Nat, h : Nat]

ASSUME TilingAssumption ==
    /\ IsFiniteSet(Windows)
    /\ Fixed \subseteq X11 /\ X11 \cup Dialogs \subseteq Windows /\ X11 \cap Dialogs = {}
    /\ Zone \in [Workspaces -> Rect]
    /\ Gap \in Nat /\ MinTile \in Nat \ {0}
    /\ Anywhere \notin Rect
    /\ NoWorkspace \notin Workspaces

VARIABLES
    fresh,             \* windows that have not been mapped yet
    space,             \* the elements of the Space
    bound,             \* X11 windows whose wl_surface is known
    pending_center,    \* mapped, but without a sized commit so far
    modal,
    fullscreen,        \* windows that cover an output
    floating_windows,
    members,           \* WorkspaceState.windows
    tiles,             \* WorkspaceState.tile_rects
    tile_rects,        \* DriftWm::tile_rects
    place,             \* the tile a window was last put to; of a fullscreen window,
                       \* where it goes when it leaves fullscreen
    active_workspace

life == <<fresh, space, bound, pending_center, modal>>
layout == <<floating_windows, members, tiles, tile_rects, place, active_workspace>>
vars == <<life, fullscreen, layout>>

-----------------------------------------------------------------------------
(* Rectangles *)

AtLeast(a, b) == IF a > b THEN a ELSE b

\* workspace_tile_area
TileArea(v) ==
    [x |-> Zone[v].x + Gap, y |-> Zone[v].y + Gap,
     w |-> AtLeast(Zone[v].w - 2 * Gap, MinTile),
     h |-> AtLeast(Zone[v].h - 2 * Gap, MinTile)]

\* The second half starts where the first one ends.
SlipHalves(r) ==
    LET fw == AtLeast((r.w - Gap) \div 2, MinTile)
    IN  <<[r EXCEPT !.w = fw],
          [r EXCEPT !.x = r.x + fw, !.w = AtLeast(r.w - fw, MinTile)]>>

\* split_rect_for_new_window: along the longer side, with a gap between the halves.
Halves(r) ==
    LET fw == AtLeast((r.w - Gap) \div 2, MinTile)
        fh == AtLeast((r.h - Gap) \div 2, MinTile)
    IN  IF r.w >= r.h
        THEN <<[r EXCEPT !.w = fw],
               [r EXCEPT !.x = r.x + fw + Gap, !.w = AtLeast(r.w - fw - Gap, MinTile)]>>
        ELSE <<[r EXCEPT !.h = fh],
               [r EXCEPT !.y = r.y + fh + Gap, !.h = AtLeast(r.h - fh - Gap, MinTile)]>>

\* Side by side and equally high, or above each other and equally wide.
AreNeighbours(r, s) ==
    \/ /\ r.y = s.y /\ r.h = s.h
       /\ r.x + r.w + Gap = s.x \/ s.x + s.w + Gap = r.x
    \/ /\ r.x = s.x /\ r.w = s.w
       /\ r.y + r.h + Gap = s.y \/ s.y + s.h + Gap = r.y

\* The rectangle around two neighbours.
Merged(r, s) ==
    LET left   == IF r.x < s.x THEN r.x ELSE s.x
        top    == IF r.y < s.y THEN r.y ELSE s.y
    IN  [x |-> left, y |-> top,
         w |-> AtLeast(r.x + r.w, s.x + s.w) - left,
         h |-> AtLeast(r.y + r.h, s.y + s.h) - top]

\* The layouts of S in which w comes last: it splits the tile of any other window of a
\* layout in L and takes either half.
Splits(L, S, w) ==
    {[u \in S |-> IF u = w THEN Halves(l[a])[3 - k]
                  ELSE IF u = a THEN Halves(l[a])[k] ELSE l[u]] :
        l \in L, a \in S \ {w}, k \in 1..2}

\* What the loop of tile_workspace can build for the members S of v, in any order.
LayoutTable ==
    [v \in Workspaces |->
        LET Table[S \in SUBSET Windows] ==
              IF S = {} THEN {<<>>}
              ELSE IF Cardinality(S) = 1 THEN {[w \in S |-> TileArea(v)]}
              ELSE UNION {Splits(Table[S \ {w}], S, w) : w \in S}
        IN  Table]

Layouts(v, S) == {[w \in S |-> l[w]] : l \in LayoutTable[v][S]}

-----------------------------------------------------------------------------
(* Helpers.  A value t of the tiling state is threaded through handlers that    *)
(* change it several times.  An operator whose name starts with Slip is no part *)
(* of the model: it is the definition after it with a plausible bug, and shows  *)
(* that a property below notices that bug.                                      *)

\* The mapped windows that window_object_id knows: no X11 window without wl_surface.
Named(sp, bd) == sp \ (X11 \ bd)

\* The state with the windows sp named and the windows full covering outputs.
Current(sp, full) ==
    [named |-> sp, fullscreen |-> full, floating |-> floating_windows,
     members |-> members, tiles |-> tiles, rects |-> tile_rects, place |-> place,
     active |-> active_workspace]

Become(t) ==
    /\ fullscreen' = t.fullscreen
    /\ floating_windows' = t.floating
    /\ members' = t.members
    /\ tiles' = t.tiles
    /\ tile_rects' = t.rects
    /\ place' = t.place
    /\ active_workspace' = t.active

\* The states a key binding can find: any but toggle-fullscreen takes the window that
\* covers the active output out of fullscreen first.
AtKeyBinding ==
    {Current(Named(space, bound), fullscreen \ leave) :
        leave \in {{}} \cup {{w} : w \in fullscreen}}

\* FullscreenState outlives its window.
SlipUncovered(w) == fullscreen

\* fullscreen.remove(output), where w covers it.
Uncovered(w) == fullscreen \ {w}

Without(f, S) == [w \in DOMAIN f \ S |-> f[w]]

\* is_tiling_candidate
Candidates(t) == t.named \ (Fixed \cup modal \cup t.fullscreen \cup t.floating)

CentreIn(r, z) ==
    LET cx == r.x + r.w \div 2
        cy == r.y + r.h \div 2
    IN  cx \in z.x..(z.x + z.w - 1) /\ cy \in z.y..(z.y + z.h - 1)

\* workspace_for_window: where the centre of w lies.
Centres(t, w) ==
    IF t.place[w] = Anywhere THEN Workspaces \cup {NoWorkspace}
    ELSE LET in == {v \in Workspaces : CentreIn(t.place[w], Zone[v])}
         IN  IF in = {} THEN {NoWorkspace} ELSE in

\* workspace_for_window_id
MemberOf(t, w) == {v \in Workspaces : w \in t.members[v]}

\* The values of x.or(y): S holds those of x, others those of y.
Or(S, others) == (S \ {NoWorkspace}) \cup (IF NoWorkspace \in S THEN others ELSE {})

\* workspace_for_window_id(w).or(workspace_for_window(w))
Sources(t, w) == IF MemberOf(t, w) # {} THEN MemberOf(t, w) ELSE Centres(t, w)

\* purge_workspace_tile_state(w, true)
Purged(t, w) ==
    [t EXCEPT !.members = [v \in Workspaces |-> t.members[v] \ {w}],
              !.tiles = [v \in Workspaces |-> Without(t.tiles[v], {w})],
              !.rects = Without(t.rects, {w})]

\* The window is added without being removed elsewhere.
SlipAssigned(t, w, to) == [t EXCEPT !.members[to] = @ \cup {w}]

\* assign_window_to_workspace.  DriftWm::tile_rects is not told.
Assigned(t, w, to) ==
    [t EXCEPT !.members = [v \in Workspaces |-> IF v = to THEN t.members[v] \cup {w}
                                                ELSE t.members[v] \ {w}],
              !.tiles = [v \in Workspaces |-> Without(t.tiles[v], {w})]]

\* map_element and the configure for the tiles l: X11 windows are not resized.
Placed(pl, l) ==
    [w \in Windows |-> IF w \notin DOMAIN l THEN pl[w]
                       ELSE IF w \in X11 THEN Anywhere ELSE l[w]]

\* tile_workspace(v, assign): members that are no candidates leave every workspace,
\* unassigned windows join v if assign, and v is laid out anew.
Retiled(t, v, assign) ==
    LET cands == Candidates(t)
        fl    == t.floating \cap t.named
        kept  == [u \in Workspaces |-> t.members[u] \cap cands]
        loose == cands \ UNION {kept[u] : u \in Workspaces}
        now   == IF assign THEN [kept EXCEPT ![v] = @ \cup loose] ELSE kept
        left  == [u \in Workspaces |-> Without(t.tiles[u], Windows \ kept[u])]
    IN  IF cands = {}
        THEN {[t EXCEPT !.floating = fl, !.members[v] = {}, !.tiles[v] = <<>>]}
        ELSE {[t EXCEPT !.floating = fl, !.members = now, !.tiles = [left EXCEPT ![v] = l],
                        !.place = Placed(t.place, l)] :
                l \in Layouts(v, now[v])}

\* tile_workspace of the source, unless it is the target or None, then of the target.
RetiledBoth(t, source, target) ==
    UNION {Retiled(u, target, FALSE) :
             u \in IF source \in {target, NoWorkspace} THEN {t}
                   ELSE Retiled(t, source, FALSE)}

\* tile_windows: unassigned windows join the workspace that becomes active, unless
\* neither the pointer nor the camera is in one.
TileWindows(t) ==
    {t} \cup UNION {Retiled([t EXCEPT !.active = v], v, TRUE) : v \in Workspaces}

\* The largest neighbours of the rectangle r among the tiles of v.
Siblings(t, v, r) ==
    LET near == {w \in DOMAIN t.tiles[v] : AreNeighbours(t.tiles[v][w], r)}
        area(w) == t.tiles[v][w].w * t.tiles[v][w].h
    IN  {w \in near : \A u \in near : area(u) <= area(w)}

\* merge_removed_tile_into_sibling(v, r), with s for the sibling, and
\* apply_workspace_tile_rects(v).
MergedInto(t, v, r, s) ==
    LET m == Merged(t.tiles[v][s], r)
        u == [t EXCEPT !.tiles[v][s] = m,
                       !.rects = [w \in DOMAIN t.rects \cup {s} |->
                                     IF w = s THEN m ELSE t.rects[w]]]
    IN  [u EXCEPT !.place = Placed(@, Without(u.tiles[v], Windows \ Candidates(u)))]

\* What is left is laid out anew only if the window had a tile and no sibling.
SlipRefilled(t, v, w) ==
    IF w \notin DOMAIN tiles[v] THEN Retiled(t, v, FALSE)
    ELSE {t} \cup {MergedInto(t, v, tiles[v][w], s) : s \in Siblings(t, v, tiles[v][w])}

\* retile_after_window_unmap of w, a member of v before it was purged from t: a
\* neighbour takes its tile if there is one, or v is laid out anew.
Refilled(t, v, w) ==
    IF w \in DOMAIN tiles[v] /\ Siblings(t, v, tiles[v][w]) # {}
    THEN {MergedInto(t, v, tiles[v][w], s) : s \in Siblings(t, v, tiles[v][w])}
    ELSE Retiled(t, v, FALSE)

-----------------------------------------------------------------------------
(* Windows come and go *)

Init ==
    /\ fresh = Windows
    /\ space = {} /\ bound = {} /\ pending_center = {} /\ modal = {}
    /\ fullscreen = {} /\ floating_windows = {}
    /\ members = [v \in Workspaces |-> {}]
    /\ tiles = [v \in Workspaces |-> <<>>]
    /\ tile_rects = <<>>
    /\ place = [w \in Windows |-> Anywhere]
    /\ active_workspace \in Workspaces          \* 1 in the code

\* new_toplevel: mapped at the pointer before its size is known.
NewToplevel(w) ==
    /\ w \in fresh \ X11
    /\ fresh' = fresh \ {w}
    /\ space' = space \cup {w}
    /\ pending_center' = pending_center \cup {w}
    /\ UNCHANGED <<bound, modal, fullscreen, layout>>

\* prepare_new_tiled_window_spawn and tile_workspace_for_new_spawn: into the workspace
\* of the anchor, of the pointer or of the camera, if there is one.
Spawned(t, w) ==
    {t} \cup UNION {Retiled([Assigned(t, w, v) EXCEPT !.active = v], v, FALSE) :
                       v \in Workspaces}

\* The fullscreen or fit request that waited for the first commit: none, fit, or
\* fullscreen in place of what covers the active output.
Deferred(t, w) ==
    LET moved == [t EXCEPT !.place[w] = Anywhere]
    IN  {t, moved} \cup
        {[moved EXCEPT !.fullscreen = (@ \ leave) \cup {w}] :
            leave \in {{}} \cup {{u} : u \in t.fullscreen \ {w}}}

\* The first sized commit.  A window that is fit or fullscreen by then is not placed;
\* a dialog makes the active workspace be tiled if the camera shows it.
FirstCommit(w) ==
    LET t == [Current(Named(space, bound), fullscreen) EXCEPT !.place[w] = Anywhere]
    IN
    /\ w \in pending_center
    /\ pending_center' = pending_center \ {w}
    /\ \E placed \in IF w \in Candidates(t) THEN Spawned(t, w)
                     ELSE IF w \in fullscreen THEN {t} ELSE TileWindows(t) :
       \E u \in IF w \in fullscreen THEN {t} ELSE Deferred(placed, w) : Become(u)
    /\ UNCHANGED <<fresh, space, bound, modal>>

\* map_window_request.  The wl_surface may not be known yet.
X11Map(w) ==
    /\ w \in fresh \cap X11
    /\ fresh' = fresh \ {w}
    /\ space' = space \cup {w}
    /\ bound' \in {bound, bound \cup {w}}
    /\ LET t == Current(Named(space', bound'), fullscreen)
       IN  IF w \in Fixed
           THEN Become([t EXCEPT !.floating = @ \cup ({w} \cap bound')])
           ELSE \E u \in TileWindows(t) : Become(u)
    /\ UNCHANGED <<pending_center, modal>>

\* Xwayland associates the window with a wl_surface, or the wl_surface goes first.
X11Surface(w) ==
    /\ w \in space \cap X11
    /\ bound' = IF w \in bound THEN bound \ {w} ELSE bound \cup {w}
    /\ UNCHANGED <<fresh, space, pending_center, modal, fullscreen, layout>>

\* toplevel_destroyed, unmapped_window, destroyed_window.  The id of an X11 window
\* without wl_surface is not known: nothing is cleaned up for it.
Close(w) ==
    LET t == Purged([Current(Named(space', bound'), Uncovered(w))
                        EXCEPT !.floating = @ \ {w}], w)
    IN
    /\ w \in space
    /\ space' = space \ {w}
    /\ bound' = bound \ {w}
    /\ pending_center' = pending_center \ {w}
    /\ modal' = modal \ {w}
    /\ IF w \notin Named(space, bound) THEN UNCHANGED <<fullscreen, layout>>
       ELSE IF \A v \in Workspaces : w \notin members[v] THEN Become(t)
       ELSE \E v \in {u \in Workspaces : w \in members[u]} :
            \E u \in Refilled(t, v, w) : Become(u)
    /\ UNCHANGED fresh

\* dialog_hint_changed, and its withdrawal.
DialogHint(w) ==
    /\ w \in space \cap Dialogs
    /\ modal' = IF w \in modal THEN modal \ {w} ELSE modal \cup {w}
    /\ UNCHANGED <<fresh, space, bound, pending_center, fullscreen, layout>>

-----------------------------------------------------------------------------
(* Key bindings and requests *)

\* toggle_floating_window of a floating window: into the workspace it lies in.
ToTiled(w) ==
    \E t \in AtKeyBinding :
      /\ w \in t.named \cap t.floating
      /\ \E v \in Or(Centres(t, w), Workspaces) :
         \E u \in Retiled([Assigned(Purged(t, w), w, v) EXCEPT
                              !.floating = @ \ {w}, !.active = v], v, FALSE) :
            Become(u)
      /\ UNCHANGED life

\* toggle_floating_window of any other window: its workspace is laid out without it.
ToFloating(w) ==
    \E t \in AtKeyBinding :
      /\ w \in t.named \ t.floating
      /\ \E v \in Or(Sources(t, w), {active_workspace}) :
         \E u \in Retiled([Purged(t, w) EXCEPT !.floating = @ \cup {w}, !.active = v],
                          v, FALSE) :
            Become([u EXCEPT !.place[w] = Anywhere])
      /\ UNCHANGED life

\* move_window_to_workspace
MoveWindow(w, target) ==
    \E t \in AtKeyBinding :
      /\ w \in t.named
      /\ \E source \in Sources(t, w) :
         \E u \in RetiledBoth([Assigned(Purged(t, w), w, target) EXCEPT
                                  !.floating = @ \ {w}, !.active = target,
                                  !.place[w] = Anywhere], source, target) :
            Become(u)
      /\ UNCHANGED life

\* The windows ids, floating or not, join v.  The workspaces they leave are not laid
\* out anew.
Gathered(t, v, ids) ==
    [t EXCEPT !.active = v, !.floating = @ \ ids,
              !.members = [x \in Workspaces |-> IF x = v THEN t.members[x] \cup ids
                                                ELSE t.members[x] \ ids],
              !.tiles = [x \in Workspaces |-> Without(t.tiles[x], ids)]]

\* tile_current_workspace_windows: what has its centre in v.
TileCurrent(v) ==
    \E t \in AtKeyBinding :
    \E ids \in SUBSET {w \in t.named : v \in Centres(t, w)} :
      /\ \A w \in t.named : Centres(t, w) = {v} => w \in ids
      /\ IF ids = {} THEN Become([t EXCEPT !.active = v])
         ELSE \E u \in Retiled(Gathered(t, v, ids), v, FALSE) : Become(u)
      /\ UNCHANGED life

\* activate_workspace, sync_active_workspace_from_pointer
Activate(v) ==
    /\ \E t \in AtKeyBinding : Become([t EXCEPT !.active = v])
    /\ UNCHANGED life

\* enter_fullscreen: what covers the active output leaves.  When w leaves again it
\* has the size it had before it was tiled.
EnterFullscreen(w) ==
    /\ w \in space \ (X11 \cup fullscreen)
    /\ \E leave \in {{}} \cup {{u} : u \in fullscreen} :
         fullscreen' = (fullscreen \ leave) \cup {w}
    /\ place' = [place EXCEPT ![w] = Anywhere]
    /\ UNCHANGED <<life, floating_windows, members, tiles, tile_rects, active_workspace>>

ExitFullscreen(w) ==
    /\ w \in fullscreen
    /\ fullscreen' = Uncovered(w)
    /\ UNCHANGED <<life, layout>>

\* A drag on its way, a nudge, a resize, fit, unfit.
Displace(w) ==
    /\ w \in space \ fullscreen
    /\ place[w] # Anywhere
    /\ place' = [place EXCEPT ![w] = Anywhere]
    /\ UNCHANGED <<life, fullscreen, floating_windows, members, tiles, tile_rects,
                   active_workspace>>

\* snap_window_to_existing_tile: where to, if w has a tile.
Snapped(t, w) ==
    IF w \in DOMAIN t.rects THEN {t.rects[w]}
    ELSE {t.tiles[v][w] : v \in {u \in Workspaces : w \in DOMAIN t.tiles[u]}}

\* The release of a move grab with the camera on the active workspace,
\* reconcile_moved_tiled_window.  The windows of a cluster follow one by one.
Release(w) ==
    LET t == Current(Named(space, bound), fullscreen)
    IN
    /\ w \in Candidates(t)
    /\ \E source \in IF MemberOf(t, w) = {} THEN {NoWorkspace} ELSE MemberOf(t, w) :
       \E target \in Or(Or(Centres(t, w), {source}), {active_workspace}) :
          IF source = target /\ Snapped(t, w) # {}
          THEN \E r \in Snapped(t, w) : Become([t EXCEPT !.place = Placed(@, [x \in {w} |-> r])])
          ELSE \E u \in RetiledBoth([(IF source = target THEN t ELSE Assigned(t, w, target))
                                        EXCEPT !.active = target], source, target) :
                  Become(u)
    /\ UNCHANGED life

Next ==
    \/ \E w \in Windows :
         \/ NewToplevel(w)
         \/ FirstCommit(w)
         \/ X11Map(w)
         \/ X11Surface(w)
         \/ Close(w)
         \/ DialogHint(w)
         \/ ToTiled(w)
         \/ ToFloating(w)
         \/ \E v \in Workspaces : MoveWindow(w, v)
         \/ EnterFullscreen(w)
         \/ ExitFullscreen(w)
         \/ Displace(w)
         \/ Release(w)
    \/ \E v \in Workspaces : TileCurrent(v) \/ Activate(v)

Spec == Init /\ [][Next]_vars

-----------------------------------------------------------------------------
(* Properties *)

\* State, rectangles and memberships have their types; place is a tile only of windows
\* on the canvas that do not cover an output.
TypeOK ==
    /\ fresh \subseteq Windows /\ space \subseteq Windows \ fresh
    /\ bound \subseteq space \cap X11
    /\ pending_center \subseteq space \ X11
    /\ modal \subseteq space \cap Dialogs
    /\ fullscreen \subseteq space \ X11
    /\ floating_windows \subseteq Windows
    /\ members \in [Workspaces -> SUBSET Windows]
    /\ DOMAIN tiles = Workspaces
    /\ \A v \in Workspaces : /\ DOMAIN tiles[v] \subseteq Windows
                             /\ \A w \in DOMAIN tiles[v] : tiles[v][w] \in Rect
    /\ DOMAIN tile_rects \subseteq Windows
    /\ \A w \in DOMAIN tile_rects : tile_rects[w] \in Rect
    /\ DOMAIN place = Windows
    /\ \A w \in Windows : place[w] \in Rect \cup {Anywhere}
    /\ active_workspace \in Workspaces

\* Assigning, moving, dropping and forcing windows into workspaces leaves each in one
\* workspace at most, and a workspace has tiles for its own windows only.
OneWorkspace ==
    /\ \A u, v \in Workspaces : u # v => members[u] \cap members[v] = {}
    /\ \A v \in Workspaces : DOMAIN tiles[v] \subseteq members[v]

\* A floating window is in no workspace: no layout reserves a tile for it.
FloatingIsUntiled == \A v \in Workspaces : floating_windows \cap members[v] = {}

\* A workspace never holds a Wayland window that is gone, however it went: closed
\* before its first commit, while fullscreen, modal or floating, or in another
\* workspace than it is drawn in.
MembersAreMapped == \A v \in Workspaces : members[v] \subseteq space \cup X11

Inside(r, s) ==
    /\ s.x <= r.x /\ r.x + r.w <= s.x + s.w
    /\ s.y <= r.y /\ r.y + r.h <= s.y + s.h

\* With a gap between them.
Apart(r, s) ==
    \/ r.x + r.w + Gap <= s.x \/ s.x + s.w + Gap <= r.x
    \/ r.y + r.h + Gap <= s.y \/ s.y + s.h + Gap <= r.y

\* The longer side of r has room for two of the least tiles and a gap.
Splittable(r) == AtLeast(r.w, r.h) >= 2 * MinTile + Gap

\* Zones are large enough: whichever windows are placed, in any order, the next one
\* finds no tile that it cannot split.  Below MinTile tiles stop to shrink and overlap.
Roomy ==
    \A v \in Workspaces : \A S \in (SUBSET Windows) \ {Windows} :
      \A l \in LayoutTable[v][S] : \A w \in S : Splittable(l[w])

\* Splitting, merging and the removal of windows keep the tiles of a workspace apart
\* from each other and within its area, if there is room.
TilesArePacked ==
    \A v \in Workspaces :
      /\ \A w \in DOMAIN tiles[v] : Inside(tiles[v][w], TileArea(v))
      /\ \A w, u \in DOMAIN tiles[v] : w # u => Apart(tiles[v][w], tiles[v][u])

\* The area a rectangle takes with the gap to its right and below.
AreaOf(r) == (r.w + Gap) * (r.h + Gap)

\* What the tiles f of S take.
Areas(f, S) == MapThenSumSet(LAMBDA w : AreaOf(f[w]), S)

\* Packed tiles that add up to the area of the workspace leave nothing free.
Filled(v) ==
    members[v] = {} \/ Areas(tiles[v], DOMAIN tiles[v]) = AreaOf(TileArea(v))

\* The tiling candidates of the present state.
Tileable == Candidates(Current(Named(space, bound), fullscreen))

\* Every member of v has a tile, and the tiles fill v.
Full(v) == DOMAIN tiles[v] = members[v] /\ Filled(v)

\* The tiles fill v, with the Wayland windows of v that are not fullscreen or modal on
\* them.
Refits(v) == Full(v) /\ \A u \in (members[v] \cap Tileable) \ X11 : place[u] = tiles[v][u]

\* A member of v that is no candidate (it covers an output, is modal, or is an X11
\* window without wl_surface) goes without being closed or made to float:
\* tile_workspace of another workspace drops it from all of them.
Dropped(w) ==
    /\ w \notin Tileable
    /\ w \notin space \ space'
    /\ w \notin floating_windows'

\* When a window leaves a workspace that was full, the workspace is full again.  Three
\* steps that do not lay it out leave a hole: tile_current_workspace_windows elsewhere,
\* a first commit of a window that was tiled before it, and the layout of another
\* workspace while a member is fullscreen, modal or without wl_surface.
LeavingRefills ==
    [][\A v \in Workspaces : \A w \in members[v] \ members'[v] :
         Full(v) =>
           \/ Refits(v)'
           \/ FirstCommit(w)
           \/ \E u \in Workspaces \ {v} : TileCurrent(u)
           \/ Dropped(w)]_vars
=============================================================================
