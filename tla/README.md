# Verification of the driftwm compositor

TLA+ models of driftwm (this repository, a Smithay-based Wayland compositor that lays
its windows out on an infinite canvas), checked with TLC and proved about with TLAPS.
Every definition is translated from the Rust source; `PROJECT.json` maps each one to the
file and lines it stands for. Source paths below are relative to the crate's `src/`
directory.

- [The system](#the-system)
- [RenderLoop](#renderloop-the-frame-loop)
- [WindowStage](#windowstage-windows-focus-and-fullscreen)
- [Tiling](#tiling-workspaces-and-tiles)
- [Output protocols](#output-protocols-power-gamma-configuration-foreign-toplevels)
- [Capture](#capture-screencopy-and-image-copy)
- [Input](#input-keyboard-pointer-gestures)
- [Background](#background-chunk-caches-and-fallbacks)
- [What the runs show](#what-the-runs-show)
- [What is proved](#what-is-proved)
- [Disagreements with the code's own documentation](#disagreements-between-the-code-and-what-it-says-of-itself)
- [What is not modelled](#what-is-not-modelled)
- [Plan](#plan)

## The system

driftwm is one process with one calloop event loop (`main.rs`). Wayland requests, input
events, DRM events, timers, udev events, session (VT) events and the IPC socket are
sources of that loop. A source's handler runs to its end with `&mut DriftWm`; after the
ready sources have been dispatched the loop's callback runs `render_if_needed`,
`space.refresh()` and flushes the clients. Threads exist only to decode the tiles of a TIFF
background. What makes the system hard is therefore, but for those threads, not preemption
but *order*: what a handler queues for a later pass, what it assumes about the pass before,
and what a client, the kernel, a monitor or another handler does in between.

| component | state it keeps | operations | what makes it correct |
|---|---|---|---|
| Frame loop, udev backend (`backend/udev.rs`) | surfaces by CRTC, `redraws_needed`, `frames_pending`, `estimated_vblank_timers`, the device | vblank, estimated vblank, render pass, VT switch, hotplug | one frame in progress per CRTC and known to be; nothing dirty is forgotten; a blanked or removed panel holds nothing back |
| Output power and configuration (`handlers/mod.rs`, `state/reload.rs`, `protocols/output_power.rs`, `protocols/output_management.rs`) | `dpms_off_outputs`, `pending_dpms`, `pending_mode_changes`, `output_config_dirty` | set_mode, Apply, config reload | what was requested happens, in the order requested; no modeset over a flip |
| Window life cycle (`handlers/xdg_shell.rs`, `handlers/compositor.rs`, `handlers/x11.rs`) | the Space, `pending_center`, `pending_fit`, `pending_fullscreen`, applied rules | map, first commit, rules, requests, close, crash | a deferred request is taken up; a closed window leaves no trace |
| Focus and Alt-Tab (`state/navigation.rs`, `input/actions.rs`, `input/mod.rs`) | keyboard focus, `focus_history`, `cycle_state` | focus, cycle, commit or drop a cycle, follow after a close | focus and history name mapped windows; the history is frozen during a cycle; the window committed is the one shown |
| Fullscreen (`state/fullscreen.rs`) | `fullscreen` by output, saved geometry and camera | enter, exit, toggle | at most one window per output, one output per window; what was saved is what the client wanted |
| Fit (`state/fit.rs`) | `RestoreSize`, `FitState`, `pending_recenter` | fit, unfit, late commits | the restore size never drifts |
| Tiling and workspaces (`state/tile.rs`, `state/workspace.rs`) | `tile_rects` per workspace and global, `floating_windows`, anchors | first commit, float, move between workspaces, drop, unmap, lay out anew | a window is in one workspace; tiles of a workspace do not overlap; what a window leaves is filled again |
| Session lock (`handlers/mod.rs`) | `session_lock`, `lock_surfaces` | lock, new lock surface, unlock, hotplug | nothing but lock surfaces is shown or focused while locked |
| Capture (`protocols/screencopy.rs`, `protocols/image_copy_capture.rs`, `render/capture.rs`) | queues of managers, sessions, waiting and pending frames | capture, damage, cancel, output or window gone | a request gets at most one answer, true to its source, and none is given up without a reason; no unwrap fails |
| Foreign toplevels (`protocols/foreign_toplevel.rs`) | what each taskbar was told of each window and output | bind, stop, requests, the diff of a pass, hotplug | a handle for every listed window; one active window; a window is on every output |
| Gamma (`protocols/gamma_control.rs`, `backend/gamma.rs`) | ramp and owner by output | set, destroy, VT switch | exclusive owner; restored when it goes |
| Grabs (`grabs/`) | the active grab, edge pan, `ResizeState` | motion, button, window, output or client interrupts | no grab outlives its output; what pans stops with its drag |
| Keyboard (`input/keyboard.rs`) | `suppressed_keys`, `held_action`, `cycle_state` | press, release, repeat, VT switch, lock | a release is swallowed exactly when its press was; nothing repeats that is up |
| Pointer and gestures (`input/pointer.rs`, `input/gestures/`) | gesture state and output, pending middle click | button, motion, swipe, pinch, hold, lock, unplug | no button sticks; a gesture ends with its fingers; a locked or fullscreen viewport stays |
| Viewport (`state/animation.rs`, `canvas.rs`, `state/navigation.rs`) | camera, zoom, momentum by output | animate, home, overview | animations end; round trips of coordinates |
| Snap clusters, placement (`layout/`, `state/cluster_snapshot.rs`) | none (pure), snapshots | snap, cluster, auto-place | agreement with their definitions |
| Background and chunk loading (`render/background.rs`, `render/tile_chunks.rs`, `render/tile_chunks_tiff.rs`, `render/tile_worker.rs`, `render/shader_chunks.rs`) | caches, requests in flight, threads and their queue, the shared shader, the error bar | initialise, request, answer, bake, evict, drop | every request is in one place; bytes are those of the textures; loading ends; a fallback is reported |
| Persistence, IPC (`state/persistence.rs`, `ipc/`) | the state file, connections | save, load, commands | what is read back was saved |
| Rendering, decorations, cursor, configuration | caches, parsed values | draw, parse | out of scope (see below) |

How they interact: handlers change `DriftWm` directly and talk to the frame loop only
through sets it drains (`redraws_needed`, `pending_dpms`, `pending_mode_changes`,
`output_config_dirty`). `keyboard.set_focus` calls back into `focus_changed`, which edits
the focus history, so every operation that moves the focus edits the history too; tiling
re-targets the pointer and so may move the focus once more. Closing a window touches all
of the life cycle, focus, fullscreen and tiling. Unplugging a monitor touches the frame
loop, power, fullscreen, grabs, gestures, capture and what taskbars were told; locking the
session resets keyboard, pointer and gestures and hides windows and background.

The hazards this leaves, with their lines and the properties that cover them, are listed
in `PROJECT.json`.

## RenderLoop: the frame loop

`RenderLoop.tla` models `backend/udev.rs` with the power, output-configuration and reload
handlers that feed it. An output, its connector and its CRTC are one element of
`Outputs`. Actions:

| action | code |
|---|---|
| `ClientDamage`, `DamageAll`, `FocusOutput`, `StartAnimation`, `ToggleGlobalAnimation` | any handler that marks dirty, moves `focused_output`, starts an animation |
| `SetDpms` | `OutputPowerHandler::set_dpms` |
| `ApplyOutputConfig`, `ReloadConfig` | `apply_output_config`, `reload_config` |
| `VBlank`, `EstimatedVBlank` | `DrmEvent::VBlank`, the timer of `queue_estimated_vblank_timer` |
| `PauseSession`, `ActivateSession` | the session notifier |
| `HotplugConnect`, `HotplugDisconnect` | the connector events of `UdevEvent::Changed`, `teardown_output` |
| `RenderIfNeeded`, `TickWhilePaused` | `render_if_needed`, beyond its fast path |

`render_frame` is abstracted to its outcome: the frames of a set `ok` are queued, the
others were empty or failed and armed the timer. `inflight`, `late` and `blanked` are the
hardware's side: flips the kernel is to complete, flips that a clear cancelled but whose
event is still unread, panels blanked and not painted since. They exist so that the
properties can compare the code's bookkeeping with what really happens.

Assumptions about the device, which come from DRM and `DrmCompositor` and not from this
repository: an event is read in the pass after it was raised, so the event of a cancelled
flip precedes the next pass (`late = {}` in `RenderIfNeeded`); the compositor keeps one
frame behind the flip in progress and replaces it (`inflight` stops at 2); the vblanks of
flips queued before a VT switch never arrive (the code says so, udev.rs:671);
`compositor.clear` may fail (`StuckOn`).

A reconnected monitor is a new `Output` object. What the old one leaves in a set keyed by
`Output` matches nothing but still defeats the idle test; `orphan_redraw` and
`orphan_dpms` remember that and nothing else.

Properties: `FramesPendingIsFlips` (the code's view of flips is the truth),
`OneWaitPerCrtc`, `BlankedIsIdle`, `RoutingIsMapped`, `ModesetWaitsForFlip` (a queued mode
change is not applied over a flip), `DirtyOutputsArePainted` (liveness) and `TypeOK`,
which also says that `active_outputs`, maintained by hand in three places, is the set of
surfaces.

Two of them have an exception, because the code does. When an output is powered off and
`compositor.clear` fails, the failure is only warned about (udev.rs:204-209), the flip goes on
and its mark is removed all the same (line 211). So `FramesPendingIsFlips` says of every output
that a mark stands for a flip, and only of those whose clear cannot fail (those outside
`StuckOn`) that a flip has its mark and that there is one; and `ModesetWaitsForFlip` excepts a
flip whose mark a failed clear took (`MarkLostToClear`). Without the exceptions both fail: a
mode is then set over the flip that nothing counts, see the disagreements.

Fairness (`Fairness`): weak fairness of `RenderIfNeeded`, because calloop calls it after
every dispatch (`main.rs:306-327`); of `VBlank(o)`, because the kernel completes a flip it
accepted and the DRM descriptor is a source of the loop; of `EstimatedVBlank(o)`, because
a calloop timer fires. Nothing is assumed of clients, the user, the session or monitors;
so `DirtyOutputsArePainted` excuses a session that is switched away.

## WindowStage: windows, focus and fullscreen

`WindowStage.tla` models the life of windows: mapping, the first commit with the window
rule and the deferred requests, requests of clients and taskbars, modal dialogs, focus
and hover focus, Alt-Tab, fullscreen, closing, crashing, XWayland. A "keyboard value"
`[focus, history]` is threaded through handlers that move the focus several times, since
each `set_focus` edits the history through `focus_changed`.

| action | code |
|---|---|
| `NewToplevel`, `X11Map` | `new_toplevel`, `map_window_request` |
| `CommitUnsized`, `CommitSized` | `commit` while the window is in `pending_center` |
| `FullscreenRequest`, `UnfullscreenRequest`, `MaximizeRequest`, `UnmaximizeRequest` | the xdg-shell handlers; foreign-toplevel requests do the same |
| `DialogHint`, `DialogUnset` | `dialog_hint_changed` |
| `FocusWindow`, `FocusElsewhere`, `RefocusHead` | clicks, navigation, IPC, gestures; canvas click; layer destroyed, unlock |
| `ToggleFullscreen`, `ExitFullscreenOn`, `SwitchOutput` | actions, `exit_fullscreen_on`, pointer motion |
| `CycleWindows`, `EndCycle`, `DropCycle` | Alt-Tab, `end_cycle`, VT switch or lock |
| `ToplevelDestroyed`, `SurfaceDestroyed`, `X11Unmapped`, `RefreshSpace` | the two destruction handlers, x11.rs, `space.refresh()` |

A crash is `SurfaceDestroyed` before `ToplevelDestroyed`: resources of a dead client are
destroyed in any order, and `dying` holds everything else back until the second handler
has run. `shown` is not in the code: it remembers the window that the cycle navigated to.

Abstractions, each chosen so that the model does at least what the code can do:

- Positions are left out. Where the code picks a window by its place (under the pointer,
  nearest, related to the one that closed) the model picks any window it could pick.
- Dialogs nest one level deep (`WindowStageAssumption`).
- A window that `exit_fullscreen_on` maps again after its client died is not picked for
  focus in the rest of the same dispatch; `RefreshSpace` drops it.
- Lock and unlock appear with what they do to the cycle and the focus only.
- `focus_changed` is not called when the focus target stays the same; the role data of a
  toplevel (parent, modal) can still be read while `toplevel_destroyed` runs. Both are
  facts of smithay. Because of the second, `raise_and_focus` of a parent can find the
  modal dialog that is just being destroyed, so `FocusIsMapped` leaves modal dialogs out.
- `x11.rs` tells neither the history nor fullscreen when a window goes, so the properties
  about mapped windows speak of Wayland windows.
- The widget rule takes a window out of the history without clamping the cycle index;
  `CycleStaysInRange` covers every other step, and `CycleWindows` and `EndCycle` are
  modelled for an index past the end.

## Tiling: workspaces and tiles

`Tiling.tla` models `state/tile.rs` and the workspace part of `state/workspace.rs`: which
workspace a window is a member of, the tile it has there, the second table of rectangles
that `DriftWm` keeps beside those of the workspaces, and where the window was last put. A
"tiling state" (a record of all this, `Current`) is threaded through the handlers the way
the code threads `&mut self`; `Become` makes it the next state. What the code computes from
a tiling state (`Retiled`, `Refilled`, `RetiledBoth`) is a set of tiling states, one for
each choice the model leaves open.

| action | code |
|---|---|
| `NewToplevel`, `FirstCommit` | `new_toplevel`; `commit` with `prepare_new_tiled_window_spawn`, `tile_workspace_for_new_spawn`, the deferred fit or fullscreen |
| `X11Map`, `X11Surface` | `map_window_request`; the association with a `wl_surface` |
| `Close` | `prepare_tiled_window_unmap` and `retile_after_window_unmap`, from all of their callers |
| `DialogHint` | `dialog_hint_changed` |
| `ToTiled`, `ToFloating` | `toggle_floating_window` |
| `MoveWindow`, `TileCurrent`, `Activate` | `move_window_to_workspace`, `tile_current_workspace_windows`, `activate_workspace` |
| `EnterFullscreen`, `ExitFullscreen` | as far as tiling sees them: candidates and places |
| `Displace`, `Release` | a drag on its way; its end, `reconcile_moved_tiled_window` with `snap_window_to_existing_tile` |

`LayoutTable` holds every layout that `tile_workspace` can build for a set of members, and
`Splits` the last step of its loop: the order of insertion, the tile that is split and the
half that is taken depend on stacking, pointer and focus, so each is any. Abstractions
besides:

- The pointer, the camera and the stacking order are left out; where the code asks them
  which workspace is meant, the model takes any that they could answer, and "none".
- A tiled Wayland client takes the size it is configured with; an X11 window is moved and
  not resized, so its `place` is no tile.
- A window is fullscreen on one output at most, X11 windows never are, and widgets are not
  in `Windows`: `WindowStage` has all three.
- The id of an X11 window is its `wl_surface`: one without it (`Named`) is invisible to
  the whole module, and closing it cleans nothing up. `MembersAreMapped` therefore speaks
  of Wayland windows.
- The windows of a dragged cluster are released one at a time, by repeated `Release`.

Properties: `OneWorkspace`, `TilesArePacked` (tiles neither overlap nor leave their
workspace, with the gap between them), `LeavingRefills` (an action property: when a window
leaves a workspace that its tiles filled, the others fill it again and stand on their tiles)
and `TypeOK`; `FloatingIsUntiled` and `MembersAreMapped` are proved and need no run.
`LeavingRefills` makes three exceptions, for what the code does not do: in these steps a
window leaves a workspace that nothing lays out, and its hole stays.

- `tile_current_workspace_windows` takes windows out of other workspaces (`TileCurrent`).
- A first commit assigns a window that was tiled before it (`FirstCommit`).
- The layout of one workspace drops every window that is no tiling candidate from all of them
  (tile.rs:753): a member that is fullscreen or modal, or that lost its `wl_surface`, goes from
  its workspace when another one is laid out (`Dropped`).

How full a workspace is does not depend on such members otherwise: one that covers an output
keeps its tile, and the workspace it leaves by closing or floating must be filled again.

Both geometric properties need room. `split_rect_for_new_window` never makes a tile smaller
than `MinTile`, so a split of a tile that is too small gives two that overlap; the code has
no guard against it. `Roomy` says that this does not happen, whichever windows are placed in
any order; `MCTiling` has TLC evaluate it for the zones of the run.

## Output protocols: power, gamma, configuration, foreign toplevels

Three wlr protocols let clients own or change what the frame loop shows, and a fourth tells
taskbars which windows there are and on which outputs. Their common ground
is small: which outputs exist and whether the session is switched to. Each is a module of
its own, and `OutputProtocols` composes them: a request concerns one of them, while hotplug,
a VT switch and the render pass are one action of all four.

| module | state | requests | events |
|---|---|---|---|
| `OutputTopology` | `surfaces`, `placeholder`, `drm_active` | | `Plugged`, `Unplugged`, `Switched` |
| `OutputPower` (`protocols/output_power.rs`, its handler) | the output and last told mode of each power object, `dpms_off_outputs`, `pending_dpms` | `GetOutputPower`, `SetMode`, `DestroyPower`, `WakeOutputs` (any input) | `PowerDrained`, `PowerResumed`, `PowerForgets` |
| `Gamma` (`protocols/gamma_control.rs`, `backend/gamma.rs`) | owner by output, ramp queued while switched away, last blob; the ramp the CRTC shows | `GetGammaControl`, `SetGamma`, `FailControl`, `DestroyOwner`, `DestroyIdle` | `GammaPaused`, `GammaResumed`, `GammaUnplugged` |
| `ForeignToplevels` (`protocols/foreign_toplevel.rs`) | the windows, what was told of them last (`toplevels`), each watcher's handles and bound outputs | `WatchToplevels`, `StopWatching`, `WatcherGone`, `DestroyHandle`, `HandleRequest`, `BindOutput`, `ReleaseOutput` | `ToplevelsRefreshed`, `ForeignPlugged`, `ForeignUnplugged` |
| `OutputConfig` (`protocols/output_management.rs`, its handler, the mode queue) | what each output is set to, queued modes, `output_config_dirty`, the last broadcast, heads and configurations of clients | `BindManager`, `StopManager`, `Disconnected`, `ReleaseHead`, `CreateConfiguration`, `ConfigureHead`, `Apply`, `Test`, `DestroyConfiguration` | `ConfigReloaded`, `ConfigDrained`, `ConfigHotplug` |

`RenderLoop` has what becomes of a power or mode request in the frame loop; here it is the
clients' side: what they own, were told and may still do.

`lut` and `asked` (`Gamma`) are not in the code: the ramp that the CRTC shows and the one it
should show. `live`, `stale` and `orphaned` (`OutputConfig`) are the heads that a client
holds: of the last broadcast, older and finished, older and not finished.

Abstractions and assumptions:

- A serial is only compared with the current one, so `outdated` stands for it; it does not
  wrap. All that a head tells of an output is one value of `Settings`; which fields a
  configuration sets is chosen when it is applied.
- A client binds one manager at a time. A protocol error kills it (`Disconnected`).
- An `Output` that was unplugged or replaced is named by nobody any more. In the code the
  objects that refer to it are inert; here they are unused again.
- The kernel shows no ramp after a VT switch (backend/gamma.rs:140 says so), may refuse any
  request while the session is active, and may leave the ramp of an unplugged monitor on its
  CRTC. From then on `asked` is `Unknown`, until the next ramp is set.
- A `drm.activate` that fails leaves everything as it is (udev.rs:662-665).
- One `UdevEvent::Changed` brings one connector event or none (`Rescan`); more of them differ
  in that clients are told once instead of several times.
- The fast path of `render_if_needed` is left out: a pass may come at any time. In particular
  a title that changes without a commit is told by the pass that something else causes.
- Title, app id and states of a window are one value of `Looks`, and a change of it is told
  as a whole; in the code a title that disappears is not told. A `wl_output` that stands for
  a replaced `Output` is not followed.
- `dismissed` is history: the handles that a watcher destroyed itself.

Properties: `PowerIsTold` (each object was told the mode the code goes by, or a queued
transition will tell it), `ControlsOwnOutputs` and `GammaAsAsked` (owners and clients agree;
an active session shows the ramp asked for last, whatever happened while it was away),
`ToldIsCurrent` (the last broadcast is true or dirty), `OutdatedIsAnswered` and
`AnsweredIsInert` (a configuration of an older broadcast has been answered and can do nothing
to the outputs; the second is proved and needs no run), `HandlesAreTold` (a watcher has a
handle of every listed window unless it destroyed it, and of no other, showing what was told
last), `OneActivated` (wherever a refresh has got to, one window is active at most: the
"deactivate-before-activate ordering" of the code), `OutputsAreEntered` (which fails, see
below) and `TypeOK`.

`OutputsAreEntered` is checked under `FairSpec`: weak fairness of the render pass while the
session is switched to, for the reason given under RenderLoop.

## Capture: screencopy and image copy

`Screencopy` and `ImageCopy` model the two capture protocols over `CaptureSources` (outputs,
windows, what needs a redraw), and `Capture` composes them with the frame loop that serves
both after it has rendered an output (`render/capture.rs`), with unplugging, closing windows
and disconnecting clients.

| action | code |
|---|---|
| `CaptureOutput`, `CopyFrame`, `DestroyCopy`, `DestroyManager` | the requests and `destroyed` handlers of screencopy.rs |
| `CreateSession`, `DestroySession`, `CreateFrame`, `Capture`, `DestroyFrame` | those of image_copy_capture.rs; `CaptureFails`, `CaptureFirst` and `CaptureNext` are the ways a capture can go |
| `Render` | `render_screencopy`, `promote_waiting_frames`, `render_capture_frames`, `render_toplevel_captures`, `frame_done` |
| `Unplug`, `UnmapWindow`, `SurfaceGone`, `Damage` | `teardown_output`, `toplevel_destroyed` and `unmapped_window`, the end of the `wl_surface`, anything that makes an output dirty |
| `Disconnect` | the client exits, or a protocol error kills it |

`CaptureContract` is what a client is promised, stated without queues or sessions: a request
is answered at most once; it gets a picture only while there is something to take a picture
of; and it is dropped in silence only if its source is `lost`, or its session is over or
another frame has overtaken it (`ended`). `KeepsContract` says that `Capture` implements
this contract. The refinement mapping reads the `standing` of a request from where it is
kept (queue of the manager, `pending_screencopies`, `waiting_frame`, `pending_captures`, the
frame's own data), `lost` from the outputs and windows, and `ended` from the sessions and
`overtaken`, which is history: the frames that lost `waiting_frame` to another one.

Abstractions: rendering and copying a frame succeeds or fails (`ok`); the buffer is checked
by disconnecting the client; a source that is created from a window is that window; cursor
sessions are stubs in the code and absent here. The sessions of an XWayland window hear
nothing when it goes (`Unmapped`), as in the code.

`QueueIsThere` is what two `unwrap`s rely on; `WaitingIsWanted` says that what waits in a
session is a frame the client has asked for and still wants, and that nothing waits twice;
`CapturesSettle` is the liveness: while what a request captures is drawn again and again, the
request does not wait for ever. Fairness: weak fairness of `Render(o)`, which is what
`DirtyOutputsArePainted` establishes for the frame loop.

## Input: keyboard, pointer, gestures

`Session` is the common ground: the session lock, the focused output, fullscreen, and the
actions that bindings execute, as far as they touch these. `Keyboard` extends it by the
keyboard; `Grabs`, `Gestures` and `Pointer` extend it by the pointer.

| module | code | actions |
|---|---|---|
| `Session` | `SessionLockHandler`, state/fullscreen.rs, `execute_action` | operators: `BeginLock`, `ConfirmLock`, `EndLock`, `execute_action`, `act_after_leaving`, `enter_fullscreen`, `exit_fullscreen_on`, `Unplug`, `Plug`, `PlugFails` |
| `Keyboard` | input/keyboard.rs, `apply_key_repeat` | `Press`, `Release`, `KeyRepeat`, `Lock`, `VtSwitch`, `OtherBinding`, `World` |
| `Grabs` | grabs/*.rs | operators: what a call does to smithay's pointer and to the grab |
| `Gestures` | input/gestures/*.rs | swipe, pinch and hold: begin, update and end of each; the timer of the middle click |
| `Pointer` | input/pointer.rs, input/mod.rs, teardown_output | `PressButton`, `ReleaseButton`, `Motion`, `Navigate`, `Scroll`, `Request`, `Commit`, `SetFullscreen`, `Lock`, `LockAnswers`, `UnplugOutput`, `PlugOutput`, `PlugFailed` |

Monitors: the output of the last one stays as a `placeholder`, on which everything goes on.
A monitor that comes makes the code unmap it, clear `focused_output`, and make a new `Output`
that takes focus and pointer (udev.rs:741-781); grabs and gestures begun on the placeholder are
not ended, and `replaced` remembers the outputs they may still be pinned to. `create_surface`
may fail (`PlugFails`): then there is no output and no focus, and `on_pointer_button` looks at
nothing (pointer.rs:52). `unheard` is history: the buttons that went up meanwhile.

The hardware is part of the models: which keys and buttons are physically down, which gesture
the fingers make, which releases a VT switch swallowed (`lost`, since xkb still counts them).
`cut` and `orphan` are history. They name the keys about which the properties have to be
silent: those that a lock or a VT switch found down, and those that lost a release. `orphan`
includes the keys that are down when a repeating `CycleWindows` begins a new Alt-Tab although
the modifier is up already (animation.rs:23-35): the next key event, whatever it is, then
ends that Alt-Tab and goes to the client.

`KeysAreHeld`: a client believes a key held only while it is down; nothing repeats,
suppresses or cycles for a key that is up, and nothing does while locked.
`KeysAreAccounted`: a key that nothing interrupted belongs to the client or to a binding,
never to neither or both. `ButtonsAreHeld` is the same for buttons, across buffered clicks
and grabs, except for a button that went up while there was no output (`unheard`).
`GestureHasHand`: a gesture is not continued by fingers that did not begin it.
`SteeringIsPinned`: what steers or pans an output is pinned to one that is there, edge
panning needs its drag, and a locked screen is quiet. The exception is what was begun on a
placeholder that a monitor has replaced. `ViewportStaysLocked`: no gesture and no drag of the
canvas *begins* to lead (`Led`) the viewport of a window that stays fullscreen. What was under
way when a client entered fullscreen goes on, and two things do begin to move the viewport,
because the code has no guard against them: the edge panning of a window that is dragged over
the output (move_grab.rs:424, animation.rs:401), and a gesture begun without any output, which
moves the one with the focus. The property is about neither, and the disagreements name them.

Abstractions and assumptions:

- There is one window; what is under the pointer is it or something else. Bindings of
  gestures and buttons are choices. The image of the cursor (`grab_cursor`) is left out, and
  so are pointer constraints, tablets and touch.
- Grabs of popups and of drag and drop are smithay's. One touchpad makes one gesture at a
  time, and a VT switch does not swallow the end of a gesture.
- `MouseHasMiddle = FALSE`: no mouse has the button that the touchpad's tap presses.
  Otherwise the release of the mouse's button is kept for the waiting click of the touchpad,
  and may be dropped with it.
- A lock does not clear the focus of smithay's pointer.
- In `Keyboard`, actions are grouped by their effect on lock and fullscreen (`Effects`), and
  neither gestures nor buttons are bound to `CycleWindows`.

## Background: chunk caches and fallbacks

`Background` models the background of one output: which of the kinds of the config it is,
what `init_background` falls back to, what is told on the error bar, and when caches are
dropped. The compiled shader, the flags of its uniforms and the message on the error bar are
one for all outputs; `OtherOutput` is the initialisation of another one, as far as it changes
these. It composes `TileChunks`, the cache of a pyramidal TIFF with its decoder threads,
and `ShaderChunks`, the cache of a shader baked into chunks; both stand on the arithmetic of
`ChunkGrid` (levels of detail, aggregation, visible chunks, eviction).

| action | code |
|---|---|
| `WorkerTake`, `WorkerAnswer`, `SpuriousWakeup` | `worker_loop` (tile_worker.rs), one step per time the mutex is held |
| `Frame` | `compose_frame`: `InitFrame` (`init_background` and its fallbacks), `TileFrame` (`ensure_visible_loaded`, `drain_responses`, `evict_over_budget`, `chunk_render_elements`), `BakeFrame` (`ShaderChunkCache::render_elements`), `FullscreenFrame` |
| `JoinPool` | the joins in `Drop for WorkerPool`, during which the render thread does nothing else |
| `OtherOutput` | `init_background` of another output; `set_error` and `clear_error` |
| `MoveView`, `ToggleFullscreen`, `ToggleLock`, `ToggleSleep` | the camera, windows, the lock; DPMS off and on, a VT switch away and back |
| `ReloadConfig`, `RemoveOutput`, `EditFile` | `reload_config`, `RenderCache::remove_output`, the shader file on disk |

Sizes are the code's own arithmetic: chunks, bytes and budgets are computed, not chosen.
Pixels are abstracted to whether a chunk decodes, uploads or bakes, a shader to the uniforms
it refers to and whether it compiles. The `ASSUME`s of `MCBackground` check the arithmetic
against independent definitions: in every level each point of a view lies in exactly one of
the chunks found visible, wrapping copies of the image included (`ChunksTileTheView`), and a
chunk lies in one chunk of each coarser level (`StandInsCover`). The second is a fact about
the sizes of the run and not about all: with tiles of 192 pixels, stand-ins do not cover
exactly.

`RequestsAreHeld`: a chunk in flight is in the queue, with one thread or in the channel,
once, and nothing else is. `VramIsCounted`: the counter of the eviction is the bytes of the
textures, within the budget after a frame, and what is drawn has its texture;
`BakesAreCounted` is the same for the shader's chunks; it is proved and needs no run.
`FallbackIsReported`: another background
than the one asked for is on screen only while the error bar says so. It fails; and
`LiveFallbackIsReported`, an action property, says that it does in two ways only: the shader is
to be baked (`cached_shader`, see the disagreements), or the kind is an image that this output
could not load and another output loads, whose verdict clears the message of all outputs.
`LoadsSettle`: once the screen stays on and switched to, unlocked, and fullscreen or not, no
request is out, no bake is due, and no thread is waited for.

Fairness (`Fairness`): threads run; the render thread joins them; and a frame is painted when
it has something to do, over and over (`FrameMatters`), which is what the udev loop does for
an output that is dirty or has loads or bakes pending. It does so for no output that is powered
off, and for none while the session is switched away (udev.rs:188-190, 223-226); `FrameMatters`
asks for no frame then.

What the models showed about the code beyond the properties:

- Once a bake fails, it is tried again at every frame, and if it always fails it takes the
  budget of `BAKE_BUDGET` from the chunks after it. `MaxBakeFaults` bounds failures.
- With a budget smaller than what a view needs, the TIFF cache asks for, uploads and evicts
  the same chunks for ever, since evicted ones are asked for again; the shader cache tests
  for that (`OverBudget`), the TIFF cache does not. The run's budget holds every view.
- Answers are stamped with the current frame (tile_chunks.rs:357-370), so that a late one for a
  chunk out of view ties with the visible ones in the eviction.
- The flags that say whether the background moves with the camera need not be those of the
  shader on screen. After the fallback of a shader that does not compile they are those of the
  source that was read, not of the dot grid. And an image that another output loads resets them
  (background.rs:426-428), so that the fallback that this output shows in its place no longer
  follows the camera, although "a reset would [...] stall pan-driven shaders" (lines 96-99).

## What the runs show

| run | configuration | result |
|---|---|---|
| `render_loop` | two connectors, one of which is configured and may fail to be cleared, two retries; 541,296 states | all invariants and `ModesetWaitsForFlip` hold, and `DirtyOutputsArePainted` under `Fairness` |
| `stage_safety` | a window, its dialog, a widget, an X11 window, any three of which appear; two outputs; 1,064,663 states | all six properties hold |
| `tiling_safety` | a plain window, a dialog and an X11 window; two workspaces; 339,892 states | all four properties hold |
| `output_protocols` | two outputs, one of them without the GAMMA_LUT property; two power objects, two controls, two ramps; a client with a configuration, two settings; two windows and a taskbar; 409,452 states | all eight invariants hold |
| `capture` | two outputs, a Wayland and an X11 window; a screencopy frame, or a session and three frames; 483,678 states | both invariants, the refinement and `CapturesSettle` hold |
| `keyboard` | two outputs, a modifier, two keys, an action of every kind; 2,151,952 states | both invariants hold |
| `pointer` | two outputs, the tap of a touchpad and, on one output, a button of a mouse; 6,596,360 states | three invariants and `ViewportStaysLocked` hold |
| `backgrounds` | an image of three levels, three views, two threads; three shader files, three views; seven kinds of background; 2,108,200 states | three invariants and `LiveFallbackIsReported` hold, and `LoadsSettle` under `Fairness` |
| `power_request`, `cycle_commit`, `outputs_entered`, `baked_fallback` | as small as the case allows | one violation each, see below |

Bounds and why they are enough:

- *Two connectors*: the state of one CRTC is touched by the events of another only through
  shared sets (`mark_all_dirty`, the DPMS drain, the placeholder, the focus after an
  unmap); two connectors exercise all of them, including "last" and "not last" monitor.
- *MaxRetries = 2*, 3 in the code: the counter is compared and incremented, so 2 has "may
  retry", "may retry again" and "exhausted".
- *StuckOn = {o1}*: the error path of `compositor.clear` may be taken for the connector whose
  modes change, and not for the other.
- *ConfiguredNext*: mode changes and animations concern o1 only; the same code handles both
  connectors and o2 is still powered, damaged, plugged and unplugged.
- *MaxWindows = 3 of 4 kinds*: the history has at most three entries, which a cycle index
  needs in order to have one before, at and after it; every pair of kinds meets, and a
  third window is there.
- *Asking*: a Wayland and an X11 window ask for fullscreen or fit; a widget would be
  refused, a dialog is a Wayland window.
- *Two outputs*, symmetric: nothing names an output (`AnyOutput`), and the run checks no
  liveness.

- *Three windows in a workspace*: a split of a split, so that a removed tile has a sibling
  with both, one or none of its edges in common, and a merge has a choice of siblings.
- *Zones of 16 by 9 with a gap of 1, MinTile = 1*: both halvings occur, with odd and even
  sides, and no tile is narrower than the least one. A workspace so crowded that tiles fall
  under the 80 pixels of the code is outside the run: there the halves overlap by
  construction, which is the condition of the theorem `HalvesFit`.
- *OneOdd*: one window at a time is fullscreen, modal, without `wl_surface` or without its
  first commit. Each of these takes a window out of the candidates in the same way; one of
  them meets two regular windows.
- *OneProtocol* (`MCOutputProtocols`): one of the four protocols is in use at a time. A
  request of one changes no state of another (`PowerRequest`, `RampRequest`, `HeadRequest`,
  `ToplevelRequest`), and no property relates two of them; the topology is common to all and
  unrestricted.
- *FewWindows*: one of the two windows changes its look, and a watcher destroys one handle:
  windows are compared one by one, and focus and order, which relate two, are unrestricted.
- *OneProtocol* (`MCCapture`): a behaviour uses screencopy or image copy. They share the
  outputs and windows, which no request changes, and the frame loop serves one after the
  other. The theorems have no such constraint.
- *Three frames of one session*: one answered, one waiting and one that overtakes it;
  sessions do not refer to each other.
- *One modifier, two keys*: a key that repeats beside one that is forwarded, with the
  modifier of Alt-Tab up or down.
- *MaxPlugs = 2*: a monitor goes, and then the last one, while anything is under way; the
  placeholder is replaced by a new `Output`, or by none.
- *OneHand* (`MCPointer`): a second button is pressed where there is one output, which goes and
  comes back once. Buttons meet one another in the pointer's record, outputs in what the record
  is pinned to; the tap, the grabs and the gestures meet both. The theorems have no such
  constraint.
- *Three views, MaxMoves = 2*: of the image, a chunk, its neighbour under the same coarser
  one, and a view of the coarser level; of a shader, two sharp chunks that fit the budget with
  their cover, so that `BAKE_BUDGET` leaves one for the next frame (`has_pending_bakes`), the
  second of them with a third, and a view whose chunks do not fit. The camera goes away and
  returns, or goes on, while chunks load.
- *ViewedNext*: an image and a shader are looked at in their own views; the shader file is not
  edited while a TIFF is configured, which does not read it; and a TIFF is configured from the
  start or not at all, since every cache starts from nothing after a reload.
- *Two threads, UploadBudget = 1, BAKE_BUDGET = 1*: answers overtake one another, and a
  frame leaves answers and bakes for the next.
- *MaxReloads = MaxEdits = MaxBakeFaults = 1, MaxAge = 1*: each disturbance meets every
  state of loading once; ages only matter as touched this frame or before.
- *FewHeads*: a client keeps at most one head of an earlier broadcast, which is enough to
  release it after its successor came.
- *Two objects of a kind*, one configuration: a second power object hears of what the first
  does, a second control waits for the output of the first. Configurations do not refer to
  one another; what one does to another it does by the broadcast, which a reload brings too.
- *Fixed = {}*: a fixed X11 window joins `floating_windows` when mapped; any window does
  so by `ToFloating`.

Deadlock is checked in every run but `capture` and `tiling_safety`: when the sources are
gone and the client has used up its objects, or every window has closed, nothing is left to
happen.

Operators named `Slip...` are not part of the models: each is the definition after it with
a plausible mistake (a reset that is missing, a guard that is dropped, an off-by-one).
Replacing the definition by it makes TLC report the property that `PROJECT.json` pairs it
with, which shows that the property depends on that piece of the code.

## What is proved

TLAPS checks, for any set of connectors, any retry bound and any set of connectors that
fail to clear (`RenderLoopAssumption`):

- `RenderLoop_proofs`: `Invariance`, i.e. `Spec => []IInv`, and from it `TypeCorrect`,
  `FlipsAreCounted`, `WaitsAreExclusive`, `BlankedPanelsAreIdle`, `RoutingIsSound`, and the
  action property `ModesetsWait`.

`IInv` is the conjunction of the checked invariants with two more. `LateIsIdle`: while the
event of a cancelled flip is unread, the CRTC has no token and no flip; without it a late
vblank would be free to erase the mark of a newer flip, and `FramesPendingIsFlips` would not
be inductive. `PowerAgrees`: a queued transition leads to the state that `set_dpms` reports;
without it the DPMS drain could blank an output that the same pass goes on to render, and
`BlankedIsIdle` would not be inductive. `FlipsAreCounted` and `ModesetsWait` have the exceptions
of their properties: an output whose clear may fail can have a flip without a mark. The proof has one lemma per action that renders or
changes the topology (`VBlankKeepsIInv`, `ActivateKeepsIInv`, `ConnectKeepsIInv`,
`DisconnectKeepsIInv`, `RenderKeepsIInv`), one for the requests, and `NextKeepsIInv`
combines them.

- `WindowStage_proofs`, for any windows, dialogs, widgets and outputs (no assumption beyond
  `WindowStageAssumption`): every property of the run. `DeferredIsSettled` has an invariant that is
  inductive as it stands. `Invariance` is the one behind `TypeCorrect`, `HistoryStaysMapped`,
  `FocusStaysMapped` and the action properties `HistoryStaysFrozen` and `CycleInRange`. It has
  three parts. `Sane` is about a focus and a history that a handler has computed, so that there
  is one lemma per helper and an action composes those it calls; `HistoryIsMapped` alone is
  not inductive, since what `update_focus_history` inserts is the focus, of which `FocusOK`
  must say that it is mapped. `WorldOK`: a window that waits for its first commit is alive and
  mapped; a close could otherwise leave one that commits later. `CycleOK`: a window is shown
  exactly during a cycle. The history is filtered by a recursive function (`retain`);
  `RetainExists` and `RetainPlaces` show by a least counterexample that it exists and which
  elements it leaves where, `WithoutThins` that what is left is a thinner list.

- `Pointer_proofs`: `Invariance`, and from it `TypeCorrect`, `ButtonsStayHeld`,
  `GesturesHaveHands`, `SteeringStaysPinned` and the action property `ViewportStays`: every
  property of the run, for any outputs and buttons (`OutputsAssumption`,
  `GesturesAssumption`). `Sound` is about a pointer that a handler has computed, and each call
  has a lemma (`SetGrabIsSound`, `PressIsSound`, ...). It is stated for the outputs that are
  `Known`, present or replaced, and for the buttons that are down or `unheard`; the properties
  except no more than that. The invariant adds `WaitingIsUnsent` to
  the properties: a middle press that waits for a double tap has reached nobody, so that
  sending it late, or dropping it at a lock, adds no second press; without it the late press
  could belong to a button that is up. And nothing is under way while the session is locked:
  without it an unlock could find the gesture of a hand that is long gone. `ButtonsStayHeld`
  alone assumes that no mouse has the touchpad's button (`~MouseHasMiddle`, see the bounds).

- `Background_proofs`, for any TIFF, tile size, views, budgets, number of threads, failing
  chunks, kinds and shader files (`ChunkGridAssumption`, `TileChunksAssumption`,
  `ShaderChunksAssumption`, `BackgroundAssumption`): `Invariance`, and from it `TypeCorrect`,
  `RequestsStayHeld`, `VramStaysCounted`, `BakesStayCounted` and the action property
  `FallbacksStayReported`: the safety properties of the run, and `BakesAreCounted`.
  - `BytesOf` is a fold over a set. `BytesRec` shows that it exists and what it adds,
    `BytesUnion`, `BytesLeft` and `BytesImage` that it is additive and may be taken over the
    answers or over their keys. Each is by a least counterexample.
  - `KeysAre` and `BytesAre`: the views of any image show finitely many chunks, each on the
    grid and with a natural number of bytes; `BakeSizesAre`, `VisibleChunksAre` and
    `ChunkBytesAre` say so of the shader.
  - A frame is a chain of calls on a record, and each has a lemma: `DrainIs`, `StampIs`,
    `AskedIs`, `EvictIs`, `ResolveIs`, together `TileFrameIs`; `BakeFrameIs` for the shader.
  - `Held` says where the requests are: `in_flight` is the disjoint union of the queue, the
    jobs of busy threads and the channel, none of which has a chunk twice. `RequestsAreHeld`
    counts the same with cardinalities. `HeldTake`, `HeldAnswer` and `HeldAfter` move them.
  - The invariant has two parts more. A pool exists only while the output draws from the
    cache or joins its threads (`NoPool`); without it a new cache could find the requests of
    the one before. And while the config asks for a shader that is drawn live, the shared shader
    is the dot grid only if the message says so; without it the next output, which reuses the
    shader without a verdict, could go untold. For `cached_shader` this fails, and the run
    `baked_fallback` shows how. `FallbacksStayReported` is about a step: an image that cannot
    be loaded is told at once (`FailedImageIs`), so that of the other output's initialisations
    only one that loads it can take the message away.

- `Tiling_proofs`: `Invariance`, and from it `TypeCorrect`, `OneWorkspaceEach`,
  `FloatingStayOut` and `GoneStayOut`, for any finite number of windows and any workspaces,
  zones, gap and least tile (`TilingAssumption`); where there is room (`Roomy`) also
  `TilesStayPacked` and the action property `HolesAreRefilled`. These are all properties of
  the run.
  - The invariant is stated about a tiling state (`Good(t, S)` and `Laid(t, F)`, where `S`
    is the windows it may name and `F` those that may cover an output), so that there is one
    lemma per helper (`PurgedIsFine`, `AssignedIsFine`, `RetiledIsFine`, ...) and an action is
    the composition of those it calls.
  - `Good` holds the memberships at once because none is kept alone: laying out a workspace
    assigns loose candidates, which is harmless because candidates do not float and are in no
    workspace, and a window that closes leaves because tiles belong to members. `Laid` adds
    that tiles are no smaller than `MinTile` and, with room, packed: a free tile is apart
    from the others only because they all were, and a neighbour that takes it stays within
    the union of the two (`MergedIsApart`).
  - `HalvesFit`: a split gives two rectangles within the tile, a gap apart, that add up to
    it, provided the longer side has room for two of the least tiles and a gap. By
    `LayoutInduction` every layout is of tiles (`LayoutsAreTiles`), packed
    (`LayoutsArePacked`) and fills its area (`LayoutsFill`). That `LayoutTable` exists, and
    what it holds (`LayoutTableRec`), is shown for sets of one window more at a time.
  - `AreasRec`, `AreasSplit` and `AreasAgree` are about the sum of areas, a fold over a set.
  - `Whole(t, v)`: the tiles of `v` fill it. `RetiledIsWhole`, `RetiledBothIsWhole` and
    `MergedIntoIsWhole` say which helper makes a workspace whole, `Spares` that it takes no
    candidates from another. `HolesAreRefilled` follows action by action (`CloseFills`,
    `ToFloatingFills`, `MoveWindowFills`, ...): a window that leaves is a member of one
    workspace, which is the one that its handler lays out, and every other keeps its members.
  - `LongZonesAreRoomy` makes `Roomy` a bound on the zones: a list of lengths, each at least
    twice the next, down to the least tile and its gap, with a zone for the first.

- `OutputProtocols_proofs`: `Invariance`, and from it `TypeCorrect`, `PowerClientsAreTold`,
  `ControlsAreOwners`, `RampsAreAsAsked`, `HeadsAreCurrent`, `ConfigurationsAreAnswered`,
  `HandlesAreCurrent`, `OneIsActivated` and the action property `AnsweredStaysInert`: every
  property of the run, for any outputs, objects, ramps, settings, windows and clients
  (`PowerAssumption`, `GammaAssumption`, `OutputConfigAssumption`,
  `ForeignToplevelsAssumption`), and without the run's constraint that one protocol is used at
  a time. The invariant has a part for each protocol; `NextIsSteps` says that a step of the
  composition is a step of each, and `PowerIsKept`, `GammaIsKept`, `ConfigIsKept` and
  `ForeignIsKept` show that each keeps its part. Three parts had to be strengthened.
  `ToldAtOnce`: what was told last names one active window at most, and handles repeat it;
  without it a refresh could meet two active handles and `OneActivated` would depend on which
  of them comes first. `RampIsSomewhere`: the ramp asked
  for is in the queue while the session is away and otherwise in the CRTC's last blob, and a
  CRTC without the property has no blob; without it a resume could bring back anything.
  `UnbornIsFresh`: a configuration starts without an answer and with a current serial.

- `Keyboard_proofs`: `Invariance`, and from it `TypeCorrect`, `HeldKeysAreDown` and
  `KeysBelongToOne`, for any keys, actions and outputs (`KeyboardAssumption`,
  `OutputsAssumption`). Three parts make the invariant inductive. `NotBoth`: no key is
  both forwarded and suppressed, also after an interruption; without it a suppressed release
  would leave the key with the client. `ModifiersPass`: suppressed keys are no modifiers.
  `RepeatedCycle`: an Alt-Tab without its modifier was begun by a repeat, so that the keys
  whose release it will let through are known (`orphan`).

- `Capture_proofs`: `Invariance`, `TypeCorrect`, `QueuesAreThere`, `WaitingFramesAreWanted`,
  and `Refinement`, i.e. `Spec => KeepsContract`: screen capture implements its contract for
  any outputs, windows, sessions and frames (`CaptureAssumption`,
  `CaptureSourcesAssumption`). `InitMaps` maps the initial states; `StepMaps` maps each step
  to a step of the contract or a stutter. It rests on `CopySteps` and `FrameSteps`, which say
  for each action where a request of either protocol may go from where it stands, and on
  `LossIsForGood`: what is lost or has ended stays so. The mapping needs the invariant:
  `WaitingIsWanted`, so that a frame that a pass promotes was not answered before; `SessionsInv`,
  a listed session has the source its object was made for, so that a frame whose session is
  forgotten with its source is lost; `CopiesInv` and `FramesInv`, a request waits exactly from
  its copy or capture to its answer.

The types of `Keyboard`, `Capture` and `Pointer` are proved and not run again, like
`FloatingIsUntiled`, `MembersAreMapped`, `BakesAreCounted` and `AnsweredIsInert`: for these the theorem says all
that a run would.

Induction: the library's induction theorems take an operator as a parameter, which the
provers cannot instantiate. Where a fact about a recursive function or a fold is needed, the
set of its counterexamples is a set, and it has a least element, because `<` on the naturals
(`NatLessThanWellFounded`) and strict inclusion on finite sets
(`FS_StrictSubsetOrderingWellFounded`) are well-founded (`WFMin`).

Only model-checked: that chunks tile the view (assumptions of `MCBackground` that TLC
evaluates), and liveness (fairness is out of the prover's reach): `DirtyOutputsArePainted`,
`LoadsSettle` and `CapturesSettle`.

## Disagreements between the code and what it says of itself

Four are runs whose counterexample TLC prints; `PROJECT.json` quotes the text.

- `power_request`: two identical power requests before the loop runs. The first lists the
  output as off and queues the transition, the second finds it listed and drops the
  transition. The panel stays lit and is reported as off.
- `cycle_commit`: during Alt-Tab a window that stands before the selected one closes. The
  index is clamped and not shifted, so the commit moves another window to the front of the
  history than the one on the screen.
- `outputs_entered`: taskbars are told of a new output in the handler that made it, before
  any client can have bound it, and never again. A handle does not enter an output that its
  client binds after the handle was made.
- `baked_fallback`: a shader is to be baked and does not compile. The first output shows the
  dot grid, caches its program and reports the error; the next initialisation bakes the
  cached program, whatever it is, and clears the error (render/background.rs:248, 280),
  although a "cache hit must not clear it" (render/background.rs:102). The proof of
  `FallbackIsReported` failed here: the program that is baked had been left out of the model.

Others met while modelling. The models do what the code does; no property depends on them.

Frame loop and outputs:

- An output is powered off while a flip is in progress and its client commits; the vblank
  handler (backend/udev.rs:628) repaints the panel without a look at `dpms_off_outputs`, of
  which state/mod.rs:396 says that the "render loop skips these".
- A flip is in progress, an output is powered off and its clear fails. The pass forgets the
  flip (backend/udev.rs:204-211), and a mode change of the same pass is set on top of it,
  although entries with a frame in flight "are deferred [...] so we don't modeset on top of an
  in-progress page flip" (lines 1644-1645).
- The placeholder is unmapped and the focus cleared before `create_surface`, which may fail;
  then "active_output() is never None" (backend/udev.rs:743) does not hold, which
  state/mod.rs:984-986 knows.
- A mode change deferred behind a flip is forgotten by the fast path of `render_if_needed`
  (backend/udev.rs:165) until something else makes an output dirty; state/mod.rs:519-521 says
  the loop drains it.
- Heads are kept by output name (protocols/output_management.rs:642). A client that releases
  the finished head of an output makes the compositor forget the new one, which the next
  broadcast does not finish, although "all old heads" are destroyed (line 137).

Windows:

- A window that asks for fullscreen on one output and again after the pointer moved to
  another is fullscreen on both (state/fullscreen.rs:31); when it closes, only one entry goes
  (handlers/xdg_shell.rs:272). dev/docs/stage-refactor-plan.md:151 says it "appears nowhere".
- "Closing, floating, or moving a tiled window should make remaining windows fill the available
  space again" (README.md:77-78). The three exceptions of `LeavingRefills` leave a hole: of two
  windows tiled side by side in one workspace, one is taken by `tile_current_workspace_windows`
  of another (state/tile.rs:513), and the other keeps its half.
- `apply_workspace_tile_rects` notes the tile that grew by a merge in `DriftWm::tile_rects`
  too; moving the window to another workspace does not remove it there, and
  `snap_window_to_existing_tile` (state/tile.rs:214) prefers that table. A window dropped in
  its new workspace jumps to a tile of the old one.

Capture:

- "First capture: render immediately" (protocols/image_copy_capture.rs:513): a first capture
  is queued, and `render_if_needed` returns early (backend/udev.rs:165) until its output is
  dirty for another reason.
- Destroying an older frame clears `has_active_frame` and `waiting_frame` of its session
  (line 561), which are those of the next frame by then; that frame is never answered, which
  the contract knows as overtaken. In the same way the completion of a cancelled frame clears
  `has_active_frame` of the one after it.
- `ScreencopyManagerState::remove_output` looks at queues only: a copied frame of an
  unplugged output stays in `pending_screencopies` and is never answered. A session that
  begins on an output that is gone, or captures an X11 window that goes, is not stopped.

Input:

- `held_action` survives a VT switch (backend/udev.rs:652 resets its neighbours): if the key
  was released meanwhile, its binding repeats until the next release of that key.
- A release that arrives after an unlock or a VT switch goes to the client although its press
  went to a binding, whose suppression was reset.
- A repeating `CycleWindows` begins a new Alt-Tab after its modifier went up
  (state/animation.rs:23-35); the next key event ends it and reaches the client even if it is
  bound. So it is with `CycleWindows` bound to a gesture, which the model leaves out.
- `gesture_exited_fullscreen` stays set if the gesture executes no action (input/gestures.rs:66);
  the next action consumes it, and a `ToggleFullscreen` key then does nothing visible
  (input/actions.rs:21-26).
- A pan drag clears `panning` of the output that is active at its end (grabs/pan_grab.rs:88),
  or of none when another grab replaces it; the output it panned keeps its momentum suppressed.
- A resize that another grab interrupts leaves `ResizeState::Resizing` without a grab, which
  the comment at handlers/xdg_shell.rs:471-473 means to exclude.
- The end of a three-finger move does not reconcile tiles, though it is "identical to Alt+click
  drag" (input/gestures/swipe.rs:525).
- "Grabs (move/resize/pan/navigate) clone the Output and keep mutating its per-output state on
  every motion. Cancel before the output goes away" (backend/udev.rs:1288-1289). A placeholder
  goes away when a monitor comes (line 753) and nothing is cancelled: a window that is swiped
  on the placeholder goes on writing to an output that is gone.
- "Lock viewport: stop all animations and momentum" (state/fullscreen.rs:73). Entering
  fullscreen ends no drag, and a drag is not kept from crossing to a fullscreen output: a
  window dragged to the edge pans the locked viewport (grabs/move_grab.rs:424). A swipe goes on
  moving the camera under a window that enters fullscreen meanwhile.
- The end of a swipe ends whatever grab is active, its own or not.

Background:

- The error bar "clears per-source as each problem is resolved" (state/errors.rs:1-3), and the
  source is one for all outputs. One output cannot load the wallpaper (a decode or an upload
  that fails), shows the fallback and reports it; another loads the file and clears the message
  (render/background.rs:145), while the first still shows its fallback and is not initialised
  again. It is the second exception of `LiveFallbackIsReported`.

## What is not modelled

Sizes: `Fit`, saved geometry, and the sizes of a resize depend on what clients commit and
when; they are first in the plan. Lock surfaces: `Session` has the lock's three states, not
the surface each output needs. Pointer constraints, tablets, touch, popups and layer surfaces.
GPU rendering, shaders, decorations, cursor themes and configuration parsing: no state of
theirs has an order to get wrong that the models above do not keep as an outcome, and the
parser has its unit tests. The winit backend: a development backend that renders in its own
timer without DPMS, hotplug or page flips. The ten-second timer that removes the `wl_output`
global of an unplugged monitor: clients' bindings of globals are smithay's.

Known and not covered by a property: a frame that fails to queue and is only tried again when
something is dirty (backend/udev.rs:1493); X11 windows that stay in the focus history when they are
unmapped (handlers/x11.rs:100) or lose their `wl_surface` first (handlers/x11.rs:126); tiles
narrower than two of the least ones (state/tile.rs:627); mode indices that are checked
against one list of modes and resolved against another (handlers/mod.rs:872).

## Plan

1. `Fit`: `RestoreSize`, `FitState`, saved geometry of fullscreen and `pending_recenter`
   against configures and the commits that answer them late or never, with the resize grab
   that ends on a later commit. Property: the size restored is one the client chose outside
   of fit and fullscreen.
2. Lock surfaces per output, on top of `Session`: monitors that come while locked.
3. `FramePacing`, an abstract specification of what the loop promises one output (idle,
   dirty, waiting), implemented by `RenderLoop` under a refinement mapping, as `Capture`
   implements `CaptureContract`.
4. Snap clusters and placement: pure algorithms as recursive functions against their
   definitions over bounded inputs.
