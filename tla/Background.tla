----------------------------- MODULE Background -----------------------------
(***************************************************************************)
(* The background of one output (render/background.rs and the part of      *)
(* compose_frame that draws it): which kind the config asks for, what      *)
(* init_background falls back to when that cannot be had, what is told on  *)
(* the error bar, and when the caches are dropped: on fullscreen, config   *)
(* reloads and changes of the output.  It composes the two chunk caches,   *)
(* which share the output and never live together.                         *)
(*                                                                         *)
(* The shader, the flags and the message are one for all outputs.  Of the  *)
(* other outputs the module keeps what their initialisations do to these.  *)
(*                                                                         *)
(* The render thread runs one action at a time; while it joins the threads *)
(* of a dropped TIFF cache it does nothing else.                           *)
(***************************************************************************)
EXTENDS TileChunks, ShaderChunks

CONSTANTS
    Kinds,       \* the backgrounds the config may ask for
    Sources,     \* what a shader file may hold: [uses, tex, compiles]
    Unreadable,  \* a shader file that cannot be read
    MaxMoves,    \* bound: moves of the camera
    MaxReloads,  \* bound: reloads of the config
    MaxEdits     \* bound: changes of the shader file

AllKinds == {"default", "tiff", "tile", "wallpaper", "shader", "cached_shader", "textured"}
Uniforms == {"u_camera", "u_time", "u_zoom"}

ASSUME BackgroundAssumption ==
    /\ Kinds \subseteq AllKinds
    /\ Sources \subseteq [uses : SUBSET Uniforms, tex : BOOLEAN, compiles : BOOLEAN]
    /\ Unreadable \notin Sources

VARIABLES
    kind,          \* config.background.kind
    file,          \* the shader file
    elements,      \* which of the per-output maps have an entry
    program,       \* what the entry draws with, for the maps that take the shared shader
    background_shader,  \* the compiled shader outputs share
    uses,          \* background_is_animated, background_uses_camera, _uses_zoom
    error,         \* ErrorSource::Background on the error bar
    camera,
    fullscreen,
    locked,
    asleep,        \* the output is powered off, or the session is switched away
    dirty,         \* the output is in redraws_needed
    moves, reloads, edits

screen == <<kind, file, elements, program, background_shader, uses, error>>
world  == <<camera, fullscreen, locked, asleep, dirty, moves, reloads, edits>>
caches == <<tile, pool, baked, bake_faults>>
vars   == <<screen, world, caches>>

\* Programs: the built-in dot grid and those compiled from a file.
DotGrid == [uses |-> {"u_camera"}, dots |-> TRUE]
Program(src) == [uses |-> src.uses, dots |-> FALSE]
NoProgram == [uses |-> {}, dots |-> FALSE, none |-> TRUE]
Programs == {DotGrid, NoProgram} \cup {Program(src) : src \in Sources}

\* What an initialisation leaves: the entry it made, the program, the shared
\* shader, the flags and the verdict.
Made(entry, prog, shader, flags, verdict) ==
    [entry |-> entry, program |-> prog, shader |-> shader, flags |-> flags,
     verdict |-> verdict]

-----------------------------------------------------------------------------
(* Initialisation, for a file and the shared state there is *)

\* init_shader_bg.  With a shared shader there is no verdict; else the flags come
\* from the source that was read, whether or not it compiled.
InitShaderBg ==
    IF background_shader # NoProgram
    THEN Made("live", background_shader, background_shader, uses, "none")
    ELSE IF kind \notin {"shader", "cached_shader", "textured"} \/ file = Unreadable
    THEN Made("live", DotGrid, DotGrid, DotGrid.uses,
              IF kind \in {"shader", "cached_shader", "textured"} THEN "err" ELSE "ok")
    ELSE IF file.compiles
    THEN Made("live", Program(file), Program(file), file.uses, "ok")
    ELSE Made("live", DotGrid, DotGrid, file.uses, "err")

\* init_default_shader_bg: the dot grid, or the shared shader there is.
InitDefaultShaderBg ==
    IF background_shader # NoProgram
    THEN Made("live", background_shader, background_shader, uses, "none")
    ELSE Made("live", DotGrid, DotGrid, DotGrid.uses, "none")

WithVerdict(m, verdict) == [m EXCEPT !.verdict = verdict]

\* init_tile_chunks_bg and try_init_texture_bg: an image that loads clears the
\* flags a shader left; else the shader path, with the error of the image.
InitImageBg(entry, ok) ==
    IF ok THEN Made(entry, NoProgram, background_shader, {}, "ok")
    ELSE WithVerdict(InitShaderBg, "err")

\* try_init_textured_shader_bg: compiled for this output alone.
InitTexturedBg(ok) ==
    IF ok /\ file # Unreadable /\ file.compiles
    THEN Made("textured", NoProgram, background_shader, file.uses, "ok")
    ELSE WithVerdict(InitDefaultShaderBg, "err")

\* try_init_shader_chunks: only a shader that follows the camera, and nothing
\* else, can be baked.  What is baked is the shared shader, if there is one.
Bakeable == file # Unreadable /\ file.uses = {"u_camera"}

ShaderChunksOrLive ==
    IF file = Unreadable THEN WithVerdict(InitShaderBg, "err")
    ELSE IF ~Bakeable THEN InitShaderBg
    ELSE IF background_shader # NoProgram
    THEN Made("shader_chunks", background_shader, background_shader, {}, "ok")
    ELSE IF file.compiles
    THEN Made("shader_chunks", Program(file), Program(file), {}, "ok")
    ELSE WithVerdict(InitShaderBg, "err")

\* shader_no_texture_dispatch
ShaderNoTexture ==
    IF file # Unreadable /\ file.tex THEN WithVerdict(InitDefaultShaderBg, "err")
    ELSE IF kind = "cached_shader" THEN ShaderChunksOrLive
    ELSE InitShaderBg

\* init_background; ok tells whether images could be opened, decoded and uploaded.
InitBackground(ok) ==
    CASE kind = "tiff"      -> InitImageBg("tile_chunks", ok)
      [] kind = "tile"      -> InitImageBg("tile", ok)
      [] kind = "wallpaper" -> InitImageBg("wallpaper", ok)
      [] kind = "textured"  -> InitTexturedBg(ok)
      [] kind = "default"   -> InitShaderBg
      [] OTHER              -> ShaderNoTexture

\* A verdict is told; without one what was told before stands.
SlipTold(verdict, before) == verdict = "err"

Told(verdict, before) ==
    CASE verdict = "err" -> TRUE [] verdict = "ok" -> FALSE [] OTHER -> before

\* set_error and clear_error mark every output dirty when the message changes; one
\* error may read as the one before it.
DirtyAfter(verdict, before) ==
    CASE verdict = "err" -> IF error THEN {before, TRUE} ELSE {TRUE}
      [] verdict = "ok"  -> {before \/ error}
      [] OTHER           -> {before}

-----------------------------------------------------------------------------
(* The render thread *)

Joining == shutdown

\* remove_background_chunks, and clearing the maps: a shader cache goes at once, a
\* TIFF cache when its threads have ended.
DropChunks ==
    /\ baked' = NewBaked
    /\ UNCHANGED bake_faults
    /\ IF "tile_chunks" \in elements THEN DropPool ELSE UNCHANGED <<tile, pool>>

\* compose_frame finds no entry for this output and makes one; the frame draws it.
InitFrame(ok) ==
    LET m == InitBackground(ok)
    IN  /\ elements = {}
        /\ elements' = {m.entry}
        /\ program' = m.program
        /\ background_shader' = m.shader
        /\ uses' = m.flags
        /\ error' = Told(m.verdict, error)
        /\ dirty' \in DirtyAfter(m.verdict, FALSE)
        /\ IF m.entry = "tile_chunks" THEN TileFrame(NewTile, <<>>, <<>>, Spawned, camera)
           ELSE UNCHANGED <<tile, pool>>
        /\ IF m.entry = "shader_chunks" THEN BakeFrame(NewBaked, camera)
           ELSE UNCHANGED <<baked, bake_faults>>
        /\ UNCHANGED <<kind, file>>

\* A frame of the background there is.
DrawFrame ==
    /\ elements # {}
    /\ UNCHANGED screen
    /\ CASE "shader_chunks" \in elements ->
              BakeFrame(baked, camera) /\ UNCHANGED <<tile, pool>>
         [] "tile_chunks" \in elements ->
              TileFrame(tile, pending, responses, worker, camera) /\ UNCHANGED <<baked, bake_faults>>
         [] OTHER -> UNCHANGED caches

\* A fullscreen window hides the canvas: the chunk caches go, other entries stay.
FullscreenFrame ==
    /\ DropChunks
    /\ elements' = elements \ {"tile_chunks", "shader_chunks"}
    /\ program' = IF "shader_chunks" \in elements THEN NoProgram ELSE program
    /\ UNCHANGED <<kind, file, background_shader, uses, error>>

\* render_if_needed paints the output: something asked for it, or chunks are still
\* missing, or the background is animated.  A locked screen draws no background.
Frame ==
    /\ ~Joining /\ ~asleep
    /\ dirty \/ has_pending_loads \/ has_pending_bakes \/ "u_time" \in uses
    /\ \/ locked /\ dirty' = FALSE /\ UNCHANGED <<screen, caches>>
       \/ ~locked /\ fullscreen /\ dirty' = FALSE /\ FullscreenFrame
       \/ ~locked /\ ~fullscreen /\ dirty' = FALSE /\ DrawFrame
       \/ ~locked /\ ~fullscreen /\ \E ok \in BOOLEAN : InitFrame(ok)
    /\ UNCHANGED <<camera, fullscreen, locked, asleep, moves, reloads, edits>>

\* Another output is painted for the first time, or anew after it changed: it takes
\* the shared shader or leaves one, and its verdict is told for all of them.
OtherOutput(ok) ==
    LET m == InitBackground(ok)
    IN  /\ ~Joining /\ ~locked
        /\ background_shader' = m.shader
        /\ uses' = m.flags
        /\ error' = Told(m.verdict, error)
        /\ dirty' \in DirtyAfter(m.verdict, dirty)
        /\ UNCHANGED <<kind, file, elements, program, caches, camera, fullscreen, locked,
                       asleep, moves, reloads, edits>>

\* The camera moves or zooms.
MoveView(v) ==
    /\ ~Joining /\ moves < MaxMoves /\ v # camera
    /\ camera' = v /\ moves' = moves + 1 /\ dirty' = TRUE
    /\ UNCHANGED <<screen, caches, fullscreen, locked, asleep, reloads, edits>>

\* A window enters or leaves fullscreen; the session is locked or unlocked.
ToggleFullscreen ==
    /\ ~Joining
    /\ fullscreen' = ~fullscreen /\ dirty' = TRUE
    /\ UNCHANGED <<screen, caches, camera, locked, asleep, moves, reloads, edits>>

ToggleLock ==
    /\ ~Joining
    /\ locked' = ~locked /\ dirty' = TRUE
    /\ UNCHANGED <<screen, caches, camera, fullscreen, asleep, moves, reloads, edits>>

\* The output is powered off or the session is switched away: nothing is painted.
\* Powered on or switched back to, it is painted whatever was asked for.
ToggleSleep ==
    /\ ~Joining
    /\ asleep' = ~asleep /\ dirty' = (dirty \/ asleep)
    /\ UNCHANGED <<screen, caches, camera, fullscreen, locked, moves, reloads, edits>>

\* reload_config: every background cache is cleared, and the next frame starts anew.
ReloadConfig(k) ==
    /\ ~Joining /\ reloads < MaxReloads
    /\ kind' = k
    /\ background_shader' = NoProgram
    /\ uses' = {}
    /\ elements' = {} /\ program' = NoProgram
    /\ DropChunks
    /\ reloads' = reloads + 1 /\ dirty' = TRUE
    /\ UNCHANGED <<file, error, camera, fullscreen, locked, asleep, moves, edits>>

\* RenderCache::remove_output: the output changed its mode or its geometry.
RemoveOutput ==
    /\ ~Joining /\ reloads < MaxReloads
    /\ elements' = {} /\ program' = NoProgram
    /\ DropChunks
    /\ reloads' = reloads + 1 /\ dirty' = TRUE
    /\ UNCHANGED <<kind, file, background_shader, uses, error, camera, fullscreen,
                   locked, asleep, moves, edits>>

\* Somebody edits the shader file.
EditFile(f) ==
    /\ edits < MaxEdits /\ f # file
    /\ file' = f /\ edits' = edits + 1
    /\ UNCHANGED <<kind, elements, program, background_shader, uses, error, caches, camera,
                   fullscreen, locked, asleep, dirty, moves, reloads>>

Init ==
    /\ kind \in Kinds
    /\ file \in Sources \cup {Unreadable}
    /\ elements = {} /\ program = NoProgram /\ background_shader = NoProgram
    /\ uses = {} /\ error = FALSE
    /\ camera \in Views
    /\ fullscreen = FALSE /\ locked = FALSE /\ asleep = FALSE /\ dirty = TRUE
    /\ moves = 0 /\ reloads = 0 /\ edits = 0
    /\ TileInit /\ BakeInit

Workings ==
    /\ WorkerStep \/ JoinPool
    /\ UNCHANGED <<screen, world, baked, bake_faults>>

Next ==
    \/ Workings
    \/ Frame
    \/ \E v \in Views : MoveView(v)
    \/ ToggleFullscreen
    \/ ToggleLock
    \/ ToggleSleep
    \/ \E ok \in BOOLEAN : OtherOutput(ok)
    \/ \E k \in Kinds : ReloadConfig(k)
    \/ RemoveOutput
    \/ \E f \in Sources \cup {Unreadable} : EditFile(f)

Spec == Init /\ [][Next]_vars

Elsewhere == UNCHANGED <<screen, world, baked, bake_faults>>

\* When a frame changes something: it was asked for, there are answers to take, or
\* bakes are due.  Nothing is painted on an output that is off or switched away.
FrameMatters ==
    /\ ~Joining /\ ~asleep
    /\ dirty \/ (~locked /\ ~fullscreen /\ (responses # <<>> \/ has_pending_bakes))

\* The udev loop paints an output that is on and has something to show, threads run,
\* and the render thread joins them.
Fairness ==
    /\ []<>~FrameMatters \/ []<><<Frame>>_vars
    /\ WF_vars(JoinPool /\ Elsewhere)
    /\ \A w \in Workers : WF_vars((WorkerTake(w) \/ WorkerAnswer(w)) /\ Elsewhere)

FairSpec == Spec /\ Fairness

-----------------------------------------------------------------------------
TypeOK ==
    /\ TileTypeOK /\ BakedTypeOK
    /\ kind \in AllKinds
    /\ file \in Sources \cup {Unreadable}
    /\ elements \subseteq {"live", "tile", "wallpaper", "textured", "tile_chunks", "shader_chunks"}
    /\ program \in Programs /\ background_shader \in Programs
    /\ uses \subseteq Uniforms
    /\ {error, fullscreen, locked, asleep, dirty} \subseteq BOOLEAN
    /\ camera \in Views

-----------------------------------------------------------------------------
(* Properties *)

\* What the config asks for is on screen.
AsAsked ==
    CASE kind = "tiff"          -> elements = {"tile_chunks"}
      [] kind = "tile"          -> elements = {"tile"}
      [] kind = "wallpaper"     -> elements = {"wallpaper"}
      [] kind = "textured"      -> elements = {"textured"}
      [] kind = "default"       -> elements = {"live"}
      [] kind = "shader"        -> elements = {"live"} /\ ~program.dots
      [] kind = "cached_shader" -> /\ elements \in {{"shader_chunks"}, {"live"}}
                                   /\ ~program.dots

\* background.rs:100-102 says that an output which reuses the cached shader must leave
\* the error of the one that compiled it untouched: a background other than the one
\* that was asked for is on screen only while the error bar says so.
FallbackIsReported == elements # {} /\ ~AsAsked => error

\* A fallback loses its message in two ways only: the shader is to be baked, or another
\* output loads the image that this one could not, and its verdict clears the message
\* that all outputs share.  A live shader and the default never lose it: an
\* initialisation that reuses the shader the first one settled for does not take the
\* message away.
Images == {"tiff", "tile", "wallpaper", "textured"}
Unreported == ~FallbackIsReported

LiveFallbackIsReported ==
    [][Unreported' => \/ Unreported
                      \/ kind' = "cached_shader"
                      \/ kind' \in Images /\ OtherOutput(TRUE)]_vars

\* The bytes the eviction works with are those of the baked chunks there are, they fit
\* the budget after a frame, and what is drawn still has its chunk.
BakesAreCounted ==
    /\ baked.vram_bytes = BytesOf(baked.chunks, ChunkBytes)
    /\ baked.vram_bytes <= BakeBytes
    /\ baked.elements \subseteq baked.chunks

\* Once the screen stays on, unlocked, and fullscreen or not, loading comes to an end:
\* no request is out, no bake is due, and no thread is waited for.  (The views all
\* fit the budget of the TIFF cache; the shader cache settles for any budget.)
LoadsSettle ==
    <>[]~locked /\ <>[]~asleep /\ (<>[]fullscreen \/ <>[]~fullscreen) =>
      <>[](~has_pending_loads /\ ~has_pending_bakes /\ ~shutdown)
=============================================================================
