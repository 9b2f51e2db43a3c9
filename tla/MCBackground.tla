---------------------------- MODULE MCBackground ----------------------------
(***************************************************************************)
(* An image of three levels, of which two are loaded in chunks, and views  *)
(* of two or three chunks; a shader baked at a fractional output scale,    *)
(* two chunks of it and their cover within the budget.                     *)
(***************************************************************************)
EXTENDS Background

View(left, top, z) == [x |-> left, y |-> top, w |-> 1024, h |-> 256, z |-> z]

MCLodDims == <<<<16384, 1024>>, <<8192, 512>>, <<4096, 256>>>>

\* A chunk of the image and its cover; the next chunk, with the same cover; the cover
\* alone.
MCViews == {View(0, 0, 0), View(1024, 0, 0), View(0, -128, 2)}

\* The last chunk of the finer level fails.
MCBroken == {<<0, 9, 0>>}

\* Two sharp chunks under one cover; the second of them and a third; zoomed out, four
\* chunks of the next level under two covers, more than the budget.
MCBakeViews ==
    {View(512, 0, 0), View(1536, 0, 0), [x |-> 1024, y |-> -128, w |-> 2048, h |-> 512, z |-> 2]}


Camera == [uses |-> {"u_camera"}, tex |-> FALSE, compiles |-> TRUE]
Textured == [uses |-> {"u_camera"}, tex |-> TRUE, compiles |-> TRUE]
Bad == [uses |-> {"u_camera"}, tex |-> FALSE, compiles |-> FALSE]

MCSources == {Camera, Textured, Bad}

MCAllViews == MCViews \cup MCBakeViews

\* The image is looked at in its own views, and whatever else is configured in the
\* others.  Beside an image that loads the shader file does not matter: it is any one,
\* and stays so until something else is configured.
ViewsOf(k) == IF k = "tiff" THEN MCViews ELSE MCBakeViews

ViewedInit ==
    /\ Init
    /\ camera \in ViewsOf(kind)
    /\ kind = "tiff" => file = Camera

ViewedNext ==
    \/ Workings
    \/ Frame
    \/ \E v \in ViewsOf(kind) : MoveView(v)
    \/ ToggleFullscreen
    \/ ToggleLock
    \/ ToggleSleep
    \/ \E ok \in BOOLEAN : OtherOutput(ok)
    \/ \E k \in Kinds : (k = "tiff" => kind = "tiff") /\ ReloadConfig(k)
    \/ RemoveOutput
    \/ \E f \in Sources \cup {Unreadable} : kind # "tiff" /\ EditFile(f)

ViewedSpec == ViewedInit /\ [][ViewedNext]_vars /\ Fairness

\* The layout of these chunks over the image, its corners and its first copies.  In
\* every level each point of a view lies in exactly one chunk, also if a pixel of it is
\* all the view has, and a chunk lies in one chunk of each coarser level.
CornerView == View(8000, 384, 0)
CopyView == View(-9216, -640, 1)
LastPixel == View(1023, -1, 0)
NextPixel == View(1, -255, 0)

Borders == {-9216, -8193, -8192, -8191, -1, 0, 1, 1023, 1024, 8000, 8191, 8192, 8193, 9023}
Heights == {-640, -513, -512, -511, -385, -1, 0, 127, 384, 511, 512, 639}

ASSUME ChunksTileTheView ==
    \A view \in MCViews \cup {CornerView, CopyView, LastPixel, NextPixel}, lod \in 0..(Coarsest - 1) :
        TiledBy(view, [x : Borders, y : Heights], lod)

ASSUME StandInsCover ==
    \A view \in MCViews, lod \in 0..(Coarsest - 1) :
        \A c \in KeysAt(view, lod), above \in lod..(Coarsest - 1) : InOneChunk(c, above)
=============================================================================
