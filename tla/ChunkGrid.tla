------------------------------ MODULE ChunkGrid ------------------------------
(***************************************************************************)
(* The arithmetic of chunked backgrounds: levels of detail (LODs), which   *)
(* of them a zoom needs, how TIFF tiles are aggregated into chunks, which  *)
(* chunks of a repeated image a viewport shows, and the LRU eviction that  *)
(* the TIFF cache and the shader cache share (render/tile_chunks.rs,       *)
(* render/tile_chunks_tiff.rs).                                            *)
(*                                                                         *)
(* LODs are numbered from 0, the finest.  A rectangle is a record of a     *)
(* location and a size in canvas units.  A zoom is given by z, the number  *)
(* of half octaves it is below 1: zoom = 2^(-z/2).                         *)
(***************************************************************************)
EXTENDS Integers, Sequences, FiniteSets, FiniteSetsExt

CONSTANTS
    LodDims,     \* the pixel dimensions <<w, h>> of the pages of the TIFF
    TileDim,     \* the edge of its (square) tiles
    Views,       \* what the camera may show: [x, y, w, h, z]
    MaxAge       \* bound: chunks not touched for longer are equally old here

ASSUME ChunkGridAssumption ==
    /\ LodDims \in Seq((Nat \ {0}) \X (Nat \ {0})) /\ LodDims # <<>>
    /\ TileDim \in Nat \ {0} /\ MaxAge \in Nat \ {0}
    /\ Views \subseteq [x : Int, y : Int, w : Nat, h : Nat, z : Int]

FALLBACK_MAX_DIM == 4096
TARGET_CHUNK_CANVAS == 2048
LOD0_TARGET_CHUNK_CANVAS == 1024

Larger(a, b) == IF a > b THEN a ELSE b
Smaller(a, b) == IF a < b THEN a ELSE b

\* a / b to the nearest integer
Rounded(a, b) == (2 * a + b) \div (2 * b)

Image == [w |-> LodDims[1][1], h |-> LodDims[1][2]]

\* BgChunkCache.image_position: the image is centred on the origin.
ImagePosition == [x |-> -(Image.w \div 2), y |-> -(Image.h \div 2)]

-----------------------------------------------------------------------------
(* Levels of detail *)

\* The level whose samples match the screen.  The step into the last level waits
\* for a full octave.
PickLod(z, n) ==
    LET last == n - 1
        ceil == (z + 1) \div 2
    IN  IF n = 0 \/ z <= 0 THEN 0
        ELSE IF ceil >= last /\ z < 2 * (last - 1) THEN Larger(last - 1, 0)
        ELSE Smaller(ceil, last)

Levels == 0..(Len(LodDims) - 1)

\* The span of one tile of each level in canvas units.
RawSizes ==
    [i \in Levels |-> Rounded(TileDim * Image.w, LodDims[i + 1][1])]

\* The levels up to the first that does not double the span of the one before.
UsableLods ==
    Min({Len(LodDims)} \cup {i \in 1..(Len(LodDims) - 1) : RawSizes[i] # 2 * RawSizes[i - 1]})

\* compute_aggregations: how many tiles make the edge of a chunk.
Target(i) == IF i = 0 THEN LOD0_TARGET_CHUNK_CANVAS ELSE TARGET_CHUNK_CANVAS

Aggregation ==
    [i \in Levels |-> IF RawSizes[i] > 0 /\ RawSizes[i] < Target(i)
                      THEN Larger(Target(i) \div RawSizes[i], 1) ELSE 1]

\* derive_chunk_layout: the canvas span of a chunk of level i.
ChunkSize == [i \in Levels |-> RawSizes[i] * Aggregation[i]]

\* new_from_tiff: the finest usable level that fits in one texture, drawn below
\* the chunks of the finer ones.
FallbackLod ==
    LET small == {i \in 0..(UsableLods - 1) :
                    Larger(LodDims[i + 1][1], LodDims[i + 1][2]) <= FALLBACK_MAX_DIM}
    IN  IF small = {} THEN UsableLods - 1 ELSE Min(small)

NLods == FallbackLod + 1
Coarsest == NLods - 1

-----------------------------------------------------------------------------
(* What a viewport shows *)

\* compute_k_range: the copies of an image of the given size, the one at index 0
\* at origin, that meet [from, to).
KRange(from, to, origin, size) ==
    IF to <= from \/ size <= 0 THEN {}
    ELSE ((from - origin) \div size)..((to - 1 - origin) \div size)

\* chunks_intersecting on one axis: the chunks of the copy at origin that meet
\* [from, to), clipped to the copy.
ChunksOnAxis(from, to, origin, size, chunk) ==
    LET lo == Larger(from - origin, 0)
        hi == Smaller(to - origin, size)
    IN  IF chunk <= 0 \/ lo >= hi THEN {} ELSE (lo \div chunk)..((hi - 1) \div chunk)

ChunksIntersecting(view, origin, chunk) ==
    ChunksOnAxis(view.x, view.x + view.w, origin.x, Image.w, chunk)
        \X ChunksOnAxis(view.y, view.y + view.h, origin.y, Image.h, chunk)

\* visibility_query: every <<cx, cy, kx, ky>> of chunks of the given span in view.
VisibilityQuery(view, chunk) ==
    UNION {{<<c[1], c[2], kx, ky>> :
              c \in ChunksIntersecting(view, [x |-> ImagePosition.x + kx * Image.w,
                                              y |-> ImagePosition.y + ky * Image.h], chunk)} :
           kx \in KRange(view.x, view.x + view.w, ImagePosition.x, Image.w),
           ky \in KRange(view.y, view.y + view.h, ImagePosition.y, Image.h)}

\* Where such a chunk lies on the canvas, and its size, smaller at the right and
\* the bottom of the image.
ChunkCanvasOrigin(q, chunk) ==
    [x |-> ImagePosition.x + q[3] * Image.w + q[1] * chunk,
     y |-> ImagePosition.y + q[4] * Image.h + q[2] * chunk]

ClampTo(v, hi) == Larger(0, Smaller(v, hi))

ChunkActualSize(q, chunk) ==
    [w |-> ClampTo(Image.w - q[1] * chunk, chunk), h |-> ClampTo(Image.h - q[2] * chunk, chunk)]

-----------------------------------------------------------------------------
(* Chunks: a key is <<lod, cx, cy>> *)

KeysAt(view, lod) == {<<lod, q[1], q[2]>> : q \in VisibilityQuery(view, ChunkSize[lod])}

\* The chunk of level lod that holds the corner of the chunk c of a finer level.
Ancestor(c, lod) ==
    <<lod, (c[2] * ChunkSize[c[1]]) \div ChunkSize[lod],
           (c[3] * ChunkSize[c[1]]) \div ChunkSize[lod]>>

\* Tiles of a page, across or down.
TilesOf(pixels) == (pixels + TileDim - 1) \div TileDim

\* The pixels of a block of n tiles that starts at tile n * g, 0 past the image.
BlockDim(pixels, g, n) ==
    LET start == g * n
        end   == Smaller(start + n, TilesOf(pixels))
    IN  IF start >= TilesOf(pixels) THEN 0
        ELSE Smaller(end * TileDim, pixels) - start * TileDim

\* TiffSource.read_block: the size of the RGBA texture of a chunk, 0 for an error.
BlockBytes(key) ==
    LET dims == LodDims[key[1] + 1]
        n    == Aggregation[key[1]]
    IN  4 * BlockDim(dims[1], key[2], n) * BlockDim(dims[2], key[3], n)

-----------------------------------------------------------------------------
(* Eviction *)

\* meta[k] tells how many frames ago chunk k was last touched.
BytesOf(S, bytes) == MapThenSumSet(LAMBDA k : bytes[k], S)

\* evict_lru_to_budget: the sets of chunks it may remove, oldest first until the
\* rest fits; the sort leaves chunks of one age in any order.
Evictions(meta, vram, budget, bytes) ==
    {E \in SUBSET DOMAIN meta :
        /\ \A e \in E, k \in DOMAIN meta \ E : meta[k] <= meta[e]
        /\ vram - BytesOf(E, bytes) <= budget \/ E = DOMAIN meta
        /\ E # {} => \E last \in E : /\ \A e \in E : meta[last] <= meta[e]
                                     /\ vram - BytesOf(E \ {last}, bytes) > budget}

-----------------------------------------------------------------------------
(* The layout, stated independently of how it is computed *)

Within(p, at, size) ==
    /\ at.x <= p.x /\ p.x < at.x + size.w
    /\ at.y <= p.y /\ p.y < at.y + size.h

\* Chunks of a level tile what is seen: each of the points is in exactly one of
\* them, also where a copy of the image ends and the next begins.
TiledBy(view, points, lod) ==
    LET chunk == ChunkSize[lod]
    IN  \A p \in points :
          Within(p, view, view) =>
            Cardinality({q \in VisibilityQuery(view, chunk) :
                           Within(p, ChunkCanvasOrigin(q, chunk), ChunkActualSize(q, chunk))}) = 1

\* The chunk c lies in one chunk of level lod.
InOneChunk(c, lod) ==
    LET end(i) == (Ancestor(c, lod)[i] + 1) * ChunkSize[lod]
    IN  \A i \in 2..3 : (c[i] + 1) * ChunkSize[c[1]] <= end(i)
=============================================================================
