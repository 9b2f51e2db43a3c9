---------------------------- MODULE ShaderChunks ----------------------------
(***************************************************************************)
(* The cache of a shader background that is baked into chunks:             *)
(* ShaderChunkCache (render/shader_chunks.rs).  It bakes on the render     *)
(* thread, a few chunks per frame, over a cover of the coarsest level.     *)
(***************************************************************************)
EXTENDS ChunkGrid

CONSTANTS
    BAKE_BUDGET,   \* sharp chunks baked per frame; 2 in the code
    BakePx,        \* texels of a chunk: 1024 times the scale of the output
    BakeBytes,     \* cache_budget_mb
    MaxBakeFaults  \* bound: how many bakes the GPU refuses

ASSUME ShaderChunksAssumption ==
    /\ BAKE_BUDGET \in Nat \ {0} /\ BakePx \in Nat \ {0} /\ BakeBytes \in Nat
    /\ MaxBakeFaults \in Nat

VARIABLES
    baked,       \* the cache, see NewBaked
    bake_faults  \* bakes that failed so far

BASE_CHUNK_CANVAS == 1024
N_LODS == 8
CoverLod == N_LODS - 1
APRON_TEXELS == 1

BakeSize(lod) == BASE_CHUNK_CANVAS * 2^lod
BakeTarget(view) == PickLod(view.z, N_LODS)

\* apron_dims: the edge of the texture of a chunk with the border around it.
FboTexels(size) ==
    LET apron == Larger((APRON_TEXELS * size + BakePx - 1) \div BakePx, 1)
    IN  Larger(Rounded((size + 2 * apron) * BakePx, size), 1)

ChunkTexels == [lod \in 0..CoverLod |-> FboTexels(BakeSize(lod))]

\* visible_chunks: an infinite grid.
VisibleChunks(view, lod) ==
    LET size == BakeSize(lod)
    IN  IF view.w <= 0 \/ view.h <= 0 THEN {}
        ELSE {lod} \X ((view.x \div size)..((view.x + view.w - 1) \div size))
                   \X ((view.y \div size)..((view.y + view.h - 1) \div size))

BakeKeys ==
    UNION {VisibleChunks(v, lod) : v \in Views, lod \in 0..CoverLod}

ChunkBytes == [k \in BakeKeys |-> 4 * ChunkTexels[k[1]] * ChunkTexels[k[1]]]

\* An empty cache.
NewBaked == [chunks |-> {}, meta |-> <<>>, vram_bytes |-> 0, pending |-> FALSE,
             degraded |-> FALSE, elements |-> {}]

BakedType == [chunks : SUBSET BakeKeys, vram_bytes : Nat, pending : BOOLEAN,
              degraded : BOOLEAN, elements : SUBSET BakeKeys]

has_pending_bakes == baked.pending

\* bake_chunk for each chunk of S, of which those of bad fail and stay out.
BakeAll(c, S, bad) ==
    [c EXCEPT !.chunks = @ \cup (S \ bad),
              !.vram_bytes = @ + BytesOf(S \ bad, ChunkBytes),
              !.meta = [k \in DOMAIN @ \cup (S \ bad) |-> IF k \in S \ bad THEN 0 ELSE @[k]]]

TouchAll(c, S) == [c EXCEPT !.meta = [k \in DOMAIN @ |-> IF k \in S THEN 0 ELSE @[k]]]

\* The first n chunks of S, row by row.
Before(a, b) == a[3] < b[3] \/ (a[3] = b[3] /\ a[2] < b[2])
FirstOf(S, n) == {k \in S : Cardinality({j \in S : Before(j, k)}) < n}

\* The cover and the sharp chunks of the view do not fit the budget together.
SlipOverBudget(view) == BytesOf(VisibleChunks(view, CoverLod), ChunkBytes) > BakeBytes

OverBudget(view) ==
    BytesOf(VisibleChunks(view, CoverLod), ChunkBytes)
      + BytesOf(VisibleChunks(view, BakeTarget(view)), ChunkBytes) > BakeBytes

\* The finest chunk of c over each visible cell.
Chosen(c, view) ==
    LET target == BakeTarget(view)
        over(k, lod) == <<lod, (k[2] * BakeSize(target)) \div BakeSize(lod),
                               (k[3] * BakeSize(target)) \div BakeSize(lod)>>
        cached(k) == {lod \in target..CoverLod : over(k, lod) \in c.chunks}
    IN  {over(k, Min(cached(k))) :
            k \in {j \in VisibleChunks(view, target) : cached(j) # {}}}

\* evict_over_budget, leaving out the chunks of E.
EvictBaked(c, E) ==
    [c EXCEPT !.chunks = @ \ E,
              !.meta = [k \in DOMAIN @ \ E |-> @[k]],
              !.vram_bytes = Larger(0, @ - BytesOf(E, ChunkBytes)),
              !.elements = @ \ E]

\* render_elements of a cache c: bake the cover, then some of the sharp chunks,
\* unless they would only push each other out.
BakeFrame(c, view) ==
    LET target  == BakeTarget(view)
        cover   == VisibleChunks(view, CoverLod)
        visible == VisibleChunks(view, target)
        aged    == [c EXCEPT !.meta = [k \in DOMAIN @ |-> Smaller(@[k] + 1, MaxAge)]]
        refine  == target # CoverLod /\ ~OverBudget(view)
    IN  \E bad \in SUBSET ((cover \cup visible) \ c.chunks) :
          LET covered == BakeAll(TouchAll(aged, cover), cover \ c.chunks, bad)
              missing == IF refine THEN visible \ c.chunks ELSE {}
              tried   == FirstOf(missing, BAKE_BUDGET)
              sharp   == IF refine THEN BakeAll(TouchAll(covered, visible), tried, bad)
                         ELSE covered
              chosen  == Chosen(sharp, view)
              shown   == [TouchAll(sharp, chosen) EXCEPT
                            !.pending = missing # tried,
                            !.degraded = OverBudget(view),
                            !.elements = chosen]
          IN  /\ bad \subseteq (cover \ c.chunks) \cup tried
              /\ bake_faults + Cardinality(bad) <= MaxBakeFaults
              /\ bake_faults' = bake_faults + Cardinality(bad)
              /\ \E E \in Evictions(shown.meta, shown.vram_bytes, BakeBytes, ChunkBytes) :
                    baked' = EvictBaked(shown, E)

-----------------------------------------------------------------------------
BakeInit == baked = NewBaked /\ bake_faults = 0

BakedTypeOK ==
    /\ [chunks |-> baked.chunks, vram_bytes |-> baked.vram_bytes, pending |-> baked.pending,
        degraded |-> baked.degraded, elements |-> baked.elements] \in BakedType
    /\ DOMAIN baked.meta = baked.chunks
    /\ \A k \in baked.chunks : baked.meta[k] \in 0..MaxAge
    /\ bake_faults \in 0..MaxBakeFaults

=============================================================================
