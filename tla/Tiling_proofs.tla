---------------------------- MODULE Tiling_proofs ----------------------------
(***************************************************************************)
(* For any windows, workspaces, zones and gap, every step keeps each       *)
(* window in one workspace at most, tiles with members, floating windows   *)
(* out, Wayland windows mapped and all state of its type.  With room for   *)
(* every window (Roomy) tiles stay apart and within their workspace, and a *)
(* workspace that a window leaves is filled again.                         *)
(***************************************************************************)
EXTENDS Tiling, TLAPS, FiniteSetTheorems, WellFoundedInduction

-----------------------------------------------------------------------------
(* Rectangles *)

\* A tile that leaves room for its gap.
Tile == {r \in Rect : r.w >= MinTile /\ r.h >= MinTile}

\* The halves of a tile are tiles, whatever room it has.
LEMMA HalvesAreTiles ==
    ASSUME NEW r \in Tile, NEW k \in 1..2
    PROVE  Halves(r)[k] \in Tile
<1> USE TilingAssumption DEF TilingAssumption
<1>0. r \in Rect /\ r.x \in Int /\ r.y \in Int /\ r.w \in Nat /\ r.h \in Nat
      /\ r.w >= MinTile /\ r.h >= MinTile /\ MinTile \in Nat /\ Gap \in Nat
  BY DEF Rect, Tile
<1> DEFINE fw == AtLeast((r.w - Gap) \div 2, MinTile)
           fh == AtLeast((r.h - Gap) \div 2, MinTile)
           gw == AtLeast(r.w - fw - Gap, MinTile)
           gh == AtLeast(r.h - fh - Gap, MinTile)
<1>1. /\ fw \in Nat /\ fw >= MinTile /\ gw \in Nat /\ gw >= MinTile
      /\ fh \in Nat /\ fh >= MinTile /\ gh \in Nat /\ gh >= MinTile
  BY <1>0 DEF AtLeast
<1>2. Halves(r) = IF r.w >= r.h
                  THEN <<[r EXCEPT !.w = fw], [r EXCEPT !.x = r.x + fw + Gap, !.w = gw]>>
                  ELSE <<[r EXCEPT !.h = fh], [r EXCEPT !.y = r.y + fh + Gap, !.h = gh]>>
  BY DEF Halves
<1> HIDE DEF fw, fh, gw, gh
<1>3. ASSUME NEW w \in Nat, NEW x \in Int, w >= MinTile
      PROVE  [r EXCEPT !.w = w] \in Tile /\ [r EXCEPT !.x = x, !.w = w] \in Tile
  BY <1>0, <1>3 DEF Rect, Tile
<1>4. ASSUME NEW h \in Nat, NEW y \in Int, h >= MinTile
      PROVE  [r EXCEPT !.h = h] \in Tile /\ [r EXCEPT !.y = y, !.h = h] \in Tile
  <2> DEFINE moved == [r EXCEPT !.y = y]
  <2>1. [r EXCEPT !.h = h] = [x |-> r.x, y |-> r.y, w |-> r.w, h |-> h]
    BY <1>0 DEF Rect
  <2>2. moved = [x |-> r.x, y |-> y, w |-> r.w, h |-> r.h]
    BY <1>0 DEF Rect
  <2>3. [moved EXCEPT !.h = h] = [x |-> r.x, y |-> y, w |-> r.w, h |-> h]
    <3> HIDE DEF moved
    <3> QED BY <2>2
  <2>4. [x |-> r.x, y |-> y, w |-> r.w, h |-> h] \in Tile
        /\ [x |-> r.x, y |-> r.y, w |-> r.w, h |-> h] \in Tile
    BY <1>0, <1>4 DEF Rect, Tile
  <2> QED BY <2>1, <2>3, <2>4
<1>5. r.x + fw + Gap \in Int /\ r.y + fh + Gap \in Int
  BY <1>0, <1>1
<1>6. ASSUME NEW q \in Tile, NEW p \in Tile PROVE <<q, p>>[k] \in Tile
  BY k = 1 \/ k = 2
<1>7. CASE r.w >= r.h
  <2>1. Halves(r) = <<[r EXCEPT !.w = fw], [r EXCEPT !.x = r.x + fw + Gap, !.w = gw]>>
    BY <1>2, <1>7
  <2>2. [r EXCEPT !.w = fw] \in Tile /\ [r EXCEPT !.x = r.x + fw + Gap, !.w = gw] \in Tile
    BY <1>1, <1>3, <1>5
  <2> QED BY <1>6, <2>1, <2>2
<1>8. CASE ~(r.w >= r.h)
  <2>1. Halves(r) = <<[r EXCEPT !.h = fh], [r EXCEPT !.y = r.y + fh + Gap, !.h = gh]>>
    BY <1>2, <1>8
  <2>2. [r EXCEPT !.h = fh] \in Tile /\ [r EXCEPT !.y = r.y + fh + Gap, !.h = gh] \in Tile
    BY <1>1, <1>4, <1>5
  <2> QED BY <1>6, <2>1, <2>2
<1> QED BY <1>7, <1>8

LEMMA TileAreaIsTile ==
    ASSUME NEW v \in Workspaces
    PROVE  TileArea(v) \in Tile
<1>1. Zone[v] \in Rect /\ Gap \in Nat /\ MinTile \in Nat
  BY TilingAssumption DEF TilingAssumption
<1> QED BY <1>1 DEF TileArea, Rect, Tile, AtLeast

LEMMA InsideTrans ==
    ASSUME NEW r \in Rect, NEW s \in Rect, NEW q \in Rect, Inside(r, s), Inside(s, q)
    PROVE  Inside(r, q)
BY DEF Inside, Rect

LEMMA ApartSymmetric ==
    ASSUME NEW r, NEW s, Apart(r, s)
    PROVE  Apart(s, r)
BY DEF Apart

\* What lies in a tile is apart from what the tile is apart from.
LEMMA InsideIsApart ==
    ASSUME NEW r \in Rect, NEW s \in Rect, NEW q \in Rect, Inside(r, s), Apart(s, q)
    PROVE  Apart(r, q)
BY TilingAssumption DEF Inside, Apart, Rect, TilingAssumption

\* Two neighbours as one tile: it is as large as both, stays where they were, and
\* nothing that was apart from both fits into the gap between them.
LEMMA MergedIs ==
    ASSUME NEW r \in Tile, NEW s \in Tile
    PROVE  /\ Merged(r, s) \in Tile
           /\ \A q \in Rect : Inside(r, q) /\ Inside(s, q) => Inside(Merged(r, s), q)
<1>0. r.x \in Int /\ r.y \in Int /\ r.w \in Nat /\ r.h \in Nat
      /\ s.x \in Int /\ s.y \in Int /\ s.w \in Nat /\ s.h \in Nat
      /\ r.w >= MinTile /\ r.h >= MinTile /\ MinTile \in Nat
  BY TilingAssumption DEF Rect, Tile, TilingAssumption
<1>1. Merged(r, s) \in Tile
  BY <1>0 DEF Merged, Rect, Tile, AtLeast
<1>2. ASSUME NEW q \in Rect, Inside(r, q), Inside(s, q) PROVE Inside(Merged(r, s), q)
  BY <1>0, <1>2 DEF Merged, Rect, AtLeast, Inside
<1> QED BY <1>1, <1>2

LEMMA MergedShape ==
    ASSUME NEW r \in Tile, NEW s \in Tile
    PROVE  /\ r.y = s.y /\ r.h = s.h /\ r.x + r.w + Gap = s.x
                => Merged(r, s) = [x |-> r.x, y |-> r.y, w |-> r.w + Gap + s.w, h |-> r.h]
           /\ r.y = s.y /\ r.h = s.h /\ s.x + s.w + Gap = r.x
                => Merged(r, s) = [x |-> s.x, y |-> r.y, w |-> r.w + Gap + s.w, h |-> r.h]
           /\ r.x = s.x /\ r.w = s.w /\ r.y + r.h + Gap = s.y
                => Merged(r, s) = [x |-> r.x, y |-> r.y, w |-> r.w, h |-> r.h + Gap + s.h]
           /\ r.x = s.x /\ r.w = s.w /\ s.y + s.h + Gap = r.y
                => Merged(r, s) = [x |-> r.x, y |-> s.y, w |-> r.w, h |-> r.h + Gap + s.h]
<1>0. r.x \in Int /\ r.y \in Int /\ r.w \in Nat /\ r.h \in Nat
      /\ s.x \in Int /\ s.y \in Int /\ s.w \in Nat /\ s.h \in Nat
      /\ Gap \in Nat /\ r.w > 0 /\ r.h > 0 /\ s.w > 0 /\ s.h > 0
  BY TilingAssumption DEF Rect, Tile, TilingAssumption
<1>1. ASSUME r.y = s.y /\ r.h = s.h /\ r.x + r.w + Gap = s.x
      PROVE  Merged(r, s) = [x |-> r.x, y |-> r.y, w |-> r.w + Gap + s.w, h |-> r.h]
  <2>1. r.x < s.x /\ ~(s.x < r.x) /\ r.x + r.w < s.x + s.w
    BY <1>0, <1>1
  <2>2. AtLeast(r.x + r.w, s.x + s.w) - r.x = r.w + Gap + s.w
        /\ AtLeast(r.y + r.h, s.y + s.h) - r.y = r.h
    BY <1>0, <1>1, <2>1 DEF AtLeast
  <2> QED BY <1>1, <2>1, <2>2 DEF Merged
<1>2. ASSUME r.y = s.y /\ r.h = s.h /\ s.x + s.w + Gap = r.x
      PROVE  Merged(r, s) = [x |-> s.x, y |-> r.y, w |-> r.w + Gap + s.w, h |-> r.h]
  <2>1. s.x < r.x /\ ~(r.x < s.x) /\ s.x + s.w < r.x + r.w
    BY <1>0, <1>2
  <2>2. AtLeast(r.x + r.w, s.x + s.w) - s.x = r.w + Gap + s.w
        /\ AtLeast(r.y + r.h, s.y + s.h) - r.y = r.h
    BY <1>0, <1>2, <2>1 DEF AtLeast
  <2> QED BY <1>2, <2>1, <2>2 DEF Merged
<1>3. ASSUME r.x = s.x /\ r.w = s.w /\ r.y + r.h + Gap = s.y
      PROVE  Merged(r, s) = [x |-> r.x, y |-> r.y, w |-> r.w, h |-> r.h + Gap + s.h]
  <2>1. r.y < s.y /\ ~(s.y < r.y) /\ r.y + r.h < s.y + s.h
    BY <1>0, <1>3
  <2>2. AtLeast(r.y + r.h, s.y + s.h) - r.y = r.h + Gap + s.h
        /\ AtLeast(r.x + r.w, s.x + s.w) - r.x = r.w
    BY <1>0, <1>3, <2>1 DEF AtLeast
  <2> QED BY <1>3, <2>1, <2>2 DEF Merged
<1>4. ASSUME r.x = s.x /\ r.w = s.w /\ s.y + s.h + Gap = r.y
      PROVE  Merged(r, s) = [x |-> r.x, y |-> s.y, w |-> r.w, h |-> r.h + Gap + s.h]
  <2>1. s.y < r.y /\ ~(r.y < s.y) /\ s.y + s.h < r.y + r.h
    BY <1>0, <1>4
  <2>2. AtLeast(r.y + r.h, s.y + s.h) - s.y = r.h + Gap + s.h
        /\ AtLeast(r.x + r.w, s.x + s.w) - r.x = r.w
    BY <1>0, <1>4, <2>1 DEF AtLeast
  <2> QED BY <1>4, <2>1, <2>2 DEF Merged
<1> QED BY <1>1, <1>2, <1>3, <1>4

LEMMA MergedIsApart ==
    ASSUME NEW r \in Tile, NEW s \in Tile, NEW q \in Tile, AreNeighbours(r, s),
           Apart(r, q), Apart(s, q)
    PROVE  Apart(Merged(r, s), q)
<1>0. r.x \in Int /\ r.y \in Int /\ r.w \in Nat /\ r.h \in Nat
      /\ s.x \in Int /\ s.y \in Int /\ s.w \in Nat /\ s.h \in Nat
      /\ q.x \in Int /\ q.y \in Int /\ q.w \in Nat /\ q.h \in Nat
      /\ Gap \in Nat
      /\ r.w > 0 /\ r.h > 0 /\ s.w > 0 /\ s.h > 0 /\ q.w > 0 /\ q.h > 0
  BY TilingAssumption DEF Rect, Tile, TilingAssumption
<1>1. CASE r.y = s.y /\ r.h = s.h /\ r.x + r.w + Gap = s.x
  BY <1>0, <1>1, MergedShape DEF Apart
<1>2. CASE r.y = s.y /\ r.h = s.h /\ s.x + s.w + Gap = r.x
  BY <1>0, <1>2, MergedShape DEF Apart
<1>3. CASE r.x = s.x /\ r.w = s.w /\ r.y + r.h + Gap = s.y
  BY <1>0, <1>3, MergedShape DEF Apart
<1>4. CASE r.x = s.x /\ r.w = s.w /\ s.y + s.h + Gap = r.y
  BY <1>0, <1>4, MergedShape DEF Apart
<1> QED BY <1>1, <1>2, <1>3, <1>4 DEF AreNeighbours

\* One area for both, with the gap between them.
LEMMA MergedArea ==
    ASSUME NEW r \in Tile, NEW s \in Tile, AreNeighbours(r, s)
    PROVE  AreaOf(Merged(r, s)) = AreaOf(r) + AreaOf(s)
<1>0. r.w \in Nat /\ r.h \in Nat /\ s.w \in Nat /\ s.h \in Nat /\ Gap \in Nat
  BY TilingAssumption DEF Rect, Tile, TilingAssumption
<1>1. ASSUME NEW i \in Nat, NEW j \in Nat, NEW k \in Nat
      PROVE  /\ (i + Gap + j + Gap) * (k + Gap)
                   = (i + Gap) * (k + Gap) + (j + Gap) * (k + Gap)
             /\ (k + Gap) * (i + Gap + j + Gap)
                   = (k + Gap) * (i + Gap) + (k + Gap) * (j + Gap)
  BY <1>0
<1>2. CASE r.h = s.h /\ Merged(r, s).w = r.w + Gap + s.w /\ Merged(r, s).h = r.h
  <2>1. (r.w + Gap + s.w + Gap) * (r.h + Gap)
          = (r.w + Gap) * (r.h + Gap) + (s.w + Gap) * (r.h + Gap)
    BY <1>0, <1>1
  <2> QED BY <1>2, <2>1 DEF AreaOf
<1>3. CASE r.w = s.w /\ Merged(r, s).h = r.h + Gap + s.h /\ Merged(r, s).w = r.w
  <2>1. (r.w + Gap) * (r.h + Gap + s.h + Gap)
          = (r.w + Gap) * (r.h + Gap) + (r.w + Gap) * (s.h + Gap)
    BY <1>0, <1>1
  <2> QED BY <1>3, <2>1 DEF AreaOf
<1> QED BY <1>2, <1>3, MergedShape DEF AreNeighbours

\* A tile whose longer side has room for two of the least tiles and a gap is split into
\* two halves that stay within it and a gap apart, and are as large as the tile together.
THEOREM HalvesFit ==
    ASSUME NEW r \in Rect,
           r.w >= r.h => r.w >= 2 * MinTile + Gap,
           r.w < r.h => r.h >= 2 * MinTile + Gap
    PROVE  /\ Halves(r) \in Rect \X Rect
           /\ Inside(Halves(r)[1], r) /\ Inside(Halves(r)[2], r)
           /\ Apart(Halves(r)[1], Halves(r)[2])
           /\ AreaOf(Halves(r)[1]) + AreaOf(Halves(r)[2]) = AreaOf(r)
<1> USE TilingAssumption DEF TilingAssumption
<1>0. r.x \in Int /\ r.y \in Int /\ r.w \in Nat /\ r.h \in Nat
      /\ r = [x |-> r.x, y |-> r.y, w |-> r.w, h |-> r.h]
  BY DEF Rect
<1> DEFINE fw == AtLeast((r.w - Gap) \div 2, MinTile)
           fh == AtLeast((r.h - Gap) \div 2, MinTile)
<1>1. CASE r.w >= r.h
  <2>1. r.w - Gap \in Nat /\ fw = (r.w - Gap) \div 2 /\ fw \in Nat
        /\ AtLeast(r.w - fw - Gap, MinTile) = r.w - fw - Gap
    BY <1>0, <1>1 DEF AtLeast
  <2> HIDE DEF fw
  <2>2. /\ Halves(r)[1] = [x |-> r.x, y |-> r.y, w |-> fw, h |-> r.h]
        /\ Halves(r)[2] = [x |-> r.x + fw + Gap, y |-> r.y, w |-> r.w - fw - Gap, h |-> r.h]
        /\ Halves(r) = <<Halves(r)[1], Halves(r)[2]>>
    BY <1>0, <1>1, <2>1 DEF Halves, fw
  <2>3. fw + Gap <= r.w
    BY <1>0, <1>1, <2>1 DEF fw
  <2>4. (fw + Gap) * (r.h + Gap) + (r.w - fw - Gap + Gap) * (r.h + Gap)
          = (r.w + Gap) * (r.h + Gap)
    BY <1>0, <2>1
  <2> QED BY <1>0, <2>1, <2>2, <2>3, <2>4 DEF Rect, Inside, Apart, AreaOf
<1>2. CASE r.w < r.h
  <2>1. r.h - Gap \in Nat /\ fh = (r.h - Gap) \div 2 /\ fh \in Nat
        /\ AtLeast(r.h - fh - Gap, MinTile) = r.h - fh - Gap
    BY <1>0, <1>2 DEF AtLeast
  <2> HIDE DEF fh
  <2>2. /\ Halves(r)[1] = [x |-> r.x, y |-> r.y, w |-> r.w, h |-> fh]
        /\ Halves(r)[2] = [x |-> r.x, y |-> r.y + fh + Gap, w |-> r.w, h |-> r.h - fh - Gap]
        /\ Halves(r) = <<Halves(r)[1], Halves(r)[2]>>
    <3> DEFINE moved == [r EXCEPT !.y = r.y + fh + Gap]
    <3>1. ~(r.w >= r.h)
      BY <1>0, <1>2
    <3>2. Halves(r) = <<[r EXCEPT !.h = fh], [moved EXCEPT !.h = r.h - fh - Gap]>>
      BY <3>1, <2>1 DEF Halves, fh
    <3>3. [r EXCEPT !.h = fh] = [x |-> r.x, y |-> r.y, w |-> r.w, h |-> fh]
      BY <1>0
    <3>4. moved = [x |-> r.x, y |-> r.y + fh + Gap, w |-> r.w, h |-> r.h]
      BY <1>0
    <3> HIDE DEF moved
    <3>5. [moved EXCEPT !.h = r.h - fh - Gap]
            = [x |-> r.x, y |-> r.y + fh + Gap, w |-> r.w, h |-> r.h - fh - Gap]
      BY <3>4
    <3> QED BY <3>2, <3>3, <3>5
  <2>3. fh + Gap <= r.h
    BY <1>0, <1>2, <2>1 DEF fh
  <2>4. (r.w + Gap) * (fh + Gap) + (r.w + Gap) * (r.h - fh - Gap + Gap)
          = (r.w + Gap) * (r.h + Gap)
    BY <1>0, <2>1
  <2> QED BY <1>0, <2>1, <2>2, <2>3, <2>4 DEF Rect, Inside, Apart, AreaOf
<1> QED BY <1>0, <1>1, <1>2

-----------------------------------------------------------------------------
(* The layouts of a set of windows.  LayoutTable is a recursive function: that one   *)
(* exists is shown for sets of one window more at a time, by least counterexample.   *)

LEMMA LeastSet ==
    ASSUME NEW S, IsFiniteSet(S), NEW T \in SUBSET SUBSET S, T # {}
    PROVE  \E U \in T : \A V \in T : V \subseteq U => V = U
<1>1. T \subseteq FiniteSubsetsOf(S)
  BY FS_Subset DEF FiniteSubsetsOf
<1>2. PICK U \in T : \A V \in T : <<V, U>> \notin StrictSubsetOrdering(S)
  BY <1>1, FS_StrictSubsetOrderingWellFounded, WFMin
<1> QED BY <1>2 DEF StrictSubsetOrdering

Entry(g, v, S) ==
    IF S = {} THEN {<<>>}
    ELSE IF Cardinality(S) = 1 THEN {[w \in S |-> TileArea(v)]}
    ELSE UNION {Splits(g[S \ {w}], S, w) : w \in S}

Table(g, v) == g = [S \in SUBSET Windows |-> Entry(g, v, S)]

LEMMA LayoutTableIsATable ==
    ASSUME NEW v \in Workspaces
    PROVE  LayoutTable[v] = CHOOSE g : Table(g, v)
<1> DEFINE F(u) == CHOOSE g : Table(g, u)
<1>1. LayoutTable = [u \in Workspaces |-> F(u)]
  BY DEF LayoutTable, Table, Entry
<1> HIDE DEF F
<1>2. LayoutTable[v] = F(v)
  BY <1>1
<1> QED BY <1>2 DEF F

LEMMA EntryAgrees ==
    ASSUME NEW g, NEW h, NEW v, NEW S, \A w \in S : g[S \ {w}] = h[S \ {w}]
    PROVE  Entry(g, v, S) = Entry(h, v, S)
<1>1. \A w \in S : Splits(g[S \ {w}], S, w) = Splits(h[S \ {w}], S, w)
  OBVIOUS
<1>2. {Splits(g[S \ {w}], S, w) : w \in S} = {Splits(h[S \ {w}], S, w) : w \in S}
  BY <1>1
<1> QED BY <1>2 DEF Entry

\* g has the entries of the sets of n windows at most.
TableTo(g, v, n) ==
    \A S \in SUBSET Windows : Cardinality(S) <= n => g[S] = Entry(g, v, S)

LEMMA TableExists ==
    ASSUME NEW v
    PROVE  \E g : Table(g, v)
<1> USE TilingAssumption DEF TilingAssumption
<1> DEFINE Bad == {U \in SUBSET Windows : ~\E g : TableTo(g, v, Cardinality(U))}
<1>1. Bad = {}
  <2> SUFFICES ASSUME Bad # {} PROVE FALSE
    OBVIOUS
  <2>1. PICK U \in Bad : \A V \in Bad : V \subseteq U => V = U
    <3>1. Bad \in SUBSET SUBSET Windows
      OBVIOUS
    <3> HIDE DEF Bad
    <3> QED BY <3>1, LeastSet
  <2>2. \A S \in SUBSET Windows : /\ IsFiniteSet(S) /\ Cardinality(S) \in Nat
                                  /\ (Cardinality(S) = 0) = (S = {})
    BY FS_Subset, FS_CardinalityType, FS_EmptySet
  <2>3. \A S \in SUBSET Windows : \A w \in S : Cardinality(S \ {w}) = Cardinality(S) - 1
    BY <2>2, FS_RemoveElement
  <2>4. U # {}
    <3> DEFINE g == [S \in SUBSET Windows |-> {<<>>}]
    <3>1. TableTo(g, v, 0)
      BY <2>2 DEF TableTo, Entry
    <3> QED BY <2>1, <2>2, <3>1
  <2>5. PICK x \in U : TRUE
    BY <2>4
  <2>6. PICK g : TableTo(g, v, Cardinality(U) - 1)
    <3>1. U \ {x} \notin Bad
      BY <2>1, <2>5
    <3> QED BY <2>1, <2>3, <3>1
  <2> DEFINE n == Cardinality(U) - 1
             h == [S \in SUBSET Windows |->
                     IF Cardinality(S) <= n THEN g[S] ELSE Entry(g, v, S)]
  <2>7. ASSUME NEW S \in SUBSET Windows, Cardinality(S) <= n + 1
        PROVE  h[S] = Entry(h, v, S)
    <3>1. ASSUME NEW w \in S
          PROVE  g[S \ {w}] = h[S \ {w}]
      <4>1. S \ {w} \in SUBSET Windows /\ Cardinality(S \ {w}) <= n
        BY <2>1, <2>2, <2>3, <2>7
      <4> HIDE DEF n
      <4> QED BY <4>1
    <3>2. Entry(g, v, S) = Entry(h, v, S)
      <4> HIDE DEF h
      <4> QED BY <3>1, EntryAgrees
    <3>3. h[S] = Entry(g, v, S)
      BY <2>6 DEF TableTo
    <3> QED BY <3>2, <3>3
  <2>8. TableTo(h, v, n + 1)
    <3> HIDE DEF h, n
    <3> QED BY <2>7 DEF TableTo
  <2>9. n + 1 = Cardinality(U)
    BY <2>1, <2>2
  <2> HIDE DEF h
  <2> QED BY <2>1, <2>8, <2>9
<1>2. PICK g : TableTo(g, v, Cardinality(Windows))
  BY <1>1
<1> DEFINE h == [S \in SUBSET Windows |-> g[S]]
<1>3. ASSUME NEW S \in SUBSET Windows
      PROVE  h[S] = Entry(h, v, S)
  <2>1. Cardinality(S) <= Cardinality(Windows)
    BY FS_Subset
  <2>2. g[S] = Entry(g, v, S)
    BY <1>2, <2>1 DEF TableTo
  <2>3. \A w \in S : g[S \ {w}] = h[S \ {w}]
    OBVIOUS
  <2>4. Entry(g, v, S) = Entry(h, v, S)
    <3> HIDE DEF h
    <3> QED BY <2>3, EntryAgrees
  <2> QED BY <2>2, <2>4
<1>4. h = [S \in SUBSET Windows |-> h[S]]
  OBVIOUS
<1>5. Table(h, v)
  <2> HIDE DEF h
  <2>1. [S \in SUBSET Windows |-> h[S]]
          = [S \in SUBSET Windows |-> Entry(h, v, S)]
    BY <1>3
  <2> QED BY <1>4, <2>1 DEF Table
<1> QED BY <1>5

LEMMA LayoutTableRec ==
    ASSUME NEW v \in Workspaces, NEW S \in SUBSET Windows
    PROVE  LayoutTable[v][S] = Entry(LayoutTable[v], v, S)
<1>1. Table(LayoutTable[v], v)
  BY LayoutTableIsATable, TableExists
<1> QED BY <1>1 DEF Table

\* The layout of S in which w takes a half of the tile that a has in l.
Split(l, S, w, a, k) ==
    [u \in S |-> IF u = w THEN Halves(l[a])[3 - k]
                 ELSE IF u = a THEN Halves(l[a])[k] ELSE l[u]]

LEMMA SplitsAre ==
    ASSUME NEW L, NEW S, NEW w, NEW z
    PROVE  z \in Splits(L, S, w) <=>
             \E l \in L : \E a \in S \ {w} : \E k \in 1..2 : z = Split(l, S, w, a, k)
BY DEF Splits, Split

\* What holds of the workspace as one tile and is kept by every split holds of each layout.
LEMMA LayoutInduction ==
    ASSUME NEW v \in Workspaces, NEW K,
           <<>> \in K[{}],
           \A w \in Windows : [u \in {w} |-> TileArea(v)] \in K[{w}],
           \A S \in SUBSET Windows : \A w \in S : \A a \in S \ {w} : \A k \in 1..2 :
             \A l \in K[S \ {w}] :
               l \in LayoutTable[v][S \ {w}] => Split(l, S, w, a, k) \in K[S]
    PROVE  \A S \in SUBSET Windows : LayoutTable[v][S] \subseteq K[S]
<1> DEFINE Bad == {S \in SUBSET Windows : ~(LayoutTable[v][S] \subseteq K[S])}
<1> SUFFICES ASSUME Bad # {} PROVE FALSE
  OBVIOUS
<1>0. IsFiniteSet(Windows)
  BY TilingAssumption DEF TilingAssumption
<1>1. PICK S \in Bad : \A T \in Bad : T \subseteq S => T = S
  <2>1. Bad \in SUBSET SUBSET Windows
    OBVIOUS
  <2> HIDE DEF Bad
  <2> QED BY <1>0, <2>1, LeastSet
<1>2. LayoutTable[v][S] = Entry(LayoutTable[v], v, S)
  BY <1>1, LayoutTableRec
<1>3. PICK z \in LayoutTable[v][S] : z \notin K[S]
  BY <1>1
<1>4. IsFiniteSet(S)
  BY <1>0, <1>1, FS_Subset
<1>5. S # {}
  BY <1>2, <1>3 DEF Entry
<1>6. Cardinality(S) # 1
  <2> SUFFICES ASSUME Cardinality(S) = 1 PROVE FALSE
    OBVIOUS
  <2>1. PICK w : S = {w}
    BY <1>4, FS_Singleton
  <2>2. z = [u \in {w} |-> TileArea(v)] /\ w \in Windows
    BY <1>1, <1>2, <1>3, <1>5, <2>1 DEF Entry
  <2> QED BY <1>3, <2>1, <2>2
<1>7. PICK w \in S : z \in Splits(LayoutTable[v][S \ {w}], S, w)
  BY <1>2, <1>3, <1>5, <1>6 DEF Entry
<1>8. PICK l \in LayoutTable[v][S \ {w}], a \in S \ {w}, k \in 1..2 : z = Split(l, S, w, a, k)
  BY <1>7, SplitsAre
<1>9. l \in K[S \ {w}]
  <2>1. S \ {w} \notin Bad
    BY <1>1
  <2> QED BY <1>1, <1>8, <2>1
<1> QED BY <1>1, <1>3, <1>8, <1>9

\* A layout gives each window of its set a tile.
LEMMA LayoutsAreTiles ==
    ASSUME NEW v \in Workspaces, NEW S \in SUBSET Windows
    PROVE  LayoutTable[v][S] \subseteq [S -> Tile] /\ Layouts(v, S) = LayoutTable[v][S]
<1> DEFINE K == [T \in SUBSET Windows |-> [T -> Tile]]
<1>1. <<>> \in K[{}]
  OBVIOUS
<1>2. \A w \in Windows : [u \in {w} |-> TileArea(v)] \in K[{w}]
  BY TileAreaIsTile
<1>3. ASSUME NEW T \in SUBSET Windows, NEW w \in T, NEW a \in T \ {w}, NEW k \in 1..2,
             NEW l \in K[T \ {w}]
      PROVE  Split(l, T, w, a, k) \in K[T]
  <2>1. l \in [T \ {w} -> Tile]
    OBVIOUS
  <2>2. Halves(l[a])[k] \in Tile /\ Halves(l[a])[3 - k] \in Tile
    BY <2>1, HalvesAreTiles
  <2>3. Split(l, T, w, a, k) \in [T -> Tile]
    BY <2>1, <2>2 DEF Split
  <2> QED BY <2>3
<1>4. \A T \in SUBSET Windows : LayoutTable[v][T] \subseteq K[T]
  <2> HIDE DEF K
  <2> QED BY <1>1, <1>2, <1>3, LayoutInduction
<1>5. LayoutTable[v][S] \subseteq [S -> Tile]
  BY <1>4
<1>6. \A l \in LayoutTable[v][S] : [w \in S |-> l[w]] = l
  BY <1>5
<1> QED BY <1>5, <1>6 DEF Layouts

\* Tiles f within the area of v and apart from each other.
Packed(f, v) ==
    /\ \A w \in DOMAIN f : Inside(f[w], TileArea(v))
    /\ \A w, u \in DOMAIN f : w # u => Apart(f[w], f[u])

LEMMA SplitIsPacked ==
    ASSUME NEW v \in Workspaces, NEW S, NEW w \in S, NEW a \in S \ {w}, NEW k \in 1..2,
           NEW l \in [S \ {w} -> Tile], Packed(l, v), Splittable(l[a])
    PROVE  Packed(Split(l, S, w, a, k), v)
<1> DEFINE r == l[a]
           p == Halves(r)[3 - k]
           q == Halves(r)[k]
           z == Split(l, S, w, a, k)
<1>1. r \in Tile /\ r \in Rect
  BY DEF Tile
<1>2. Halves(r)[1] \in Tile /\ Halves(r)[2] \in Tile
  BY <1>1, HalvesAreTiles
<1>3. /\ r.w >= r.h => r.w >= 2 * MinTile + Gap
      /\ r.w < r.h => r.h >= 2 * MinTile + Gap
  BY <1>1 DEF Splittable, AtLeast, Rect
<1>4. /\ Inside(Halves(r)[1], r) /\ Inside(Halves(r)[2], r)
      /\ Apart(Halves(r)[1], Halves(r)[2])
  <2> HIDE DEF r
  <2> QED BY <1>1, <1>3, HalvesFit
<1>5. /\ p \in Tile /\ q \in Tile /\ Inside(p, r) /\ Inside(q, r)
      /\ Apart(p, q) /\ Apart(q, p)
  <2> HIDE DEF r
  <2>1. (k = 1 /\ 3 - k = 2) \/ (k = 2 /\ 3 - k = 1)
    BY k = 1 \/ k = 2
  <2> QED BY <1>2, <1>4, <2>1, ApartSymmetric
<1>6. /\ DOMAIN z = S /\ z[w] = p /\ z[a] = q
      /\ \A u \in S : u # w /\ u # a => z[u] = l[u]
  BY DEF Split
<1>7. TileArea(v) \in Rect /\ DOMAIN l = S \ {w} /\ \A u \in S \ {w} : l[u] \in Rect
  BY TileAreaIsTile DEF Tile
<1>8. p \in Rect /\ q \in Rect
  BY <1>5 DEF Tile
<1>9. Inside(r, TileArea(v)) /\ \A u \in S \ {w} : u # a => Apart(r, l[u])
  BY <1>7 DEF Packed
<1> HIDE DEF r, p, q, z
<1>10. Inside(p, TileArea(v)) /\ Inside(q, TileArea(v))
  BY <1>1, <1>5, <1>7, <1>8, <1>9, InsideTrans
<1>11. \A u \in S \ {w} : u # a => Apart(p, l[u]) /\ Apart(q, l[u])
  BY <1>1, <1>5, <1>7, <1>8, <1>9, InsideIsApart
<1>12. \A u \in S \ {w} : u # a => Apart(l[u], p) /\ Apart(l[u], q)
  BY <1>11, ApartSymmetric
<1>13. \A u \in DOMAIN z : Inside(z[u], TileArea(v))
  BY <1>6, <1>7, <1>10 DEF Packed
<1>14. ASSUME NEW x \in S, NEW y \in S, x # y
       PROVE  Apart(z[x], z[y])
  <2>1. CASE x \notin {w, a} /\ y \notin {w, a}
    BY <1>6, <1>7, <1>14, <2>1 DEF Packed
  <2>2. CASE x \in {w, a} /\ y \notin {w, a}
    BY <1>6, <1>11, <2>2
  <2>3. CASE x \notin {w, a} /\ y \in {w, a}
    BY <1>6, <1>12, <2>3
  <2>4. CASE x \in {w, a} /\ y \in {w, a}
    BY <1>5, <1>6, <1>14, <2>4
  <2> QED BY <2>1, <2>2, <2>3, <2>4
<1>15. Packed(z, v)
  BY <1>6, <1>13, <1>14 DEF Packed
<1> QED BY <1>15 DEF z

LEMMA LayoutsArePacked ==
    ASSUME Roomy, NEW v \in Workspaces, NEW S \in SUBSET Windows, NEW l \in Layouts(v, S)
    PROVE  Packed(l, v)
<1> DEFINE K == [T \in SUBSET Windows |-> {f \in [T -> Tile] : Packed(f, v)}]
<1>1. <<>> \in K[{}]
  BY DEF Packed
<1>2. ASSUME NEW w \in Windows
      PROVE  [u \in {w} |-> TileArea(v)] \in K[{w}]
  <2>1. TileArea(v) \in Tile /\ Inside(TileArea(v), TileArea(v))
    BY TileAreaIsTile DEF Inside, Tile, Rect
  <2> QED BY <2>1 DEF Packed
<1>3. ASSUME NEW T \in SUBSET Windows, NEW w \in T, NEW a \in T \ {w}, NEW k \in 1..2,
             NEW f \in K[T \ {w}], f \in LayoutTable[v][T \ {w}]
      PROVE  Split(f, T, w, a, k) \in K[T]
  <2>1. f \in [T \ {w} -> Tile] /\ Packed(f, v)
    OBVIOUS
  <2>2. Splittable(f[a])
    BY <1>3 DEF Roomy
  <2>3. Packed(Split(f, T, w, a, k), v)
    BY <2>1, <2>2, SplitIsPacked
  <2>4. Split(f, T, w, a, k) \in [T -> Tile]
    <3>1. Halves(f[a])[k] \in Tile /\ Halves(f[a])[3 - k] \in Tile
      BY <2>1, HalvesAreTiles
    <3> QED BY <2>1, <3>1 DEF Split
  <2> QED BY <2>3, <2>4
<1>4. \A T \in SUBSET Windows : LayoutTable[v][T] \subseteq K[T]
  <2> HIDE DEF K
  <2> QED BY <1>1, <1>2, <1>3, LayoutInduction
<1>5. l \in LayoutTable[v][S]
  BY LayoutsAreTiles
<1> QED BY <1>4, <1>5

Longer(r) == AtLeast(r.w, r.h)

\* A tile whose longer side has room for two sides of n with their gaps leaves each half
\* a side of n.
LEMMA HalvesAreLong ==
    ASSUME NEW r \in Tile, NEW k \in 1..2, NEW n \in Nat, Longer(r) + Gap >= 2 * n
    PROVE  Longer(Halves(r)[k]) + Gap >= n
<1>0. r \in Rect /\ r.x \in Int /\ r.y \in Int /\ r.w \in Nat /\ r.h \in Nat
      /\ MinTile \in Nat /\ Gap \in Nat
  BY TilingAssumption DEF Rect, Tile, TilingAssumption
<1> DEFINE p == Halves(r)[k]
<1>1. p \in Tile
  BY HalvesAreTiles
<1>2. ASSUME NEW q, NEW s PROVE <<q, s>>[k] \in {q, s}
  BY k = 1 \/ k = 2
<1>3. p.w \in Nat /\ p.h \in Nat
  BY <1>1 DEF Tile, Rect
<1>4. CASE r.w >= r.h
  <2> DEFINE fw == AtLeast((r.w - Gap) \div 2, MinTile)
             gw == AtLeast(r.w - fw - Gap, MinTile)
  <2>1. Halves(r) = <<[r EXCEPT !.w = fw], [r EXCEPT !.x = r.x + fw + Gap, !.w = gw]>>
    BY <1>4 DEF Halves
  <2>2. r.w + Gap >= 2 * n
    BY <1>0, <1>4 DEF Longer, AtLeast
  <2>3. fw \in Int /\ gw \in Int
    BY <1>0 DEF AtLeast
  <2>4. fw + Gap >= n /\ gw + Gap >= n
    <3>1. CASE (r.w - Gap) \div 2 >= MinTile
      BY <1>0, <2>2, <3>1 DEF AtLeast
    <3>2. CASE (r.w - Gap) \div 2 < MinTile
      <4>1. fw = MinTile
        BY <1>0, <3>2 DEF AtLeast
      <4> QED BY <1>0, <2>2, <3>2, <4>1 DEF AtLeast
    <3> QED BY <1>0, <3>1, <3>2
  <2> HIDE DEF fw, gw
  <2>5. p.w = fw \/ p.w = gw
    <3>1. [r EXCEPT !.w = fw].w = fw /\ [r EXCEPT !.x = r.x + fw + Gap, !.w = gw].w = gw
      BY <1>0 DEF Rect
    <3>2. p \in {[r EXCEPT !.w = fw], [r EXCEPT !.x = r.x + fw + Gap, !.w = gw]}
      BY <1>2, <2>1
    <3> QED BY <3>1, <3>2
  <2> QED BY <1>0, <1>3, <2>3, <2>4, <2>5 DEF Longer, AtLeast
<1>5. CASE ~(r.w >= r.h)
  <2> DEFINE fh == AtLeast((r.h - Gap) \div 2, MinTile)
             gh == AtLeast(r.h - fh - Gap, MinTile)
  <2>1. Halves(r) = <<[r EXCEPT !.h = fh], [r EXCEPT !.y = r.y + fh + Gap, !.h = gh]>>
    BY <1>5 DEF Halves
  <2>2. r.h + Gap >= 2 * n
    BY <1>0, <1>5 DEF Longer, AtLeast
  <2>3. fh \in Int /\ gh \in Int
    BY <1>0 DEF AtLeast
  <2>4. fh + Gap >= n /\ gh + Gap >= n
    <3>1. CASE (r.h - Gap) \div 2 >= MinTile
      BY <1>0, <2>2, <3>1 DEF AtLeast
    <3>2. CASE (r.h - Gap) \div 2 < MinTile
      <4>1. fh = MinTile
        BY <1>0, <3>2 DEF AtLeast
      <4> QED BY <1>0, <2>2, <3>2, <4>1 DEF AtLeast
    <3> QED BY <1>0, <3>1, <3>2
  <2> HIDE DEF fh, gh
  <2>5. p.h = fh \/ p.h = gh
    <3> DEFINE moved == [r EXCEPT !.y = r.y + fh + Gap]
    <3>1. moved = [x |-> r.x, y |-> r.y + fh + Gap, w |-> r.w, h |-> r.h]
      BY <1>0 DEF Rect
    <3>2. [r EXCEPT !.h = fh].h = fh
      BY <1>0 DEF Rect
    <3>3. [moved EXCEPT !.h = gh].h = gh
      <4> HIDE DEF moved
      <4> QED BY <3>1
    <3>4. p \in {[r EXCEPT !.h = fh], [moved EXCEPT !.h = gh]}
      BY <1>2, <2>1
    <3> QED BY <3>2, <3>3, <3>4
  <2> QED BY <1>0, <1>3, <2>3, <2>4, <2>5 DEF Longer, AtLeast
<1> QED BY <1>4, <1>5

\* Zones are large enough for n windows when their longer side, less the gaps around it,
\* has room for f[1], where each f[k] is twice f[k + 1] and all have room for MinTile and
\* its gap: (MinTile + Gap) * 2^(n - 1) will do.
THEOREM LongZonesAreRoomy ==
    ASSUME NEW f \in [1..Cardinality(Windows) -> Nat],
           \A k \in 1..Cardinality(Windows) : f[k] >= MinTile + Gap,
           \A k \in 1..(Cardinality(Windows) - 1) : f[k] >= 2 * f[k + 1],
           \A v \in Workspaces : Longer(TileArea(v)) + Gap >= f[1]
    PROVE  Roomy
<1> DEFINE n == Cardinality(Windows)
<1>1. /\ IsFiniteSet(Windows) /\ n \in Nat /\ MinTile \in Nat /\ Gap \in Nat
  BY FS_CardinalityType, TilingAssumption DEF TilingAssumption
<1>2. \A S \in SUBSET Windows : /\ IsFiniteSet(S) /\ Cardinality(S) \in Nat
                                /\ Cardinality(S) <= n
                                /\ Cardinality(S) = n => S = Windows
                                /\ S # {} => Cardinality(S) >= 1
                                /\ \A w \in S : Cardinality(S \ {w}) = Cardinality(S) - 1
  BY <1>1, FS_Subset, FS_CardinalityType, FS_EmptySet, FS_RemoveElement
<1> SUFFICES ASSUME NEW v \in Workspaces
             PROVE  \A S \in (SUBSET Windows) \ {Windows} :
                      \A l \in LayoutTable[v][S] : \A w \in S : Splittable(l[w])
  BY DEF Roomy
<1> DEFINE K == [S \in SUBSET Windows |->
                    {l \in [S -> Tile] : \A w \in S : Longer(l[w]) + Gap >= f[Cardinality(S)]}]
<1> HIDE DEF n
<1>3. <<>> \in K[{}]
  OBVIOUS
<1>4. \A w \in Windows : [u \in {w} |-> TileArea(v)] \in K[{w}]
  BY TileAreaIsTile, FS_Singleton
<1>5. ASSUME NEW S \in SUBSET Windows, NEW w \in S, NEW a \in S \ {w}, NEW k \in 1..2,
             NEW l \in K[S \ {w}]
      PROVE  Split(l, S, w, a, k) \in K[S]
  <2> DEFINE c == Cardinality(S)
             z == Split(l, S, w, a, k)
  <2>1. l \in [S \ {w} -> Tile] /\ \A u \in S \ {w} : Longer(l[u]) + Gap >= f[c - 1]
    BY <1>2
  <2>2. c \in 2..n /\ c - 1 \in 1..(n - 1) /\ (c - 1) + 1 = c
    <3>1. Cardinality(S \ {w}) = c - 1 /\ Cardinality(S \ {w}) >= 1
      BY <1>2
    <3>2. c \in Nat /\ c <= n
      BY <1>2
    <3> HIDE DEF c
    <3> QED BY <1>1, <3>1, <3>2
  <2> HIDE DEF c
  <2>3. f[c - 1] >= 2 * f[c] /\ f[c - 1] \in Nat /\ f[c] \in Nat
    <3>1. f[c - 1] >= 2 * f[(c - 1) + 1]
      BY <2>2 DEF n
    <3>2. c - 1 \in 1..n /\ c \in 1..n
      BY <1>1, <2>2
    <3> QED BY <2>2, <3>1, <3>2 DEF n
  <2>4. Halves(l[a])[k] \in Tile /\ Halves(l[a])[3 - k] \in Tile
    BY <2>1, HalvesAreTiles
  <2>5. \A u \in S \ {w} : l[u] \in Tile /\ Longer(l[u]) \in Nat
    BY <2>1 DEF Tile, Rect, Longer, AtLeast
  <2>6. \A u \in S \ {w} : Longer(l[u]) + Gap >= 2 * f[c] /\ Longer(l[u]) + Gap >= f[c]
    BY <1>1, <2>1, <2>3, <2>5
  <2>7. Longer(Halves(l[a])[k]) + Gap >= f[c] /\ Longer(Halves(l[a])[3 - k]) + Gap >= f[c]
    <3>1. l[a] \in Tile /\ Longer(l[a]) + Gap >= 2 * f[c] /\ 3 - k \in 1..2
      BY <2>5, <2>6
    <3> QED BY <2>3, <3>1, HalvesAreLong
  <2>8. z \in [S -> Tile]
    BY <2>1, <2>4 DEF Split
  <2>9. \A u \in S : Longer(z[u]) + Gap >= f[c]
    BY <2>6, <2>7 DEF Split
  <2> HIDE DEF z
  <2>10. z \in K[S]
    BY <2>8, <2>9 DEF c
  <2> QED BY <2>10 DEF z
<1>6. \A S \in SUBSET Windows : LayoutTable[v][S] \subseteq K[S]
  <2> HIDE DEF K
  <2> QED BY <1>3, <1>4, <1>5, LayoutInduction
<1>7. ASSUME NEW S \in (SUBSET Windows) \ {Windows}, NEW l \in LayoutTable[v][S], NEW w \in S
      PROVE  Splittable(l[w])
  <2> DEFINE c == Cardinality(S)
  <2>1. l \in [S -> Tile] /\ Longer(l[w]) + Gap >= f[c]
    BY <1>6
  <2>2. c \in 1..(n - 1) /\ c \in 1..n /\ c + 1 \in 1..n
    <3>1. c \in Nat /\ c <= n /\ c # n /\ c >= 1
      BY <1>2
    <3> HIDE DEF c
    <3> QED BY <1>1, <3>1
  <2> HIDE DEF c
  <2>3. f[c] >= 2 * f[c + 1] /\ f[c + 1] >= MinTile + Gap /\ f[c] \in Nat /\ f[c + 1] \in Nat
    BY <2>2 DEF n
  <2>4. Longer(l[w]) \in Nat
    BY <2>1 DEF Tile, Rect, Longer, AtLeast
  <2>5. Longer(l[w]) >= 2 * MinTile + Gap
    BY <1>1, <2>1, <2>3, <2>4
  <2> QED BY <2>5 DEF Splittable, Longer
<1> QED BY <1>7

-----------------------------------------------------------------------------
(* The area of tiles *)

LEMMA AreaIsNat ==
    ASSUME NEW r \in Tile
    PROVE  AreaOf(r) \in Nat
<1>1. r.w \in Nat /\ r.h \in Nat /\ Gap \in Nat
  BY TilingAssumption DEF TilingAssumption, Tile, Rect
<1>2. \A i, j \in Nat : i * j \in Nat
  OBVIOUS
<1> QED BY <1>1, <1>2 DEF AreaOf

Pick(s) == CHOOSE x \in s : TRUE

LEMMA PickIsIn == ASSUME NEW s, s # {} PROVE Pick(s) \in s
BY DEF Pick

\* g sums the tiles f of the subsets of S.
Sums(g, S, f) ==
    g = [s \in SUBSET S |-> IF s = {} THEN 0 ELSE AreaOf(f[Pick(s)]) + g[s \ {Pick(s)}]]

LEMMA AreasOfSums ==
    ASSUME NEW S, NEW f
    PROVE  Areas(f, S) = (CHOOSE g : Sums(g, S, f))[S]
BY DEF Areas, MapThenSumSet, MapThenFoldSet, Sums, Pick

LEMMA SumsAgree ==
    ASSUME NEW S, IsFiniteSet(S), NEW T, NEW f, NEW g, NEW h,
           Sums(g, S, f), Sums(h, T, f), NEW U \in SUBSET S, U \in SUBSET T
    PROVE  g[U] = h[U]
<1> DEFINE Bad == {V \in SUBSET S : V \in SUBSET T /\ g[V] # h[V]}
<1> SUFFICES ASSUME Bad # {} PROVE FALSE
  OBVIOUS
<1>1. PICK V \in Bad : \A W \in Bad : W \subseteq V => W = V
  <2>1. Bad \in SUBSET SUBSET S
    OBVIOUS
  <2> HIDE DEF Bad
  <2> QED BY <2>1, LeastSet
<1>2. g[{}] = 0 /\ h[{}] = 0
  BY DEF Sums
<1>3. V # {}
  BY <1>1, <1>2
<1>4. Pick(V) \in V
  BY <1>3, PickIsIn
<1>5. g[V \ {Pick(V)}] = h[V \ {Pick(V)}]
  BY <1>1, <1>4
<1>6. g[V] = AreaOf(f[Pick(V)]) + g[V \ {Pick(V)}] /\ h[V] = AreaOf(f[Pick(V)]) + h[V \ {Pick(V)}]
  BY <1>1, <1>3 DEF Sums
<1> QED BY <1>1, <1>5, <1>6

LEMMA SumsExist ==
    ASSUME NEW S, IsFiniteSet(S), NEW f
    PROVE  \E g : Sums(g, S, f)
<1> DEFINE Bad == {T \in SUBSET S : ~\E g : Sums(g, T, f)}
<1> SUFFICES ASSUME Bad # {} PROVE FALSE
  OBVIOUS
<1>1. PICK T \in Bad : \A W \in Bad : W \subseteq T => W = T
  <2>1. Bad \in SUBSET SUBSET S
    OBVIOUS
  <2> HIDE DEF Bad
  <2> QED BY <2>1, LeastSet
<1>2. T # {}
  <2>1. Sums([s \in SUBSET {} |-> 0], {}, f)
    BY DEF Sums
  <2> QED BY <2>1, <1>1
<1> DEFINE G(U) == CHOOSE g : Sums(g, U, f)
           P == T \ {Pick(T)}
           Q == [s \in SUBSET T |-> IF s = T THEN AreaOf(f[Pick(T)]) + G(P)[P] ELSE G(s)[s]]
<1>3. ASSUME NEW U \in SUBSET T, U # T PROVE Sums(G(U), U, f)
  BY <1>1, <1>3
<1>4. P \in SUBSET T /\ P # T
  BY <1>2, PickIsIn
<1>5. ASSUME NEW s \in SUBSET T
      PROVE  Q[s] = IF s = {} THEN 0 ELSE AreaOf(f[Pick(s)]) + Q[s \ {Pick(s)}]
  <2>1. CASE s = {}
    <3>1. Sums(G({}), {}, f)
      BY <1>2, <1>3
    <3>2. G({})[{}] = 0
      BY <3>1 DEF Sums
    <3> QED BY <2>1, <3>2, <1>2
  <2>2. CASE s = T
    BY <2>2, <1>2, <1>4
  <2>3. CASE s # T /\ s # {}
    <3> DEFINE R == s \ {Pick(s)}
    <3>1. R \in SUBSET s /\ R # s /\ R \in SUBSET T /\ R # T
      BY <2>3, PickIsIn
    <3>2. Sums(G(s), s, f) /\ Sums(G(R), R, f)
      BY <3>1, <1>3, <2>3
    <3>3. IsFiniteSet(s)
      BY <1>1, FS_Subset
    <3>4. G(s)[R] = G(R)[R]
      <4> HIDE DEF G, R
      <4> QED BY <3>1, <3>2, <3>3, SumsAgree
    <3>5. G(s)[s] = AreaOf(f[Pick(s)]) + G(s)[R]
      <4> HIDE DEF G
      <4> QED BY <3>2, <2>3 DEF Sums
    <3> QED BY <3>1, <3>4, <3>5, <2>3
  <2> QED BY <2>1, <2>2, <2>3
<1>6. Q = [s \in SUBSET T |-> Q[s]]
  OBVIOUS
<1>7. Sums(Q, T, f)
  <2> HIDE DEF Q
  <2> QED BY <1>5, <1>6 DEF Sums
<1> QED BY <1>1, <1>7

LEMMA AreasRec ==
    ASSUME NEW S, IsFiniteSet(S), NEW f
    PROVE  /\ S = {} => Areas(f, S) = 0
           /\ S # {} => /\ Pick(S) \in S
                        /\ Areas(f, S) = AreaOf(f[Pick(S)]) + Areas(f, S \ {Pick(S)})
<1> DEFINE G(U) == CHOOSE g : Sums(g, U, f)
           P == S \ {Pick(S)}
<1>1. Sums(G(S), S, f)
  BY SumsExist
<1>2. IsFiniteSet(P)
  BY FS_Subset
<1>3. Sums(G(P), P, f)
  <2> HIDE DEF P
  <2> QED BY <1>2, SumsExist
<1>4. Areas(f, S) = G(S)[S] /\ Areas(f, P) = G(P)[P]
  BY AreasOfSums
<1>5. S = {} => G(S)[S] = 0
  <2> HIDE DEF G
  <2> QED BY <1>1 DEF Sums
<1>6. G(S)[P] = G(P)[P]
  <2> HIDE DEF G
  <2>1. P \in SUBSET S /\ P \in SUBSET P
    OBVIOUS
  <2> HIDE DEF P
  <2> QED BY <2>1, <1>1, <1>3, SumsAgree
<1>7. S # {} => G(S)[S] = AreaOf(f[Pick(S)]) + G(S)[P]
  <2> HIDE DEF G
  <2> QED BY <1>1 DEF Sums
<1> QED BY <1>4, <1>5, <1>6, <1>7, PickIsIn

LEMMA AreasNat ==
    ASSUME NEW D, NEW f \in [D -> Tile], NEW S \in SUBSET D, IsFiniteSet(S)
    PROVE  Areas(f, S) \in Nat
<1> DEFINE Bad == {T \in SUBSET S : Areas(f, T) \notin Nat}
<1> SUFFICES ASSUME Bad # {} PROVE FALSE
  OBVIOUS
<1>1. PICK T \in Bad : \A W \in Bad : W \subseteq T => W = T
  <2>1. Bad \in SUBSET SUBSET S
    OBVIOUS
  <2> HIDE DEF Bad
  <2> QED BY <2>1, LeastSet
<1>2. IsFiniteSet(T)
  BY FS_Subset
<1>3. T # {}
  <2>1. T = {} => Areas(f, T) = 0
    BY <1>2, AreasRec
  <2> QED BY <2>1, <1>1
<1>4. Pick(T) \in T /\ Areas(f, T) = AreaOf(f[Pick(T)]) + Areas(f, T \ {Pick(T)})
  BY <1>2, <1>3, AreasRec
<1>5. Areas(f, T \ {Pick(T)}) \in Nat
  BY <1>1, <1>4
<1>6. AreaOf(f[Pick(T)]) \in Nat
  BY <1>4, AreaIsNat
<1> QED BY <1>1, <1>4, <1>5, <1>6

\* Any tile may be counted first.
LEMMA AreasSplit ==
    ASSUME NEW D, NEW f \in [D -> Tile], NEW S \in SUBSET D, IsFiniteSet(S), NEW x \in S
    PROVE  Areas(f, S) = AreaOf(f[x]) + Areas(f, S \ {x})
<1> DEFINE Bad == {T \in SUBSET S : \E y \in T : Areas(f, T) # AreaOf(f[y]) + Areas(f, T \ {y})}
<1> SUFFICES ASSUME Bad # {} PROVE FALSE
  OBVIOUS
<1>1. PICK T \in Bad : \A W \in Bad : W \subseteq T => W = T
  <2>1. Bad \in SUBSET SUBSET S
    OBVIOUS
  <2> HIDE DEF Bad
  <2> QED BY <2>1, LeastSet
<1>2. PICK y \in T : Areas(f, T) # AreaOf(f[y]) + Areas(f, T \ {y})
  BY <1>1
<1> DEFINE p == Pick(T)
           R == T \ {p, y}
<1>3. \A W \in SUBSET S : IsFiniteSet(W) /\ Areas(f, W) \in Nat
  BY FS_Subset, AreasNat
<1>4. p \in T /\ Areas(f, T) = AreaOf(f[p]) + Areas(f, T \ {p})
  BY <1>2, <1>3, AreasRec
<1>5. p # y
  BY <1>2, <1>4
<1>6. T \ {p} \notin Bad /\ T \ {y} \notin Bad
  BY <1>1, <1>4, <1>5
<1>7. /\ T \ {p} \in SUBSET S /\ T \ {y} \in SUBSET S /\ R \in SUBSET S
      /\ (T \ {p}) \ {y} = R /\ (T \ {y}) \ {p} = R
      /\ y \in T \ {p} /\ p \in T \ {y}
  BY <1>4, <1>5
<1>8. Areas(f, T \ {p}) = AreaOf(f[y]) + Areas(f, R) /\ Areas(f, T \ {y}) = AreaOf(f[p]) + Areas(f, R)
  BY <1>6, <1>7
<1>9. AreaOf(f[p]) \in Nat /\ AreaOf(f[y]) \in Nat /\ Areas(f, R) \in Nat
  BY <1>3, <1>4, <1>7, AreaIsNat
<1> QED BY <1>2, <1>4, <1>8, <1>9

\* Only the tiles of S count.
LEMMA AreasAgree ==
    ASSUME NEW S, IsFiniteSet(S), NEW f, NEW h, \A w \in S : f[w] = h[w]
    PROVE  Areas(f, S) = Areas(h, S)
<1> DEFINE Bad == {T \in SUBSET S : Areas(f, T) # Areas(h, T)}
<1> SUFFICES ASSUME Bad # {} PROVE FALSE
  OBVIOUS
<1>1. PICK T \in Bad : \A W \in Bad : W \subseteq T => W = T
  <2>1. Bad \in SUBSET SUBSET S
    OBVIOUS
  <2> HIDE DEF Bad
  <2> QED BY <2>1, LeastSet
<1>2. IsFiniteSet(T)
  BY FS_Subset
<1>3. T # {}
  <2>1. T = {} => Areas(f, T) = 0 /\ Areas(h, T) = 0
    BY <1>2, AreasRec
  <2> QED BY <2>1, <1>1
<1>4. /\ Pick(T) \in T
      /\ Areas(f, T) = AreaOf(f[Pick(T)]) + Areas(f, T \ {Pick(T)})
      /\ Areas(h, T) = AreaOf(h[Pick(T)]) + Areas(h, T \ {Pick(T)})
  BY <1>2, <1>3, AreasRec
<1>5. Areas(f, T \ {Pick(T)}) = Areas(h, T \ {Pick(T)})
  BY <1>1, <1>4
<1>6. f[Pick(T)] = h[Pick(T)]
  BY <1>4
<1> QED BY <1>1, <1>4, <1>5, <1>6

LEMMA SplitKeepsArea ==
    ASSUME NEW S, IsFiniteSet(S), NEW w \in S, NEW a \in S \ {w}, NEW k \in 1..2,
           NEW l \in [S \ {w} -> Tile], Splittable(l[a])
    PROVE  Areas(Split(l, S, w, a, k), S) = Areas(l, S \ {w})
<1> DEFINE r == l[a]
           z == Split(l, S, w, a, k)
           R == (S \ {w}) \ {a}
<1>1. r \in Tile /\ r \in Rect
  BY DEF Tile
<1>2. /\ r.w >= r.h => r.w >= 2 * MinTile + Gap
      /\ r.w < r.h => r.h >= 2 * MinTile + Gap
  BY <1>1 DEF Splittable, AtLeast, Rect
<1>3. AreaOf(Halves(r)[1]) + AreaOf(Halves(r)[2]) = AreaOf(r)
  <2> HIDE DEF r
  <2> QED BY <1>1, <1>2, HalvesFit
<1>4. Halves(r)[k] \in Tile /\ Halves(r)[3 - k] \in Tile
  <2> HIDE DEF r
  <2> QED BY <1>1, HalvesAreTiles
<1>5. z \in [S -> Tile]
  <2>1. z = [u \in S |-> IF u = w THEN Halves(r)[3 - k]
                         ELSE IF u = a THEN Halves(r)[k] ELSE l[u]]
    BY DEF Split
  <2> HIDE DEF r, z
  <2> QED BY <2>1, <1>4
<1>6. z[w] = Halves(r)[3 - k] /\ z[a] = Halves(r)[k] /\ \A u \in R : z[u] = l[u]
  BY DEF Split
<1>7. IsFiniteSet(S \ {w}) /\ IsFiniteSet(R)
  BY FS_RemoveElement
<1> HIDE DEF z, r, R
<1>8. Areas(z, S) = AreaOf(z[w]) + Areas(z, S \ {w})
  BY <1>5, AreasSplit
<1>9. Areas(z, S \ {w}) = AreaOf(z[a]) + Areas(z, R)
  BY <1>5, <1>7, AreasSplit DEF R
<1>10. Areas(l, S \ {w}) = AreaOf(r) + Areas(l, R)
  BY <1>7, AreasSplit DEF R, r
<1>11. Areas(z, R) = Areas(l, R)
  BY <1>6, <1>7, AreasAgree
<1>12. AreaOf(z[w]) + AreaOf(z[a]) = AreaOf(r)
  <2>1. (k = 1 /\ 3 - k = 2) \/ (k = 2 /\ 3 - k = 1)
    BY k = 1 \/ k = 2
  <2>2. AreaOf(Halves(r)[1]) \in Nat /\ AreaOf(Halves(r)[2]) \in Nat
    BY <1>4, <2>1, AreaIsNat
  <2> QED BY <1>3, <1>6, <2>1, <2>2
<1>13. AreaOf(z[w]) \in Nat /\ AreaOf(z[a]) \in Nat /\ Areas(l, R) \in Nat
  <2>1. R \in SUBSET (S \ {w})
    BY DEF R
  <2> QED BY <1>4, <1>6, <1>7, <2>1, AreaIsNat, AreasNat
<1>14. Areas(z, S) = Areas(l, S \ {w})
  BY <1>8, <1>9, <1>10, <1>11, <1>12, <1>13
<1> QED BY <1>14 DEF z

\* The tiles of a layout fill the area of the workspace.
LEMMA LayoutsFill ==
    ASSUME Roomy, NEW v \in Workspaces, NEW S \in SUBSET Windows, NEW l \in Layouts(v, S),
           S # {}
    PROVE  Areas(l, S) = AreaOf(TileArea(v))
<1> DEFINE K == [T \in SUBSET Windows |->
                    {f \in [T -> Tile] : T # {} => Areas(f, T) = AreaOf(TileArea(v))}]
<1>0. \A T \in SUBSET Windows : IsFiniteSet(T)
  BY FS_Subset, TilingAssumption DEF TilingAssumption
<1>1. <<>> \in K[{}]
  OBVIOUS
<1>2. ASSUME NEW w \in Windows
      PROVE  [u \in {w} |-> TileArea(v)] \in K[{w}]
  <2> DEFINE f == [u \in {w} |-> TileArea(v)]
  <2>1. f \in [{w} -> Tile] /\ f[w] = TileArea(v) /\ {w} \ {w} = {}
    BY TileAreaIsTile
  <2>2. Areas(f, {w}) = AreaOf(TileArea(v)) + Areas(f, {})
    <3>1. IsFiniteSet({w}) /\ w \in {w} /\ {w} \in SUBSET {w}
      BY FS_Singleton
    <3> HIDE DEF f
    <3> QED BY <2>1, <3>1, AreasSplit
  <2>3. Areas(f, {}) = 0
    BY FS_EmptySet, AreasRec
  <2>4. AreaOf(TileArea(v)) \in Nat
    BY TileAreaIsTile, AreaIsNat
  <2> HIDE DEF f
  <2>5. Areas(f, {w}) = AreaOf(TileArea(v))
    BY <2>2, <2>3, <2>4
  <2>6. f \in K[{w}]
    BY <2>1, <2>5
  <2> QED BY <2>6 DEF f
<1>3. ASSUME NEW T \in SUBSET Windows, NEW w \in T, NEW a \in T \ {w}, NEW k \in 1..2,
             NEW f \in K[T \ {w}], f \in LayoutTable[v][T \ {w}]
      PROVE  Split(f, T, w, a, k) \in K[T]
  <2>1. f \in [T \ {w} -> Tile] /\ Areas(f, T \ {w}) = AreaOf(TileArea(v))
    OBVIOUS
  <2>2. Splittable(f[a])
    BY <1>3 DEF Roomy
  <2>3. Areas(Split(f, T, w, a, k), T) = AreaOf(TileArea(v))
    <3>1. IsFiniteSet(T)
      BY <1>0
    <3>2. Areas(Split(f, T, w, a, k), T) = Areas(f, T \ {w})
      <4> HIDE DEF K
      <4> QED BY <2>1, <2>2, <3>1, SplitKeepsArea
    <3> QED BY <2>1, <3>2
  <2>4. Split(f, T, w, a, k) \in [T -> Tile]
    <3>1. Halves(f[a])[k] \in Tile /\ Halves(f[a])[3 - k] \in Tile
      BY <2>1, HalvesAreTiles
    <3> QED BY <2>1, <3>1 DEF Split
  <2> QED BY <2>3, <2>4
<1>4. \A T \in SUBSET Windows : LayoutTable[v][T] \subseteq K[T]
  <2> HIDE DEF K
  <2> QED BY <1>1, <1>2, <1>3, LayoutInduction
<1>5. l \in LayoutTable[v][S]
  BY LayoutsAreTiles
<1> QED BY <1>4, <1>5

-----------------------------------------------------------------------------
(* What handlers keep of a tiling state t while they change it *)

Fields == {"named", "fullscreen", "floating", "members", "tiles", "rects", "place", "active"}

\* The workspaces of t hold windows of S, each in one, with tiles of their own only.
Good(t, S) ==
    /\ DOMAIN t = Fields
    /\ t.named \subseteq S /\ S \subseteq Windows
    /\ t.members \in [Workspaces -> SUBSET S]
    /\ DOMAIN t.tiles = Workspaces
    /\ \A u, v \in Workspaces : u # v => t.members[u] \cap t.members[v] = {}
    /\ \A v \in Workspaces : DOMAIN t.tiles[v] \subseteq t.members[v]
    /\ \A v \in Workspaces : t.floating \cap t.members[v] = {}
    /\ t.active \in Workspaces

\* Purging w takes it out of every workspace.
LEMMA PurgedIsGood ==
    ASSUME NEW t, NEW S, NEW w, Good(t, S)
    PROVE  /\ Good(Purged(t, w), S)
           /\ \A v \in Workspaces : w \notin Purged(t, w).members[v]
           /\ Purged(t, w).floating = t.floating
           /\ Purged(t, w).named = t.named
BY DEF Good, Purged, Without, Fields

\* Assigning a window of S that does not float.
LEMMA AssignedIsGood ==
    ASSUME NEW t, NEW S, NEW w \in S, NEW to \in Workspaces, Good(t, S), w \notin t.floating
    PROVE  /\ Good(Assigned(t, w, to), S)
           /\ Assigned(t, w, to).floating = t.floating
           /\ Assigned(t, w, to).named = t.named
BY DEF Good, Assigned, Without, Fields

\* Laying out a workspace.
LEMMA RetiledIsGood ==
    ASSUME NEW t, NEW S, NEW v \in Workspaces, NEW assign \in BOOLEAN,
           NEW u \in Retiled(t, v, assign), Good(t, S)
    PROVE  Good(u, S)
<1> DEFINE cands == Candidates(t)
           kept  == [x \in Workspaces |-> t.members[x] \cap cands]
           loose == cands \ UNION {kept[x] : x \in Workspaces}
           now   == IF assign THEN [kept EXCEPT ![v] = @ \cup loose] ELSE kept
           left  == [x \in Workspaces |-> Without(t.tiles[x], Windows \ kept[x])]
<1>1. CASE cands = {}
  <2>1. u = [t EXCEPT !.floating = t.floating \cap t.named, !.members[v] = {},
                      !.tiles[v] = <<>>]
    BY <1>1 DEF Retiled
  <2> QED BY <2>1 DEF Good, Fields
<1>2. CASE cands # {}
  <2>1. PICK l \in Layouts(v, now[v]) :
          u = [t EXCEPT !.floating = t.floating \cap t.named, !.members = now,
                        !.tiles = [left EXCEPT ![v] = l], !.place = Placed(t.place, l)]
    BY <1>2 DEF Retiled
  <2>2. DOMAIN l = now[v]
    BY DEF Layouts
  <2>3. cands \subseteq S /\ cands \cap t.floating = {}
    BY DEF Good, Candidates
  <2>4. now \in [Workspaces -> SUBSET S]
    BY <2>3 DEF Good
  <2>5. \A x \in Workspaces : x # v => now[x] = kept[x]
    OBVIOUS
  <2>6. \A x, y \in Workspaces : x # y => now[x] \cap now[y] = {}
    <3>1. \A x \in Workspaces : kept[x] \subseteq t.members[x] /\ loose \cap kept[x] = {}
      OBVIOUS
    <3>2. now[v] = kept[v] \/ now[v] = kept[v] \cup loose
      OBVIOUS
    <3> HIDE DEF cands, kept, loose, now
    <3> QED BY <3>1, <3>2, <2>5 DEF Good
  <2>7. \A x \in Workspaces : DOMAIN left[x] \subseteq kept[x]
    BY DEF Good, Without
  <2>8. \A x \in Workspaces : now[x] \cap t.floating = {}
    BY <2>3 DEF Good
  <2>9. /\ u.members = now /\ u.tiles = [left EXCEPT ![v] = l]
        /\ u.named = t.named /\ u.floating \subseteq t.floating /\ DOMAIN u = Fields
        /\ u.active = t.active
    <3> HIDE DEF now, left
    <3> QED BY <2>1 DEF Good, Fields
  <2>10. DOMAIN u.tiles = Workspaces
         /\ \A x \in Workspaces : DOMAIN u.tiles[x] \subseteq now[x]
    BY <2>2, <2>5, <2>7, <2>9
  <2> HIDE DEF cands, kept, loose, now, left
  <2> QED BY <2>4, <2>6, <2>8, <2>9, <2>10 DEF Good
<1> QED BY <1>1, <1>2

\* A neighbour that takes a free tile.
LEMMA MergedIntoIsGood ==
    ASSUME NEW t, NEW S, NEW v \in Workspaces, NEW r, NEW s, Good(t, S)
    PROVE  Good(MergedInto(t, v, r, s), S)
<1> DEFINE m == Merged(t.tiles[v][s], r)
           e == [w \in DOMAIN t.rects \cup {s} |-> IF w = s THEN m ELSE t.rects[w]]
           u == [t EXCEPT !.tiles[v][s] = m, !.rects = e]
           z == [u EXCEPT !.place = Placed(@, Without(u.tiles[v], Windows \ Candidates(u)))]
<1>1. MergedInto(t, v, r, s) = z
  BY DEF MergedInto
<1>2. /\ DOMAIN u = Fields /\ u.named = t.named /\ u.members = t.members
      /\ u.floating = t.floating /\ u.active = t.active /\ u.tiles = [t.tiles EXCEPT ![v][s] = m]
  <2> HIDE DEF m, e
  <2> QED BY DEF Good, Fields
<1>3. /\ DOMAIN z = Fields /\ z.named = t.named /\ z.members = t.members
      /\ z.floating = t.floating /\ z.active = t.active /\ z.tiles = [t.tiles EXCEPT ![v][s] = m]
  <2> HIDE DEF u, m
  <2> QED BY <1>2 DEF Fields
<1> HIDE DEF m, z
<1>4. DOMAIN z.tiles = Workspaces
      /\ \A x \in Workspaces : DOMAIN z.tiles[x] = DOMAIN t.tiles[x]
  BY <1>3 DEF Good
<1> QED BY <1>1, <1>3, <1>4 DEF Good

-----------------------------------------------------------------------------
(* Tiles and places while handlers change them *)

\* Windows of F cover outputs, tiles are tiles, places are places, and with room for
\* every window the tiles are packed.
Laid(t, F) ==
    /\ t.fullscreen \subseteq F
    /\ t.floating \subseteq Windows
    /\ \A v \in Workspaces : t.tiles[v] \in [DOMAIN t.tiles[v] -> Tile]
    /\ DOMAIN t.rects \subseteq Windows
    /\ \A w \in DOMAIN t.rects : t.rects[w] \in Rect
    /\ t.place \in [Windows -> Rect \cup {Anywhere}]
    /\ Roomy => \A v \in Workspaces : Packed(t.tiles[v], v)

LEMMA WithoutIs ==
    ASSUME NEW f, f \in [DOMAIN f -> Tile], NEW X
    PROVE  /\ Without(f, X) \in [DOMAIN Without(f, X) -> Tile]
           /\ DOMAIN Without(f, X) = DOMAIN f \ X
           /\ \A v \in Workspaces : Packed(f, v) => Packed(Without(f, X), v)
BY DEF Without, Packed

LEMMA NoTilesArePacked ==
    /\ <<>> \in [DOMAIN <<>> -> Tile]
    /\ \A v \in Workspaces : Packed(<<>>, v)
BY DEF Packed

LEMMA PlacedIs ==
    ASSUME NEW pl \in [Windows -> Rect \cup {Anywhere}], NEW l,
           \A w \in DOMAIN l : l[w] \in Rect
    PROVE  Placed(pl, l) \in [Windows -> Rect \cup {Anywhere}]
BY DEF Placed

LEMMA PurgedIsLaid ==
    ASSUME NEW t, NEW S, NEW F, NEW w, Good(t, S), Laid(t, F)
    PROVE  Laid(Purged(t, w), F)
<1> DEFINE u == Purged(t, w)
<1>1. /\ u.fullscreen = t.fullscreen /\ u.floating = t.floating /\ u.place = t.place
      /\ u.tiles = [v \in Workspaces |-> Without(t.tiles[v], {w})]
      /\ u.rects = Without(t.rects, {w})
  BY DEF Purged, Good, Fields
<1> HIDE DEF u
<1>2. DOMAIN u.rects \subseteq Windows /\ \A x \in DOMAIN u.rects : u.rects[x] \in Rect
  BY <1>1 DEF Without, Laid
<1>3. ASSUME NEW v \in Workspaces
      PROVE  /\ u.tiles[v] \in [DOMAIN u.tiles[v] -> Tile]
             /\ Roomy => Packed(u.tiles[v], v)
  <2>1. u.tiles[v] = Without(t.tiles[v], {w})
    BY <1>1
  <2>2. t.tiles[v] \in [DOMAIN t.tiles[v] -> Tile] /\ (Roomy => Packed(t.tiles[v], v))
    BY DEF Laid
  <2>3. /\ Without(t.tiles[v], {w}) \in [DOMAIN Without(t.tiles[v], {w}) -> Tile]
        /\ Roomy => Packed(Without(t.tiles[v], {w}), v)
    BY <2>2, WithoutIs
  <2> QED BY <2>1, <2>3
<1>4. Laid(u, F)
  BY <1>1, <1>2, <1>3 DEF Laid
<1> QED BY <1>4 DEF u

LEMMA AssignedIsLaid ==
    ASSUME NEW t, NEW S, NEW F, NEW w, NEW to, Good(t, S), Laid(t, F)
    PROVE  Laid(Assigned(t, w, to), F)
<1> DEFINE u == Assigned(t, w, to)
<1>1. /\ u.fullscreen = t.fullscreen /\ u.floating = t.floating /\ u.place = t.place
      /\ u.tiles = [v \in Workspaces |-> Without(t.tiles[v], {w})]
      /\ u.rects = t.rects
  BY DEF Assigned, Good, Fields
<1> HIDE DEF u
<1>2. ASSUME NEW v \in Workspaces
      PROVE  /\ u.tiles[v] \in [DOMAIN u.tiles[v] -> Tile]
             /\ Roomy => Packed(u.tiles[v], v)
  <2>1. u.tiles[v] = Without(t.tiles[v], {w})
    BY <1>1
  <2>2. t.tiles[v] \in [DOMAIN t.tiles[v] -> Tile] /\ (Roomy => Packed(t.tiles[v], v))
    BY DEF Laid
  <2>3. /\ Without(t.tiles[v], {w}) \in [DOMAIN Without(t.tiles[v], {w}) -> Tile]
        /\ Roomy => Packed(Without(t.tiles[v], {w}), v)
    BY <2>2, WithoutIs
  <2> QED BY <2>1, <2>3
<1>3. Laid(u, F)
  BY <1>1, <1>2 DEF Laid
<1> QED BY <1>3 DEF u

LEMMA RetiledIsLaid ==
    ASSUME NEW t, NEW S, NEW F, NEW v \in Workspaces, NEW assign \in BOOLEAN,
           NEW u \in Retiled(t, v, assign), Good(t, S), Laid(t, F)
    PROVE  Laid(u, F)
<1> DEFINE cands == Candidates(t)
           kept  == [x \in Workspaces |-> t.members[x] \cap cands]
           loose == cands \ UNION {kept[x] : x \in Workspaces}
           now   == IF assign THEN [kept EXCEPT ![v] = @ \cup loose] ELSE kept
           left  == [x \in Workspaces |-> Without(t.tiles[x], Windows \ kept[x])]
<1>1. CASE cands = {}
  <2>1. u = [t EXCEPT !.floating = t.floating \cap t.named, !.members[v] = {},
                      !.tiles[v] = <<>>]
    BY <1>1 DEF Retiled
  <2>2. /\ u.fullscreen = t.fullscreen /\ u.floating = t.floating \cap t.named
        /\ u.place = t.place /\ u.rects = t.rects /\ u.tiles = [t.tiles EXCEPT ![v] = <<>>]
        /\ DOMAIN t.tiles = Workspaces
    BY <2>1 DEF Good, Fields
  <2>3. \A x \in Workspaces : u.tiles[x] = IF x = v THEN <<>> ELSE t.tiles[x]
    BY <2>2
  <2> QED BY <2>2, <2>3, NoTilesArePacked DEF Laid
<1>2. CASE cands # {}
  <2>1. PICK l \in Layouts(v, now[v]) :
          u = [t EXCEPT !.floating = t.floating \cap t.named, !.members = now,
                        !.tiles = [left EXCEPT ![v] = l], !.place = Placed(t.place, l)]
    BY <1>2 DEF Retiled
  <2>2. now[v] \in SUBSET Windows
    BY DEF Good, Candidates
  <2>3. l \in [now[v] -> Tile]
    <3> HIDE DEF now
    <3> QED BY <2>1, <2>2, LayoutsAreTiles
  <2>4. Roomy => Packed(l, v)
    <3> HIDE DEF now
    <3> QED BY <2>1, <2>2, LayoutsArePacked
  <2>5. /\ u.fullscreen = t.fullscreen /\ u.floating = t.floating \cap t.named
        /\ u.place = Placed(t.place, l) /\ u.rects = t.rects
        /\ u.tiles = [left EXCEPT ![v] = l]
    <3> HIDE DEF now, left
    <3> QED BY <2>1 DEF Good, Fields
  <2>6. \A x \in Workspaces : u.tiles[x] = IF x = v THEN l
                                           ELSE Without(t.tiles[x], Windows \ kept[x])
    BY <2>5
  <2>7. u.place \in [Windows -> Rect \cup {Anywhere}]
    <3>1. \A w \in DOMAIN l : l[w] \in Rect
      BY <2>3 DEF Tile
    <3>2. t.place \in [Windows -> Rect \cup {Anywhere}]
      BY DEF Laid
    <3> QED BY <2>5, <3>1, <3>2, PlacedIs
  <2> HIDE DEF cands, kept, loose, now, left
  <2>8. ASSUME NEW x \in Workspaces
        PROVE  /\ u.tiles[x] \in [DOMAIN u.tiles[x] -> Tile]
               /\ Roomy => Packed(u.tiles[x], x)
    <3>1. CASE x = v
      BY <2>3, <2>4, <2>6, <3>1
    <3>2. CASE x # v
      <4>1. u.tiles[x] = Without(t.tiles[x], Windows \ kept[x])
        BY <2>6, <3>2
      <4>2. t.tiles[x] \in [DOMAIN t.tiles[x] -> Tile] /\ (Roomy => Packed(t.tiles[x], x))
        BY DEF Laid
      <4>3. /\ Without(t.tiles[x], Windows \ kept[x])
                 \in [DOMAIN Without(t.tiles[x], Windows \ kept[x]) -> Tile]
            /\ Roomy => Packed(Without(t.tiles[x], Windows \ kept[x]), x)
        BY <4>2, WithoutIs
      <4> QED BY <4>1, <4>3
    <3> QED BY <3>1, <3>2
  <2> QED BY <2>5, <2>7, <2>8 DEF Laid
<1> QED BY <1>1, <1>2

\* The free tile r of a sibling's workspace is apart from all tiles there.
LEMMA MergedIntoIsLaid ==
    ASSUME NEW t, NEW S, NEW F, NEW v \in Workspaces, NEW r \in Tile,
           NEW s \in Siblings(t, v, r), Good(t, S), Laid(t, F),
           Roomy => /\ Inside(r, TileArea(v))
                    /\ \A w \in DOMAIN t.tiles[v] : Apart(r, t.tiles[v][w])
    PROVE  Laid(MergedInto(t, v, r, s), F)
<1> DEFINE m == Merged(t.tiles[v][s], r)
           e == [w \in DOMAIN t.rects \cup {s} |-> IF w = s THEN m ELSE t.rects[w]]
           u == [t EXCEPT !.tiles[v][s] = m, !.rects = e]
           g == Without(u.tiles[v], Windows \ Candidates(u))
           z == [u EXCEPT !.place = Placed(@, g)]
           f == t.tiles[v]
<1>1. MergedInto(t, v, r, s) = z
  BY DEF MergedInto
<1>2. s \in DOMAIN f /\ AreNeighbours(f[s], r) /\ s \in Windows
      /\ f \in [DOMAIN f -> Tile] /\ f[s] \in Tile /\ DOMAIN t.tiles = Workspaces
  BY DEF Siblings, Good, Laid
<1>3. m \in Tile
  BY <1>2, MergedIs
<1>4. /\ DOMAIN u = Fields /\ u.fullscreen = t.fullscreen /\ u.place = t.place
      /\ u.floating = t.floating /\ u.rects = e /\ u.tiles = [t.tiles EXCEPT ![v][s] = m]
  <2> HIDE DEF m, e
  <2> QED BY DEF Good, Fields
<1>5. /\ z.fullscreen = t.fullscreen /\ z.place = Placed(t.place, g)
      /\ z.floating = t.floating /\ z.rects = e /\ z.tiles = [t.tiles EXCEPT ![v][s] = m]
  <2> HIDE DEF u, m, e, g
  <2> QED BY <1>4 DEF Fields
<1>6. DOMAIN e \subseteq Windows /\ \A w \in DOMAIN e : e[w] \in Rect
  <2>1. m \in Rect
    BY <1>3 DEF Tile
  <2> HIDE DEF m
  <2> QED BY <1>2, <2>1 DEF Laid
<1> DEFINE h == [f EXCEPT ![s] = m]
<1>7. h \in [DOMAIN h -> Tile] /\ DOMAIN h = DOMAIN f /\ h[s] = m
      /\ \A w \in DOMAIN f \ {s} : h[w] = f[w]
  <2> HIDE DEF m, f
  <2> QED BY <1>2, <1>3
<1>8. \A x \in Workspaces : z.tiles[x] = IF x = v THEN h ELSE t.tiles[x]
  <2> HIDE DEF m, z
  <2> QED BY <1>2, <1>5
<1>9. z.place \in [Windows -> Rect \cup {Anywhere}]
  <2>1. u.tiles[v] = h
    <3> HIDE DEF m, u
    <3> QED BY <1>2, <1>4
  <2>2. g \in [DOMAIN g -> Tile]
    <3> HIDE DEF h, u
    <3> QED BY <1>7, <2>1, WithoutIs
  <2>3. \A w \in DOMAIN g : g[w] \in Rect
    <3> HIDE DEF g
    <3> QED BY <2>2 DEF Tile
  <2>4. t.place \in [Windows -> Rect \cup {Anywhere}]
    BY DEF Laid
  <2> HIDE DEF g, z
  <2> QED BY <1>5, <2>3, <2>4, PlacedIs
<1>10. ASSUME Roomy
       PROVE  Packed(h, v)
  <2>1. Packed(f, v)
    BY <1>10 DEF Laid
  <2>2. Inside(m, TileArea(v))
    <3>1. Inside(f[s], TileArea(v)) /\ Inside(r, TileArea(v)) /\ TileArea(v) \in Rect
      BY <1>2, <1>10, <2>1, TileAreaIsTile DEF Packed, Tile
    <3> QED BY <1>2, <3>1, MergedIs
  <2>3. \A w \in DOMAIN f \ {s} : Apart(m, f[w]) /\ Apart(f[w], m)
    <3> SUFFICES ASSUME NEW w \in DOMAIN f \ {s} PROVE Apart(m, f[w])
      BY ApartSymmetric
    <3>1. f[w] \in Tile /\ Apart(f[s], f[w]) /\ Apart(r, f[w])
      BY <1>2, <1>10, <2>1 DEF Packed
    <3> QED BY <1>2, <3>1, MergedIsApart
  <2> HIDE DEF m, f, h
  <2> QED BY <1>7, <2>1, <2>2, <2>3 DEF Packed
<1> HIDE DEF z, e, h, f, m
<1>11. Laid(z, F)
  BY <1>5, <1>6, <1>7, <1>8, <1>9, <1>10 DEF Laid
<1> QED BY <1>1, <1>11

-----------------------------------------------------------------------------
(* Filled workspaces *)

\* v is filled by the tiles of its members, all of them candidates, and each Wayland
\* window is on its tile.
Whole(t, v) ==
    /\ DOMAIN t.tiles[v] = t.members[v]
    /\ t.members[v] \subseteq Candidates(t)
    /\ t.members[v] = {} \/ Areas(t.tiles[v], t.members[v]) = AreaOf(TileArea(v))
    /\ \A w \in t.members[v] \ X11 : t.place[w] = t.tiles[v][w]

\* v is filled by the tiles of its members, and each Wayland candidate is on its tile.
Fills(t, v) ==
    /\ DOMAIN t.tiles[v] = t.members[v]
    /\ t.members[v] = {} \/ Areas(t.tiles[v], t.members[v]) = AreaOf(TileArea(v))
    /\ \A w \in (t.members[v] \cap Candidates(t)) \ X11 : t.place[w] = t.tiles[v][w]

\* u has the candidates of t and loses none from the workspaces of V; none floats now.
Spares(t, u, V) ==
    /\ u.named = t.named
    /\ Candidates(u) = Candidates(t)
    /\ u.floating \subseteq t.floating
    /\ \A x \in V : t.members[x] \cap Candidates(t) \subseteq u.members[x]

\* Laying out v makes it whole and leaves other workspaces whole.
LEMMA RetiledIsWhole ==
    ASSUME Roomy, NEW t, NEW S, NEW F, NEW v \in Workspaces, NEW assign \in BOOLEAN,
           NEW u \in Retiled(t, v, assign), Good(t, S), Laid(t, F)
    PROVE  /\ Whole(u, v)
           /\ Spares(t, u, Workspaces \ {v})
           /\ \A x \in Workspaces \ {v} : Whole(t, x) => Whole(u, x)
<1> DEFINE cands == Candidates(t)
           kept  == [x \in Workspaces |-> t.members[x] \cap cands]
           loose == cands \ UNION {kept[x] : x \in Workspaces}
           now   == IF assign THEN [kept EXCEPT ![v] = @ \cup loose] ELSE kept
           left  == [x \in Workspaces |-> Without(t.tiles[x], Windows \ kept[x])]
<1>1. /\ DOMAIN t.tiles = Workspaces /\ t.members \in [Workspaces -> SUBSET S]
      /\ t.named \subseteq S /\ S \subseteq Windows
  BY DEF Good
<1>2. CASE cands = {}
  <2>1. u = [t EXCEPT !.floating = t.floating \cap t.named, !.members[v] = {},
                      !.tiles[v] = <<>>]
    BY <1>2 DEF Retiled
  <2>2. /\ u.fullscreen = t.fullscreen /\ u.floating = t.floating \cap t.named
        /\ u.place = t.place /\ u.named = t.named
        /\ u.tiles = [t.tiles EXCEPT ![v] = <<>>]
        /\ u.members = [t.members EXCEPT ![v] = {}]
    BY <2>1 DEF Good, Fields
  <2>3. Candidates(u) = Candidates(t)
    BY <2>2 DEF Candidates
  <2>4. u.tiles[v] = <<>> /\ u.members[v] = {}
    BY <1>1, <2>2
  <2>5. \A x \in Workspaces \ {v} : u.tiles[x] = t.tiles[x] /\ u.members[x] = t.members[x]
    BY <1>1, <2>2
  <2>6. Whole(u, v)
    BY <2>4 DEF Whole
  <2> QED BY <2>2, <2>3, <2>5, <2>6 DEF Whole, Spares
<1>3. CASE cands # {}
  <2>1. PICK l \in Layouts(v, now[v]) :
          u = [t EXCEPT !.floating = t.floating \cap t.named, !.members = now,
                        !.tiles = [left EXCEPT ![v] = l], !.place = Placed(t.place, l)]
    BY <1>3 DEF Retiled
  <2>2. now[v] \in SUBSET Windows /\ now[v] \subseteq cands
    BY DEF Good, Candidates
  <2>3. l \in [now[v] -> Tile]
    <3> HIDE DEF now
    <3> QED BY <2>1, <2>2, LayoutsAreTiles
  <2>4. now[v] # {} => Areas(l, now[v]) = AreaOf(TileArea(v))
    <3> HIDE DEF now
    <3> QED BY <2>1, <2>2, LayoutsFill
  <2>5. /\ u.fullscreen = t.fullscreen /\ u.floating = t.floating \cap t.named
        /\ u.place = Placed(t.place, l) /\ u.named = t.named
        /\ u.tiles = [left EXCEPT ![v] = l] /\ u.members = now
    <3> HIDE DEF now, left
    <3> QED BY <2>1 DEF Good, Fields
  <2>6. u.tiles[v] = l
    BY <2>5
  <2>7. \A x \in Workspaces \ {v} : /\ u.tiles[x] = Without(t.tiles[x], Windows \ kept[x])
                                    /\ u.members[x] = kept[x]
    BY <2>5
  <2>8. Candidates(u) = Candidates(t)
    BY <2>5 DEF Candidates
  <2>9. \A w \in Windows : u.place[w] = IF w \notin now[v] THEN t.place[w]
                                        ELSE IF w \in X11 THEN Anywhere ELSE l[w]
    <3> HIDE DEF now
    <3> QED BY <2>3, <2>5 DEF Placed
  <2>10. \A x \in Workspaces \ {v} : kept[x] \cap now[v] = {}
    <3>1. Good(u, S)
      BY RetiledIsGood
    <3> HIDE DEF kept, now
    <3> QED BY <3>1, <2>5, <2>7 DEF Good
  <2>11. Whole(u, v)
    <3> HIDE DEF now, cands
    <3> QED BY <2>2, <2>3, <2>4, <2>5, <2>6, <2>8, <2>9 DEF Whole, cands
  <2>12. Spares(t, u, Workspaces \ {v})
    BY <2>5, <2>7, <2>8 DEF Spares
  <2>13. ASSUME NEW x \in Workspaces \ {v}, Whole(t, x)
         PROVE  Whole(u, x)
    <3>1. kept[x] = t.members[x] /\ t.members[x] \subseteq Windows
      BY <1>1, <2>13 DEF Whole
    <3>2. Without(t.tiles[x], Windows \ kept[x]) = t.tiles[x]
      <4>1. t.tiles[x] = [w \in t.members[x] |-> t.tiles[x][w]]
        BY <2>13 DEF Laid, Whole
      <4>2. DOMAIN t.tiles[x] \ (Windows \ t.members[x]) = t.members[x]
        BY <2>13 DEF Whole
      <4> QED BY <3>1, <4>1, <4>2 DEF Without
    <3>3. u.tiles[x] = t.tiles[x] /\ u.members[x] = t.members[x]
      BY <2>7, <3>1, <3>2
    <3>4. \A w \in t.members[x] : u.place[w] = t.place[w]
      <4> HIDE DEF kept, now
      <4> QED BY <2>9, <2>10, <3>1
    <3> HIDE DEF kept, now, cands
    <3> QED BY <2>8, <2>13, <3>3, <3>4 DEF Whole
  <2> QED BY <2>11, <2>12, <2>13
<1> QED BY <1>2, <1>3

\* Laying out the source and the target of a move makes both whole.
LEMMA RetiledBothIsWhole ==
    ASSUME Roomy, NEW t, NEW S, NEW F, NEW source \in Workspaces \cup {NoWorkspace},
           NEW target \in Workspaces, NEW u \in RetiledBoth(t, source, target),
           Good(t, S), Laid(t, F)
    PROVE  /\ Whole(u, target)
           /\ source \in Workspaces => Whole(u, source)
           /\ Spares(t, u, Workspaces \ {source, target})
<1>1. PICK z \in IF source \in {target, NoWorkspace} THEN {t} ELSE Retiled(t, source, FALSE) :
        u \in Retiled(z, target, FALSE)
  BY DEF RetiledBoth
<1>2. NoWorkspace \notin Workspaces
  BY TilingAssumption DEF TilingAssumption
<1>3. CASE source \in {target, NoWorkspace}
  <2>1. z = t
    BY <1>1, <1>3
  <2>2. Whole(u, target) /\ Spares(t, u, Workspaces \ {target})
    BY <1>1, <2>1, RetiledIsWhole
  <2> QED BY <1>2, <1>3, <2>2 DEF Spares
<1>4. CASE source \notin {target, NoWorkspace}
  <2>1. source \in Workspaces /\ z \in Retiled(t, source, FALSE)
    BY <1>1, <1>4
  <2>2. Good(z, S) /\ Laid(z, F)
    BY <2>1, RetiledIsGood, RetiledIsLaid
  <2>3. Whole(z, source) /\ Spares(t, z, Workspaces \ {source})
    BY <2>1, RetiledIsWhole
  <2>4. /\ Whole(u, target) /\ Spares(z, u, Workspaces \ {target})
        /\ \A x \in Workspaces \ {target} : Whole(z, x) => Whole(u, x)
    BY <1>1, <2>2, RetiledIsWhole
  <2>5. Whole(u, source)
    BY <1>4, <2>1, <2>3, <2>4
  <2>6. Spares(t, u, Workspaces \ {source, target})
    <3>1. /\ u.named = t.named /\ Candidates(u) = Candidates(t) /\ Candidates(z) = Candidates(t)
          /\ u.floating \subseteq t.floating
      BY <2>3, <2>4 DEF Spares
    <3>2. ASSUME NEW x \in Workspaces \ {source, target}
          PROVE  t.members[x] \cap Candidates(t) \subseteq u.members[x]
      <4>1. t.members[x] \cap Candidates(t) \subseteq z.members[x]
        BY <2>3 DEF Spares
      <4>2. z.members[x] \cap Candidates(z) \subseteq u.members[x]
        BY <2>4 DEF Spares
      <4> QED BY <3>1, <4>1, <4>2
    <3> QED BY <3>1, <3>2 DEF Spares
  <2> QED BY <2>4, <2>5, <2>6
<1> QED BY <1>3, <1>4

\* A neighbour that takes the free tile r, all that v lacks, fills v.
LEMMA MergedIntoFills ==
    ASSUME NEW t, NEW S, NEW F, NEW v \in Workspaces, NEW r \in Tile,
           NEW s \in Siblings(t, v, r), Good(t, S), Laid(t, F),
           DOMAIN t.tiles[v] = t.members[v],
           AreaOf(r) + Areas(t.tiles[v], t.members[v]) = AreaOf(TileArea(v))
    PROVE  /\ Fills(MergedInto(t, v, r, s), v)
           /\ Candidates(MergedInto(t, v, r, s)) = Candidates(t)
<1> DEFINE f == t.tiles[v]
           m == Merged(f[s], r)
           e == [w \in DOMAIN t.rects \cup {s} |-> IF w = s THEN m ELSE t.rects[w]]
           u == [t EXCEPT !.tiles[v][s] = m, !.rects = e]
           g == Without(u.tiles[v], Windows \ Candidates(u))
           z == [u EXCEPT !.place = Placed(@, g)]
           h == [f EXCEPT ![s] = m]
           M == t.members[v]
<1>1. MergedInto(t, v, r, s) = z
  BY DEF MergedInto
<1>2. /\ s \in M /\ AreNeighbours(f[s], r) /\ f[s] \in Tile
      /\ f \in [M -> Tile] /\ DOMAIN t.tiles = Workspaces /\ M \subseteq Windows
      /\ t.place \in [Windows -> Rect \cup {Anywhere}]
  BY DEF Siblings, Good, Laid
<1>3. m \in Tile /\ AreaOf(m) = AreaOf(f[s]) + AreaOf(r)
  BY <1>2, MergedIs, MergedArea
<1>4. /\ DOMAIN u = Fields /\ u.fullscreen = t.fullscreen /\ u.place = t.place
      /\ u.floating = t.floating /\ u.tiles = [t.tiles EXCEPT ![v][s] = m]
      /\ u.named = t.named /\ u.members = t.members
  <2> HIDE DEF m, e
  <2> QED BY DEF Good, Fields
<1>5. /\ z.fullscreen = t.fullscreen /\ z.place = Placed(t.place, g)
      /\ z.floating = t.floating /\ z.tiles = [t.tiles EXCEPT ![v][s] = m]
      /\ z.named = t.named /\ z.members = t.members
  <2> HIDE DEF u, m, g
  <2> QED BY <1>4 DEF Fields
<1>6. Candidates(u) = Candidates(t) /\ Candidates(z) = Candidates(t)
  <2> HIDE DEF u, z
  <2> QED BY <1>4, <1>5 DEF Candidates
<1>7. h \in [M -> Tile] /\ h[s] = m /\ \A w \in M \ {s} : h[w] = f[w]
  <2> HIDE DEF m, f, M
  <2> QED BY <1>2, <1>3
<1>8. u.tiles[v] = h /\ z.tiles[v] = h
  <2> HIDE DEF m, u, z
  <2> QED BY <1>2, <1>4, <1>5
<1>9. \A w \in (M \cap Candidates(t)) \ X11 : z.place[w] = h[w]
  <2>1. g = Without(h, Windows \ Candidates(t))
    <3> HIDE DEF u, h
    <3> QED BY <1>6, <1>8
  <2>2. DOMAIN h = M
    <3> HIDE DEF h, M
    <3> QED BY <1>7
  <2>3. DOMAIN g = M \cap Candidates(t) /\ \A w \in M \cap Candidates(t) : g[w] = h[w]
    <3> HIDE DEF u, h, g, M
    <3> QED BY <1>2, <2>1, <2>2 DEF Without
  <2>4. z.place = Placed(t.place, g)
    BY <1>5
  <2> HIDE DEF g, h, z, M
  <2> QED BY <1>2, <2>3, <2>4 DEF Placed
<1>10. Areas(h, M) = AreaOf(TileArea(v))
  <2>1. IsFiniteSet(M)
    BY <1>2, FS_Subset, TilingAssumption DEF TilingAssumption
  <2>2. IsFiniteSet(M \ {s})
    BY <2>1, FS_RemoveElement
  <2> HIDE DEF h, f, m, M
  <2>3. Areas(h, M) = AreaOf(m) + Areas(h, M \ {s})
    BY <1>2, <1>7, <2>1, AreasSplit
  <2>4. Areas(f, M) = AreaOf(f[s]) + Areas(f, M \ {s})
    BY <1>2, <2>1, AreasSplit
  <2>5. Areas(h, M \ {s}) = Areas(f, M \ {s})
    BY <1>7, <2>2, AreasAgree
  <2>6. AreaOf(m) \in Nat /\ AreaOf(f[s]) \in Nat /\ AreaOf(r) \in Nat
        /\ Areas(f, M \ {s}) \in Nat
    BY <1>2, <1>3, <2>2, AreaIsNat, AreasNat
  <2>7. AreaOf(r) + Areas(f, M) = AreaOf(TileArea(v))
    BY DEF f, M
  <2> QED BY <1>3, <2>3, <2>4, <2>5, <2>6, <2>7
<1>11. z.members[v] = M /\ DOMAIN z.tiles[v] = M
  <2> HIDE DEF z, h
  <2> QED BY <1>5, <1>7, <1>8
<1> HIDE DEF z, h, f, m, M
<1>12. Fills(z, v)
  BY <1>2, <1>6, <1>8, <1>9, <1>10, <1>11 DEF Fills
<1> QED BY <1>1, <1>6, <1>12

-----------------------------------------------------------------------------
(* Good and laid: what every handler keeps *)

Fine(t, S, F) == Good(t, S) /\ Laid(t, F)

LEMMA PurgedIsFine ==
    ASSUME NEW t, NEW S, NEW F, NEW w, Fine(t, S, F)
    PROVE  Fine(Purged(t, w), S, F)
BY PurgedIsGood, PurgedIsLaid DEF Fine

LEMMA AssignedIsFine ==
    ASSUME NEW t, NEW S, NEW F, NEW w \in S, NEW to \in Workspaces, Fine(t, S, F),
           w \notin t.floating
    PROVE  Fine(Assigned(t, w, to), S, F)
BY AssignedIsGood, AssignedIsLaid DEF Fine

LEMMA RetiledIsFine ==
    ASSUME NEW t, NEW S, NEW F, NEW v \in Workspaces, NEW assign \in BOOLEAN,
           NEW u \in Retiled(t, v, assign), Fine(t, S, F)
    PROVE  Fine(u, S, F)
BY RetiledIsGood, RetiledIsLaid DEF Fine

\* Another active workspace, fewer windows that float or cover outputs.
LEMMA ChangedIsFine ==
    ASSUME NEW t, NEW S, NEW F, NEW v \in Workspaces, NEW X, Fine(t, S, F)
    PROVE  /\ Fine([t EXCEPT !.active = v], S, F)
           /\ Fine([t EXCEPT !.floating = @ \ X], S, F)
           /\ Fine([t EXCEPT !.fullscreen = @ \ X], S, F)
BY DEF Fine, Good, Laid, Fields

\* A window somewhere.
LEMMA MovedIsFine ==
    ASSUME NEW t, NEW S, NEW F, NEW w, Fine(t, S, F)
    PROVE  Fine([t EXCEPT !.place[w] = Anywhere], S, F)
<1> DEFINE u == [t EXCEPT !.place[w] = Anywhere]
<1>1. /\ DOMAIN u = Fields /\ u.named = t.named /\ u.fullscreen = t.fullscreen
      /\ u.floating = t.floating /\ u.members = t.members /\ u.tiles = t.tiles
      /\ u.rects = t.rects /\ u.active = t.active /\ u.place = [t.place EXCEPT ![w] = Anywhere]
  BY DEF Fine, Good, Fields
<1> HIDE DEF u
<1>2. Fine(u, S, F)
  BY <1>1 DEF Fine, Good, Laid
<1> QED BY <1>2 DEF u

\* Laying out the source and the target of a move.
LEMMA RetiledBothIsFine ==
    ASSUME NEW t, NEW S, NEW F, NEW source \in Workspaces \cup {NoWorkspace},
           NEW target \in Workspaces, NEW u \in RetiledBoth(t, source, target), Fine(t, S, F)
    PROVE  Fine(u, S, F)
<1>1. PICK z \in IF source \in {target, NoWorkspace} THEN {t} ELSE Retiled(t, source, FALSE) :
        u \in Retiled(z, target, FALSE)
  BY DEF RetiledBoth
<1>2. Fine(z, S, F)
  <2>1. CASE source \in {target, NoWorkspace}
    BY <1>1, <2>1
  <2>2. CASE source \notin {target, NoWorkspace}
    <3>1. source \in Workspaces /\ z \in Retiled(t, source, FALSE)
      BY <1>1, <2>2
    <3> QED BY <3>1, RetiledIsFine
  <2> QED BY <2>1, <2>2
<1> QED BY <1>1, <1>2, RetiledIsFine

\* tile_windows.
LEMMA TileWindowsIsFine ==
    ASSUME NEW t, NEW S, NEW F, NEW u \in TileWindows(t), Fine(t, S, F)
    PROVE  Fine(u, S, F)
<1>1. CASE u = t
  BY <1>1
<1>2. CASE \E v \in Workspaces : u \in Retiled([t EXCEPT !.active = v], v, TRUE)
  <2>1. PICK v \in Workspaces : u \in Retiled([t EXCEPT !.active = v], v, TRUE)
    BY <1>2
  <2>2. Fine([t EXCEPT !.active = v], S, F)
    BY ChangedIsFine
  <2> QED BY <2>1, <2>2, RetiledIsFine
<1> QED BY <1>1, <1>2 DEF TileWindows

\* The tile of w in v, free in t, is apart from the tiles that t has there.
LEMMA FreeTile ==
    ASSUME NEW t, NEW v \in Workspaces, NEW w \in DOMAIN tiles[v], NEW F,
           Laid(Current(Named(space, bound), fullscreen), F),
           t.tiles[v] = Without(tiles[v], {w})
    PROVE  /\ tiles[v][w] \in Tile
           /\ Roomy => /\ Inside(tiles[v][w], TileArea(v))
                       /\ \A x \in DOMAIN t.tiles[v] : Apart(tiles[v][w], t.tiles[v][x])
BY DEF Laid, Current, Packed, Without

\* What a window leaves behind when it is unmapped.
LEMMA RefilledIsFine ==
    ASSUME NEW t, NEW S, NEW F, NEW v \in Workspaces, NEW w, NEW u \in Refilled(t, v, w),
           NEW G, Laid(Current(Named(space, bound), fullscreen), G),
           t.tiles[v] = Without(tiles[v], {w}), Fine(t, S, F)
    PROVE  Fine(u, S, F)
<1>1. CASE w \in DOMAIN tiles[v] /\ Siblings(t, v, tiles[v][w]) # {}
  <2>1. PICK s \in Siblings(t, v, tiles[v][w]) : u = MergedInto(t, v, tiles[v][w], s)
    BY <1>1 DEF Refilled
  <2>2. /\ tiles[v][w] \in Tile
        /\ Roomy => /\ Inside(tiles[v][w], TileArea(v))
                    /\ \A x \in DOMAIN t.tiles[v] : Apart(tiles[v][w], t.tiles[v][x])
    BY <1>1, FreeTile
  <2>3. Laid(MergedInto(t, v, tiles[v][w], s), F)
    BY <2>2, MergedIntoIsLaid DEF Fine
  <2> QED BY <2>1, <2>3, MergedIntoIsGood DEF Fine
<1>2. CASE ~(w \in DOMAIN tiles[v] /\ Siblings(t, v, tiles[v][w]) # {})
  <2>1. u \in Retiled(t, v, FALSE)
    BY <1>2 DEF Refilled
  <2> QED BY <2>1, RetiledIsFine
<1> QED BY <1>1, <1>2

\* The first placement of a window.
LEMMA SpawnedIsFine ==
    ASSUME NEW t, NEW S, NEW F, NEW w \in S, NEW u \in Spawned(t, w), Fine(t, S, F),
           w \notin t.floating
    PROVE  Fine(u, S, F)
<1>1. CASE u = t
  BY <1>1
<1>2. CASE \E v \in Workspaces :
             u \in Retiled([Assigned(t, w, v) EXCEPT !.active = v], v, FALSE)
  <2>1. PICK v \in Workspaces :
             u \in Retiled([Assigned(t, w, v) EXCEPT !.active = v], v, FALSE)
    BY <1>2
  <2>2. Fine(Assigned(t, w, v), S, F)
    BY AssignedIsFine
  <2>3. Fine([Assigned(t, w, v) EXCEPT !.active = v], S, F)
    BY <2>2, ChangedIsFine
  <2> QED BY <2>1, <2>3, RetiledIsFine
<1> QED BY <1>1, <1>2 DEF Spawned

\* The request that waited for the first commit.
LEMMA DeferredIsFine ==
    ASSUME NEW t, NEW S, NEW F, NEW w \in F, NEW u \in Deferred(t, w), Fine(t, S, F)
    PROVE  Fine(u, S, F)
<1> DEFINE moved == [t EXCEPT !.place[w] = Anywhere]
<1>1. Fine(moved, S, F)
  BY MovedIsFine
<1>2. \/ u = t \/ u = moved
      \/ \E leave \in {{}} \cup {{x} : x \in t.fullscreen \ {w}} :
            u = [moved EXCEPT !.fullscreen = (@ \ leave) \cup {w}]
  BY DEF Deferred
<1> HIDE DEF moved
<1>3. \A X : Fine([moved EXCEPT !.fullscreen = (@ \ X) \cup {w}], S, F)
  BY <1>1 DEF Fine, Good, Laid, Fields
<1> QED BY <1>1, <1>2, <1>3

\* A window purged and assigned to v, floating no more.
LEMMA ReassignedIsFine ==
    ASSUME NEW t, NEW S, NEW F, NEW w, w \in t.named, NEW v \in Workspaces, Fine(t, S, F)
    PROVE  Fine([Assigned(Purged(t, w), w, v) EXCEPT !.floating = @ \ {w}, !.active = v],
                S, F)
<1> DEFINE p == Purged(t, w)
           q == [p EXCEPT !.floating = @ \ {w}]
           g == Assigned(q, w, v)
           z == [Assigned(p, w, v) EXCEPT !.floating = @ \ {w}, !.active = v]
<1>1. Fine(p, S, F)
  BY PurgedIsFine
<1>2. w \in S
  BY DEF Fine, Good
<1> HIDE DEF p
<1>3. Fine(q, S, F) /\ w \notin q.floating
  <2>1. Fine(q, S, F)
    BY <1>1, ChangedIsFine
  <2>2. w \notin q.floating
    BY <1>1 DEF Fine, Good, Fields
  <2> QED BY <2>1, <2>2
<1>4. /\ q.named = p.named /\ q.floating = p.floating \ {w} /\ q.members = p.members
      /\ q.tiles = p.tiles /\ q.fullscreen = p.fullscreen /\ q.rects = p.rects
      /\ q.place = p.place /\ DOMAIN q = Fields /\ DOMAIN p = Fields
  BY <1>1 DEF Fine, Good, Fields
<1> HIDE DEF q
<1>5. Fine(g, S, F)
  BY <1>2, <1>3, AssignedIsFine
<1>6. /\ DOMAIN z = Fields /\ z.named = g.named /\ z.floating = g.floating
      /\ z.members = g.members /\ z.tiles = g.tiles /\ z.active = v
      /\ z.fullscreen = g.fullscreen /\ z.rects = g.rects /\ z.place = g.place
  BY <1>4 DEF Assigned, Fields
<1> HIDE DEF g, z
<1>7. Fine(z, S, F)
  BY <1>5, <1>6 DEF Fine, Good, Laid
<1> QED BY <1>7 DEF z, p

-----------------------------------------------------------------------------
(* The invariant *)

\* The windows a workspace may hold: mapped ones, and X11 windows that once were.
Holdable == (space \cup X11) \ fresh

\* The windows that may cover an output.
Coverable == space \ X11

Now == Current(Named(space, bound), fullscreen)

IInv ==
    /\ fresh \subseteq Windows /\ space \subseteq Windows \ fresh
    /\ bound \subseteq space \cap X11
    /\ pending_center \subseteq space \ X11
    /\ modal \subseteq space \cap Dialogs
    /\ Fine(Now, Holdable, Coverable)

\* The invariants of the run follow.
LEMMA IInvImplies ==
    IInv => /\ TypeOK /\ OneWorkspace /\ FloatingIsUntiled /\ MembersAreMapped
            /\ Roomy => TilesArePacked
<1> SUFFICES ASSUME IInv
             PROVE  /\ TypeOK /\ OneWorkspace /\ FloatingIsUntiled /\ MembersAreMapped
                    /\ Roomy => TilesArePacked
  OBVIOUS
<1>1. OneWorkspace /\ FloatingIsUntiled /\ MembersAreMapped
  BY DEF IInv, Now, Fine, Good, Current, OneWorkspace, FloatingIsUntiled, MembersAreMapped,
         Holdable
<1>2. \A v \in Workspaces : /\ tiles[v] \in [DOMAIN tiles[v] -> Tile]
                            /\ DOMAIN tiles[v] \subseteq Windows
  BY DEF IInv, Now, Fine, Good, Laid, Current
<1>3. \A v \in Workspaces : \A w \in DOMAIN tiles[v] : tiles[v][w] \in Rect
  BY <1>2 DEF Tile
<1>4. TypeOK
  BY <1>2, <1>3 DEF IInv, Now, Fine, Good, Laid, Current, Coverable, TypeOK, Holdable
<1>5. Roomy => TilesArePacked
  BY DEF IInv, Now, Fine, Laid, Current, Packed, TilesArePacked
<1> QED BY <1>1, <1>4, <1>5

LEMMA InitIInv == Init => IInv
<1> SUFFICES ASSUME Init PROVE IInv
  OBVIOUS
<1>1. Good(Now, Holdable)
  BY TilingAssumption DEF Init, Good, Now, Current, Named, Holdable, Fields, TilingAssumption
<1>2. Laid(Now, Coverable)
  BY NoTilesArePacked DEF Init, Laid, Now, Current
<1> QED BY <1>1, <1>2 DEF Init, IInv, Fine

LEMMA ActiveExists ==
    ASSUME IInv
    PROVE  active_workspace \in Workspaces
BY DEF IInv, Fine, Good, Now, Current

\* A handler that ends in a fine state keeps the invariant.
LEMMA BecomeKeepsIInv ==
    ASSUME NEW t, Become(t), Fine(t, Holdable', Coverable'),
           fresh' \subseteq Windows, space' \subseteq Windows \ fresh',
           bound' \subseteq space' \cap X11,
           pending_center' \subseteq space' \ X11, modal' \subseteq space' \cap Dialogs
    PROVE  IInv'
<1>1. Named(space', bound') \subseteq Holdable' /\ Holdable' \subseteq Windows
  BY TilingAssumption DEF Named, Holdable, TilingAssumption
<1>2. Good(Now', Holdable')
  BY <1>1 DEF Become, Fine, Good, Now, Current, Fields
<1>3. Laid(Now', Coverable')
  BY DEF Become, Fine, Laid, Now, Current
<1> QED BY <1>2, <1>3 DEF IInv, Fine

\* A key binding starts from a fine state.
LEMMA KeyBindingIsFine ==
    ASSUME IInv, NEW t \in AtKeyBinding
    PROVE  /\ Fine(t, Holdable, Coverable)
           /\ t.named = Named(space, bound)
           /\ t.members = members /\ t.tiles = tiles /\ t.floating = floating_windows
           /\ t.fullscreen \subseteq fullscreen
<1>1. PICK leave : t = Current(Named(space, bound), fullscreen \ leave)
  BY DEF AtKeyBinding
<1>2. t = [Now EXCEPT !.fullscreen = @ \ leave]
  BY <1>1 DEF Now, Current
<1>3. Fine(t, Holdable, Coverable)
  BY <1>2, ActiveExists, ChangedIsFine DEF IInv
<1> QED BY <1>1, <1>3 DEF Current

\* The windows and dialogs stay what they are.
LEMMA SameLife ==
    ASSUME IInv, UNCHANGED life
    PROVE  /\ Holdable' = Holdable /\ Coverable' = Coverable
           /\ Named(space', bound') = Named(space, bound)
           /\ \A t : Become(t) /\ Fine(t, Holdable, Coverable) => IInv'
<1>1. /\ UNCHANGED <<fresh, space, bound, pending_center, modal>>
      /\ Holdable' = Holdable /\ Coverable' = Coverable
      /\ Named(space', bound') = Named(space, bound)
  BY DEF life, Holdable, Coverable
<1>2. ASSUME NEW t, Become(t), Fine(t, Holdable, Coverable)
      PROVE  IInv'
  BY <1>1, <1>2, BecomeKeepsIInv DEF IInv
<1> QED BY <1>1, <1>2

-----------------------------------------------------------------------------
(* The actions that have more to them than one fine state after another *)

LEMMA FirstCommitKeepsIInv ==
    ASSUME IInv, NEW w \in Windows, FirstCommit(w)
    PROVE  IInv'
<1> DEFINE t == [Current(Named(space, bound), fullscreen) EXCEPT !.place[w] = Anywhere]
<1>1. t = [Now EXCEPT !.place[w] = Anywhere]
  BY DEF Now
<1>2. /\ Fine(t, Holdable, Coverable) /\ t.named = Named(space, bound)
      /\ w \in Coverable
  <2>1. Fine([Now EXCEPT !.place[w] = Anywhere], Holdable, Coverable)
    BY MovedIsFine DEF IInv
  <2> QED BY <1>1, <2>1 DEF IInv, FirstCommit, Coverable, Current
<1>3. /\ Holdable' = Holdable /\ Coverable' = Coverable /\ bound' = bound /\ modal' = modal
      /\ fresh' = fresh /\ space' = space /\ pending_center' \subseteq space' \ X11
  BY DEF FirstCommit, Holdable, Coverable, IInv
<1>4. PICK placed \in IF w \in Candidates(t) THEN Spawned(t, w)
                      ELSE IF w \in fullscreen THEN {t} ELSE TileWindows(t) :
             \E u \in IF w \in fullscreen THEN {t} ELSE Deferred(placed, w) : Become(u)
  BY DEF FirstCommit
<1>5. w \in Candidates(t) => w \in Holdable /\ w \notin t.floating
  BY <1>2 DEF Candidates, Fine, Good
<1> HIDE DEF t
<1>6. Fine(placed, Holdable, Coverable)
  <2>1. CASE w \in Candidates(t)
    BY <1>2, <1>4, <1>5, <2>1, SpawnedIsFine
  <2>2. CASE w \notin Candidates(t)
    BY <1>2, <1>4, <2>2, TileWindowsIsFine
  <2> QED BY <2>1, <2>2
<1>7. PICK u : Become(u) /\ (u = t \/ u \in Deferred(placed, w))
  BY <1>4
<1>8. Fine(u, Holdable, Coverable)
  BY <1>2, <1>6, <1>7, DeferredIsFine
<1> QED BY <1>3, <1>7, <1>8, BecomeKeepsIInv DEF IInv

LEMMA X11MapKeepsIInv ==
    ASSUME IInv, NEW w \in Windows, X11Map(w)
    PROVE  IInv'
<1> DEFINE t == Current(Named(space', bound'), fullscreen)
<1>1. /\ w \in fresh \cap X11 /\ fresh' = fresh \ {w} /\ space' = space \cup {w}
      /\ pending_center' = pending_center /\ modal' = modal
      /\ bound' \subseteq bound \cup {w}
  BY DEF X11Map
<1>2. /\ Holdable \subseteq Holdable' /\ Holdable' \subseteq Windows /\ w \notin Holdable
      /\ Coverable' = Coverable
  BY <1>1, TilingAssumption DEF Holdable, Coverable, IInv, TilingAssumption
<1>3. Named(space', bound') \subseteq Holdable'
  BY <1>1 DEF Holdable, Named, IInv
<1>4. Fine(t, Holdable', Coverable')
  <2>1. Good(t, Holdable')
    BY <1>2, <1>3 DEF IInv, Now, Fine, Good, Current, Fields
  <2>2. Laid(t, Coverable')
    BY <1>2 DEF IInv, Now, Fine, Laid, Current
  <2> QED BY <2>1, <2>2 DEF Fine
<1>5. \A v \in Workspaces : w \notin t.members[v]
  BY <1>2 DEF IInv, Now, Fine, Good, Current
<1>6. PICK u : Become(u) /\ (\/ u = [t EXCEPT !.floating = @ \cup ({w} \cap bound')]
                              \/ u \in TileWindows(t))
  BY DEF X11Map
<1>7. Fine(u, Holdable', Coverable')
  <2>1. CASE u = [t EXCEPT !.floating = @ \cup ({w} \cap bound')]
    <3> HIDE DEF t
    <3> QED BY <1>4, <1>5, <2>1 DEF Fine, Good, Laid, Fields
  <2>2. CASE u \in TileWindows(t)
    BY <1>4, <2>2, TileWindowsIsFine
  <2> QED BY <1>6, <2>1, <2>2
<1>8. /\ fresh' \subseteq Windows /\ space' \subseteq Windows \ fresh'
      /\ bound' \subseteq space' \cap X11
      /\ pending_center' \subseteq space' \ X11 /\ modal' \subseteq space' \cap Dialogs
  BY <1>1 DEF IInv
<1> QED BY <1>6, <1>7, <1>8, BecomeKeepsIInv

\* The state in which the windows that stay are laid out.
Closed(w) ==
    Purged([Current(Named(space', bound'), Uncovered(w)) EXCEPT !.floating = @ \ {w}], w)

LEMMA ClosedIs ==
    ASSUME IInv, NEW w \in Windows, Close(w), w \in Named(space, bound)
    PROVE  /\ Fine(Closed(w), Holdable', Coverable')
           /\ Closed(w).named = Named(space, bound) \ {w}
           /\ Closed(w).fullscreen = fullscreen \ {w}
           /\ Closed(w).floating = floating_windows \ {w}
           /\ Closed(w).members = [v \in Workspaces |-> members[v] \ {w}]
           /\ Closed(w).tiles = [v \in Workspaces |-> Without(tiles[v], {w})]
<1> DEFINE c == [Current(Named(space', bound'), Uncovered(w)) EXCEPT !.floating = @ \ {w}]
<1>1. /\ w \in space /\ space' = space \ {w} /\ bound' = bound \ {w} /\ fresh' = fresh
  BY DEF Close
<1>2. Holdable \ {w} \subseteq Holdable' /\ Holdable' \subseteq Windows
      /\ Named(space', bound') \subseteq Holdable' /\ Coverable' = Coverable \ {w}
  BY <1>1, TilingAssumption DEF Holdable, Coverable, IInv, Named, TilingAssumption
<1>3. Named(space', bound') = Named(space, bound) \ {w}
  BY <1>1 DEF Named
<1>4. /\ c.named = Named(space, bound) \ {w} /\ c.fullscreen = fullscreen \ {w}
      /\ c.floating = floating_windows \ {w} /\ c.members = members /\ c.tiles = tiles
      /\ c.rects = tile_rects /\ c.place = place /\ c.active = active_workspace
      /\ DOMAIN c = Fields
  BY <1>3 DEF Current, Uncovered, Fields
<1> HIDE DEF c
<1>5. Good(c, Holdable)
  BY <1>4 DEF IInv, Now, Fine, Good, Current
<1>6. Laid(c, Coverable \ {w})
  BY <1>4 DEF IInv, Now, Fine, Laid, Current
<1>7. /\ Good(Closed(w), Holdable) /\ Laid(Closed(w), Coverable')
      /\ Closed(w).named = c.named /\ Closed(w).floating = c.floating
  BY <1>2, <1>5, <1>6, PurgedIsGood, PurgedIsLaid DEF Closed, c
<1>8. /\ Closed(w).fullscreen = c.fullscreen
      /\ Closed(w).members = [v \in Workspaces |-> c.members[v] \ {w}]
      /\ Closed(w).tiles = [v \in Workspaces |-> Without(c.tiles[v], {w})]
  <2>1. Closed(w) = Purged(c, w)
    BY DEF Closed, c
  <2> QED BY <1>4, <2>1 DEF Purged, Fields
<1>9. Good(Closed(w), Holdable')
  <2>1. Closed(w).members \in [Workspaces -> SUBSET Holdable']
    BY <1>2, <1>5, <1>8 DEF Good
  <2>2. Closed(w).named \subseteq Holdable'
    BY <1>2, <1>3, <1>4, <1>7
  <2> QED BY <1>2, <1>7, <2>1, <2>2 DEF Good
<1> QED BY <1>4, <1>7, <1>8, <1>9 DEF Fine

LEMMA CloseKeepsIInv ==
    ASSUME IInv, NEW w \in Windows, Close(w)
    PROVE  IInv'
<1>1. /\ w \in space /\ space' = space \ {w} /\ bound' = bound \ {w} /\ fresh' = fresh
      /\ pending_center' = pending_center \ {w} /\ modal' = modal \ {w}
  BY DEF Close
<1>2. /\ fresh' \subseteq Windows /\ space' \subseteq Windows \ fresh'
      /\ bound' \subseteq space' \cap X11
      /\ pending_center' \subseteq space' \ X11 /\ modal' \subseteq space' \cap Dialogs
  BY <1>1 DEF IInv
<1>3. CASE w \notin Named(space, bound)
  <2>1. w \in X11 /\ UNCHANGED <<fullscreen, layout>>
    BY <1>1, <1>3 DEF Named, Close
  <2>2. UNCHANGED <<fullscreen, floating_windows, members, tiles, tile_rects, place,
                    active_workspace>>
    BY <2>1 DEF layout
  <2>3. /\ Holdable \subseteq Holdable' /\ Holdable' \subseteq Windows
        /\ Named(space', bound') \subseteq Holdable' /\ Coverable' = Coverable
    BY <1>1, <2>1, TilingAssumption DEF Holdable, Coverable, IInv, Named, TilingAssumption
  <2>4. Good(Now', Holdable')
    BY <2>2, <2>3 DEF IInv, Now, Fine, Good, Current, Fields
  <2>5. Laid(Now', Coverable')
    BY <2>2, <2>3 DEF IInv, Now, Fine, Laid, Current
  <2> QED BY <1>2, <2>4, <2>5 DEF IInv, Fine
<1>4. CASE w \in Named(space, bound)
  <2>1. /\ Fine(Closed(w), Holdable', Coverable')
        /\ Closed(w).tiles = [v \in Workspaces |-> Without(tiles[v], {w})]
    BY <1>4, ClosedIs
  <2>2. PICK u : Become(u) /\ (\/ u = Closed(w)
                                \/ \E v \in Workspaces : u \in Refilled(Closed(w), v, w))
    BY <1>4 DEF Close, Closed
  <2>3. Fine(u, Holdable', Coverable')
    <3>1. ASSUME NEW v \in Workspaces, u \in Refilled(Closed(w), v, w)
          PROVE  Fine(u, Holdable', Coverable')
      <4>1. Closed(w).tiles[v] = Without(tiles[v], {w})
        BY <2>1
      <4>2. Laid(Current(Named(space, bound), fullscreen), Coverable)
        BY DEF IInv, Now, Fine
      <4> QED BY <2>1, <3>1, <4>1, <4>2, RefilledIsFine
    <3> QED BY <2>1, <2>2, <3>1
  <2> QED BY <1>2, <2>2, <2>3, BecomeKeepsIInv
<1> QED BY <1>3, <1>4

LEMMA ToTiledKeepsIInv ==
    ASSUME IInv, NEW w \in Windows, ToTiled(w)
    PROVE  IInv'
<1>1. PICK t \in AtKeyBinding, v \in Workspaces :
        /\ w \in t.named
        /\ \E u \in Retiled([Assigned(Purged(t, w), w, v) EXCEPT
                                !.floating = @ \ {w}, !.active = v], v, FALSE) : Become(u)
        /\ UNCHANGED life
  BY DEF ToTiled, Or, Centres
<1>2. Fine([Assigned(Purged(t, w), w, v) EXCEPT !.floating = @ \ {w}, !.active = v],
           Holdable, Coverable)
  BY <1>1, KeyBindingIsFine, ReassignedIsFine
<1>3. PICK u : Fine(u, Holdable, Coverable) /\ Become(u)
  BY <1>1, <1>2, RetiledIsFine
<1> QED BY <1>1, <1>3, SameLife

\* The state in which a window that has just become floating has left its workspace.
LEMMA FloatedIsFine ==
    ASSUME NEW t, NEW S, NEW F, NEW w \in Windows, NEW v \in Workspaces, Fine(t, S, F)
    PROVE  Fine([Purged(t, w) EXCEPT !.floating = @ \cup {w}, !.active = v], S, F)
<1> DEFINE p == Purged(t, w)
           q == [p EXCEPT !.floating = @ \cup {w}, !.active = v]
<1>1. Fine(p, S, F) /\ \A x \in Workspaces : w \notin p.members[x]
  BY PurgedIsFine, PurgedIsGood DEF Fine
<1> HIDE DEF p
<1>2. /\ DOMAIN q = Fields /\ q.named = p.named /\ q.fullscreen = p.fullscreen
      /\ q.floating = p.floating \cup {w} /\ q.members = p.members /\ q.tiles = p.tiles
      /\ q.rects = p.rects /\ q.place = p.place /\ q.active = v
  BY <1>1 DEF Fine, Good, Fields
<1> HIDE DEF q
<1>3. Fine(q, S, F)
  BY <1>1, <1>2 DEF Fine, Good, Laid
<1> QED BY <1>3 DEF p, q

LEMMA ToFloatingKeepsIInv ==
    ASSUME IInv, NEW w \in Windows, ToFloating(w)
    PROVE  IInv'
<1>1. PICK t \in AtKeyBinding, v \in Workspaces :
        /\ \E u \in Retiled([Purged(t, w) EXCEPT !.floating = @ \cup {w}, !.active = v],
                            v, FALSE) : Become([u EXCEPT !.place[w] = Anywhere])
        /\ UNCHANGED life
  BY ActiveExists DEF ToFloating, Or, Sources, Centres, MemberOf
<1>2. Fine([Purged(t, w) EXCEPT !.floating = @ \cup {w}, !.active = v], Holdable, Coverable)
  BY KeyBindingIsFine, FloatedIsFine
<1>3. PICK u : Fine(u, Holdable, Coverable) /\ Become([u EXCEPT !.place[w] = Anywhere])
  BY <1>1, <1>2, RetiledIsFine
<1>4. Fine([u EXCEPT !.place[w] = Anywhere], Holdable, Coverable)
  BY <1>3, MovedIsFine
<1> QED BY <1>1, <1>3, <1>4, SameLife

\* A window on its way to another workspace.
LEMMA MovingIsFine ==
    ASSUME NEW t, NEW S, NEW F, NEW w, w \in t.named, NEW v \in Workspaces, Fine(t, S, F)
    PROVE  Fine([Assigned(Purged(t, w), w, v) EXCEPT
                    !.floating = @ \ {w}, !.active = v, !.place[w] = Anywhere], S, F)
<1> DEFINE a == Assigned(Purged(t, w), w, v)
           b == [a EXCEPT !.floating = @ \ {w}, !.active = v]
<1>1. Fine(b, S, F)
  BY ReassignedIsFine
<1>2. Fine([b EXCEPT !.place[w] = Anywhere], S, F)
  <2> HIDE DEF b
  <2> QED BY <1>1, MovedIsFine
<1> QED BY <1>2

LEMMA MoveWindowKeepsIInv ==
    ASSUME IInv, NEW w \in Windows, NEW target \in Workspaces, MoveWindow(w, target)
    PROVE  IInv'
<1>1. PICK t \in AtKeyBinding, source \in Workspaces \cup {NoWorkspace} :
        /\ w \in t.named
        /\ \E u \in RetiledBoth([Assigned(Purged(t, w), w, target) EXCEPT
                                    !.floating = @ \ {w}, !.active = target,
                                    !.place[w] = Anywhere], source, target) : Become(u)
        /\ UNCHANGED life
  BY DEF MoveWindow, Sources, Centres, MemberOf
<1>2. Fine([Assigned(Purged(t, w), w, target) EXCEPT
               !.floating = @ \ {w}, !.active = target, !.place[w] = Anywhere],
           Holdable, Coverable)
  BY <1>1, KeyBindingIsFine, MovingIsFine
<1>3. PICK u : Fine(u, Holdable, Coverable) /\ Become(u)
  BY <1>1, <1>2, RetiledBothIsFine
<1> QED BY <1>1, <1>3, SameLife

\* Windows gathered in v.
LEMMA GatheredIsFine ==
    ASSUME NEW t, NEW S, NEW F, NEW v \in Workspaces, NEW ids \in SUBSET t.named,
           Fine(t, S, F)
    PROVE  Fine(Gathered(t, v, ids), S, F)
<1> DEFINE u == Gathered(t, v, ids)
<1>1. Good(u, S)
  BY DEF Fine, Good, Fields, Without, Gathered
<1>2. /\ u.fullscreen = t.fullscreen /\ u.floating = t.floating \ ids /\ u.place = t.place
      /\ u.rects = t.rects
      /\ u.tiles = [x \in Workspaces |-> Without(t.tiles[x], ids)]
  BY DEF Gathered, Fine, Good, Fields
<1> HIDE DEF u
<1>3. ASSUME NEW x \in Workspaces
      PROVE  /\ u.tiles[x] \in [DOMAIN u.tiles[x] -> Tile]
             /\ Roomy => Packed(u.tiles[x], x)
  <2>1. u.tiles[x] = Without(t.tiles[x], ids)
    BY <1>2
  <2>2. t.tiles[x] \in [DOMAIN t.tiles[x] -> Tile] /\ (Roomy => Packed(t.tiles[x], x))
    BY DEF Fine, Laid
  <2>3. /\ Without(t.tiles[x], ids) \in [DOMAIN Without(t.tiles[x], ids) -> Tile]
        /\ Roomy => Packed(Without(t.tiles[x], ids), x)
    BY <2>2, WithoutIs
  <2> QED BY <2>1, <2>3
<1>4. Laid(u, F)
  BY <1>2, <1>3 DEF Fine, Laid
<1> QED BY <1>1, <1>4 DEF Fine, u

LEMMA TileCurrentKeepsIInv ==
    ASSUME IInv, NEW v \in Workspaces, TileCurrent(v)
    PROVE  IInv'
<1>1. PICK t \in AtKeyBinding : \E ids \in SUBSET t.named :
        /\ \/ Become([t EXCEPT !.active = v])
           \/ \E u \in Retiled(Gathered(t, v, ids), v, FALSE) : Become(u)
        /\ UNCHANGED life
  BY DEF TileCurrent
<1>2. PICK ids \in SUBSET t.named :
        \/ Become([t EXCEPT !.active = v])
        \/ \E u \in Retiled(Gathered(t, v, ids), v, FALSE) : Become(u)
  BY <1>1
<1>3. Fine(t, Holdable, Coverable)
  BY KeyBindingIsFine
<1>4. Fine([t EXCEPT !.active = v], Holdable, Coverable)
  BY <1>3, ChangedIsFine
<1>5. Fine(Gathered(t, v, ids), Holdable, Coverable)
  BY <1>3, GatheredIsFine
<1>6. PICK u : Become(u) /\ Fine(u, Holdable, Coverable)
  BY <1>2, <1>4, <1>5, RetiledIsFine
<1> QED BY <1>1, <1>6, SameLife

\* The tile a released window is put back to.
LEMMA SnappedIsFine ==
    ASSUME NEW t, NEW S, NEW F, NEW w, NEW r \in Snapped(t, w), Fine(t, S, F)
    PROVE  Fine([t EXCEPT !.place = Placed(@, [x \in {w} |-> r])], S, F)
<1> DEFINE l == [x \in {w} |-> r]
           u == [t EXCEPT !.place = Placed(@, l)]
<1>1. r \in Rect
  BY DEF Snapped, Fine, Laid, Tile
<1>2. t.place \in [Windows -> Rect \cup {Anywhere}]
  BY DEF Fine, Laid
<1>3. \A x \in DOMAIN l : l[x] \in Rect
  BY <1>1
<1> HIDE DEF l
<1>4. Placed(t.place, l) \in [Windows -> Rect \cup {Anywhere}]
  BY <1>2, <1>3, PlacedIs
<1>5. /\ DOMAIN u = Fields /\ u.named = t.named /\ u.fullscreen = t.fullscreen
      /\ u.floating = t.floating /\ u.members = t.members /\ u.tiles = t.tiles
      /\ u.rects = t.rects /\ u.active = t.active /\ u.place = Placed(t.place, l)
  BY DEF Fine, Good, Fields
<1> HIDE DEF u
<1>6. Fine(u, S, F)
  BY <1>4, <1>5 DEF Fine, Good, Laid
<1> QED BY <1>6 DEF u, l

LEMMA ReleaseKeepsIInv ==
    ASSUME IInv, NEW w \in Windows, Release(w)
    PROVE  IInv'
<1> DEFINE t == Current(Named(space, bound), fullscreen)
<1>1. PICK source \in Workspaces \cup {NoWorkspace}, target \in Workspaces :
        \/ \E r \in Snapped(t, w) : Become([t EXCEPT !.place = Placed(@, [x \in {w} |-> r])])
        \/ \E u \in RetiledBoth([(IF source = target THEN t ELSE Assigned(t, w, target))
                                    EXCEPT !.active = target], source, target) : Become(u)
  BY ActiveExists DEF Release, Or, Centres, MemberOf
<1>2. Fine(t, Holdable, Coverable) /\ w \in Holdable /\ w \notin t.floating
  BY DEF IInv, Now, Release, Candidates, Fine, Good
<1> HIDE DEF t
<1>3. Fine(Assigned(t, w, target), Holdable, Coverable)
  BY <1>2, AssignedIsFine
<1>4. Fine([(IF source = target THEN t ELSE Assigned(t, w, target)) EXCEPT !.active = target],
           Holdable, Coverable)
  BY <1>2, <1>3, ChangedIsFine
<1>5. \A r \in Snapped(t, w) :
        Fine([t EXCEPT !.place = Placed(@, [x \in {w} |-> r])], Holdable, Coverable)
  BY <1>2, SnappedIsFine
<1>6. PICK u : Become(u) /\ Fine(u, Holdable, Coverable)
  BY <1>1, <1>4, <1>5, RetiledBothIsFine
<1> QED BY <1>6, SameLife DEF Release

-----------------------------------------------------------------------------
(* The theorems *)

\* The rest: windows, dialogs and fullscreen come and go without a word to the tiling
\* state, and the active workspace changes.
LEMMA NextKeepsIInv ==
    ASSUME IInv, [Next]_vars
    PROVE  IInv'
<1>1. ASSUME NEW w \in Windows, NewToplevel(w)
      PROVE  IInv'
  <2>1. /\ w \in fresh \ X11 /\ fresh' = fresh \ {w} /\ space' = space \cup {w}
        /\ bound' = bound /\ pending_center' = pending_center \cup {w} /\ modal' = modal
        /\ UNCHANGED <<fullscreen, floating_windows, members, tiles, tile_rects, place,
                       active_workspace>>
    BY <1>1 DEF NewToplevel, layout
  <2>2. Holdable \subseteq Holdable' /\ Holdable' \subseteq Windows
        /\ Named(space', bound') \subseteq Holdable' /\ Coverable \subseteq Coverable'
    BY <2>1, TilingAssumption DEF Holdable, Coverable, Named, IInv, TilingAssumption
  <2>3. Good(Now', Holdable')
    <3>1. members \in [Workspaces -> SUBSET Holdable'] /\ Named(space', bound') \subseteq Holdable'
      BY <2>2 DEF IInv, Now, Fine, Good, Current
    <3> QED BY <2>1, <2>2, <3>1 DEF IInv, Now, Fine, Good, Current, Fields
  <2>4. Laid(Now', Coverable')
    BY <2>1, <2>2 DEF IInv, Now, Fine, Laid, Current
  <2> QED BY <2>1, <2>3, <2>4 DEF IInv, Fine
<1>2. ASSUME NEW w \in Windows, X11Surface(w)
      PROVE  IInv'
  <2>1. /\ UNCHANGED <<fresh, space, pending_center, modal, fullscreen, floating_windows,
                       members, tiles, tile_rects, place, active_workspace>>
        /\ bound' \subseteq space \cap X11
    BY <1>2 DEF X11Surface, layout, IInv
  <2>2. Holdable' = Holdable /\ Named(space', bound') \subseteq Holdable'
        /\ Coverable' = Coverable
    BY <2>1 DEF Holdable, Coverable, Named, IInv
  <2>3. Good(Now', Holdable')
    BY <2>1, <2>2 DEF IInv, Now, Fine, Good, Current, Fields
  <2>4. Laid(Now', Coverable')
    BY <2>1, <2>2 DEF IInv, Now, Fine, Laid, Current
  <2> QED BY <2>1, <2>3, <2>4 DEF IInv, Fine
<1>3. ASSUME NEW w \in Windows,
             DialogHint(w) \/ EnterFullscreen(w) \/ ExitFullscreen(w) \/ Displace(w)
      PROVE  IInv'
  <2>1. /\ UNCHANGED <<fresh, space, bound, pending_center, floating_windows, members,
                       tiles, tile_rects, active_workspace>>
        /\ modal' \subseteq space \cap Dialogs
        /\ fullscreen' \subseteq Coverable
        /\ place' = place \/ place' = [place EXCEPT ![w] = Anywhere]
    BY <1>3 DEF DialogHint, EnterFullscreen, ExitFullscreen, Displace, life, layout, IInv,
                Coverable, Uncovered, Fine, Laid, Now, Current
  <2>2. Holdable' = Holdable /\ Coverable' = Coverable
    BY <2>1 DEF Holdable, Coverable
  <2>3. Good(Now', Holdable')
    BY <2>1, <2>2 DEF IInv, Now, Fine, Good, Current, Fields
  <2>4. Laid(Now', Coverable')
    BY <2>1, <2>2 DEF IInv, Now, Fine, Laid, Current
  <2> QED BY <2>1, <2>3, <2>4 DEF IInv, Fine
<1>4. ASSUME NEW v \in Workspaces, Activate(v)
      PROVE  IInv'
  <2>1. PICK t \in AtKeyBinding : Become([t EXCEPT !.active = v]) /\ UNCHANGED life
    BY <1>4 DEF Activate
  <2>2. Fine([t EXCEPT !.active = v], Holdable, Coverable)
    BY KeyBindingIsFine, ChangedIsFine
  <2> QED BY <2>1, <2>2, SameLife
<1>5. CASE UNCHANGED vars
  <2>1. /\ UNCHANGED <<fresh, space, bound, pending_center, modal, fullscreen>>
        /\ UNCHANGED <<floating_windows, members, tiles, tile_rects, place, active_workspace>>
    BY <1>5 DEF vars, life, layout
  <2>2. Now' = Now /\ Holdable' = Holdable /\ Coverable' = Coverable
    BY <2>1 DEF Now, Current, Holdable, Coverable
  <2> QED BY <2>1, <2>2 DEF IInv
<1> QED
  BY <1>1, <1>2, <1>3, <1>4, <1>5, FirstCommitKeepsIInv, X11MapKeepsIInv, CloseKeepsIInv,
     ToTiledKeepsIInv, ToFloatingKeepsIInv, MoveWindowKeepsIInv, TileCurrentKeepsIInv,
     ReleaseKeepsIInv DEF Next

\* IInv always holds.
THEOREM Invariance == Spec => []IInv
<1>1. Init => IInv
  BY InitIInv
<1>2. IInv /\ [Next]_vars => IInv'
  BY NextKeepsIInv
<1> QED BY <1>1, <1>2, PTL DEF Spec

\* All tiling state is of its type, and only mapped Wayland windows cover outputs.
THEOREM TypeCorrect == Spec => []TypeOK
BY Invariance, IInvImplies, PTL

\* Each window in one workspace at most, tiles for members only.
THEOREM OneWorkspaceEach == Spec => []OneWorkspace
BY Invariance, IInvImplies, PTL

\* No workspace holds a floating window.
THEOREM FloatingStayOut == Spec => []FloatingIsUntiled
BY Invariance, IInvImplies, PTL

\* No workspace holds a Wayland window that is gone.
THEOREM GoneStayOut == Spec => []MembersAreMapped
BY Invariance, IInvImplies, PTL

\* Where there is room, the tiles of a workspace never overlap, keep the gap between
\* them and never leave its area, whichever windows come, go, float and move.
THEOREM TilesStayPacked ==
    ASSUME Roomy
    PROVE  Spec => []TilesArePacked
<1>1. IInv => TilesArePacked
  BY IInvImplies
<1> QED BY <1>1, Invariance, PTL

-----------------------------------------------------------------------------
(* Windows that leave a workspace *)

\* What leaves x is no candidate, and neither closed nor made to float.
Keeps(x) == \A y \in members[x] \ members'[x] : Dropped(y)

LEMMA KeepsIf ==
    ASSUME NEW x, NEW X, members[x] \cap Tileable \subseteq members'[x],
           floating_windows' \cap members[x] \subseteq X,
           (space \ space') \cap members[x] \subseteq X
    PROVE  \A y \in members[x] \ members'[x] : y \in X \/ Dropped(y)
BY DEF Dropped

\* No member floats.
LEMMA KeepsWhere ==
    ASSUME IInv, NEW x \in Workspaces, NEW w, w \notin members[x],
           members[x] \cap Tileable \subseteq members'[x],
           floating_windows' \subseteq floating_windows \cup {w},
           space \ space' \subseteq {w}
    PROVE  Keeps(x)
<1>1. floating_windows \cap members[x] = {}
  BY IInvImplies DEF FloatingIsUntiled
<1>2. \A y \in members[x] \ members'[x] : y \in {} \/ Dropped(y)
  <2>1. floating_windows' \cap members[x] \subseteq {}
    BY <1>1
  <2>2. (space \ space') \cap members[x] \subseteq {}
    OBVIOUS
  <2> QED BY <2>1, <2>2, KeepsIf
<1> QED BY <1>2 DEF Keeps

LEMMA WholeRefits ==
    ASSUME NEW t, NEW v \in Workspaces, Become(t), Whole(t, v)
    PROVE  Refits(v)'
<1>1. members' = t.members /\ tiles' = t.tiles /\ place' = t.place
  BY DEF Become
<1>2. Full(v)'
  BY <1>1 DEF Whole, Full, Filled
<1>3. \A u \in members'[v] \ X11 : place'[u] = tiles'[v][u]
  BY <1>1 DEF Whole
<1> QED BY <1>2, <1>3 DEF Refits

LEMMA FillsRefits ==
    ASSUME NEW t, NEW v \in Workspaces, Become(t), Fills(t, v), Tileable' \subseteq Candidates(t)
    PROVE  Refits(v)'
<1>1. members' = t.members /\ tiles' = t.tiles /\ place' = t.place
  BY DEF Become
<1>2. Full(v)'
  BY <1>1 DEF Fills, Full, Filled
<1>3. \A u \in (members'[v] \cap Tileable') \ X11 : place'[u] = tiles'[v][u]
  BY <1>1 DEF Fills
<1> QED BY <1>2, <1>3 DEF Refits

\* Laying out a workspace fills it, and takes no candidates from another.
LEMMA RetiledFills ==
    ASSUME Roomy, NEW t, NEW S, NEW F, NEW v \in Workspaces, NEW assign \in BOOLEAN,
           NEW u \in Retiled(t, v, assign), Fine(t, S, F), Become(u)
    PROVE  /\ Refits(v)'
           /\ \A x \in Workspaces \ {v} : t.members[x] \cap Candidates(t) \subseteq members'[x]
           /\ floating_windows' \subseteq t.floating
<1>1. Whole(u, v) /\ Spares(t, u, Workspaces \ {v})
  BY RetiledIsWhole DEF Fine
<1>2. Refits(v)'
  BY <1>1, WholeRefits
<1> QED BY <1>1, <1>2 DEF Spares, Become

LEMMA RetiledBothFills ==
    ASSUME Roomy, NEW t, NEW S, NEW F, NEW source \in Workspaces \cup {NoWorkspace},
           NEW target \in Workspaces, NEW u \in RetiledBoth(t, source, target),
           Fine(t, S, F), Become(u), NEW x \in Workspaces
    PROVE  /\ x = source \/ x = target => Refits(x)'
           /\ x # source /\ x # target =>
                /\ t.members[x] \cap Candidates(t) \subseteq members'[x]
                /\ floating_windows' \subseteq t.floating
<1>1. /\ Whole(u, target)
      /\ source \in Workspaces => Whole(u, source)
      /\ Spares(t, u, Workspaces \ {source, target})
  BY RetiledBothIsWhole DEF Fine
<1>2. x = source \/ x = target => Refits(x)'
  BY <1>1, WholeRefits
<1> QED BY <1>1, <1>2 DEF Spares, Become

\* A candidate is one at a key binding too.
LEMMA TileableAtKeyBinding ==
    ASSUME IInv, NEW t \in AtKeyBinding
    PROVE  Tileable \subseteq Candidates(t)
BY KeyBindingIsFine DEF Tileable, Candidates, Current

\* A window is a member of one workspace at most, of none if it floats.
LEMMA MemberOfOne ==
    ASSUME IInv, NEW x \in Workspaces, NEW w \in members[x], NEW t, t.members = members
    PROVE  /\ MemberOf(t, w) = {x}
           /\ w \notin floating_windows
           /\ Sources(t, w) = {x}
           /\ NoWorkspace # x
<1>1. OneWorkspace /\ FloatingIsUntiled
  BY IInvImplies
<1>2. MemberOf(t, w) = {x}
  BY <1>1 DEF OneWorkspace, MemberOf
<1>3. NoWorkspace # x
  BY TilingAssumption DEF TilingAssumption
<1> QED BY <1>1, <1>2, <1>3 DEF FloatingIsUntiled, Sources

\* z is t with w purged, assigned to v and floating no more, drawn where it was or not.
IsReassigned(z, t, w, v) ==
    \/ z = [Assigned(Purged(t, w), w, v) EXCEPT !.floating = @ \ {w}, !.active = v]
    \/ z = [Assigned(Purged(t, w), w, v) EXCEPT
               !.floating = @ \ {w}, !.active = v, !.place[w] = Anywhere]

LEMMA ReassignedIs ==
    ASSUME NEW t, NEW S, NEW F, NEW w, NEW v \in Workspaces, NEW z, NEW x \in Workspaces,
           Fine(t, S, F), IsReassigned(z, t, w, v)
    PROVE  /\ z.floating \subseteq t.floating
           /\ Candidates(t) \subseteq Candidates(z)
           /\ x # v => z.members[x] = t.members[x] \ {w}
<1> DEFINE p == Purged(t, w)
           a == Assigned(p, w, v)
<1>1. /\ DOMAIN p = Fields /\ p.named = t.named /\ p.fullscreen = t.fullscreen
      /\ p.floating = t.floating
      /\ p.members = [y \in Workspaces |-> t.members[y] \ {w}]
  BY DEF Fine, Good, Purged, Fields
<1> HIDE DEF p
<1>2. /\ DOMAIN a = Fields /\ a.named = t.named /\ a.fullscreen = t.fullscreen
      /\ a.floating = t.floating
      /\ a.members = [y \in Workspaces |-> IF y = v THEN p.members[y] \cup {w}
                                           ELSE p.members[y] \ {w}]
  BY <1>1 DEF Assigned, Fields
<1>3. \/ z = [a EXCEPT !.floating = @ \ {w}, !.active = v]
      \/ z = [a EXCEPT !.floating = @ \ {w}, !.active = v, !.place[w] = Anywhere]
  BY DEF p, IsReassigned
<1> HIDE DEF a
<1>4. /\ z.named = t.named /\ z.fullscreen = t.fullscreen
      /\ z.floating = t.floating \ {w} /\ z.members = a.members
  BY <1>2, <1>3 DEF Fields
<1>5. Candidates(t) \subseteq Candidates(z)
  BY <1>4 DEF Candidates
<1>6. x # v => z.members[x] = t.members[x] \ {w}
  BY <1>1, <1>2, <1>4
<1> QED BY <1>4, <1>5, <1>6

LEMMA ToTiledFills ==
    ASSUME Roomy, IInv, NEW w \in Windows, ToTiled(w), NEW x \in Workspaces
    PROVE  Refits(x)' \/ Keeps(x)
<1>1. PICK t, v : /\ t \in AtKeyBinding /\ v \in Workspaces
                  /\ w \in t.named \cap t.floating
                  /\ \E u \in Retiled([Assigned(Purged(t, w), w, v) EXCEPT
                                          !.floating = @ \ {w}, !.active = v], v, FALSE) :
                        Become(u)
                  /\ UNCHANGED life
  BY DEF ToTiled, Or, Centres
<1> DEFINE z == [Assigned(Purged(t, w), w, v) EXCEPT !.floating = @ \ {w}, !.active = v]
<1>2. /\ Fine(t, Holdable, Coverable) /\ t.named = Named(space, bound)
      /\ t.members = members /\ t.floating = floating_windows
      /\ Tileable \subseteq Candidates(t)
  BY <1>1, KeyBindingIsFine, TileableAtKeyBinding
<1>3. Fine(z, Holdable, Coverable)
  BY <1>1, <1>2, ReassignedIsFine
<1>4. PICK u : u \in Retiled(z, v, FALSE) /\ Become(u)
  BY <1>1
<1> HIDE DEF z
<1>5. /\ Candidates(t) \subseteq Candidates(z) /\ z.floating \subseteq t.floating
      /\ w \notin members[x] /\ x # v => z.members[x] = members[x]
  <2>1. IsReassigned(z, t, w, v)
    BY DEF z, IsReassigned
  <2>2. /\ z.floating \subseteq t.floating
        /\ Candidates(t) \subseteq Candidates(z)
        /\ x # v => z.members[x] = t.members[x] \ {w}
    BY <1>1, <1>2, <2>1, ReassignedIs
  <2>3. w \notin members[x] => t.members[x] \ {w} = members[x]
    BY <1>2
  <2> QED BY <2>2, <2>3
<1>6. w \notin members[x]
  BY <1>1, <1>2, MemberOfOne
<1>7. /\ Refits(v)'
      /\ \A y \in Workspaces \ {v} : z.members[y] \cap Candidates(z) \subseteq members'[y]
      /\ floating_windows' \subseteq z.floating
  BY <1>1, <1>3, <1>4, RetiledFills
<1>8. ASSUME x # v PROVE Keeps(x)
  <2>1. members[x] \cap Tileable \subseteq members'[x]
    BY <1>2, <1>5, <1>6, <1>7, <1>8
  <2>2. floating_windows' \subseteq floating_windows \cup {w} /\ space \ space' \subseteq {w}
    BY <1>1, <1>2, <1>5, <1>7 DEF life
  <2> QED BY <1>6, <2>1, <2>2, KeepsWhere
<1> QED BY <1>7, <1>8

LEMMA ToFloatingFills ==
    ASSUME Roomy, IInv, NEW w \in Windows, ToFloating(w), NEW x \in Workspaces
    PROVE  Refits(x)' \/ Keeps(x)
<1>1. PICK t, v : /\ t \in AtKeyBinding
                  /\ v \in Or(Sources(t, w), {active_workspace})
                  /\ \E u \in Retiled([Purged(t, w) EXCEPT !.floating = @ \cup {w},
                                                           !.active = v], v, FALSE) :
                        Become([u EXCEPT !.place[w] = Anywhere])
                  /\ UNCHANGED life
  BY DEF ToFloating
<1> DEFINE z == [Purged(t, w) EXCEPT !.floating = @ \cup {w}, !.active = v]
<1>2. /\ Fine(t, Holdable, Coverable) /\ t.named = Named(space, bound)
      /\ t.members = members /\ t.floating = floating_windows
      /\ Tileable \subseteq Candidates(t)
  BY <1>1, KeyBindingIsFine, TileableAtKeyBinding
<1>3. v \in Workspaces /\ (w \in members[x] => v = x)
  BY <1>1, <1>2, ActiveExists, MemberOfOne DEF Or, Sources, Centres, MemberOf
<1>4. Fine(z, Holdable, Coverable)
  BY <1>2, <1>3, FloatedIsFine
<1>5. PICK u : u \in Retiled(z, v, FALSE) /\ Become([u EXCEPT !.place[w] = Anywhere])
  BY <1>1
<1>6. /\ z.named = t.named /\ z.fullscreen = t.fullscreen
      /\ z.floating = t.floating \cup {w}
      /\ \A y \in Workspaces : z.members[y] = t.members[y] \ {w}
  BY <1>2 DEF Fine, Good, Purged, Fields
<1> HIDE DEF z
<1> DEFINE e == [u EXCEPT !.place[w] = Anywhere]
<1>7. Whole(u, v) /\ Spares(z, u, Workspaces \ {v}) /\ Fine(u, Holdable, Coverable)
  BY <1>3, <1>4, <1>5, RetiledIsWhole, RetiledIsFine DEF Fine
<1>8. w \notin u.members[v]
  BY <1>6, <1>7 DEF Whole, Spares, Candidates
<1>9. /\ e.named = u.named /\ e.fullscreen = u.fullscreen /\ e.floating = u.floating
      /\ e.members = u.members /\ e.tiles = u.tiles
      /\ e.place = [u.place EXCEPT ![w] = Anywhere]
      /\ DOMAIN u.place = Windows
  BY <1>7 DEF Fine, Good, Laid, Fields
<1> HIDE DEF e
<1>10. Whole(e, v)
  <2>1. Candidates(e) = Candidates(u)
    BY <1>9 DEF Candidates
  <2>2. \A y \in u.members[v] : e.place[y] = u.place[y]
    BY <1>8, <1>9
  <2> QED BY <1>7, <1>9, <2>1, <2>2 DEF Whole
<1>11. Become(e)
  BY <1>5 DEF e
<1>12. Refits(v)'
  BY <1>3, <1>10, <1>11, WholeRefits
<1>13. ASSUME x # v PROVE Keeps(x)
  <2>1. w \notin members[x]
    BY <1>3, <1>13
  <2>2. members[x] \cap Tileable \subseteq members'[x]
    <3>1. z.members[x] = members[x]
      <4>1. z.members[x] = members[x] \ {w}
        BY <1>2, <1>6
      <4> QED BY <2>1, <4>1
    <3>2. members[x] \cap Tileable \subseteq z.members[x] \cap Candidates(z)
      BY <1>2, <1>6, <2>1, <3>1 DEF Candidates
    <3>3. z.members[x] \cap Candidates(z) \subseteq u.members[x]
      BY <1>7, <1>13 DEF Spares
    <3>4. members' = u.members
      BY <1>9, <1>11 DEF Become
    <3> QED BY <3>2, <3>3, <3>4
  <2>3. floating_windows' \subseteq floating_windows \cup {w}
    BY <1>2, <1>6, <1>7, <1>9, <1>11 DEF Become, Spares
  <2>4. space \ space' \subseteq {w}
    BY <1>1 DEF life
  <2> QED BY <2>1, <2>2, <2>3, <2>4, KeepsWhere
<1> QED BY <1>12, <1>13

LEMMA MoveWindowFills ==
    ASSUME Roomy, IInv, NEW w \in Windows, NEW target \in Workspaces, MoveWindow(w, target),
           NEW x \in Workspaces
    PROVE  Refits(x)' \/ Keeps(x)
<1>1. PICK t, source :
        /\ t \in AtKeyBinding /\ source \in Sources(t, w)
        /\ w \in t.named
        /\ \E u \in RetiledBoth([Assigned(Purged(t, w), w, target) EXCEPT
                                    !.floating = @ \ {w}, !.active = target,
                                    !.place[w] = Anywhere], source, target) : Become(u)
        /\ UNCHANGED life
  BY DEF MoveWindow
<1> DEFINE z == [Assigned(Purged(t, w), w, target) EXCEPT
                    !.floating = @ \ {w}, !.active = target, !.place[w] = Anywhere]
<1>2. /\ Fine(t, Holdable, Coverable) /\ t.named = Named(space, bound)
      /\ t.members = members /\ t.floating = floating_windows
      /\ Tileable \subseteq Candidates(t)
  BY <1>1, KeyBindingIsFine, TileableAtKeyBinding
<1>3. source \in Workspaces \cup {NoWorkspace} /\ (w \in members[x] => source = x)
  BY <1>1, <1>2, MemberOfOne DEF Sources, Centres, MemberOf
<1>4. Fine(z, Holdable, Coverable)
  BY <1>1, <1>2, MovingIsFine
<1>5. PICK u : u \in RetiledBoth(z, source, target) /\ Become(u)
  BY <1>1
<1> HIDE DEF z
<1>6. /\ Candidates(t) \subseteq Candidates(z) /\ z.floating \subseteq t.floating
      /\ w \notin members[x] /\ x # target => z.members[x] = members[x]
  <2>1. IsReassigned(z, t, w, target)
    BY DEF z, IsReassigned
  <2>2. /\ z.floating \subseteq t.floating
        /\ Candidates(t) \subseteq Candidates(z)
        /\ x # target => z.members[x] = t.members[x] \ {w}
    BY <1>2, <2>1, ReassignedIs
  <2>3. w \notin members[x] => t.members[x] \ {w} = members[x]
    BY <1>2
  <2> QED BY <2>2, <2>3
<1>7. /\ x = source \/ x = target => Refits(x)'
      /\ x # source /\ x # target =>
           /\ z.members[x] \cap Candidates(z) \subseteq members'[x]
           /\ floating_windows' \subseteq z.floating
  <2>1. source \in Workspaces \cup {NoWorkspace}
    BY <1>3
  <2> QED BY <2>1, <1>4, <1>5, RetiledBothFills
<1>8. ASSUME x # source, x # target PROVE Keeps(x)
  <2>1. w \notin members[x]
    BY <1>3, <1>8
  <2>2. members[x] \cap Tileable \subseteq members'[x]
    BY <1>2, <1>6, <1>7, <1>8, <2>1
  <2>3. floating_windows' \subseteq floating_windows \cup {w} /\ space \ space' \subseteq {w}
    BY <1>1, <1>2, <1>6, <1>7, <1>8 DEF life
  <2> QED BY <2>1, <2>2, <2>3, KeepsWhere
<1> QED BY <1>7, <1>8

LEMMA ReleaseFills ==
    ASSUME Roomy, IInv, NEW w \in Windows, Release(w), NEW x \in Workspaces
    PROVE  Refits(x)' \/ Keeps(x)
<1> DEFINE t == Now
<1>1. PICK source, target :
        /\ source \in IF MemberOf(t, w) = {} THEN {NoWorkspace} ELSE MemberOf(t, w)
        /\ target \in Or(Or(Centres(t, w), {source}), {active_workspace})
        /\ \/ \E r : Become([t EXCEPT !.place = Placed(@, [y \in {w} |-> r])])
           \/ \E u \in RetiledBoth([(IF source = target THEN t ELSE Assigned(t, w, target))
                                       EXCEPT !.active = target], source, target) :
                 Become(u)
  BY DEF Release, Now
<1>2. /\ Fine(t, Holdable, Coverable) /\ t.named = Named(space, bound)
      /\ t.members = members /\ Tileable = Candidates(t) /\ t.floating = floating_windows
      /\ w \in Holdable /\ w \notin t.floating /\ UNCHANGED life
  BY DEF IInv, Now, Tileable, Release, Current, Candidates, Fine, Good
<1> HIDE DEF t
<1>3. /\ source \in Workspaces \cup {NoWorkspace} /\ target \in Workspaces
      /\ w \in members[x] => source = x
  BY <1>1, <1>2, ActiveExists, MemberOfOne DEF Or, Centres, MemberOf
<1>4. CASE \E r : Become([t EXCEPT !.place = Placed(@, [y \in {w} |-> r])])
  <2>1. members' = members
    BY <1>2, <1>4 DEF Become, Fine, Good, Fields
  <2> QED BY <2>1 DEF Keeps
<1>5. ASSUME NEW u \in RetiledBoth([(IF source = target THEN t ELSE Assigned(t, w, target))
                                       EXCEPT !.active = target], source, target),
             Become(u)
      PROVE  Refits(x)' \/ Keeps(x)
  <2> DEFINE a == IF source = target THEN t ELSE Assigned(t, w, target)
             z == [a EXCEPT !.active = target]
  <2>1. Fine(a, Holdable, Coverable)
    BY <1>2, <1>3, AssignedIsFine
  <2>2. /\ a.named = t.named /\ a.fullscreen = t.fullscreen /\ a.floating = t.floating
        /\ w \notin members[x] /\ x # target => a.members[x] = members[x]
    <3>1. CASE source = target
      BY <1>2, <3>1
    <3>2. CASE source # target
      BY <1>2, <3>2 DEF Assigned, Fine, Good, Fields
    <3> QED BY <3>1, <3>2
  <2>3. u \in RetiledBoth(z, source, target)
    BY <1>5
  <2> HIDE DEF a
  <2>4. Fine(z, Holdable, Coverable)
    BY <1>3, <2>1, ChangedIsFine
  <2>5. /\ z.members = a.members /\ z.floating = t.floating
        /\ Candidates(z) = Candidates(t)
    BY <2>1, <2>2 DEF Fine, Good, Fields, Candidates
  <2> HIDE DEF z
  <2>6. /\ x = source \/ x = target => Refits(x)'
        /\ x # source /\ x # target =>
             /\ z.members[x] \cap Candidates(z) \subseteq members'[x]
             /\ floating_windows' \subseteq z.floating
    <3>1. source \in Workspaces \cup {NoWorkspace} /\ target \in Workspaces
      BY <1>3
    <3> QED BY <3>1, <1>5, <2>3, <2>4, RetiledBothFills
  <2>7. ASSUME x # source, x # target PROVE Keeps(x)
    <3>1. w \notin members[x]
      BY <1>3, <2>7
    <3>2. members[x] \cap Tileable \subseteq members'[x]
      BY <1>2, <2>2, <2>5, <2>6, <2>7, <3>1
    <3>3. floating_windows' \subseteq floating_windows \cup {w} /\ space \ space' \subseteq {w}
      BY <1>2, <2>5, <2>6, <2>7 DEF life
    <3> QED BY <3>1, <3>2, <3>3, KeepsWhere
  <2> QED BY <2>6, <2>7
<1> QED BY <1>1, <1>4, <1>5

\* Laying out a workspace takes only windows that are no candidates from any workspace.
LEMMA RetiledKeeps ==
    ASSUME NEW t, NEW S, NEW v \in Workspaces, NEW assign \in BOOLEAN, NEW x \in Workspaces,
           NEW u \in Retiled(t, v, assign), Good(t, S)
    PROVE  /\ t.members[x] \cap Candidates(t) \subseteq u.members[x]
           /\ u.floating \subseteq t.floating
<1> DEFINE cands == Candidates(t)
           kept  == [y \in Workspaces |-> t.members[y] \cap cands]
           loose == cands \ UNION {kept[y] : y \in Workspaces}
           now   == IF assign THEN [kept EXCEPT ![v] = @ \cup loose] ELSE kept
           left  == [y \in Workspaces |-> Without(t.tiles[y], Windows \ kept[y])]
<1>1. CASE cands = {}
  <2>1. u = [t EXCEPT !.floating = t.floating \cap t.named, !.members[v] = {},
                      !.tiles[v] = <<>>]
    BY <1>1 DEF Retiled
  <2>2. u.floating = t.floating \cap t.named
    BY <2>1 DEF Good, Fields
  <2> QED BY <1>1, <2>2
<1>2. CASE cands # {}
  <2>1. PICK l :
          u = [t EXCEPT !.floating = t.floating \cap t.named, !.members = now,
                        !.tiles = [left EXCEPT ![v] = l], !.place = Placed(t.place, l)]
    BY <1>2 DEF Retiled
  <2>2. u.members = now /\ u.floating = t.floating \cap t.named
    <3> HIDE DEF now, left
    <3> QED BY <2>1 DEF Good, Fields
  <2>3. kept[x] \subseteq now[x]
    <3> HIDE DEF cands, loose
    <3> QED OBVIOUS
  <2> QED BY <2>2, <2>3
<1> QED BY <1>1, <1>2

\* A first commit takes its own window, and others that are no candidates.
LEMMA FirstCommitKeeps ==
    ASSUME IInv, NEW w \in Windows, FirstCommit(w), NEW x \in Workspaces
    PROVE  \A y \in members[x] \ members'[x] : y = w \/ Dropped(y)
<1> DEFINE t == [Current(Named(space, bound), fullscreen) EXCEPT !.place[w] = Anywhere]
           Spared(u) == /\ (members[x] \cap Tileable) \ {w} \subseteq u.members[x]
                        /\ u.floating \subseteq floating_windows
<1>1. /\ Fine(t, Holdable, Coverable) /\ t.members = members
      /\ t.floating = floating_windows /\ Candidates(t) = Tileable
  <2>1. t = [Now EXCEPT !.place[w] = Anywhere]
    BY DEF Now
  <2>2. Fine([Now EXCEPT !.place[w] = Anywhere], Holdable, Coverable)
    BY MovedIsFine DEF IInv
  <2>3. /\ t.members = members /\ t.floating = floating_windows
        /\ t.named = Named(space, bound) /\ t.fullscreen = fullscreen
    BY DEF Current
  <2>4. Candidates(t) = Tileable
    BY <2>3 DEF Tileable, Candidates, Current
  <2> QED BY <2>1, <2>2, <2>3, <2>4
<1>2. PICK placed \in IF w \in Candidates(t) THEN Spawned(t, w)
                      ELSE IF w \in fullscreen THEN {t} ELSE TileWindows(t) :
             \E u \in IF w \in fullscreen THEN {t} ELSE Deferred(placed, w) : Become(u)
  BY DEF FirstCommit
<1> HIDE DEF t
<1>3. Good(placed, Holdable) /\ Spared(placed)
  <2>1. CASE placed = t
    BY <1>1, <2>1 DEF Fine
  <2>2. ASSUME w \in Candidates(t), NEW v \in Workspaces,
               placed \in Retiled([Assigned(t, w, v) EXCEPT !.active = v], v, FALSE)
        PROVE  Good(placed, Holdable) /\ Spared(placed)
    <3> DEFINE a == Assigned(t, w, v)
               z == [a EXCEPT !.active = v]
    <3>1. w \in Holdable /\ w \notin t.floating
      BY <1>1, <2>2 DEF Candidates, Fine, Good
    <3>2. Fine(a, Holdable, Coverable)
      BY <1>1, <3>1, AssignedIsFine
    <3>3. /\ Candidates(a) = Candidates(t) /\ members[x] \ {w} \subseteq a.members[x]
          /\ a.floating = t.floating
      BY <1>1 DEF Assigned, Fine, Good, Fields, Candidates
    <3>4. placed \in Retiled(z, v, FALSE)
      BY <2>2
    <3> HIDE DEF a
    <3>5. /\ Fine(z, Holdable, Coverable) /\ Candidates(z) = Candidates(a)
          /\ z.members = a.members /\ z.floating = a.floating
      <4>1. Fine(z, Holdable, Coverable)
        BY <3>2, ChangedIsFine
      <4> QED BY <3>2, <4>1 DEF Fine, Good, Fields, Candidates
    <3> HIDE DEF z
    <3>6. Fine(placed, Holdable, Coverable)
      BY <3>4, <3>5, RetiledIsFine
    <3>7. /\ z.members[x] \cap Candidates(z) \subseteq placed.members[x]
          /\ placed.floating \subseteq z.floating
      BY <3>4, <3>5, RetiledKeeps DEF Fine
    <3> QED BY <1>1, <3>3, <3>5, <3>6, <3>7 DEF Fine
  <2>3. ASSUME NEW v \in Workspaces, placed \in Retiled([t EXCEPT !.active = v], v, TRUE)
        PROVE  Good(placed, Holdable) /\ Spared(placed)
    <3> DEFINE z == [t EXCEPT !.active = v]
    <3>1. /\ Fine(z, Holdable, Coverable) /\ Candidates(z) = Candidates(t)
          /\ z.members = t.members /\ z.floating = t.floating
      <4>1. Fine(z, Holdable, Coverable)
        BY <1>1, ChangedIsFine
      <4> QED BY <1>1, <4>1 DEF Fine, Good, Fields, Candidates
    <3>2. placed \in Retiled(z, v, TRUE)
      BY <2>3
    <3> HIDE DEF z
    <3>3. Fine(placed, Holdable, Coverable)
      BY <3>1, <3>2, RetiledIsFine
    <3>4. /\ z.members[x] \cap Candidates(z) \subseteq placed.members[x]
          /\ placed.floating \subseteq z.floating
      BY <3>1, <3>2, RetiledKeeps DEF Fine
    <3> QED BY <1>1, <3>1, <3>3, <3>4 DEF Fine
  <2> QED BY <1>2, <2>1, <2>2, <2>3 DEF Spawned, TileWindows
<1>4. PICK u : Become(u) /\ (u = t \/ u \in Deferred(placed, w))
  BY <1>2
<1>5. Spared(u)
  <2>1. CASE u = t
    BY <1>1, <2>1
  <2>2. CASE u \in Deferred(placed, w)
    <3> DEFINE moved == [placed EXCEPT !.place[w] = Anywhere]
    <3>1. \/ u = placed \/ u = moved
          \/ \E leave : u = [moved EXCEPT !.fullscreen = (@ \ leave) \cup {w}]
      BY <2>2 DEF Deferred
    <3>2. /\ DOMAIN moved = Fields /\ moved.members = placed.members
          /\ moved.floating = placed.floating
      BY <1>3 DEF Good, Fields
    <3> HIDE DEF moved
    <3>3. u.members = placed.members /\ u.floating = placed.floating
      BY <3>1, <3>2 DEF Fields
    <3> QED BY <1>3, <3>3
  <2> QED BY <1>4, <2>1, <2>2
<1>6. (members[x] \cap Tileable) \ {w} \subseteq members'[x]
      /\ floating_windows' \subseteq floating_windows
  BY <1>4, <1>5 DEF Become
<1>7. floating_windows \cap members[x] = {} /\ space' = space
  BY IInvImplies DEF FloatingIsUntiled, FirstCommit
<1> QED BY <1>6, <1>7 DEF Dropped

\* A new X11 window takes only those that are no candidates.
LEMMA X11MapKeeps ==
    ASSUME IInv, NEW w \in Windows, X11Map(w), NEW x \in Workspaces
    PROVE  Keeps(x)
<1> DEFINE t == Current(Named(space', bound'), fullscreen)
<1>1. /\ w \in fresh \cap X11 /\ space' = space \cup {w} /\ bound \subseteq bound'
      /\ bound' \subseteq bound \cup {w} /\ fresh' = fresh \ {w}
  BY DEF X11Map
<1>2. Good(t, Holdable')
  <2>1. /\ Holdable \subseteq Holdable' /\ Holdable' \subseteq Windows
        /\ Named(space', bound') \subseteq Holdable'
    BY <1>1, TilingAssumption DEF Holdable, Named, IInv, TilingAssumption
  <2> QED BY <2>1 DEF IInv, Now, Fine, Good, Current, Fields
<1>3. /\ t.members = members /\ t.floating = floating_windows
      /\ Tileable \subseteq Candidates(t)
  <2>1. Named(space, bound) \subseteq Named(space', bound')
    BY <1>1 DEF Named
  <2> QED BY <2>1 DEF Tileable, Candidates, Current
<1>4. PICK u : Become(u) /\ (\/ u = [t EXCEPT !.floating = @ \cup ({w} \cap bound')]
                              \/ u \in TileWindows(t))
  BY DEF X11Map
<1> HIDE DEF t
<1>5. /\ members[x] \cap Tileable \subseteq u.members[x]
      /\ u.floating \subseteq floating_windows \cup {w}
  <2>1. CASE u = t \/ u = [t EXCEPT !.floating = @ \cup ({w} \cap bound')]
    BY <1>2, <1>3, <2>1 DEF Good, Fields
  <2>2. ASSUME NEW v \in Workspaces, u \in Retiled([t EXCEPT !.active = v], v, TRUE)
        PROVE  /\ members[x] \cap Tileable \subseteq u.members[x]
               /\ u.floating \subseteq floating_windows \cup {w}
    <3> DEFINE z == [t EXCEPT !.active = v]
    <3>1. /\ Good(z, Holdable') /\ Candidates(z) = Candidates(t)
          /\ z.members = t.members /\ z.floating = t.floating
      BY <1>2 DEF Good, Fields, Candidates
    <3>2. u \in Retiled(z, v, TRUE)
      BY <2>2
    <3> HIDE DEF z
    <3>3. /\ z.members[x] \cap Candidates(z) \subseteq u.members[x]
          /\ u.floating \subseteq z.floating
      BY <3>1, <3>2, RetiledKeeps
    <3> QED BY <1>3, <3>1, <3>3
  <2> QED BY <1>4, <2>1, <2>2 DEF TileWindows
<1>6. /\ members[x] \cap Tileable \subseteq members'[x]
      /\ floating_windows' \subseteq floating_windows \cup {w}
  BY <1>4, <1>5 DEF Become
<1>7. w \notin members[x]
  BY <1>1 DEF IInv, Now, Fine, Good, Current, Holdable
<1>8. space \ space' \subseteq {w}
  BY <1>1
<1> QED BY <1>6, <1>7, <1>8, KeepsWhere

\* Tiling v by force fills it.
LEMMA TileCurrentFills ==
    ASSUME Roomy, IInv, NEW v \in Workspaces, TileCurrent(v)
    PROVE  Refits(v)' \/ members' = members
<1>1. PICK t, ids : /\ t \in AtKeyBinding /\ ids \in SUBSET t.named
                    /\ \/ Become([t EXCEPT !.active = v])
                       \/ \E u \in Retiled(Gathered(t, v, ids), v, FALSE) : Become(u)
                    /\ UNCHANGED life
  BY DEF TileCurrent
<1>2. Fine(t, Holdable, Coverable) /\ t.named = Named(space, bound) /\ t.members = members
  BY <1>1, KeyBindingIsFine
<1>3. CASE Become([t EXCEPT !.active = v])
  BY <1>2, <1>3 DEF Become, Fine, Good, Fields
<1>4. ASSUME NEW u \in Retiled(Gathered(t, v, ids), v, FALSE), Become(u)
      PROVE  Refits(v)'
  <2> DEFINE z == Gathered(t, v, ids)
  <2>1. Fine(z, Holdable, Coverable)
    BY <1>1, <1>2, GatheredIsFine
  <2>2. u \in Retiled(z, v, FALSE)
    BY <1>4
  <2> HIDE DEF z
  <2> QED BY <1>4, <2>1, <2>2, RetiledFills
<1> QED BY <1>1, <1>3, <1>4

\* A neighbour takes the tile.
LEMMA MergedIntoMembers ==
    ASSUME NEW t, NEW S, NEW v, NEW r, NEW s, Good(t, S)
    PROVE  /\ MergedInto(t, v, r, s).members = t.members
           /\ MergedInto(t, v, r, s).named = t.named
<1> DEFINE m == Merged(t.tiles[v][s], r)
           e == [w \in DOMAIN t.rects \cup {s} |-> IF w = s THEN m ELSE t.rects[w]]
           u == [t EXCEPT !.tiles[v][s] = m, !.rects = e]
           z == [u EXCEPT !.place = Placed(@, Without(u.tiles[v], Windows \ Candidates(u)))]
<1>1. MergedInto(t, v, r, s) = z
  BY DEF MergedInto
<1> HIDE DEF e, m
<1>2. DOMAIN u = Fields /\ u.members = t.members /\ u.named = t.named
  BY DEF Good, Fields
<1> HIDE DEF u
<1>3. z.members = u.members /\ z.named = u.named
  BY <1>2 DEF Fields
<1> QED BY <1>1, <1>2, <1>3

\* The tile of a window that goes and those of the windows that stay fill its workspace.
LEMMA ClosedArea ==
    ASSUME NEW w \in Windows, NEW v \in Workspaces, IInv, Close(w),
           w \in Named(space, bound), w \in members[v], Full(v)
    PROVE  AreaOf(tiles[v][w]) + Areas(Closed(w).tiles[v], Closed(w).members[v])
             = AreaOf(TileArea(v))
<1> DEFINE M == members[v] \ {w}
           f == Without(tiles[v], {w})
<1>1. Closed(w).tiles[v] = f /\ Closed(w).members[v] = M
  BY ClosedIs
<1>2. /\ DOMAIN tiles[v] = members[v] /\ tiles[v] \in [members[v] -> Tile]
      /\ members[v] \subseteq Windows
  BY DEF Full, IInv, Now, Fine, Good, Laid, Current
<1>3. IsFiniteSet(members[v]) /\ IsFiniteSet(M)
  BY <1>2, TilingAssumption, FS_Subset DEF TilingAssumption
<1>4. Areas(tiles[v], members[v]) = AreaOf(TileArea(v))
  BY <1>2 DEF Full, Filled
<1>5. Areas(tiles[v], members[v]) = AreaOf(tiles[v][w]) + Areas(tiles[v], M)
  BY <1>2, <1>3, AreasSplit
<1>6. Areas(tiles[v], M) = Areas(f, M)
  <2>1. \A x \in M : tiles[v][x] = f[x]
    BY <1>2 DEF Without
  <2> HIDE DEF f, M
  <2> QED BY <1>3, <2>1, AreasAgree
<1> QED BY <1>1, <1>4, <1>5, <1>6

\* A window that is unmapped leaves its workspace full, and takes no candidates from
\* others.
LEMMA CloseFills ==
    ASSUME Roomy, IInv, NEW w \in Windows, Close(w), NEW x \in Workspaces, Full(x)
    PROVE  Refits(x)' \/ Keeps(x)
<1>1. CASE w \notin Named(space, bound)
  <2>1. members' = members
    BY <1>1 DEF Close, layout
  <2> QED BY <2>1 DEF Keeps
<1>2. CASE w \in Named(space, bound)
  <2> DEFINE c == Closed(w)
  <2>1. /\ Fine(c, Holdable', Coverable') /\ c.named = Named(space, bound) \ {w}
        /\ c.fullscreen = fullscreen \ {w} /\ c.floating = floating_windows \ {w}
        /\ c.members = [v \in Workspaces |-> members[v] \ {w}]
        /\ c.tiles = [v \in Workspaces |-> Without(tiles[v], {w})]
    BY <1>2, ClosedIs
  <2>2. PICK u : Become(u) /\ \/ u = c /\ \A v \in Workspaces : w \notin members[v]
                              \/ \E v \in Workspaces : w \in members[v] /\ u \in Refilled(c, v, w)
    BY <1>2 DEF Close, Closed
  <2>3. space' = space \ {w} /\ bound' = bound \ {w} /\ modal' = modal \ {w}
    BY DEF Close
  <2> HIDE DEF c
  <2>4. c.members[x] = members[x] \ {w} /\ Tileable \ {w} \subseteq Candidates(c)
    BY <2>1 DEF Tileable, Candidates, Current
  <2>5. ASSUME u.members = c.members, w \notin members[x]
        PROVE  Keeps(x)
    <3>1. members'[x] = members[x]
      BY <2>2, <2>4, <2>5 DEF Become
    <3> QED BY <3>1 DEF Keeps
  <2>6. ASSUME NEW v \in Workspaces, w \in members[v], u \in Refilled(c, v, w)
        PROVE  Refits(x)' \/ Keeps(x)
    <3>1. x # v => w \notin members[x]
      BY <2>6, MemberOfOne, IInvImplies DEF OneWorkspace
    <3>2. ASSUME u \in Retiled(c, v, FALSE)
          PROVE  Refits(x)' \/ Keeps(x)
      <4>1. /\ Refits(v)'
            /\ \A y \in Workspaces \ {v} : c.members[y] \cap Candidates(c) \subseteq members'[y]
            /\ floating_windows' \subseteq c.floating
        <5>1. Fine(c, Holdable', Coverable') /\ Become(u) /\ FALSE \in BOOLEAN
          BY <2>1, <2>2
        <5> QED BY <3>2, <5>1, RetiledFills
      <4>2. ASSUME x # v PROVE Keeps(x)
        <5>1. w \notin members[x]
          BY <3>1, <4>2
        <5>2. members[x] \cap Tileable \subseteq members'[x]
          BY <2>4, <4>1, <4>2, <5>1
        <5>3. floating_windows' \subseteq floating_windows \cup {w} /\ space \ space' \subseteq {w}
          BY <2>1, <2>3, <4>1
        <5> QED BY <5>1, <5>2, <5>3, KeepsWhere
      <4> QED BY <4>1, <4>2
    <3>3. ASSUME NEW s \in Siblings(c, v, tiles[v][w]), w \in DOMAIN tiles[v],
                 u = MergedInto(c, v, tiles[v][w], s)
          PROVE  Refits(x)' \/ Keeps(x)
      <4>1. CASE x # v
        <5>1. u.members = c.members
          BY <2>1, <3>3, MergedIntoMembers DEF Fine
        <5> QED BY <2>5, <3>1, <4>1, <5>1
      <4>2. CASE x = v
        <5>1. tiles[v][w] \in Tile
          BY <3>3 DEF IInv, Now, Fine, Laid, Current
        <5>2. DOMAIN c.tiles[v] = c.members[v]
          BY <2>1, <2>4, <4>2 DEF Full, Without
        <5>3. AreaOf(tiles[v][w]) + Areas(c.tiles[v], c.members[v]) = AreaOf(TileArea(v))
          <6>1. Full(v) /\ w \in members[v]
            BY <2>6, <4>2
          <6>2. AreaOf(tiles[v][w]) + Areas(Closed(w).tiles[v], Closed(w).members[v])
                  = AreaOf(TileArea(v))
            BY <1>2, <6>1, ClosedArea
          <6>3. c = Closed(w)
            BY DEF c
          <6> QED BY <6>2, <6>3
        <5>4. Good(c, Holdable') /\ Laid(c, Coverable')
          BY <2>1 DEF Fine
        <5>5. Fills(u, v) /\ Candidates(u) = Candidates(c)
          <6> DEFINE r == tiles[v][w]
          <6>1. /\ r \in Tile /\ s \in Siblings(c, v, r)
                /\ AreaOf(r) + Areas(c.tiles[v], c.members[v]) = AreaOf(TileArea(v))
            BY <5>1, <5>3
          <6>2. u = MergedInto(c, v, r, s)
            BY <3>3
          <6> HIDE DEF r
          <6>3. /\ Fills(MergedInto(c, v, r, s), v)
                /\ Candidates(MergedInto(c, v, r, s)) = Candidates(c)
            BY <5>2, <5>4, <6>1, MergedIntoFills
          <6> QED BY <6>2, <6>3
        <5>6. Tileable' \subseteq Candidates(u)
          <6>1. u.named = c.named
            BY <3>3, <5>4, MergedIntoMembers
          <6>2. fullscreen' = u.fullscreen /\ floating_windows' = u.floating
            BY <2>2 DEF Become
          <6>3. Named(space', bound') = u.named /\ u.named \cap modal \subseteq modal'
            BY <2>1, <2>3, <6>1 DEF Named
          <6> QED BY <6>2, <6>3 DEF Tileable, Candidates, Current
        <5> QED BY <2>2, <4>2, <5>5, <5>6, FillsRefits
      <4> QED BY <4>1, <4>2
    <3> QED BY <2>6, <3>2, <3>3 DEF Refilled
  <2> QED BY <2>2, <2>5, <2>6
<1> QED BY <1>1, <1>2

\* Where there is room, a window that is closed, floats or is moved leaves no hole in a
\* workspace that was full, but for the three steps that LeavingRefills names.
THEOREM HolesAreRefilled ==
    ASSUME Roomy
    PROVE  Spec => LeavingRefills
<1> DEFINE Refills ==
      \A v \in Workspaces : \A w \in members[v] \ members'[v] :
         Full(v) =>
           \/ Refits(v)'
           \/ FirstCommit(w)
           \/ \E u \in Workspaces \ {v} : TileCurrent(u)
           \/ Dropped(w)
<1>1. ASSUME IInv, Next PROVE Refills
  <2> SUFFICES ASSUME NEW v \in Workspaces, NEW w \in members[v] \ members'[v], Full(v)
               PROVE  \/ Refits(v)'
                      \/ FirstCommit(w)
                      \/ \E u \in Workspaces \ {v} : TileCurrent(u)
                      \/ Dropped(w)
    OBVIOUS
  <2>1. members'[v] # members[v]
    OBVIOUS
  <2>2. ASSUME NEW x \in Windows,
               \/ NewToplevel(x) \/ X11Surface(x) \/ DialogHint(x) \/ EnterFullscreen(x)
               \/ ExitFullscreen(x) \/ Displace(x)
        PROVE  FALSE
    BY <2>1, <2>2 DEF NewToplevel, X11Surface, DialogHint, EnterFullscreen, ExitFullscreen,
                      Displace, layout
  <2>3. ASSUME NEW x \in Windows, FirstCommit(x)
        PROVE  FirstCommit(w) \/ Dropped(w)
    <3>1. w = x \/ Dropped(w)
      BY <1>1, <2>3, FirstCommitKeeps
    <3> QED BY <2>3, <3>1
  <2>4. ASSUME NEW x \in Windows, X11Map(x)
        PROVE  Dropped(w)
    BY <1>1, <2>4, X11MapKeeps DEF Keeps
  <2>5. ASSUME NEW x \in Windows,
               \/ Close(x) \/ ToTiled(x) \/ ToFloating(x) \/ Release(x)
               \/ \E y \in Workspaces : MoveWindow(x, y)
        PROVE  Refits(v)' \/ Dropped(w)
    <3>1. Refits(v)' \/ Keeps(v)
      BY <1>1, <2>5, CloseFills, ToTiledFills, ToFloatingFills, ReleaseFills, MoveWindowFills
    <3> QED BY <3>1 DEF Keeps
  <2>6. ASSUME NEW y \in Workspaces, TileCurrent(y)
        PROVE  Refits(v)' \/ \E u \in Workspaces \ {v} : TileCurrent(u)
    <3>1. CASE y = v
      BY <1>1, <2>1, <2>6, <3>1, TileCurrentFills
    <3>2. CASE y # v
      BY <2>6, <3>2
    <3> QED BY <3>1, <3>2
  <2>7. ASSUME NEW y \in Workspaces, Activate(y)
        PROVE  FALSE
    <3>1. PICK t \in AtKeyBinding : Become([t EXCEPT !.active = y])
      BY <2>7 DEF Activate
    <3>2. t.members = members /\ Fine(t, Holdable, Coverable)
      BY <1>1, <3>1, KeyBindingIsFine
    <3>3. members' = members
      BY <3>1, <3>2 DEF Become, Fine, Good, Fields
    <3> QED BY <2>1, <3>3
  <2> QED BY <1>1, <2>2, <2>3, <2>4, <2>5, <2>6, <2>7 DEF Next
<1>2. IInv /\ [Next]_vars => [Refills]_vars
  BY <1>1
<1> QED BY <1>2, Invariance, PTL DEF Spec, LeavingRefills
=============================================================================
