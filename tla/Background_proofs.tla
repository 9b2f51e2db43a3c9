-------------------------- MODULE Background_proofs --------------------------
(***************************************************************************)
(* Proofs about Background for any image, views, budgets, number of        *)
(* decoder threads and kinds of background: requests are held in one       *)
(* place, the bytes that the eviction counts are those of the textures,    *)
(* and a fallback that is not baked is reported.                           *)
(***************************************************************************)
EXTENDS Background, FiniteSetTheorems, SequenceTheorems, WellFoundedInduction, TLAPS

-----------------------------------------------------------------------------
(* Sums of bytes.  BytesOf takes the elements of a finite set in the order in  *)
(* which CHOOSE yields them; the lemmas say that the order makes no difference. *)
(* Each is by induction over finite sets: a least counterexample would have an  *)
(* element that can be taken out of it.                                         *)

LEMMA LeastSet ==
    ASSUME NEW S, IsFiniteSet(S), NEW T \in SUBSET SUBSET S, T # {}
    PROVE  \E U \in T : \A V \in T : V \subseteq U => V = U
<1>1. T \subseteq FiniteSubsetsOf(S)
  BY FS_Subset DEF FiniteSubsetsOf
<1>2. PICK U \in T : \A V \in T : <<V, U>> \notin StrictSubsetOrdering(S)
  BY <1>1, FS_StrictSubsetOrderingWellFounded, WFMin
<1>. QED BY <1>2 DEF StrictSubsetOrdering

Pick(s) == CHOOSE x \in s : TRUE

LEMMA PickIsIn == ASSUME NEW s, s # {} PROVE Pick(s) \in s
BY DEF Pick

\* g sums f over the subsets of S.
Sums(g, S, f) ==
    g = [s \in SUBSET S |-> IF s = {} THEN 0 ELSE f[Pick(s)] + g[s \ {Pick(s)}]]

LEMMA BytesOfSums ==
    ASSUME NEW S, NEW f
    PROVE  BytesOf(S, f) = (CHOOSE g : Sums(g, S, f))[S]
BY DEF BytesOf, MapThenSumSet, MapThenFoldSet, Sums, Pick

LEMMA SumsAgree ==
    ASSUME NEW S, IsFiniteSet(S), NEW T, NEW f, NEW g, NEW h,
           Sums(g, S, f), Sums(h, T, f), NEW U \in SUBSET S, U \in SUBSET T
    PROVE  g[U] = h[U]
<1> DEFINE Bad == {V \in SUBSET S : V \in SUBSET T /\ g[V] # h[V]}
<1> SUFFICES ASSUME Bad # {} PROVE FALSE
  OBVIOUS
<1>1. PICK V \in Bad : \A W \in Bad : W \subseteq V => W = V
  <2>1. Bad \in SUBSET SUBSET S
    OBVIOUS
  <2> HIDE DEF Bad
  <2>. QED BY <2>1, LeastSet
<1>2. g[{}] = 0 /\ h[{}] = 0
  BY DEF Sums
<1>3. V # {}
  BY <1>1, <1>2
<1>4. Pick(V) \in V
  BY <1>3, PickIsIn
<1>5. g[V \ {Pick(V)}] = h[V \ {Pick(V)}]
  BY <1>1, <1>4
<1>6. g[V] = f[Pick(V)] + g[V \ {Pick(V)}] /\ h[V] = f[Pick(V)] + h[V \ {Pick(V)}]
  BY <1>1, <1>3 DEF Sums
<1>. QED BY <1>1, <1>5, <1>6

LEMMA SumsExist ==
    ASSUME NEW S, IsFiniteSet(S), NEW f
    PROVE  \E g : Sums(g, S, f)
<1> DEFINE Bad == {T \in SUBSET S : ~\E g : Sums(g, T, f)}
<1> SUFFICES ASSUME Bad # {} PROVE FALSE
  OBVIOUS
<1>1. PICK T \in Bad : \A W \in Bad : W \subseteq T => W = T
  <2>1. Bad \in SUBSET SUBSET S
    OBVIOUS
  <2> HIDE DEF Bad
  <2>. QED BY <2>1, LeastSet
<1>2. T # {}
  <2>1. Sums([s \in SUBSET {} |-> 0], {}, f)
    BY DEF Sums
  <2>. QED BY <2>1, <1>1
<1> DEFINE G(U) == CHOOSE g : Sums(g, U, f)
           P == T \ {Pick(T)}
           Q == [s \in SUBSET T |-> IF s = T THEN f[Pick(T)] + G(P)[P] ELSE G(s)[s]]
<1>3. ASSUME NEW U \in SUBSET T, U # T PROVE Sums(G(U), U, f)
  BY <1>1, <1>3
<1>4. P \in SUBSET T /\ P # T
  BY <1>2, PickIsIn
<1>5. ASSUME NEW s \in SUBSET T
      PROVE  Q[s] = IF s = {} THEN 0 ELSE f[Pick(s)] + Q[s \ {Pick(s)}]
  <2>1. CASE s = {}
    <3>1. Sums(G({}), {}, f)
      BY <1>2, <1>3
    <3>2. G({})[{}] = 0
      BY <3>1 DEF Sums
    <3>. QED BY <2>1, <3>2, <1>2
  <2>2. CASE s = T
    BY <2>2, <1>2, <1>4
  <2>3. CASE s # T /\ s # {}
    <3> DEFINE R == s \ {Pick(s)}
    <3>1. R \in SUBSET s /\ R # s /\ R \in SUBSET T /\ R # T
      BY <2>3, PickIsIn
    <3>2. Sums(G(s), s, f) /\ Sums(G(R), R, f)
      BY <3>1, <1>3, <2>3
    <3>3. IsFiniteSet(s)
      BY <1>1, FS_Subset
    <3>4. G(s)[R] = G(R)[R]
      <4> HIDE DEF G, R
      <4>. QED BY <3>1, <3>2, <3>3, SumsAgree
    <3>5. G(s)[s] = f[Pick(s)] + G(s)[R]
      <4> HIDE DEF G
      <4>. QED BY <3>2, <2>3 DEF Sums
    <3>. QED BY <3>1, <3>4, <3>5, <2>3
  <2>. QED BY <2>1, <2>2, <2>3
<1>6. Q = [s \in SUBSET T |-> Q[s]]
  OBVIOUS
<1>7. Sums(Q, T, f)
  <2> HIDE DEF Q
  <2>. QED BY <1>5, <1>6 DEF Sums
<1>. QED BY <1>1, <1>7

LEMMA BytesRec ==
    ASSUME NEW S, IsFiniteSet(S), NEW f
    PROVE  /\ S = {} => BytesOf(S, f) = 0
           /\ S # {} => /\ Pick(S) \in S
                        /\ BytesOf(S, f) = f[Pick(S)] + BytesOf(S \ {Pick(S)}, f)
<1> DEFINE G(U) == CHOOSE g : Sums(g, U, f)
           P == S \ {Pick(S)}
<1>1. Sums(G(S), S, f)
  BY SumsExist
<1>2. IsFiniteSet(P)
  BY FS_Subset
<1>3. Sums(G(P), P, f)
  <2> HIDE DEF P
  <2>. QED BY <1>2, SumsExist
<1>4. BytesOf(S, f) = G(S)[S] /\ BytesOf(P, f) = G(P)[P]
  BY BytesOfSums
<1>5. S = {} => G(S)[S] = 0
  <2> HIDE DEF G
  <2>. QED BY <1>1 DEF Sums
<1>6. G(S)[P] = G(P)[P]
  <2> HIDE DEF G
  <2>1. P \in SUBSET S /\ P \in SUBSET P
    OBVIOUS
  <2> HIDE DEF P
  <2>. QED BY <2>1, <1>1, <1>3, SumsAgree
<1>7. S # {} => G(S)[S] = f[Pick(S)] + G(S)[P]
  <2> HIDE DEF G
  <2>. QED BY <1>1 DEF Sums
<1>. QED BY <1>4, <1>5, <1>6, <1>7, PickIsIn

LEMMA BytesNat ==
    ASSUME NEW D, NEW f \in [D -> Nat], NEW S \in SUBSET D, IsFiniteSet(S)
    PROVE  BytesOf(S, f) \in Nat
<1> DEFINE Bad == {T \in SUBSET S : BytesOf(T, f) \notin Nat}
<1> SUFFICES ASSUME Bad # {} PROVE FALSE
  OBVIOUS
<1>1. PICK T \in Bad : \A W \in Bad : W \subseteq T => W = T
  <2>1. Bad \in SUBSET SUBSET S
    OBVIOUS
  <2> HIDE DEF Bad
  <2>. QED BY <2>1, LeastSet
<1>2. IsFiniteSet(T)
  BY FS_Subset
<1>3. T # {}
  <2>1. T = {} => BytesOf(T, f) = 0
    BY <1>2, BytesRec
  <2>. QED BY <2>1, <1>1
<1>4. Pick(T) \in T /\ BytesOf(T, f) = f[Pick(T)] + BytesOf(T \ {Pick(T)}, f)
  BY <1>2, <1>3, BytesRec
<1>5. BytesOf(T \ {Pick(T)}, f) \in Nat
  BY <1>1, <1>4
<1>6. f[Pick(T)] \in Nat
  BY <1>4
<1>. QED BY <1>1, <1>4, <1>5, <1>6

\* Any element may be counted first.
LEMMA BytesSplit ==
    ASSUME NEW D, NEW f \in [D -> Nat], NEW S \in SUBSET D, IsFiniteSet(S), NEW x \in S
    PROVE  BytesOf(S, f) = f[x] + BytesOf(S \ {x}, f)
<1> DEFINE Bad == {T \in SUBSET S : \E y \in T : BytesOf(T, f) # f[y] + BytesOf(T \ {y}, f)}
<1> SUFFICES ASSUME Bad # {} PROVE FALSE
  OBVIOUS
<1>1. PICK T \in Bad : \A W \in Bad : W \subseteq T => W = T
  <2>1. Bad \in SUBSET SUBSET S
    OBVIOUS
  <2> HIDE DEF Bad
  <2>. QED BY <2>1, LeastSet
<1>2. PICK y \in T : BytesOf(T, f) # f[y] + BytesOf(T \ {y}, f)
  BY <1>1
<1> DEFINE p == Pick(T)
           R == T \ {p, y}
<1>3. \A W \in SUBSET S : IsFiniteSet(W) /\ BytesOf(W, f) \in Nat
  BY FS_Subset, BytesNat
<1>4. p \in T /\ BytesOf(T, f) = f[p] + BytesOf(T \ {p}, f)
  BY <1>2, <1>3, BytesRec
<1>5. p # y
  BY <1>2, <1>4
<1>6. T \ {p} \notin Bad /\ T \ {y} \notin Bad
  BY <1>1, <1>4, <1>5
<1>7. /\ T \ {p} \in SUBSET S /\ T \ {y} \in SUBSET S /\ R \in SUBSET S
      /\ (T \ {p}) \ {y} = R /\ (T \ {y}) \ {p} = R
      /\ y \in T \ {p} /\ p \in T \ {y}
  BY <1>4, <1>5
<1>8. BytesOf(T \ {p}, f) = f[y] + BytesOf(R, f) /\ BytesOf(T \ {y}, f) = f[p] + BytesOf(R, f)
  BY <1>6, <1>7
<1>9. f[p] \in Nat /\ f[y] \in Nat /\ BytesOf(R, f) \in Nat
  BY <1>3, <1>4, <1>7
<1>. QED BY <1>2, <1>4, <1>8, <1>9

LEMMA BytesUnion ==
    ASSUME NEW D, NEW f \in [D -> Nat], NEW A \in SUBSET D, NEW B \in SUBSET D,
           IsFiniteSet(A), IsFiniteSet(B), A \cap B = {}
    PROVE  BytesOf(A \cup B, f) = BytesOf(A, f) + BytesOf(B, f)
<1> DEFINE Bad == {T \in SUBSET B : BytesOf(A \cup T, f) # BytesOf(A, f) + BytesOf(T, f)}
<1> SUFFICES ASSUME Bad # {} PROVE FALSE
  OBVIOUS
<1>1. PICK T \in Bad : \A W \in Bad : W \subseteq T => W = T
  <2>1. Bad \in SUBSET SUBSET B
    OBVIOUS
  <2> HIDE DEF Bad
  <2>. QED BY <2>1, LeastSet
<1>2. \A W \in SUBSET (A \cup B) : IsFiniteSet(W) /\ BytesOf(W, f) \in Nat
  <2>1. IsFiniteSet(A \cup B)
    BY FS_Union
  <2>. QED BY <2>1, FS_Subset, BytesNat
<1>3. BytesOf({}, f) = 0
  BY <1>2, BytesRec
<1>4. T # {}
  <2>1. A \cup {} = A /\ BytesOf(A, f) \in Nat
    BY <1>2
  <2>2. BytesOf(A \cup {}, f) = BytesOf(A, f) + BytesOf({}, f)
    BY <2>1, <1>3
  <2>. QED BY <2>2, <1>1
<1>5. PICK x : x \in T
  BY <1>4
<1> DEFINE R == T \ {x}
<1>6. R \notin Bad
  BY <1>1, <1>5
<1>7. BytesOf(T, f) = f[x] + BytesOf(R, f)
  BY <1>2, <1>5, BytesSplit
<1>8. BytesOf(A \cup T, f) = f[x] + BytesOf(A \cup R, f)
  <2>1. (A \cup T) \ {x} = A \cup R
    BY <1>5
  <2>2. A \cup T \in SUBSET D /\ IsFiniteSet(A \cup T) /\ x \in A \cup T
    BY <1>2, <1>5
  <2>3. BytesOf(A \cup T, f) = f[x] + BytesOf((A \cup T) \ {x}, f)
    BY <2>2, BytesSplit
  <2>. QED BY <2>1, <2>3
<1>9. /\ f[x] \in Nat /\ BytesOf(A, f) \in Nat
      /\ BytesOf(R, f) \in Nat /\ BytesOf(A \cup R, f) \in Nat
  BY <1>2, <1>5
<1>10. BytesOf(A \cup R, f) = BytesOf(A, f) + BytesOf(R, f)
  BY <1>6
<1>. QED BY <1>1, <1>7, <1>8, <1>9, <1>10

\* What is left when E goes.
LEMMA BytesLeft ==
    ASSUME NEW D, NEW f \in [D -> Nat], NEW S \in SUBSET D, IsFiniteSet(S), NEW E \in SUBSET S
    PROVE  /\ BytesOf(S, f) = BytesOf(S \ E, f) + BytesOf(E, f)
           /\ BytesOf(S \ E, f) \in Nat /\ BytesOf(E, f) \in Nat /\ BytesOf(S, f) \in Nat
<1>1. IsFiniteSet(S \ E) /\ IsFiniteSet(E)
  BY FS_Subset
<1>2. S = (S \ E) \cup E /\ (S \ E) \cap E = {}
  OBVIOUS
<1>3. BytesOf((S \ E) \cup E, f) = BytesOf(S \ E, f) + BytesOf(E, f)
  BY <1>1, BytesUnion
<1>. QED BY <1>1, <1>2, <1>3, BytesNat

\* Bytes may be counted by the indices i of a list instead of by its keys r[i].
LEMMA BytesImage ==
    ASSUME NEW D, NEW f \in [D -> Nat], NEW N, IsFiniteSet(N), NEW r \in [N -> D],
           \A i, j \in N : r[i] = r[j] => i = j
    PROVE  BytesOf(N, [i \in N |-> f[r[i]]]) = BytesOf({r[i] : i \in N}, f)
<1> DEFINE F == [i \in N |-> f[r[i]]]
           Keyed(M) == {r[i] : i \in M}
           Bad == {M \in SUBSET N : BytesOf(M, F) # BytesOf(Keyed(M), f)}
<1> SUFFICES ASSUME Bad # {} PROVE FALSE
  OBVIOUS
<1>1. PICK M \in Bad : \A W \in Bad : W \subseteq M => W = M
  <2>1. Bad \in SUBSET SUBSET N
    OBVIOUS
  <2> HIDE DEF Bad
  <2>. QED BY <2>1, LeastSet
<1>2. F \in [N -> Nat]
  OBVIOUS
<1>3. \A W \in SUBSET N : IsFiniteSet(W)
  BY FS_Subset
<1>4. \A W \in SUBSET N : IsFiniteSet(Keyed(W)) /\ Keyed(W) \in SUBSET D
  <2> SUFFICES ASSUME NEW W \in SUBSET N
               PROVE  IsFiniteSet(Keyed(W)) /\ Keyed(W) \in SUBSET D
    OBVIOUS
  <2>1. [i \in W |-> r[i]] \in Surjection(W, Keyed(W))
    BY DEF Surjection
  <2>2. IsFiniteSet(Keyed(W))
    BY <2>1, <1>3, FS_Surjection
  <2>. QED BY <2>2
<1>5. BytesOf({}, F) = 0 /\ BytesOf({}, f) = 0
  BY FS_EmptySet, BytesRec
<1>6. M # {}
  <2>1. Keyed({}) = {}
    OBVIOUS
  <2>. QED BY <2>1, <1>1, <1>5
<1>7. PICK x : x \in M
  BY <1>6
<1> DEFINE R == M \ {x}
<1>8. R \notin Bad
  BY <1>1, <1>7
<1>9. BytesOf(M, F) = F[x] + BytesOf(R, F)
  <2> HIDE DEF F
  <2>. QED BY <1>2, <1>3, <1>7, BytesSplit
<1>10. Keyed(M) \ {r[x]} = Keyed(R) /\ r[x] \in Keyed(M)
  BY <1>7
<1>11. BytesOf(Keyed(M), f) = f[r[x]] + BytesOf(Keyed(R), f)
  <2>1. IsFiniteSet(Keyed(M)) /\ Keyed(M) \in SUBSET D
    BY <1>1, <1>4
  <2> HIDE DEF Keyed
  <2>2. BytesOf(Keyed(M), f) = f[r[x]] + BytesOf(Keyed(M) \ {r[x]}, f)
    BY <2>1, <1>10, BytesSplit
  <2>. QED BY <2>2, <1>10
<1>12. F[x] = f[r[x]] /\ BytesOf(R, F) = BytesOf(Keyed(R), f)
  BY <1>7, <1>8
<1>. QED BY <1>1, <1>9, <1>11, <1>12

-----------------------------------------------------------------------------
(* The grid of chunks *)

LEMMA Least ==
    ASSUME NEW T \in SUBSET Nat, T # {}
    PROVE  \E n \in T : \A m \in T : n <= m
<1>1. PICK n \in T : \A m \in T : <<m, n>> \notin OpToRel(<, Nat)
  <2>1. IsWellFoundedOn(OpToRel(<, Nat), Nat)
    BY NatLessThanWellFounded
  <2> HIDE DEF OpToRel
  <2>. QED BY <2>1, WFMin
<1>2. \A m \in T : ~(m < n)
  BY <1>1 DEF OpToRel
<1>. QED BY <1>2

LEMMA MinIs ==
    ASSUME NEW T \in SUBSET Nat, T # {}
    PROVE  Min(T) \in T
BY Least DEF Min

\* Sizes of the image and the levels that are loaded in chunks.
LEMMA ImageIs ==
    /\ Len(LodDims) \in Nat \ {0}
    /\ Image.w \in Nat \ {0} /\ Image.h \in Nat \ {0}
    /\ \A i \in Levels : LodDims[i + 1][1] \in Nat \ {0} /\ LodDims[i + 1][2] \in Nat \ {0}
<1>1. Len(LodDims) \in Nat /\ LodDims # <<>> /\ LodDims \in Seq((Nat \ {0}) \X (Nat \ {0}))
  BY ChunkGridAssumption
<1>2. Len(LodDims) # 0
  BY <1>1
<1>3. \A j \in 1..Len(LodDims) : LodDims[j] \in (Nat \ {0}) \X (Nat \ {0})
  BY <1>1
<1>4. 1 \in 1..Len(LodDims) /\ \A i \in Levels : i + 1 \in 1..Len(LodDims)
  BY <1>1, <1>2 DEF Levels
<1>. QED BY <1>1, <1>2, <1>3, <1>4 DEF Image

LEMMA LodsAre ==
    /\ NLods \in 1..Len(LodDims)
    /\ Coarsest \in Levels
<1>1. Len(LodDims) \in Nat \ {0}
  BY ImageIs
<1>2. UsableLods \in 1..Len(LodDims)
  <2> DEFINE T == {Len(LodDims)} \cup
                    {i \in 1..(Len(LodDims) - 1) : RawSizes[i] # 2 * RawSizes[i - 1]}
  <2>1. T \in SUBSET (1..Len(LodDims)) /\ T # {}
    BY <1>1
  <2>2. T \in SUBSET Nat
    BY <2>1
  <2>3. UsableLods = Min(T)
    BY DEF UsableLods
  <2> HIDE DEF T
  <2>. QED BY <2>1, <2>2, <2>3, MinIs
<1>3. FallbackLod \in 0..(UsableLods - 1)
  <2> DEFINE T == {i \in 0..(UsableLods - 1) :
                     Larger(LodDims[i + 1][1], LodDims[i + 1][2]) <= FALLBACK_MAX_DIM}
  <2>1. FallbackLod = IF T = {} THEN UsableLods - 1 ELSE Min(T)
    BY DEF FallbackLod
  <2>2. T \in SUBSET (0..(UsableLods - 1)) /\ T \in SUBSET Nat
    BY <1>2
  <2> HIDE DEF T
  <2>. QED BY <2>1, <2>2, <1>2, MinIs
<1>. QED BY <1>1, <1>2, <1>3 DEF NLods, Coarsest, Levels

LEMMA PickLodIs ==
    ASSUME NEW z \in Int, NEW n \in Nat \ {0}
    PROVE  PickLod(z, n) \in 0..(n - 1)
BY DEF PickLod, Larger, Smaller

LEMMA TargetsAre ==
    ASSUME NEW v \in Views
    PROVE  /\ TargetLod(v) \in 0..Coarsest
           /\ TileLods(v) \subseteq Levels
<1>1. v.z \in Int
  BY ChunkGridAssumption
<1>2. NLods \in Nat \ {0} /\ Coarsest \in Nat /\ Coarsest < Len(LodDims) /\ Len(LodDims) \in Nat
  BY LodsAre, ImageIs DEF Levels
<1>3. TargetLod(v) \in 0..Coarsest
  BY <1>1, <1>2, PickLodIs DEF TargetLod, Coarsest
<1>. QED BY <1>2, <1>3 DEF TileLods, Levels

LEMMA RawSizesAre ==
    ASSUME NEW i \in Levels
    PROVE  RawSizes[i] \in Nat
<1>1. TileDim \in Nat \ {0} /\ Image.w \in Nat \ {0} /\ LodDims[i + 1][1] \in Nat \ {0}
  BY ChunkGridAssumption, ImageIs
<1>2. ASSUME NEW a \in Nat, NEW b \in Nat \ {0} PROVE Rounded(a, b) \in Nat
  BY DEF Rounded
<1>3. TileDim * Image.w \in Nat
  BY <1>1
<1>. QED BY <1>1, <1>2, <1>3 DEF RawSizes

LEMMA AggregationsAre ==
    ASSUME NEW i \in Levels
    PROVE  Aggregation[i] \in Nat \ {0}
BY RawSizesAre DEF Aggregation, Target, Larger, LOD0_TARGET_CHUNK_CANVAS, TARGET_CHUNK_CANVAS

LEMMA ChunkSizesAre ==
    ASSUME NEW i \in Levels
    PROVE  ChunkSize[i] \in Nat
<1>1. \A a \in Nat, b \in Nat \ {0} : a * b \in Nat
  OBVIOUS
<1>. QED BY <1>1, RawSizesAre, AggregationsAre DEF ChunkSize

LEMMA AxisIs ==
    ASSUME NEW from \in Int, NEW to \in Int, NEW origin \in Int, NEW size \in Nat,
           NEW chunk \in Nat
    PROVE  ChunksOnAxis(from, to, origin, size, chunk) \subseteq 0..size
<1> DEFINE lo == Larger(from - origin, 0)
           hi == Smaller(to - origin, size)
<1>1. lo \in Nat /\ hi \in Int /\ hi <= size
  BY DEF Larger, Smaller
<1>2. CASE chunk > 0 /\ lo < hi
  <2>1. lo \div chunk \in Nat /\ (hi - 1) \div chunk \in 0..(hi - 1)
    <3> HIDE DEF lo, hi
    <3>1. hi - 1 \in Nat /\ chunk \in Nat \ {0}
      BY <1>1, <1>2
    <3>2. \A a \in Nat : a \div chunk \in 0..a
      BY <3>1
    <3>. QED BY <1>1, <3>1, <3>2
  <2>2. ChunksOnAxis(from, to, origin, size, chunk) = (lo \div chunk)..((hi - 1) \div chunk)
    BY <1>1, <1>2 DEF ChunksOnAxis
  <2> HIDE DEF lo, hi
  <2>. QED BY <2>1, <2>2, <1>1
<1>3. CASE ~(chunk > 0 /\ lo < hi)
  BY <1>1, <1>3 DEF ChunksOnAxis
<1>. QED BY <1>2, <1>3

Grid == Levels \X (0..Image.w) \X (0..Image.h)

\* The view v, a level lod, and one of the chunks that VisibilityQuery finds.
LEMMA VisibleIs ==
    ASSUME NEW v \in Views, NEW lod \in Levels, NEW q \in VisibilityQuery(v, ChunkSize[lod])
    PROVE  /\ q[1] \in 0..Image.w /\ q[2] \in 0..Image.h
           /\ q[3] \in Int /\ q[4] \in Int
<1> DEFINE chunk == ChunkSize[lod]
           at(kx, ky) == [x |-> ImagePosition.x + kx * Image.w, y |-> ImagePosition.y + ky * Image.h]
<1>1. /\ v.x \in Int /\ v.y \in Int /\ v.w \in Nat /\ v.h \in Nat
      /\ Image.w \in Nat \ {0} /\ Image.h \in Nat \ {0} /\ chunk \in Nat
      /\ v.x + v.w \in Int /\ v.y + v.h \in Int /\ Image.w \in Nat /\ Image.h \in Nat
  BY ChunkGridAssumption, ImageIs, ChunkSizesAre
<1>2. ImagePosition.x \in Int /\ ImagePosition.y \in Int
  BY <1>1 DEF ImagePosition
<1>3. PICK kx, ky :
        /\ kx \in KRange(v.x, v.x + v.w, ImagePosition.x, Image.w)
        /\ ky \in KRange(v.y, v.y + v.h, ImagePosition.y, Image.h)
        /\ q \in {<<c[1], c[2], kx, ky>> : c \in ChunksIntersecting(v, at(kx, ky), chunk)}
  BY DEF VisibilityQuery
<1>4. ASSUME NEW from \in Int, NEW to \in Int, NEW origin \in Int, NEW size \in Nat \ {0},
             NEW k \in KRange(from, to, origin, size)
      PROVE  k \in Int
  BY <1>4 DEF KRange
<1>5. kx \in Int /\ ky \in Int
  <2>1. /\ kx \in KRange(v.x, v.x + v.w, ImagePosition.x, Image.w)
        /\ ky \in KRange(v.y, v.y + v.h, ImagePosition.y, Image.h)
    BY <1>3
  <2> HIDE DEF chunk, at
  <2>. QED BY <1>1, <1>2, <2>1, <1>4
<1> DEFINE o == at(kx, ky)
<1>6. o.x \in Int /\ o.y \in Int
  <2>1. \A a, b, c \in Int : a + b * c \in Int
    OBVIOUS
  <2>2. ImagePosition.x + kx * Image.w \in Int /\ ImagePosition.y + ky * Image.h \in Int
    BY <2>1, <1>1, <1>2, <1>5
  <2>. QED BY <2>2
<1>7. ChunksIntersecting(v, o, chunk) \subseteq (0..Image.w) \X (0..Image.h)
  <2> HIDE DEF o, chunk
  <2>1. ChunksOnAxis(v.x, v.x + v.w, o.x, Image.w, chunk) \subseteq 0..Image.w
    BY <1>1, <1>6, AxisIs
  <2>2. ChunksOnAxis(v.y, v.y + v.h, o.y, Image.h, chunk) \subseteq 0..Image.h
    BY <1>1, <1>6, AxisIs
  <2>. QED BY <2>1, <2>2 DEF ChunksIntersecting
<1>8. PICK c \in (0..Image.w) \X (0..Image.h) : q = <<c[1], c[2], kx, ky>>
  BY <1>3, <1>7
<1>. QED BY <1>5, <1>8

LEMMA KeysAtAre ==
    ASSUME NEW v \in Views, NEW lod \in Levels
    PROVE  KeysAt(v, lod) \subseteq Grid
BY VisibleIs DEF KeysAt, Grid

\* There are finitely many chunks.
LEMMA KeysAre ==
    /\ Keys \subseteq Grid
    /\ IsFiniteSet(Keys)
    /\ \A v \in Views : Wanted[v] \subseteq Keys
<1>1. \A v \in Views : Wanted[v] \subseteq Grid
  BY KeysAtAre, TargetsAre DEF Wanted
<1>2. Keys \subseteq Grid
  BY <1>1 DEF Keys
<1>3. IsFiniteSet(Grid)
  <2>1. Len(LodDims) - 1 \in Int /\ Image.w \in Int /\ Image.h \in Int
    BY ImageIs
  <2>2. IsFiniteSet(Levels) /\ IsFiniteSet(0..Image.w) /\ IsFiniteSet(0..Image.h)
    BY <2>1, FS_Interval DEF Levels
  <2>3. IsFiniteSet((0..Image.w) \X (0..Image.h))
    BY <2>2, FS_Product
  <2>4. IsFiniteSet(Levels \X ((0..Image.w) \X (0..Image.h)))
    BY <2>2, <2>3, FS_Product
  <2> DEFINE f == [p \in Levels \X ((0..Image.w) \X (0..Image.h)) |-> <<p[1], p[2][1], p[2][2]>>]
  <2>5. f \in Surjection(Levels \X ((0..Image.w) \X (0..Image.h)), Grid)
    <3>1. \A g \in Grid : /\ <<g[1], <<g[2], g[3]>>>> \in Levels \X ((0..Image.w) \X (0..Image.h))
                          /\ f[<<g[1], <<g[2], g[3]>>>>] = g
      BY DEF Grid
    <3>2. f \in [Levels \X ((0..Image.w) \X (0..Image.h)) -> Grid]
      BY DEF Grid
    <3> HIDE DEF f
    <3>. QED BY <3>1, <3>2 DEF Surjection
  <2>. QED BY <2>4, <2>5, FS_Surjection
<1>. QED BY <1>1, <1>2, <1>3, FS_Subset DEF Keys

LEMMA BlockDimIs ==
    ASSUME NEW pixels \in Nat, NEW g \in Nat, NEW n \in Nat \ {0}
    PROVE  BlockDim(pixels, g, n) \in Nat
<1> DEFINE start == g * n
           end   == Smaller(start + n, TilesOf(pixels))
<1>1. start \in Nat /\ TileDim \in Nat \ {0}
  BY ChunkGridAssumption
<1>2. TilesOf(pixels) \in Nat
  BY <1>1 DEF TilesOf
<1>3. CASE start >= TilesOf(pixels)
  BY <1>3 DEF BlockDim
<1>4. CASE ~(start >= TilesOf(pixels))
  <2> HIDE DEF start
  <2>1. end \in Nat /\ start < end
    BY <1>1, <1>2, <1>4 DEF Smaller
  <2>2. start * TileDim < pixels
    BY <1>1, <1>4 DEF TilesOf
  <2> HIDE DEF end
  <2>3. end * TileDim \in Nat /\ start * TileDim \in Nat
    BY <2>1, <1>1
  <2>4. start * TileDim <= end * TileDim
    BY <2>1, <1>1
  <2>5. Smaller(end * TileDim, pixels) - start * TileDim \in Nat
    BY <2>2, <2>3, <2>4 DEF Smaller
  <2>. QED BY <2>5, <1>4 DEF BlockDim, start, end
<1>. QED BY <1>3, <1>4

LEMMA BytesAre == Bytes \in [Keys -> Nat]
<1> SUFFICES ASSUME NEW k \in Keys PROVE BlockBytes(k) \in Nat
  BY DEF Bytes
<1>1. k[1] \in Levels /\ k[2] \in Nat /\ k[3] \in Nat
  BY KeysAre, ImageIs DEF Grid
<1> DEFINE n == Aggregation[k[1]]
           dims == LodDims[k[1] + 1]
<1>2. n \in Nat \ {0} /\ dims[1] \in Nat /\ dims[2] \in Nat
  BY <1>1, AggregationsAre, ImageIs
<1>3. BlockDim(dims[1], k[2], n) \in Nat /\ BlockDim(dims[2], k[3], n) \in Nat
  <2> HIDE DEF dims, n
  <2>. QED BY <1>1, <1>2, BlockDimIs
<1>4. \A a, b \in Nat : 4 * a * b \in Nat
  OBVIOUS
<1>. QED BY <1>3, <1>4 DEF BlockBytes

-----------------------------------------------------------------------------
(* The cache of baked chunks keeps its type *)

LEMMA BakeSizesAre ==
    ASSUME NEW lod \in 0..CoverLod
    PROVE  BakeSize(lod) \in Nat \ {0}
<1>1. 2^lod \in Nat \ {0}
  <2>1. /\ 2^0 = 1 /\ 2^1 = 2 /\ 2^2 = 4 /\ 2^3 = 8
        /\ 2^4 = 16 /\ 2^5 = 32 /\ 2^6 = 64 /\ 2^7 = 128
    OBVIOUS
  <2>2. CASE lod = 0
    BY <2>2, <2>1
  <2>3. CASE lod = 1
    BY <2>3, <2>1
  <2>4. CASE lod = 2
    BY <2>4, <2>1
  <2>5. CASE lod = 3
    BY <2>5, <2>1
  <2>6. CASE lod = 4
    BY <2>6, <2>1
  <2>7. CASE lod = 5
    BY <2>7, <2>1
  <2>8. CASE lod = 6
    BY <2>8, <2>1
  <2>9. CASE lod = 7
    BY <2>9, <2>1
  <2>. QED BY <2>2, <2>3, <2>4, <2>5, <2>6, <2>7, <2>8, <2>9 DEF CoverLod, N_LODS
<1>2. \A n \in Nat \ {0} : 1024 * n \in Nat \ {0}
  OBVIOUS
<1>. QED BY <1>1, <1>2 DEF BakeSize, BASE_CHUNK_CANVAS

LEMMA BakeTargetsAre ==
    ASSUME NEW v \in Views
    PROVE  BakeTarget(v) \in 0..CoverLod
<1>1. v.z \in Int
  BY ChunkGridAssumption
<1>2. N_LODS \in Nat \ {0}
  BY DEF N_LODS
<1>. QED BY <1>1, <1>2, PickLodIs DEF BakeTarget, CoverLod

LEMMA VisibleChunksAre ==
    ASSUME NEW v \in Views, NEW lod \in 0..CoverLod
    PROVE  /\ VisibleChunks(v, lod) \subseteq BakeKeys
           /\ IsFiniteSet(VisibleChunks(v, lod))
           /\ \A k \in VisibleChunks(v, lod) : k[1] = lod
<1> DEFINE size == BakeSize(lod)
           xs == (v.x \div size)..((v.x + v.w - 1) \div size)
           ys == (v.y \div size)..((v.y + v.h - 1) \div size)
<1>1. VisibleChunks(v, lod) \subseteq BakeKeys
  BY DEF BakeKeys
<1>2. /\ v.x \in Int /\ v.y \in Int /\ v.x + v.w - 1 \in Int /\ v.y + v.h - 1 \in Int
  BY ChunkGridAssumption
<1>3. size \in Nat \ {0}
  BY BakeSizesAre
<1>4. IsFiniteSet(xs) /\ IsFiniteSet(ys)
  <2>1. \A a \in Int : a \div size \in Int
    <3> HIDE DEF size
    <3>. QED BY <1>3
  <2>. QED BY <2>1, <1>2, FS_Interval
<1>5. IsFiniteSet(xs \X ys)
  BY <1>4, FS_Product
<1>6. VisibleChunks(v, lod) \subseteq {lod} \X xs \X ys
  BY DEF VisibleChunks
<1> DEFINE f == [p \in xs \X ys |-> <<lod, p[1], p[2]>>]
<1>7. f \in Surjection(xs \X ys, {lod} \X xs \X ys)
  <2> HIDE DEF xs, ys
  <2>1. f \in [xs \X ys -> {lod} \X xs \X ys]
    OBVIOUS
  <2>2. \A g \in {lod} \X xs \X ys : <<g[2], g[3]>> \in xs \X ys /\ f[<<g[2], g[3]>>] = g
    OBVIOUS
  <2> HIDE DEF f
  <2>. QED BY <2>1, <2>2 DEF Surjection
<1>8. IsFiniteSet({lod} \X xs \X ys)
  <2> HIDE DEF xs, ys, f
  <2>. QED BY <1>5, <1>7, FS_Surjection
<1>9. \A k \in VisibleChunks(v, lod) : k[1] = lod
  <2> HIDE DEF xs, ys
  <2>. QED BY <1>6
<1>. QED BY <1>1, <1>6, <1>8, <1>9, FS_Subset

LEMMA ChunkBytesAre == ChunkBytes \in [BakeKeys -> Nat]
<1>1. ASSUME NEW size \in Nat \ {0} PROVE FboTexels(size) \in Nat
  <2> DEFINE apron == Larger((APRON_TEXELS * size + BakePx - 1) \div BakePx, 1)
  <2>1. BakePx \in Nat \ {0}
    BY ShaderChunksAssumption
  <2>2. apron \in Nat
    BY <2>1 DEF Larger, APRON_TEXELS
  <2> HIDE DEF apron
  <2>3. (size + 2 * apron) * BakePx \in Nat
    BY <2>1, <2>2
  <2>4. \A a \in Nat : Rounded(a, size) \in Int
    BY DEF Rounded
  <2>5. Larger(Rounded((size + 2 * apron) * BakePx, size), 1) \in Nat
    BY <2>3, <2>4 DEF Larger
  <2>. QED BY <2>5 DEF FboTexels, apron
<1>2. \A lod \in 0..CoverLod : ChunkTexels[lod] \in Nat
  BY <1>1, BakeSizesAre DEF ChunkTexels
<1>3. \A k \in BakeKeys : k[1] \in 0..CoverLod
  BY VisibleChunksAre DEF BakeKeys
<1>4. \A a \in Nat : 4 * a * a \in Nat
  OBVIOUS
<1>. QED BY <1>2, <1>3, <1>4 DEF ChunkBytes

\* What the chunks of K may remember of when they were touched.
Ages(K) == UNION {[S -> 0..MaxAge] : S \in SUBSET K}

BakedRecords ==
    [chunks : SUBSET BakeKeys, meta : Ages(BakeKeys), vram_bytes : Nat, pending : BOOLEAN,
     degraded : BOOLEAN, elements : SUBSET BakeKeys]

BakedIs(c) ==
    /\ c \in BakedRecords
    /\ DOMAIN c.meta = c.chunks
    /\ IsFiniteSet(c.chunks)
    /\ c.vram_bytes = BytesOf(c.chunks, ChunkBytes)

\* What is cached fits the budget, and what is drawn is cached.
BakedFits(c) == c.vram_bytes <= BakeBytes /\ c.elements \subseteq c.chunks

LEMMA AgesAre ==
    ASSUME NEW K, NEW S \in SUBSET K, NEW m, DOMAIN m = S, m = [k \in S |-> m[k]],
           \A k \in S : m[k] \in 0..MaxAge
    PROVE  m \in Ages(K)
BY DEF Ages

LEMMA AgesOf ==
    ASSUME NEW K, NEW m \in Ages(K)
    PROVE  /\ DOMAIN m \in SUBSET K
           /\ \A k \in DOMAIN m : m[k] \in 0..MaxAge
BY DEF Ages

LEMMA BakeAllIs ==
    ASSUME NEW c, BakedIs(c), NEW S \in SUBSET BakeKeys, IsFiniteSet(S), NEW bad,
           S \cap c.chunks = {}
    PROVE  /\ BakedIs(BakeAll(c, S, bad))
           /\ BakeAll(c, S, bad).chunks = c.chunks \cup (S \ bad)
<1> DEFINE new  == S \ bad
           meta == [k \in DOMAIN c.meta \cup new |-> IF k \in new THEN 0 ELSE c.meta[k]]
           vram == c.vram_bytes + BytesOf(new, ChunkBytes)
           d    == [c EXCEPT !.chunks = c.chunks \cup new, !.vram_bytes = vram, !.meta = meta]
<1>1. c \in BakedRecords /\ DOMAIN c.meta = c.chunks /\ IsFiniteSet(c.chunks)
  BY DEF BakedIs
<1>2. new \in SUBSET BakeKeys /\ IsFiniteSet(new)
  BY FS_Subset
<1>3. c.chunks \in SUBSET BakeKeys /\ c.vram_bytes \in Nat /\ c.meta \in Ages(BakeKeys)
  BY <1>1 DEF BakedRecords
<1>4. vram \in Nat /\ vram = BytesOf(c.chunks \cup new, ChunkBytes)
  <2>1. c.chunks \cap new = {}
    OBVIOUS
  <2> HIDE DEF new
  <2>2. BytesOf(new, ChunkBytes) \in Nat
    BY <1>2, ChunkBytesAre, BytesNat
  <2>3. BytesOf(c.chunks \cup new, ChunkBytes)
          = BytesOf(c.chunks, ChunkBytes) + BytesOf(new, ChunkBytes)
    BY <1>1, <1>2, <1>3, <2>1, ChunkBytesAre, BytesUnion
  <2>4. c.vram_bytes = BytesOf(c.chunks, ChunkBytes)
    BY DEF BakedIs
  <2>. QED BY <2>2, <2>3, <2>4, <1>3
<1>5. meta \in Ages(BakeKeys) /\ DOMAIN meta = c.chunks \cup new
  <2> HIDE DEF new
  <2>1. DOMAIN meta = c.chunks \cup new /\ meta = [k \in c.chunks \cup new |-> meta[k]]
    BY <1>1
  <2>2. \A k \in c.chunks \cup new : meta[k] \in 0..MaxAge
    BY <1>1, <1>3, AgesOf, ChunkGridAssumption
  <2> HIDE DEF meta
  <2>. QED BY <2>1, <2>2, <1>2, <1>3, AgesAre
<1>6. IsFiniteSet(c.chunks \cup new)
  BY <1>1, <1>2, FS_Union
<1>7. BakeAll(c, S, bad) = d
  BY DEF BakeAll
<1>8. /\ d \in BakedRecords /\ d.chunks = c.chunks \cup new /\ d.meta = meta
      /\ d.vram_bytes = vram
  <2> HIDE DEF new, meta, vram
  <2>. QED BY <1>1, <1>2, <1>3, <1>4, <1>5 DEF BakedRecords
<1> HIDE DEF d, vram, new, meta
<1>. QED BY <1>4, <1>5, <1>6, <1>7, <1>8 DEF BakedIs, new

\* Only the ages change.
LEMMA AgedIs ==
    ASSUME NEW c, BakedIs(c), NEW meta, DOMAIN meta = c.chunks, meta = [k \in c.chunks |-> meta[k]],
           \A k \in c.chunks : meta[k] \in 0..MaxAge
    PROVE  /\ BakedIs([c EXCEPT !.meta = meta])
           /\ [c EXCEPT !.meta = meta].chunks = c.chunks
<1>1. c \in BakedRecords /\ c.chunks \in SUBSET BakeKeys /\ IsFiniteSet(c.chunks)
  BY DEF BakedIs, BakedRecords
<1>2. meta \in Ages(BakeKeys)
  BY <1>1, AgesAre
<1>3. /\ [c EXCEPT !.meta = meta] \in BakedRecords
      /\ [c EXCEPT !.meta = meta].chunks = c.chunks
      /\ [c EXCEPT !.meta = meta].meta = meta
      /\ [c EXCEPT !.meta = meta].vram_bytes = c.vram_bytes
  BY <1>1, <1>2 DEF BakedRecords
<1>. QED BY <1>1, <1>3 DEF BakedIs

LEMMA BakedAges ==
    ASSUME NEW c, BakedIs(c)
    PROVE  /\ DOMAIN c.meta = c.chunks
           /\ \A k \in c.chunks : c.meta[k] \in 0..MaxAge
<1>1. c.meta \in Ages(BakeKeys) /\ DOMAIN c.meta = c.chunks
  BY DEF BakedIs, BakedRecords
<1>. QED BY <1>1, AgesOf

LEMMA TouchAllIs ==
    ASSUME NEW c, BakedIs(c), NEW S
    PROVE  BakedIs(TouchAll(c, S)) /\ TouchAll(c, S).chunks = c.chunks
<1> DEFINE meta == [k \in DOMAIN c.meta |-> IF k \in S THEN 0 ELSE c.meta[k]]
<1>1. DOMAIN meta = c.chunks /\ meta = [k \in c.chunks |-> meta[k]]
  BY BakedAges
<1>2. \A k \in c.chunks : meta[k] \in 0..MaxAge
  BY BakedAges, ChunkGridAssumption
<1>3. TouchAll(c, S) = [c EXCEPT !.meta = meta]
  BY DEF TouchAll
<1> HIDE DEF meta
<1>. QED BY <1>1, <1>2, <1>3, AgedIs

\* Chosen names cached chunks.
LEMMA ChosenIs ==
    ASSUME NEW c, NEW v \in Views
    PROVE  Chosen(c, v) \subseteq c.chunks
<1> DEFINE target == BakeTarget(v)
           over(k, lod) == <<lod, (k[2] * BakeSize(target)) \div BakeSize(lod),
                                  (k[3] * BakeSize(target)) \div BakeSize(lod)>>
           cached(k) == {lod \in target..CoverLod : over(k, lod) \in c.chunks}
<1> SUFFICES ASSUME NEW j, cached(j) # {}
             PROVE  over(j, Min(cached(j))) \in c.chunks
  BY DEF Chosen
<1>1. cached(j) \in SUBSET Nat
  BY BakeTargetsAre DEF CoverLod, N_LODS
<1>2. Min(cached(j)) \in cached(j)
  <2> HIDE DEF cached
  <2>. QED BY <1>1, MinIs
<1>. QED BY <1>2

LEMMA ShownIs ==
    ASSUME NEW c, BakedIs(c), NEW more \in BOOLEAN, NEW over \in BOOLEAN,
           NEW drawn \in SUBSET BakeKeys
    PROVE  BakedIs([c EXCEPT !.pending = more, !.degraded = over, !.elements = drawn])
BY DEF BakedIs, BakedRecords

LEMMA EvictBakedIs ==
    ASSUME NEW c, BakedIs(c), c.elements \subseteq c.chunks,
           NEW E \in Evictions(c.meta, c.vram_bytes, BakeBytes, ChunkBytes)
    PROVE  BakedIs(EvictBaked(c, E)) /\ BakedFits(EvictBaked(c, E))
<1> DEFINE rest == c.chunks \ E
           meta == [k \in DOMAIN c.meta \ E |-> c.meta[k]]
           vram == Larger(0, c.vram_bytes - BytesOf(E, ChunkBytes))
           d    == [c EXCEPT !.chunks = c.chunks \ E, !.meta = meta, !.vram_bytes = vram,
                             !.elements = c.elements \ E]
<1>1. /\ c \in BakedRecords /\ c.chunks \in SUBSET BakeKeys /\ IsFiniteSet(c.chunks)
      /\ c.vram_bytes = BytesOf(c.chunks, ChunkBytes)
      /\ c.elements \in SUBSET BakeKeys /\ DOMAIN c.meta = c.chunks
  BY DEF BakedIs, BakedRecords
<1>2. /\ E \in SUBSET c.chunks
      /\ c.vram_bytes - BytesOf(E, ChunkBytes) <= BakeBytes \/ E = c.chunks
  BY <1>1 DEF Evictions
<1>3. /\ BytesOf(c.chunks, ChunkBytes) = BytesOf(rest, ChunkBytes) + BytesOf(E, ChunkBytes)
      /\ BytesOf(rest, ChunkBytes) \in Nat /\ BytesOf(E, ChunkBytes) \in Nat
  BY <1>1, <1>2, ChunkBytesAre, BytesLeft
<1>4. vram \in Nat /\ vram = BytesOf(rest, ChunkBytes) /\ vram <= BakeBytes
  <2>1. c.vram_bytes - BytesOf(E, ChunkBytes) = BytesOf(rest, ChunkBytes)
    <3> HIDE DEF rest
    <3>. QED BY <1>1, <1>3
  <2>2. vram = BytesOf(rest, ChunkBytes)
    <3> HIDE DEF rest
    <3>. QED BY <1>3, <2>1 DEF Larger
  <2>3. E = c.chunks => BytesOf(rest, ChunkBytes) = 0
    <3>1. BytesOf({}, ChunkBytes) = 0
      BY FS_EmptySet, BytesRec
    <3>2. E = c.chunks => rest = {}
      OBVIOUS
    <3>. QED BY <3>1, <3>2
  <2> HIDE DEF vram, rest
  <2>. QED BY <1>2, <1>3, <2>1, <2>2, <2>3, ShaderChunksAssumption
<1>5. meta \in Ages(BakeKeys) /\ DOMAIN meta = rest
  <2>1. DOMAIN meta = rest /\ meta = [k \in rest |-> meta[k]]
    BY <1>1
  <2>2. \A k \in rest : meta[k] \in 0..MaxAge
    BY BakedAges
  <2>3. rest \in SUBSET BakeKeys
    BY <1>1
  <2> HIDE DEF meta, rest
  <2>. QED BY <2>1, <2>2, <2>3, AgesAre
<1>6. IsFiniteSet(rest)
  BY <1>1, FS_Subset
<1>7. EvictBaked(c, E) = d
  BY DEF EvictBaked
<1>8. /\ d \in BakedRecords /\ d.chunks = rest /\ d.meta = meta /\ d.vram_bytes = vram
      /\ d.elements = c.elements \ E
  <2> HIDE DEF meta, vram
  <2>. QED BY <1>1, <1>4, <1>5 DEF BakedRecords
<1>9. BakedIs(d)
  <2> HIDE DEF d, rest, vram, meta
  <2>. QED BY <1>4, <1>5, <1>6, <1>8 DEF BakedIs
<1>10. BakedFits(d)
  <2>1. c.elements \ E \subseteq rest
    OBVIOUS
  <2> HIDE DEF d, rest, vram, meta
  <2>. QED BY <1>4, <1>8, <2>1 DEF BakedFits
<1>. QED BY <1>7, <1>9, <1>10

\* A frame of the cache keeps it in order, whatever fails and is evicted.
LEMMA BakeFrameIs ==
    ASSUME NEW c, BakedIs(c), NEW v \in Views, bake_faults \in 0..MaxBakeFaults,
           BakeFrame(c, v)
    PROVE  BakedIs(baked') /\ BakedFits(baked') /\ bake_faults' \in 0..MaxBakeFaults
<1> DEFINE target  == BakeTarget(v)
           cover   == VisibleChunks(v, CoverLod)
           visible == VisibleChunks(v, target)
           ages    == [k \in DOMAIN c.meta |-> Smaller(c.meta[k] + 1, MaxAge)]
           aged    == [c EXCEPT !.meta = ages]
           refine  == target # CoverLod /\ ~OverBudget(v)
<1>1. /\ cover \in SUBSET BakeKeys /\ IsFiniteSet(cover)
      /\ visible \in SUBSET BakeKeys /\ IsFiniteSet(visible)
  <2>1. CoverLod \in 0..CoverLod
    BY DEF CoverLod, N_LODS
  <2>. QED BY <2>1, BakeTargetsAre, VisibleChunksAre
<1>2. BakedIs(aged) /\ aged.chunks = c.chunks
  <2>1. DOMAIN ages = c.chunks /\ ages = [k \in c.chunks |-> ages[k]]
    BY BakedAges
  <2>2. \A k \in c.chunks : ages[k] \in 0..MaxAge
    BY BakedAges, ChunkGridAssumption DEF Smaller
  <2> HIDE DEF ages
  <2>. QED BY <2>1, <2>2, AgedIs
<1>3. PICK bad :
        LET covered == BakeAll(TouchAll(aged, cover), cover \ c.chunks, bad)
            missing == IF refine THEN visible \ c.chunks ELSE {}
            tried   == FirstOf(missing, BAKE_BUDGET)
            sharp   == IF refine THEN BakeAll(TouchAll(covered, visible), tried, bad)
                       ELSE covered
            chosen  == Chosen(sharp, v)
            shown   == [TouchAll(sharp, chosen) EXCEPT
                          !.pending = missing # tried,
                          !.degraded = OverBudget(v),
                          !.elements = chosen]
        IN  /\ bad \subseteq (cover \ c.chunks) \cup tried
            /\ bake_faults + Cardinality(bad) <= MaxBakeFaults
            /\ bake_faults' = bake_faults + Cardinality(bad)
            /\ \E E \in Evictions(shown.meta, shown.vram_bytes, BakeBytes, ChunkBytes) :
                  baked' = EvictBaked(shown, E)
  BY DEF BakeFrame
<1> DEFINE covered == BakeAll(TouchAll(aged, cover), cover \ c.chunks, bad)
           missing == IF refine THEN visible \ c.chunks ELSE {}
           tried   == FirstOf(missing, BAKE_BUDGET)
           sharp   == IF refine THEN BakeAll(TouchAll(covered, visible), tried, bad)
                      ELSE covered
           chosen  == Chosen(sharp, v)
           more    == missing # tried
           shown   == [TouchAll(sharp, chosen) EXCEPT
                         !.pending = missing # tried,
                         !.degraded = OverBudget(v),
                         !.elements = chosen]
<1>4. BakedIs(covered) /\ covered.chunks = c.chunks \cup ((cover \ c.chunks) \ bad)
  <2>1. BakedIs(TouchAll(aged, cover)) /\ TouchAll(aged, cover).chunks = c.chunks
    <3> HIDE DEF aged, cover
    <3>. QED BY <1>2, TouchAllIs
  <2>2. cover \ c.chunks \in SUBSET BakeKeys /\ IsFiniteSet(cover \ c.chunks)
    BY <1>1, FS_Subset
  <2>3. (cover \ c.chunks) \cap TouchAll(aged, cover).chunks = {}
    <3> HIDE DEF aged, cover
    <3>. QED BY <2>1
  <2> DEFINE touched == TouchAll(aged, cover)
             new == cover \ c.chunks
  <2>4. /\ BakedIs(touched) /\ new \in SUBSET BakeKeys /\ IsFiniteSet(new)
        /\ new \cap touched.chunks = {} /\ touched.chunks = c.chunks
        /\ covered = BakeAll(touched, new, bad)
    BY <2>1, <2>2, <2>3
  <2> HIDE DEF touched, covered
  <2>5. BakedIs(covered)
    BY <2>4, BakeAllIs
  <2>6. covered.chunks = touched.chunks \cup (new \ bad)
    BY <2>4, BakeAllIs
  <2>. QED BY <2>4, <2>5, <2>6
<1>5. tried \in SUBSET visible /\ tried \in SUBSET missing
  BY DEF FirstOf
<1>6. tried \in SUBSET BakeKeys /\ IsFiniteSet(tried)
  <2> HIDE DEF tried, visible
  <2>. QED BY <1>1, <1>5, FS_Subset
<1>7. BakedIs(sharp)
  <2>1. BakedIs(TouchAll(covered, visible)) /\ TouchAll(covered, visible).chunks = covered.chunks
    <3> HIDE DEF covered, visible
    <3>. QED BY <1>4, TouchAllIs
  <2>2. refine => cover \cap visible = {}
    <3>1. CoverLod \in 0..CoverLod /\ target \in 0..CoverLod
      BY BakeTargetsAre DEF CoverLod, N_LODS
    <3>2. (\A k \in cover : k[1] = CoverLod) /\ (\A k \in visible : k[1] = target)
      BY <3>1, VisibleChunksAre
    <3> HIDE DEF cover, visible, target
    <3>. QED BY <3>2
  <2>3. refine => tried \cap covered.chunks = {}
    <3>1. refine => missing = visible \ c.chunks
      OBVIOUS
    <3> HIDE DEF covered, visible, cover, missing, tried, refine
    <3>. QED BY <1>4, <1>5, <2>2, <3>1
  <2>4. refine => BakedIs(BakeAll(TouchAll(covered, visible), tried, bad))
    <3> HIDE DEF covered, visible, tried, refine
    <3>. QED BY <2>1, <2>3, <1>6, BakeAllIs
  <2> HIDE DEF covered, visible, tried, refine
  <2>. QED BY <1>4, <2>4
<1>8. BakedIs(shown) /\ shown.elements \subseteq shown.chunks
  <2>1. BakedIs(TouchAll(sharp, chosen)) /\ TouchAll(sharp, chosen).chunks = sharp.chunks
    <3> HIDE DEF sharp, chosen
    <3>. QED BY <1>7, TouchAllIs
  <2>2. chosen \in SUBSET BakeKeys /\ chosen \subseteq sharp.chunks
    <3>1. sharp.chunks \in SUBSET BakeKeys
      <4> HIDE DEF sharp
      <4>. QED BY <1>7 DEF BakedIs, BakedRecords
    <3> HIDE DEF sharp
    <3>. QED BY <3>1, ChosenIs
  <2>3. (missing # tried) \in BOOLEAN /\ OverBudget(v) \in BOOLEAN
    BY DEF OverBudget
  <2> DEFINE touched == TouchAll(sharp, chosen)
             due == missing # tried
             over == OverBudget(v)
  <2>4. /\ BakedIs(touched) /\ touched.chunks = sharp.chunks
        /\ shown = [touched EXCEPT !.pending = due, !.degraded = over, !.elements = chosen]
        /\ due \in BOOLEAN /\ over \in BOOLEAN
    BY <2>1, <2>3
  <2> HIDE DEF touched, due, over, shown, chosen, sharp
  <2>5. BakedIs(shown)
    BY <2>2, <2>4, ShownIs
  <2>6. touched \in BakedRecords
    BY <2>4 DEF BakedIs
  <2>7. shown.chunks = touched.chunks /\ shown.elements = chosen
    BY <2>4, <2>6 DEF BakedRecords
  <2>. QED BY <2>2, <2>4, <2>5, <2>7
<1>9. PICK E : /\ E \in Evictions(shown.meta, shown.vram_bytes, BakeBytes, ChunkBytes)
               /\ baked' = EvictBaked(shown, E)
  BY <1>3
<1>10. BakedIs(baked') /\ BakedFits(baked')
  <2> HIDE DEF shown
  <2>. QED BY <1>8, <1>9, EvictBakedIs
<1>11. bake_faults' \in 0..MaxBakeFaults
  <2>1. bad \subseteq cover \cup visible
    <3>1. bad \subseteq (cover \ c.chunks) \cup tried
      BY <1>3
    <3> HIDE DEF tried, cover, visible
    <3>. QED BY <3>1, <1>5
  <2>2. Cardinality(bad) \in Nat
    <3> HIDE DEF cover, visible
    <3>1. IsFiniteSet(cover \cup visible)
      BY <1>1, FS_Union
    <3>. QED BY <2>1, <3>1, FS_Subset, FS_CardinalityType
  <2>3. /\ bake_faults + Cardinality(bad) <= MaxBakeFaults
        /\ bake_faults' = bake_faults + Cardinality(bad)
    BY <1>3
  <2>. QED BY <2>2, <2>3, ShaderChunksAssumption
<1>. QED BY <1>10, <1>11

-----------------------------------------------------------------------------
(* The frame of the TIFF cache, step by step *)

\* A chunk with the copy of the image it is drawn in.
Drawn == Nat \X Nat \X Nat \X Int \X Int

TileRecords ==
    [chunks : SUBSET Keys, meta : Ages(Keys), vram_bytes : Nat, in_flight : SUBSET Keys,
     failed : SUBSET Keys, elements : SUBSET Drawn]

TileIs(c) ==
    /\ c \in TileRecords
    /\ DOMAIN c.meta = c.chunks
    /\ c.vram_bytes = BytesOf(c.chunks, Bytes)

\* No chunk is asked for that is there or has failed.
Apart(c) ==
    /\ c.in_flight \cap (c.chunks \cup c.failed) = {}
    /\ c.chunks \cap c.failed = {}

Answers == [key : Keys, ok : BOOLEAN]

\* Every chunk is answered once.
Once(resp) == \A i, j \in 1..Len(resp) : resp[i].key = resp[j].key => i = j

LEMMA TileFields ==
    ASSUME NEW c, TileIs(c)
    PROVE  /\ c.chunks \in SUBSET Keys /\ c.in_flight \in SUBSET Keys /\ c.failed \in SUBSET Keys
           /\ c.vram_bytes \in Nat /\ c.vram_bytes = BytesOf(c.chunks, Bytes)
           /\ c.elements \in SUBSET Drawn
           /\ DOMAIN c.meta = c.chunks
           /\ \A k \in c.chunks : c.meta[k] \in 0..MaxAge
           /\ IsFiniteSet(c.chunks)
<1>1. c \in TileRecords /\ DOMAIN c.meta = c.chunks /\ c.vram_bytes = BytesOf(c.chunks, Bytes)
  BY DEF TileIs
<1>2. c.meta \in Ages(Keys) /\ c.chunks \in SUBSET Keys
  BY <1>1 DEF TileRecords
<1>3. IsFiniteSet(c.chunks)
  BY <1>2, KeysAre, FS_Subset
<1>. QED BY <1>1, <1>2, <1>3, AgesOf DEF TileRecords

LEMMA DrainedIs ==
    ASSUME NEW resp \in Seq(Answers), NEW bad
    PROVE  Drained(resp, bad) \in 0..Len(resp)
<1> DEFINE T == {Len(resp)} \cup
                  {n \in 0..Len(resp) : Cardinality(Uploads(resp, n, bad)) = UploadBudget}
<1>1. T \in SUBSET (0..Len(resp)) /\ T \in SUBSET Nat /\ T # {}
  OBVIOUS
<1>2. Drained(resp, bad) = Min(T)
  BY DEF Drained
<1> HIDE DEF T
<1>. QED BY <1>1, <1>2, MinIs

\* The keys of the first n answers: those that are uploaded and those that failed.
Taken(resp, n) == {resp[i].key : i \in 1..n}
Uploaded(resp, n, bad) == {resp[i].key : i \in Uploads(resp, n, bad)}
Refused(resp, n, bad) == {resp[i].key : i \in (1..n) \ Uploads(resp, n, bad)}

LEMMA TakenAre ==
    ASSUME NEW resp \in Seq(Answers), NEW bad, NEW n \in 0..Len(resp), Once(resp)
    PROVE  /\ Uploaded(resp, n, bad) \in SUBSET Keys /\ Refused(resp, n, bad) \in SUBSET Keys
           /\ Uploaded(resp, n, bad) \subseteq Taken(resp, n)
           /\ Refused(resp, n, bad) \subseteq Taken(resp, n)
           /\ Uploaded(resp, n, bad) \cap Refused(resp, n, bad) = {}
           /\ BytesOf(Uploads(resp, n, bad), [i \in Uploads(resp, n, bad) |-> Bytes[resp[i].key]])
                = BytesOf(Uploaded(resp, n, bad), Bytes)
<1> DEFINE done == Uploads(resp, n, bad)
<1>1. done \in SUBSET (1..n) /\ 1..n \subseteq 1..Len(resp)
  BY DEF Uploads
<1>2. \A i \in 1..n : resp[i].key \in Keys
  <2> HIDE DEF done
  <2>1. \A i \in 1..Len(resp) : resp[i] \in Answers
    OBVIOUS
  <2>. QED BY <1>1, <2>1 DEF Answers
<1>3. IsFiniteSet(done)
  <2> HIDE DEF done
  <2>1. IsFiniteSet(1..n)
    BY FS_Interval
  <2>. QED BY <1>1, <2>1, FS_Subset
<1> DEFINE r == [i \in done |-> resp[i].key]
<1>4. r \in [done -> Keys]
  <2> HIDE DEF done
  <2>. QED BY <1>1, <1>2
<1>5. \A i, j \in done : r[i] = r[j] => i = j
  <2> HIDE DEF done
  <2>. QED BY <1>1 DEF Once
<1>6. BytesOf(done, [i \in done |-> Bytes[r[i]]]) = BytesOf({r[i] : i \in done}, Bytes)
  <2> HIDE DEF r, done
  <2>. QED BY <1>3, <1>4, <1>5, BytesAre, BytesImage
<1>7. [i \in done |-> Bytes[r[i]]] = [i \in done |-> Bytes[resp[i].key]]
  <2> HIDE DEF done
  <2>. QED OBVIOUS
<1>8. {r[i] : i \in done} = Uploaded(resp, n, bad)
  <2> HIDE DEF done
  <2>1. {r[i] : i \in done} = {resp[i].key : i \in done}
    OBVIOUS
  <2>. QED BY <2>1 DEF Uploaded, done
<1>9. /\ Uploaded(resp, n, bad) \in SUBSET Keys /\ Refused(resp, n, bad) \in SUBSET Keys
      /\ Uploaded(resp, n, bad) \subseteq Taken(resp, n)
      /\ Refused(resp, n, bad) \subseteq Taken(resp, n)
  <2> HIDE DEF done
  <2>. QED BY <1>1, <1>2 DEF Uploaded, Refused, Taken, done
<1>10. Uploaded(resp, n, bad) \cap Refused(resp, n, bad) = {}
  <2> HIDE DEF done
  <2>. QED BY <1>1 DEF Uploaded, Refused, Once, done
<1>. QED BY <1>6, <1>7, <1>8, <1>9, <1>10

\* drain_responses: what is uploaded is counted, and what has failed is not asked for again.
LEMMA DrainIs ==
    ASSUME NEW c, TileIs(c), Apart(c), NEW resp \in Seq(Answers), NEW bad,
           NEW n \in 0..Len(resp), Once(resp), Taken(resp, n) \subseteq c.in_flight
    PROVE  /\ TileIs(Drain(c, resp, n, bad)) /\ Apart(Drain(c, resp, n, bad))
           /\ Drain(c, resp, n, bad).in_flight = c.in_flight \ Taken(resp, n)
<1> DEFINE new   == Uploaded(resp, n, bad)
           lost  == Refused(resp, n, bad)
           taken == Taken(resp, n)
           vram  == c.vram_bytes + BytesOf(new, Bytes)
           meta  == [k \in DOMAIN c.meta \cup new |->
                       IF k \in new THEN 0 ELSE Smaller(c.meta[k] + 1, MaxAge)]
           d     == [c EXCEPT !.chunks = c.chunks \cup new, !.in_flight = c.in_flight \ taken,
                              !.failed = c.failed \cup lost, !.vram_bytes = vram, !.meta = meta]
<1>1. Drain(c, resp, n, bad) = d
  <2>1. BytesOf(Uploads(resp, n, bad), [i \in Uploads(resp, n, bad) |-> Bytes[resp[i].key]])
          = BytesOf(new, Bytes)
    BY TakenAre
  <2>. QED BY <2>1 DEF Drain, Uploaded, Refused, Taken
<1>2. /\ new \in SUBSET Keys /\ lost \in SUBSET Keys /\ new \subseteq taken /\ lost \subseteq taken
      /\ new \cap lost = {} /\ taken \subseteq c.in_flight
  BY TakenAre
<1> HIDE DEF new, lost, taken
<1>3. new \cap c.chunks = {} /\ IsFiniteSet(new)
  BY <1>2, KeysAre, FS_Subset DEF Apart
<1>4. vram \in Nat /\ vram = BytesOf(c.chunks \cup new, Bytes)
  <2>1. BytesOf(c.chunks \cup new, Bytes) = BytesOf(c.chunks, Bytes) + BytesOf(new, Bytes)
    BY <1>2, <1>3, TileFields, BytesAre, BytesUnion
  <2>2. BytesOf(new, Bytes) \in Nat
    BY <1>2, <1>3, BytesAre, BytesNat
  <2>. QED BY <2>1, <2>2, TileFields
<1>5. meta \in Ages(Keys) /\ DOMAIN meta = c.chunks \cup new
  <2>1. DOMAIN meta = c.chunks \cup new /\ meta = [k \in c.chunks \cup new |-> meta[k]]
    BY TileFields
  <2>2. \A k \in c.chunks \cup new : meta[k] \in 0..MaxAge
    BY TileFields, ChunkGridAssumption DEF Smaller
  <2>3. c.chunks \cup new \in SUBSET Keys
    BY <1>2, TileFields
  <2> HIDE DEF meta
  <2>. QED BY <2>1, <2>2, <2>3, AgesAre
<1>6. /\ d \in TileRecords
      /\ d.chunks = c.chunks \cup new /\ d.meta = meta /\ d.vram_bytes = vram
      /\ d.in_flight = c.in_flight \ taken /\ d.failed = c.failed \cup lost
  <2>1. c \in TileRecords
    BY DEF TileIs
  <2> HIDE DEF meta, vram
  <2>. QED BY <2>1, <1>2, <1>4, <1>5 DEF TileRecords
<1>7. TileIs(d)
  <2> HIDE DEF d
  <2>. QED BY <1>4, <1>5, <1>6 DEF TileIs
<1>8. Apart(d)
  <2> HIDE DEF d
  <2>. QED BY <1>2, <1>6 DEF Apart
<1>9. d.in_flight = c.in_flight \ Taken(resp, n)
  BY <1>6 DEF taken
<1>. QED BY <1>1, <1>7, <1>8, <1>9

LEMMA StampIs ==
    ASSUME NEW c, TileIs(c), Apart(c), NEW v
    PROVE  /\ TileIs(Stamp(c, v)) /\ Apart(Stamp(c, v))
           /\ Stamp(c, v).in_flight = c.in_flight
<1> DEFINE meta == [k \in DOMAIN c.meta |-> IF k \in Covering[v] THEN 0 ELSE c.meta[k]]
           d    == [c EXCEPT !.meta = meta]
<1>1. Stamp(c, v) = d
  BY DEF Stamp
<1>2. meta \in Ages(Keys) /\ DOMAIN meta = c.chunks
  <2>1. DOMAIN meta = c.chunks /\ meta = [k \in c.chunks |-> meta[k]]
    BY TileFields
  <2>2. \A k \in c.chunks : meta[k] \in 0..MaxAge
    BY TileFields, ChunkGridAssumption
  <2>3. c.chunks \in SUBSET Keys
    BY TileFields
  <2> HIDE DEF meta
  <2>. QED BY <2>1, <2>2, <2>3, AgesAre
<1>3. /\ d \in TileRecords
      /\ d.chunks = c.chunks /\ d.meta = meta /\ d.vram_bytes = c.vram_bytes
      /\ d.in_flight = c.in_flight /\ d.failed = c.failed
  <2>1. c \in TileRecords
    BY DEF TileIs
  <2> HIDE DEF meta
  <2>. QED BY <2>1, <1>2 DEF TileRecords
<1>4. TileIs(d)
  <2> HIDE DEF d
  <2>. QED BY <1>2, <1>3 DEF TileIs
<1>5. Apart(d)
  <2> HIDE DEF d
  <2>. QED BY <1>3 DEF Apart
<1>. QED BY <1>1, <1>3, <1>4, <1>5

LEMMA AskedIs ==
    ASSUME NEW c, TileIs(c), Apart(c), NEW S \in SUBSET Keys,
           S \cap (c.chunks \cup c.in_flight \cup c.failed) = {}
    PROVE  /\ TileIs([c EXCEPT !.in_flight = c.in_flight \cup S])
           /\ Apart([c EXCEPT !.in_flight = c.in_flight \cup S])
           /\ [c EXCEPT !.in_flight = c.in_flight \cup S].in_flight = c.in_flight \cup S
<1> DEFINE d == [c EXCEPT !.in_flight = c.in_flight \cup S]
<1>1. /\ d \in TileRecords
      /\ d.chunks = c.chunks /\ d.meta = c.meta /\ d.vram_bytes = c.vram_bytes
      /\ d.in_flight = c.in_flight \cup S /\ d.failed = c.failed
  BY DEF TileIs, TileRecords
<1> HIDE DEF d
<1>2. TileIs(d)
  BY <1>1 DEF TileIs
<1>3. Apart(d)
  BY <1>1 DEF Apart
<1>. QED BY <1>1, <1>2, <1>3 DEF d

\* evict_over_budget: what is left is counted and fits.
LEMMA EvictIs ==
    ASSUME NEW c, TileIs(c), Apart(c),
           NEW E \in Evictions(c.meta, c.vram_bytes, BudgetBytes, Bytes)
    PROVE  /\ TileIs(Evict(c, E)) /\ Apart(Evict(c, E))
           /\ Evict(c, E).in_flight = c.in_flight
           /\ Evict(c, E).vram_bytes <= BudgetBytes
<1> DEFINE rest == c.chunks \ E
           meta == [k \in DOMAIN c.meta \ E |-> c.meta[k]]
           vram == Larger(0, c.vram_bytes - BytesOf(E, Bytes))
           d    == [c EXCEPT !.chunks = c.chunks \ E, !.meta = meta, !.vram_bytes = vram]
<1>1. Evict(c, E) = d
  BY DEF Evict
<1>2. /\ E \in SUBSET c.chunks
      /\ c.vram_bytes - BytesOf(E, Bytes) <= BudgetBytes \/ E = c.chunks
  BY TileFields DEF Evictions
<1>3. /\ BytesOf(c.chunks, Bytes) = BytesOf(rest, Bytes) + BytesOf(E, Bytes)
      /\ BytesOf(rest, Bytes) \in Nat /\ BytesOf(E, Bytes) \in Nat
  BY <1>2, TileFields, BytesAre, BytesLeft
<1>4. vram \in Nat /\ vram = BytesOf(rest, Bytes) /\ vram <= BudgetBytes
  <2>1. c.vram_bytes = BytesOf(c.chunks, Bytes)
    BY TileFields
  <2>2. c.vram_bytes - BytesOf(E, Bytes) = BytesOf(rest, Bytes)
    <3> HIDE DEF rest
    <3>. QED BY <1>3, <2>1
  <2>3. vram = BytesOf(rest, Bytes)
    <3> HIDE DEF rest
    <3>. QED BY <1>3, <2>2 DEF Larger
  <2>4. E = c.chunks => BytesOf(rest, Bytes) = 0
    <3>1. BytesOf({}, Bytes) = 0
      BY FS_EmptySet, BytesRec
    <3>2. E = c.chunks => rest = {}
      OBVIOUS
    <3>. QED BY <3>1, <3>2
  <2> HIDE DEF vram, rest
  <2>. QED BY <1>2, <1>3, <2>2, <2>3, <2>4, TileChunksAssumption
<1>5. meta \in Ages(Keys) /\ DOMAIN meta = rest
  <2>1. DOMAIN meta = rest /\ meta = [k \in rest |-> meta[k]]
    BY TileFields
  <2>2. \A k \in rest : meta[k] \in 0..MaxAge
    BY TileFields
  <2>3. rest \in SUBSET Keys
    BY TileFields
  <2> HIDE DEF meta, rest
  <2>. QED BY <2>1, <2>2, <2>3, AgesAre
<1>6. /\ d \in TileRecords
      /\ d.chunks = rest /\ d.meta = meta /\ d.vram_bytes = vram
      /\ d.in_flight = c.in_flight /\ d.failed = c.failed
  <2>1. c \in TileRecords
    BY DEF TileIs
  <2> HIDE DEF meta, vram
  <2>. QED BY <2>1, <1>4, <1>5 DEF TileRecords
<1>7. TileIs(d)
  <2> HIDE DEF d, rest, vram, meta
  <2>. QED BY <1>4, <1>5, <1>6 DEF TileIs
<1>8. Apart(d)
  <2> HIDE DEF d
  <2>. QED BY <1>6 DEF Apart
<1>9. d.vram_bytes <= BudgetBytes
  <2> HIDE DEF d, vram
  <2>. QED BY <1>4, <1>6
<1>. QED BY <1>1, <1>6, <1>7, <1>8, <1>9

\* What is drawn has its texture.
DrawnIsCached(c) == \A e \in c.elements : <<e[1], e[2], e[3]>> \in c.chunks

LEMMA ResolveIs ==
    ASSUME NEW c, TileIs(c), Apart(c), NEW v \in Views
    PROVE  /\ TileIs(Resolve(c, v)) /\ Apart(Resolve(c, v)) /\ DrawnIsCached(Resolve(c, v))
           /\ Resolve(c, v).in_flight = c.in_flight
           /\ Resolve(c, v).vram_bytes = c.vram_bytes
<1> DEFINE target == TargetLod(v)
           cached(q) == {lod \in TileLods(v) : Ancestor(<<target, q[1], q[2]>>, lod) \in c.chunks}
           shown(q) == LET a == Ancestor(<<target, q[1], q[2]>>, Min(cached(q)))
                       IN  <<a[1], a[2], a[3], q[3], q[4]>>
           drawn == IF target >= Coarsest THEN {}
                       ELSE {shown(q) : q \in {p \in Visible[v] : cached(p) # {}}}
           d == [c EXCEPT !.elements = drawn]
<1>1. Resolve(c, v) = d
  BY DEF Resolve
<1>2. \A e \in drawn : e \in Drawn /\ <<e[1], e[2], e[3]>> \in c.chunks
  <2>1. SUFFICES ASSUME ~(target >= Coarsest), NEW q \in Visible[v], cached(q) # {}
                 PROVE  shown(q) \in Drawn
                        /\ <<shown(q)[1], shown(q)[2], shown(q)[3]>> \in c.chunks
    OBVIOUS
  <2> DEFINE a == Ancestor(<<target, q[1], q[2]>>, Min(cached(q)))
  <2>2. a \in c.chunks
    <3>1. cached(q) \in SUBSET Nat
      BY TargetsAre DEF Levels
    <3>2. Min(cached(q)) \in cached(q)
      <4> HIDE DEF cached
      <4>. QED BY <2>1, <3>1, MinIs
    <3>. QED BY <3>2
  <2>3. a \in Grid
    BY <2>2, TileFields, KeysAre
  <2>4. target \in Levels
    BY <2>1, TargetsAre, LodsAre, ImageIs DEF Levels
  <2>5. q[3] \in Int /\ q[4] \in Int
    BY <2>1, <2>4, VisibleIs DEF Visible
  <2>6. a = <<a[1], a[2], a[3]>> /\ a[1] \in Nat /\ a[2] \in Nat /\ a[3] \in Nat
    <3>1. Image.w \in Nat /\ Image.h \in Nat
      BY ImageIs
    <3> HIDE DEF a
    <3>. QED BY <2>3, <3>1 DEF Grid, Levels
  <2>7. shown(q) = <<a[1], a[2], a[3], q[3], q[4]>>
    OBVIOUS
  <2> HIDE DEF a, shown
  <2>. QED BY <2>2, <2>5, <2>6, <2>7 DEF Drawn
<1>3. /\ d \in TileRecords
      /\ d.chunks = c.chunks /\ d.meta = c.meta /\ d.vram_bytes = c.vram_bytes
      /\ d.in_flight = c.in_flight /\ d.failed = c.failed /\ d.elements = drawn
  <2>1. c \in TileRecords /\ drawn \in SUBSET Drawn
    BY <1>2 DEF TileIs
  <2> HIDE DEF drawn
  <2>. QED BY <2>1 DEF TileRecords
<1> HIDE DEF d, drawn
<1>4. TileIs(d)
  BY <1>3 DEF TileIs
<1>5. Apart(d)
  BY <1>3 DEF Apart
<1>6. DrawnIsCached(d)
  BY <1>2, <1>3 DEF DrawnIsCached
<1>. QED BY <1>1, <1>3, <1>4, <1>5, <1>6

-----------------------------------------------------------------------------
(* Where the requests are                                                  *)

InQueue(queue) == {queue[i] : i \in 1..Len(queue)}
InWork(wk, jb) == {jb[w] : w \in {x \in Workers : wk[x] = "busy"}}
InChannel(resp) == {resp[i].key : i \in 1..Len(resp)}

Distinct(queue) == \A i, j \in 1..Len(queue) : queue[i] = queue[j] => i = j

\* The requests that are out, flight, are those in the queue, with a busy thread and
\* in the channel, each in one of the three and there once.
Held(flight, queue, resp, wk, jb) ==
    /\ flight \subseteq Keys
    /\ queue \in Seq(Keys) /\ resp \in Seq(Answers)
    /\ Distinct(queue) /\ Once(resp)
    /\ \A w, x \in Workers : wk[w] = "busy" /\ wk[x] = "busy" /\ jb[w] = jb[x] => w = x
    /\ flight = InQueue(queue) \cup InWork(wk, jb) \cup InChannel(resp)
    /\ InQueue(queue) \cap InWork(wk, jb) = {}
    /\ InQueue(queue) \cap InChannel(resp) = {}
    /\ InWork(wk, jb) \cap InChannel(resp) = {}

\* An order enqueues every chunk, once.
LEMMA OrderIs ==
    ASSUME NEW S \in SUBSET Keys, NEW order \in EnqueueOrders(S)
    PROVE  order \in Seq(Keys) /\ Distinct(order) /\ InQueue(order) = S
<1> DEFINE n == Cardinality(S)
<1>1. IsFiniteSet(S) /\ n \in Nat
  BY KeysAre, FS_Subset, FS_CardinalityType
<1> HIDE DEF n
<1>2. order \in [1..n -> S] /\ \A i, j \in 1..n : i < j => order[i] # order[j]
  BY DEF EnqueueOrders, n
<1>3. order \in Seq(Keys) /\ Len(order) = n
  BY <1>1, <1>2
<1>4. \A i, j \in 1..n : order[i] = order[j] => i = j
  BY <1>1, <1>2
<1>5. order \in Injection(1..n, S)
  BY <1>2, <1>4 DEF Injection, IsInjective
<1>6. Cardinality(1..n) = Cardinality(S)
  <2>1. Cardinality(1..n) = n
    BY <1>1, FS_Interval
  <2>. QED BY <2>1 DEF n
<1>7. order \in Surjection(1..n, S)
  BY <1>1, <1>5, <1>6, FS_Injection
<1>. QED BY <1>2, <1>3, <1>4, <1>7 DEF Surjection, Distinct, InQueue

\* A queue after which another is put.
LEMMA EnqueueIs ==
    ASSUME NEW p \in Seq(Keys), Distinct(p), NEW q \in Seq(Keys), Distinct(q),
           InQueue(p) \cap InQueue(q) = {}
    PROVE  /\ p \o q \in Seq(Keys) /\ Distinct(p \o q)
           /\ InQueue(p \o q) = InQueue(p) \cup InQueue(q)
<1>1. /\ p \o q \in Seq(Keys)
      /\ Len(p \o q) = Len(p) + Len(q) /\ Len(p) \in Nat /\ Len(q) \in Nat
      /\ \A i \in 1..Len(p) + Len(q) :
            (p \o q)[i] = IF i <= Len(p) THEN p[i] ELSE q[i - Len(p)]
  BY ConcatProperties
<1> DEFINE r == p \o q
<1>2. \A i \in 1..Len(p) : p[i] = r[i] /\ i \in 1..Len(r)
  BY <1>1
<1>3. \A i \in 1..Len(q) : q[i] = r[i + Len(p)] /\ i + Len(p) \in 1..Len(r)
  BY <1>1
<1>4. \A i \in 1..Len(r) : \/ i \in 1..Len(p) /\ r[i] = p[i]
                           \/ i - Len(p) \in 1..Len(q) /\ r[i] = q[i - Len(p)]
  BY <1>1
<1>5. \A i \in 1..Len(p), j \in 1..Len(q) : p[i] # q[j]
  BY DEF InQueue
<1> HIDE DEF r
<1>6. Distinct(r)
  <2> SUFFICES ASSUME NEW i \in 1..Len(r), NEW j \in 1..Len(r), r[i] = r[j] PROVE i = j
    BY DEF Distinct
  <2>1. i \in Int /\ j \in Int /\ Len(p) \in Int
    BY <1>1
  <2>2. CASE i \in 1..Len(p) /\ r[i] = p[i]
    <3>1. CASE j \in 1..Len(p) /\ r[j] = p[j]
      BY <2>2, <3>1 DEF Distinct
    <3>2. CASE j - Len(p) \in 1..Len(q) /\ r[j] = q[j - Len(p)]
      BY <2>2, <3>2, <1>5
    <3>. QED BY <1>4, <3>1, <3>2
  <2>3. CASE i - Len(p) \in 1..Len(q) /\ r[i] = q[i - Len(p)]
    <3>1. CASE j \in 1..Len(p) /\ r[j] = p[j]
      BY <2>3, <3>1, <1>5
    <3>2. CASE j - Len(p) \in 1..Len(q) /\ r[j] = q[j - Len(p)]
      <4>1. i - Len(p) = j - Len(p)
        BY <2>3, <3>2 DEF Distinct
      <4>. QED BY <4>1, <2>1
    <3>. QED BY <1>4, <3>1, <3>2
  <2>. QED BY <1>4, <2>2, <2>3
<1>7. InQueue(r) \subseteq InQueue(p) \cup InQueue(q)
  BY <1>4 DEF InQueue
<1>8. InQueue(p) \cup InQueue(q) \subseteq InQueue(r)
  BY <1>2, <1>3 DEF InQueue
<1>. QED BY <1>1, <1>6, <1>7, <1>8 DEF r

\* The channel after n answers are taken.
LEMMA ChannelIs ==
    ASSUME NEW resp \in Seq(Answers), Once(resp), NEW n \in 0..Len(resp)
    PROVE  LET rest == SubSeq(resp, n + 1, Len(resp))
           IN  /\ rest \in Seq(Answers) /\ Once(rest)
               /\ InChannel(resp) = Taken(resp, n) \cup InChannel(rest)
               /\ Taken(resp, n) \cap InChannel(rest) = {}
<1> DEFINE rest == SubSeq(resp, n + 1, Len(resp))
<1>1. Len(resp) \in Nat /\ n \in Nat /\ n <= Len(resp)
  OBVIOUS
<1>2. \A i \in 1..Len(resp) : resp[i] \in Answers
  OBVIOUS
<1>3. /\ rest \in Seq(Answers) /\ Len(rest) = Len(resp) - n
      /\ \A i \in 1..Len(rest) : rest[i] = resp[i + n]
  <2>1. \A i \in (n + 1)..Len(resp) : resp[i] \in Answers
    BY <1>1, <1>2
  <2>2. n + 1 \in Int /\ Len(resp) \in Int
    BY <1>1
  <2>3. /\ rest \in Seq(Answers)
        /\ Len(rest) = IF n + 1 <= Len(resp) THEN Len(resp) - (n + 1) + 1 ELSE 0
        /\ \A i \in 1..(Len(resp) - (n + 1) + 1) : rest[i] = resp[(n + 1) + i - 1]
    BY ONLY <2>1, <2>2, SubSeqProperties
  <2> HIDE DEF rest
  <2>4. Len(rest) = Len(resp) - n
    BY <1>1, <2>3
  <2>5. \A i \in 1..Len(rest) : (n + 1) + i - 1 = i + n
    BY <1>1, <2>4
  <2>6. Len(resp) - (n + 1) + 1 = Len(rest)
    BY <1>1, <2>4
  <2>. QED BY <2>3, <2>4, <2>5, <2>6
<1> HIDE DEF rest
<1>4. \A i \in 1..Len(rest) : i + n \in 1..Len(resp) /\ i + n \notin 1..n
  BY <1>1, <1>3
<1>5. \A i \in 1..Len(resp) : i \in 1..n \/ (i - n \in 1..Len(rest) /\ (i - n) + n = i)
  BY <1>1, <1>3
<1>6. Once(rest)
  <2> SUFFICES ASSUME NEW i \in 1..Len(rest), NEW j \in 1..Len(rest), rest[i].key = rest[j].key
               PROVE  i = j
    BY DEF Once
  <2>1. i + n = j + n
    BY <1>3, <1>4 DEF Once
  <2>. QED BY <2>1, <1>1, <1>3
<1>7. InChannel(resp) \subseteq Taken(resp, n) \cup InChannel(rest)
  <2> SUFFICES ASSUME NEW i \in 1..Len(resp), i \notin 1..n
               PROVE  resp[i].key \in InChannel(rest)
    BY DEF InChannel, Taken
  <2>1. i - n \in 1..Len(rest) /\ (i - n) + n = i
    BY <1>5
  <2>2. rest[i - n] = resp[i]
    BY <1>3, <2>1
  <2>. QED BY <2>1, <2>2 DEF InChannel
<1>8. Taken(resp, n) \cup InChannel(rest) \subseteq InChannel(resp)
  <2>1. 1..n \subseteq 1..Len(resp)
    BY <1>1
  <2>. QED BY <1>3, <1>4, <2>1 DEF InChannel, Taken
<1>9. Taken(resp, n) \cap InChannel(rest) = {}
  <2>1. 1..n \subseteq 1..Len(resp)
    BY <1>1
  <2>2. \A i \in 1..n, j \in 1..Len(rest) : resp[i].key # rest[j].key
    BY <1>3, <1>4, <2>1 DEF Once
  <2>. QED BY <2>2 DEF InChannel, Taken
<1>. QED BY <1>3, <1>6, <1>7, <1>8, <1>9 DEF rest

WorkerStates == {"ready", "waiting", "busy", "exited"}

\* Waking waiting threads leaves the busy ones alone.
LEMMA NotifiedAre ==
    ASSUME NEW wk \in [Workers -> WorkerStates], NEW m, NEW woken \in Notified(wk, m)
    PROVE  /\ woken \in [Workers -> WorkerStates]
           /\ \A w \in Workers : woken[w] = "busy" <=> wk[w] = "busy"
BY DEF Notified, WorkerStates

\* Requests move when answers are taken and chunks are asked for.
LEMMA HeldAfter ==
    ASSUME NEW flight, NEW queue, NEW resp, NEW wk, NEW jb, Held(flight, queue, resp, wk, jb),
           NEW n \in 0..Len(resp), NEW S \in SUBSET Keys, S \cap (flight \ Taken(resp, n)) = {},
           NEW order \in EnqueueOrders(S),
           NEW woken, \A w \in Workers : woken[w] = "busy" <=> wk[w] = "busy"
    PROVE  Held((flight \ Taken(resp, n)) \cup S, queue \o order,
                SubSeq(resp, n + 1, Len(resp)), woken, jb)
<1> DEFINE taken == Taken(resp, n)
           rest  == SubSeq(resp, n + 1, Len(resp))
           after == (flight \ taken) \cup S
<1>1. /\ flight \subseteq Keys
      /\ queue \in Seq(Keys) /\ resp \in Seq(Answers)
      /\ Distinct(queue) /\ Once(resp)
      /\ \A w, x \in Workers : wk[w] = "busy" /\ wk[x] = "busy" /\ jb[w] = jb[x] => w = x
      /\ flight = InQueue(queue) \cup InWork(wk, jb) \cup InChannel(resp)
      /\ InQueue(queue) \cap InWork(wk, jb) = {}
      /\ InQueue(queue) \cap InChannel(resp) = {}
      /\ InWork(wk, jb) \cap InChannel(resp) = {}
  BY DEF Held
<1>2. order \in Seq(Keys) /\ Distinct(order) /\ InQueue(order) = S
  BY OrderIs
<1>3. /\ rest \in Seq(Answers) /\ Once(rest)
      /\ InChannel(resp) = taken \cup InChannel(rest)
      /\ taken \cap InChannel(rest) = {}
  BY <1>1, ChannelIs
<1>4. InWork(woken, jb) = InWork(wk, jb)
  BY DEF InWork
<1> HIDE DEF taken, rest
<1>5. InQueue(queue) \cap InQueue(order) = {}
  BY <1>1, <1>2, <1>3 DEF taken
<1>6. /\ queue \o order \in Seq(Keys) /\ Distinct(queue \o order)
      /\ InQueue(queue \o order) = InQueue(queue) \cup S
  BY <1>1, <1>2, <1>5, EnqueueIs
<1>7. S \cap (flight \ taken) = {}
  BY DEF taken
<1>8. after = InQueue(queue \o order) \cup InWork(woken, jb) \cup InChannel(rest)
  BY <1>1, <1>3, <1>4, <1>6
<1>9. /\ InQueue(queue \o order) \cap InWork(woken, jb) = {}
      /\ InQueue(queue \o order) \cap InChannel(rest) = {}
      /\ InWork(woken, jb) \cap InChannel(rest) = {}
  BY <1>1, <1>3, <1>4, <1>6, <1>7
<1>10. \A w, x \in Workers :
         woken[w] = "busy" /\ woken[x] = "busy" /\ jb[w] = jb[x] => w = x
  BY <1>1
<1>11. after \subseteq Keys
  BY <1>1
<1>. QED BY <1>3, <1>6, <1>8, <1>9, <1>10, <1>11 DEF Held, rest, taken

\* A frame of the cache, from a cache in order to a cache in order.
LEMMA TileFrameIs ==
    ASSUME NEW c, TileIs(c), Apart(c), NEW queue, NEW resp,
           NEW wk \in [Workers -> WorkerStates], Held(c.in_flight, queue, resp, wk, job),
           NEW v \in Views, TileFrame(c, queue, resp, wk, v)
    PROVE  /\ TileIs(tile') /\ Apart(tile') /\ DrawnIsCached(tile')
           /\ tile'.vram_bytes <= BudgetBytes
           /\ worker' \in [Workers -> WorkerStates]
           /\ \A w \in Workers : worker'[w] = "busy" <=> wk[w] = "busy"
           /\ Held(tile'.in_flight, pending', responses', worker', job)
           /\ shutdown' = shutdown /\ job' = job
<1>1. PICK bad :
        LET n      == Drained(resp, bad)
            loaded == Stamp(Drain(c, resp, n, bad), v)
            wanted == Missing(loaded, v)
            asked  == [loaded EXCEPT !.in_flight = @ \cup wanted]
        IN  /\ responses' = SubSeq(resp, n + 1, Len(resp))
            /\ \E order \in EnqueueOrders(wanted) : pending' = queue \o order
            /\ worker' \in Notified(wk, Cardinality(wanted))
            /\ \E E \in Evictions(asked.meta, asked.vram_bytes, BudgetBytes, Bytes) :
                  tile' = Resolve(Evict(asked, E), v)
            /\ UNCHANGED <<shutdown, job>>
  BY DEF TileFrame
<1> DEFINE n      == Drained(resp, bad)
           loaded == Stamp(Drain(c, resp, n, bad), v)
           wanted == Missing(loaded, v)
           asked  == [loaded EXCEPT !.in_flight = loaded.in_flight \cup wanted]
<1>2. /\ responses' = SubSeq(resp, n + 1, Len(resp))
      /\ \E order \in EnqueueOrders(wanted) : pending' = queue \o order
      /\ worker' \in Notified(wk, Cardinality(wanted))
      /\ \E E \in Evictions(asked.meta, asked.vram_bytes, BudgetBytes, Bytes) :
            tile' = Resolve(Evict(asked, E), v)
      /\ shutdown' = shutdown /\ job' = job
  BY <1>1
<1>3. resp \in Seq(Answers) /\ Once(resp) /\ InChannel(resp) \subseteq c.in_flight
  BY DEF Held
<1>4. n \in 0..Len(resp)
  BY <1>3, DrainedIs
<1> HIDE DEF n
<1>5. Taken(resp, n) \subseteq c.in_flight
  BY <1>3, <1>4 DEF InChannel, Taken
<1>6. /\ TileIs(Drain(c, resp, n, bad)) /\ Apart(Drain(c, resp, n, bad))
      /\ Drain(c, resp, n, bad).in_flight = c.in_flight \ Taken(resp, n)
  BY <1>3, <1>4, <1>5, DrainIs
<1>7. /\ TileIs(loaded) /\ Apart(loaded)
      /\ loaded.in_flight = c.in_flight \ Taken(resp, n)
  BY <1>6, StampIs
<1> HIDE DEF loaded
<1>8. wanted \in SUBSET Keys /\ wanted \cap (loaded.chunks \cup loaded.in_flight \cup loaded.failed) = {}
  BY KeysAre DEF Missing
<1> HIDE DEF wanted
<1>9. /\ TileIs(asked) /\ Apart(asked)
      /\ asked.in_flight = loaded.in_flight \cup wanted
  BY <1>7, <1>8, AskedIs
<1> HIDE DEF asked
<1>10. PICK E : /\ E \in Evictions(asked.meta, asked.vram_bytes, BudgetBytes, Bytes)
                /\ tile' = Resolve(Evict(asked, E), v)
  BY <1>2
<1> DEFINE left == Evict(asked, E)
<1>11. /\ TileIs(left) /\ Apart(left) /\ left.in_flight = asked.in_flight
       /\ left.vram_bytes <= BudgetBytes
  BY <1>9, <1>10, EvictIs
<1> HIDE DEF left
<1>12. tile' = Resolve(left, v)
  BY <1>10 DEF left
<1>13. /\ TileIs(tile') /\ Apart(tile') /\ DrawnIsCached(tile')
       /\ tile'.in_flight = left.in_flight /\ tile'.vram_bytes = left.vram_bytes
  BY <1>11, <1>12, ResolveIs
<1>14. PICK order : order \in EnqueueOrders(wanted) /\ pending' = queue \o order
  BY <1>2
<1>15. /\ worker' \in [Workers -> WorkerStates]
       /\ \A w \in Workers : worker'[w] = "busy" <=> wk[w] = "busy"
  BY <1>2, NotifiedAre
<1>16. tile'.in_flight = (c.in_flight \ Taken(resp, n)) \cup wanted
  BY <1>7, <1>9, <1>11, <1>13
<1>17. Held(tile'.in_flight, pending', responses', worker', job)
  <2>1. wanted \cap (c.in_flight \ Taken(resp, n)) = {}
    BY <1>7, <1>8
  <2>2. Held((c.in_flight \ Taken(resp, n)) \cup wanted, queue \o order,
             SubSeq(resp, n + 1, Len(resp)), worker', job)
    BY <1>4, <1>8, <1>14, <1>15, <2>1, HeldAfter
  <2>. QED BY <1>2, <1>14, <1>16, <2>2
<1>. QED BY <1>2, <1>11, <1>13, <1>15, <1>17

-----------------------------------------------------------------------------
(* The threads *)

Jobs == Keys \cup {NoJob}

\* Threads that are not busy hold nothing.
LEMMA HeldIdle ==
    ASSUME NEW flight, NEW queue, NEW resp, NEW wk, NEW jb, Held(flight, queue, resp, wk, jb),
           NEW other, \A w \in Workers : other[w] = "busy" <=> wk[w] = "busy"
    PROVE  Held(flight, queue, resp, other, jb)
<1>1. InWork(other, jb) = InWork(wk, jb)
  BY DEF InWork
<1>. QED BY <1>1 DEF Held

\* A thread takes the request at the head of the queue.
LEMMA HeldTake ==
    ASSUME NEW flight, NEW queue, NEW resp, NEW wk \in [Workers -> WorkerStates],
           NEW jb \in [Workers -> Jobs], Held(flight, queue, resp, wk, jb),
           queue # <<>>, NEW w \in Workers, wk[w] # "busy"
    PROVE  Held(flight, Tail(queue), resp, [wk EXCEPT ![w] = "busy"],
                [jb EXCEPT ![w] = Head(queue)])
<1> DEFINE k == Head(queue)
           q == Tail(queue)
           wk2 == [wk EXCEPT ![w] = "busy"]
           jb2 == [jb EXCEPT ![w] = k]
<1>1. /\ flight \subseteq Keys
      /\ queue \in Seq(Keys) /\ resp \in Seq(Answers)
      /\ Distinct(queue) /\ Once(resp)
      /\ \A x, y \in Workers : wk[x] = "busy" /\ wk[y] = "busy" /\ jb[x] = jb[y] => x = y
      /\ flight = InQueue(queue) \cup InWork(wk, jb) \cup InChannel(resp)
      /\ InQueue(queue) \cap InWork(wk, jb) = {}
      /\ InQueue(queue) \cap InChannel(resp) = {}
      /\ InWork(wk, jb) \cap InChannel(resp) = {}
  BY DEF Held
<1>2. /\ Len(queue) \in Nat /\ Len(queue) > 0
      /\ k = queue[1] /\ q \in Seq(Keys) /\ Len(q) = Len(queue) - 1
      /\ \A i \in 1..Len(q) : q[i] = queue[i + 1] /\ i + 1 \in 1..Len(queue) /\ i + 1 # 1
  <2>1. /\ q \in Seq(Keys) /\ Len(q) = Len(queue) - 1
        /\ \A i \in 1..Len(q) : q[i] = queue[i + 1]
    BY <1>1, HeadTailProperties
  <2>2. Len(queue) \in Nat /\ Len(queue) > 0 /\ k = queue[1]
    BY <1>1
  <2> HIDE DEF k, q
  <2>. QED BY <2>1, <2>2
<1> HIDE DEF k, q
<1>3. InQueue(queue) = {k} \cup InQueue(q)
  <2>1. 1 \in 1..Len(queue)
    BY <1>2
  <2>2. \A i \in 1..Len(queue) : i = 1 \/ (i - 1 \in 1..Len(q) /\ (i - 1) + 1 = i)
    BY <1>2
  <2>3. {k} \cup InQueue(q) \subseteq InQueue(queue)
    BY <1>2, <2>1 DEF InQueue
  <2>4. InQueue(queue) \subseteq {k} \cup InQueue(q)
    <3> SUFFICES ASSUME NEW i \in 1..Len(queue), i # 1 PROVE queue[i] \in InQueue(q)
      BY <1>2 DEF InQueue
    <3>1. i - 1 \in 1..Len(q) /\ q[i - 1] = queue[i]
      BY <1>2, <2>2
    <3>. QED BY <3>1 DEF InQueue
  <2>. QED BY <2>3, <2>4
<1>4. Distinct(q) /\ k \notin InQueue(q)
  <2>1. 1 \in 1..Len(queue)
    BY <1>2
  <2>2. k \notin InQueue(q)
    BY <1>1, <1>2, <2>1 DEF InQueue, Distinct
  <2>3. Distinct(q)
    <3> SUFFICES ASSUME NEW i \in 1..Len(q), NEW j \in 1..Len(q), q[i] = q[j] PROVE i = j
      BY DEF Distinct
    <3>1. i + 1 = j + 1
      BY <1>1, <1>2 DEF Distinct
    <3>. QED BY <3>1
  <2>. QED BY <2>2, <2>3
<1>5. \A x \in Workers : /\ wk2[x] = IF x = w THEN "busy" ELSE wk[x]
                         /\ jb2[x] = IF x = w THEN k ELSE jb[x]
  OBVIOUS
<1> HIDE DEF wk2, jb2
<1>6. InWork(wk2, jb2) = InWork(wk, jb) \cup {k}
  BY <1>5 DEF InWork
<1>7. \A x \in Workers : wk[x] = "busy" => jb[x] # k
  BY <1>1, <1>3 DEF InWork
<1>8. \A x, y \in Workers : wk2[x] = "busy" /\ wk2[y] = "busy" /\ jb2[x] = jb2[y] => x = y
  BY <1>1, <1>5, <1>7
<1>9. Held(flight, q, resp, wk2, jb2)
  BY <1>1, <1>2, <1>3, <1>4, <1>6, <1>8 DEF Held
<1>. QED BY <1>9 DEF q, k, wk2, jb2

\* A thread sends its answer.
LEMMA HeldAnswer ==
    ASSUME NEW flight, NEW queue, NEW resp, NEW wk \in [Workers -> WorkerStates],
           NEW jb \in [Workers -> Jobs], Held(flight, queue, resp, wk, jb),
           NEW w \in Workers, wk[w] = "busy", jb[w] \in Keys, NEW ok \in BOOLEAN
    PROVE  Held(flight, queue, Append(resp, [key |-> jb[w], ok |-> ok]),
                [wk EXCEPT ![w] = "ready"], [jb EXCEPT ![w] = NoJob])
<1> DEFINE k == jb[w]
           a == [key |-> k, ok |-> ok]
           r == Append(resp, a)
           wk2 == [wk EXCEPT ![w] = "ready"]
           jb2 == [jb EXCEPT ![w] = NoJob]
<1>1. /\ flight \subseteq Keys
      /\ queue \in Seq(Keys) /\ resp \in Seq(Answers)
      /\ Distinct(queue) /\ Once(resp)
      /\ \A x, y \in Workers : wk[x] = "busy" /\ wk[y] = "busy" /\ jb[x] = jb[y] => x = y
      /\ flight = InQueue(queue) \cup InWork(wk, jb) \cup InChannel(resp)
      /\ InQueue(queue) \cap InWork(wk, jb) = {}
      /\ InQueue(queue) \cap InChannel(resp) = {}
      /\ InWork(wk, jb) \cap InChannel(resp) = {}
  BY DEF Held
<1>2. k \in InWork(wk, jb)
  BY DEF InWork
<1>3. a \in Answers /\ a.key = k
  BY DEF Answers
<1> HIDE DEF a
<1>4. /\ r \in Seq(Answers) /\ Len(resp) \in Nat /\ Len(r) = Len(resp) + 1
      /\ \A i \in 1..Len(resp) : r[i] = resp[i] /\ i \in 1..Len(r)
      /\ r[Len(r)] = a /\ Len(r) \in 1..Len(r)
      /\ \A i \in 1..Len(r) : i \in 1..Len(resp) \/ i = Len(r)
  BY <1>1, <1>3
<1> HIDE DEF r
<1>5. InChannel(r) = InChannel(resp) \cup {k}
  <2>1. InChannel(resp) \cup {k} \subseteq InChannel(r)
    BY <1>3, <1>4 DEF InChannel
  <2>2. InChannel(r) \subseteq InChannel(resp) \cup {k}
    BY <1>3, <1>4 DEF InChannel
  <2>. QED BY <2>1, <2>2
<1>6. Once(r)
  <2>1. \A i \in 1..Len(resp) : resp[i].key # k
    BY <1>1, <1>2 DEF InChannel
  <2>. QED BY <1>1, <1>3, <1>4, <2>1 DEF Once
<1>7. \A x \in Workers : /\ wk2[x] = IF x = w THEN "ready" ELSE wk[x]
                         /\ x # w => jb2[x] = jb[x]
  OBVIOUS
<1> HIDE DEF wk2, jb2
<1>8. InWork(wk2, jb2) = InWork(wk, jb) \ {k}
  BY <1>1, <1>7 DEF InWork
<1>9. \A x, y \in Workers : wk2[x] = "busy" /\ wk2[y] = "busy" /\ jb2[x] = jb2[y] => x = y
  BY <1>1, <1>7
<1>10. Held(flight, queue, r, wk2, jb2)
  BY <1>1, <1>2, <1>4, <1>5, <1>6, <1>8, <1>9 DEF Held
<1>. QED BY <1>10 DEF r, a, wk2, jb2

-----------------------------------------------------------------------------
(* The inductive invariant                                                 *)

\* The TIFF cache is in order, and so is its pool, which is there while the output
\* draws from the cache or joins its threads.
NoPool ==
    /\ tile = NewTile /\ responses = <<>> /\ pending = <<>>
    /\ \A w \in Workers : worker[w] = "exited"

PoolOK ==
    /\ shutdown \in BOOLEAN /\ pending \in Seq(Keys) /\ responses \in Seq(Answers)
    /\ worker \in [Workers -> WorkerStates] /\ job \in [Workers -> Jobs]
    /\ \A w \in Workers : worker[w] = "busy" => job[w] \in Keys

TilesOK ==
    /\ TileIs(tile) /\ DrawnIsCached(tile) /\ tile.vram_bytes <= BudgetBytes
    /\ PoolOK
    /\ shutdown => "tile_chunks" \notin elements /\ pending = <<>>
    /\ ~shutdown => Apart(tile) /\ Held(tile.in_flight, pending, responses, worker, job)
    /\ ~shutdown /\ "tile_chunks" \notin elements => NoPool

BakesOK == BakedIs(baked) /\ BakedFits(baked) /\ bake_faults \in 0..MaxBakeFaults

\* What is on screen, and what is told of it: a shared shader that is the dot grid in
\* place of the shader that was asked for has been told, and live outputs draw it.
Entries == {"live", "tile", "wallpaper", "textured", "tile_chunks", "shader_chunks"}

ScreenOK ==
    /\ kind \in AllKinds
    /\ file \in Sources \cup {Unreadable}
    /\ elements = {} \/ \E e \in Entries : elements = {e}
    /\ program \in Programs /\ background_shader \in Programs
    /\ uses \subseteq Uniforms
    /\ error \in BOOLEAN
    /\ kind = "shader" /\ background_shader.dots => error
    /\ kind \in {"shader", "default"} /\ elements # {} =>
         elements = {"live"} /\ program = background_shader /\ background_shader # NoProgram

WorldOK ==
    /\ camera \in Views
    /\ fullscreen \in BOOLEAN /\ locked \in BOOLEAN /\ asleep \in BOOLEAN /\ dirty \in BOOLEAN

IInv == TilesOK /\ BakesOK /\ ScreenOK /\ WorldOK

LEMMA NoMeta == ASSUME NEW S PROVE <<>> \in Ages(S) /\ DOMAIN <<>> = {}
<1>1. <<>> \in [{} -> 0..MaxAge] /\ DOMAIN <<>> = {}
  BY EmptySeq, LenProperties
<1>. QED BY <1>1 DEF Ages

LEMMA NewCachesAre ==
    /\ TileIs(NewTile) /\ Apart(NewTile) /\ DrawnIsCached(NewTile)
    /\ NewTile.vram_bytes <= BudgetBytes /\ NewTile.in_flight = {}
    /\ BakedIs(NewBaked) /\ BakedFits(NewBaked)
<1>1. BytesOf({}, Bytes) = 0 /\ BytesOf({}, ChunkBytes) = 0
  BY FS_EmptySet, BytesRec
<1>2. NewTile.meta \in Ages(Keys) /\ DOMAIN NewTile.meta = {}
  BY NoMeta DEF NewTile
<1>3. NewTile \in TileRecords
  BY NoMeta DEF NewTile, TileRecords
<1>4. TileIs(NewTile)
  BY <1>1, <1>2, <1>3 DEF TileIs, NewTile
<1>5. Apart(NewTile) /\ DrawnIsCached(NewTile)
  BY DEF NewTile, Apart, DrawnIsCached
<1>6. NewTile.vram_bytes <= BudgetBytes /\ NewTile.in_flight = {}
  BY TileChunksAssumption DEF NewTile
<1>7. NewBaked \in BakedRecords
  BY NoMeta DEF NewBaked, BakedRecords
<1>8. BakedIs(NewBaked) /\ BakedFits(NewBaked)
  BY <1>1, <1>7, NoMeta, FS_EmptySet, ShaderChunksAssumption DEF NewBaked, BakedIs, BakedFits
<1>. QED BY <1>4, <1>5, <1>6, <1>8

\* A pool that was just spawned, or has ended, holds no request.
LEMMA NoneHeld ==
    ASSUME NEW wk, NEW jb, \A w \in Workers : wk[w] # "busy"
    PROVE  Held({}, <<>>, <<>>, wk, jb)
<1>1. <<>> \in Seq(Keys) /\ <<>> \in Seq(Answers) /\ Len(<<>>) = 0
  BY EmptySeq
<1>2. InQueue(<<>>) = {} /\ InChannel(<<>>) = {} /\ InWork(wk, jb) = {}
  BY <1>1 DEF InQueue, InChannel, InWork
<1>3. Distinct(<<>>) /\ Once(<<>>)
  BY <1>1 DEF Distinct, Once
<1>. QED BY <1>1, <1>2, <1>3 DEF Held

LEMMA TilesStay ==
    ASSUME TilesOK, UNCHANGED <<tile, pool>>,
           "tile_chunks" \in elements' <=> "tile_chunks" \in elements
    PROVE  TilesOK'
BY DEF TilesOK, PoolOK, NoPool, pool

LEMMA TakeIs ==
    ASSUME TilesOK, NEW w \in Workers, WorkerTake(w), elements' = elements
    PROVE  TilesOK'
<1>1. /\ worker[w] = "ready" /\ tile' = tile /\ shutdown' = shutdown /\ responses' = responses
      /\ PoolOK /\ TileIs(tile) /\ DrawnIsCached(tile) /\ tile.vram_bytes <= BudgetBytes
  BY DEF WorkerTake, TilesOK
<1>2. CASE shutdown
  <2>1. worker' = [worker EXCEPT ![w] = "exited"] /\ pending' = pending /\ job' = job
    BY <1>2 DEF WorkerTake
  <2>2. PoolOK'
    BY <1>1, <2>1 DEF PoolOK, WorkerStates
  <2>. QED BY <1>1, <1>2, <2>1, <2>2 DEF TilesOK
<1>3. CASE ~shutdown /\ pending # <<>>
  <2>1. /\ worker' = [worker EXCEPT ![w] = "busy"] /\ job' = [job EXCEPT ![w] = Head(pending)]
        /\ pending' = Tail(pending)
    BY <1>3 DEF WorkerTake
  <2>2. "tile_chunks" \in elements
    BY <1>1, <1>3 DEF TilesOK, NoPool
  <2>3. Apart(tile) /\ Held(tile.in_flight, pending, responses, worker, job)
    BY <1>3 DEF TilesOK
  <2>4. Held(tile'.in_flight, pending', responses', worker', job')
    BY <1>1, <1>3, <2>1, <2>3, HeldTake DEF PoolOK
  <2>5. Head(pending) \in Keys /\ Tail(pending) \in Seq(Keys)
    BY <1>1, <1>3, HeadTailProperties DEF PoolOK
  <2>6. PoolOK'
    <3>1. pending' \in Seq(Keys)
      BY <2>1, <2>5
    <3>2. worker' \in [Workers -> WorkerStates] /\ job' \in [Workers -> Jobs]
      BY <1>1, <2>1, <2>5 DEF PoolOK, WorkerStates, Jobs
    <3>3. \A x \in Workers : worker'[x] = "busy" => job'[x] \in Keys
      BY <1>1, <2>1, <2>5 DEF PoolOK
    <3>. QED BY <1>1, <3>1, <3>2, <3>3 DEF PoolOK
  <2>. QED BY <1>1, <1>3, <2>2, <2>3, <2>4, <2>6 DEF TilesOK
<1>4. CASE ~shutdown /\ pending = <<>>
  <2>1. worker' = [worker EXCEPT ![w] = "waiting"] /\ pending' = pending /\ job' = job
    BY <1>4 DEF WorkerTake
  <2>2. "tile_chunks" \in elements
    BY <1>1, <1>4 DEF TilesOK, NoPool
  <2>3. Apart(tile) /\ Held(tile.in_flight, pending, responses, worker, job)
    BY <1>4 DEF TilesOK
  <2>4. PoolOK' /\ \A x \in Workers : worker'[x] = "busy" <=> worker[x] = "busy"
    BY <1>1, <2>1 DEF PoolOK, WorkerStates
  <2>5. Held(tile'.in_flight, pending', responses', worker', job')
    BY <1>1, <2>1, <2>3, <2>4, HeldIdle
  <2>. QED BY <1>1, <1>4, <2>2, <2>3, <2>4, <2>5 DEF TilesOK
<1>. QED BY <1>1, <1>2, <1>3, <1>4 DEF PoolOK

LEMMA WakeupIs ==
    ASSUME TilesOK, NEW w \in Workers, SpuriousWakeup(w), elements' = elements
    PROVE  TilesOK'
<1>1. /\ worker[w] = "waiting" /\ worker' = [worker EXCEPT ![w] = "ready"]
      /\ tile' = tile /\ shutdown' = shutdown /\ responses' = responses
      /\ pending' = pending /\ job' = job
      /\ PoolOK /\ TileIs(tile) /\ DrawnIsCached(tile) /\ tile.vram_bytes <= BudgetBytes
  BY DEF SpuriousWakeup, TilesOK
<1>2. PoolOK' /\ \A x \in Workers : worker'[x] = "busy" <=> worker[x] = "busy"
  BY <1>1 DEF PoolOK, WorkerStates
<1>3. CASE shutdown
  BY <1>1, <1>2, <1>3 DEF TilesOK
<1>4. CASE ~shutdown
  <2>1. "tile_chunks" \in elements
    BY <1>1, <1>4 DEF TilesOK, NoPool
  <2>2. Apart(tile) /\ Held(tile.in_flight, pending, responses, worker, job)
    BY <1>4 DEF TilesOK
  <2>3. Held(tile'.in_flight, pending', responses', worker', job')
    BY <1>1, <1>2, <2>2, HeldIdle
  <2>. QED BY <1>1, <1>2, <1>4, <2>1, <2>2, <2>3 DEF TilesOK
<1>. QED BY <1>3, <1>4

LEMMA AnswerIs ==
    ASSUME TilesOK, NEW w \in Workers, WorkerAnswer(w), elements' = elements
    PROVE  TilesOK'
<1>1. /\ worker[w] = "busy" /\ worker' = [worker EXCEPT ![w] = "ready"]
      /\ job' = [job EXCEPT ![w] = NoJob]
      /\ tile' = tile /\ shutdown' = shutdown /\ pending' = pending
      /\ PoolOK /\ TileIs(tile) /\ DrawnIsCached(tile) /\ tile.vram_bytes <= BudgetBytes
  BY DEF WorkerAnswer, TilesOK
<1>2. job[w] \in Keys
  BY <1>1 DEF PoolOK
<1>3. PICK ok \in BOOLEAN : responses' = Append(responses, [key |-> job[w], ok |-> ok])
  BY DEF WorkerAnswer
<1>4. PoolOK'
  <2>1. responses' \in Seq(Answers)
    <3>1. [key |-> job[w], ok |-> ok] \in Answers
      BY <1>2 DEF Answers
    <3>. QED BY <1>1, <1>3, <3>1 DEF PoolOK
  <2>2. worker' \in [Workers -> WorkerStates] /\ job' \in [Workers -> Jobs]
    BY <1>1 DEF PoolOK, WorkerStates, Jobs
  <2>3. \A x \in Workers : worker'[x] = "busy" => job'[x] \in Keys
    BY <1>1 DEF PoolOK
  <2>. QED BY <1>1, <2>1, <2>2, <2>3 DEF PoolOK
<1>5. CASE shutdown
  BY <1>1, <1>4, <1>5 DEF TilesOK
<1>6. CASE ~shutdown
  <2>1. "tile_chunks" \in elements
    BY <1>1, <1>6 DEF TilesOK, NoPool
  <2>2. Apart(tile) /\ Held(tile.in_flight, pending, responses, worker, job)
    BY <1>6 DEF TilesOK
  <2>3. Held(tile'.in_flight, pending', responses', worker', job')
    BY <1>1, <1>2, <1>3, <2>2, HeldAnswer DEF PoolOK
  <2>. QED BY <1>1, <1>4, <1>6, <2>1, <2>2, <2>3 DEF TilesOK
<1>. QED BY <1>5, <1>6

LEMMA JoinIs ==
    ASSUME TilesOK, JoinPool, elements' = elements
    PROVE  TilesOK'
<1>1. /\ shutdown /\ shutdown' = FALSE /\ responses' = <<>> /\ tile' = NewTile
      /\ pending' = pending /\ worker' = worker /\ job' = job
      /\ \A w \in Workers : worker[w] = "exited"
  BY DEF JoinPool
<1>2. PoolOK /\ pending = <<>> /\ "tile_chunks" \notin elements
  BY <1>1 DEF TilesOK
<1>3. PoolOK'
  BY <1>1, <1>2, EmptySeq DEF PoolOK
<1>4. Held(tile'.in_flight, pending', responses', worker', job')
  BY <1>1, <1>2, NewCachesAre, NoneHeld
<1>5. NoPool'
  BY <1>1, <1>2 DEF NoPool
<1>6. /\ TileIs(tile') /\ Apart(tile') /\ DrawnIsCached(tile')
      /\ tile'.vram_bytes <= BudgetBytes
  BY <1>1, NewCachesAre
<1>. QED BY <1>1, <1>3, <1>4, <1>5, <1>6 DEF TilesOK

\* The caches are dropped: the TIFF cache until its threads are joined.
LEMMA DropIs ==
    ASSUME TilesOK, BakesOK, ~shutdown, DropChunks, "tile_chunks" \notin elements'
    PROVE  TilesOK' /\ BakesOK'
<1>1. BakesOK'
  BY NewCachesAre DEF BakesOK, DropChunks
<1>2. CASE "tile_chunks" \in elements
  <2>1. /\ shutdown' = TRUE /\ pending' = <<>> /\ tile' = tile /\ responses' = responses
        /\ job' = job
        /\ worker' = [w \in Workers |-> IF worker[w] = "waiting" THEN "ready" ELSE worker[w]]
    BY <1>2 DEF DropChunks, DropPool
  <2>2. PoolOK'
    BY <2>1, EmptySeq DEF TilesOK, PoolOK, WorkerStates
  <2>. QED BY <1>1, <2>1, <2>2 DEF TilesOK
<1>3. CASE "tile_chunks" \notin elements
  <2>1. UNCHANGED <<tile, pool>>
    BY <1>3 DEF DropChunks
  <2>. QED BY <1>1, <1>3, <2>1, TilesStay
<1>. QED BY <1>1, <1>2, <1>3

LEMMA DrawTilesIs ==
    ASSUME TilesOK, camera \in Views, ~shutdown, "tile_chunks" \in elements,
           "tile_chunks" \in elements', TileFrame(tile, pending, responses, worker, camera)
    PROVE  TilesOK'
<1>1. /\ TileIs(tile) /\ Apart(tile) /\ worker \in [Workers -> WorkerStates]
      /\ Held(tile.in_flight, pending, responses, worker, job) /\ PoolOK
  BY DEF TilesOK, PoolOK
<1>2. /\ TileIs(tile') /\ Apart(tile') /\ DrawnIsCached(tile')
      /\ tile'.vram_bytes <= BudgetBytes
      /\ worker' \in [Workers -> WorkerStates]
      /\ \A w \in Workers : worker'[w] = "busy" <=> worker[w] = "busy"
      /\ Held(tile'.in_flight, pending', responses', worker', job)
      /\ shutdown' = shutdown /\ job' = job
  BY <1>1, TileFrameIs
<1>3. PoolOK'
  BY <1>1, <1>2 DEF PoolOK, Held
<1>. QED BY <1>2, <1>3 DEF TilesOK

\* The first frame of a cache: there is no pool yet.
LEMMA NewTilesIs ==
    ASSUME TilesOK, camera \in Views, ~shutdown, "tile_chunks" \notin elements,
           "tile_chunks" \in elements', TileFrame(NewTile, <<>>, <<>>, Spawned, camera)
    PROVE  TilesOK'
<1>1. /\ TileIs(NewTile) /\ Apart(NewTile) /\ Spawned \in [Workers -> WorkerStates]
      /\ \A w \in Workers : Spawned[w] # "busy"
      /\ PoolOK
  BY NewCachesAre DEF Spawned, WorkerStates, TilesOK
<1>2. Held(NewTile.in_flight, <<>>, <<>>, Spawned, job)
  <2>1. Held({}, <<>>, <<>>, Spawned, job)
    BY <1>1, NoneHeld
  <2>. QED BY <2>1, NewCachesAre
<1>3. /\ TileIs(tile') /\ Apart(tile') /\ DrawnIsCached(tile')
      /\ tile'.vram_bytes <= BudgetBytes
      /\ worker' \in [Workers -> WorkerStates]
      /\ \A w \in Workers : worker'[w] = "busy" <=> Spawned[w] = "busy"
      /\ Held(tile'.in_flight, pending', responses', worker', job)
      /\ shutdown' = shutdown /\ job' = job
  <2> DEFINE c == NewTile
             q == <<>>
  <2>1. TileIs(c) /\ Apart(c) /\ Held(c.in_flight, q, q, Spawned, job)
        /\ TileFrame(c, q, q, Spawned, camera)
    BY <1>1, <1>2
  <2> HIDE DEF c, q
  <2>. QED BY <1>1, <2>1, TileFrameIs
<1>4. PoolOK'
  BY <1>1, <1>3 DEF PoolOK, Held
<1>. QED BY <1>3, <1>4 DEF TilesOK

-----------------------------------------------------------------------------
(* What an initialisation makes, and what is told of it                    *)

Verdicts == {"none", "ok", "err"}

MadeOK(m) ==
    /\ m.entry \in Entries /\ m.program \in Programs /\ m.shader \in Programs
    /\ m.flags \subseteq Uniforms /\ m.verdict \in Verdicts

LEMMA ProgramsAre ==
    /\ DotGrid \in Programs /\ DotGrid.uses \subseteq Uniforms /\ DotGrid.dots
    /\ NoProgram \in Programs /\ ~NoProgram.dots
    /\ \A src \in Sources : /\ Program(src) \in Programs /\ ~Program(src).dots
                            /\ src.uses \subseteq Uniforms
                            /\ Program(src) # NoProgram
    /\ DotGrid # NoProgram
<1>1. \A src \in Sources : src.uses \subseteq Uniforms
  BY BackgroundAssumption
<1>2. ASSUME NEW src \in Sources PROVE Program(src) # NoProgram
  <2>1. "none" \in DOMAIN NoProgram
    BY DEF NoProgram
  <2>2. "none" \notin DOMAIN Program(src)
    BY DEF Program
  <2>. QED BY <2>1, <2>2
<1>3. DotGrid # NoProgram
  BY DEF DotGrid, NoProgram
<1>. QED BY <1>1, <1>2, <1>3 DEF Programs, DotGrid, NoProgram, Program, Uniforms

\* m is the live background, drawn with the shared shader there is or with a new one.
Live(m) ==
    /\ m.entry = "live" /\ m.program = m.shader /\ m.shader # NoProgram
    /\ background_shader # NoProgram => m.shader = background_shader

\* The shader path draws a dot grid only when it says so, or when the outputs share one.
LEMMA InitShaderIs ==
    ASSUME ScreenOK
    PROVE  /\ MadeOK(InitShaderBg) /\ Live(InitShaderBg)
           /\ kind = "shader" /\ InitShaderBg.shader.dots =>
                \/ InitShaderBg.verdict = "err"
                \/ InitShaderBg.verdict = "none" /\ background_shader.dots
<1> USE DEF ScreenOK, MadeOK, Live, Made, Entries, Verdicts
<1>1. CASE background_shader # NoProgram
  <2>1. InitShaderBg = Made("live", background_shader, background_shader, uses, "none")
    BY <1>1 DEF InitShaderBg
  <2>. QED BY <1>1, <2>1
<1>2. CASE background_shader = NoProgram
            /\ (kind \notin {"shader", "cached_shader", "textured"} \/ file = Unreadable)
  <2>1. InitShaderBg = Made("live", DotGrid, DotGrid, DotGrid.uses,
              IF kind \in {"shader", "cached_shader", "textured"} THEN "err" ELSE "ok")
    BY <1>2 DEF InitShaderBg
  <2>. QED BY <1>2, <2>1, ProgramsAre
<1>3. CASE background_shader = NoProgram /\ kind \in {"shader", "cached_shader", "textured"}
            /\ file # Unreadable /\ file.compiles
  <2>1. InitShaderBg = Made("live", Program(file), Program(file), file.uses, "ok")
    BY <1>3 DEF InitShaderBg
  <2>2. file \in Sources
    BY <1>3
  <2>3. /\ Program(file) \in Programs /\ ~Program(file).dots /\ Program(file) # NoProgram
        /\ file.uses \subseteq Uniforms
    BY <2>2, ProgramsAre
  <2>. QED BY <1>3, <2>1, <2>3
<1>4. CASE background_shader = NoProgram /\ kind \in {"shader", "cached_shader", "textured"}
            /\ file # Unreadable /\ ~file.compiles
  <2>1. InitShaderBg = Made("live", DotGrid, DotGrid, file.uses, "err")
    BY <1>4 DEF InitShaderBg
  <2>2. file \in Sources
    BY <1>4
  <2>3. file.uses \subseteq Uniforms
    BY <2>2, ProgramsAre
  <2>. QED BY <1>4, <2>1, <2>3, ProgramsAre
<1>. QED BY <1>1, <1>2, <1>3, <1>4

LEMMA InitDefaultIs ==
    ASSUME ScreenOK
    PROVE  MadeOK(InitDefaultShaderBg) /\ Live(InitDefaultShaderBg)
BY ProgramsAre DEF InitDefaultShaderBg, ScreenOK, MadeOK, Live, Made, Entries, Verdicts

LEMMA WithVerdictIs ==
    ASSUME NEW m \in {InitShaderBg, InitDefaultShaderBg}, MadeOK(m)
    PROVE  /\ MadeOK(WithVerdict(m, "err")) /\ WithVerdict(m, "err").verdict = "err"
           /\ Live(m) => Live(WithVerdict(m, "err"))
BY DEF WithVerdict, MadeOK, Live, Verdicts, InitShaderBg, InitDefaultShaderBg, Made

\* m is the background that the config asks for; cached_shader has no such promise.
Asked(m) ==
    /\ kind = "tiff"      => m.entry = "tile_chunks"
    /\ kind = "tile"      => m.entry = "tile"
    /\ kind = "wallpaper" => m.entry = "wallpaper"
    /\ kind = "textured"  => m.entry = "textured"
    /\ kind = "default"   => m.entry = "live"
    /\ kind = "shader"    => m.entry = "live" /\ ~m.program.dots

\* What is not as asked is told now, or was told when the shared shader was compiled.
Honest(m) ==
    /\ kind = "shader" /\ m.shader.dots =>
         m.verdict = "err" \/ (m.verdict = "none" /\ background_shader.dots)
    /\ kind # "cached_shader" /\ m.verdict # "err" =>
         Asked(m) \/ (kind = "shader" /\ m.verdict = "none" /\ background_shader.dots)

LEMMA ShaderPathIs ==
    ASSUME ScreenOK, kind \in {"default", "shader"}
    PROVE  MadeOK(InitShaderBg) /\ Honest(InitShaderBg) /\ Live(InitShaderBg)
<1>1. MadeOK(InitShaderBg)
  BY InitShaderIs
<1>2. Live(InitShaderBg)
  BY InitShaderIs
<1>3. kind = "shader" /\ InitShaderBg.shader.dots =>
        \/ InitShaderBg.verdict = "err"
        \/ InitShaderBg.verdict = "none" /\ background_shader.dots
  BY InitShaderIs
<1> DEFINE m == InitShaderBg
<1>4. /\ m.entry = "live" /\ m.program = m.shader
      /\ kind = "shader" /\ m.shader.dots =>
           \/ m.verdict = "err"
           \/ m.verdict = "none" /\ background_shader.dots
  BY <1>2, <1>3 DEF Live
<1> HIDE DEF m
<1>5. Honest(m)
  BY <1>4 DEF Honest, Asked
<1>. QED BY <1>1, <1>2, <1>5 DEF m

\* With an error told, anything may be shown.
LEMMA ErrorIs ==
    ASSUME ScreenOK
    PROVE  /\ MadeOK(WithVerdict(InitShaderBg, "err")) /\ Honest(WithVerdict(InitShaderBg, "err"))
           /\ MadeOK(WithVerdict(InitDefaultShaderBg, "err"))
           /\ Honest(WithVerdict(InitDefaultShaderBg, "err"))
           /\ Live(WithVerdict(InitDefaultShaderBg, "err"))
           /\ WithVerdict(InitShaderBg, "err").verdict = "err"
           /\ WithVerdict(InitDefaultShaderBg, "err").verdict = "err"
<1>1. /\ MadeOK(WithVerdict(InitShaderBg, "err"))
      /\ WithVerdict(InitShaderBg, "err").verdict = "err"
  BY InitShaderIs, WithVerdictIs
<1>2. /\ MadeOK(WithVerdict(InitDefaultShaderBg, "err"))
      /\ WithVerdict(InitDefaultShaderBg, "err").verdict = "err"
      /\ Live(WithVerdict(InitDefaultShaderBg, "err"))
  BY InitDefaultIs, WithVerdictIs
<1>. QED BY <1>1, <1>2 DEF Honest

LEMMA ImageIsMade ==
    ASSUME ScreenOK, NEW entry \in {"tile_chunks", "tile", "wallpaper"}, NEW ok \in BOOLEAN,
           kind = IF entry = "tile_chunks" THEN "tiff" ELSE entry
    PROVE  MadeOK(InitImageBg(entry, ok)) /\ Honest(InitImageBg(entry, ok))
<1>1. CASE ok
  <2> DEFINE m == Made(entry, NoProgram, background_shader, {}, "ok")
  <2>1. InitImageBg(entry, ok) = m
    BY <1>1 DEF InitImageBg
  <2>2. /\ m.entry = entry /\ m.program = NoProgram /\ m.shader = background_shader
        /\ m.flags = {} /\ m.verdict = "ok"
    BY DEF Made
  <2> HIDE DEF m
  <2>3. MadeOK(m)
    BY <2>2, ProgramsAre DEF MadeOK, Entries, Verdicts, ScreenOK
  <2>4. Honest(m)
    BY <2>2 DEF Honest, Asked
  <2>. QED BY <2>1, <2>3, <2>4
<1>2. CASE ~ok
  BY <1>2, ErrorIs DEF InitImageBg
<1>. QED BY <1>1, <1>2

LEMMA TexturedIsMade ==
    ASSUME ScreenOK, NEW ok \in BOOLEAN, kind = "textured"
    PROVE  MadeOK(InitTexturedBg(ok)) /\ Honest(InitTexturedBg(ok))
<1>1. CASE ok /\ file # Unreadable /\ file.compiles
  <2> DEFINE m == Made("textured", NoProgram, background_shader, file.uses, "ok")
  <2>1. InitTexturedBg(ok) = m
    BY <1>1 DEF InitTexturedBg
  <2>2. /\ m.entry = "textured" /\ m.program = NoProgram /\ m.shader = background_shader
        /\ m.flags = file.uses /\ m.verdict = "ok"
    BY DEF Made
  <2> HIDE DEF m
  <2>3. file.uses \subseteq Uniforms
    BY <1>1, ProgramsAre DEF ScreenOK
  <2>4. MadeOK(m)
    BY <2>2, <2>3, ProgramsAre DEF MadeOK, Entries, Verdicts, ScreenOK
  <2>5. Honest(m)
    BY <2>2 DEF Honest, Asked
  <2>. QED BY <2>1, <2>4, <2>5
<1>2. CASE ~(ok /\ file # Unreadable /\ file.compiles)
  BY <1>2, ErrorIs DEF InitTexturedBg
<1>. QED BY <1>1, <1>2

\* Baked chunks.
LEMMA BakedIsMade ==
    ASSUME ScreenOK, kind = "cached_shader"
    PROVE  MadeOK(ShaderChunksOrLive) /\ Honest(ShaderChunksOrLive)
<1>1. MadeOK(InitShaderBg)
  BY InitShaderIs
<1>2. CASE file = Unreadable
  BY <1>2, ErrorIs DEF ShaderChunksOrLive
<1>3. CASE file # Unreadable /\ ~Bakeable
  <2>1. ShaderChunksOrLive = InitShaderBg
    BY <1>3 DEF ShaderChunksOrLive
  <2> DEFINE m == InitShaderBg
  <2> HIDE DEF m
  <2>2. Honest(m)
    BY DEF Honest
  <2>. QED BY <1>1, <2>1, <2>2 DEF m
<1>4. CASE file # Unreadable /\ Bakeable /\ background_shader # NoProgram
  <2> DEFINE m == Made("shader_chunks", background_shader, background_shader, {}, "ok")
  <2>1. ShaderChunksOrLive = m
    BY <1>4 DEF ShaderChunksOrLive
  <2>2. MadeOK(m)
    BY DEF MadeOK, Made, Entries, Verdicts, ScreenOK
  <2> HIDE DEF m
  <2>3. Honest(m)
    BY DEF Honest
  <2>. QED BY <2>1, <2>2, <2>3
<1>5. CASE file # Unreadable /\ Bakeable /\ background_shader = NoProgram /\ file.compiles
  <2> DEFINE m == Made("shader_chunks", Program(file), Program(file), {}, "ok")
  <2>1. ShaderChunksOrLive = m
    BY <1>5 DEF ShaderChunksOrLive
  <2>2. Program(file) \in Programs
    BY <1>5, ProgramsAre DEF ScreenOK
  <2>3. MadeOK(m)
    BY <2>2 DEF MadeOK, Made, Entries, Verdicts
  <2> HIDE DEF m
  <2>4. Honest(m)
    BY DEF Honest
  <2>. QED BY <2>1, <2>3, <2>4
<1>6. CASE file # Unreadable /\ Bakeable /\ background_shader = NoProgram /\ ~file.compiles
  BY <1>6, ErrorIs DEF ShaderChunksOrLive
<1>. QED BY <1>2, <1>3, <1>4, <1>5, <1>6

LEMMA InitBackgroundIs ==
    ASSUME ScreenOK, NEW ok \in BOOLEAN
    PROVE  /\ MadeOK(InitBackground(ok)) /\ Honest(InitBackground(ok))
           /\ kind \in {"shader", "default"} => Live(InitBackground(ok))
<1>1. kind \in {"default", "tiff", "tile", "wallpaper", "shader", "cached_shader", "textured"}
  BY DEF ScreenOK, AllKinds
<1>2. CASE kind = "tiff"
  BY <1>2, ImageIsMade DEF InitBackground
<1>3. CASE kind = "tile"
  BY <1>3, ImageIsMade DEF InitBackground
<1>4. CASE kind = "wallpaper"
  BY <1>4, ImageIsMade DEF InitBackground
<1>5. CASE kind = "textured"
  BY <1>5, TexturedIsMade DEF InitBackground
<1>6. CASE kind = "default"
  BY <1>6, ShaderPathIs DEF InitBackground
<1>7. CASE kind = "shader"
  <2>1. InitBackground(ok) = ShaderNoTexture
    BY <1>7 DEF InitBackground
  <2>. QED BY <1>7, <2>1, ErrorIs, ShaderPathIs DEF ShaderNoTexture
<1>8. CASE kind = "cached_shader"
  <2>1. InitBackground(ok) = ShaderNoTexture
    BY <1>8 DEF InitBackground
  <2>. QED BY <1>8, <2>1, ErrorIs, BakedIsMade DEF ShaderNoTexture
<1>. QED BY <1>1, <1>2, <1>3, <1>4, <1>5, <1>6, <1>7, <1>8

\* An image that an output cannot have is told.
LEMMA FailedImageIs ==
    ASSUME ScreenOK, kind \in Images
    PROVE  InitBackground(FALSE).verdict = "err"
<1>1. CASE kind \in {"tiff", "tile", "wallpaper"}
  <2>1. InitBackground(FALSE) = WithVerdict(InitShaderBg, "err")
    BY <1>1 DEF InitBackground, InitImageBg
  <2>. QED BY <2>1, ErrorIs
<1>2. CASE kind = "textured"
  <2>1. InitBackground(FALSE) = WithVerdict(InitDefaultShaderBg, "err")
    BY <1>2 DEF InitBackground, InitTexturedBg
  <2>. QED BY <2>1, ErrorIs
<1>. QED BY <1>1, <1>2 DEF Images

LEMMA DirtyIs ==
    ASSUME NEW verdict, NEW before \in BOOLEAN, error \in BOOLEAN
    PROVE  DirtyAfter(verdict, before) \subseteq BOOLEAN
BY DEF DirtyAfter

-----------------------------------------------------------------------------
(* Every step keeps the invariant                                          *)

LEMMA ScreenStays ==
    ASSUME ScreenOK, UNCHANGED screen
    PROVE  ScreenOK'
BY DEF ScreenOK, screen

\* A background that is dropped shows nothing that could go untold.
LEMMA ScreenIsCleared ==
    ASSUME ScreenOK, kind' \in AllKinds, file' = file, elements' = {}, program' = NoProgram,
           uses' \subseteq Uniforms, error' = error,
           \/ background_shader' = NoProgram
           \/ background_shader' = background_shader /\ kind' = kind
    PROVE  ScreenOK'
<1>1. background_shader' \in Programs
  BY ProgramsAre DEF ScreenOK
<1>2. kind' = "shader" /\ background_shader'.dots => error'
  BY ProgramsAre DEF ScreenOK
<1>. QED BY <1>1, <1>2, ProgramsAre DEF ScreenOK

LEMMA InitFrameIs ==
    ASSUME TilesOK, BakesOK, ScreenOK, camera \in Views, ~shutdown,
           NEW ok \in BOOLEAN, InitFrame(ok)
    PROVE  /\ TilesOK' /\ BakesOK' /\ ScreenOK' /\ dirty' \in BOOLEAN
           /\ kind' # "cached_shader" => FallbackIsReported'
<1> DEFINE m == InitBackground(ok)
<1>1. /\ elements = {} /\ elements' = {m.entry} /\ program' = m.program
      /\ background_shader' = m.shader /\ uses' = m.flags
      /\ error' = Told(m.verdict, error) /\ kind' = kind /\ file' = file
      /\ dirty' \in DirtyAfter(m.verdict, FALSE)
      /\ IF m.entry = "tile_chunks" THEN TileFrame(NewTile, <<>>, <<>>, Spawned, camera)
         ELSE UNCHANGED <<tile, pool>>
      /\ IF m.entry = "shader_chunks" THEN BakeFrame(NewBaked, camera)
         ELSE UNCHANGED <<baked, bake_faults>>
  BY DEF InitFrame
<1>2. MadeOK(m) /\ Honest(m) /\ (kind \in {"shader", "default"} => Live(m))
  BY InitBackgroundIs
<1> HIDE DEF m
<1>3. TilesOK'
  <2>1. CASE m.entry = "tile_chunks"
    BY <1>1, <2>1, NewTilesIs
  <2>2. CASE m.entry # "tile_chunks"
    BY <1>1, <2>2, TilesStay
  <2>. QED BY <2>1, <2>2
<1>4. BakesOK'
  <2>1. CASE m.entry = "shader_chunks"
    <3> DEFINE c == NewBaked
    <3>1. BakedIs(c) /\ bake_faults \in 0..MaxBakeFaults /\ BakeFrame(c, camera)
      BY <1>1, <2>1, NewCachesAre DEF BakesOK
    <3> HIDE DEF c
    <3>. QED BY <3>1, BakeFrameIs DEF BakesOK
  <2>2. CASE m.entry # "shader_chunks"
    BY <1>1, <2>2 DEF BakesOK
  <2>. QED BY <2>1, <2>2
<1>5. error' \in BOOLEAN /\ (m.verdict = "err" => error') /\ (m.verdict = "none" => error' = error)
  BY <1>1, <1>2 DEF Told, ScreenOK
<1>6. kind = "shader" /\ background_shader'.dots => error'
  BY <1>1, <1>2, <1>5 DEF Honest, ScreenOK
<1>7. kind' # "cached_shader" => FallbackIsReported'
  <2> SUFFICES ASSUME kind # "cached_shader", ~error' PROVE AsAsked'
    BY <1>1 DEF FallbackIsReported
  <2>1. Asked(m)
    BY <1>2, <1>5 DEF Honest, ScreenOK
  <2>2. kind \in AllKinds
    BY DEF ScreenOK
  <2>. QED BY <1>1, <2>1, <2>2 DEF Asked, AsAsked, AllKinds
<1>8. ScreenOK'
  <2>1. \E e \in Entries : elements' = {e}
    BY <1>1, <1>2 DEF MadeOK
  <2>2. /\ kind' \in AllKinds /\ file' \in Sources \cup {Unreadable}
        /\ program' \in Programs /\ background_shader' \in Programs /\ uses' \subseteq Uniforms
    BY <1>1, <1>2 DEF MadeOK, ScreenOK
  <2>3. kind' \in {"shader", "default"} =>
          /\ elements' = {"live"} /\ program' = background_shader'
          /\ background_shader' # NoProgram
    BY <1>1, <1>2 DEF Live
  <2>. QED BY <1>1, <1>5, <1>6, <2>1, <2>2, <2>3 DEF ScreenOK
<1>9. dirty' \in BOOLEAN
  BY <1>1, DirtyIs DEF ScreenOK
<1>. QED BY <1>3, <1>4, <1>7, <1>8, <1>9

\* Another output: this one keeps its background, and draws the shared shader it drew.
LEMMA OtherOutputIs ==
    ASSUME IInv, NEW ok \in BOOLEAN, OtherOutput(ok)
    PROVE  IInv'
<1> DEFINE m == InitBackground(ok)
<1>1. /\ background_shader' = m.shader /\ uses' = m.flags /\ error' = Told(m.verdict, error)
      /\ dirty' \in DirtyAfter(m.verdict, dirty) /\ UNCHANGED caches
      /\ kind' = kind /\ file' = file /\ elements' = elements /\ program' = program
      /\ camera' = camera /\ fullscreen' = fullscreen /\ locked' = locked /\ asleep' = asleep
  BY DEF OtherOutput
<1>2. TilesOK /\ BakesOK /\ ScreenOK /\ WorldOK
  BY DEF IInv
<1>3. MadeOK(m) /\ Honest(m) /\ (kind \in {"shader", "default"} => Live(m))
  BY <1>2, InitBackgroundIs
<1> HIDE DEF m
<1>4. error' \in BOOLEAN /\ (m.verdict = "err" => error') /\ (m.verdict = "none" => error' = error)
  BY <1>1, <1>2, <1>3 DEF Told, ScreenOK
<1>5. kind = "shader" /\ background_shader'.dots => error'
  BY <1>1, <1>2, <1>3, <1>4 DEF Honest, ScreenOK
<1>6. ScreenOK'
  <2>1. background_shader' \in Programs /\ uses' \subseteq Uniforms
    BY <1>1, <1>3 DEF MadeOK
  <2>2. kind \in {"shader", "default"} /\ elements # {} =>
          /\ elements = {"live"} /\ program = background_shader'
          /\ background_shader' # NoProgram
    BY <1>1, <1>2, <1>3 DEF Live, ScreenOK
  <2>. QED BY <1>1, <1>2, <1>4, <1>5, <2>1, <2>2 DEF ScreenOK
<1>7. WorldOK'
  <2>1. dirty' \in BOOLEAN
    BY <1>1, <1>2, DirtyIs DEF ScreenOK, WorldOK
  <2>. QED BY <1>1, <1>2, <2>1 DEF WorldOK
<1>8. TilesOK' /\ BakesOK'
  BY <1>1, <1>2, TilesStay DEF caches, BakesOK
<1>. QED BY <1>6, <1>7, <1>8 DEF IInv

LEMMA FullscreenIs ==
    ASSUME TilesOK, BakesOK, ScreenOK, ~shutdown, FullscreenFrame
    PROVE  TilesOK' /\ BakesOK' /\ ScreenOK'
<1>1. /\ DropChunks /\ elements' = elements \ {"tile_chunks", "shader_chunks"}
      /\ program' = IF "shader_chunks" \in elements THEN NoProgram ELSE program
      /\ kind' = kind /\ file' = file /\ background_shader' = background_shader
      /\ uses' = uses /\ error' = error
  BY DEF FullscreenFrame
<1>2. TilesOK' /\ BakesOK'
  BY <1>1, DropIs
<1>3. \/ elements' = elements /\ program' = program
      \/ elements' = {}
  BY <1>1 DEF ScreenOK
<1>4. ScreenOK'
  <2>1. CASE elements' = elements /\ program' = program
    BY <1>1, <2>1, ScreenStays DEF screen
  <2>2. CASE elements' = {}
    <3>1. program' \in Programs
      BY <1>1, ProgramsAre DEF ScreenOK
    <3>. QED BY <1>1, <2>2, <3>1 DEF ScreenOK
  <2>. QED BY <1>3, <2>1, <2>2
<1>. QED BY <1>2, <1>4

LEMMA DrawIs ==
    ASSUME TilesOK, BakesOK, ScreenOK, camera \in Views, ~shutdown, DrawFrame
    PROVE  TilesOK' /\ BakesOK' /\ ScreenOK'
<1>1. UNCHANGED screen /\ elements' = elements
  BY DEF DrawFrame, screen
<1>2. ScreenOK'
  BY <1>1, ScreenStays
<1>3. CASE "shader_chunks" \in elements
  <2>. "tile_chunks" \notin elements
    BY <1>3 DEF ScreenOK
  <2>1. BakeFrame(baked, camera) /\ UNCHANGED <<tile, pool>>
    BY <1>3 DEF DrawFrame
  <2>2. TilesOK'
    BY <1>1, <2>1, TilesStay
  <2>3. BakesOK'
    BY <2>1, BakeFrameIs DEF BakesOK
  <2>. QED BY <1>2, <2>2, <2>3
<1>4. CASE "shader_chunks" \notin elements /\ "tile_chunks" \in elements
  <2>1. TileFrame(tile, pending, responses, worker, camera) /\ UNCHANGED <<baked, bake_faults>>
    BY <1>4 DEF DrawFrame
  <2>2. TilesOK'
    BY <1>1, <1>4, <2>1, DrawTilesIs
  <2>3. BakesOK'
    BY <2>1 DEF BakesOK
  <2>. QED BY <1>2, <2>2, <2>3
<1>5. CASE "shader_chunks" \notin elements /\ "tile_chunks" \notin elements
  <2>1. UNCHANGED caches
    BY <1>5 DEF DrawFrame
  <2>2. TilesOK' /\ BakesOK'
    BY <1>1, <2>1, TilesStay DEF caches, BakesOK
  <2>. QED BY <1>2, <2>2
<1>. QED BY <1>3, <1>4, <1>5

\* The caches stay while the screen does, or at least what it draws from.
LEMMA CachesStay ==
    ASSUME TilesOK, BakesOK, UNCHANGED caches, elements' = elements
    PROVE  TilesOK' /\ BakesOK'
BY TilesStay DEF caches, BakesOK

LEMMA FrameIs ==
    ASSUME IInv, Frame
    PROVE  IInv'
<1>1. TilesOK /\ BakesOK /\ ScreenOK /\ WorldOK /\ camera \in Views /\ ~shutdown
  BY DEF IInv, WorldOK, Frame, Joining
<1>2. /\ camera' = camera /\ fullscreen' = fullscreen /\ locked' = locked /\ asleep' = asleep
      /\ \/ locked /\ dirty' = FALSE /\ UNCHANGED <<screen, caches>>
         \/ ~locked /\ fullscreen /\ dirty' = FALSE /\ FullscreenFrame
         \/ ~locked /\ ~fullscreen /\ dirty' = FALSE /\ DrawFrame
         \/ ~locked /\ ~fullscreen /\ \E ok \in BOOLEAN : InitFrame(ok)
  BY DEF Frame
<1>3. dirty' \in BOOLEAN => WorldOK'
  BY <1>1, <1>2 DEF WorldOK
<1>4. CASE dirty' = FALSE /\ UNCHANGED <<screen, caches>>
  <2>1. elements' = elements /\ UNCHANGED screen /\ UNCHANGED caches
    BY <1>4 DEF screen
  <2>. QED BY <1>1, <1>3, <1>4, <2>1, ScreenStays, CachesStay DEF IInv
<1>5. CASE dirty' = FALSE /\ FullscreenFrame
  BY <1>1, <1>3, <1>5, FullscreenIs DEF IInv
<1>6. CASE dirty' = FALSE /\ DrawFrame
  BY <1>1, <1>3, <1>6, DrawIs DEF IInv
<1>7. CASE \E ok \in BOOLEAN : InitFrame(ok)
  BY <1>1, <1>3, <1>7, InitFrameIs DEF IInv
<1>. QED BY <1>2, <1>4, <1>5, <1>6, <1>7

LEMMA WorkingsAre ==
    ASSUME IInv, Workings
    PROVE  IInv'
<1>1. TilesOK /\ BakesOK /\ ScreenOK /\ WorldOK
  BY DEF IInv
<1>2. elements' = elements /\ UNCHANGED screen
  BY DEF Workings, screen
<1>3. ScreenOK'
  BY <1>1, <1>2, ScreenStays
<1>4. BakesOK' /\ WorldOK'
  BY <1>1 DEF Workings, world, BakesOK, WorldOK
<1>5. TilesOK'
  <2>1. WorkerStep \/ JoinPool
    BY DEF Workings
  <2>2. CASE WorkerStep
    BY <1>1, <1>2, <2>2, TakeIs, WakeupIs, AnswerIs DEF WorkerStep
  <2>3. CASE JoinPool
    BY <1>1, <1>2, <2>3, JoinIs
  <2>. QED BY <2>1, <2>2, <2>3
<1>. QED BY <1>3, <1>4, <1>5 DEF IInv

LEMMA InitIs == ASSUME Init PROVE IInv
<1>1. tile = NewTile /\ baked = NewBaked /\ bake_faults = 0
  BY DEF Init, TileInit, BakeInit
<1>2. BakesOK
  BY <1>1, NewCachesAre, ShaderChunksAssumption DEF BakesOK
<1>3. /\ shutdown = FALSE /\ pending = <<>> /\ responses = <<>> /\ elements = {}
      /\ worker = [w \in Workers |-> "exited"] /\ job = [w \in Workers |-> NoJob]
  BY DEF Init, TileInit
<1>4. PoolOK
  BY <1>3, EmptySeq DEF PoolOK, WorkerStates, Jobs
<1>5. NoPool
  BY <1>1, <1>3 DEF NoPool
<1>6. Held(tile.in_flight, pending, responses, worker, job)
  BY <1>1, <1>3, NewCachesAre, NoneHeld
<1>7. /\ TileIs(tile) /\ Apart(tile) /\ DrawnIsCached(tile) /\ tile.vram_bytes <= BudgetBytes
  BY <1>1, NewCachesAre
<1>8. TilesOK
  BY <1>3, <1>4, <1>5, <1>6, <1>7 DEF TilesOK
<1>9. ScreenOK /\ WorldOK
  BY ProgramsAre, BackgroundAssumption DEF Init, ScreenOK, WorldOK
<1>. QED BY <1>2, <1>8, <1>9 DEF IInv

LEMMA StepIs == ASSUME IInv, [Next]_vars PROVE IInv'
<1>1. TilesOK /\ BakesOK /\ ScreenOK /\ WorldOK
  BY DEF IInv
<1>2. CASE Workings
  BY <1>2, WorkingsAre
<1>3. CASE Frame
  BY <1>3, FrameIs
<1>4. CASE \E v \in Views : MoveView(v)
  <2>1. /\ elements' = elements /\ UNCHANGED screen /\ UNCHANGED caches
        /\ camera' \in Views /\ dirty' = TRUE /\ fullscreen' = fullscreen /\ locked' = locked
        /\ asleep' = asleep
    BY <1>4 DEF MoveView, screen
  <2>2. WorldOK'
    BY <1>1, <2>1 DEF WorldOK
  <2>. QED BY <1>1, <2>1, <2>2, ScreenStays, CachesStay DEF IInv
<1>5. CASE ToggleFullscreen \/ ToggleLock \/ ToggleSleep
  <2>1. /\ elements' = elements /\ UNCHANGED screen /\ UNCHANGED caches
    BY <1>5 DEF ToggleFullscreen, ToggleLock, ToggleSleep, screen
  <2>2. WorldOK'
    BY <1>1, <1>5 DEF WorldOK, ToggleFullscreen, ToggleLock, ToggleSleep
  <2>. QED BY <1>1, <2>1, <2>2, ScreenStays, CachesStay DEF IInv
<1>6. CASE \E k \in Kinds : ReloadConfig(k)
  <2>1. PICK k \in Kinds : ReloadConfig(k)
    BY <1>6
  <2>2. TilesOK' /\ BakesOK'
    BY <1>1, <2>1, DropIs DEF ReloadConfig, Joining
  <2>3. WorldOK'
    BY <1>1, <2>1 DEF WorldOK, ReloadConfig
  <2>4. ScreenOK'
    <3>1. kind' \in AllKinds
      BY <2>1, BackgroundAssumption DEF ReloadConfig
    <3>2. /\ file' = file /\ elements' = {} /\ program' = NoProgram
          /\ uses' \subseteq Uniforms /\ error' = error /\ background_shader' = NoProgram
      BY <2>1 DEF ReloadConfig
    <3>. QED BY <1>1, <3>1, <3>2, ScreenIsCleared
  <2>. QED BY <2>2, <2>3, <2>4 DEF IInv
<1>7. CASE RemoveOutput
  <2>1. TilesOK' /\ BakesOK'
    BY <1>1, <1>7, DropIs DEF RemoveOutput, Joining
  <2>2. WorldOK'
    BY <1>1, <1>7 DEF WorldOK, RemoveOutput
  <2>3. ScreenOK'
    <3>1. /\ kind' = kind /\ file' = file /\ elements' = {} /\ program' = NoProgram
          /\ uses' = uses /\ error' = error /\ background_shader' = background_shader
      BY <1>7 DEF RemoveOutput
    <3>2. kind' \in AllKinds /\ uses' \subseteq Uniforms
      BY <1>1, <3>1 DEF ScreenOK
    <3>. QED BY <1>1, <3>1, <3>2, ScreenIsCleared
  <2>. QED BY <2>1, <2>2, <2>3 DEF IInv
<1>8. CASE \E f \in Sources \cup {Unreadable} : EditFile(f)
  <2>1. /\ file' \in Sources \cup {Unreadable}
        /\ kind' = kind /\ elements' = elements /\ program' = program
        /\ background_shader' = background_shader /\ uses' = uses /\ error' = error
        /\ UNCHANGED caches
        /\ camera' = camera /\ fullscreen' = fullscreen /\ locked' = locked /\ dirty' = dirty
        /\ asleep' = asleep
    BY <1>8 DEF EditFile
  <2>2. WorldOK'
    BY <1>1, <2>1 DEF WorldOK
  <2>3. ScreenOK'
    BY <1>1, <2>1 DEF ScreenOK
  <2>. QED BY <1>1, <2>1, <2>2, <2>3, CachesStay DEF IInv
<1>9. CASE UNCHANGED vars
  <2>1. elements' = elements /\ UNCHANGED screen /\ UNCHANGED caches
    BY <1>9 DEF vars, screen
  <2>2. WorldOK'
    BY <1>1, <1>9 DEF WorldOK, vars, world
  <2>. QED BY <1>1, <2>1, <2>2, ScreenStays, CachesStay DEF IInv
<1>10. CASE \E ok \in BOOLEAN : OtherOutput(ok)
  BY <1>10, OtherOutputIs
<1>. QED BY <1>2, <1>3, <1>4, <1>5, <1>6, <1>7, <1>8, <1>9, <1>10 DEF Next

-----------------------------------------------------------------------------
(* What the invariant implies                                              *)

LEMMA TypesAre == ASSUME IInv PROVE TypeOK
<1>1. TilesOK /\ BakesOK /\ ScreenOK /\ WorldOK
  BY DEF IInv
<1>2. /\ tile.chunks \in SUBSET Keys /\ tile.in_flight \in SUBSET Keys
      /\ tile.failed \in SUBSET Keys /\ tile.vram_bytes \in Nat
      /\ tile.elements \in SUBSET Drawn /\ DOMAIN tile.meta = tile.chunks
      /\ \A k \in tile.chunks : tile.meta[k] \in 0..MaxAge
  BY <1>1, TileFields DEF TilesOK
<1>3. [chunks |-> tile.chunks, vram_bytes |-> tile.vram_bytes,
       in_flight |-> tile.in_flight, failed |-> tile.failed] \in TileType
  BY <1>2 DEF TileType
<1>4. \A e \in tile.elements : <<e[1], e[2], e[3]>> \in Keys /\ <<e[4], e[5]>> \in Int \X Int
  BY <1>1, <1>2 DEF TilesOK, DrawnIsCached, Drawn
<1>5. /\ shutdown \in BOOLEAN /\ pending \in Seq(Keys)
      /\ responses \in Seq([key : Keys, ok : BOOLEAN])
      /\ worker \in [Workers -> {"ready", "waiting", "busy", "exited"}]
      /\ job \in [Workers -> Keys \cup {NoJob}]
  BY <1>1 DEF TilesOK, PoolOK, WorkerStates, Jobs, Answers
<1>6. TileTypeOK
  BY <1>2, <1>3, <1>4, <1>5 DEF TileTypeOK
<1>7. /\ baked.chunks \in SUBSET BakeKeys /\ baked.vram_bytes \in Nat
      /\ baked.pending \in BOOLEAN /\ baked.degraded \in BOOLEAN
      /\ baked.elements \in SUBSET BakeKeys /\ BakedIs(baked)
      /\ bake_faults \in 0..MaxBakeFaults
  BY <1>1 DEF BakesOK, BakedIs, BakedRecords
<1>8. [chunks |-> baked.chunks, vram_bytes |-> baked.vram_bytes, pending |-> baked.pending,
       degraded |-> baked.degraded, elements |-> baked.elements] \in BakedType
  BY <1>7 DEF BakedType
<1>9. BakedTypeOK
  BY <1>7, <1>8, BakedAges DEF BakedTypeOK
<1>10. elements \subseteq {"live", "tile", "wallpaper", "textured", "tile_chunks", "shader_chunks"}
  BY <1>1 DEF ScreenOK, Entries
<1>. QED BY <1>1, <1>6, <1>9, <1>10 DEF ScreenOK, WorldOK, TypeOK

\* A set of places is empty, or it has one element.
LEMMA OneOrNone ==
    ASSUME NEW P, \A x, y \in P : x = y
    PROVE  Cardinality(P) = IF P = {} THEN 0 ELSE 1
<1>1. CASE P = {}
  BY <1>1, FS_EmptySet
<1>2. CASE P # {}
  <2>1. PICK x : x \in P
    BY <1>2
  <2>2. P = {x}
    BY <2>1
  <2>. QED BY <1>2, <2>2, FS_Singleton
<1>. QED BY <1>1, <1>2

LEMMA RequestsAre == ASSUME IInv PROVE RequestsAreHeld
<1>1. TilesOK
  BY DEF IInv
<1> SUFFICES ASSUME ~shutdown
             PROVE  /\ \A k \in Keys :
                         Cardinality(Queued(k)) + Cardinality(Decoding(k)) + Cardinality(Answered(k))
                           = IF k \in tile.in_flight THEN 1 ELSE 0
                    /\ tile.in_flight \cap (tile.chunks \cup tile.failed) = {}
                    /\ tile.chunks \cap tile.failed = {}
  BY DEF RequestsAreHeld
<1>2. Apart(tile) /\ Held(tile.in_flight, pending, responses, worker, job)
  BY <1>1 DEF TilesOK
<1>3. /\ pending \in Seq(Keys) /\ responses \in Seq(Answers)
      /\ Distinct(pending) /\ Once(responses)
      /\ \A w, x \in Workers : worker[w] = "busy" /\ worker[x] = "busy" /\ job[w] = job[x] => w = x
      /\ tile.in_flight = InQueue(pending) \cup InWork(worker, job) \cup InChannel(responses)
      /\ InQueue(pending) \cap InWork(worker, job) = {}
      /\ InQueue(pending) \cap InChannel(responses) = {}
      /\ InWork(worker, job) \cap InChannel(responses) = {}
  BY <1>2 DEF Held
<1>4. DOMAIN pending = 1..Len(pending) /\ DOMAIN responses = 1..Len(responses)
  BY <1>3
<1>5. ASSUME NEW k \in Keys
      PROVE  Cardinality(Queued(k)) + Cardinality(Decoding(k)) + Cardinality(Answered(k))
               = IF k \in tile.in_flight THEN 1 ELSE 0
  <2>1. /\ \A x, y \in Queued(k) : x = y
        /\ Queued(k) = {} <=> k \notin InQueue(pending)
    BY <1>3, <1>4 DEF Queued, Distinct, InQueue
  <2>2. /\ \A x, y \in Decoding(k) : x = y
        /\ Decoding(k) = {} <=> k \notin InWork(worker, job)
    BY <1>3 DEF Decoding, InWork
  <2>3. /\ \A x, y \in Answered(k) : x = y
        /\ Answered(k) = {} <=> k \notin InChannel(responses)
    BY <1>3, <1>4 DEF Answered, Once, InChannel
  <2>4. /\ Cardinality(Queued(k)) = IF k \in InQueue(pending) THEN 1 ELSE 0
        /\ Cardinality(Decoding(k)) = IF k \in InWork(worker, job) THEN 1 ELSE 0
        /\ Cardinality(Answered(k)) = IF k \in InChannel(responses) THEN 1 ELSE 0
    <3> HIDE DEF Queued, Decoding, Answered
    <3>. QED BY <2>1, <2>2, <2>3, OneOrNone
  <2>5. \/ k \notin tile.in_flight /\ k \notin InQueue(pending) /\ k \notin InWork(worker, job)
           /\ k \notin InChannel(responses)
        \/ k \in tile.in_flight /\ k \in InQueue(pending) /\ k \notin InWork(worker, job)
           /\ k \notin InChannel(responses)
        \/ k \in tile.in_flight /\ k \notin InQueue(pending) /\ k \in InWork(worker, job)
           /\ k \notin InChannel(responses)
        \/ k \in tile.in_flight /\ k \notin InQueue(pending) /\ k \notin InWork(worker, job)
           /\ k \in InChannel(responses)
    BY <1>3
  <2>. QED BY <2>4, <2>5
<1>. QED BY <1>2, <1>5 DEF Apart

\* A step that leaves what is shown and what is told leaves the report.
LEMMA ReportStays ==
    ASSUME UNCHANGED <<kind, elements, program, error>>
    PROVE  FallbackIsReported' = FallbackIsReported
BY DEF FallbackIsReported, AsAsked

\* A step of Next takes the report of a fallback away only as the property says.
LEMMA ReportIs ==
    ASSUME IInv, IInv', [Next]_vars, FallbackIsReported, ~FallbackIsReported'
    PROVE  kind' = "cached_shader" \/ (kind' \in Images /\ OtherOutput(TRUE))
<1>1. ~UNCHANGED <<kind, elements, program, error>>
  BY ReportStays
<1>2. elements' # {} /\ ~AsAsked' /\ ~error'
  BY DEF FallbackIsReported
<1>3. TilesOK /\ BakesOK /\ ScreenOK /\ ScreenOK' /\ WorldOK
  BY DEF IInv
<1>4. CASE \E ok \in BOOLEAN : OtherOutput(ok)
  <2>1. PICK ok \in BOOLEAN : OtherOutput(ok)
    BY <1>4
  <2>2. kind' = kind
    BY <2>1 DEF OtherOutput
  <2>3. CASE kind \in {"shader", "default"}
    <3>1. elements' = {"live"} /\ program' = background_shader'
      BY <1>2, <1>3, <2>2, <2>3 DEF ScreenOK
    <3>2. kind = "shader" => ~program'.dots
      BY <1>2, <1>3, <2>2, <3>1 DEF ScreenOK
    <3>3. AsAsked'
      BY <2>2, <2>3, <3>1, <3>2 DEF AsAsked
    <3>. QED BY <1>2, <3>3
  <2>4. CASE kind \in Images
    <3>1. CASE ok = TRUE
      BY <2>1, <2>2, <2>4, <3>1
    <3>2. CASE ok = FALSE
      <4>1. error' = Told(InitBackground(FALSE).verdict, error)
        BY <2>1, <3>2 DEF OtherOutput
      <4>2. InitBackground(FALSE).verdict = "err"
        BY <1>3, <2>4, FailedImageIs
      <4>. QED BY <1>2, <4>1, <4>2 DEF Told
    <3>. QED BY <3>1, <3>2
  <2>. QED BY <1>3, <2>2, <2>3, <2>4 DEF ScreenOK, AllKinds, Images
<1>5. CASE Frame
  <2>1. camera \in Views /\ ~shutdown
    BY <1>3, <1>5 DEF WorldOK, Frame, Joining
  <2>2. \/ UNCHANGED screen \/ FullscreenFrame \/ DrawFrame \/ \E ok \in BOOLEAN : InitFrame(ok)
    BY <1>5 DEF Frame
  <2>3. CASE UNCHANGED screen \/ DrawFrame
    BY <1>1, <2>3 DEF DrawFrame, screen
  <2>4. CASE FullscreenFrame
    <3>1. /\ elements' = elements \ {"tile_chunks", "shader_chunks"}
          /\ program' = IF "shader_chunks" \in elements THEN NoProgram ELSE program
          /\ kind' = kind /\ error' = error
      BY <2>4 DEF FullscreenFrame
    <3>. QED BY <1>1, <1>2, <1>3, <3>1 DEF ScreenOK
  <2>5. CASE \E ok \in BOOLEAN : InitFrame(ok)
    BY <1>3, <2>1, <2>5, InitFrameIs
  <2>. QED BY <2>2, <2>3, <2>4, <2>5
<1>6. CASE RemoveOutput \/ \E k \in Kinds : ReloadConfig(k)
  BY <1>2, <1>6 DEF RemoveOutput, ReloadConfig
<1>7. CASE \/ Workings \/ ToggleFullscreen \/ ToggleLock \/ ToggleSleep \/ UNCHANGED vars
           \/ \E v \in Views : MoveView(v)
           \/ \E f \in Sources \cup {Unreadable} : EditFile(f)
  BY <1>1, <1>7 DEF Workings, ToggleFullscreen, ToggleLock, ToggleSleep, MoveView, EditFile,
     vars, screen
<1>. QED BY <1>4, <1>5, <1>6, <1>7 DEF Next

-----------------------------------------------------------------------------
(* The theorems                                                            *)

\* In every reachable state the invariant holds: both caches are in order, the requests
\* of the TIFF cache are where they should be, and what is shown is as told.
THEOREM Invariance == Spec => []IInv
<1>1. Init => IInv
  BY InitIs
<1>2. IInv /\ [Next]_vars => IInv'
  BY StepIs
<1>. QED BY <1>1, <1>2, PTL DEF Spec

\* The variables have their types: in particular the caches hold chunks of the views
\* only, every cached chunk has an age, and the byte counts never go below zero.
THEOREM TypeCorrect == Spec => []TypeOK
<1>1. IInv => TypeOK
  BY TypesAre
<1>. QED BY <1>1, Invariance, PTL

\* A chunk that is in flight is in the queue, with a thread or in the channel, in one of
\* them and once; nothing else is there (BgChunkCache and its worker pool).
THEOREM RequestsStayHeld == Spec => []RequestsAreHeld
<1>1. IInv => RequestsAreHeld
  BY RequestsAre
<1>. QED BY <1>1, Invariance, PTL

\* The bytes that evict_over_budget compares with the budget are those of the textures
\* there are, they fit the budget after each frame, and each chunk that is drawn is there.
THEOREM VramStaysCounted == Spec => []VramIsCounted
<1>1. IInv => VramIsCounted
  BY TileFields DEF IInv, TilesOK, DrawnIsCached, VramIsCounted
<1>. QED BY <1>1, Invariance, PTL

\* A background other than the one asked for loses its message only when it is to be
\* baked, or when another output loads the image that this one could not (init_background).
THEOREM FallbacksStayReported == Spec => LiveFallbackIsReported
<1>1. IInv /\ IInv' /\ [Next]_vars =>
        [Unreported' => \/ Unreported
                        \/ kind' = "cached_shader"
                        \/ kind' \in Images /\ OtherOutput(TRUE)]_vars
  BY ReportIs DEF Unreported
<1>. QED BY <1>1, Invariance, PTL DEF Spec, LiveFallbackIsReported

\* The bytes that the shader cache's evict_over_budget compares with the budget are those
\* of the baked chunks there are, they fit it after a frame, and what is drawn is there.
THEOREM BakesStayCounted == Spec => []BakesAreCounted
<1>1. IInv => BakesAreCounted
  BY DEF IInv, BakesOK, BakedIs, BakedFits, BakesAreCounted
<1>. QED BY <1>1, Invariance, PTL
=============================================================================
