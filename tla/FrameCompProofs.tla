--------------------------- MODULE FrameCompProofs ---------------------------
(***************************************************************************)
(* Proofs about MDPComp's frames, for lists of any number of layers of any *)
(* kinds, and mixers of any number of stages.                              *)
(***************************************************************************)
EXTENDS FrameComp, FiniteSetTheorems, NatFacts, TLAPS

LEMMA ConstantFacts ==
  /\ N \in Nat \ {0} /\ MAX_PIPES_PER_MIXER \in Nat \ {0} /\ NumPipes \in Nat
  /\ NumDMAPipes \in Nat
  /\ Layers \subseteq Nat /\ 0 \in Layers /\ \A i \in Layers : i < N
BY FrameCompAssumption DEF Layers

-----------------------------------------------------------------------------
(* Layers and how many they are.                                           *)

LEMMA LayersFinite ==
  ASSUME NEW S, S \subseteq Layers
  PROVE  /\ IsFiniteSet(S) /\ Cardinality(S) \in Nat /\ Cardinality(S) <= N
         /\ (Cardinality(S) = 0) <=> (S = {})
<1>1. IsFiniteSet(Layers) /\ Cardinality(Layers) = N
  <2>1. 0 \in Int /\ N \in Int /\ N - 1 \in Int /\ N >= 1
    BY ConstantFacts
  <2> QED
    BY <2>1, FS_Interval DEF Layers
<1>2. IsFiniteSet(S) /\ Cardinality(S) <= Cardinality(Layers)
  BY <1>1, FS_Subset
<1>3. Cardinality(S) \in Nat
  BY <1>2, FS_CardinalityType
<1>4. (Cardinality(S) = 0) <=> (S = {})
  BY <1>2, FS_EmptySet
<1> QED
  BY <1>1, <1>2, <1>3, <1>4

LEMMA LayersCount == IsFiniteSet(Layers) /\ Cardinality(Layers) = N
<1>1. 0 \in Int /\ N \in Int /\ N - 1 \in Int /\ N >= 1
  BY ConstantFacts
<1> QED
  BY <1>1, FS_Interval DEF Layers

(* Taking a part out of a set of layers, or adding other layers.           *)
LEMMA CountWithout ==
  ASSUME NEW S, NEW T, S \subseteq Layers, T \subseteq S
  PROVE  Cardinality(S \ T) = Cardinality(S) - Cardinality(T)
<1>1. IsFiniteSet(S) /\ S \cap T = T
  BY LayersFinite
<1> QED
  BY <1>1, FS_Difference

LEMMA CountWith ==
  ASSUME NEW S, NEW T, S \subseteq Layers, T \subseteq Layers, S \cap T = {}
  PROVE  Cardinality(S \cup T) = Cardinality(S) + Cardinality(T)
<1>1. IsFiniteSet(S) /\ IsFiniteSet(T) /\ Cardinality(S) \in Nat /\ Cardinality(T) \in Nat
  BY LayersFinite
<1>2. Cardinality(S \cap T) = 0
  BY FS_EmptySet
<1>3. Cardinality(S \cup T) = Cardinality(S) + Cardinality(T) - Cardinality(S \cap T)
  BY <1>1, FS_Union
<1> QED
  BY <1>1, <1>2, <1>3

(* Two sets of layers, one in the other, with as many members are one.     *)
LEMMA SameCount ==
  ASSUME NEW S, NEW T, S \subseteq T, T \subseteq Layers,
         Cardinality(S) = Cardinality(T)
  PROVE  S = T
BY LayersFinite, FS_Subset

(* How many of a set of layers are below a layer: this is the stage        *)
(* programMDP and programYUV count up to.                                  *)
Below(P, i) == {k \in P : k < i}

LEMMA BelowFacts ==
  ASSUME NEW P, P \subseteq Layers, NEW i \in Layers
  PROVE  /\ Cardinality(Below(P, i)) \in 0 .. i
         /\ i \in P => Cardinality(Below(P, i)) < Cardinality(P)
         /\ (0 .. i - 1 \subseteq P) => Cardinality(Below(P, i)) = i
         /\ (\E j \in Layers \ P : j < i) => Cardinality(Below(P, i)) < i
<1> DEFINE B == Below(P, i)
           I == 0 .. i - 1
<1>1. i \in Nat /\ IsFiniteSet(I) /\ Cardinality(I) = i
  <2>1. i \in Nat /\ 0 \in Int /\ i - 1 \in Int
    BY ConstantFacts
  <2> QED
    BY <2>1, FS_Interval
<1>2. B \subseteq I /\ B \subseteq P /\ i \notin B
  <2>1. \A k \in P : k < i => k \in I
    BY <1>1, ConstantFacts
  <2>2. ~(i < i)
    BY <1>1
  <2> QED
    BY <2>1, <2>2 DEF Below
<1>3. IsFiniteSet(B) /\ Cardinality(B) \in Nat
  BY <1>2, LayersFinite, ConstantFacts
<1>4. Cardinality(B) <= i /\ (Cardinality(B) = i => B = I)
  BY <1>1, <1>2, FS_Subset
<1>5. ASSUME i \in P PROVE Cardinality(B) < Cardinality(P)
  <2>1. Cardinality(B) <= Cardinality(P) /\ (Cardinality(P) = Cardinality(B) => P = B)
    BY <1>2, LayersFinite, FS_Subset
  <2>2. Cardinality(P) \in Nat
    BY LayersFinite
  <2>3. Cardinality(P) # Cardinality(B)
    BY <1>2, <1>5, <2>1
  <2> QED
    BY <1>3, <2>1, <2>2, <2>3
<1>6. ASSUME I \subseteq P PROVE Cardinality(B) = i
  <2>1. B = I
    BY <1>1, <1>2, <1>6 DEF Below
  <2> QED
    BY <1>1, <2>1
<1>7. ASSUME NEW j \in Layers \ P, j < i PROVE Cardinality(B) < i
  <2>1. j \in I /\ j \notin B
    BY <1>2, <1>7, ConstantFacts
  <2> QED
    BY <1>1, <1>3, <1>4, <2>1
<1> HIDE DEF B
<1>8. Cardinality(B) \in 0 .. i
  BY <1>1, <1>3, <1>4
<1> QED
  BY <1>5, <1>6, <1>7, <1>8 DEF B

(* A later layer of the set has more of them below it.                     *)
LEMMA BelowGrows ==
  ASSUME NEW P, P \subseteq Layers, NEW i \in P, NEW j \in Layers, i < j
  PROVE  Cardinality(Below(P, i)) < Cardinality(Below(P, j))
<1>1. Below(P, i) \subseteq Below(P, j) /\ i \in Below(P, j) /\ i \notin Below(P, i)
  <2>1. i \in Int /\ j \in Int /\ \A k \in P : k \in Int
    BY ConstantFacts
  <2>2. \A k \in P : k < i => k < j
    BY <2>1
  <2>3. ~(i < i)
    BY <2>1
  <2> QED
    BY <2>2, <2>3 DEF Below
<1>2. Below(P, j) \subseteq Layers
  BY DEF Below
<1>3. IsFiniteSet(Below(P, j)) /\ Cardinality(Below(P, j)) \in Nat
      /\ Cardinality(Below(P, i)) \in Nat
  BY <1>1, <1>2, LayersFinite, ConstantFacts
<1>4. /\ Cardinality(Below(P, i)) <= Cardinality(Below(P, j))
      /\ Cardinality(Below(P, j)) = Cardinality(Below(P, i)) => Below(P, j) = Below(P, i)
  BY <1>1, <1>3, FS_Subset
<1> QED
  BY <1>1, <1>3, <1>4

(* An interval of layers has as many members as its ends say.              *)
LEMMA RunCount ==
  ASSUME NEW z \in Nat, NEW n \in Nat \ {0}
  PROVE  Cardinality(z .. z + n - 1) = n
<1>1. z \in Int /\ z + n - 1 \in Int /\ ~(z > z + n - 1) /\ (z + n - 1) - z + 1 = n
  OBVIOUS
<1> QED
  BY <1>1, FS_Interval

-----------------------------------------------------------------------------
(* The longest run of layers.                                              *)

(* A set that is not empty has a longest run, and a first one of those.    *)
LEMMA MaxBatchIsRun ==
  ASSUME NEW S, S \subseteq Layers, S # {}
  PROVE  /\ MaxBatch(S) \in Runs(S)
         /\ \A q \in Runs(S) :
              q[2] < MaxBatch(S)[2] \/ (q[2] = MaxBatch(S)[2] /\ MaxBatch(S)[1] <= q[1])
<1> DEFINE Lengths == {r[2] : r \in Runs(S)}
<1>1. \A r \in Runs(S) : r[1] \in Layers /\ r[1] \in 0 .. N /\ r[2] \in 1 .. N /\ r[2] \in 0 .. N
  <2>1. \A r \in Runs(S) : r[1] \in Layers /\ r[2] \in 1 .. N
    BY DEF Runs
  <2>2. Layers \subseteq 0 .. N /\ 1 .. N \subseteq 0 .. N
    BY ConstantFacts DEF Layers
  <2> QED
    BY <2>1, <2>2
<1>2. Lengths \subseteq 0 .. N
  BY <1>1
<1>3. Lengths # {}
  <2>1. PICK i \in S : TRUE
    OBVIOUS
  <2>2. i \in Int /\ i .. i + 1 - 1 = {i} /\ 1 \in 1 .. N
    BY ConstantFacts
  <2>3. <<i, 1>> \in Runs(S)
    BY <2>1, <2>2 DEF Runs
  <2> QED
    BY <2>3
<1>4. PICK n \in Lengths : \A l \in Lengths : l <= n
  <2> HIDE DEF Lengths
  <2> QED
    BY <1>2, <1>3, GreatestMember, ConstantFacts
<1> DEFINE Starts == {r[1] : r \in {q \in Runs(S) : q[2] = n}}
<1>5. Starts \subseteq 0 .. N /\ Starts # {}
  BY <1>1, <1>4
<1>6. PICK z \in Starts : \A y \in Starts : z <= y
  <2> HIDE DEF Starts
  <2> QED
    BY <1>5, LeastMember, ConstantFacts
<1>7. PICK r \in Runs(S) : r[1] = z /\ r[2] = n
  BY <1>6
<1>8. \A q \in Runs(S) : q[2] < r[2] \/ (q[2] = r[2] /\ r[1] <= q[1])
  <2> SUFFICES ASSUME NEW q \in Runs(S), ~(q[2] < r[2])
               PROVE  q[2] = r[2] /\ r[1] <= q[1]
    OBVIOUS
  <2>1. q[2] \in Lengths /\ q[2] \in Nat /\ n \in Nat
    BY <1>1, <1>2, <1>4, ConstantFacts
  <2>2. q[2] = n
    BY <1>4, <1>7, <2>1
  <2> QED
    BY <1>6, <1>7, <2>2
<1> HIDE DEF Lengths, Starts
<1> QED
  BY <1>7, <1>8 DEF MaxBatch

(* What batchLayers leaves of a set: one run of it, which goes as far as   *)
(* the set does, so that the layer the loop jumps over is none of it.      *)
LEMMA BatchIsInterval ==
  ASSUME NEW S, S \subseteq Layers, S # {}
  PROVE  LET r   == MaxBatch(S)
             out == Layers \ (r[1] .. r[1] + r[2])
         IN  /\ r[1] \in Layers /\ r[2] \in Nat \ {0} /\ r[2] <= Cardinality(S)
             /\ S \ out = r[1] .. r[1] + r[2] - 1
<1> DEFINE r == MaxBatch(S)
           z == r[1]
           n == r[2]
           run == z .. z + n - 1
<1>1. /\ r \in Layers \X (1 .. N) /\ run \subseteq S
      /\ \A q \in Runs(S) : q[2] < n \/ (q[2] = n /\ z <= q[1])
  BY MaxBatchIsRun DEF Runs
<1> HIDE DEF r
<1>2. z \in Layers /\ z \in Nat /\ n \in 1 .. N /\ n \in Nat \ {0} /\ r = <<z, n>>
  <2>1. z \in Layers /\ n \in 1 .. N /\ r = <<z, n>>
    BY <1>1
  <2> QED
    BY <2>1, ConstantFacts
<1>3. z + n \notin S
  <2> SUFFICES ASSUME z + n \in S PROVE FALSE
    OBVIOUS
  <2>1. z + n < N
    BY ConstantFacts
  <2>2. n + 1 \in 1 .. N /\ z + (n + 1) - 1 = z + n
    BY <1>2, <2>1, ConstantFacts
  <2>3. z .. z + (n + 1) - 1 \subseteq S
    BY <1>1, <1>2, <2>2
  <2>4. <<z, n + 1>> \in Runs(S)
    BY <1>2, <2>2, <2>3 DEF Runs
  <2> QED
    BY <1>1, <1>2, <2>4
<1>4. n <= Cardinality(S)
  <2>1. Cardinality(run) = n
    BY <1>2, RunCount
  <2>2. IsFiniteSet(S) /\ run \in SUBSET S
    BY <1>1, LayersFinite
  <2> HIDE DEF run
  <2>3. Cardinality(run) <= Cardinality(S)
    BY <2>2, FS_Subset
  <2> QED
    BY <2>1, <2>3
<1>5. S \ (Layers \ (z .. z + n)) = run
  <2>1. S \ (Layers \ (z .. z + n)) = S \cap (z .. z + n)
    OBVIOUS
  <2>2. z .. z + n = run \cup {z + n}
    BY <1>2
  <2> QED
    BY <1>1, <1>3, <2>1, <2>2
<1> QED
  BY <1>2, <1>4, <1>5 DEF r

-----------------------------------------------------------------------------
(* The frames MDPComp::prepare decides on.                                 *)

(* The counts of a frame are those of its layers.                          *)
Counted(f) ==
  /\ f \in Frames /\ f.fbCount = Cardinality(f.isFBComposed)
  /\ f.mdpCount = N - f.fbCount

LEMMA RecountFrame ==
  ASSUME NEW f \in Frames, NEW S, S \subseteq Layers
  PROVE  LET g == Recount(f, S, Cardinality(S))
         IN  Counted(g) /\ g.isFBComposed = S /\ g.fbZ = f.fbZ
             /\ g.needsRedraw = f.needsRedraw
<1>1. Cardinality(S) \in 0 .. N /\ N - Cardinality(S) \in 0 .. N
  <2>1. Cardinality(S) \in Nat /\ Cardinality(S) <= N /\ N \in Nat
    BY LayersFinite, ConstantFacts
  <2> QED
    BY <2>1
<1> QED
  BY <1>1 DEF Recount, Counted, Frames

LEMMA ResetFrame ==
  /\ FrameReset \in Frames /\ FrameReset.fbZ = 0 /\ FrameReset.needsRedraw = TRUE
  /\ FrameReset.isFBComposed = Layers /\ FrameReset.fbCount = N /\ FrameReset.mdpCount = 0
<1>1. 0 \in 0 .. N /\ N \in 0 .. N /\ 0 \in NOZ .. N
  BY ConstantFacts DEF NOZ
<1> QED
  BY <1>1 DEF FrameReset, Frames

LEMMA FullFrameFacts ==
  /\ FullFrame \in Frames /\ FullFrame.isFBComposed = {} /\ FullFrame.fbCount = 0
  /\ FullFrame.mdpCount = N /\ FullFrame.fbZ = NOZ
<1>1. 0 \in 0 .. N /\ N \in 0 .. N /\ NOZ \in NOZ .. N
  BY ConstantFacts DEF NOZ
<1> QED
  BY <1>1, ResetFrame DEF FullFrame, FrameReset, Frames

(* updateYUV keeps count of the videos it moves.                           *)
LEMMA YuvFrame ==
  ASSUME NEW f, Counted(f), NEW doable, doable \subseteq Yuv
  PROVE  LET g == updateYUV(f, doable)
         IN  /\ Counted(g) /\ g.fbZ = f.fbZ /\ g.needsRedraw = f.needsRedraw
             /\ g.isFBComposed \subseteq f.isFBComposed \cup Yuv
             /\ f.isFBComposed \ Yuv \subseteq g.isFBComposed
<1> DEFINE in  == (Yuv \ doable) \ f.isFBComposed
           out == Yuv \cap doable \cap f.isFBComposed
           fb  == (f.isFBComposed \cup in) \ out
<1>1. f \in Frames /\ f.isFBComposed \subseteq Layers /\ Yuv \subseteq Layers
  BY DEF Counted, Frames, Yuv
<1>2. fb \subseteq Layers /\ in \subseteq Layers /\ f.isFBComposed \cup in \subseteq Layers
      /\ out \subseteq f.isFBComposed \cup in /\ f.isFBComposed \cap in = {}
  BY <1>1
<1> HIDE DEF in, out
<1>3. Cardinality(f.isFBComposed \cup in) = Cardinality(f.isFBComposed) + Cardinality(in)
  BY <1>1, <1>2, CountWith
<1>4. Cardinality(fb) = Cardinality(f.isFBComposed \cup in) - Cardinality(out)
  BY <1>2, CountWithout
<1>5. f.fbCount + Cardinality(in) - Cardinality(out) = Cardinality(fb)
  <2>1. f.fbCount = Cardinality(f.isFBComposed) /\ Cardinality(f.isFBComposed) \in Nat
        /\ Cardinality(in) \in Nat /\ Cardinality(out) \in Nat
    BY <1>1, <1>2, LayersFinite DEF Counted, out
  <2> HIDE DEF fb
  <2> QED
    BY <1>3, <1>4, <2>1
<1> USE DEF in, out
<1>6. updateYUV(f, doable) = Recount(f, fb, Cardinality(fb))
  BY <1>5 DEF updateYUV
<1>7. fb \subseteq f.isFBComposed \cup Yuv /\ f.isFBComposed \ Yuv \subseteq fb
  OBVIOUS
<1> HIDE DEF fb
<1> QED
  BY <1>1, <1>2, <1>6, <1>7, RecountFrame

(* A frame composed in part: one run of layers is left to the framebuffer, *)
(* at the stage where the layers before it end.                            *)
LEMMA BatchFrame ==
  ASSUME NEW f, Counted(f), f.fbZ = 0
  PROVE  LET g == batchLayers(f)
         IN  /\ g \in Frames /\ Batched(g) /\ g.needsRedraw = f.needsRedraw
             /\ g.isFBComposed \subseteq f.isFBComposed
<1> DEFINE S == f.isFBComposed
           g == batchLayers(f)
           r == MaxBatch(S)
           out == Layers \ (r[1] .. r[1] + r[2])
<1>1. f \in Frames /\ S \subseteq Layers /\ f.fbCount = Cardinality(S)
      /\ f.mdpCount = N - f.fbCount /\ f.fbCount \in Nat /\ f.fbCount <= N
      /\ ((f.fbCount = 0) <=> (S = {}))
  BY LayersFinite DEF Counted, Frames
<1>2. CASE f.fbCount = 0
  <2>1. g = [f EXCEPT !.fbZ = NOZ] /\ NOZ \in NOZ .. N
    BY <1>2, ConstantFacts DEF batchLayers, NOZ
  <2> HIDE DEF g
  <2>2. g \in Frames /\ g.isFBComposed = S /\ g.fbCount = f.fbCount /\ g.fbZ = NOZ
        /\ g.mdpCount = f.mdpCount /\ g.needsRedraw = f.needsRedraw
    BY <1>1, <2>1 DEF Frames
  <2>3. f.mdpCount + f.fbCount = N
    BY <1>1, <1>2, ConstantFacts
  <2>4. Batched(g)
    BY <1>1, <1>2, <2>2, <2>3 DEF Batched
  <2> QED
    BY <2>2, <2>4 DEF g
<1>3. CASE f.fbCount # 0 /\ f.mdpCount = 0
  <2>1. g = [f EXCEPT !.fbZ = 0] /\ 0 \in NOZ .. N
    BY <1>3, ConstantFacts DEF batchLayers, NOZ
  <2> HIDE DEF g
  <2>2. g \in Frames /\ g.isFBComposed = S /\ g.fbCount = f.fbCount /\ g.fbZ = 0
        /\ g.mdpCount = f.mdpCount /\ g.needsRedraw = f.needsRedraw
    BY <1>1, <2>1 DEF Frames
  <2>3. Cardinality(S) = N /\ Cardinality(Layers) = N
    BY <1>1, <1>3, LayersCount, ConstantFacts
  <2>4. S = Layers
    BY <1>1, <2>3, SameCount
  <2>5. Batched(g)
    BY <1>1, <1>3, <2>2, <2>3, <2>4, ConstantFacts DEF Batched, Layers
  <2> QED
    BY <2>2, <2>5 DEF g
<1>4. CASE f.fbCount # 0 /\ f.mdpCount # 0
  <2>1. /\ r[1] \in Layers /\ r[2] \in Nat \ {0} /\ r[2] <= Cardinality(S)
        /\ S \ out = r[1] .. r[1] + r[2] - 1
    BY <1>1, <1>4, BatchIsInterval
  <2> HIDE DEF out, r, S
  <2>2. r[1] \in Nat /\ Cardinality(S \ out) = r[2]
    <3>1. r[1] \in Nat
      BY <2>1, ConstantFacts
    <3>2. Cardinality(r[1] .. r[1] + r[2] - 1) = r[2]
      BY <2>1, <3>1, RunCount
    <3> QED
      BY <2>1, <3>1, <3>2
  <2> DEFINE h == Recount(f, S \ out, r[2])
  <2>3. Counted(h) /\ h.isFBComposed = S \ out /\ h.needsRedraw = f.needsRedraw
    <3>1. S \ out \subseteq Layers
      BY <1>1
    <3>2. h = Recount(f, S \ out, Cardinality(S \ out))
      BY <2>2
    <3> HIDE DEF h
    <3> QED
      BY <1>1, <3>1, <3>2, RecountFrame
  <2>4. g = [h EXCEPT !.fbZ = r[1]]
    BY <1>4 DEF batchLayers, S, r, out
  <2>5. r[1] \in NOZ .. N
    BY <2>1, <2>2, ConstantFacts DEF NOZ
  <2>6. h \in Frames /\ h.fbCount = r[2] /\ h.mdpCount = N - r[2]
    BY <2>2, <2>3 DEF Counted
  <2> HIDE DEF g, h
  <2>7. g \in Frames /\ g.isFBComposed = S \ out /\ g.fbCount = r[2] /\ g.fbZ = r[1]
        /\ g.mdpCount = N - r[2] /\ g.needsRedraw = f.needsRedraw
    BY <2>3, <2>4, <2>5, <2>6 DEF Frames
  <2>8. r[1] <= N - r[2] /\ r[1] \in Nat
    <3>1. r[1] + r[2] - 1 \in S \ out
      BY <2>1, <2>2
    <3>2. r[1] + r[2] - 1 < N
      BY <1>1, <3>1, ConstantFacts
    <3> QED
      BY <2>1, <2>2, <3>2, ConstantFacts
  <2>9. Batched(g)
    BY <2>1, <2>2, <2>7, <2>8, ConstantFacts DEF Batched
  <2> QED
    BY <2>7, <2>9 DEF g, S
<1> QED
  BY <1>2, <1>3, <1>4

(* What partialMDPComp and isOnlyVideoDoable make of a list.               *)
LEMMA PartialFrameFacts ==
  ASSUME hit \subseteq Layers, NEW mDMAInUse
  PROVE  LET f == PartialFrame(mDMAInUse)
         IN  f \in Frames /\ Batched(f) /\ f.needsRedraw = TRUE
             /\ f.isFBComposed \subseteq hit \cup Yuv
<1> DEFINE c == updateLayerCache(FrameReset)
           d == {i \in Yuv : isYUVDoable(i, mDMAInUse)}
           y == updateYUV(c, d)
<1>1. Counted(c) /\ c.isFBComposed = hit /\ c.fbZ = 0 /\ c.needsRedraw = TRUE
  BY ResetFrame, RecountFrame DEF updateLayerCache
<1>2. d \subseteq Yuv /\ PartialFrame(mDMAInUse) = batchLayers(y)
  BY DEF PartialFrame
<1> HIDE DEF c, d
<1>3. Counted(y) /\ y.fbZ = 0 /\ y.needsRedraw = TRUE /\ y.isFBComposed \subseteq hit \cup Yuv
  BY <1>1, <1>2, YuvFrame
<1> HIDE DEF y
<1> QED
  BY <1>2, <1>3, BatchFrame

LEMMA ResetCounted == Counted(FrameReset)
BY ResetFrame, LayersCount, ConstantFacts DEF Counted

LEMMA VideoFrameFacts ==
  ASSUME NEW doable, doable \subseteq Yuv
  PROVE  LET f == VideoFrame(doable)
             u == updateYUV(FrameReset, doable)
         IN  /\ f \in Frames /\ VideosOut(f) /\ f.needsRedraw = TRUE
             /\ f.mdpCount = u.mdpCount /\ f.fbCount = u.fbCount
<1> DEFINE u == updateYUV(FrameReset, doable)
           f == VideoFrame(doable)
<1>1. Counted(u) /\ u.needsRedraw = TRUE /\ Layers \ Yuv \subseteq u.isFBComposed
  BY ResetCounted, ResetFrame, YuvFrame
<1>2. u \in Frames /\ u.fbCount = Cardinality(u.isFBComposed) /\ u.mdpCount = N - u.fbCount
      /\ u.fbCount \in 0 .. N /\ u.mdpCount \in 0 .. N
  BY <1>1 DEF Counted, Frames
<1>3. f = [u EXCEPT !.fbZ = IF u.fbCount # 0 THEN u.mdpCount ELSE NOZ]
  BY DEF VideoFrame
<1> HIDE DEF u, f
<1>4. (IF u.fbCount # 0 THEN u.mdpCount ELSE NOZ) \in NOZ .. N
  BY <1>2, ConstantFacts DEF NOZ
<1>5. /\ f \in Frames /\ f.fbZ = IF u.fbCount # 0 THEN u.mdpCount ELSE NOZ
      /\ f.isFBComposed = u.isFBComposed /\ f.fbCount = u.fbCount /\ f.mdpCount = u.mdpCount
      /\ f.needsRedraw = u.needsRedraw
  BY <1>2, <1>3, <1>4 DEF Frames
<1>6. VideosOut(f)
  BY <1>1, <1>2, <1>5, ConstantFacts DEF VideosOut
<1> QED
  BY <1>1, <1>5, <1>6 DEF u, f

(* The stages of the layers that have a pipe.                              *)
LEMMA StackFacts ==
  ASSUME NEW f \in Frames
  PROVE  LET P == Layers \ f.isFBComposed
         IN  /\ DOMAIN StackMDP(f) = P /\ DOMAIN StackYUV(f) = P
             /\ \A i \in P :
                  /\ StackYUV(f)[i] = Cardinality(Below(P, i))
                  /\ StackMDP(f)[i] = Cardinality(Below(P, i))
                       + (IF \E j \in f.isFBComposed : j < i THEN 1 ELSE 0)
BY DEF StackMDP, StackYUV, Below

LEMMA StackTyped ==
  ASSUME NEW f \in Frames
  PROVE  /\ StackMDP(f) \in UNION {[S -> Layers] : S \in SUBSET Layers}
         /\ StackYUV(f) \in UNION {[S -> Layers] : S \in SUBSET Layers}
<1> DEFINE P == Layers \ f.isFBComposed
<1>1. P \subseteq Layers /\ f.isFBComposed \subseteq Layers
  BY DEF Frames
<1>2. ASSUME NEW i \in P PROVE StackMDP(f)[i] \in Layers /\ StackYUV(f)[i] \in Layers
  <2>1. Cardinality(Below(P, i)) \in 0 .. i /\ i \in 0 .. N - 1
    BY <1>1, BelowFacts DEF Layers
  <2>2. (\E j \in f.isFBComposed : j < i) => Cardinality(Below(P, i)) < i
    BY <1>1, BelowFacts
  <2>3. /\ StackYUV(f)[i] = Cardinality(Below(P, i))
        /\ StackMDP(f)[i] = Cardinality(Below(P, i))
                             + (IF \E j \in f.isFBComposed : j < i THEN 1 ELSE 0)
    BY StackFacts
  <2>4. StackMDP(f)[i] \in 0 .. i /\ StackYUV(f)[i] \in 0 .. i
    <3> DEFINE b == Cardinality(Below(P, i))
    <3>1. b \in Nat /\ b <= i /\ i \in Nat
      BY <2>1, ConstantFacts
    <3>2. ((\E j \in f.isFBComposed : j < i) => b < i) /\ StackYUV(f)[i] = b
          /\ StackMDP(f)[i] = b + (IF \E j \in f.isFBComposed : j < i THEN 1 ELSE 0)
      BY <2>2, <2>3
    <3> HIDE DEF b, P
    <3> QED
      BY <3>1, <3>2
  <2> QED
    BY <2>1, <2>4, ConstantFacts DEF Layers
<1>3. StackMDP(f) \in [P -> Layers] /\ StackYUV(f) \in [P -> Layers]
  BY <1>2 DEF StackMDP, StackYUV
<1> QED
  BY <1>1, <1>3

LEMMA BelowMonotone ==
  ASSUME NEW P, P \subseteq Layers, NEW i \in Layers, NEW j \in Layers, i <= j
  PROVE  Cardinality(Below(P, i)) <= Cardinality(Below(P, j))
<1>1. i \in Int /\ j \in Int /\ \A k \in P : k \in Int
  BY ConstantFacts
<1>2. \A k \in P : k < i => k < j
  BY <1>1
<1>3. Below(P, i) \subseteq Below(P, j) /\ Below(P, j) \subseteq Layers
  BY <1>2 DEF Below
<1> QED
  BY <1>3, LayersFinite, FS_Subset

(* The stages of a frame that leaves one run to the framebuffer: layers    *)
(* before the run are below its stage, layers after it above.              *)
LEMMA StagesOfBatched ==
  ASSUME NEW f \in Frames, Batched(f)
  PROVE  LET P == Layers \ f.isFBComposed
             z == StackMDP(f)
         IN  /\ \A i \in P :
                  /\ z[i] \in Nat
                  /\ z[i] < f.mdpCount + (IF f.fbCount = 0 THEN 0 ELSE 1)
                  /\ f.fbCount # 0 /\ i < f.fbZ => z[i] < f.fbZ
                  /\ f.fbCount # 0 /\ i >= f.fbZ => f.fbZ < z[i]
             /\ \A i, j \in P : i < j => z[i] < z[j]
<1> DEFINE fb == f.isFBComposed
           P  == Layers \ fb
           z  == StackMDP(f)
           b(i) == Cardinality(Below(P, i))
           over(i) == IF \E j \in fb : j < i THEN 1 ELSE 0
<1>1. fb \subseteq Layers /\ f.fbCount \in 0 .. N /\ f.mdpCount \in 0 .. N
      /\ Cardinality(fb) = f.fbCount /\ f.mdpCount + f.fbCount = N
  BY DEF Frames, Batched
<1>2. P \subseteq Layers /\ Cardinality(P) = f.mdpCount
  <2>1. Cardinality(P) = Cardinality(Layers) - Cardinality(fb)
    BY <1>1, CountWithout
  <2>2. Cardinality(P) = N - f.fbCount
    BY <1>1, <2>1, LayersCount
  <2> QED
    BY <1>1, <2>2, ConstantFacts
<1>3. f.fbCount = 0 => fb = {}
  BY <1>1, LayersFinite
<1>4. f.fbCount # 0 => f.fbZ \in Nat /\ f.fbZ \in Layers /\ fb = f.fbZ .. f.fbZ + f.fbCount - 1
  <2> SUFFICES ASSUME f.fbCount # 0
               PROVE  f.fbZ \in Nat /\ f.fbZ \in Layers /\ fb = f.fbZ .. f.fbZ + f.fbCount - 1
    OBVIOUS
  <2>1. f.fbZ \in Nat /\ fb = f.fbZ .. f.fbZ + f.fbCount - 1
    BY <1>1 DEF Batched
  <2>2. f.fbZ \in fb
    BY <1>1, <2>1
  <2> QED
    BY <1>1, <2>1, <2>2
<1>5. ASSUME NEW i \in P
      PROVE  /\ z[i] = b(i) + over(i) /\ b(i) \in Nat /\ b(i) < f.mdpCount /\ b(i) <= i
             /\ i \in Nat
  <2>1. z[i] = b(i) + over(i)
    BY StackFacts
  <2>2. b(i) \in 0 .. i /\ b(i) < Cardinality(P)
    BY <1>2, BelowFacts
  <2> HIDE DEF b, P
  <2> QED
    BY <1>2, <2>1, <2>2, ConstantFacts
<1>6. ASSUME NEW i \in P, f.fbCount # 0, i >= f.fbZ
      PROVE  over(i) = 1 /\ f.fbZ <= b(i)
  <2>1. f.fbZ \in fb /\ f.fbZ < i
    <3>1. f.fbZ \in fb
      BY <1>1, <1>4, <1>6
    <3> QED
      BY <1>4, <1>5, <1>6, <3>1
  <2>2. 0 .. f.fbZ - 1 \subseteq P
    <3> DEFINE zz == f.fbZ
               n  == f.fbCount
    <3>1. zz \in Nat /\ n \in Nat /\ fb = zz .. zz + n - 1 /\ zz \in 0 .. N - 1 /\ N \in Nat
      BY <1>1, <1>4, <1>6, ConstantFacts DEF Layers
    <3> HIDE DEF zz, n, fb
    <3>2. \A k \in 0 .. zz - 1 : k \notin fb /\ k \in 0 .. N - 1
      BY <3>1
    <3> QED
      BY <3>2 DEF zz, Layers
  <2>3. b(f.fbZ) = f.fbZ
    BY <1>2, <1>4, <1>6, <2>2, BelowFacts
  <2>4. b(f.fbZ) <= b(i)
    BY <1>2, <1>4, <1>6, <2>1, BelowMonotone
  <2> QED
    BY <2>1, <2>3, <2>4
<1>7. ASSUME NEW i \in P, f.fbCount # 0, i < f.fbZ
      PROVE  over(i) = 0
  <2> DEFINE zz == f.fbZ
             n  == f.fbCount
  <2>1. zz \in Nat /\ n \in Nat /\ fb = zz .. zz + n - 1 /\ i \in Nat /\ i < zz
    BY <1>1, <1>4, <1>5, <1>7
  <2> HIDE DEF zz, n, fb, P
  <2> QED
    BY <2>1
<1>8. ASSUME NEW i \in P
      PROVE  /\ z[i] \in Nat
             /\ z[i] < f.mdpCount + (IF f.fbCount = 0 THEN 0 ELSE 1)
             /\ f.fbCount # 0 /\ i < f.fbZ => z[i] < f.fbZ
             /\ f.fbCount # 0 /\ i >= f.fbZ => f.fbZ < z[i]
  <2>1. over(i) \in {0, 1} /\ (f.fbCount = 0 => over(i) = 0)
    BY <1>3
  <2>2. f.fbCount # 0 => f.fbZ \in Nat
    BY <1>4
  <2>3. f.mdpCount \in Nat
    BY <1>1
  <2>4. z[i] = b(i) + over(i) /\ b(i) \in Nat /\ b(i) < f.mdpCount /\ b(i) <= i
    BY <1>5
  <2>5. f.fbCount # 0 /\ i >= f.fbZ => over(i) = 1 /\ f.fbZ <= b(i)
    BY <1>6
  <2>6. f.fbCount # 0 /\ i < f.fbZ => over(i) = 0
    BY <1>7
  <2>7. i \in Nat
    BY <1>5
  <2> HIDE DEF b, z, P, over
  <2> QED
    BY <2>1, <2>2, <2>3, <2>4, <2>5, <2>6, <2>7
<1>9. ASSUME NEW i \in P, NEW j \in P, i < j
      PROVE  z[i] < z[j]
  <2>1. b(i) < b(j)
    BY <1>2, <1>9, BelowGrows
  <2>2. over(i) <= over(j) /\ over(i) \in {0, 1} /\ over(j) \in {0, 1}
    <3>1. i \in Int /\ j \in Int /\ \A k \in fb : k \in Int
      BY <1>1, ConstantFacts
    <3>2. \A k \in fb : k < i => k < j
      BY <1>9, <3>1
    <3> QED
      BY <3>2
  <2> HIDE DEF b, z, P, over
  <2> QED
    BY <1>5, <2>1, <2>2
<1> QED
  BY <1>8, <1>9

(* The stages of such a frame are in the order of the list.                *)
LEMMA BatchedInOrder ==
  ASSUME NEW f \in Frames, Batched(f), NEW i \in Layers, NEW j \in Layers,
         i < j, ~({i, j} \subseteq f.isFBComposed)
  PROVE  LET z(k) == IF k \in f.isFBComposed THEN f.fbZ ELSE StackMDP(f)[k]
         IN  z(i) < z(j)
<1> DEFINE fb == f.isFBComposed
           P  == Layers \ fb
           zz == f.fbZ
           n  == f.fbCount
           st == StackMDP(f)
<1>1. i \in Nat /\ j \in Nat
  BY ConstantFacts
<1>2. fb # {} => n # 0 /\ zz \in Nat /\ n \in Nat /\ fb = zz .. zz + n - 1
  <2>1. fb \subseteq Layers /\ n \in 0 .. N /\ f.mdpCount \in 0 .. N /\ Cardinality(fb) = n
    BY DEF Frames, Batched
  <2>2. fb # {} => n # 0
    BY <2>1, LayersFinite
  <2> QED
    BY <2>1, <2>2, ConstantFacts DEF Batched
<1>3. /\ \A k \in P : n # 0 /\ k < zz => st[k] < zz
      /\ \A k \in P : n # 0 /\ k >= zz => zz < st[k]
      /\ \A k, l \in P : k < l => st[k] < st[l]
  BY StagesOfBatched
<1> HIDE DEF fb, zz, n, st
<1>4. CASE i \in fb
  <2>1. j \in P /\ j >= zz /\ n # 0
    BY <1>1, <1>2, <1>4 DEF fb
  <2> QED
    BY <1>3, <1>4, <2>1 DEF fb, zz, st
<1>5. CASE i \notin fb /\ j \in fb
  <2>1. i \in P /\ i < zz /\ n # 0
    BY <1>1, <1>2, <1>5 DEF fb
  <2> QED
    BY <1>3, <1>5, <2>1 DEF fb, zz, st
<1>6. CASE i \notin fb /\ j \notin fb
  BY <1>3, <1>6 DEF fb, zz, st
<1> QED
  BY <1>4, <1>5, <1>6

LEMMA BatchedTyped ==
  ASSUME NEW f \in Frames, Batched(f)
  PROVE  /\ f.mdpCount \in Nat /\ f.fbCount \in Nat
         /\ f.fbCount = 0 => f.fbZ = -1
         /\ f.fbCount # 0 => f.fbZ \in Nat /\ f.fbZ <= f.mdpCount
<1>1. f.mdpCount \in Nat /\ f.fbCount \in Nat
  BY ConstantFacts DEF Frames
<1>2. f.fbCount = 0 => f.fbZ = -1
  BY DEF Batched, NOZ
<1>3. f.fbCount # 0 => f.fbZ \in 0 .. f.mdpCount
  BY DEF Batched
<1> QED
  BY <1>1, <1>2, <1>3

LEMMA StagesTyped == TypeOK => sMaxPipesPerMixer \in Nat \ {0}
BY ConstantFacts DEF TypeOK

(* A frame that is composed in full or in part is stacked as the list is,  *)
(* within the stages of the mixer.                                         *)
LEMMA StackedFrame ==
  ASSUME TypeOK, NEW f \in Frames, Batched(f), NEW needs \in BOOLEAN,
         NEW m \in {"full", "partial"},
         f.mdpCount + (IF f.fbCount = 0 THEN 0 ELSE 1) <= sMaxPipesPerMixer,
         Prepared(m, [f EXCEPT !.needsRedraw = needs], StackMDP(f))
  PROVE  /\ frame' \in Frames /\ frame'.needsRedraw = needs /\ Batched(frame')
         /\ frame'.isFBComposed = f.isFBComposed /\ Counts(frame') = Counts(f)
         /\ cache' = Counts(f) /\ cache' \in [mdpCount : 0 .. N, fbCount : 0 .. N, fbZ : NOZ .. N]
         /\ zOrder' \in UNION {[S -> Layers] : S \in SUBSET Layers}
         /\ StackFollowsList' /\ StagesSuffice'
<1>1. frame' = [f EXCEPT !.needsRedraw = needs] /\ zOrder' = StackMDP(f)
      /\ cache' = Counts(frame') /\ sMaxPipesPerMixer' = sMaxPipesPerMixer
  BY DEF Prepared, listing, config
<1>2. /\ frame' \in Frames /\ frame'.needsRedraw = needs
      /\ frame'.isFBComposed = f.isFBComposed /\ frame'.fbZ = f.fbZ
      /\ frame'.mdpCount = f.mdpCount /\ frame'.fbCount = f.fbCount
  BY <1>1 DEF Frames
<1>3. Batched(frame') /\ Counts(frame') = Counts(f)
  BY <1>2 DEF Batched, Counts
<1>4. Counts(f) \in [mdpCount : 0 .. N, fbCount : 0 .. N, fbZ : NOZ .. N]
  BY DEF Counts, Frames
<1>5. zOrder' \in UNION {[S -> Layers] : S \in SUBSET Layers}
  BY <1>1, StackTyped
<1>6. StackFollowsList'
  BY <1>1, <1>2, BatchedInOrder DEF StackFollowsList, zOf
<1>7. StagesSuffice'
  <2>1. DOMAIN zOrder' = Layers \ f.isFBComposed
    BY <1>1, StackFacts
  <2>2. ASSUME NEW i \in Layers \ f.isFBComposed
        PROVE  zOrder'[i] < sMaxPipesPerMixer /\ zOrder'[i] # f.fbZ
    <3>1. /\ zOrder'[i] \in Nat
          /\ zOrder'[i] < f.mdpCount + (IF f.fbCount = 0 THEN 0 ELSE 1)
          /\ f.fbCount # 0 /\ i < f.fbZ => zOrder'[i] < f.fbZ
          /\ f.fbCount # 0 /\ i >= f.fbZ => f.fbZ < zOrder'[i]
      BY <1>1, StagesOfBatched
    <3>2. i \in Nat /\ sMaxPipesPerMixer \in Nat
      BY ConstantFacts, StagesTyped
    <3> QED
      BY <3>1, <3>2, BatchedTyped
  <2>3. f.fbZ < sMaxPipesPerMixer
    BY BatchedTyped, StagesTyped
  <2> QED
    BY <1>1, <1>2, <1>3, <2>1, <2>2, <2>3 DEF StagesSuffice, Batched
<1> QED
  BY <1>1, <1>2, <1>3, <1>4, <1>5, <1>6, <1>7

-----------------------------------------------------------------------------
(* The initial state satisfies the inductive invariant.                    *)
LEMMA InitIInv == Init => IInv
<1> SUFFICES ASSUME Init PROVE IInv
  OBVIOUS
<1>1. frame \in Frames /\ cache \in [mdpCount : 0 .. N, fbCount : 0 .. N, fbZ : NOZ .. N]
  <2>1. 0 \in 0 .. N /\ NOZ \in NOZ .. N
    BY ConstantFacts DEF NOZ
  <2> QED
    BY <2>1, ResetFrame DEF Init, Frames
<1>2. zOrder \in UNION {[S -> Layers] : S \in SUBSET Layers}
  <2>1. <<>> \in [{} -> Layers]
    OBVIOUS
  <2> QED
    BY <2>1 DEF Init
<1>3. TypeOK
  BY <1>1, <1>2 DEF Init, TypeOK
<1>4. ShapeInv
  BY DEF Init, ShapeInv
<1>5. BufferInv /\ StackFollowsList /\ StagesSuffice
  BY DEF Init, BufferInv, KeptBufferIsCurrent, ShowsStale, StackFollowsList, Stacked, StagesSuffice
<1> QED
  BY <1>3, <1>4, <1>5 DEF IInv

(* Only a frame that is prepared for pipes is stacked, or keeps the buffer.*)
LEMMA NothingStacked ==
  ASSUME phase # "prepared" \/ mode \in {"none", "gpu", "anim"}
  PROVE  StackFollowsList /\ StagesSuffice /\ KeptBufferIsCurrent
BY DEF StackFollowsList, Stacked, StagesSuffice, KeptBufferIsCurrent, ShowsStale

LEMMA NothingStackedNext ==
  ASSUME phase' # "prepared" \/ mode' \in {"none", "gpu", "anim"}
  PROVE  StackFollowsList' /\ StagesSuffice' /\ KeptBufferIsCurrent'
BY DEF StackFollowsList, Stacked, StagesSuffice, KeptBufferIsCurrent, ShowsStale

(* One lemma per action: it preserves the inductive invariant.             *)

(* A new list says nothing of the frame before.                            *)
LEMMA NewListPreserves ==
  ASSUME IInv, NewList
  PROVE  IInv'
<1> USE DEF IInv, NewList, config
<1>1. TypeOK'
  BY DEF TypeOK
<1>2. ShapeInv'
  BY DEF ShapeInv
<1>3. BufferInv' /\ StackFollowsList' /\ StagesSuffice'
  BY NothingStackedNext DEF BufferInv
<1> QED
  BY <1>1, <1>2, <1>3

(* Layers that change no longer match the cache, if all layers did.        *)
LEMMA SameListPreserves ==
  ASSUME IInv, NEW U \in SUBSET Layers, SameList(U)
  PROVE  IInv'
<1> USE DEF IInv
<1>1. PICK back \in SUBSET (U \ hit) : hit' = (hit \ U) \cup back
  BY DEF SameList
<1>2. /\ phase = "idle" /\ phase' = "listed" /\ geometry' = FALSE /\ fresh' = fresh \ U
      /\ UNCHANGED <<sMaxPipesPerMixer, secondary, list, sIdleFallBack, animating, frame,
                     cache, zOrder, mode, drawn, uncached>>
  BY DEF SameList, config
<1>3. TypeOK'
  BY <1>1, <1>2 DEF TypeOK
<1>4. ShapeInv'
  BY <1>2 DEF ShapeInv, Yuv, VideosOut
<1>5. KeptLayers /\ hit = Layers => KeptLayers'
  BY <1>1, <1>2 DEF KeptLayers
<1>6. Yuv' = Yuv
  BY <1>2 DEF Yuv
<1>7. BufferInv'
  BY <1>2, <1>5, <1>6, NothingStackedNext DEF BufferInv
<1>8. StackFollowsList' /\ StagesSuffice'
  BY <1>2, NothingStackedNext
<1> QED
  BY <1>3, <1>4, <1>7, <1>8

(* The idle timeout only asks for a fallback.                              *)
LEMMA TimeoutPreserves ==
  ASSUME IInv, timeout_handler
  PROVE  IInv'
BY DEF timeout_handler, IInv, TypeOK, ShapeInv, BufferInv, KeptLayers, VideosOut, Yuv,
   KeptBufferIsCurrent, ShowsStale, StackFollowsList, Stacked, zOf, StagesSuffice,
   listing, config, buffer

(* A list MDPComp does not take leaves nothing of ours in the framebuffer. *)
LEMMA UnsupportedPreserves ==
  ASSUME IInv, PrepareUnsupported
  PROVE  IInv'
<1> USE DEF IInv, PrepareUnsupported, listing, config
<1>1. Counts(FrameReset) \in [mdpCount : 0 .. N, fbCount : 0 .. N, fbZ : NOZ .. N]
      /\ Counts(FrameReset).mdpCount = 0
  BY ResetFrame DEF Counts, Frames
<1>2. <<>> \in UNION {[S -> Layers] : S \in SUBSET Layers}
  <2>1. <<>> \in [{} -> Layers]
    OBVIOUS
  <2> QED
    BY <2>1
<1>3. TypeOK'
  BY <1>1, <1>2, ResetFrame DEF TypeOK
<1>4. ShapeInv'
  BY <1>1 DEF ShapeInv
<1>5. BufferInv' /\ StackFollowsList' /\ StagesSuffice'
  BY NothingStackedNext DEF BufferInv
<1> QED
  BY <1>3, <1>4, <1>5

(* A frame that goes to the GPU as a whole.                                *)
LEMMA ResetPreserves ==
  ASSUME IInv, NEW m \in {"gpu", "anim"}, NEW needs \in BOOLEAN,
         Prepared(m, [FrameReset EXCEPT !.needsRedraw = needs], <<>>),
         hit' \in SUBSET Layers, animating' \in BOOLEAN
  PROVE  IInv'
<1> DEFINE f == [FrameReset EXCEPT !.needsRedraw = needs]
<1> USE DEF IInv
<1>1. /\ phase' = "prepared" /\ mode' = m /\ frame' = f /\ zOrder' = <<>>
      /\ cache' = Counts(f)
      /\ UNCHANGED <<sMaxPipesPerMixer, secondary, list, geometry, sIdleFallBack, drawn,
                     fresh, uncached>>
  BY DEF Prepared, listing, config, buffer
<1>2. f \in Frames /\ f.mdpCount = 0
  BY ResetFrame DEF Frames
<1> HIDE DEF f
<1>3. Counts(f) \in [mdpCount : 0 .. N, fbCount : 0 .. N, fbZ : NOZ .. N]
      /\ Counts(f).mdpCount = 0
  BY <1>2 DEF Counts, Frames
<1>4. <<>> \in UNION {[S -> Layers] : S \in SUBSET Layers}
  <2>1. <<>> \in [{} -> Layers]
    OBVIOUS
  <2> QED
    BY <2>1
<1>5. TypeOK'
  BY <1>1, <1>2, <1>3, <1>4 DEF TypeOK
<1>6. ShapeInv'
  BY <1>1, <1>3 DEF ShapeInv
<1>7. BufferInv' /\ StackFollowsList' /\ StagesSuffice'
  BY <1>1, NothingStackedNext DEF BufferInv
<1> QED
  BY <1>5, <1>6, <1>7

LEMMA AnimatingPreserves ==
  ASSUME IInv, PrepareAnimating
  PROVE  IInv'
BY ResetPreserves DEF PrepareAnimating, IInv, TypeOK

LEMMA FallBackPreserves ==
  ASSUME IInv, FallBack
  PROVE  IInv'
<1>1. [FrameReset EXCEPT !.needsRedraw = TRUE] = FrameReset
  BY ResetFrame DEF Frames
<1>2. hit' \in SUBSET Layers /\ animating' \in BOOLEAN /\ Prepared("gpu", FrameReset, <<>>)
  BY DEF FallBack
<1>3. Prepared("gpu", [FrameReset EXCEPT !.needsRedraw = TRUE], <<>>)
  BY <1>1, <1>2 DEF Prepared
<1> QED
  BY <1>2, <1>3, ResetPreserves

(* All layers in pipes: nothing is left to the framebuffer.                *)
LEMMA FullBatched == Batched(FullFrame)
BY FullFrameFacts, FS_EmptySet, ConstantFacts DEF Batched

LEMMA FullPreserves ==
  ASSUME IInv, NEW free \in 0 .. NumPipes, PrepareFull(free)
  PROVE  IInv'
<1>1. CASE FallBack
  BY <1>1, FallBackPreserves
<1>2. CASE /\ Prepared("full", [FullFrame EXCEPT !.needsRedraw = FALSE], StackMDP(FullFrame))
           /\ animating' = FALSE /\ UNCHANGED hit
  <2> USE DEF IInv
  <2>1. FullFrame.mdpCount + (IF FullFrame.fbCount = 0 THEN 0 ELSE 1) <= sMaxPipesPerMixer
    BY FullFrameFacts, ConstantFacts DEF PrepareFull, fullMDPComp
  <2>2. /\ frame' \in Frames /\ frame'.isFBComposed = {} /\ cache' = Counts(frame')
        /\ cache' \in [mdpCount : 0 .. N, fbCount : 0 .. N, fbZ : NOZ .. N]
        /\ cache' = Counts(FullFrame)
        /\ zOrder' \in UNION {[S -> Layers] : S \in SUBSET Layers}
        /\ StackFollowsList' /\ StagesSuffice'
    <3> DEFINE f == FullFrame
               needs == FALSE
    <3>1. Prepared("full", [f EXCEPT !.needsRedraw = needs], StackMDP(f))
      BY <1>2
    <3>2. f \in Frames /\ Batched(f) /\ f.isFBComposed = {} /\ needs \in BOOLEAN
          /\ f.mdpCount + (IF f.fbCount = 0 THEN 0 ELSE 1) <= sMaxPipesPerMixer
      BY <2>1, FullFrameFacts, FullBatched
    <3> HIDE DEF f, needs
    <3>3. /\ frame' \in Frames /\ frame'.isFBComposed = {} /\ cache' = Counts(frame')
          /\ cache' \in [mdpCount : 0 .. N, fbCount : 0 .. N, fbZ : NOZ .. N]
          /\ cache' = Counts(f)
          /\ zOrder' \in UNION {[S -> Layers] : S \in SUBSET Layers}
          /\ StackFollowsList' /\ StagesSuffice'
      BY <3>1, <3>2, StackedFrame
    <3> QED
      BY <3>3 DEF f
  <2>3. /\ phase' = "prepared" /\ mode' = "full" /\ hit' = hit /\ animating' = FALSE
        /\ UNCHANGED <<sMaxPipesPerMixer, secondary, list, geometry, sIdleFallBack, drawn,
                       fresh, uncached>>
    BY <1>2 DEF Prepared, listing, config, buffer
  <2>4. TypeOK'
    BY <2>2, <2>3 DEF TypeOK
  <2>5. ShapeInv'
    BY <2>2, <2>3, FullFrameFacts DEF ShapeInv, Counts
  <2>6. BufferInv'
    BY <2>2, <2>3 DEF BufferInv, KeptBufferIsCurrent, ShowsStale
  <2> QED
    BY <2>2, <2>4, <2>5, <2>6
<1> QED
  BY <1>1, <1>2 DEF PrepareFull

(* Two frames composed in part with the same counts leave the same layers  *)
(* to the framebuffer; so do a frame of videos and one composed in part,   *)
(* of the same list, unless a video is among those the latter leaves.      *)
LEMMA SameCountsSameLayers ==
  ASSUME NEW f \in Frames, NEW g \in Frames, Batched(g), g.fbCount # 0,
         Counts(f) = Counts(g),
         Batched(f) \/ (VideosOut(f) /\ Yuv \cap g.isFBComposed = {})
  PROVE  f.isFBComposed = g.isFBComposed
<1>1. f.fbCount = g.fbCount /\ f.fbZ = g.fbZ
  BY DEF Counts
<1>2. CASE Batched(f)
  BY <1>1, <1>2 DEF Batched
<1>3. CASE VideosOut(f) /\ Yuv \cap g.isFBComposed = {}
  <2>1. g.isFBComposed \subseteq f.isFBComposed /\ f.isFBComposed \subseteq Layers
    BY <1>3 DEF VideosOut, Frames
  <2>2. Cardinality(g.isFBComposed) = Cardinality(f.isFBComposed)
    BY <1>1, <1>3 DEF VideosOut, Batched
  <2> QED
    BY <2>1, <2>2, SameCount
<1> QED
  BY <1>2, <1>3

LEMMA PartialPreserves ==
  ASSUME IInv, NEW free \in 0 .. NumPipes, NEW mDMAInUse \in BOOLEAN,
         PreparePartial(free, mDMAInUse)
  PROVE  IInv'
<1> DEFINE f == PartialFrame(mDMAInUse)
<1>1. CASE FallBack
  BY <1>1, FallBackPreserves
<1>2. CASE /\ Prepared("partial", [f EXCEPT !.needsRedraw = FullNeedsRedraw(f)], StackMDP(f))
           /\ hit' = Layers /\ animating' = FALSE
  <2> USE DEF IInv
  <2>1. f \in Frames /\ Batched(f) /\ f.isFBComposed \subseteq hit \cup Yuv
    BY PartialFrameFacts DEF TypeOK
  <2>2. f.mdpCount <= sMaxPipesPerMixer - 1 /\ phase = "listed"
    BY DEF PreparePartial, partialMDPComp, PartialFrame
  <2>3. FullNeedsRedraw(f) \in BOOLEAN
    BY DEF FullNeedsRedraw
  <2>4. f.mdpCount + (IF f.fbCount = 0 THEN 0 ELSE 1) <= sMaxPipesPerMixer
    BY <2>1, <2>2, BatchedTyped, StagesTyped
  <2> HIDE DEF f
  <2>5. /\ frame' \in Frames /\ frame'.needsRedraw = FullNeedsRedraw(f) /\ Batched(frame')
        /\ frame'.isFBComposed = f.isFBComposed /\ cache' = Counts(frame')
        /\ cache' \in [mdpCount : 0 .. N, fbCount : 0 .. N, fbZ : NOZ .. N]
        /\ zOrder' \in UNION {[S -> Layers] : S \in SUBSET Layers}
        /\ StackFollowsList' /\ StagesSuffice'
    BY <1>2, <2>1, <2>3, <2>4, StackedFrame
  <2>6. /\ phase' = "prepared" /\ mode' = "partial" /\ hit' = Layers /\ animating' = FALSE
        /\ UNCHANGED <<sMaxPipesPerMixer, secondary, list, geometry, sIdleFallBack, drawn,
                       fresh, uncached>>
    BY <1>2 DEF Prepared, listing, config, buffer
  <2>7. TypeOK'
    BY <2>5, <2>6 DEF TypeOK
  <2>8. ShapeInv'
    BY <2>5, <2>6 DEF ShapeInv
  <2>9. KeptBufferIsCurrent'
    <3> SUFFICES ASSUME f.isFBComposed # {}, ~FullNeedsRedraw(f), ~uncached,
                        Yuv \cap f.isFBComposed = {}
                 PROVE  drawn = f.isFBComposed /\ f.isFBComposed \subseteq fresh
      BY <2>5, <2>6 DEF KeptBufferIsCurrent, ShowsStale, Yuv
    <3>1. f.fbCount # 0
      BY <2>1, LayersFinite DEF Batched, Frames
    <3>2. Counts(f) = cache /\ f.mdpCount # 0 /\ ~geometry
      BY <3>1 DEF FullNeedsRedraw
    <3>3. cache.fbCount # 0 /\ cache.mdpCount # 0
      BY <3>1, <3>2 DEF Counts
    <3>4. mode \in {"partial", "video"} /\ cache = Counts(frame)
      BY <3>2, <3>3 DEF ShapeInv, TypeOK
    <3>5. Batched(frame) \/ VideosOut(frame)
      BY <2>2, <3>2, <3>4 DEF ShapeInv
    <3>6. frame.isFBComposed = f.isFBComposed
      BY <2>1, <3>1, <3>2, <3>4, <3>5, SameCountsSameLayers DEF TypeOK
    <3>7. frame.fbCount # 0
      BY <3>3, <3>4 DEF Counts
    <3>8. KeptLayers
      BY <2>2, <3>2, <3>4, <3>6, <3>7 DEF BufferInv
    <3> QED
      BY <2>1, <3>6, <3>8 DEF KeptLayers
  <2>10. BufferInv'
    BY <2>6, <2>9 DEF BufferInv
  <2> QED
    BY <2>5, <2>7, <2>8, <2>10
<1> QED
  BY <1>1, <1>2 DEF PreparePartial

(* Videos in pipes, the framebuffer over them: it is always drawn.         *)
LEMMA VideoPreserves ==
  ASSUME IInv, NEW free \in 0 .. NumPipes, NEW blocked \in BOOLEAN, NEW mDMAInUse \in BOOLEAN,
         PrepareVideo(free, blocked, mDMAInUse)
  PROVE  IInv'
<1>1. CASE FallBack
  BY <1>1, FallBackPreserves
<1>2. CASE ~FallBack
  <2> USE DEF IInv
  <2>1. PICK doable \in SUBSET Yuv :
          /\ isOnlyVideoDoable(doable, free)
          /\ Prepared("video", VideoFrame(doable), StackYUV(VideoFrame(doable)))
          /\ hit' \in {Layers, hit} /\ animating' = FALSE
    BY <1>2 DEF PrepareVideo
  <2> DEFINE f == VideoFrame(doable)
             u == updateYUV(FrameReset, doable)
             P == Layers \ f.isFBComposed
  <2>2. f \in Frames /\ VideosOut(f) /\ f.needsRedraw = TRUE
        /\ f.mdpCount = u.mdpCount /\ f.fbCount = u.fbCount
    BY VideoFrameFacts
  <2>3. f.mdpCount <= sMaxPipesPerMixer - (IF f.fbCount # 0 THEN 1 ELSE 0)
    BY <2>1, <2>2 DEF isOnlyVideoDoable
  <2> HIDE DEF f, u
  <2>4. /\ phase' = "prepared" /\ mode' = "video" /\ frame' = f /\ zOrder' = StackYUV(f)
        /\ cache' = Counts(f)
        /\ UNCHANGED <<sMaxPipesPerMixer, secondary, list, geometry, sIdleFallBack, drawn,
                       fresh, uncached>>
    BY <2>1 DEF Prepared, listing, config, buffer, f
  <2>5. Counts(f) \in [mdpCount : 0 .. N, fbCount : 0 .. N, fbZ : NOZ .. N]
    BY <2>2 DEF Counts, Frames
  <2>6. TypeOK'
    <3>1. zOrder' \in UNION {[S -> Layers] : S \in SUBSET Layers}
      BY <2>2, <2>4, StackTyped
    <3>2. hit' \in SUBSET Layers /\ animating' \in BOOLEAN
      BY <2>1 DEF TypeOK
    <3> QED
      BY <2>2, <2>4, <2>5, <3>1, <3>2 DEF TypeOK
  <2>7. ShapeInv'
    BY <2>2, <2>4 DEF ShapeInv, VideosOut, Yuv
  <2>8. BufferInv' /\ StackFollowsList'
    BY <2>4 DEF BufferInv, KeptBufferIsCurrent, ShowsStale, StackFollowsList, Stacked
  <2>9. StagesSuffice'
    <3>1. /\ Cardinality(f.isFBComposed) = f.fbCount /\ f.mdpCount + f.fbCount = N
          /\ f.fbZ = (IF f.fbCount = 0 THEN NOZ ELSE f.mdpCount)
          /\ f.mdpCount \in Nat /\ f.fbCount \in Nat
      BY <2>2, ConstantFacts DEF VideosOut, Frames
    <3>2. P \subseteq Layers /\ Cardinality(P) = f.mdpCount /\ f.isFBComposed \subseteq Layers
      <4>1. f.isFBComposed \subseteq Layers
        BY <2>2 DEF Frames
      <4>2. Cardinality(P) = Cardinality(Layers) - Cardinality(f.isFBComposed)
        BY <4>1, CountWithout
      <4>3. Cardinality(P) = N - f.fbCount
        BY <3>1, <4>2, LayersCount
      <4> QED
        BY <3>1, <4>1, <4>3
    <3>3. DOMAIN zOrder' = P
      BY <2>2, <2>4, StackFacts
    <3>4. ASSUME NEW i \in P
          PROVE  zOrder'[i] < sMaxPipesPerMixer /\ zOrder'[i] # f.fbZ
      <4>1. zOrder'[i] = Cardinality(Below(P, i))
        BY <2>2, <2>4, StackFacts
      <4>2. Cardinality(Below(P, i)) \in 0 .. i /\ Cardinality(Below(P, i)) < Cardinality(P)
            /\ i \in Nat
        BY <3>2, BelowFacts, ConstantFacts
      <4>3. zOrder'[i] \in Nat /\ zOrder'[i] < f.mdpCount
        BY <3>2, <4>1, <4>2
      <4> QED
        BY <2>3, <3>1, <4>3, StagesTyped DEF NOZ
    <3>5. f.fbZ < sMaxPipesPerMixer
      BY <2>3, <3>1, StagesTyped DEF NOZ
    <3> QED
      BY <2>4, <3>1, <3>3, <3>4, <3>5 DEF StagesSuffice
  <2> QED
    BY <2>6, <2>7, <2>8, <2>9
<1> QED
  BY <1>1, <1>2

(* What is drawn in hwc_set is what the frame left to the framebuffer.     *)
LEMMA SetPreserves ==
  ASSUME IInv, Set
  PROVE  IInv'
<1> USE DEF IInv
<1>1. /\ phase = "prepared" /\ phase' = "idle" /\ sIdleFallBack' = FALSE
      /\ UNCHANGED <<sMaxPipesPerMixer, secondary, list, geometry, hit, animating, frame,
                     cache, zOrder, mode>>
  BY DEF Set, listing, config
<1>2. \/ /\ ToDraw # {} /\ drawn' = ToDraw /\ fresh' = ToDraw
         /\ uncached' = (mode = "video" /\ hit # Layers)
      \/ /\ ToDraw = {} /\ UNCHANGED <<drawn, fresh, uncached>>
  BY DEF Set, buffer
<1>3. frame.isFBComposed \subseteq Layers
      /\ ToDraw = (IF frame.needsRedraw THEN frame.isFBComposed ELSE {})
  BY DEF ToDraw, TypeOK, Frames
<1>4. TypeOK'
  <2>1. drawn' \in SUBSET Layers /\ fresh' \in SUBSET drawn' /\ uncached' \in BOOLEAN
    BY <1>2, <1>3 DEF TypeOK
  <2> QED
    BY <1>1, <2>1 DEF TypeOK
<1>5. ShapeInv'
  BY <1>1 DEF ShapeInv, VideosOut, Yuv
<1>6. BufferInv'
  <2>1. KeptBufferIsCurrent'
    BY <1>1, NothingStackedNext
  <2> SUFFICES ASSUME mode \in {"partial", "video"}, frame.fbCount # 0, ~uncached',
                      ~(mode = "partial" /\ Yuv \cap frame.isFBComposed # {})
               PROVE  KeptLayers' /\ hit' = Layers
    <3>1. phase' = "idle" /\ mode' = mode /\ frame' = frame /\ Yuv' = Yuv
      BY <1>1 DEF Yuv
    <3> QED
      BY <2>1, <3>1 DEF BufferInv
  <2>2. frame.isFBComposed # {}
    <3>1. Cardinality(frame.isFBComposed) = frame.fbCount
      BY <1>1 DEF ShapeInv, Batched, VideosOut
    <3> QED
      BY <3>1, FS_EmptySet
  <2>3. CASE ToDraw # {}
    BY <1>1, <1>2, <1>3, <2>3 DEF KeptLayers, BufferInv
  <2>4. CASE ToDraw = {}
    <3>1. ~frame.needsRedraw /\ mode = "partial" /\ ~uncached
      BY <1>1, <1>2, <1>3, <2>2, <2>4 DEF ShapeInv
    <3>2. drawn = frame.isFBComposed /\ frame.isFBComposed \subseteq fresh
      BY <1>1, <2>2, <3>1 DEF BufferInv, KeptBufferIsCurrent, ShowsStale
    <3> QED
      BY <1>1, <1>2, <2>4, <3>1, <3>2 DEF KeptLayers, BufferInv
  <2> QED
    BY <2>3, <2>4
<1>7. StackFollowsList' /\ StagesSuffice'
  BY <1>1, NothingStackedNext
<1> QED
  BY <1>4, <1>5, <1>6, <1>7

LEMMA StepPreserves ==
  ASSUME IInv, [Next]_vars
  PROVE  IInv'
<1>1. CASE UNCHANGED vars
  BY <1>1 DEF vars, listing, config, buffer, IInv, TypeOK, ShapeInv, BufferInv, KeptLayers,
     VideosOut, Yuv, KeptBufferIsCurrent, ShowsStale, StackFollowsList, Stacked, zOf,
     StagesSuffice
<1>2. CASE Next
  BY <1>2, NewListPreserves, SameListPreserves, TimeoutPreserves, UnsupportedPreserves,
     AnimatingPreserves, FallBackPreserves, FullPreserves, PartialPreserves, VideoPreserves,
     SetPreserves DEF Next, Prepare, PrepareNotDoable
<1> QED
  BY <1>1, <1>2

-----------------------------------------------------------------------------
(* Theorems.                                                               *)

(* What the frame, the layer cache and the content of the framebuffer say  *)
(* of each other, as IInv states it.                                       *)
THEOREM InductiveInvariant == Spec => []IInv
BY InitIInv, StepPreserves, PTL DEF Spec

(* However many layers a list has, the stages programMDP hands out show    *)
(* them in its order, with the framebuffer at the place of its batch.      *)
THEOREM StackOrder == Spec => []StackFollowsList
<1>1. IInv => StackFollowsList
  BY DEF IInv
<1> QED
  BY <1>1, InductiveInvariant, PTL

(* What MDPComp accepts has a stage of the mixer for every pipe and one    *)
(* for the framebuffer, no two of them the same.                           *)
THEOREM EnoughStages == Spec => []StagesSuffice
<1>1. IInv => StagesSuffice
  BY DEF IInv
<1> QED
  BY <1>1, InductiveInvariant, PTL

(* A framebuffer MDPComp does not draw again shows the present content of  *)
(* the layers left to it, but for the two cases the property names.        *)
THEOREM KeptBuffer == Spec => []KeptBufferIsCurrent
<1>1. IInv => KeptBufferIsCurrent
  BY DEF IInv, BufferInv
<1> QED
  BY <1>1, InductiveInvariant, PTL
=============================================================================
