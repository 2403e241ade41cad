------------------------------ MODULE FrameComp ------------------------------
(***************************************************************************)
(* How MDPComp composes the frames of one display: which layers go through *)
(* pipes of the MDP, which through the framebuffer, in which order they    *)
(* are stacked, and when the framebuffer is not drawn again because the    *)
(* layer cache says that nothing in it has changed.                        *)
(*                                                                         *)
(* Two facts of a layer are followed: whether its buffer is the one the    *)
(* cache remembers (hit), and whether the framebuffer holds what the       *)
(* layer now shows (fresh).  Buffers are recycled, so a layer whose        *)
(* content is new may come with a handle the cache has seen.               *)
(***************************************************************************)
EXTENDS Integers, FiniteSets

CONSTANTS
  N,                  (* layers of a list MDPComp takes                    *)
  Kinds,              (* kinds of layers, out of AllKinds                  *)
  MAX_PIPES_PER_MIXER,(* stages of a mixer                                 *)
  NumPipes,           (* most pipes a display may find free                *)
  NumDMAPipes         (* of those, set aside when the rotator is needed    *)

AllKinds == {"rgb", "unfit", "yuv", "rotated"}

ASSUME FrameCompAssumption ==
  /\ {N, MAX_PIPES_PER_MIXER, NumPipes} \subseteq Nat \ {0}
  /\ NumDMAPipes \in Nat /\ Kinds \subseteq AllKinds

Layers == 0 .. N - 1
MAX_SEC_LAYERS == 1
NOZ == -1

VARIABLES
  sMaxPipesPerMixer, (* what the debug property leaves of the stages       *)
  secondary,    (* mDpy is not the primary display                         *)
  list,         (* list[i]: the kind of layer i                            *)
  hit,          (* the layers whose handle is the one mCachedFrame holds   *)
  geometry,     (* HWC_GEOMETRY_CHANGED of the list                        *)
  sIdleFallBack,
  animating,    (* mAnimationState of the display is ANIMATION_STARTED     *)
  frame,        (* mCurrentFrame                                           *)
  cache,        (* the counts of mCachedFrame                              *)
  zOrder,       (* of the layers that have a pipe                          *)
  mode,         (* the path MDPComp::prepare took                          *)
  phase,        (* where the draw cycle is                                 *)
  drawn,        (* the layers the framebuffer was last drawn with          *)
  fresh,        (* those of them that have not changed since               *)
  uncached      (* the framebuffer was last drawn by a frame that did not
                   bring the layer cache up to date (history)              *)

config  == <<sMaxPipesPerMixer, secondary>>
listing == <<config, list, geometry>>
buffer  == <<drawn, fresh, uncached>>
vars == <<listing, hit, sIdleFallBack, animating, frame, cache, zOrder, mode,
          phase, buffer>>

Frames == [isFBComposed : SUBSET Layers, mdpCount : 0 .. N, fbCount : 0 .. N,
           fbZ : NOZ .. N, needsRedraw : BOOLEAN]

TypeOK ==
  /\ sMaxPipesPerMixer \in {MAX_PIPES_PER_MIXER, 1} /\ secondary \in BOOLEAN
  /\ list \in [Layers -> Kinds]
  /\ hit \in SUBSET Layers /\ geometry \in BOOLEAN
  /\ sIdleFallBack \in BOOLEAN /\ animating \in BOOLEAN
  /\ frame \in Frames
  /\ cache \in [mdpCount : 0 .. N, fbCount : 0 .. N, fbZ : NOZ .. N]
  /\ zOrder \in UNION {[S -> Layers] : S \in SUBSET Layers}
  /\ mode \in {"none", "gpu", "anim", "full", "partial", "video"}
  /\ phase \in {"idle", "relist", "listed", "prepared"}
  /\ drawn \in SUBSET Layers /\ fresh \in SUBSET drawn
  /\ uncached \in BOOLEAN

-----------------------------------------------------------------------------
(* The parts of MDPComp::prepare, as functions of mCurrentFrame.           *)

(* FrameInfo::reset: everything in the framebuffer.                        *)
FrameReset ==
  [isFBComposed |-> Layers, mdpCount |-> 0, fbCount |-> N, fbZ |-> 0,
   needsRedraw |-> TRUE]

(* LayerCache::updateCounts.                                               *)
Counts(f) == [mdpCount |-> f.mdpCount, fbCount |-> f.fbCount, fbZ |-> f.fbZ]

(* What setListStats finds out.                                            *)
Yuv == {i \in Layers : list[i] \in {"yuv", "rotated"}}
mNeedsRotator == \E i \in Layers : list[i] = "rotated"

(* isSupportedForMDPComp and isValidDimension.                             *)
isSupportedForMDPComp(i) == list[i] # "unfit"

(* isYUVDoable, for a list without layers to skip or to secure.            *)
isYUVDoable(i, mDMAInUse) ==
  isSupportedForMDPComp(i) /\ ~(mNeedsRotator /\ mDMAInUse)

Recount(f, fbComposed, fbs) ==
  [f EXCEPT !.isFBComposed = fbComposed, !.fbCount = fbs, !.mdpCount = N - fbs]

(* updateLayerCache: a layer whose handle is cached is taken to be         *)
(* unchanged.  The cache then holds the handle of every layer.             *)
updateLayerCache(f) == Recount(f, hit, Cardinality(hit))

(* updateYUV.                                                              *)
updateYUV(f, doable) ==
  LET in  == (Yuv \ doable) \ f.isFBComposed
      out == Yuv \cap doable \cap f.isFBComposed IN
  Recount(f, (f.isFBComposed \cup in) \ out,
          f.fbCount + Cardinality(in) - Cardinality(out))

(* The first of the longest runs of layers in the framebuffer.             *)
Runs(S) == {r \in Layers \X (1 .. N) : r[1] .. r[1] + r[2] - 1 \subseteq S}
MaxBatch(S) ==
  CHOOSE r \in Runs(S) : \A q \in Runs(S) :
    q[2] < r[2] \/ (q[2] = r[2] /\ r[1] <= q[1])

(* Faulty: the z-order of the batch is not set.                            *)
batchLayersNoZ(f) ==
  LET r == MaxBatch(f.isFBComposed)
      out == Layers \ (r[1] .. r[1] + r[2]) IN
  IF f.fbCount = 0 THEN [f EXCEPT !.fbZ = NOZ]
  ELSE IF f.mdpCount = 0 THEN [f EXCEPT !.fbZ = 0]
  ELSE Recount(f, f.isFBComposed \ out, r[2])

(* batchLayers: one run stays in the framebuffer, every other layer is     *)
(* pulled out.  The loop that pulls them out jumps over the batch and the  *)
(* layer after it.                                                         *)
batchLayers(f) ==
  LET r == MaxBatch(f.isFBComposed)
      out == Layers \ (r[1] .. r[1] + r[2]) IN
  IF f.fbCount = 0 THEN [f EXCEPT !.fbZ = NOZ]
  ELSE IF f.mdpCount = 0 THEN [f EXCEPT !.fbZ = 0]
  ELSE [Recount(f, f.isFBComposed \ out, r[2]) EXCEPT !.fbZ = r[1]]

batchFails(f) ==
  LET r == MaxBatch(f.isFBComposed)
      out == Layers \ (r[1] .. r[1] + r[2]) IN
  /\ f.fbCount # 0 /\ f.mdpCount # 0
  /\ \E i \in out : ~isSupportedForMDPComp(i)

(* getAvailablePipes, on top of Overlay::availablePipes.                   *)
getAvailablePipes(f, free) ==
  free - (IF mNeedsRotator THEN NumDMAPipes ELSE 0)
       - (IF f.fbCount # 0 THEN 1 ELSE 0)

EnoughPipes(f, free) == f.mdpCount <= getAvailablePipes(f, free)

(* fullMDPComp.                                                            *)
FullFrame == [FrameReset EXCEPT !.isFBComposed = {}, !.mdpCount = N,
                                !.fbCount = 0, !.fbZ = NOZ]
fullMDPComp(free) ==
  /\ ~(secondary /\ N > MAX_SEC_LAYERS)
  /\ \A i \in Layers : isSupportedForMDPComp(i)
  /\ N <= sMaxPipesPerMixer
  /\ EnoughPipes(FullFrame, free)

(* Faulty: no stage of the mixer is kept for the framebuffer.              *)
partialMDPCompNoStage(free, mDMAInUse) ==
  LET f == updateYUV(updateLayerCache(FrameReset),
                     {i \in Yuv : isYUVDoable(i, mDMAInUse)})
      g == batchLayers(f) IN
  /\ \A i \in Layers \ hit : isSupportedForMDPComp(i)
  /\ ~batchFails(f)
  /\ ~(secondary /\ g.mdpCount > MAX_SEC_LAYERS)
  /\ g.mdpCount <= sMaxPipesPerMixer
  /\ EnoughPipes(g, free)

(* partialMDPComp.                                                         *)
PartialFrame(mDMAInUse) ==
  batchLayers(updateYUV(updateLayerCache(FrameReset),
                        {i \in Yuv : isYUVDoable(i, mDMAInUse)}))
partialMDPComp(free, mDMAInUse) ==
  LET f == updateYUV(updateLayerCache(FrameReset),
                     {i \in Yuv : isYUVDoable(i, mDMAInUse)})
      g == batchLayers(f) IN
  /\ \A i \in Layers \ hit : isSupportedForMDPComp(i)
  /\ ~batchFails(f)
  /\ ~(secondary /\ g.mdpCount > MAX_SEC_LAYERS)
  /\ g.mdpCount <= sMaxPipesPerMixer - 1
  /\ EnoughPipes(g, free)

(* isOnlyVideoDoable, and the framebuffer over the videos.                 *)
VideoFrame(doable) ==
  LET f == updateYUV(FrameReset, doable) IN
  [f EXCEPT !.fbZ = IF f.fbCount # 0 THEN f.mdpCount ELSE NOZ]
isOnlyVideoDoable(doable, free) ==
  LET f == updateYUV(FrameReset, doable) IN
  /\ f.mdpCount # 0
  /\ f.mdpCount <= sMaxPipesPerMixer - (IF f.fbCount # 0 THEN 1 ELSE 0)
  /\ EnoughPipes(f, free)

(* Faulty: only the number of layers in pipes is compared.                 *)
FullNeedsRedrawByPipes(f) ==
  f.fbCount # 0 /\ (f.mdpCount # cache.mdpCount \/ f.mdpCount = 0 \/ geometry)

(* Whether the framebuffer is drawn again, in a frame composed in full or  *)
(* in part (none of these has a layer to skip).                            *)
FullNeedsRedraw(f) ==
  f.fbCount # 0 /\ (Counts(f) # cache \/ f.mdpCount = 0 \/ geometry)

(* programMDP: the layers in pipes are stacked in the order of the list,   *)
(* the batch of the framebuffer counts as one.                             *)
StackMDP(f) ==
  [i \in Layers \ f.isFBComposed |->
     Cardinality({j \in Layers \ f.isFBComposed : j < i})
     + (IF \E j \in f.isFBComposed : j < i THEN 1 ELSE 0)]

(* programYUV.                                                             *)
StackYUV(f) ==
  [i \in Layers \ f.isFBComposed |->
     Cardinality({j \in Layers \ f.isFBComposed : j < i})]

-----------------------------------------------------------------------------
(* init: debug.mdpcomp.maxpermixer, if not 0, leaves one stage whatever it *)
(* says.                                                                   *)
Init ==
  /\ sMaxPipesPerMixer \in {MAX_PIPES_PER_MIXER, 1}
  /\ secondary \in BOOLEAN /\ list \in [Layers -> Kinds]
  /\ hit = {} /\ geometry = TRUE
  /\ sIdleFallBack = FALSE /\ animating = FALSE
  /\ frame = [FrameReset EXCEPT !.fbCount = 0]
  /\ cache = [mdpCount |-> 0, fbCount |-> 0, fbZ |-> NOZ]
  /\ zOrder = <<>> /\ mode = "none" /\ phase = "relist"
  /\ drawn = {} /\ fresh = {} /\ uncached = FALSE

(* SurfaceFlinger comes with another list of layers.                       *)
NewList ==
  /\ phase \in {"idle", "relist"} /\ phase' = "listed"
  /\ list' \in [Layers -> Kinds] /\ hit' \in SUBSET Layers
  /\ geometry' = TRUE /\ fresh' = {}
  /\ UNCHANGED <<config, sIdleFallBack, animating, frame, cache, zOrder,
                 mode, drawn, uncached>>

(* The same layers, those of U with new content: such a layer comes with   *)
(* another handle than in the last frame, which may be one the cache has.  *)
SameList(U) ==
  /\ phase = "idle" /\ phase' = "listed"
  /\ \E back \in SUBSET (U \ hit) : hit' = (hit \ U) \cup back
  /\ geometry' = FALSE /\ fresh' = fresh \ U
  /\ UNCHANGED <<config, list, sIdleFallBack, animating, frame, cache,
                 zOrder, mode, drawn, uncached>>

(* timeout_handler, in the thread of the idle invalidator.                 *)
timeout_handler ==
  /\ ~sIdleFallBack /\ sIdleFallBack' = TRUE
  /\ UNCHANGED <<listing, hit, animating, frame, cache, zOrder, mode, phase,
                 buffer>>

Prepared(m, f, z) ==
  /\ phase' = "prepared" /\ mode' = m /\ frame' = f /\ zOrder' = z
  /\ cache' = Counts(f)
  /\ UNCHANGED <<listing, sIdleFallBack, buffer>>

(* A list with no layers, or with too many: all in the framebuffer, and    *)
(* the handles of the cache stay.  None of our layers is drawn.            *)
PrepareUnsupported ==
  /\ phase = "idle" /\ phase' = "relist"
  /\ mode' = "gpu" /\ frame' = FrameReset /\ zOrder' = <<>>
  /\ cache' = Counts(FrameReset)
  /\ sIdleFallBack' = FALSE
  /\ drawn' = {} /\ fresh' = {} /\ uncached' = FALSE
  /\ UNCHANGED <<listing, hit, animating>>

(* The framebuffer is drawn when an animation starts, and kept until it    *)
(* ends.                                                                   *)
PrepareAnimating ==
  /\ phase = "listed"
  /\ Prepared("anim", [FrameReset EXCEPT !.needsRedraw = ~animating], <<>>)
  /\ animating' = TRUE
  /\ UNCHANGED hit

(* MDPComp::reset: the frame is composed by the GPU, and the cache takes   *)
(* the handles of all its layers.                                          *)
FallBack ==
  /\ Prepared("gpu", FrameReset, <<>>)
  /\ hit' = Layers /\ animating' = FALSE

(* isFrameDoable does not allow the MDP: disabled, a padding round, or an  *)
(* external display being configured.                                      *)
PrepareNotDoable == phase = "listed" /\ FallBack

(* isFullFrameDoable: other conditions than the idle fallback (layers to   *)
(* skip or to secure, plane alpha, scaled alpha...) are arbitrary.         *)
MayTryFull(blocked) == ~blocked /\ ~sIdleFallBack

PrepareFull(free) ==
  /\ phase = "listed" /\ MayTryFull(FALSE)
  /\ fullMDPComp(free)
  /\ \/ Prepared("full", [FullFrame EXCEPT !.needsRedraw = FALSE],
                 StackMDP(FullFrame))
        /\ animating' = FALSE /\ UNCHANGED hit
     \/ FallBack                       (* programMDP fails                 *)

PreparePartial(free, mDMAInUse) ==
  LET f == PartialFrame(mDMAInUse) IN
  /\ phase = "listed" /\ MayTryFull(FALSE)
  /\ ~fullMDPComp(free)
  /\ partialMDPComp(free, mDMAInUse)
  /\ \/ Prepared("partial", [f EXCEPT !.needsRedraw = FullNeedsRedraw(f)],
                 StackMDP(f))
        /\ hit' = Layers /\ animating' = FALSE
     \/ FallBack                       (* so does the framebuffer's pipe   *)

(* Videos only, or nothing.  The cache is up to date only if partialMDPComp*)
(* was tried before.                                                       *)
PrepareVideo(free, blocked, mDMAInUse) ==
  LET tried == MayTryFull(blocked) IN
  /\ phase = "listed"
  /\ tried => ~fullMDPComp(free) /\ ~partialMDPComp(free, mDMAInUse)
  /\ \E doable \in SUBSET {i \in Yuv : isYUVDoable(i, mDMAInUse)} :
       /\ tried => doable = {i \in Yuv : isYUVDoable(i, mDMAInUse)}
       /\ \/ /\ isOnlyVideoDoable(doable, free)
             /\ Prepared("video", VideoFrame(doable),
                         StackYUV(VideoFrame(doable)))
             /\ hit' = IF tried THEN Layers ELSE hit
             /\ animating' = FALSE
          \/ FallBack                  (* not doable, or a pipe fails      *)

(* setMDPCompLayerFlags: layers in the framebuffer that need not be drawn  *)
(* are marked as if they had a pipe.                                       *)
ToDraw == IF frame.needsRedraw THEN frame.isFBComposed ELSE {}

(* SurfaceFlinger draws the framebuffer if some layer is left to it, then  *)
(* hwc_set shows the frame and ends with resetIdleFallBack.                *)
Set ==
  /\ phase = "prepared" /\ phase' = "idle"
  /\ IF ToDraw # {}
     THEN /\ drawn' = ToDraw /\ fresh' = ToDraw
          /\ uncached' = (mode = "video" /\ hit # Layers)
     ELSE UNCHANGED buffer
  /\ sIdleFallBack' = FALSE
  /\ UNCHANGED <<listing, hit, animating, frame, cache, zOrder, mode>>

Prepare ==
  \/ PrepareUnsupported \/ PrepareAnimating \/ PrepareNotDoable
  \/ \E free \in 0 .. NumPipes :
       \/ PrepareFull(free)
       \/ \E mDMAInUse \in BOOLEAN :
            \/ PreparePartial(free, mDMAInUse)
            \/ \E blocked \in BOOLEAN : PrepareVideo(free, blocked, mDMAInUse)

Next == NewList \/ (\E U \in SUBSET Layers : SameList(U)) \/ timeout_handler
        \/ Prepare \/ Set

Spec == Init /\ [][Next]_vars

-----------------------------------------------------------------------------
Stacked == phase = "prepared" /\ mode \in {"full", "partial"}
zOf(i) == IF i \in frame.isFBComposed THEN frame.fbZ ELSE zOrder[i]

(* The stages of the mixer show the layers in the order of the list: no    *)
(* layer in a pipe is at or below the stage of an earlier layer, nor is    *)
(* the framebuffer, which has one stage for all its layers.                *)
StackFollowsList ==
  Stacked => \A i, j \in Layers :
    (i < j /\ ~({i, j} \subseteq frame.isFBComposed)) => zOf(i) < zOf(j)

(* What shares the mixer fits in it: the layers in pipes and the           *)
(* framebuffer have a stage each, below sMaxPipesPerMixer, and the counts  *)
(* the decision was made with are those of the frame.                      *)
StagesSuffice ==
  (phase = "prepared" /\ mode \in {"full", "partial", "video"}) =>
    /\ Cardinality(frame.isFBComposed) = frame.fbCount
    /\ frame.mdpCount + frame.fbCount = N
    /\ \A i \in DOMAIN zOrder :
         zOrder[i] < sMaxPipesPerMixer /\ zOrder[i] # frame.fbZ
    /\ frame.fbZ < sMaxPipesPerMixer

(* Whether the framebuffer, not drawn again, shows what is to be seen.     *)
ShowsStale ==
  /\ phase = "prepared" /\ mode = "partial"
  /\ frame.isFBComposed # {} /\ ~frame.needsRedraw
  /\ drawn # frame.isFBComposed \/ ~(frame.isFBComposed \subseteq fresh)

(* A framebuffer that is kept shows the present content of exactly the     *)
(* layers left to it, but for two cases: it was drawn by a frame that left *)
(* the layer cache behind (videos only), or a video that has no pipe is    *)
(* left to it.                                                             *)
KeptBufferIsCurrent ==
  ShowsStale => uncached \/ Yuv \cap frame.isFBComposed # {}
-----------------------------------------------------------------------------
(* The inductive invariant.                                                *)

(* A frame composed in part leaves one run of layers to the framebuffer,   *)
(* at the stage the layers before it end at.                               *)
Batched(f) ==
  /\ Cardinality(f.isFBComposed) = f.fbCount /\ f.mdpCount + f.fbCount = N
  /\ IF f.fbCount = 0 THEN f.fbZ = NOZ
     ELSE /\ f.fbZ \in 0 .. f.mdpCount
          /\ f.isFBComposed = f.fbZ .. f.fbZ + f.fbCount - 1

(* A frame with pipes for videos only.                                     *)
VideosOut(f) ==
  /\ Cardinality(f.isFBComposed) = f.fbCount /\ f.mdpCount + f.fbCount = N
  /\ f.fbZ = IF f.fbCount = 0 THEN NOZ ELSE f.mdpCount
  /\ Layers \ f.isFBComposed \subseteq Yuv

(* What the composition of the last frame says of it; a list that comes    *)
(* later changes the layers, not the frame.                                *)
ShapeInv ==
  /\ mode # "none" => cache = Counts(frame)
  /\ mode \in {"none", "gpu", "anim"} => cache.mdpCount = 0
  /\ mode = "full" => cache.fbCount = 0
  /\ mode = "partial" => Batched(frame)
  /\ mode = "video" /\ ~(phase = "listed" /\ geometry) => VideosOut(frame)
  /\ phase = "prepared" /\ mode = "video" => frame.needsRedraw
  /\ phase = "relist" => mode \in {"none", "gpu"}
  /\ mode = "none" => phase \in {"relist", "listed"} /\ geometry

(* The framebuffer holds the layers the frame left to it, and layers that  *)
(* match the cache have not changed since, once the cache is up to date.   *)
KeptLayers ==
  /\ drawn = frame.isFBComposed
  /\ hit \cap drawn \subseteq fresh

BufferInv ==
  /\ phase = "idle" \/ (phase = "listed" /\ ~geometry) =>
       \/ mode \notin {"partial", "video"} \/ frame.fbCount = 0
       \/ uncached
       \/ mode = "partial" /\ Yuv \cap frame.isFBComposed # {}
       \/ KeptLayers /\ (phase = "idle" => hit = Layers)
  /\ phase = "prepared" /\ mode = "partial" => hit = Layers
  /\ KeptBufferIsCurrent

IInv == TypeOK /\ ShapeInv /\ BufferInv /\ StackFollowsList /\ StagesSuffice
=============================================================================
