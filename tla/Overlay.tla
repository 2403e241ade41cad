------------------------------- MODULE Overlay -------------------------------
(***************************************************************************)
(* The pipe book of liboverlay and the draw round that drives it.          *)
(*                                                                         *)
(* overlay::Overlay keeps, for every MDP pipe, the GenericPipe object that *)
(* wraps it, the display it is registered with, and three bitmaps (used in *)
(* this round, used in the last round, handed out in this round).          *)
(* hwc_prepare runs configBegin, lets every display acquire and commit     *)
(* pipes through MDPComp and FBUpdate, and runs configDone, which gives    *)
(* back what nobody uses; hwc_set then queues a buffer to each pipe.  The  *)
(* whole round runs under mDrawLock, so a single thread is modelled, at    *)
(* the grain of one call of the Overlay per step.                          *)
(***************************************************************************)
EXTENDS Integers, FiniteSets

CONSTANTS
  NumPipes,       (* PipeBook::NUM_PIPES                                   *)
  pipeTypeLUT,    (* the type of each pipe                                 *)
  NumDisplays,    (* displays are 0..NumDisplays-1, the primary is 0       *)
  Mixers,         (* layer mixers of a display: 2 on high-res panels       *)
  MaxLayers       (* bound: pipes MDPComp asks for in one frame            *)

Pipes       == 0 .. NumPipes - 1
Displays    == 0 .. NumDisplays - 1
DPY_UNUSED  == NumDisplays
OV_INVALID  == NumPipes
PipeTypes   == {"RGB", "VG", "DMA"}

ASSUME OverlayAssumption ==
  /\ NumPipes \in Nat \ {0}
  /\ NumDisplays \in Nat \ {0}
  /\ pipeTypeLUT \in [Pipes -> PipeTypes]
  /\ Mixers \in [Displays -> {1, 2}]
  /\ MaxLayers \in Nat

VARIABLES
  mPipe,       (* mPipe[p]: display the GenericPipe of p was made for,
                  DPY_UNUSED when there is no object (NULL)               *)
  mDisplay,    (* mDisplay[p]: display p is registered with               *)
  used,        (* sPipeUsageBitmap                                        *)
  lastUsed,    (* sLastUsageBitmap                                        *)
  allocated,   (* sAllocatedBitmap                                        *)
  open,        (* pipes whose GenericPipe is OPEN: the last commit passed *)
  isSet,       (* pipes that hold a kernel id: SET and not yet UNSET      *)
  playing,     (* pipes that scan out a queued buffer                     *)
  phase,       (* "idle" between rounds, "config" and "set" in a round    *)
  turn,        (* the display hwc_prepare is at                           *)
  step,        (* where the prepare of that display is                    *)
  fallback,    (* MDPComp::prepare gave up, FBUpdate is the fallback      *)
  pending,     (* pipes acquired by that display and not yet committed    *)
  failedCommit,(* a commit of FBUpdate failed in this configure           *)
  mdpDest,     (* mdpDest[d]: pipes MDPComp::draw will queue to           *)
  fbDest       (* fbDest[d]: pipes FBUpdate::draw will queue to           *)

book   == <<mPipe, mDisplay, used, lastUsed, allocated>>
hw     == <<open, isSet, playing>>
client == <<turn, step, fallback, pending, failedCommit, mdpDest, fbDest>>
vars   == <<book, hw, phase, client>>

Steps == {"begin", "fbAlloc", "fbCommit", "fbDone", "alloc", "program"}

TypeOK ==
  /\ mPipe \in [Pipes -> Displays \cup {DPY_UNUSED}]
  /\ mDisplay \in [Pipes -> Displays \cup {DPY_UNUSED}]
  /\ used \subseteq Pipes /\ lastUsed \subseteq Pipes /\ allocated \subseteq Pipes
  /\ open \subseteq Pipes /\ isSet \subseteq Pipes /\ playing \subseteq Pipes
  /\ phase \in {"idle", "config", "set"}
  /\ turn \in Displays \cup {-1}
  /\ step \in Steps
  /\ fallback \in BOOLEAN /\ failedCommit \in BOOLEAN
  /\ pending \subseteq Pipes
  /\ mdpDest \in [Displays -> SUBSET Pipes]
  /\ fbDest \in [Displays -> SUBSET Pipes]

-----------------------------------------------------------------------------
(* The pipe book.                                                          *)

valid(p) == mPipe[p] # DPY_UNUSED

PipesOf(d) == {p \in Pipes : mDisplay[p] = d}

Lowest(S) == CHOOSE p \in S : \A q \in S : p <= q

(* Faulty: the pipes handed out in this round are not skipped.             *)
CandidatesAllocatedToo(type, o) == {p \in PipesOf(o) : pipeTypeLUT[p] = type}

(* Pipes of a type that are registered with o and not handed out.          *)
Candidates(type, o) ==
  {p \in PipesOf(o) : pipeTypeLUT[p] = type /\ p \notin allocated}

(* Faulty: the second pass takes a pipe of any display.                    *)
NextPipeOfAnyDisplay(type, d) ==
  LET S == UNION {CandidatesAllocatedToo(type, o) : o \in Displays \cup {DPY_UNUSED}}
  IN  IF S \ allocated # {} THEN Lowest(S \ allocated) ELSE OV_INVALID

(* Overlay::nextPipe: a pipe the display already has, else an unused one.  *)
NextPipe(type, d) ==
  IF Candidates(type, d) # {} THEN Lowest(Candidates(type, d))
  ELSE IF Candidates(type, DPY_UNUSED) # {}
       THEN Lowest(Candidates(type, DPY_UNUSED))
       ELSE OV_INVALID

(* The bookkeeping of a nextPipe that returns p: the GenericPipe is made   *)
(* only if there is none.                                                  *)
Grant(p, d) ==
  /\ allocated' = allocated \cup {p}
  /\ mDisplay' = [mDisplay EXCEPT ![p] = d]
  /\ mPipe' = [mPipe EXCEPT ![p] = IF valid(p) THEN @ ELSE d]
  /\ UNCHANGED <<used, lastUsed>>

(* Overlay::clear: the display's pipes are available again in this round.  *)
(* (forceSet, which has the next commit reach the kernel even when nothing *)
(* changed, is left out: a commit that passes may or may not have called   *)
(* the kernel.)                                                            *)
Clear(d) ==
  /\ used' = used \ PipesOf(d)
  /\ allocated' = allocated \ PipesOf(d)

(* Overlay::commit when the kernel accepts the pipe, or when MdpCtrl::set  *)
(* finds nothing to tell it.                                               *)
CommitPasses(p) ==
  /\ used' = used \cup {p}
  /\ open' = open \cup {p}
  /\ isSet' = isSet \cup {p}
  /\ UNCHANGED <<mPipe, mDisplay, lastUsed, allocated, playing>>

(* Faulty: the rollback makes the pipes of every display available.        *)
CommitFailsEverywhere(p) ==
  /\ open' = open \ {p}
  /\ used' = {} /\ allocated' = {}
  /\ UNCHANGED <<mPipe, mDisplay, lastUsed, isSet, playing>>

(* Overlay::commit when MSMFB_OVERLAY_SET fails.  The pipe keeps the id it *)
(* had; every pipe of the display loses its use and its allocation.        *)
CommitFails(p) ==
  /\ open' = open \ {p}
  /\ Clear(mDisplay[p])
  /\ UNCHANGED <<mPipe, mDisplay, lastUsed, isSet, playing>>

(* Faulty: the pipe stays registered when its GenericPipe is deleted.      *)
DestroyKeepingDisplay(S) ==
  /\ mPipe' = [p \in Pipes |-> IF p \in S THEN DPY_UNUSED ELSE mPipe[p]]
  /\ open' = open \ S /\ isSet' = isSet \ S /\ playing' = playing \ S
  /\ UNCHANGED mDisplay

(* Faulty: a pipe is handed back to -1, which nextPipe does not look for.  *)
DestroyToNoDisplay(S) ==
  /\ mPipe' = [p \in Pipes |-> IF p \in S THEN DPY_UNUSED ELSE mPipe[p]]
  /\ mDisplay' = [p \in Pipes |-> IF p \in S THEN -1 ELSE mDisplay[p]]
  /\ open' = open \ S /\ isSet' = isSet \ S /\ playing' = playing \ S

(* PipeBook::destroy on every pipe of S: the GenericPipe unsets its pipe.  *)
Destroy(S) ==
  /\ mPipe' = [p \in Pipes |-> IF p \in S THEN DPY_UNUSED ELSE mPipe[p]]
  /\ mDisplay' = [p \in Pipes |-> IF p \in S THEN DPY_UNUSED ELSE mDisplay[p]]
  /\ open' = open \ S
  /\ isSet' = isSet \ S
  /\ playing' = playing \ S

(* Faulty: what was in use in the last round is what is kept.              *)
CollectUnusedLastRound(U) ==
  /\ lastUsed' = U
  /\ IF U = lastUsed THEN UNCHANGED <<mPipe, mDisplay, hw>>
     ELSE Destroy(Pipes \ lastUsed)

(* Faulty: the usage of the round is not saved.                            *)
CollectUnusedUnsaved(U) ==
  /\ UNCHANGED lastUsed
  /\ IF U = lastUsed THEN UNCHANGED <<mPipe, mDisplay, hw>> ELSE Destroy(Pipes \ U)

(* Overlay::configDone, for the pipes in U used in this round: collects    *)
(* only when that set differs from the one of the last round.              *)
CollectUnused(U) ==
  /\ lastUsed' = U
  /\ IF U = lastUsed
     THEN UNCHANGED <<mPipe, mDisplay, hw>>
     ELSE Destroy(Pipes \ U)

-----------------------------------------------------------------------------
Init ==
  /\ mPipe = [p \in Pipes |-> DPY_UNUSED]
  /\ mDisplay = [p \in Pipes |-> DPY_UNUSED]
  /\ used = {} /\ lastUsed = {} /\ allocated = {}
  /\ open = {} /\ isSet = {} /\ playing = {}
  /\ phase = "idle" /\ turn = -1 /\ step = "begin"
  /\ fallback = FALSE /\ failedCommit = FALSE /\ pending = {}
  /\ mdpDest = [d \in Displays |-> {}]
  /\ fbDest = [d \in Displays |-> {}]

(* hwc_prepare up to its loop: reset() of the features, configBegin.       *)
ConfigBegin ==
  /\ phase = "idle"
  /\ phase' = "config" /\ turn' = NumDisplays - 1 /\ step' = "begin"
  /\ used' = {} /\ allocated' = {}
  /\ mdpDest' = [d \in Displays |-> {}]
  /\ fbDest' = [d \in Displays |-> {}]
  /\ UNCHANGED <<mPipe, mDisplay, lastUsed, hw, fallback, pending, failedCommit>>

(* hwc_prepare is at display turn, in step s.                              *)
At(s) == phase = "config" /\ turn \in Displays /\ step = s

Goto(s) == step' = s /\ UNCHANGED <<phase, turn>>

NextDisplay == turn' = turn - 1 /\ step' = "begin" /\ UNCHANGED phase

(* hwc_prepare_<dpy> on a display without layers, inactive or paused.      *)
SkipDisplay ==
  /\ At("begin")
  /\ NextDisplay
  /\ UNCHANGED <<book, hw, fallback, pending, failedCommit, mdpDest, fbDest>>

(* MDPComp::prepare decides for the frame: some layers and the FB (fbFirst *)
(* in step fbAlloc), layers alone, or nothing, which leaves the fallback.  *)
ChooseComposition ==
  /\ At("begin")
  /\ pending' = {} /\ failedCommit' = FALSE
  /\ \/ Goto("fbAlloc") /\ fallback' \in BOOLEAN
     \/ Goto("alloc") /\ fallback' = FALSE
  /\ UNCHANGED <<book, hw, mdpDest, fbDest>>

(* The failure path of MDPComp::prepare, reset() and Overlay::clear, after *)
(* which hwc_prepare_<dpy> configures the FB alone.                        *)
FallBack ==
  /\ Goto("fbAlloc")
  /\ fallback' = TRUE /\ pending' = {} /\ failedCommit' = FALSE
  /\ mdpDest' = [mdpDest EXCEPT ![turn] = {}]
  /\ fbDest' = [fbDest EXCEPT ![turn] = {}]

(* getPipeForFb: an RGB pipe, else a VG pipe.                              *)
PipeForFb ==
  IF NextPipe("RGB", turn) # OV_INVALID
  THEN NextPipe("RGB", turn) ELSE NextPipe("VG", turn)

(* FBUpdate::configure acquires one pipe per mixer.                        *)
FbGetPipe ==
  /\ At("fbAlloc")
  /\ PipeForFb # OV_INVALID
  /\ Grant(PipeForFb, turn)
  /\ pending' = pending \cup {PipeForFb}
  /\ Goto(IF Cardinality(pending') = Mixers[turn] THEN "fbCommit" ELSE "fbAlloc")
  /\ UNCHANGED <<hw, fallback, failedCommit, mdpDest, fbDest>>

(* FBUpdate::configure commits the pipe of a mixer, which draw will queue  *)
(* to.  On a high-res panel the other mixer's pipe is committed whatever   *)
(* became of this one.                                                     *)
FbCommit(p) ==
  /\ At("fbCommit") /\ p \in pending
  /\ pending' = pending \ {p}
  /\ Goto(IF pending' = {} THEN "fbDone" ELSE "fbCommit")
  /\ fbDest' = [fbDest EXCEPT ![turn] = @ \cup {p}]
  /\ \/ CommitPasses(p) /\ UNCHANGED failedCommit
     \/ CommitFails(p) /\ failedCommit' = TRUE
  /\ UNCHANGED <<fallback, mdpDest>>

(* FBUpdate::prepare returns true: the display is done, or its layers are  *)
(* next.                                                                   *)
FbConfigured ==
  /\ At("fbDone") /\ ~failedCommit
  /\ IF fallback THEN NextDisplay ELSE Goto("alloc")
  /\ UNCHANGED <<book, hw, fallback, pending, failedCommit, mdpDest, fbDest>>

(* FBUpdate::prepare returns false: MDPComp clears the display and leaves  *)
(* it to the fallback; a fallback that fails leaves mModeOn false, and the *)
(* display without a composition.                                          *)
FbUpdateFailed ==
  IF fallback
  THEN /\ NextDisplay
       /\ pending' = {}
       /\ fbDest' = [fbDest EXCEPT ![turn] = {}]
       /\ UNCHANGED <<fallback, failedCommit, mdpDest>>
  ELSE FallBack

FbNotConfigured ==
  /\ At("fbDone") /\ failedCommit
  /\ FbUpdateFailed
  /\ IF fallback THEN UNCHANGED <<used, allocated>> ELSE Clear(turn)
  /\ UNCHANGED <<mPipe, mDisplay, lastUsed, hw>>

(* No pipe is left for the FB of a mixer.                                  *)
FbNoPipe ==
  /\ At("fbAlloc")
  /\ PipeForFb = OV_INVALID
  /\ FbUpdateFailed
  /\ IF fallback THEN UNCHANGED <<used, allocated>> ELSE Clear(turn)
  /\ UNCHANGED <<mPipe, mDisplay, lastUsed, hw>>

(* FBUpdateLowRes::configure cannot pre-rotate the FB of an external       *)
(* display: it clears the display itself.                                  *)
FbNoRotator ==
  /\ At("fbCommit") /\ Mixers[turn] = 1 /\ turn > 0
  /\ FbUpdateFailed
  /\ Clear(turn)
  /\ UNCHANGED <<mPipe, mDisplay, lastUsed, hw>>

(* MDPComp::getMdpPipe: the cases of the switch fall through from DMA to   *)
(* RGB to VG.                                                              *)
MdpPipe(type) ==
  LET dma == NextPipe("DMA", turn)
      rgb == NextPipe("RGB", turn)
  IN  IF type = "DMA" /\ dma # OV_INVALID THEN dma
      ELSE IF type # "VG" /\ rgb # OV_INVALID THEN rgb
      ELSE NextPipe("VG", turn)

(* MDPComp::allocLayerPipes acquires a pipe for the next layer.            *)
AllocLayerPipe(type) ==
  /\ At("alloc") /\ Cardinality(pending) < MaxLayers
  /\ MdpPipe(type) # OV_INVALID
  /\ Grant(MdpPipe(type), turn)
  /\ pending' = pending \cup {MdpPipe(type)}
  /\ UNCHANGED <<hw, phase, turn, step, fallback, failedCommit, mdpDest, fbDest>>

NoLayerPipe(type) ==
  /\ At("alloc") /\ Cardinality(pending) < MaxLayers
  /\ MdpPipe(type) = OV_INVALID
  /\ FallBack
  /\ Clear(turn)
  /\ UNCHANGED <<mPipe, mDisplay, lastUsed, hw>>

LayersAllocated ==
  /\ At("alloc")
  /\ Goto("program")
  /\ UNCHANGED <<book, hw, fallback, pending, failedCommit, mdpDest, fbDest>>

(* MDPComp::programMDP configures a layer: the commit passes, or fails and *)
(* takes the composition of the display with it.                           *)
ProgramLayer(p) ==
  /\ At("program") /\ p \in pending
  /\ CommitPasses(p)
  /\ pending' = pending \ {p}
  /\ mdpDest' = [mdpDest EXCEPT ![turn] = @ \cup {p}]
  /\ UNCHANGED <<phase, turn, step, fallback, failedCommit, fbDest>>

ProgramLayerFails(p) ==
  /\ At("program") /\ p \in pending
  /\ CommitFails(p)
  /\ FallBack

(* A layer cannot be configured before its commit (no rotator, no handle). *)
LayerNotConfigurable ==
  /\ At("program") /\ pending # {}
  /\ FallBack
  /\ Clear(turn)
  /\ UNCHANGED <<mPipe, mDisplay, lastUsed, hw>>

(* MDPCompHighRes acquires pipes for FB composed layers too and programs   *)
(* none of them.                                                           *)
SkipFbLayer(p) ==
  /\ At("program") /\ Mixers[turn] = 2 /\ p \in pending
  /\ pending' = pending \ {p}
  /\ UNCHANGED <<book, hw, phase, turn, step, fallback, failedCommit, mdpDest, fbDest>>

LayersProgrammed ==
  /\ At("program") /\ pending = {}
  /\ NextDisplay
  /\ UNCHANGED <<book, hw, fallback, pending, failedCommit, mdpDest, fbDest>>

(* hwc_prepare after its loop: configDone.                                 *)
ConfigDone ==
  /\ phase = "config" /\ turn = -1
  /\ phase' = "set"
  /\ CollectUnused(used)
  /\ UNCHANGED <<used, allocated, client>>

(* Overlay::queueBuffer for a pipe of a display's composition, in hwc_set. *)
(* The assertions of validate and of GenericPipe::queueBuffer abort.       *)
QueueAsserts(p) == valid(p) /\ (p \in used => p \in open \cap isSet)

QueueBuffer(d, p) ==
  /\ phase = "set" /\ p \in mdpDest[d] \cup fbDest[d]
  /\ QueueAsserts(p)
  /\ p \in used
  /\ playing' = playing \cup {p}
  /\ UNCHANGED <<book, open, isSet, phase, client>>

(* hwc_set ends.  A draw that failed, or a display without a buffer, has   *)
(* left pipes without a buffer.                                            *)
SetDone ==
  /\ phase = "set"
  /\ phase' = "idle"
  /\ UNCHANGED <<book, hw, client>>

(* hwc_blank(blank): configBegin and configDone with nothing in between.   *)
Blank ==
  /\ phase = "idle"
  /\ used' = {} /\ allocated' = {}
  /\ CollectUnused({})
  /\ UNCHANGED <<phase, client>>

Next ==
  \/ ConfigBegin \/ SkipDisplay \/ ChooseComposition
  \/ FbGetPipe \/ FbNoPipe \/ FbNoRotator
  \/ \E p \in Pipes : FbCommit(p)
  \/ FbConfigured \/ FbNotConfigured
  \/ \E type \in {"DMA", "ANY", "VG"} : AllocLayerPipe(type) \/ NoLayerPipe(type)
  \/ LayersAllocated
  \/ \E p \in Pipes : ProgramLayer(p) \/ ProgramLayerFails(p) \/ SkipFbLayer(p)
  \/ LayerNotConfigurable \/ LayersProgrammed
  \/ ConfigDone
  \/ \E d \in Displays, p \in Pipes : QueueBuffer(d, p)
  \/ SetDone \/ Blank

Spec == Init /\ [][Next]_vars
-----------------------------------------------------------------------------
(* Properties.                                                             *)

Drawn(d) == mdpDest[d] \cup fbDest[d]
DrawnPipes == UNION {Drawn(d) : d \in Displays}

(* The wrapper of a pipe was made for the display the book registers the   *)
(* pipe with.  nextPipe writes the two separately (overlay.cpp:120-122):   *)
(* a wrapper kept from another display would set the pipe on the wrong     *)
(* mixer.                                                                  *)
WrapperMatchesBook == mPipe = mDisplay

(* The draws of hwc_set never reach an assertion of queueBuffer, and reach *)
(* the kernel only through a pipe of the display they draw: what a display *)
(* composed during prepare is still there, still set, still its own after  *)
(* the collection of configDone.                                           *)
DrawnPipesLive ==
  phase = "set" => \A d \in Displays : \A p \in Drawn(d) :
                     QueueAsserts(p) /\ mDisplay[p] = d /\ p \in used

(* Whenever a display asks for a pipe, no pipe that is already part of a   *)
(* composition of the round, or acquired for one, can be the answer: not   *)
(* for a second layer, and not for the fallback after the rollback of a    *)
(* failed commit made pipes available again.                               *)
NextPipeIsFresh ==
  phase = "config" /\ turn \in Displays /\ step \in {"fbAlloc", "alloc"} =>
    \A type \in PipeTypes : NextPipe(type, turn) \notin DrawnPipes \cup pending

(* Outside the configuration of a round, only pipes used in the last round *)
(* scan out: a pipe a display stopped using is unset before the next       *)
(* commit of the display shows its old buffer.                             *)
NoStaleScanout == phase # "config" => playing \subseteq used

(* The failure of one display never costs another display its pipes: in a  *)
(* round, a pipe loses its use only while its own display is prepared.     *)
FailuresStayLocal ==
  [][phase = "config" => \A p \in used \ used' : mDisplay[p] = turn]_vars

(* configDone "will do garbage collection of pipe objects and thus calling *)
(* UNSETs" (overlay.h): after it, a pipe that is set is a pipe in use.     *)
ConfigDoneCollects == phase = "set" => isSet \subseteq used

(* The inductive invariant: what the proofs of the properties above need.  *)
(* Ownership of the bits: a used pipe is open, an open pipe is set, a set  *)
(* pipe is registered; what plays was used in the last round collected.    *)
BookInv ==
  /\ used \subseteq open /\ open \subseteq isSet
  /\ \A p \in isSet : mDisplay[p] # DPY_UNUSED
  /\ playing \subseteq isSet \cap lastUsed
  /\ phase # "config" => lastUsed = used

(* What the displays hold: their own pipes; those of the displays already  *)
(* prepared are in use, and so are those of the display at hand unless a   *)
(* commit of its FB failed.                                                *)
HeldInv ==
  /\ phase # "idle" => \A d \in Displays : Drawn(d) \subseteq PipesOf(d)
  /\ phase # "idle" => \A d \in Displays \ {turn} : Drawn(d) \subseteq used
  /\ phase # "config" => turn = -1
  /\ phase = "config" =>
       /\ \A d \in Displays : d < turn => Drawn(d) = {}
       /\ turn \in Displays =>
            /\ step = "begin" => Drawn(turn) = {}
            /\ step \in {"fbAlloc", "fbCommit", "fbDone"} => mdpDest[turn] = {}
            /\ step = "fbAlloc" => fbDest[turn] = {}
            /\ step \in {"fbAlloc", "alloc", "program"} => ~failedCommit
            /\ step # "begin" => pending \subseteq PipesOf(turn)
            /\ step # "begin" /\ ~failedCommit =>
                 Drawn(turn) \subseteq used /\ Drawn(turn) \cup pending \subseteq allocated

IInv == TypeOK /\ WrapperMatchesBook /\ BookInv /\ HeldInv

Ownership == INSTANCE PipeOwnership WITH
  owner     <- mDisplay,
  staged    <- [p \in Pipes |-> IF p \in isSet THEN mPipe[p] ELSE DPY_UNUSED],
  NoDisplay <- DPY_UNUSED

(* The draw round keeps the promise of the pipe book: a pipe passes from a *)
(* display to another only through an unset, and is set only on the mixer  *)
(* of its owner.                                                           *)
ImplementsOwnership == Ownership!Spec
=============================================================================
