------------------------------ MODULE LayerConfig ------------------------------
(***************************************************************************)
(* From a layer to a pipe: how hwc_prepare places the layers of a display, *)
(* takes rotator sessions for those that need one (RotMgr, LayerRotMap),   *)
(* sets up the session and the pipes, and gives the sessions back when     *)
(* the display falls back to the framebuffer; and how hwc_set has the      *)
(* sessions rotate.                                                        *)
(*                                                                         *)
(* Everything runs under mDrawLock: one thread, one layer per step.  The   *)
(* pipe book is Overlay's; the memory of an A-family session is Rotator's. *)
(* "MDP4" stands for the MDP versions from 4.2 to before 5, "MDSS" for 5.  *)
(***************************************************************************)
EXTENDS VirtualDisplay, FiniteSets

CONSTANTS
  Panels,        (* the primaries: [version, w, h]                         *)
  Layers,        (* bound: Layers[n] is what a layer of the n-th frame may
                    ask, [yuv, format, w, h, crop, dst, transform, flags],
                    and there are Len(Layers) frames                       *)
  Orientations   (* what mExtOrientation, mBufferMirrorMode, the device's
                    orientation and the action safe margins may be:
                    [ext, mirror, dev, asW, asH]                           *)

ASSUME LayerConfigAssumption ==
  /\ \A p \in Panels : p.version \in {"MDP4", "MDSS"} /\ p.w \in Nat /\ p.h \in Nat
  /\ Len(Layers) \in Nat
  /\ \A n \in 1 .. Len(Layers) : \A L \in Layers[n] :
       /\ L.yuv \/ "ROT_90" \notin L.transform
       /\ L.w \in Nat /\ L.h \in Nat /\ L.crop \in Rects /\ L.dst \in Rects
       /\ L.transform \subseteq Turns
  /\ \A o \in Orientations : o.ext \subseteq Turns

VARIABLES
  orientation, (* the element of Orientations in force                     *)
  frame,       (* frames begun                                             *)
  phase,       (* "idle", "prepare", "set", or "aborted" by an assertion   *)
  dpy,         (* the display being prepared or drawn                      *)
  todo,        (* destination parities of its videos still to be set up    *)
  stage,       (* "begun", "layers" are set up, it "fell" back to the
                  framebuffer, "over": and that has been set up            *)
  mRot,        (* the sessions of RotMgr                                   *)
  mUseCount,
  mLayerRotMap,(* of each display: [rot, want], what the layer asks of it  *)
  mPrevWHF,    (* of each display and parity: the size of the last video   *)
  shown,       (* the pipes of the layer set up last, as the driver has
                  them, with what was asked                                *)
  driverRefused, (* a configRotator failed in this round                   *)
  deniedUnjustly,(* getNext had no session, with fewer than three in maps
                  and none lost to a failed configRotator                  *)
  rotated      (* sessions that have rotated in this hwc_set               *)

sessVars == <<mRot, mUseCount, mLayerRotMap>>
roundVars == <<frame, phase, dpy, todo, stage>>
histVars == <<driverRefused, deniedUnjustly>>
vars == <<dpyVars, orientation, roundVars, sessVars, mPrevWHF, shown, histVars, rotated>>

Displays == {0, 1}
MAX_ROT_SESS == 3
Slots == 1 .. MAX_ROT_SESS

Parities == {<<>>, <<0>>, <<1>>, <<0, 1>>, <<0, 0>>}

NoConf == [w |-> 0, h |-> 0, format |-> "none", orient |-> {}, ds |-> 0, flags |-> {}]

(* A Rotator after reset().  conf: what it would tell the driver, kern:    *)
(* what the driver has accepted; size: of its memory, 0 before the first   *)
(* buffer; prev: the memory replaced last has not been closed.             *)
Fresh == [alive |-> TRUE, conf |-> NoConf, kern |-> NoConf, size |-> 0, prev |-> FALSE]
Deleted == [Fresh EXCEPT !.alive = FALSE]

-----------------------------------------------------------------------------
(* Displays.                                                               *)

Xres(d) == IF d = 0 THEN panel.w ELSE dpyAttr.xres
Yres(d) == IF d = 0 THEN panel.h ELSE dpyAttr.yres
HighRes(d) == Xres(d) > MAX_DISPLAY_DIM

(* The second display is a WFD session, or the external display: that is   *)
(* composed when it is open in a mode with a size.                         *)
Virtual == mVInfo # NoInfo
Connected(d) == d = 0 \/ Virtual \/ (mFd /\ Known(mCurrentMode))
SizeOfSecond == IF Virtual THEN mVInfo ELSE getAttributes

Ext == [w |-> Xres(1), h |-> Yres(1), downscale |-> dpyAttr.downscale,
        extW |-> SizeOfSecond.w, extH |-> SizeOfSecond.h,
        ext |-> orientation.ext, mirror |-> orientation.mirror,
        dev |-> orientation.dev, asW |-> orientation.asW, asH |-> orientation.asH,
        underscan |-> mUnderscanSupported, priW |-> panel.w, priH |-> panel.h]

(* The screen the pipes of a display are placed on.                        *)
Real(d) == IF d = 1 /\ dpyAttr.downscale THEN Screen(Ext.extW, Ext.extH)
           ELSE Screen(Xres(d), Yres(d))

-----------------------------------------------------------------------------
(* The flags of a pipe.                                                    *)
setMdpFlags(L, ds, transform) ==
  (L.flags \cap {"PREMULT"})
  \cup (IF L.yuv THEN (L.flags \cap {"SECURE", "DEINTERLACE"})
                      \cup (IF "ROT_90" \in transform THEN {"SOURCE_ROTATED_90"} ELSE {})
        ELSE {})
  \cup (IF "SECURE_DISPLAY" \in L.flags THEN {"SECURE", "SECURE_DISPLAY"} ELSE {})
  \cup (IF "ROT_90" \notin transform /\ ds = 0 THEN transform \cap Flips ELSE {})

(* needToForceRotator: the video changes its size (as far as the display   *)
(* remembers) and is not flipped.                                          *)
needToForceRotator(d, L, transform, parity) ==
  /\ transform \cap Flips = {}
  /\ mPrevWHF[d][parity] # <<L.w, L.h>>
  /\ mPrevWHF[d][parity][1] * mPrevWHF[d][parity][2] # 0

Remembered(d, L, transform, parity) ==
  IF transform \cap Flips = {} THEN [mPrevWHF EXCEPT ![d][parity] = <<L.w, L.h>>]
  ELSE mPrevWHF

-----------------------------------------------------------------------------
(* Sessions.                                                               *)

Align(x, a) == ((x + a - 1) \div a) * a

(* configRotator pads a tiled buffer.                                      *)
PadTiled(format, w, h) ==
  IF format = "YCbCr_420_SP_TILED" THEN [w |-> Align(w, 64), h |-> Align(h, 32)]
  ELSE [w |-> w, h |-> h]

(* MdssRot: flags are added to those the session has, the orientation      *)
(* replaces the last one; there is no downscale.                           *)
MdssConf(conf, format, whf, flags, transform) ==
  [w |-> whf.w, h |-> whf.h, format |-> getMdpFormat(format),
   orient |-> getMdpOrient(transform), ds |-> 0,
   flags |-> conf.flags \cup (flags \ Flips)]

(* Faulty: the orientation is added too.                                   *)
MdssConfKeepsOrient(conf, format, whf, flags, transform) ==
  [w |-> whf.w, h |-> whf.h, format |-> getMdpFormat(format),
   orient |-> conf.orient \cup getMdpOrient(transform), ds |-> 0,
   flags |-> conf.flags \cup (flags \ Flips)]

(* MdpRot: everything is replaced, and of the flags one is of interest.    *)
MdpConf(format, whf, flags, transform, ds) ==
  [w |-> whf.w, h |-> whf.h, format |-> getMdpFormat(format),
   orient |-> getMdpOrient(transform), ds |-> ds, flags |-> flags \cap {"SECURE"}]

RotConf(conf, format, whf, flags, transform, ds) ==
  IF panel.version = "MDSS" THEN MdssConf(conf, format, whf, flags, transform)
  ELSE MdpConf(format, whf, flags, transform, ds)

(* getNext: the next session, made if there is none.                       *)
getNext == IF mRot[mUseCount + 1].alive THEN mRot[mUseCount + 1] ELSE Fresh

(* commit(): an A-family session calls the driver when something changed.  *)
CommitRotator(rot, conf, ok) ==
  IF panel.version = "MDP4" /\ conf = rot.kern THEN [rot EXCEPT !.conf = conf]
  ELSE [rot EXCEPT !.conf = conf, !.kern = IF ok THEN conf ELSE @]

CommitMayFail(rot, conf) == panel.version = "MDSS" \/ conf # rot.kern

(* Faulty: RotMgr is not told.                                             *)
CountAll(d, count) == count

(* Faulty: RotMgr is told twice, when layers and framebuffer give up.      *)
CountTwice(d, count) == count - 2 * Len(mLayerRotMap[d])

(* LayerRotMap::clear: RotMgr is told that as many sessions are unused.    *)
ClearedMap(d) == [mLayerRotMap EXCEPT ![d] = <<>>]
CountWithout(d, count) == count - Len(mLayerRotMap[d])


SlotsOf(d) == [k \in DOMAIN mLayerRotMap[d] |-> mLayerRotMap[d][k].rot]

-----------------------------------------------------------------------------
(* Pipes.                                                                  *)

(* The area a pipe is asked to fill: of the whole screen, or of the half   *)
(* its mixer is at.                                                        *)
Half(d, side) ==
  CASE side = "left" -> Rect(0, 0, Xres(d) \div 2, Yres(d))
    [] side = "right" -> Rect(Xres(d) \div 2, 0, Xres(d), Yres(d))
    [] OTHER -> Real(d)

(* What MdpCtrl::set makes of crop and destination: the crop is shrunk as  *)
(* the rotator has shrunk the buffer, and a YUV pipe is evened.            *)
MdpSet(crop, dst, ds, yuv) ==
  LET Down(v) == v \div (2 ^ ds)
      x == IF yuv THEN normalizeCrop(Down(crop.l), Down(Width(crop)))
           ELSE <<Down(crop.l), Down(Width(crop))>>
      y == IF yuv THEN normalizeCrop(Down(crop.t), Down(Height(crop)))
           ELSE <<Down(crop.t), Down(Height(crop))>>
      Even(v) == IF yuv THEN v - (v % 2) ELSE v IN
  [src |-> Rect(x[1], y[1], x[1] + x[2], y[1] + y[2]),
   dst |-> Rect(dst.l, dst.t, dst.l + Even(Width(dst)), dst.t + Even(Height(dst)))]

(* GenericPipe::commit: how far the rotator has shrunk the buffer is       *)
(* worked out again, from the crop and the destination of the pipe.        *)
PipeDownscale(enabled, crop, dst) ==
  IF enabled THEN getDownscaleFactor(Width(crop), Height(crop), Width(dst), Height(dst))
  ELSE 0

(* configMdp.  asked: [crop, dst, transform, own] on the whole screen.     *)
configMdp(d, asked, crop, dst, flags, rot, dsEnabled, kind, side) ==
  LET Pipe(ds, set) ==
        [d |-> d, asked |-> asked, side |-> side, rot |-> rot, ds |-> ds, kind |-> kind,
         flips |-> flags \cap Flips, src |-> set.src, dst |-> set.dst]
      Shrunk(ds) == Pipe(ds, MdpSet(crop, dst, ds, kind = "yuv")) IN
  Shrunk(PipeDownscale(dsEnabled, crop, dst))

KindOf(L) == IF L.yuv THEN "yuv" ELSE "rgb"

(* The pipe of one mixer of a wide display.  The right one is placed at    *)
(* the left edge of its mixer.                                             *)
MixerPipe(d, asked, crop, dst, flags, rot, kind, side) ==
  LET At(q) == IF side = "right" THEN Rect(0, q.t, Width(q), q.b) ELSE q
      Pipe(cut) == configMdp(d, asked, cut.crop, At(cut.dst), flags, rot, FALSE, kind, side) IN
  Pipe(calculate_crop_rects(crop, dst, Half(d, side), {}))

(* acquireMDPPipes: the mixers a layer has a pipe at.                      *)
MixersOf(d, L) ==
  CASE L.dst.l > Xres(d) \div 2 -> {"right"}
    [] L.dst.l <= Xres(d) \div 2 /\ L.dst.r <= Xres(d) \div 2 -> {"left"}
    [] OTHER -> {"left", "right"}

(* Where a layer is placed, on an external display (not on a wide one) by  *)
(* the display.  own: how the application has turned it, whatever becomes  *)
(* of that there.                                                          *)
Place(d, L) ==
  LET at == IF d = 1 /\ ~HighRes(d)
            THEN calcExtDisplayPosition(Ext, L.yuv, L.crop, L.dst, L.transform)
            ELSE [crop |-> L.crop, dst |-> L.dst, transform |-> L.transform] IN
  [crop |-> at.crop, dst |-> at.dst, transform |-> at.transform, own |-> L.transform]

LayerDownscale(d, L, p) ==
  IF L.yuv /\ panel.version = "MDP4" /\ ~HighRes(d)
  THEN getDownscaleFactor(Width(p.crop), Height(p.crop), Width(p.dst), Height(p.dst))
  ELSE 0

ForcesRotator(d, L, p, parity) ==
  /\ L.yuv /\ (HighRes(d) \/ panel.version = "MDP4")
  /\ needToForceRotator(d, L, p.transform, parity)

NeedsRotator(d, L, p, parity) ==
  L.yuv /\ (\/ "ROT_90" \in p.transform
            \/ LayerDownscale(d, L, p) # 0 \/ ForcesRotator(d, L, p, parity))

(* The crop as the pipe sees it: of what the session rot makes, if any.    *)
SourceCrop(L, p, crop, rot) ==
  IF rot = 0 THEN crop
  ELSE updateSource(p.transform, PadTiled(L.format, L.w, L.h), crop).crop

(* configureLowRes from setMdpFlags on, p: where the layer is placed.      *)
LowResPipes(d, L, p, rot) ==
  LET Pipe(t, ds) == configMdp(d, p, SourceCrop(L, p, t.crop, rot), t.dst,
                               setMdpFlags(L, ds, p.transform), rot, ds # 0,
                               KindOf(L), "whole") IN
  {Pipe(trimLayer(Screen(Xres(d), Yres(d)), p.transform, p.crop, p.dst),
        LayerDownscale(d, L, p))}

(* configureHighRes from setMdpFlags on.  The halves of a flipped layer    *)
(* would be swapped if rot, the address of the pointer, were NULL.         *)
HighResPipes(d, L, p, rot) ==
  LET Pipe(t, side) == MixerPipe(d, p, SourceCrop(L, p, t.crop, rot), t.dst,
                                 setMdpFlags(L, 0, p.transform), rot, KindOf(L), side) IN
  {Pipe(trimLayer(Screen(Xres(d), Yres(d)), p.transform, p.crop, p.dst), side) :
     side \in MixersOf(d, L)}

PipesFor(d, L, p, rot) ==
  IF HighRes(d) THEN HighResPipes(d, L, p, rot) ELSE LowResPipes(d, L, p, rot)

-----------------------------------------------------------------------------
Init ==
  /\ ExtInit /\ mVInfo = NoInfo /\ panel \in Panels /\ orientation \in Orientations
  /\ frame = 0 /\ phase = "idle" /\ dpy = 0 /\ todo = <<>> /\ stage = "over"
  /\ mRot = [s \in Slots |-> Deleted] /\ mUseCount = 0
  /\ mLayerRotMap = [d \in Displays |-> <<>>]
  /\ mPrevWHF = [d \in Displays |-> [i \in {0, 1} |-> <<0, 0>>]]
  /\ shown = {} /\ driverRefused = FALSE /\ deniedUnjustly = FALSE /\ rotated = {}

(* A display is begun: setListStats forgets the sizes of its videos when   *)
(* there is none, allocLayerPipes the other one when there is one.         *)
Begin(d) ==
  /\ dpy' = d /\ stage' = "begun"
  /\ todo' \in IF Connected(d) THEN Parities ELSE {<<>>}
  /\ mPrevWHF' = CASE Len(todo') = 0 -> [mPrevWHF EXCEPT ![d] = [i \in {0, 1} |-> <<0, 0>>]]
                   [] Len(todo') = 1 -> [mPrevWHF EXCEPT ![d][1 - Head(todo')] = <<0, 0>>]
                   [] OTHER -> mPrevWHF

(* hwc_prepare: reset() of the maps, RotMgr::configBegin, then the         *)
(* displays from the last to the first.                                    *)
ConfigBegin ==
  /\ phase = "idle" /\ phase' = "prepare"
  /\ frame < Len(Layers) /\ frame' = frame + 1
  /\ mUseCount' = 0
  /\ mLayerRotMap' = [d \in Displays |-> <<>>]
  /\ driverRefused' = FALSE /\ deniedUnjustly' = FALSE
  /\ Begin(1)
  /\ UNCHANGED <<dpyVars, orientation, mRot, shown, rotated>>

NextDisplay ==
  /\ phase = "prepare" /\ dpy = 1 /\ todo = <<>>
  /\ Begin(0)
  /\ shown' = {}
  /\ UNCHANGED <<dpyVars, orientation, frame, phase, sessVars, histVars, rotated>>

(* What a session is asked to do for a layer, and what it makes of it.     *)
WantOf(d, L, p) ==
  MdpConf(L.format, PadTiled(L.format, L.w, L.h),
          setMdpFlags(L, LayerDownscale(d, L, p), p.transform), p.transform,
          LayerDownscale(d, L, p))

LayerConf(d, L, p) ==
  RotConf(getNext.conf, L.format, PadTiled(L.format, L.w, L.h),
          setMdpFlags(L, LayerDownscale(d, L, p), p.transform), p.transform,
          LayerDownscale(d, L, p))

(* The session a layer gets when everything goes well.                     *)
TakeSession(d, want, conf) ==
  /\ mUseCount < MAX_ROT_SESS
  /\ mUseCount' = mUseCount + 1
  /\ mRot' = [mRot EXCEPT ![mUseCount + 1] = CommitRotator(getNext, conf, TRUE)]
  /\ mLayerRotMap' = [mLayerRotMap EXCEPT ![d] =
                        Append(@, [rot |-> mUseCount + 1, want |-> want])]

MoreVideo(L) == phase = "prepare" /\ stage \in {"begun", "layers"} /\ todo # <<>> /\ L.yuv

SizeSeen(L, p) ==
  IF HighRes(dpy) \/ panel.version = "MDP4"
  THEN Remembered(dpy, L, p.transform, Head(todo)) ELSE mPrevWHF

(* MDPComp::configure of a video, placed at p.                             *)
ConfigureVideo(L, p) ==
  /\ MoreVideo(L)
  /\ IF NeedsRotator(dpy, L, p, Head(todo))
     THEN /\ TakeSession(dpy, WantOf(dpy, L, p), LayerConf(dpy, L, p))
          /\ shown' = PipesFor(dpy, L, p, mUseCount + 1)
     ELSE UNCHANGED sessVars /\ shown' = PipesFor(dpy, L, p, 0)
  /\ mPrevWHF' = SizeSeen(L, p)
  /\ todo' = Tail(todo) /\ stage' = "layers"
  /\ UNCHANGED <<dpyVars, orientation, frame, phase, dpy, histVars, rotated>>

(* MDPComp::configure of another layer: never by way of a session, also on *)
(* a display that is turned, where it is placed like the framebuffer.      *)
ConfigureRGB(L, p) ==
  /\ phase = "prepare" /\ stage \in {"begun", "layers"} /\ Connected(dpy) /\ ~L.yuv
  /\ shown' = PipesFor(dpy, L, p, 0) /\ stage' = "layers"
  /\ UNCHANGED <<dpyVars, orientation, frame, phase, dpy, todo, sessVars, mPrevWHF,
                 histVars, rotated>>

(* The framebuffer of a display, of which the layers cover the region.     *)
FbLayer(d, q) == [yuv |-> FALSE, format |-> "RGBA_8888", w |-> Align(Xres(d), 32),
                  h |-> Align(Yres(d), 32), crop |-> q, dst |-> q, transform |-> {},
                  flags |-> {"PREMULT"}]

FbRegion(d, L) ==
  IF d = 0 \/ HighRes(d) \/ (getExtOrientation(Ext) = {} /\ ~dpyAttr.downscale)
  THEN getNonWormholeRegion(<<L.dst>>, Screen(Xres(d), Yres(d)))
  ELSE Screen(Xres(d), Yres(d))

(* FBUpdateLowRes::configure: a turned external display rotates it.        *)
FbTurns(d) == d = 1 /\ ~HighRes(d) /\ "ROT_90" \in getExtOrientation(Ext)

FbLowResPipes(d, fb, p, rot) ==
  {configMdp(d, p, SourceCrop(fb, p, p.crop, rot), p.dst, setMdpFlags(fb, 0, p.transform),
             rot, FALSE, "fb", "whole")}

(* FBUpdateHighRes::configure: each mixer shows half of the region.        *)
FbHighResPipes(d, fb) ==
  LET half == Width(fb.crop) \div 2
      q == fb.crop
      Pipe(src, dst, side) == configMdp(d, [crop |-> q, dst |-> q, transform |-> {}, own |-> {}],
                                        src, dst, {}, 0, FALSE, "fb", side) IN
  {Pipe(Rect(q.l, q.t, q.l + half, q.b), Rect(q.l, q.t, q.l + half, q.b), "left"),
   Pipe(Rect(q.l + half, q.t, q.l + 2 * half, q.b), Rect(0, q.t, half, q.b), "right")}

FbPipes(d, fb, p, rot) ==
  IF HighRes(d) THEN FbHighResPipes(d, fb) ELSE FbLowResPipes(d, fb, p, rot)

(* It is set up before the layers, or when they cannot be.                 *)
MayTryFb == phase = "prepare" /\ stage \in {"begun", "fell"} /\ Connected(dpy)

ConfigureFbAt(fb, p) ==
  /\ MayTryFb /\ isValidRect(fb.dst)
  /\ IF FbTurns(dpy)
     THEN /\ TakeSession(dpy, WantOf(dpy, fb, p), LayerConf(dpy, fb, p))
          /\ shown' = FbPipes(dpy, fb, p, mUseCount + 1)
     ELSE UNCHANGED sessVars /\ shown' = FbPipes(dpy, fb, p, 0)
  /\ stage' = IF stage = "begun" THEN "layers" ELSE "over"
  /\ UNCHANGED <<dpyVars, orientation, frame, phase, dpy, todo, mPrevWHF, histVars, rotated>>

ConfigureFb(fb) == ConfigureFbAt(fb, Place(dpy, fb))

(* When something cannot be set up the display falls back, if it has not:  *)
(* its map is cleared, and what the map holds is given back to RotMgr.     *)
FallBack(count) ==
  /\ mLayerRotMap' = ClearedMap(dpy)
  /\ mUseCount' = CountWithout(dpy, count)
  /\ todo' = <<>> /\ shown' = {}
  /\ stage' = IF stage \in {"begun", "layers"} THEN "fell" ELSE "over"
  /\ UNCHANGED <<dpyVars, orientation, frame, phase, dpy, rotated>>

InMaps == Len(mLayerRotMap[0]) + Len(mLayerRotMap[1])

(* There is no session left (for a framebuffer there always is one) ...    *)
Denied ==
  /\ mUseCount >= MAX_ROT_SESS
  /\ deniedUnjustly' = (deniedUnjustly \/ (InMaps < MAX_ROT_SESS /\ ~driverRefused))
  /\ FallBack(mUseCount)
  /\ UNCHANGED <<mRot, driverRefused>>

VideoDenied(L, p) ==
  /\ MoreVideo(L) /\ NeedsRotator(dpy, L, p, Head(todo))
  /\ Denied /\ mPrevWHF' = SizeSeen(L, p)

(* ... or the driver refuses what the session is to do: it is not in the   *)
(* map yet, and stays in use ...                                           *)
SessionRefused(conf) ==
  /\ mUseCount < MAX_ROT_SESS /\ CommitMayFail(getNext, conf)
  /\ mRot' = [mRot EXCEPT ![mUseCount + 1] = CommitRotator(getNext, conf, FALSE)]
  /\ driverRefused' = TRUE
  /\ FallBack(mUseCount + 1)
  /\ UNCHANGED deniedUnjustly

VideoRefused(L, p) ==
  /\ MoreVideo(L) /\ NeedsRotator(dpy, L, p, Head(todo))
  /\ SessionRefused(LayerConf(dpy, L, p)) /\ mPrevWHF' = SizeSeen(L, p)

FbRefused(fb) ==
  /\ MayTryFb /\ FbTurns(dpy)
  /\ SessionRefused(LayerConf(dpy, fb, Place(dpy, fb))) /\ UNCHANGED mPrevWHF

(* ... or the commit of a pipe fails.                                      *)
PipeRefused ==
  /\ phase = "prepare" /\ shown # {}
  /\ FallBack(mUseCount)
  /\ UNCHANGED <<mRot, mPrevWHF, histVars>>

(* RotMgr::configDone: what was not used in the round is deleted.          *)
ConfigDone ==
  /\ phase = "prepare" /\ dpy = 0 /\ todo = <<>>
  /\ phase' = "set" /\ shown' = {} /\ todo' = SlotsOf(0)
  /\ mRot' = [s \in Slots |-> IF s > mUseCount THEN Deleted ELSE mRot[s]]
  /\ UNCHANGED <<dpyVars, orientation, frame, dpy, stage, mUseCount, mLayerRotMap,
                 mPrevWHF, histVars, rotated>>

-----------------------------------------------------------------------------
(* hwc_set.                                                                *)

(* The size of the memory a session rotates into: of an MDSS session the   *)
(* secure one is padded to megabytes.                                      *)
OutputSize(conf) ==
  LET turned == "ROT_90" \in conf.orient
      size == calcOutputBufSize([w |-> IF turned THEN conf.h ELSE conf.w,
                                 h |-> IF turned THEN conf.w ELSE conf.h,
                                 format |-> conf.format]) IN
  IF panel.version = "MDSS" /\ "SECURE" \in conf.flags THEN Align(size, 1048576) ELSE size

Resized(s) == OutputSize(mRot[s].conf) # mRot[s].size

(* queueBuffer of a session: remap, play, close of the memory replaced.    *)
(* When the play fails the replaced memory stays, and the layers that      *)
(* follow are not drawn (on a wide display, and the framebuffer, they      *)
(* are); a map holds one session of the framebuffer at most.               *)
IsFb(s) == mRot[s].conf.format = "MDP_RGBA_8888"
OnlyFb(seq) == IF \E s \in Slots : Holds(seq, s) /\ IsFb(s)
               THEN <<CHOOSE s \in Slots : Holds(seq, s) /\ IsFb(s)>> ELSE <<>>

QueueBuffer(played) ==
  LET s == Head(todo) IN
  /\ phase = "set" /\ todo # <<>> /\ ~(Resized(s) /\ mRot[s].prev)
  /\ mRot' = [mRot EXCEPT ![s].size = OutputSize(mRot[s].conf),
                          ![s].prev = ~played /\ (@ \/ (Resized(s) /\ mRot[s].size # 0))]
  /\ todo' = IF played \/ HighRes(dpy) THEN Tail(todo) ELSE OnlyFb(Tail(todo))
  /\ rotated' = IF played THEN rotated \cup {s} ELSE rotated
  /\ UNCHANGED <<dpyVars, orientation, frame, phase, dpy, stage, mUseCount, mLayerRotMap,
                 mPrevWHF, shown, histVars>>

(* Memory that is to be replaced while the last one replaced is there, or  *)
(* that cannot be had, ends the process.                                   *)
QueueAborts ==
  /\ phase = "set" /\ todo # <<>> /\ Resized(Head(todo))
  /\ phase' = "aborted"
  /\ UNCHANGED <<dpyVars, orientation, frame, dpy, todo, stage, sessVars, mPrevWHF, shown,
                 histVars, rotated>>

DrawSecond ==
  /\ phase = "set" /\ dpy = 0 /\ todo = <<>>
  /\ dpy' = 1 /\ todo' = SlotsOf(1)
  /\ UNCHANGED <<dpyVars, orientation, frame, phase, stage, sessVars, mPrevWHF, shown,
                 histVars, rotated>>

DrawNext == ~Virtual /\ DrawSecond
DrawVirtual == Virtual /\ DrawSecond

SetDone ==
  /\ phase = "set" /\ dpy = 1 /\ todo = <<>>
  /\ phase' = "idle" /\ rotated' = {} /\ dpy' = 0 /\ stage' = "over"
  /\ driverRefused' = FALSE /\ deniedUnjustly' = FALSE
  /\ UNCHANGED <<dpyVars, orientation, frame, todo, sessVars, mPrevWHF, shown>>

-----------------------------------------------------------------------------
(* Between frames.                                                         *)

(* hwc_blank: RotMgr::clear.  The maps keep pointing at the sessions.      *)
Blank ==
  /\ phase = "idle"
  /\ mRot' = [s \in Slots |-> Deleted] /\ mUseCount' = 0
  /\ UNCHANGED <<dpyVars, orientation, roundVars, mLayerRotMap, mPrevWHF, shown,
                 histVars, rotated>>

(* Left out: the action safe margins of a WFD session in downscale mode.   *)
(* They are worked out from the size of the external display, which is 0.  *)
MarginsKnown(attr, o) == Virtual' /\ attr.downscale => o.asW = 0 /\ o.asH = 0

SetOrientation ==
  /\ phase = "idle" /\ orientation' \in Orientations
  /\ UNCHANGED <<dpyVars, roundVars, sessVars, mPrevWHF, shown, histVars, rotated>>
  /\ MarginsKnown(dpyAttr, orientation')

PlugIn ==
  /\ phase = "idle" /\ ~mFd /\ ~Virtual
  /\ \E edid \in Edids, user \in UserModes, underscan, accepted \in BOOLEAN :
       configure(edid, user, underscan, accepted)
  /\ UNCHANGED <<mVInfo, orientation, roundVars, sessVars, mPrevWHF, shown, histVars, rotated>>

PlugOut ==
  /\ phase = "idle" /\ teardown
  /\ UNCHANGED <<mVInfo, orientation, roundVars, sessVars, mPrevWHF, shown, histVars, rotated>>

WfdOnline ==
  /\ phase = "idle" /\ ~mFd /\ \E info \in WfdSizes : configureVirtual(info)
  /\ MarginsKnown(dpyAttr', orientation)
  /\ UNCHANGED <<orientation, roundVars, sessVars, mPrevWHF, shown, histVars, rotated>>

WfdOffline ==
  /\ phase = "idle" /\ teardownVirtual
  /\ UNCHANGED <<orientation, roundVars, sessVars, mPrevWHF, shown, histVars, rotated>>

ConfigureLayer(L, p) ==
  ConfigureVideo(L, p) \/ ConfigureRGB(L, p) \/ VideoDenied(L, p) \/ VideoRefused(L, p)

LayersNow == IF phase = "prepare" THEN Layers[frame] ELSE {}

Next ==
  \/ ConfigBegin \/ NextDisplay \/ ConfigDone
  \/ \E L \in LayersNow : \/ ConfigureLayer(L, Place(dpy, L))
                         \/ ConfigureFb(FbLayer(dpy, FbRegion(dpy, L)))
  \/ FbRefused(FbLayer(dpy, Screen(Xres(dpy), Yres(dpy)))) \/ PipeRefused
  \/ \E played \in BOOLEAN : QueueBuffer(played)
  \/ QueueAborts \/ DrawNext \/ DrawVirtual \/ SetDone
  \/ Blank \/ SetOrientation \/ PlugIn \/ PlugOut \/ WfdOnline \/ WfdOffline

Spec == Init /\ [][Next]_vars

-----------------------------------------------------------------------------
TypeOK ==
  /\ panel \in Panels /\ orientation \in Orientations /\ mFd \in BOOLEAN
  /\ phase \in {"idle", "prepare", "set", "aborted"} /\ dpy \in Displays
  /\ stage \in {"begun", "layers", "fell", "over"}
  /\ frame \in 0 .. Len(Layers) /\ (phase = "prepare" => frame > 0)
  /\ mUseCount \in 0 .. MAX_ROT_SESS
  /\ \A d \in Displays : \A k \in DOMAIN mLayerRotMap[d] : mLayerRotMap[d][k].rot \in Slots
  /\ dpyAttr.xres \in Nat /\ dpyAttr.yres \in Nat
  /\ \A s \in Slots : /\ mRot[s].size \in Nat /\ mRot[s].conf.ds \in 0 .. 3
                      /\ mRot[s].conf.w \in Nat /\ mRot[s].conf.h \in Nat
  /\ rotated \subseteq Slots /\ driverRefused \in BOOLEAN

(* The point of the buffer a corner of a pipe shows: i, j are 0 at its     *)
(* left and top, 1 at its right and bottom.  The pipe flips what it reads; *)
(* what it reads is the buffer, or what the session makes of it.           *)
PointRead(pipe, i, j) ==
  LET a == IF "FLIP_H" \in pipe.flips THEN 1 - i ELSE i
      b == IF "FLIP_V" \in pipe.flips THEN 1 - j ELSE j IN
  [x |-> (IF a = 0 THEN pipe.src.l ELSE pipe.src.r) * 2 ^ pipe.ds,
   y |-> (IF b = 0 THEN pipe.src.t ELSE pipe.src.b) * 2 ^ pipe.ds]

TurnedBack(k, p) ==
  LET q == IF "ROT_90" \in k.orient THEN [x |-> p.y, y |-> k.h - p.x] ELSE p IN
  [x |-> IF "FLIP_H" \in k.orient THEN k.w - q.x ELSE q.x,
   y |-> IF "FLIP_V" \in k.orient THEN k.h - q.y ELSE q.y]

PointInBuffer(pipe, i, j) ==
  IF pipe.rot = 0 THEN PointRead(pipe, i, j)
  ELSE TurnedBack(mRot[pipe.rot].kern, PointRead(pipe, i, j))

(* The point asked for at (x, y) of the screen: how far across the crop    *)
(* and how far down, as fractions.                                         *)
PointAsked(asked, x, y) ==
  LET m == Width(asked.dst)  n == Height(asked.dst)
      fx == IF "FLIP_H" \in asked.transform THEN asked.dst.r - x ELSE x - asked.dst.l
      fy == IF "FLIP_V" \in asked.transform THEN asked.dst.b - y ELSE y - asked.dst.t IN
  IF "ROT_90" \in asked.transform
  THEN [x |-> <<fy, n>>, y |-> <<m - fx, m>>] ELSE [x |-> <<fx, m>>, y |-> <<fy, n>>]

Near(p, lo, size, f, tolerance) ==
  LET off == (p - lo) * f[2] - size * f[1] IN
  -tolerance * f[2] <= off /\ off <= tolerance * f[2]

(* Known to go wrong on a wide display: the halves of a layer the pipes    *)
(* flip are not swapped; a layer to the right of the middle, and half of a *)
(* framebuffer region that is not centred, are placed at the middle        *)
(* (hwc_utils.cpp:1512, :1558, hwc_fbupdate.cpp:347).                      *)
SplitGoesWrong(pipe) ==
  LET dst == pipe.asked.dst IN
  /\ pipe.side # "whole"
  /\ \/ "FLIP_H" \in pipe.flips /\ \E other \in shown : other.side # pipe.side
     \/ pipe.side = "right" /\ dst.l > Xres(pipe.d) \div 2
     \/ pipe.kind = "fb" /\ dst.l + dst.r # Xres(pipe.d)

(* Known to go wrong on an external display in downscale mode: a layer     *)
(* over its edge is trimmed to the size the primary lends, not to the one  *)
(* the display has (hwc_utils.cpp:1158).                                   *)
TrimGoesWrong(pipe) ==
  LET dst == pipe.asked.dst IN
  /\ pipe.d = 1 /\ dpyAttr.downscale
  /\ Overlap(dst, Real(1)) # Overlap(dst, Screen(Xres(1), Yres(1)))

(* Known to go wrong when the rotator shrinks a layer over the edge: by    *)
(* how much is worked out for the session before the layer is trimmed, for *)
(* the pipe after, and rounding may carry the ratio past a step            *)
(* (hwc_utils.cpp:1391, overlayGenPipe.cpp:114).                           *)
ShrinkGoesWrong(pipe) ==
  LET asked == pipe.asked
      t == trimLayer(Screen(Xres(pipe.d), Yres(pipe.d)), asked.transform, asked.crop, asked.dst) IN
  /\ pipe.rot # 0 /\ mRot[pipe.rot].kern.ds # 0
  /\ PipeDownscale(TRUE, t.crop, t.dst) # PipeDownscale(TRUE, asked.crop, asked.dst)

(* Known to go wrong on an external display turned by 90 degrees: a layer  *)
(* that is no video is set up like the framebuffer, over the whole display *)
(* but without the session that turns the framebuffer.  Only its own       *)
(* transform is looked at when it is chosen (hwc_mdpcomp.cpp:280,          *)
(* hwc_utils.cpp:1408).                                                    *)
TurnGoesWrong(pipe) ==
  pipe.d = 1 /\ pipe.kind = "rgb" /\ pipe.rot = 0 /\ "ROT_90" \in pipe.asked.transform

(* Known to go wrong on an external display that is turned in any way: its *)
(* orientation takes the place of the layer's own transform, which is lost *)
(* (hwc_utils.cpp:556).                                                    *)
OrientationOf(d) == IF d = 1 /\ ~HighRes(d) THEN getExtOrientation(Ext) ELSE {}

OverwrittenGoesWrong(pipe) == pipe.asked.own # {} /\ OrientationOf(pipe.d) # {}

TurnedAsAsked(pipe) ==
  pipe.asked.transform = IF pipe.asked.own = {} THEN OrientationOf(pipe.d) ELSE pipe.asked.own

(* The part of the screen a pipe is to fill.                               *)
PartOf(pipe) == Overlap(pipe.asked.dst, Half(pipe.d, pipe.side))

Close(a, b) == a - b \in -1 .. 1

FillsItsPart(pipe) ==
  LET part == PartOf(pipe)
      left == IF pipe.side = "right" THEN Half(pipe.d, "right").l ELSE 0 IN
  /\ Close(pipe.dst.l + left, part.l) /\ Close(pipe.dst.t, part.t)
  /\ Close(pipe.dst.r + left, part.r) /\ Close(pipe.dst.b, part.b)

Tolerance(pipe) == IF pipe.kind = "yuv" THEN 4 * 2 ^ pipe.ds ELSE 2

CornerShows(pipe, i, j) ==
  LET part == PartOf(pipe)  crop == pipe.asked.crop
      got == PointInBuffer(pipe, i, j)
      ask == PointAsked(pipe.asked, IF i = 0 THEN part.l ELSE part.r,
                                    IF j = 0 THEN part.t ELSE part.b) IN
  /\ Near(got.x, crop.l, Width(crop), ask.x, Tolerance(pipe))
  /\ Near(got.y, crop.t, Height(crop), ask.y, Tolerance(pipe))

(* What is asked of a pipe is something to show: a destination that is not *)
(* empty, of which a wide display has some to be halved, and for the       *)
(* framebuffer one that is on the screen.                                  *)
WellPlaced(pipe) ==
  LET asked == pipe.asked
      wide == Screen(Xres(pipe.d), Yres(pipe.d))
      screen == IF HighRes(pipe.d) THEN wide ELSE Real(pipe.d) IN
  /\ asked.crop \in Rects /\ asked.dst \in Rects /\ isValidRect(asked.dst)
  /\ HighRes(pipe.d) => isValidRect(Overlap(asked.dst, wide))
  /\ pipe.kind = "fb" => Overlap(asked.dst, screen) = asked.dst

ShowsItsPart(pipe) ==
  /\ FillsItsPart(pipe)
  /\ pipe.rot # 0 => mRot[pipe.rot].kern.ds = pipe.ds
  /\ \A i, j \in {0, 1} : CornerShows(pipe, i, j)

(* What a layer asks for is what its pipes show: it is well placed, and    *)
(* turned as it says or, if it says nothing, as the display is; each pipe  *)
(* fills the part of the destination that is on the screen (on its half of *)
(* it), inside the screen, and at the corners of it shows the point of the *)
(* buffer that crop, destination and transform ask for, through the crop,  *)
(* the trimming to the display, the split between two mixers, the rotation *)
(* and shrinking by the session, of which session and pipe must make the   *)
(* same, and the flips by the pipe.  To within two pixels, of a video some *)
(* more for the evening of its rectangles.  Where an external display that *)
(* is turned, scales or has margins puts crop and destination is taken as  *)
(* calcExtDisplayPosition has it.                                          *)
ShownAsAsked ==
  \A pipe \in shown :
    /\ WellPlaced(pipe)
    /\ OverwrittenGoesWrong(pipe) \/ TurnedAsAsked(pipe)
    /\ \/ SplitGoesWrong(pipe) \/ TrimGoesWrong(pipe) \/ ShrinkGoesWrong(pipe)
       \/ TurnGoesWrong(pipe) \/ ShowsItsPart(pipe)

(* From the moment the displays are set up until they have been drawn,     *)
(* every session in a map exists, is in the map once, of one display, and  *)
(* has been told by the driver's leave to do what its layer wants (an MDSS *)
(* session keeps, besides, the flags of the layers it has served before);  *)
(* one that has rotated has memory of the size that takes.  A layer is     *)
(* denied a session only when three are in maps, or one was lost to a      *)
(* configRotator that failed.                                              *)
SessionsServeTheirLayers ==
  /\ ~deniedUnjustly
  /\ phase \in {"prepare", "set"} =>
       \A d \in Displays : \A i \in DOMAIN mLayerRotMap[d] :
         LET entry == mLayerRotMap[d][i]  rot == mRot[entry.rot]  kern == rot.kern IN
         /\ rot.alive /\ [kern EXCEPT !.flags = {}] = [entry.want EXCEPT !.flags = {}]
         /\ entry.want.flags \subseteq kern.flags
         /\ \A e \in Displays : \A j \in DOMAIN mLayerRotMap[e] :
              mLayerRotMap[e][j].rot = entry.rot => <<d, i>> = <<e, j>>
         /\ entry.rot \in rotated => rot.size = OutputSize(kern)
-----------------------------------------------------------------------------
(* The inductive invariant.                                                *)

EntriesOf(d) == {mLayerRotMap[d][k] : k \in DOMAIN mLayerRotMap[d]}

SessionsHaveShape ==
  /\ DOMAIN mRot = Slots /\ \A s \in Slots : DOMAIN mRot[s] = DOMAIN Fresh
  /\ DOMAIN mLayerRotMap = Displays
  /\ \A d \in Displays : mLayerRotMap[d] \in Seq(EntriesOf(d))
  /\ phase = "set" => todo \in Seq(Slots)

(* RotMgr counts what the maps hold, and what was lost to the driver.      *)
CountsMaps ==
  phase = "prepare" =>
    /\ InMaps <= mUseCount /\ (~driverRefused => InMaps = mUseCount)
    /\ dpy = 1 => mLayerRotMap[0] = <<>>

(* The second display, which is set up first, has the slots up to some     *)
(* one, in the order of its map; the primary all those taken last.         *)
SlotsInOrder ==
  phase \in {"prepare", "set"} =>
    LET base == mUseCount - Len(mLayerRotMap[0]) IN
    /\ \A i \in DOMAIN mLayerRotMap[0] : mLayerRotMap[0][i].rot = base + i
    /\ \A i \in DOMAIN mLayerRotMap[1] :
         /\ mLayerRotMap[1][i].rot <= base
         /\ \A j \in DOMAIN mLayerRotMap[1] :
              i < j => mLayerRotMap[1][i].rot < mLayerRotMap[1][j].rot

(* What the driver was told last for a session in a map is what its layer  *)
(* wants.                                                                  *)
Serves(rot, want) ==
  /\ rot.alive /\ rot.conf = rot.kern
  /\ [rot.kern EXCEPT !.flags = {}] = [want EXCEPT !.flags = {}]
  /\ want.flags \subseteq rot.kern.flags

EntriesServed ==
  phase \in {"prepare", "set"} =>
    \A d \in Displays : \A i \in DOMAIN mLayerRotMap[d] :
      Serves(mRot[mLayerRotMap[d][i].rot], mLayerRotMap[d][i].want)

RotatedHaveMemory ==
  /\ phase \in {"idle", "prepare"} => rotated = {}
  /\ \A s \in rotated : mRot[s].size = OutputSize(mRot[s].conf)

(* Only a display that is open has a mode.                                 *)
ModeInv ==
  /\ ~mFd => mCurrentMode = NoMode /\ timing = NoMode /\ ~refused
  /\ mFd => dpyAttr = setAttributes(mCurrentMode, panel.w, panel.h)
  /\ mFd /\ ~refused => timing = mCurrentMode

(* A session makes of the buffer what the layer, placed at p, wants, and   *)
(* leaves no flip to the pipe; a layer without one needs none.             *)
Served(L, p, rot) ==
  LET ds == LayerDownscale(dpy, L, p) IN
  \/ rot = 0 /\ "ROT_90" \notin p.transform /\ ds = 0
  \/ /\ rot \in Slots /\ setMdpFlags(L, ds, p.transform) \cap Flips = {}
     /\ \A x \in {"w", "h", "orient", "ds"} : mRot[rot].kern[x] = WantOf(dpy, L, p)[x]

(* A layer, placed at p, that is to be turned but has no session.          *)
LeftUnturned(L, p, rot) ==
  ~L.yuv /\ rot = 0 /\ "ROT_90" \in p.transform /\ "ROT_90" \in OrientationOf(dpy)

(* The pipes that are shown are those of a layer of the frame, or of the   *)
(* framebuffer, and their session serves it, but for a layer that is no    *)
(* video on a display turned by 90 degrees.                                *)
ShownIsServed ==
  shown # {} => \E L \in LayersNow, rot \in 0 .. MAX_ROT_SESS :
    LET fb == FbLayer(dpy, FbRegion(dpy, L)) IN
    \/ /\ shown = PipesFor(dpy, L, Place(dpy, L), rot)
       /\ Served(L, Place(dpy, L), rot) \/ LeftUnturned(L, Place(dpy, L), rot)
    \/ shown = FbPipes(dpy, fb, Place(dpy, fb), rot) /\ Served(fb, Place(dpy, fb), rot)

IInv ==
  /\ TypeOK /\ ~deniedUnjustly /\ ModeInv
  /\ SessionsHaveShape /\ CountsMaps /\ SlotsInOrder /\ EntriesServed /\ RotatedHaveMemory
=============================================================================
