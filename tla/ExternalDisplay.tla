--------------------------- MODULE ExternalDisplay ---------------------------
(***************************************************************************)
(* The mode of the HDMI display: what configure() reads from the driver    *)
(* and the properties, which mode it sets, and what it announces in        *)
(* dpyAttr, until teardown().                                              *)
(*                                                                         *)
(* A mode that getAttrForMode does not know leaves width, height and fps   *)
(* at 0, and setAttributes divides by fps: the process may end there, or   *)
(* go on with a period of 0.                                               *)
(***************************************************************************)
EXTENDS LayerGeometry

CONSTANTS
  Edids,       (* lists of modes a display may offer; <<>>: cannot be read *)
  UserModes    (* values of hw.hdmi.resolution                             *)

VARIABLES
  panel,       (* the primary: its chip (version) and its size w x h       *)
  mFd,         (* the framebuffer of the display is open                   *)
  mEDIDModes,  (* the modes read, mModeCount of them                       *)
  mCurrentMode,
  mUnderscanSupported,
  dpyAttr,     (* what is announced: xres, yres, downscale, vsync_period   *)
  timing,      (* the mode the driver has been given the timing of         *)
  refused      (* the driver has refused a timing since it was plugged in  *)

extVars == <<panel, mFd, mEDIDModes, mCurrentMode, mUnderscanSupported,
             dpyAttr, timing, refused>>

MAX_DISPLAY_DIM == 2048
SECOND == 1000000000   (* in nanoseconds *)
NoMode == "-1"

(* In the order of getModeOrder, from 1.                                   *)
ModeOrder == <<"1440x480i60_4_3", "1440x480i60_16_9", "1440x576i50_4_3",
  "1440x576i50_16_9", "1920x1080i60", "640x480p60", "720x480p60_4_3",
  "720x480p60_16_9", "720x576p50_4_3", "720x576p50_16_9", "1280x1024p60",
  "1280x720p50", "1280x720p60", "1920x1080p24", "1920x1080p25", "1920x1080p30",
  "1920x1080p50", "1920x1080p60", "2560x1600p60", "3840x2160p24", "3840x2160p25",
  "3840x2160p30", "4096x2160p24">>

getModeOrder(mode) ==
  IF \E i \in 1 .. Len(ModeOrder) : ModeOrder[i] = mode
  THEN CHOOSE i \in 1 .. Len(ModeOrder) : ModeOrder[i] = mode ELSE 1

Size(w, h, fps) == [w |-> w, h |-> h, fps |-> fps]

(* getAttrForMode.  There is no case for an interlaced mode, nor for       *)
(* 3840x2160 at 25 Hz.                                                     *)
getAttrForMode(mode) ==
  CASE mode = "640x480p60" -> Size(640, 480, 60)
    [] mode \in {"720x480p60_4_3", "720x480p60_16_9"} -> Size(720, 480, 60)
    [] mode \in {"720x576p50_4_3", "720x576p50_16_9"} -> Size(720, 576, 50)
    [] mode = "1280x720p50" -> Size(1280, 720, 50)
    [] mode = "1280x720p60" -> Size(1280, 720, 60)
    [] mode = "1280x1024p60" -> Size(1280, 1024, 60)
    [] mode = "1920x1080p24" -> Size(1920, 1080, 24)
    [] mode = "1920x1080p25" -> Size(1920, 1080, 25)
    [] mode = "1920x1080p30" -> Size(1920, 1080, 30)
    [] mode = "1920x1080p50" -> Size(1920, 1080, 50)
    [] mode = "1920x1080p60" -> Size(1920, 1080, 60)
    [] mode = "2560x1600p60" -> Size(2560, 1600, 60)
    [] mode = "3840x2160p24" -> Size(3840, 2160, 24)
    [] mode = "3840x2160p30" -> Size(3840, 2160, 30)
    [] mode = "4096x2160p24" -> Size(4096, 2160, 24)
    [] OTHER -> Size(0, 0, 0)

Known(mode) == getAttrForMode(mode).fps # 0

Holds(seq, x) == \E i \in 1 .. Len(seq) : seq[i] = x
isValidMode(modes, mode) == Holds(modes, mode)

(* The switch has no break before its default: no mode is interlaced.      *)
isInterlacedMode(mode) == FALSE

getUserMode(modes, user) ==
  IF isValidMode(modes, user) /\ ~isInterlacedMode(user) THEN user ELSE NoMode

(* The first mode of the highest order.                                    *)
getBestMode(modes) ==
  IF modes = <<>> THEN "640x480p60"
  ELSE modes[CHOOSE i \in 1 .. Len(modes) :
    \A j \in 1 .. Len(modes) :
      /\ getModeOrder(modes[i]) >= getModeOrder(modes[j])
      /\ j < i => getModeOrder(modes[i]) > getModeOrder(modes[j])]

NoAttr == [xres |-> 0, yres |-> 0, downscale |-> FALSE, period |-> 0]

(* setAttributes: a primary that is larger, but not so large that the      *)
(* rotator would shrink it, lends the display its size.                    *)
setAttributes(mode, w, h) ==
  LET a == getAttrForMode(mode)
      lends == w * h > a.w * a.h /\ w <= MAX_DISPLAY_DIM
               /\ getDownscaleFactor(w, h, a.w, a.h) = 0 IN
  [xres |-> IF lends THEN Greatest(w, h) ELSE a.w,
   yres |-> IF lends THEN Least(w, h) ELSE a.h,
   downscale |-> lends,
   period |-> IF a.fps = 0 THEN 0 ELSE SECOND \div a.fps]

-----------------------------------------------------------------------------
ExtInit ==
  /\ mFd = FALSE /\ mEDIDModes = <<>> /\ mCurrentMode = NoMode
  /\ mUnderscanSupported = FALSE /\ dpyAttr = NoAttr
  /\ timing = NoMode /\ refused = FALSE

(* The CE field of scan_info: once it has said that the display underscans *)
(* it is believed, until the display is unplugged.                         *)
readCEUnderscanInfo(underscans) == mUnderscanSupported' = (mUnderscanSupported \/ underscans)

(* When edid_modes cannot be read, or is empty, the modes stay.            *)
readResolution(edid) == IF edid = <<>> THEN mEDIDModes ELSE edid

(* What is not in the list, or is thought to be set, is not set.  A timing *)
(* the driver refuses is taken for set.                                    *)
setResolution(modes, mode, accepted) ==
  IF isValidMode(modes, mode) /\ mCurrentMode # mode
  THEN /\ mCurrentMode' = mode
       /\ timing' = IF accepted THEN mode ELSE timing
       /\ refused' = ~accepted
  ELSE UNCHANGED <<mCurrentMode, timing, refused>>

(* configure(), when the framebuffer can be opened.                        *)
configure(edid, user, underscans, accepted) ==
  LET modes == readResolution(edid)
      chosen == getUserMode(modes, user)
      mode == IF chosen = NoMode THEN getBestMode(modes) ELSE chosen IN
  /\ mFd' = TRUE
  /\ readCEUnderscanInfo(underscans)
  /\ mEDIDModes' = modes
  /\ setResolution(modes, mode, accepted)
  /\ dpyAttr' = setAttributes(mCurrentMode', panel.w, panel.h)
  /\ UNCHANGED panel

resetInfo == mEDIDModes' = <<>> /\ mCurrentMode' = NoMode /\ mUnderscanSupported' = FALSE

(* Faulty: the mode that was set is remembered.                            *)
teardownKeepsMode ==
  /\ mFd /\ mFd' = FALSE
  /\ mEDIDModes' = <<>> /\ mUnderscanSupported' = FALSE
  /\ timing' = NoMode /\ refused' = FALSE
  /\ UNCHANGED <<panel, dpyAttr, mCurrentMode>>

(* closeFrameBuffer and resetInfo.  What was plugged in is gone, and with  *)
(* it the timing the driver had.                                           *)
teardown ==
  /\ mFd /\ mFd' = FALSE
  /\ resetInfo
  /\ timing' = NoMode /\ refused' = FALSE
  /\ UNCHANGED <<panel, dpyAttr>>

-----------------------------------------------------------------------------
(* getAttributes(): the size the display really has.                       *)
getAttributes == getAttrForMode(mCurrentMode)

(* The display shows what is announced: when it is open, in a mode that    *)
(* getAttrForMode knows and whose timing the driver took, the size and     *)
(* the period in dpyAttr are those of the timing in force; in downscale    *)
(* mode the size is the primary's, laid flat, and at least as large.  (A   *)
(* best mode that is not known, and a timing the driver refuses, break it: *)
(* external.cpp:421, :531.)                                                *)
AnnouncedModeIsInForce ==
  mFd /\ Known(mCurrentMode) /\ ~refused =>
    LET t == getAttrForMode(timing) IN
    /\ timing = mCurrentMode
    /\ dpyAttr.period = SECOND \div t.fps
    /\ IF dpyAttr.downscale
       THEN /\ {dpyAttr.xres, dpyAttr.yres} = {panel.w, panel.h}
            /\ dpyAttr.xres >= dpyAttr.yres
            /\ dpyAttr.xres * dpyAttr.yres > t.w * t.h
       ELSE dpyAttr.xres = t.w /\ dpyAttr.yres = t.h
=============================================================================
