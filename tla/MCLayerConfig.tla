----------------------------- MODULE MCLayerConfig -----------------------------
(* The instance of LayerConfig for TLC.  The placed layers, whose crops do *)
(* not begin at the left edge, are for the geometry: every transform, over *)
(* the edges of the screen and on either side of its middle, on every      *)
(* display.  They are set up before there is a session, and what follows   *)
(* them is not explored.  The videos that come back are for the sessions:  *)
(* frames of them are drawn, one after the other, in a few of the settings *)
(* of the displays.                                                        *)
EXTENDS LayerConfig

MCPanels == {[version |-> "MDP4", w |-> 1200, h |-> 1920],
             [version |-> "MDSS", w |-> 1080, h |-> 1920],
             [version |-> "MDSS", w |-> 2560, h |-> 1600]}

Video(format, w, h, crop, dst, transform, flags) ==
  [yuv |-> TRUE, format |-> format, w |-> w, h |-> h, crop |-> crop, dst |-> dst,
   transform |-> transform, flags |-> flags]

Transforms == SUBSET Turns

Places == {Rect(100, 200, 700, 500), Rect(-60, -30, 300, 240), Rect(900, 1000, 1320, 1640),
           Rect(1300, 100, 1900, 700), Rect(1000, 400, 1800, 900)}

Placed ==
  {Video("YCrCb_420_SP", 640, 480, Rect(20, 10, 620, 470), dst, t, {}) :
     dst \in Places, t \in Transforms}
  \cup {Video("YCbCr_420_SP_TILED", 1920, 1080, Rect(64, 32, 1664, 864), dst, t, {"SECURE"}) :
     dst \in {Rect(100, 200, 500, 400), Rect(-60, 40, 340, 240)}, t \in Transforms}
  \cup {Video("YCrCb_420_SP", 640, 480, Rect(20, 10, 620, 470), Rect(897, 0, 1237, 480), t, {}) :
     t \in Transforms}
  \cup {[yuv |-> FALSE, format |-> "RGBA_8888", w |-> 800, h |-> 600,
         crop |-> Rect(10, 20, 610, 320), dst |-> dst, transform |-> t, flags |-> {"PREMULT"}] :
     dst \in Places, t \in SUBSET Flips}

Plainly == Video("YCrCb_420_SP", 640, 480, Rect(0, 0, 640, 480), Rect(0, 0, 600, 450), {}, {})
Turned == Video("YCrCb_420_SP", 320, 240, Rect(0, 0, 320, 240), Rect(0, 0, 300, 400), {"ROT_90"}, {})
TurnedSecure == Video("YCrCb_420_SP", 640, 480, Rect(0, 0, 640, 480), Rect(0, 0, 450, 600),
                      {"ROT_90", "FLIP_H"}, {"SECURE"})

MCLayers == <<Placed, {Plainly, Turned, TurnedSecure}, {Plainly, Turned}>>

Setting(ext, mirror, dev, as) ==
  [ext |-> ext, mirror |-> mirror, dev |-> dev, asW |-> as, asH |-> as]

MCOrientations ==
  {Setting({}, FALSE, 0, 0), Setting({"ROT_90"}, FALSE, 0, 0), Setting({}, FALSE, 1, 10)}
  \cup {Setting({}, TRUE, dev, 0) : dev \in 0 .. 3}

MCEdids == {<<>>, <<"1920x1080p60">>, <<"720x576p50_4_3", "1280x720p60", "1920x1080i60">>,
            <<"1920x1080p30", "3840x2160p25">>, <<"3840x2160p30">>}
MCWfdSizes == {[w |-> 1280, h |-> 720], [w |-> 1920, h |-> 1080]}
MCUserModes == {NoMode, "1280x720p60", "1920x1080i60"}

-----------------------------------------------------------------------------
NoSession == \A s \in Slots : ~mRot[s].alive

APlacedLayer ==
  \E pipe \in shown : \/ pipe.asked.crop.l > 0 /\ ~(pipe.kind = "fb" /\ pipe.asked.transform # {})
                      \/ TurnGoesWrong(pipe)

(* A session that a placed layer was refused remembers it.                 *)
ToldOfPlaced ==
  \E s \in Slots : \/ mRot[s].conf.orient \notin {{}, {"ROT_90"}, {"ROT_90", "FLIP_H"}}
                   \/ mRot[s].conf.format = "MDP_Y_CBCR_H2V2_TILE"

Explored == ~APlacedLayer /\ ~ToldOfPlaced /\ phase # "aborted"

Plain == Setting({}, FALSE, 0, 0)

RoundSettings ==
  /\ orientation \in {Plain, Setting({"ROT_90"}, FALSE, 0, 0)}
  /\ mFd => mCurrentMode = "1920x1080p60" /\ ~mUnderscanSupported
  /\ ~mFd => mEDIDModes = <<>>
  /\ mFd \/ orientation = Plain
  /\ Virtual => dpyAttr.downscale
  /\ mFd /\ panel.version = "MDSS" => orientation # Plain

FrameSettings ==
  /\ ~mFd /\ ~Virtual => dpyAttr = NoAttr /\ orientation = Plain
  /\ ~refused /\ (mUnderscanSupported => orientation.asW > 0)
  /\ mFd => Known(mCurrentMode)

(* When a placed layer may be set up, frames begun, displays changed.      *)
Bounded ==
  /\ (\E pipe \in shown' : pipe.rot = 0 /\ pipe.kind # "yuv") => NoSession /\ mUseCount = 0
  /\ phase' = "set" => Xres(0) <= MAX_DISPLAY_DIM
  /\ \A s \in Slots : mRot'[s].prev => s = 1
  /\ APlacedLayer' => NoSession /\ mUseCount = 0 /\ (dpy = 0 => ~mFd /\ ~Virtual)
  /\ phase' = "prepare" => FrameSettings
  /\ phase' = "prepare" /\ dpy' = 0 => RoundSettings
  /\ orientation' # orientation \/ dpyVars' # dpyVars => frame = 0
  /\ todo' # todo /\ phase' = "prepare" =>
       IF dpy' = 1 THEN todo' \in {<<>>, <<0>>}
       ELSE todo' \in {<<>>, <<0>>, <<0, 1>>} \/ (panel.version = "MDP4" /\ todo' = <<0, 0>>)
  /\ frame' = 3 => Len(todo') <= 1 /\ stage' # "fell"
=============================================================================
