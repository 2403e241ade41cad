--------------------------- MODULE DisplayControl ---------------------------
(***************************************************************************)
(* What runs beside the composition of the primary display: the idle       *)
(* invalidator, which has a still screen composed in the framebuffer; the  *)
(* panel reset, which answers a uevent; and vsync, whose state the panel   *)
(* reset, SurfaceFlinger's event control and the vsync thread share        *)
(* without a lock.                                                         *)
(*                                                                         *)
(* SurfaceFlinger's main thread makes the sf actions, one composition      *)
(* cycle at a time; every other actor is a thread of its own.              *)
(***************************************************************************)
VARIABLES
  sf,                 (* where SurfaceFlinger's main thread is             *)
  invalidated,        (* proc->invalidate has asked for a redraw           *)
  isActive,           (* dpyAttr[HWC_DISPLAY_PRIMARY].isActive             *)
  frame,              (* what the last frame has on pipes (mCurrentFrame)  *)
  mSleepAgain, sIdleFallBack,
  invalidator,        (* where the thread of IdleInvalidator is            *)
  missed,             (* the last run() found the thread ending (history)  *)
  mPanelResetStatus,
  dead,               (* the panel does not answer                         *)
  reported,           (* a PANEL_ALIVE=0 waits for the uevent thread       *)
  ue,                 (* where the uevent thread is                        *)
  enable, fakevsync,  (* vstate                                            *)
  driverVsync,        (* the driver generates vsync events                 *)
  ec,                 (* where SurfaceFlinger's event control thread is    *)
  vs,                 (* where the vsync thread is                         *)
  vsyncLost           (* vsync was on at a blank, or refused (history)     *)

main  == <<sf, invalidated, isActive, frame>>
idle  == <<mSleepAgain, sIdleFallBack, invalidator, missed>>
panel == <<mPanelResetStatus, dead, reported, ue>>
vsync == <<enable, fakevsync, driverVsync, ec, vs, vsyncLost>>
vars  == <<main, idle, panel, vsync>>

(* Vsync is faked for a debug property, or when the driver's file cannot   *)
(* be opened: the vsync thread knows when it starts.                       *)
Init ==
  /\ sf = "idle" /\ invalidated = FALSE /\ isActive = TRUE /\ frame = "fb"
  /\ mSleepAgain = FALSE /\ sIdleFallBack = FALSE /\ invalidator = "none" /\ missed = FALSE
  /\ mPanelResetStatus = FALSE /\ dead = FALSE /\ reported = FALSE /\ ue = "idle"
  /\ enable = FALSE /\ fakevsync \in BOOLEAN /\ driverVsync = FALSE
  /\ ec = "idle" /\ vs = "read" /\ vsyncLost = FALSE

-----------------------------------------------------------------------------
(* hwc_blank of the primary.  The FBIOBLANK may fail, and isActive stays.  *)
(* A blank takes the pipes away and may end vsync in the driver; power     *)
(* that comes back revives the panel.                                      *)
Blank(blank) ==
  /\ frame' = IF blank THEN "fb" ELSE frame
  /\ \/ UNCHANGED <<isActive, dead, driverVsync>>
     \/ /\ isActive' = ~blank
        /\ driverVsync' \in IF blank THEN {FALSE, driverVsync} ELSE {driverVsync}
        /\ dead' = (dead /\ (blank \/ isActive))

(* SurfaceFlinger turns the screen off or on.                              *)
SfBlank(blank) ==
  /\ sf = "idle" /\ Blank(blank)
  /\ vsyncLost' = (vsyncLost \/ (blank /\ ~fakevsync /\ (enable \/ ec # "idle")))
  /\ UNCHANGED <<sf, invalidated, idle, mPanelResetStatus, reported, ue,
                 enable, fakevsync, ec, vs>>

(* hwc_prepare begins, and looks for a dead panel.                         *)
Begin ==
  /\ sf = "idle"
  /\ sf' = IF mPanelResetStatus THEN "blank" ELSE "prepare"
  /\ invalidated' = FALSE
  /\ UNCHANGED <<isActive, frame, idle, panel, vsync>>

AppFrame == Begin
Redraw == invalidated /\ Begin

(* reset_panel: whatever fails on the way, the flag is cleared.            *)
PanelBlank ==
  /\ sf = "blank" /\ sf' = "unblank" /\ Blank(TRUE)
  /\ UNCHANGED <<invalidated, idle, mPanelResetStatus, reported, ue,
                 enable, fakevsync, ec, vs, vsyncLost>>

PanelUnblank ==
  /\ sf = "unblank" /\ sf' = "vsync" /\ Blank(FALSE)
  /\ UNCHANGED <<invalidated, idle, mPanelResetStatus, reported, ue,
                 enable, fakevsync, ec, vs, vsyncLost>>

(* Faulty: vsync stays as the blank has left it.                           *)
PanelVsyncForgotten ==
  /\ sf = "vsync" /\ sf' = "clear"
  /\ UNCHANGED <<invalidated, isActive, frame, idle, panel, vsync>>

(* hwc_vsync_control(1), which vstate.enable does not learn of.            *)
PanelVsync ==
  /\ sf = "vsync" /\ sf' = "clear"
  /\ IF fakevsync THEN UNCHANGED <<driverVsync, vsyncLost>>
                  ELSE \/ driverVsync' = TRUE /\ UNCHANGED vsyncLost
                       \/ vsyncLost' = TRUE /\ UNCHANGED driverVsync
  /\ UNCHANGED <<invalidated, isActive, frame, idle, panel, enable, fakevsync, ec, vs>>

PanelClear ==
  /\ sf = "clear" /\ sf' = "prepare"
  /\ mPanelResetStatus' = FALSE
  /\ UNCHANGED <<invalidated, isActive, frame, idle, dead, reported, ue, vsync>>

(* MDPComp::prepare: after a timeout only video, or a secure user          *)
(* interface, may go to pipes.  Whether it does is MDPComp's other         *)
(* conditions' to say (FrameComp).                                         *)
Prepare(composed) ==
  /\ sf = "prepare" /\ sf' = "draw"
  /\ composed = "full" => ~sIdleFallBack
  /\ isActive \/ composed = frame
  /\ frame' = composed
  /\ UNCHANGED <<invalidated, isActive, idle, panel, vsync>>

(* MDPComp::draw marks the invalidator for sleep when pipes are in use.    *)
Draw ==
  /\ sf = "draw"
  /\ sf' = IF isActive /\ ~sIdleFallBack /\ frame # "fb" THEN "mark" ELSE "set"
  /\ UNCHANGED <<invalidated, isActive, frame, idle, panel, vsync>>

(* markForSleep, without a lock: the mark, then run(), which starts a      *)
(* thread unless there is one.                                             *)
Mark ==
  /\ sf = "mark" /\ sf' = "run"
  /\ mSleepAgain' = TRUE
  /\ UNCHANGED <<invalidated, isActive, frame, sIdleFallBack, invalidator, missed,
                 panel, vsync>>

Run ==
  /\ sf = "run" /\ sf' = "set"
  /\ invalidator' = IF invalidator = "none" THEN "sleep" ELSE invalidator
  /\ missed' = (invalidator = "ending")
  /\ UNCHANGED <<invalidated, isActive, frame, mSleepAgain, sIdleFallBack, panel, vsync>>

(* The end of hwc_set.                                                     *)
Set ==
  /\ sf = "set" /\ sf' = "idle"
  /\ sIdleFallBack' = FALSE
  /\ UNCHANGED <<invalidated, isActive, frame, mSleepAgain, invalidator, missed, panel, vsync>>

-----------------------------------------------------------------------------
(* IdleInvalidator's thread.                                               *)

(* Faulty: the mark is left.                                               *)
WakesMarked ==
  /\ invalidator = "sleep"
  /\ invalidator' = IF mSleepAgain THEN "sleep" ELSE "timeout"
  /\ UNCHANGED <<main, mSleepAgain, sIdleFallBack, missed, panel, vsync>>

Wakes ==
  /\ invalidator = "sleep"
  /\ invalidator' = IF mSleepAgain THEN "sleep" ELSE "timeout"
  /\ mSleepAgain' = FALSE
  /\ UNCHANGED <<main, sIdleFallBack, missed, panel, vsync>>

(* timeout_handler: the flag, then the redraw.                             *)
Timeout ==
  /\ invalidator = "timeout" /\ invalidator' = "invalidate"
  /\ sIdleFallBack' = TRUE
  /\ UNCHANGED <<main, mSleepAgain, missed, panel, vsync>>

Invalidate ==
  /\ invalidator = "invalidate" /\ invalidator' = "ending"
  /\ invalidated' = TRUE
  /\ UNCHANGED <<sf, isActive, frame, mSleepAgain, sIdleFallBack, missed, panel, vsync>>

(* threadLoop has returned false; run() refuses until the thread is gone.  *)
Ends ==
  /\ invalidator = "ending" /\ invalidator' = "none"
  /\ UNCHANGED <<main, mSleepAgain, sIdleFallBack, missed, panel, vsync>>

-----------------------------------------------------------------------------
(* The panel and the uevent thread.                                        *)

PanelDies ==
  /\ isActive /\ ~dead
  /\ dead' = TRUE /\ reported' = TRUE
  /\ UNCHANGED <<main, idle, mPanelResetStatus, ue, vsync>>

UeReset ==
  /\ ue = "idle" /\ reported
  /\ ue' = "invalidate" /\ reported' = FALSE /\ mPanelResetStatus' = TRUE
  /\ UNCHANGED <<main, idle, dead, vsync>>

(* Faulty: no redraw is asked for.                                         *)
UeInvalidateQuietly ==
  /\ ue = "invalidate" /\ ue' = "idle"
  /\ UNCHANGED <<main, idle, mPanelResetStatus, dead, reported, vsync>>

UeInvalidate ==
  /\ ue = "invalidate" /\ ue' = "idle" /\ invalidated' = TRUE
  /\ UNCHANGED <<sf, isActive, frame, idle, mPanelResetStatus, dead, reported,
                 vsync>>

-----------------------------------------------------------------------------
(* hwc_eventControl, on a thread of SurfaceFlinger's and without the lock: *)
(* it is refused for a blanked display, and does nothing when vstate       *)
(* already says so.                                                        *)
EventControl(on) ==
  /\ ec = "idle" /\ isActive /\ enable # on
  /\ ec' = IF on THEN "enable" ELSE "disable"
  /\ UNCHANGED <<main, idle, panel, enable, fakevsync, driverVsync, vs, vsyncLost>>

(* hwc_vsync_control: the ioctl, which may fail, and then the new state.   *)
Control ==
  /\ ec \in {"enable", "disable"}
  /\ \/ /\ ec' = IF ec = "enable" THEN "enabled" ELSE "disabled"
        /\ driverVsync' = IF fakevsync THEN driverVsync ELSE ec = "enable"
        /\ vsyncLost' = FALSE
     \/ ~fakevsync /\ ec' = "idle" /\ UNCHANGED <<driverVsync, vsyncLost>>
  /\ UNCHANGED <<main, idle, panel, enable, fakevsync, vs>>

Store ==
  /\ ec \in {"enabled", "disabled"} /\ ec' = "idle"
  /\ enable' = (ec = "enabled")
  /\ UNCHANGED <<main, idle, panel, fakevsync, driverVsync, vs, vsyncLost>>

(* vsync_loop.  A read that fails is tried again.                          *)
VsyncRead ==
  /\ vs = "read" /\ (fakevsync \/ driverVsync)
  /\ vs' = "got"
  /\ UNCHANGED <<main, idle, panel, enable, fakevsync, driverVsync, ec, vsyncLost>>

VsyncSend ==
  /\ vs = "got" /\ enable /\ vs' = "read"
  /\ UNCHANGED <<main, idle, panel, enable, fakevsync, driverVsync, ec, vsyncLost>>

VsyncDrop ==
  /\ vs = "got" /\ ~enable /\ vs' = "read"
  /\ UNCHANGED <<main, idle, panel, enable, fakevsync, driverVsync, ec, vsyncLost>>

-----------------------------------------------------------------------------
Cycle == \/ PanelBlank \/ PanelUnblank \/ PanelVsync \/ PanelClear
         \/ \E composed \in {"full", "spared", "fb"} : Prepare(composed)
         \/ Draw \/ Mark \/ Run \/ Set
Invalidator == Wakes \/ Timeout \/ Invalidate \/ Ends
Uevents == UeReset \/ UeInvalidate
VsyncThread == VsyncRead \/ VsyncSend \/ VsyncDrop

Next == \/ \E blank \in BOOLEAN : SfBlank(blank)
        \/ AppFrame \/ Cycle
        \/ Invalidator
        \/ PanelDies \/ Uevents
        \/ \E on \in BOOLEAN : EventControl(on)
        \/ Control \/ Store
        \/ VsyncThread

(* SurfaceFlinger answers an invalidate and finishes a cycle it began; the *)
(* threads run.  No frame, no blank and no event control need ever come.   *)
Fairness == /\ WF_vars(Redraw) /\ WF_vars(Cycle)
            /\ WF_vars(Invalidator) /\ WF_vars(Uevents) /\ WF_vars(Control \/ Store)
            /\ WF_vars(VsyncThread)

Spec == Init /\ [][Next]_vars /\ Fairness
-----------------------------------------------------------------------------
(* "Trigger SF to redraw the current frame" (hwc_mdpcomp.cpp): an          *)
(* application that stops drawing does not keep its layers on pipes: in    *)
(* the end they are composed in the framebuffer, although the flag is      *)
(* cleared by frames that never saw it, and the mark and the thread's end  *)
(* race.  The one way out is a run() that finds the thread between its     *)
(* decision to end and its end (missed).                                   *)
IdleScreenFallsBack == []<><<AppFrame>>_vars \/ <>[]missed \/ []<>(frame # "full")

(* A panel that dies is reset, if it dies again and again too, unless its  *)
(* report is forgotten: the driver has refused to blank or unblank, or the *)
(* reset under way has cleared the flag that the next death had set.       *)
DeadPanelIsReset == dead ~> ~dead \/ ~(reported \/ mPanelResetStatus)

(* "Unblank display and enabling vsync" (hwc.cpp, reset_panel): to         *)
(* SurfaceFlinger, which has asked for vsync, a panel reset is invisible:  *)
(* events keep coming, however event control and resets interleave.  It is *)
(* SurfaceFlinger's part not to blank with vsync on.                       *)
VsyncKeepsComing ==
  <>[](enable /\ isActive /\ ~vsyncLost) => []<><<VsyncSend>>_vars
=============================================================================
