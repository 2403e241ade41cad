------------------------------ MODULE DrawCycle ------------------------------
(***************************************************************************)
(* The composition cycle of SurfaceFlinger and the hotplug handling of the *)
(* uevent thread, which share the hwc context under mDrawLock.             *)
(*                                                                         *)
(* SurfaceFlinger takes mDrawLock in hwc_prepare and releases it at the    *)
(* end of hwc_set, where it signals.  The uevent thread changes a display  *)
(* under the lock, asks for a redraw, and waits for that signal to have a  *)
(* whole cycle pass over the change; Locker::wait has no predicate.        *)
(*                                                                         *)
(* Overlay.tla models what a cycle does to the pipes.  Here a display has  *)
(* its pipes set or not, and what FBUpdate and MDPComp do to them is the   *)
(* set of displays a cycle composes.                                       *)
(***************************************************************************)
PRIMARY  == "PRIMARY"
EXTERNAL == "EXTERNAL"
VIRTUAL  == "VIRTUAL"
Pluggable == {EXTERNAL, VIRTUAL}
Displays == {PRIMARY} \cup Pluggable
NoDisplay == "none"

VARIABLES
  lock,          (* "sf" from hwc_prepare to hwc_set, else "free"          *)
  waiting,       (* the uevent thread is blocked in mDrawLock.wait()       *)
  spurious,      (* a wait has returned without a signal (history)         *)
  connected,     (* dpyAttr[d].connected, as the set of such displays      *)
  active,        (* dpyAttr[d].isActive                                    *)
  paused,        (* dpyAttr[d].isPause                                     *)
  configuring,   (* dpyAttr[d].isConfiguring                               *)
  objects,       (* pluggable displays with mFBUpdate, mMDPComp, ...       *)
  fbOpen,        (* pluggable displays whose framebuffer device is open    *)
  mVirtualonExtActive,
  mPanelResetStatus,
  sf,            (* where the SurfaceFlinger thread is                     *)
  ue,            (* where the uevent thread is                             *)
  dpy,           (* the display the uevent thread handles                  *)
  staged,        (* displays whose pipes are set                           *)
  primaryMdp,    (* the last cycle composed the primary's layers with MDP  *)
  invalidated,   (* SurfaceFlinger has been asked for a redraw             *)
  plugged,       (* the last hotplug state SurfaceFlinger was told         *)
  sfExternal     (* SurfaceFlinger has a display EXTERNAL                  *)

dpyAttr  == <<connected, active, paused, configuring>>
resources == <<objects, fbOpen>>
sfView   == <<invalidated, plugged, sfExternal>>
pipes    == <<staged, primaryMdp>>
ueThread == <<ue, dpy, waiting, spurious>>
vars == <<lock, dpyAttr, resources, mVirtualonExtActive, mPanelResetStatus,
          sf, ueThread, pipes, sfView>>

UeWaits == {"offline", "online", "wfdOffline", "pause", "resume"}

TypeOK ==
  /\ lock \in {"free", "sf"} /\ waiting \in BOOLEAN /\ spurious \in BOOLEAN
  /\ connected \subseteq Pluggable /\ active \subseteq Displays
  /\ paused \subseteq Pluggable /\ configuring \subseteq Pluggable
  /\ objects \subseteq Pluggable /\ fbOpen \subseteq Pluggable
  /\ mVirtualonExtActive \in BOOLEAN /\ mPanelResetStatus \in BOOLEAN
  /\ sf \in {"idle", "panelBlank", "panelUnblank", "panelDone", "prepare", "set"}
  /\ ue \in UeWaits \cup {"idle", "wfdStack", "wfdActive", "wfdTeardown", "configure", "setup"}
  /\ dpy \in Pluggable \cup {NoDisplay}
  /\ staged \subseteq Displays /\ primaryMdp \in BOOLEAN
  /\ invalidated \in BOOLEAN /\ plugged \in BOOLEAN /\ sfExternal \in BOOLEAN

(* getDpyforExternalDisplay: a proprietary WFD session goes by the id of   *)
(* the external display.                                                   *)
DpyOf(id) == IF id = EXTERNAL /\ mVirtualonExtActive THEN VIRTUAL ELSE id

Init ==
  /\ lock = "free" /\ waiting = FALSE /\ spurious = FALSE
  /\ connected = {} /\ active = {PRIMARY} /\ paused = {} /\ configuring = {}
  /\ objects = {} /\ fbOpen = {}
  /\ mVirtualonExtActive = FALSE /\ mPanelResetStatus = FALSE
  /\ sf = "idle" /\ ue = "idle" /\ dpy = NoDisplay
  /\ staged = {} /\ primaryMdp = FALSE
  /\ invalidated = FALSE /\ plugged = FALSE /\ sfExternal = FALSE

-----------------------------------------------------------------------------
(* SurfaceFlinger.                                                         *)

(* hwc_blank once it holds the lock, for a display dpy of the HAL.  Blank  *)
(* collects the pipes of every display.  The FBIOBLANK of the primary may  *)
(* fail, which leaves isActive alone.                                      *)
Blank(d, blank) ==
  /\ lock = "free"
  /\ staged' = IF blank THEN {} ELSE staged
  /\ primaryMdp' = (primaryMdp /\ ~blank)
  /\ LET virtual == IF VIRTUAL \in connected THEN {VIRTUAL} ELSE {}
         reached == CASE d = PRIMARY  -> {PRIMARY} \cup
                                         (IF mVirtualonExtActive THEN {} ELSE virtual)
                      [] d = VIRTUAL  -> virtual
                      [] d = EXTERNAL -> {EXTERNAL}
     IN  \/ active' = IF blank THEN active \ reached ELSE active \cup reached
         \/ d = PRIMARY /\ UNCHANGED active
  /\ UNCHANGED <<lock, connected, paused, configuring, resources,
                 mVirtualonExtActive, ueThread, sfView>>

SfBlank(id, blank) ==
  /\ sf = "idle" /\ (id = EXTERNAL => sfExternal)
  /\ Blank(DpyOf(id), blank)
  /\ UNCHANGED <<sf, mPanelResetStatus>>

(* The HotPlug event reaches SurfaceFlinger's own thread.                  *)
SfHotplug ==
  /\ sf = "idle" /\ sfExternal # plugged
  /\ sfExternal' = plugged
  /\ UNCHANGED <<lock, dpyAttr, resources, mVirtualonExtActive, mPanelResetStatus,
                 sf, ueThread, pipes, invalidated, plugged>>

(* hwc_prepare is called, because of invalidate or of a new frame.  It     *)
(* reads mPanelResetStatus before it takes the lock.                       *)
SfRedraw ==
  /\ sf = "idle"
  /\ sf' = IF mPanelResetStatus THEN "panelBlank" ELSE "prepare"
  /\ invalidated' = FALSE
  /\ UNCHANGED <<lock, dpyAttr, resources, mVirtualonExtActive, mPanelResetStatus,
                 ueThread, pipes, plugged, sfExternal>>

(* reset_panel: blank and unblank, each under the lock, then the flag.     *)
SfPanelBlank ==
  /\ sf = "panelBlank" /\ sf' = "panelUnblank"
  /\ Blank(PRIMARY, TRUE)
  /\ UNCHANGED mPanelResetStatus

SfPanelUnblank ==
  /\ sf = "panelUnblank" /\ sf' = "panelDone"
  /\ Blank(PRIMARY, FALSE)
  /\ UNCHANGED mPanelResetStatus

SfPanelDone ==
  /\ sf = "panelDone" /\ sf' = "prepare"
  /\ mPanelResetStatus' = FALSE
  /\ UNCHANGED <<lock, dpyAttr, resources, mVirtualonExtActive, ueThread, pipes, sfView>>

(* Faulty: a paused display is composed.                                   *)
ComposedWhenPaused(ids) ==
  LET listed == {DpyOf(id) : id \in ids} \cap active
  IN  {d \in listed : d = PRIMARY \/ d \in connected}

(* hwc_prepare_external and hwc_prepare_virtual compose a display that has *)
(* layers, is active, connected and not paused.                            *)
Composed(ids) ==
  LET listed == {DpyOf(id) : id \in ids} \cap active
  IN  {d \in listed : d = PRIMARY \/ d \in connected \ paused}

(* Faulty: a pending connection does not keep the layers off MDP.          *)
MdpBlockedByPause(conf) == paused # {}

(* MDPComp::isFrameDoable, with the flags of the pluggable displays.       *)
(* Frames with secure video are exempt from it and are left out.           *)
MdpBlocked(conf) == conf \cup paused # {}

(* hwc_prepare, with layers for the displays in ids.  Pluggable displays   *)
(* are composed before the primary; configDone unsets the pipes of what is *)
(* not composed.  The lock stays held.                                     *)
SfPrepare(ids) ==
  /\ sf = "prepare" /\ lock = "free"
  /\ (EXTERNAL \in ids => sfExternal) /\ (VIRTUAL \in ids => ~mVirtualonExtActive)
  /\ sf' = "set" /\ lock' = "sf"
  /\ staged' = Composed(ids)
  /\ configuring' = configuring \ Composed(ids)
  /\ primaryMdp' \in BOOLEAN
  /\ primaryMdp' => PRIMARY \in Composed(ids) /\ ~MdpBlocked(configuring')
  /\ UNCHANGED <<connected, active, paused, resources, mVirtualonExtActive,
                 mPanelResetStatus, ueThread, sfView>>

(* Faulty: hwc_set does not signal.                                        *)
SfSetSilent ==
  /\ sf = "set" /\ sf' = "idle" /\ lock' = "free"
  /\ UNCHANGED <<dpyAttr, resources, mVirtualonExtActive, mPanelResetStatus,
                 ueThread, pipes, sfView>>

(* hwc_set draws what is composed, signals, and releases the lock.         *)
SfSet ==
  /\ sf = "set" /\ sf' = "idle" /\ lock' = "free"
  /\ waiting' = FALSE
  /\ UNCHANGED <<dpyAttr, resources, mVirtualonExtActive, mPanelResetStatus,
                 ue, dpy, spurious, pipes, sfView>>

-----------------------------------------------------------------------------
(* The uevent thread.  A step that holds the lock from lock() to wait() or *)
(* unlock() is one action.                                                 *)

(* Faulty: the lock is not taken.                                          *)
UeUnlocked(at) == ue = at /\ ~waiting

UeLocked(at) == ue = at /\ lock = "free" /\ ~waiting

(* Faulty: the lock is released and taken again, without a wait.           *)
Yield(at) == ue' = at /\ UNCHANGED <<waiting, spurious>>

(* mDrawLock.wait(): the lock is released, a signal is awaited.            *)
Wait(at) == ue' = at /\ waiting' = TRUE /\ UNCHANGED spurious

Stop == ue' = "idle" /\ dpy' = NoDisplay /\ UNCHANGED <<waiting, spurious>>

(* pthread_cond_wait may return without a signal.                          *)
SpuriousWakeup ==
  /\ waiting
  /\ waiting' = FALSE /\ spurious' = TRUE
  /\ UNCHANGED <<lock, dpyAttr, resources, mVirtualonExtActive, mPanelResetStatus,
                 sf, ue, dpy, pipes, sfView>>

(* A uevent says that the panel is dead.                                   *)
UePanelDead ==
  /\ ue = "idle"
  /\ mPanelResetStatus' = TRUE /\ invalidated' = TRUE
  /\ UNCHANGED <<lock, dpyAttr, resources, mVirtualonExtActive, sf, ueThread,
                 pipes, plugged, sfExternal>>

(* The display d is taken away from the composition; SurfaceFlinger is     *)
(* told of it when it knows of d.                                          *)
Disconnect(d, at) ==
  /\ objects' = objects \ {d}
  /\ connected' = connected \ {d} /\ active' = active \ {d}
  /\ IF mVirtualonExtActive \/ (d = EXTERNAL /\ at = "offline")
     THEN plugged' = FALSE /\ mVirtualonExtActive' = FALSE
     ELSE UNCHANGED <<plugged, mVirtualonExtActive>>
  /\ invalidated' = TRUE
  /\ Wait(at)
  /\ UNCHANGED <<lock, paused, configuring, fbOpen, mPanelResetStatus, sf, pipes,
                 sfExternal>>

UeOffline(d) ==
  /\ UeLocked("idle") /\ d \in connected
  /\ Disconnect(d, "offline") /\ dpy' = d

(* displayCommit unstages the pipes, teardown closes the framebuffer.      *)
UeOfflineDone ==
  /\ UeLocked("offline")
  /\ fbOpen' = fbOpen \ {dpy}
  /\ Stop
  /\ UNCHANGED <<lock, dpyAttr, objects, mVirtualonExtActive, mPanelResetStatus, sf,
                 pipes, sfView>>

(* Faulty: no redraw is asked for.                                         *)
UeOnlineQuietly(d) ==
  /\ UeLocked("idle") /\ d \notin connected
  /\ configuring' = configuring \cup {d}
  /\ Wait("online") /\ dpy' = d
  /\ UNCHANGED <<lock, connected, active, paused, resources, mVirtualonExtActive,
                 mPanelResetStatus, sf, pipes, sfView>>

UeOnline(d) ==
  /\ UeLocked("idle") /\ d \notin connected
  /\ configuring' = configuring \cup {d}
  /\ invalidated' = TRUE
  /\ Wait("online") /\ dpy' = d
  /\ UNCHANGED <<lock, connected, active, paused, resources, mVirtualonExtActive,
                 mPanelResetStatus, sf, pipes, plugged, sfExternal>>

(* HDMI first ends a WFD session; WFD first looks for the stack it is on.  *)
UeOnlineResumes ==
  /\ UeLocked("online")
  /\ ue' = CASE dpy = VIRTUAL -> "wfdStack"
             [] dpy = EXTERNAL /\ VIRTUAL \in connected -> "wfdActive"
             [] OTHER -> "configure"
  /\ UNCHANGED <<lock, dpy, waiting, spurious, dpyAttr, resources, mVirtualonExtActive,
                 mPanelResetStatus, sf, pipes, sfView>>

UeWfdStack(proprietary) ==
  /\ UeLocked("wfdStack") /\ ue' = "configure"
  /\ mVirtualonExtActive' = proprietary
  /\ UNCHANGED <<lock, dpy, waiting, spurious, dpyAttr, resources, mPanelResetStatus, sf, pipes,
                 sfView>>

UeWfdOffline ==
  /\ UeLocked("wfdActive")
  /\ Disconnect(VIRTUAL, "wfdOffline") /\ UNCHANGED dpy

(* The lock is released before the teardown.                               *)
UeWfdUnstaged ==
  /\ UeLocked("wfdOffline") /\ ue' = "wfdTeardown"
  /\ UNCHANGED <<lock, dpy, waiting, spurious, dpyAttr, resources, mVirtualonExtActive,
                 mPanelResetStatus, sf, pipes, sfView>>

UeWfdTeardown ==
  /\ ue = "wfdTeardown"
  /\ ue' = "configure"
  /\ fbOpen' = fbOpen \ {VIRTUAL}
  /\ UNCHANGED <<lock, dpy, waiting, spurious, dpyAttr, objects, mVirtualonExtActive,
                 mPanelResetStatus, sf, pipes, sfView>>

(* configure(), without the lock.  That it may fail to open is ignored.    *)
UeConfigure ==
  /\ ue = "configure" /\ ue' = "setup"
  /\ fbOpen' \in {fbOpen, fbOpen \cup {dpy}}
  /\ UNCHANGED <<lock, dpy, waiting, spurious, dpyAttr, objects, mVirtualonExtActive,
                 mPanelResetStatus, sf, pipes, sfView>>

UeSetup ==
  /\ UeLocked("setup")
  /\ objects' = objects \cup {dpy}
  /\ paused' = paused \ {dpy}
  /\ connected' = connected \cup {dpy}
  /\ configuring' = configuring \cup {dpy}
  /\ IF dpy = EXTERNAL \/ mVirtualonExtActive
     THEN plugged' = TRUE /\ UNCHANGED active
     ELSE active' = active \cup {VIRTUAL} /\ UNCHANGED plugged
  /\ Stop
  /\ UNCHANGED <<lock, fbOpen, mVirtualonExtActive, mPanelResetStatus, sf, pipes,
                 invalidated, sfExternal>>

(* Pause and resume come from the WFD stack, for a session it has started. *)
UePause ==
  /\ UeLocked("idle") /\ VIRTUAL \in connected \ paused
  /\ active' = active \cup {VIRTUAL} /\ paused' = paused \cup {VIRTUAL}
  /\ invalidated' = TRUE
  /\ Wait("pause") /\ dpy' = VIRTUAL
  /\ UNCHANGED <<lock, connected, configuring, resources, mVirtualonExtActive,
                 mPanelResetStatus, sf, pipes, plugged, sfExternal>>

UePauseDone ==
  /\ UeLocked("pause")
  /\ Stop
  /\ UNCHANGED <<lock, dpyAttr, resources, mVirtualonExtActive, mPanelResetStatus, sf,
                 pipes, sfView>>

UeResume ==
  /\ UeLocked("idle") /\ VIRTUAL \in connected \cap paused
  /\ active' = active \cup {VIRTUAL} /\ configuring' = configuring \cup {VIRTUAL}
  /\ invalidated' = TRUE
  /\ Wait("resume") /\ dpy' = VIRTUAL
  /\ UNCHANGED <<lock, connected, paused, resources, mVirtualonExtActive,
                 mPanelResetStatus, sf, pipes, plugged, sfExternal>>

UeResumeDone ==
  /\ UeLocked("resume")
  /\ paused' = paused \ {dpy}
  /\ invalidated' = TRUE
  /\ Stop
  /\ UNCHANGED <<lock, connected, active, configuring, resources,
                 mVirtualonExtActive, mPanelResetStatus, sf, pipes, plugged, sfExternal>>

-----------------------------------------------------------------------------
SfCycle == SfPanelBlank \/ SfPanelUnblank \/ SfPanelDone \/ SfSet
           \/ \E ids \in SUBSET Displays : SfPrepare(ids)

UeContinues ==
  \/ UeOfflineDone \/ UeOnlineResumes
  \/ \E proprietary \in BOOLEAN : UeWfdStack(proprietary)
  \/ UeWfdOffline \/ UeWfdUnstaged \/ UeWfdTeardown
  \/ UeConfigure \/ UeSetup \/ UePauseDone \/ UeResumeDone

UeHandles ==
  \/ UePanelDead
  \/ \E d \in Pluggable : UeOffline(d) \/ UeOnline(d)
  \/ UePause \/ UeResume

Next ==
  \/ \E id \in {PRIMARY, EXTERNAL}, blank \in BOOLEAN : SfBlank(id, blank)
  \/ SfHotplug \/ SfRedraw \/ SfCycle
  \/ UeHandles \/ UeContinues \/ SpuriousWakeup

(* SurfaceFlinger answers an invalidate and finishes a cycle it began; the *)
(* uevent thread goes on with an event once it may.  The lock is not a     *)
(* fair one, but SurfaceFlinger is off it from a cycle to the next vsync,  *)
(* hence a thread that keeps finding it free gets it: strong fairness.     *)
Fairness ==
  /\ WF_vars(SfRedraw /\ invalidated) /\ WF_vars(SfCycle)
  /\ SF_vars(UeContinues)

Spec == Init /\ [][Next]_vars
FairSpec == Spec /\ Fairness
-----------------------------------------------------------------------------
(* Properties.                                                             *)

(* "At this point all the pipes used by External have been marked as       *)
(* UNSET" (hwc_uevents.cpp): when the uevent thread is back from the wait  *)
(* after a disconnection or a pause, no pipe of the display is set, so     *)
(* that the commit that follows unstages all of them.                      *)
PipesUnset ==
  /\ ue \in {"offline", "pause"} /\ ~waiting => dpy \notin staged
  /\ ue = "wfdOffline" /\ ~waiting => VIRTUAL \notin staged

(* So it is as long as every wait has returned because of a signal: the    *)
(* cycle that gave it began after the change, whichever cycles SurfaceFlin-*)
(* ger runs before the uevent thread has the lock again.                   *)
PipesUnsetOnSignal == ~spurious => PipesUnset

(* No wakeup is lost: a cycle that ends in a signal is under way, or has   *)
(* been asked for, as long as the uevent thread waits, although nothing    *)
(* counts the signals.                                                     *)
WaitHasWaker == waiting => invalidated \/ sf # "idle"

(* What hwc_prepare composed is what hwc_set draws: while a cycle is under *)
(* way no display it composed is disconnected, paused or blanked, nor are  *)
(* its FBUpdate and MDPComp objects deleted.                               *)
CycleDrawsLiveDisplays ==
  sf = "set" => /\ staged \subseteq active
                /\ staged \cap Pluggable \subseteq (connected \ paused) \cap objects

(* isConfiguring is there "to trigger padding round to clean up mdp pipes" *)
(* (hwc_utils.h): the cycle that first composes a display again comes only *)
(* after one in which the primary gave up the pipes of its layers.  It     *)
(* takes the wait of the uevent thread to be a wait.                       *)
PaddingRoundFirst ==
  [][~spurious /\ configuring \ configuring' # {} => ~primaryMdp]_vars

(* The framebuffer of a display is closed only when none of its pipes is   *)
(* set, also where the teardown comes after the lock is released (again    *)
(* if every wait was one).                                                 *)
ClosedOnlyUnstaged == [][~spurious => (fbOpen \ fbOpen') \cap staged = {}]_vars

(* Every event the uevent thread starts to handle is handled to its end.   *)
UeventReturns == ue # "idle" ~> ue = "idle"

(* "We don't allow inter-mixer pipe transfers" (hwc_uevents.cpp): when the *)
(* uevent thread is back from the wait of a connection or of a resume, the *)
(* primary holds no pipes for its layers, whichever cycles have run since. *)
PipesFreed == ~spurious /\ ue \in {"online", "resume"} /\ ~waiting => ~primaryMdp

(* "External Display connection is pending", while isConfiguring keeps the *)
(* layers of every display off MDP (hwc_mdpcomp.cpp): when no event is     *)
(* being handled, what is being configured is a connected display.         *)
PendingIsConnected == ~spurious /\ ue = "idle" => configuring \subseteq connected

(* The inductive invariant of the proofs: where the two threads are tells  *)
(* what they have written.                                                 *)
ThreadInv ==
  /\ lock = "sf" <=> sf = "set"
  /\ waiting => ue \in UeWaits
  /\ ue = "idle" <=> dpy = NoDisplay
  /\ ue \in {"pause", "resume", "wfdStack"} => dpy = VIRTUAL
  /\ ue \in {"wfdActive", "wfdOffline", "wfdTeardown"} => dpy = EXTERNAL

DisplayInv ==
  /\ connected \subseteq objects
  /\ ue \notin {"idle", "pause", "resume"} => dpy \notin connected
  /\ ue \notin {"idle", "offline", "pause"} => dpy \in configuring
  /\ ue \in {"pause", "resume"} => dpy \in paused
  /\ ue \in {"wfdOffline", "wfdTeardown"} => VIRTUAL \notin connected
  /\ ~spurious /\ ue = "wfdTeardown" => VIRTUAL \notin staged
  /\ ~spurious /\ primaryMdp /\ configuring # {} =>
       /\ ue \in {"online", "resume"} /\ waiting /\ sf # "set"
       /\ configuring = {dpy}

IInv == /\ TypeOK /\ ThreadInv /\ DisplayInv
        /\ PipesUnsetOnSignal /\ WaitHasWaker /\ CycleDrawsLiveDisplays
=============================================================================
