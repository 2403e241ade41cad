--------------------------- MODULE DrawCycleProofs ---------------------------
(***************************************************************************)
(* Proofs about DrawCycle: the invariant that relates where the two        *)
(* threads are to what they have written is inductive, and the handshake   *)
(* over mDrawLock follows from it.                                         *)
(***************************************************************************)
EXTENDS DrawCycle, TLAPS

(* The initial state satisfies the invariant.                              *)
LEMMA InitIInv == Init => IInv
  BY DEF Init, IInv, TypeOK, ThreadInv, DisplayInv, PipesUnsetOnSignal, PipesUnset,
         WaitHasWaker, CycleDrawsLiveDisplays, Displays, Pluggable, PRIMARY, EXTERNAL,
         VIRTUAL, NoDisplay, UeWaits

(* hwc_blank keeps the invariant, from SurfaceFlinger and in reset_panel:  *)
(* it needs the lock, hence no cycle is under way, and only takes pipes    *)
(* away.                                                                   *)
LEMMA SfBlankIInv ==
  ASSUME IInv,
         \/ \E id \in {PRIMARY, EXTERNAL}, blank \in BOOLEAN : SfBlank(id, blank)
         \/ SfPanelBlank \/ SfPanelUnblank
  PROVE  IInv'
<1> USE DEF Displays, Pluggable, PRIMARY, EXTERNAL, VIRTUAL, NoDisplay, UeWaits,
            ueThread, resources, sfView
<1>1. PICK d \in Displays, blank \in BOOLEAN : Blank(d, blank)
  BY DEF SfBlank, SfPanelBlank, SfPanelUnblank, DpyOf
<1>2. /\ sf # "set" /\ sf' # "set" /\ mPanelResetStatus' = mPanelResetStatus
      /\ sf' = "idle" => sf = "idle" 
      /\ sf' \in {"idle", "panelUnblank", "panelDone"}
  BY DEF SfBlank, SfPanelBlank, SfPanelUnblank
<1>3. /\ staged' \subseteq staged /\ primaryMdp' \in BOOLEAN /\ (primaryMdp' => primaryMdp)
      /\ active' \subseteq Displays
  BY <1>1 DEF Blank, IInv, TypeOK
<1>4. UNCHANGED <<lock, connected, paused, configuring, objects, fbOpen,
                  mVirtualonExtActive, ue, dpy, waiting, spurious, invalidated,
                  plugged, sfExternal>>
  BY <1>1 DEF Blank
<1>5. TypeOK'
  BY <1>2, <1>3, <1>4 DEF IInv, TypeOK
<1>6. ThreadInv' /\ WaitHasWaker' /\ CycleDrawsLiveDisplays'
  BY <1>2, <1>4 DEF IInv, ThreadInv, WaitHasWaker, CycleDrawsLiveDisplays
<1>7. DisplayInv' /\ PipesUnsetOnSignal'
  BY <1>2, <1>3, <1>4 DEF IInv, TypeOK, DisplayInv, PipesUnsetOnSignal, PipesUnset
<1> QED BY <1>5, <1>6, <1>7 DEF IInv

(* The other steps of SurfaceFlinger that compose nothing keep it.         *)
LEMMA SfStepIInv ==
  ASSUME IInv, SfHotplug \/ SfRedraw \/ SfPanelDone \/ SfSet
  PROVE  IInv'
<1> USE DEF Displays, Pluggable, PRIMARY, EXTERNAL, VIRTUAL, NoDisplay, UeWaits,
            ueThread, resources, sfView, dpyAttr, pipes, IInv
<1>1. CASE SfHotplug
  <2>1. TypeOK'
    BY <1>1 DEF SfHotplug, TypeOK
  <2>2. ThreadInv' /\ WaitHasWaker' /\ CycleDrawsLiveDisplays'
    BY <1>1 DEF SfHotplug, TypeOK, ThreadInv, WaitHasWaker, CycleDrawsLiveDisplays
  <2>3. DisplayInv' /\ PipesUnsetOnSignal'
    BY <1>1 DEF SfHotplug, TypeOK, ThreadInv, DisplayInv, PipesUnsetOnSignal, PipesUnset
  <2> QED BY <2>1, <2>2, <2>3
<1>2. CASE SfRedraw
  <2>1. TypeOK'
    <3>1. invalidated' \in BOOLEAN
      BY <1>2, Zenon DEF SfRedraw
    <3> QED BY <1>2, <3>1 DEF SfRedraw, TypeOK
  <2>2. ThreadInv' /\ WaitHasWaker' /\ CycleDrawsLiveDisplays'
    BY <1>2 DEF SfRedraw, TypeOK, ThreadInv, WaitHasWaker, CycleDrawsLiveDisplays
  <2>3. DisplayInv' /\ PipesUnsetOnSignal'
    BY <1>2 DEF SfRedraw, TypeOK, ThreadInv, DisplayInv, PipesUnsetOnSignal, PipesUnset
  <2> QED BY <2>1, <2>2, <2>3
<1>3. CASE SfPanelDone
  <2>1. TypeOK'
    <3>1. mPanelResetStatus' \in BOOLEAN
      BY <1>3, Zenon DEF SfPanelDone
    <3> QED BY <1>3, <3>1 DEF SfPanelDone, TypeOK
  <2>2. ThreadInv' /\ WaitHasWaker' /\ CycleDrawsLiveDisplays'
    BY <1>3 DEF SfPanelDone, TypeOK, ThreadInv, WaitHasWaker, CycleDrawsLiveDisplays
  <2>3. DisplayInv' /\ PipesUnsetOnSignal'
    BY <1>3 DEF SfPanelDone, TypeOK, ThreadInv, DisplayInv, PipesUnsetOnSignal, PipesUnset
  <2> QED BY <2>1, <2>2, <2>3
<1>4. CASE SfSet
  <2>1. TypeOK'
    <3>1. waiting' \in BOOLEAN
      BY <1>4, Zenon DEF SfSet
    <3> QED BY <1>4, <3>1 DEF SfSet, TypeOK
  <2>2. ThreadInv' /\ WaitHasWaker' /\ CycleDrawsLiveDisplays'
    BY <1>4 DEF SfSet, TypeOK, ThreadInv, WaitHasWaker, CycleDrawsLiveDisplays
  <2>3. DisplayInv' /\ PipesUnsetOnSignal'
    BY <1>4 DEF SfSet, TypeOK, ThreadInv, DisplayInv, PipesUnsetOnSignal, PipesUnset,
                CycleDrawsLiveDisplays
  <2> QED BY <2>1, <2>2, <2>3
<1> QED BY <1>1, <1>2, <1>3, <1>4

(* What hwc_prepare composes are displays that exist.                      *)
LEMMA ComposedLive ==
  ASSUME TypeOK, NEW ids \in SUBSET Displays
  PROVE  /\ Composed(ids) \subseteq active
         /\ Composed(ids) \cap Pluggable \subseteq connected \ paused
  BY DEF Composed, Pluggable, PRIMARY, EXTERNAL, VIRTUAL

(* hwc_prepare keeps the invariant: the display the uevent thread handles  *)
(* is not connected, or is paused, hence is not composed.                  *)
LEMMA SfPrepareIInv ==
  ASSUME IInv, NEW ids \in SUBSET Displays, SfPrepare(ids)
  PROVE  IInv'
<1> USE DEF Displays, Pluggable, PRIMARY, EXTERNAL, VIRTUAL, NoDisplay, UeWaits,
            ueThread, resources, sfView, IInv
<1> DEFINE C == Composed(ids)
<1>1. /\ C \subseteq active
      /\ C \cap Pluggable \subseteq connected \ paused
  BY ComposedLive
<1>2. /\ staged' = C /\ configuring' = configuring \ C /\ primaryMdp' \in BOOLEAN
      /\ primaryMdp' => configuring' = {}
      /\ sf' = "set" /\ lock' = "sf"
      /\ UNCHANGED <<connected, active, paused, objects, fbOpen, ue, dpy, waiting,
                     mVirtualonExtActive, mPanelResetStatus, spurious, invalidated,
                     plugged, sfExternal>>
  BY DEF SfPrepare, MdpBlocked
<1> HIDE DEF C
<1>3. TypeOK'
  BY <1>1, <1>2 DEF TypeOK
<1>4. ThreadInv' /\ WaitHasWaker'
  BY <1>2 DEF ThreadInv, WaitHasWaker
<1>5. CycleDrawsLiveDisplays'
  BY <1>1, <1>2 DEF CycleDrawsLiveDisplays, DisplayInv
<1>6. DisplayInv'
  BY <1>1, <1>2 DEF DisplayInv, TypeOK, ThreadInv
<1>7. PipesUnsetOnSignal'
  BY <1>1, <1>2 DEF PipesUnsetOnSignal, PipesUnset, DisplayInv, TypeOK, ThreadInv
<1> QED BY <1>3, <1>4, <1>5, <1>6, <1>7

(* So do the steps in which the uevent thread starts to handle an event.   *)
LEMMA UeHandlesIInv ==
  ASSUME IInv, UeHandles
  PROVE  IInv'
<1> USE DEF Displays, Pluggable, PRIMARY, EXTERNAL, VIRTUAL, NoDisplay, UeWaits,
            ueThread, resources, sfView, dpyAttr, pipes, IInv, UeLocked, Wait
<1>1. CASE UePanelDead
  BY <1>1 DEF UePanelDead, TypeOK, ThreadInv, DisplayInv, PipesUnsetOnSignal,
              PipesUnset, WaitHasWaker, CycleDrawsLiveDisplays
<1>2. ASSUME NEW d \in Pluggable, UeOffline(d) PROVE IInv'
  <2>1. TypeOK' /\ ThreadInv' /\ WaitHasWaker' /\ CycleDrawsLiveDisplays'
    BY <1>2 DEF UeOffline, Disconnect, TypeOK, ThreadInv, WaitHasWaker,
                CycleDrawsLiveDisplays
  <2>2. DisplayInv' /\ PipesUnsetOnSignal'
    BY <1>2 DEF UeOffline, Disconnect, TypeOK, ThreadInv, DisplayInv,
                PipesUnsetOnSignal, PipesUnset
  <2> QED BY <2>1, <2>2
<1>3. ASSUME NEW d \in Pluggable, UeOnline(d) PROVE IInv'
  <2>1. TypeOK' /\ ThreadInv' /\ WaitHasWaker' /\ CycleDrawsLiveDisplays'
    BY <1>3 DEF UeOnline, TypeOK, ThreadInv, WaitHasWaker, CycleDrawsLiveDisplays
  <2>2. DisplayInv' /\ PipesUnsetOnSignal'
    BY <1>3 DEF UeOnline, TypeOK, ThreadInv, DisplayInv, PipesUnsetOnSignal, PipesUnset
  <2> QED BY <2>1, <2>2
<1>4. CASE UePause
  BY <1>4 DEF UePause, TypeOK, ThreadInv, DisplayInv, PipesUnsetOnSignal,
              PipesUnset, WaitHasWaker, CycleDrawsLiveDisplays
<1>5. CASE UeResume
  BY <1>5 DEF UeResume, TypeOK, ThreadInv, DisplayInv, PipesUnsetOnSignal,
              PipesUnset, WaitHasWaker, CycleDrawsLiveDisplays
<1> QED BY <1>1, <1>2, <1>3, <1>4, <1>5 DEF UeHandles

(* And the steps in which it goes on with one.                             *)
LEMMA UeContinuesIInv ==
  ASSUME IInv, UeContinues \/ SpuriousWakeup
  PROVE  IInv'
<1> USE DEF Displays, Pluggable, PRIMARY, EXTERNAL, VIRTUAL, NoDisplay, UeWaits,
            ueThread, resources, sfView, dpyAttr, pipes, IInv, UeLocked, Wait, Stop
<1>1. CASE UeOfflineDone
  BY <1>1 DEF UeOfflineDone, TypeOK, ThreadInv, DisplayInv, PipesUnsetOnSignal,
              PipesUnset, WaitHasWaker, CycleDrawsLiveDisplays
<1>2. CASE UeOnlineResumes
  BY <1>2 DEF UeOnlineResumes, TypeOK, ThreadInv, DisplayInv, PipesUnsetOnSignal,
              PipesUnset, WaitHasWaker, CycleDrawsLiveDisplays
<1>3. ASSUME NEW b \in BOOLEAN, UeWfdStack(b) PROVE IInv'
  BY <1>3 DEF UeWfdStack, TypeOK, ThreadInv, DisplayInv, PipesUnsetOnSignal,
              PipesUnset, WaitHasWaker, CycleDrawsLiveDisplays
<1>4. CASE UeWfdOffline
  <2>1. TypeOK' /\ ThreadInv' /\ WaitHasWaker' /\ CycleDrawsLiveDisplays'
    BY <1>4 DEF UeWfdOffline, Disconnect, TypeOK, ThreadInv, WaitHasWaker,
                CycleDrawsLiveDisplays
  <2>2. DisplayInv' /\ PipesUnsetOnSignal'
    BY <1>4 DEF UeWfdOffline, Disconnect, TypeOK, ThreadInv, DisplayInv,
                PipesUnsetOnSignal, PipesUnset
  <2> QED BY <2>1, <2>2
<1>5. CASE UeWfdUnstaged
  BY <1>5 DEF UeWfdUnstaged, TypeOK, ThreadInv, DisplayInv, PipesUnsetOnSignal,
              PipesUnset, WaitHasWaker, CycleDrawsLiveDisplays
<1>6. CASE UeWfdTeardown
  BY <1>6 DEF UeWfdTeardown, TypeOK, ThreadInv, DisplayInv, PipesUnsetOnSignal,
              PipesUnset, WaitHasWaker, CycleDrawsLiveDisplays
<1>7. CASE UeConfigure
  BY <1>7 DEF UeConfigure, TypeOK, ThreadInv, DisplayInv, PipesUnsetOnSignal,
              PipesUnset, WaitHasWaker, CycleDrawsLiveDisplays
<1>8. CASE UeSetup
  <2>1. TypeOK' /\ ThreadInv' /\ WaitHasWaker' /\ CycleDrawsLiveDisplays'
    BY ZenonT(40), <1>8 DEF UeSetup, TypeOK, ThreadInv, WaitHasWaker, CycleDrawsLiveDisplays
  <2>2. DisplayInv' /\ PipesUnsetOnSignal'
    BY <1>8 DEF UeSetup, TypeOK, ThreadInv, DisplayInv, PipesUnsetOnSignal, PipesUnset
  <2> QED BY <2>1, <2>2
<1>9. CASE UePauseDone
  BY <1>9 DEF UePauseDone, TypeOK, ThreadInv, DisplayInv, PipesUnsetOnSignal,
              PipesUnset, WaitHasWaker, CycleDrawsLiveDisplays
<1>10. CASE UeResumeDone
  BY <1>10 DEF UeResumeDone, TypeOK, ThreadInv, DisplayInv, PipesUnsetOnSignal,
               PipesUnset, WaitHasWaker, CycleDrawsLiveDisplays
<1>11. CASE SpuriousWakeup
  <2>1. TypeOK'
    <3>1. waiting' \in BOOLEAN
      BY <1>11, Zenon DEF SpuriousWakeup
    <3> QED BY <1>11, <3>1 DEF SpuriousWakeup, TypeOK
  <2>2. ThreadInv' /\ WaitHasWaker' /\ CycleDrawsLiveDisplays'
    BY <1>11 DEF SpuriousWakeup, TypeOK, ThreadInv, WaitHasWaker, CycleDrawsLiveDisplays
  <2>3. DisplayInv' /\ PipesUnsetOnSignal'
    BY <1>11 DEF SpuriousWakeup, TypeOK, ThreadInv, DisplayInv, PipesUnsetOnSignal, PipesUnset
  <2> QED BY <2>1, <2>2, <2>3
<1> QED BY <1>1, <1>2, <1>3, <1>4, <1>5, <1>6, <1>7, <1>8, <1>9, <1>10, <1>11
        DEF UeContinues

(* The invariant does not look outside vars.                               *)
LEMMA StutterIInv ==
  ASSUME IInv, UNCHANGED vars
  PROVE  IInv'
  BY DEF vars, ueThread, resources, sfView, dpyAttr, pipes, IInv, TypeOK, ThreadInv,
         DisplayInv, PipesUnsetOnSignal, PipesUnset, WaitHasWaker, CycleDrawsLiveDisplays

(* The states of the two threads are always as IInv says.                  *)
THEOREM InductiveInvariant == Spec => []IInv
<1>1. IInv /\ [Next]_vars => IInv'
  BY SfBlankIInv, SfStepIInv, SfPrepareIInv, UeHandlesIInv, UeContinuesIInv, StutterIInv
     DEF Next, SfCycle
<1> QED BY InitIInv, <1>1, PTL DEF Spec

(* After a wait that was signalled, the commit of the uevent thread        *)
(* unstages every pipe of the display that goes.                           *)
THEOREM SignalledWaitUnsets == Spec => []PipesUnsetOnSignal
<1>1. IInv => PipesUnsetOnSignal
  BY DEF IInv
<1> QED BY <1>1, InductiveInvariant, PTL

(* The uevent thread never waits without a cycle under way or asked for.   *)
THEOREM NoLostWakeup == Spec => []WaitHasWaker
<1>1. IInv => WaitHasWaker
  BY DEF IInv
<1> QED BY <1>1, InductiveInvariant, PTL

(* hwc_set draws only displays that are still as hwc_prepare found them.   *)
THEOREM CyclesAreAtomic == Spec => []CycleDrawsLiveDisplays
<1>1. IInv => CycleDrawsLiveDisplays
  BY DEF IInv
<1> QED BY <1>1, InductiveInvariant, PTL

(* The primary has given up its layers' pipes when a new display goes on.  *)
THEOREM PrimaryGivesUpPipes == Spec => []PipesFreed
<1>1. IInv => PipesFreed
  BY DEF IInv, DisplayInv, ThreadInv, PipesFreed
<1> QED BY <1>1, InductiveInvariant, PTL

(* A display that was being configured is first composed only after a      *)
(* cycle in which the primary's layers had no pipes.                       *)
THEOREM PaddingRound == Spec => PaddingRoundFirst
<1>1. ASSUME IInv, [Next]_vars
      PROVE  ~spurious /\ configuring \ configuring' # {} => ~primaryMdp
  <2> SUFFICES ASSUME ~spurious, configuring \ configuring' # {}, primaryMdp
               PROVE  FALSE
    OBVIOUS
  <2>1. PICK ids \in SUBSET Displays : SfPrepare(ids)
    BY <1>1 DEF Next, SfCycle, SfBlank, SfPanelBlank, SfPanelUnblank, Blank, SfHotplug,
       SfRedraw, SfPanelDone, SfSet, UeHandles, UeContinues, SpuriousWakeup, UePanelDead,
       UeOffline, UeOnline, UePause, UeResume, UeOfflineDone, UeOnlineResumes, UeWfdStack,
       UeWfdOffline, UeWfdUnstaged, UeWfdTeardown, UeConfigure, UeSetup, UePauseDone,
       UeResumeDone, Disconnect, vars, dpyAttr
  <2>2. configuring = {dpy} /\ ue \in {"online", "resume"}
    BY <1>1 DEF IInv, DisplayInv
  <2>3. dpy \in Composed(ids)
    BY <2>1, <2>2 DEF SfPrepare
  <2>4. dpy \in Pluggable /\ (dpy \notin connected \/ dpy \in paused)
    BY <1>1, <2>2 DEF IInv, DisplayInv, ThreadInv, TypeOK, NoDisplay, Pluggable
  <2> QED BY <1>1, <2>3, <2>4, ComposedLive DEF IInv
<1> QED BY <1>1, InductiveInvariant, PTL DEF Spec, PaddingRoundFirst

(* No framebuffer is closed under a pipe that is set.                      *)
THEOREM ClosedUnstaged == Spec => ClosedOnlyUnstaged
<1>1. ASSUME IInv, [Next]_vars, ~spurious
      PROVE  (fbOpen \ fbOpen') \cap staged = {}
  <2>1. CASE UeOfflineDone
    BY <1>1, <2>1 DEF UeOfflineDone, UeLocked, IInv, PipesUnsetOnSignal, PipesUnset
  <2>2. CASE UeWfdTeardown
    BY <1>1, <2>2 DEF UeWfdTeardown, IInv, DisplayInv
  <2>3. CASE ~(UeOfflineDone \/ UeWfdTeardown)
    <3>1. fbOpen \subseteq fbOpen'
      BY <1>1, <2>3 DEF Next, SfCycle, SfBlank, SfPanelBlank, SfPanelUnblank, Blank,
         SfHotplug, SfRedraw, SfPanelDone, SfSet, SfPrepare, UeHandles, UeContinues,
         SpuriousWakeup, UePanelDead, UeOffline, UeOnline, UePause, UeResume,
         UeOnlineResumes, UeWfdStack, UeWfdOffline, UeWfdUnstaged, UeConfigure, UeSetup,
         UePauseDone, UeResumeDone, Disconnect, vars, resources
    <3> QED BY <3>1
  <2> QED BY <2>1, <2>2, <2>3
<1> QED BY <1>1, InductiveInvariant, PTL DEF Spec, ClosedOnlyUnstaged
=============================================================================
