---------------------------- MODULE VirtualDisplay ----------------------------
(***************************************************************************)
(* The virtual display (WFD): its size is what the framebuffer of the      *)
(* writeback has, and there is no list of modes.  dpyAttr is of the second *)
(* display that is connected: the uevent thread ends a WFD session before  *)
(* it opens the external display.                                          *)
(***************************************************************************)
EXTENDS ExternalDisplay

CONSTANT WfdSizes   (* sizes the writeback may have: [w, h]               *)

ASSUME WfdAssumption == \A s \in WfdSizes : s.w \in Nat \ {0} /\ s.h \in Nat \ {0}

VARIABLE mVInfo     (* the size read, NoInfo when there is no session     *)

dpyVars == <<extVars, mVInfo>>

NoInfo == [w |-> 0, h |-> 0]

(* setAttributes: a primary that is larger, but not so large that the      *)
(* rotator would shrink it, lends the display its size, laid flat.         *)
setVirtualAttributes(info, w, h) ==
  LET lends == w * h > info.w * info.h /\ getDownscaleFactor(w, h, info.w, info.h) = 0 IN
  [xres |-> IF lends THEN Greatest(w, h) ELSE info.w,
   yres |-> IF lends THEN Least(w, h) ELSE info.h,
   downscale |-> lends, period |-> SECOND \div 60]

(* configure(), when the framebuffer can be opened and tells its size.     *)
configureVirtual(info) ==
  /\ mVInfo = NoInfo /\ mVInfo' = info
  /\ dpyAttr' = setVirtualAttributes(info, panel.w, panel.h)
  /\ UNCHANGED <<panel, mFd, mEDIDModes, mCurrentMode, mUnderscanSupported, timing, refused>>

(* closeFrameBuffer; dpyAttr is left as it is.                             *)
teardownVirtual ==
  /\ mVInfo # NoInfo /\ mVInfo' = NoInfo
  /\ UNCHANGED extVars
=============================================================================
