------------------------------- MODULE Rotator -------------------------------
(***************************************************************************)
(* The memory of an A-family rotator session (MdpRot over RotMem) and the  *)
(* release fences that keep the rotator off what the display still reads.  *)
(*                                                                         *)
(* A frame that shows a rotated layer commits the session in hwc_prepare;  *)
(* in hwc_set, hwc_sync hands the release fence of the frame to the        *)
(* session, the draw rotates into a slot of its memory and queues the slot *)
(* to the pipe, and the display is committed, whatever failed before.      *)
(* When the size of the output changes, memory of the new size is opened   *)
(* before that of the old one is closed; but it is closed once the slot is *)
(* rotated, before the pipe has been given the slot and before the commit: *)
(* the display may go on reading memory that has been freed.               *)
(***************************************************************************)
EXTENDS Integers

CONSTANTS
  Sizes,        (* sizes of the rotator's output buffer                    *)
  MaxLag        (* bound: frames the display has not yet replaced          *)

ASSUME RotatorAssumption == Sizes \subseteq Nat \ {0} /\ MaxLag \in Nat

Mems == {0, 1}     (* RotMem::MAX_ROT_MEM                                  *)
Slots == {0, 1}    (* RotMem::Mem::ROT_NUM_BUFS                            *)
CLOSED == 0        (* bufSz of a memory that is not valid                  *)

NOTHING == <<>>    (* a pipe that is not set                                *)
FREED == <<CLOSED>> (* memory that has been closed                         *)

VARIABLES
  curr,         (* RotMem::curr is m[curr], prev is the other one          *)
  bufSz,        (* bufSz[m]: size of the buffers of m[m], or CLOSED        *)
  mCurrOffset,  (* mCurrOffset[m]: the slot the next rotation writes       *)
  mRelFence,    (* mRelFence[m][s]: frames the display has still to replace
                   until the fence signals, 0 if it has or there is none   *)
  outSize,      (* calcOutputBufSize() of the configuration at hand        *)
  dst,          (* mRotDataInfo.dst: the slot <<m, s>> rotated last        *)
  phase,        (* where the frame is                                      *)
  pipe,         (* what the pipe was last given to show: a slot <<m, s>>,
                   NOTHING or FREED                                        *)
  lag,          (* frames committed and not yet replaced                   *)
  busy,         (* busy[m][s]: frames the display has still to replace
                   until it does not read the slot                         *)
  freed,        (* the same for memory that has been closed                *)
  failures,     (* what has failed, since the session was made (history)   *)
  calm          (* frames since a failure or a change of size, at most 3   *)

memory  == <<curr, bufSz, mCurrOffset>>
reads   == <<lag, busy, freed>>
history == <<failures, calm>>
vars == <<memory, mRelFence, outSize, dst, phase, pipe, reads, history>>

(* A wait for a fence or a frame is missed, memory cannot be opened or     *)
(* closed or rotated into, or the pipe refuses a slot.                     *)
Failures == {"missed", "memory", "play"}

TypeOK ==
  /\ curr \in Mems /\ bufSz \in [Mems -> Sizes \cup {CLOSED}]
  /\ mCurrOffset \in [Mems -> Slots]
  /\ mRelFence \in [Mems -> [Slots -> 0 .. MaxLag]]
  /\ outSize \in Sizes \cup {CLOSED}
  /\ dst \in Mems \X Slots
  /\ phase \in {"idle", "prepared", "synced", "queued", "drawn", "unused",
                "aborted"}
  /\ pipe \in (Mems \X Slots) \cup {NOTHING, FREED}
  /\ lag \in 0 .. MaxLag /\ freed \in 0 .. MaxLag
  /\ busy \in [Mems -> [Slots -> 0 .. MaxLag]]
  /\ failures \subseteq Failures /\ calm \in 0 .. 3

EverySlot(v) == [m \in Mems |-> [s \in Slots |-> v]]

Init ==
  /\ curr = 0 /\ bufSz = [m \in Mems |-> CLOSED]
  /\ mCurrOffset = [m \in Mems |-> 0]
  /\ mRelFence = EverySlot(0) /\ outSize = CLOSED /\ dst = <<0, 0>>
  /\ failures = {} /\ calm = 0
  /\ phase = "idle" /\ pipe = NOTHING
  /\ lag = 0 /\ busy = EverySlot(0) /\ freed = 0

-----------------------------------------------------------------------------
(* MdpRot::commit, for a frame that will show the layer.                   *)
Commit(size) ==
  /\ phase = "idle" /\ lag < MaxLag
  /\ phase' = "prepared" /\ outSize' = size
  /\ UNCHANGED <<memory, mRelFence, dst, pipe, reads, history>>

(* A frame without the layer unsets the pipe.  If commit failed the        *)
(* session is still counted as used.                                       *)
CommitFails ==
  /\ phase = "idle" /\ lag < MaxLag
  /\ phase' = "unused" /\ pipe' = NOTHING
  /\ UNCHANGED <<memory, mRelFence, outSize, dst, reads, history>>

Bigger(i, j) == IF i < j THEN j ELSE i

(* Memory that is closed now is not written again, but is read for as long *)
(* as before.                                                              *)
Frees ==
  LET ReadIn(m) == IF bufSz'[m] = CLOSED THEN Bigger(busy[m][0], busy[m][1]) ELSE 0
  IN
  /\ freed' = Bigger(freed, Bigger(ReadIn(0), ReadIn(1)))
  /\ busy' = [m \in Mems |-> [s \in Slots |->
                 IF bufSz'[m] = CLOSED THEN 0 ELSE busy[m][s]]]
  /\ UNCHANGED lag

(* Else configDone deletes it (so it does when MDPComp takes the commit    *)
(* back, and so does hwc_blank, without a frame).                          *)
Deleted ==
  /\ phase = "idle" /\ lag < MaxLag
  /\ curr' = 0 /\ bufSz' = [m \in Mems |-> CLOSED]
  /\ mCurrOffset' = [m \in Mems |-> 0]
  /\ mRelFence' = EverySlot(0) /\ outSize' = CLOSED /\ dst' = <<0, 0>>
  /\ failures' = {} /\ calm' = 0
  /\ phase' \in {"idle", "unused"} /\ pipe' = NOTHING
  /\ Frees

Offset == mCurrOffset[curr]
Remaps == outSize # bufSz[curr]

Disturbed(S) == failures' = failures \cup S /\ calm' = 0
Calmly == calm' = IF calm < 3 THEN calm + 1 ELSE 3

(* Faulty: the fence of the slot is not waited for.                        *)
SetReleaseFdNoWait(fence) ==
  /\ mRelFence' = [mRelFence EXCEPT ![curr][Offset] = fence]
  /\ IF fence # 0 THEN UNCHANGED history ELSE Disturbed({"missed"})

(* RotMem::Mem::setReleaseFd.  The wait for the fence the slot has gives   *)
(* up after a second; the ioctl may have given no fence.                   *)
SetReleaseFd(fence) ==
  LET f == mRelFence[curr][Offset] IN
  /\ mRelFence' = [mRelFence EXCEPT ![curr][Offset] = fence]
  /\ IF f = 0 /\ fence # 0
     THEN UNCHANGED history ELSE Disturbed({"missed"})

(* hwc_sync: the fence is that of the frame to come.                       *)
Sync ==
  /\ phase = "prepared" /\ phase' = "synced"
  /\ \E fence \in {lag + 1, 0} : SetReleaseFd(fence)
  /\ UNCHANGED <<memory, outSize, dst, pipe, reads>>

(* The draw fails at a layer before this one.                              *)
SkipDraw ==
  /\ phase = "synced" /\ phase' = "drawn"
  /\ UNCHANGED <<memory, mRelFence, outSize, dst, pipe, reads>>
  /\ Disturbed({"missed"})

(* MdpRot::remap asserts that prev is closed.                              *)
RemapAsserts ==
  /\ phase = "synced" /\ Remaps /\ bufSz[1 - curr] # CLOSED
  /\ phase' = "aborted"
  /\ UNCHANGED <<memory, mRelFence, outSize, dst, pipe, reads, history>>

(* The memory of the new size cannot be opened.  That remap fails is       *)
(* ignored; queueBuffer asserts that curr has buffers.                     *)
RemapFails ==
  /\ phase = "synced" /\ Remaps /\ bufSz[1 - curr] = CLOSED
  /\ phase' = "aborted"
  /\ curr' = 1 - curr
  /\ Disturbed({"memory"})
  /\ UNCHANGED <<bufSz, mCurrOffset, mRelFence, outSize, dst, pipe, reads>>

(* Faulty: prev is not closed.                                             *)
ClosePrevNot(m, sizes) == sizes

(* Faulty: curr is closed instead of prev.                                 *)
ClosePrevCurr(m, sizes) == [sizes EXCEPT ![m] = CLOSED]

(* The sizes once the memory that is not m is closed.                      *)
ClosePrev(m, sizes) == [sizes EXCEPT ![1 - m] = CLOSED]

(* Faulty: the offset does not wrap.                                       *)
NextSlotUnwrapped(s) == s + 1

(* Faulty: the offset does not advance.                                    *)
NextSlotSame(s) == s

NextSlot(s) == (s + 1) % 2

(* MdpRot::queueBuffer: outcome is where it fails, "none" if it does not.  *)
(* The slot is left behind before the rotation, and the previous memory is *)
(* closed after it, whatever the pipe shows.                               *)
QueueBuffer(outcome) ==
  LET m     == IF Remaps THEN 1 - curr ELSE curr
      sizes == [bufSz EXCEPT ![m] = outSize]
  IN
  /\ phase = "synced" /\ phase' = IF outcome = "none" THEN "queued" ELSE "drawn"
  /\ Remaps => bufSz[m] = CLOSED
  /\ curr' = m /\ dst' = <<m, mCurrOffset[m]>>
  /\ mCurrOffset' = [mCurrOffset EXCEPT ![m] = NextSlot(@)]
  /\ outcome = "close" => sizes[1 - m] # CLOSED
  /\ bufSz' = IF outcome = "none" THEN ClosePrev(m, sizes) ELSE sizes
  /\ Frees
  /\ pipe' = IF pipe \in Mems \X Slots /\ bufSz'[pipe[1]] = CLOSED
             THEN FREED ELSE pipe
  /\ IF outcome # "none" THEN Disturbed({"memory"})
     ELSE IF Remaps THEN Disturbed({})
     ELSE Calmly /\ UNCHANGED failures
  /\ UNCHANGED <<mRelFence, outSize>>

(* Overlay::queueBuffer of getDstMemId and getDstOffset.                   *)
Play ==
  /\ phase = "queued" /\ phase' = "drawn"
  /\ pipe' = IF bufSz[dst[1]] = CLOSED THEN FREED ELSE dst
  /\ UNCHANGED <<memory, mRelFence, outSize, dst, reads, history>>

(* The pipe goes on with what it has.                                      *)
PlayFails ==
  /\ phase = "queued" /\ phase' = "drawn" /\ Disturbed({"play"})
  /\ UNCHANGED <<memory, mRelFence, outSize, dst, pipe, reads>>

(* Overlay::displayCommit, at the end of hwc_set: the display shows what   *)
(* its pipes were given.                                                   *)
DisplayCommit ==
  /\ phase \in {"drawn", "unused"} /\ phase' = "idle"
  /\ lag' = lag + 1
  /\ freed' = IF pipe = FREED THEN lag + 1 ELSE freed
  /\ busy' = [m \in Mems |-> [s \in Slots |->
                 IF pipe = <<m, s>> THEN lag + 1 ELSE busy[m][s]]]
  /\ UNCHANGED <<memory, mRelFence, outSize, dst, pipe, history>>

(* The next commit shows it instead, and signals the fence of this frame.  *)
DisplayCommitFails ==
  /\ phase \in {"drawn", "unused"} /\ phase' = "idle" /\ Disturbed({"missed"})
  /\ UNCHANGED <<memory, mRelFence, outSize, dst, pipe, reads>>

(* A frame is replaced on the display by the one after it.                 *)
Retire ==
  /\ lag > 1 /\ lag' = lag - 1
  /\ LET OneLess(n) == IF n = 0 THEN 0 ELSE n - 1
         Counted(f) == [m \in Mems |-> [s \in Slots |-> OneLess(f[m][s])]]
     IN  /\ mRelFence' = Counted(mRelFence) /\ busy' = Counted(busy)
         /\ freed' = OneLess(freed)
  /\ UNCHANGED <<memory, outSize, dst, phase, pipe, history>>

Next ==
  \/ \E size \in Sizes : Commit(size)
  \/ CommitFails \/ Deleted
  \/ Sync \/ SkipDraw \/ RemapAsserts \/ RemapFails
  \/ \E outcome \in {"none", "rotate", "close"} : QueueBuffer(outcome)
  \/ Play \/ PlayFails \/ DisplayCommit \/ DisplayCommitFails
  \/ Retire

Spec == Init /\ [][Next]_vars
-----------------------------------------------------------------------------
(* Properties.                                                             *)

(* The slot about to be written is not one the display may still read.     *)
SlotIsFree == ~Remaps => busy[curr][Offset] = 0

(* Double buffering works: once three frames have passed without a failure *)
(* or a change of size, the rotator never writes what the display may be   *)
(* reading, however far the display lags.                                  *)
WritesFreeSlotWhenCalm == phase = "synced" /\ calm = 3 => SlotIsFree

(* "Wait for previous usage of this buffer to be over" (setReleaseFd): as  *)
(* long as nothing fails, the slot about to be written is free.            *)
WritesFreeSlot == phase = "synced" /\ failures = {} => SlotIsFree

(* hwc_sync never waits for the last frame committed, whose fence only the *)
(* commit to come can signal: it would sit out the whole second.           *)
WaitsForReplacedFrame ==
  phase = "prepared" /\ calm = 3 /\ mRelFence[curr][Offset] # 0 =>
    mRelFence[curr][Offset] < lag

(* A change of size frees memory the display is still reading.  It does    *)
(* not read freed memory for long: unless the pipe refused the new slot,   *)
(* the commit that ends the frame shows memory that is open, and after     *)
(* three calm frames the last frame to show freed memory is replaced,      *)
(* however far the display lags.                                           *)
FreedMemoryLeavesTheScreen ==
  /\ phase # "queued" /\ pipe = FREED => "play" \in failures /\ calm = 0
  /\ phase = "synced" /\ calm = 3 => freed = 0

(* Changes of size alone, however many, reach no assertion.                *)
AbortsOnlyOnFailure ==
  phase = "aborted" => "memory" \in failures

(* "Prev should not be valid" (the assertion of remap).                    *)
PrevIsClosed == phase = "synced" /\ Remaps => bufSz[1 - curr] = CLOSED
-----------------------------------------------------------------------------
(* The inductive invariant.                                                *)

Other == 1 - Offset        (* the slot the rotation after the next writes  *)

(* The frame at hand has memory to ask for and a fence to come; what it    *)
(* has rotated is open.                                                    *)
FrameInv ==
  /\ phase \in {"idle", "aborted"} \/ lag < MaxLag
  /\ phase \in {"prepared", "synced"} => outSize \in Sizes
  /\ phase = "queued" => dst = <<curr, Other>> /\ bufSz[curr] # CLOSED
  /\ phase = "unused" => pipe = NOTHING
  /\ phase # "aborted" /\ calm >= 1 => bufSz[1 - curr] = CLOSED

(* The display reads only what it has not replaced, and what is counted as *)
(* read in a memory is read while that is open.                            *)
ReadsInv ==
  /\ freed <= lag
  /\ pipe \in Mems \X Slots => bufSz[pipe[1]] # CLOSED
  /\ \A m \in Mems, s \in Slots :
       busy[m][s] <= lag /\ (bufSz[m] = CLOSED => busy[m][s] = 0)

(* No slot has a fence the display has still to give, but the one hwc_sync *)
(* has just handed the fence of the frame to come, or the commit failed.   *)
FencesInv == \A m \in Mems, s \in Slots : mRelFence[m][s] <= lag + 1

(* Between two frames: after two calm frames the slot to write next has    *)
(* not the fence of the last frame, and the other slot's fence covers what *)
(* the display reads of it and of freed memory; after three its own does.  *)
BetweenFrames ==
  phase \in {"idle", "prepared", "unused"} =>
    /\ calm >= 1 => mRelFence[curr][Other] <= lag /\ freed < lag
    /\ calm >= 2 => /\ mRelFence[curr][Offset] = 0 \/ mRelFence[curr][Offset] < lag
                    /\ mRelFence[curr][Other] >= busy[curr][Other]
                    /\ mRelFence[curr][Other] >= freed
    /\ calm = 3 => /\ mRelFence[curr][Offset] >= busy[curr][Offset]
                   /\ mRelFence[curr][Offset] >= freed

(* Once hwc_sync has waited for the fence of the slot and replaced it.     *)
AfterSync ==
  phase = "synced" =>
    /\ calm >= 1 => /\ mRelFence[curr][Offset] = lag + 1
                    /\ mRelFence[curr][Other] <= lag /\ freed < lag
    /\ calm >= 2 => /\ mRelFence[curr][Other] >= busy[curr][Other]
                    /\ mRelFence[curr][Other] >= freed
    /\ calm = 3 => busy[curr][Offset] = 0 /\ freed = 0

(* Once queueBuffer has gone on to the other slot.                         *)
AfterQueue ==
  phase \in {"queued", "drawn"} /\ calm >= 1 =>
    /\ phase = "drawn" => pipe = <<curr, Other>>
    /\ calm >= 2 => /\ mRelFence[curr][Other] = lag + 1
                    /\ mRelFence[curr][Offset] <= lag /\ freed < lag
    /\ calm = 3 => /\ mRelFence[curr][Offset] >= busy[curr][Offset]
                   /\ mRelFence[curr][Offset] >= freed

(* Only a failed rotation or close leaves the previous memory open.        *)
PrevOpenOnFailure ==
  phase # "aborted" /\ bufSz[1 - curr] # CLOSED => "memory" \in failures

IInv ==
  /\ TypeOK /\ FrameInv /\ ReadsInv /\ FencesInv
  /\ BetweenFrames /\ AfterSync /\ AfterQueue
  /\ FreedMemoryLeavesTheScreen /\ PrevOpenOnFailure /\ AbortsOnlyOnFailure
=============================================================================
