---------------------------- MODULE RotatorProofs ----------------------------
(***************************************************************************)
(* Proofs about the rotator's memory and its fences, for every set of      *)
(* sizes and however far the display lags.                                 *)
(***************************************************************************)
EXTENDS Rotator, TLAPS

LEMMA ConstantFacts ==
  /\ CLOSED \notin Sizes /\ MaxLag \in Nat
  /\ \A m \in Mems : 1 - m \in Mems /\ 1 - m # m
  /\ \A s \in Slots : 1 - s \in Slots /\ 1 - s # s /\ NextSlot(s) = 1 - s
BY RotatorAssumption DEF CLOSED, Mems, Slots, NextSlot

(* The slots of a state that has its type.                                 *)
LEMMA SlotFacts ==
  ASSUME TypeOK
  PROVE  /\ curr \in Mems /\ Offset \in Slots /\ Other \in Slots
         /\ Other # Offset /\ lag \in Nat /\ freed \in Nat /\ calm \in 0 .. 3
         /\ \A m \in Mems, s \in Slots : mRelFence[m][s] \in Nat /\ busy[m][s] \in Nat
BY ConstantFacts DEF TypeOK, Offset, Other

(* A pipe that is not set and freed memory are no slots.                   *)
LEMMA PipeFacts ==
  /\ NOTHING # FREED /\ NOTHING \notin Mems \X Slots /\ FREED \notin Mems \X Slots
  /\ \A m, s : NOTHING # <<m, s>> /\ FREED # <<m, s>>
BY DEF NOTHING, FREED, CLOSED

(* What the closing of memory does to what the display reads: memory that  *)
(* stays open is read as before, and nothing new is freed if what is       *)
(* closed has been closed before.                                          *)
LEMMA FreesFacts ==
  ASSUME TypeOK, ReadsInv, Frees
  PROVE  /\ lag' = lag /\ freed' \in 0 .. MaxLag /\ freed' <= lag
         /\ busy' \in [Mems -> [Slots -> 0 .. MaxLag]]
         /\ \A m \in Mems, s \in Slots :
              busy'[m][s] = IF bufSz'[m] = CLOSED THEN 0 ELSE busy[m][s]
         /\ (\A m \in Mems : bufSz'[m] = CLOSED => bufSz[m] = CLOSED) => freed' = freed
<1> DEFINE ReadIn(m) == IF bufSz'[m] = CLOSED THEN Bigger(busy[m][0], busy[m][1]) ELSE 0
<1>1. /\ lag' = lag /\ lag \in 0 .. MaxLag /\ freed \in 0 .. MaxLag /\ freed <= lag
      /\ \A m \in Mems, s \in Slots :
           busy[m][s] \in 0 .. MaxLag /\ busy[m][s] <= lag
           /\ (bufSz[m] = CLOSED => busy[m][s] = 0)
  BY DEF Frees, TypeOK, ReadsInv
<1>2. \A m \in Mems, s \in Slots :
        busy'[m][s] = IF bufSz'[m] = CLOSED THEN 0 ELSE busy[m][s]
  BY DEF Frees
<1>3. busy' \in [Mems -> [Slots -> 0 .. MaxLag]]
  <2>1. \A m \in Mems, s \in Slots : busy'[m][s] \in 0 .. MaxLag
    BY <1>1, <1>2, ConstantFacts
  <2> QED
    BY <2>1 DEF Frees
<1>4. freed' = Bigger(freed, Bigger(ReadIn(0), ReadIn(1)))
  BY DEF Frees
<1>5. \A m \in Mems : ReadIn(m) \in Nat /\ ReadIn(m) <= lag
                      /\ (bufSz[m] = CLOSED \/ bufSz'[m] # CLOSED => ReadIn(m) = 0)
  <2>1. \A m \in Mems : busy[m][0] \in Nat /\ busy[m][1] \in Nat
                        /\ busy[m][0] <= lag /\ busy[m][1] <= lag
                        /\ (bufSz[m] = CLOSED => busy[m][0] = 0 /\ busy[m][1] = 0)
    BY <1>1, ConstantFacts DEF Slots
  <2> QED
    BY <1>1, <2>1 DEF Bigger
<1>6. /\ ReadIn(0) \in Nat /\ ReadIn(0) <= lag /\ ReadIn(1) \in Nat /\ ReadIn(1) <= lag
      /\ (\A m \in Mems : bufSz'[m] = CLOSED => bufSz[m] = CLOSED) =>
           ReadIn(0) = 0 /\ ReadIn(1) = 0
  BY <1>5 DEF Mems
<1> HIDE DEF ReadIn
<1>7. freed' \in 0 .. MaxLag /\ freed' <= lag
  BY <1>1, <1>4, <1>6, ConstantFacts DEF Bigger
<1>8. (\A m \in Mems : bufSz'[m] = CLOSED => bufSz[m] = CLOSED) => freed' = freed
  BY <1>1, <1>4, <1>6 DEF Bigger
<1> QED
  BY <1>1, <1>2, <1>3, <1>7, <1>8

(* What a frame leaves of the history.                                     *)
LEMMA HistoryFacts ==
  ASSUME TypeOK
  PROVE  /\ calm \in 0 .. 3 /\ failures \subseteq Failures
         /\ Calmly => calm' \in 0 .. 3 /\ calm' <= calm + 1 /\ (calm' = 3 => calm >= 2)
         /\ \A f \in Failures : failures \cup {f} \subseteq Failures
BY DEF TypeOK, Calmly

-----------------------------------------------------------------------------
(* The initial state satisfies the inductive invariant.                    *)
LEMMA InitIInv == Init => IInv
<1> SUFFICES ASSUME Init PROVE IInv
  OBVIOUS
<1>1. TypeOK
  BY ConstantFacts DEF Init, TypeOK, EverySlot, Failures, Mems, Slots
<1>2. FrameInv /\ FencesInv /\ BetweenFrames /\ AfterSync /\ AfterQueue
  BY <1>1, SlotFacts DEF Init, EverySlot, FrameInv, FencesInv, BetweenFrames, AfterSync,
     AfterQueue
<1>3. ReadsInv
  BY <1>1, PipeFacts DEF Init, EverySlot, ReadsInv
<1>4. FreedMemoryLeavesTheScreen /\ PrevOpenOnFailure /\ AbortsOnlyOnFailure
  BY ConstantFacts, PipeFacts DEF Init, FreedMemoryLeavesTheScreen, PrevOpenOnFailure,
     AbortsOnlyOnFailure, Mems
<1> QED
  BY <1>1, <1>2, <1>3, <1>4 DEF IInv

(* One lemma per action: it preserves the inductive invariant.             *)

(* A commit only asks for memory.                                          *)
LEMMA CommitPreserves ==
  ASSUME IInv, NEW size \in Sizes, Commit(size)
  PROVE  IInv'
<1> USE DEF IInv, Commit, memory, reads, history
<1>1. TypeOK'
  BY DEF TypeOK
<1>2. Offset' = Offset /\ Other' = Other
  BY DEF Offset, Other
<1>3. FrameInv' /\ ReadsInv' /\ FencesInv'
  BY <1>2 DEF FrameInv, ReadsInv, FencesInv
<1>4. BetweenFrames' /\ AfterSync' /\ AfterQueue'
  BY <1>2 DEF BetweenFrames, AfterSync, AfterQueue
<1>5. FreedMemoryLeavesTheScreen' /\ PrevOpenOnFailure' /\ AbortsOnlyOnFailure'
  BY DEF FreedMemoryLeavesTheScreen, PrevOpenOnFailure, AbortsOnlyOnFailure
<1> QED
  BY <1>1, <1>3, <1>4, <1>5

(* A frame without the layer unsets the pipe.                              *)
LEMMA CommitFailsPreserves ==
  ASSUME IInv, CommitFails
  PROVE  IInv'
<1> USE DEF IInv, CommitFails, memory, reads, history
<1>1. TypeOK'
  BY DEF TypeOK
<1>2. Offset' = Offset /\ Other' = Other
  BY DEF Offset, Other
<1>3. FrameInv' /\ ReadsInv' /\ FencesInv'
  BY <1>2, PipeFacts DEF FrameInv, ReadsInv, FencesInv
<1>4. BetweenFrames' /\ AfterSync' /\ AfterQueue'
  BY <1>2 DEF BetweenFrames, AfterSync, AfterQueue
<1>5. FreedMemoryLeavesTheScreen' /\ PrevOpenOnFailure' /\ AbortsOnlyOnFailure'
  BY PipeFacts DEF FreedMemoryLeavesTheScreen, PrevOpenOnFailure, AbortsOnlyOnFailure
<1> QED
  BY <1>1, <1>3, <1>4, <1>5

(* A deleted session leaves no fence, no memory and no failure; what the   *)
(* display reads of it is freed memory.                                    *)
LEMMA DeletedPreserves ==
  ASSUME IInv, Deleted
  PROVE  IInv'
<1> USE DEF IInv
<1>1. TypeOK /\ ReadsInv /\ lag < MaxLag /\ phase = "idle" /\ phase' \in {"idle", "unused"}
      /\ pipe' = NOTHING /\ failures' = {} /\ calm' = 0 /\ curr' = 0
  BY DEF Deleted
<1>2. /\ lag' = lag /\ freed' \in 0 .. MaxLag /\ freed' <= lag
      /\ busy' \in [Mems -> [Slots -> 0 .. MaxLag]]
      /\ \A m \in Mems, s \in Slots :
           busy'[m][s] = IF bufSz'[m] = CLOSED THEN 0 ELSE busy[m][s]
  BY <1>1, FreesFacts DEF Deleted
<1>3. /\ \A m \in Mems : bufSz'[m] = CLOSED /\ mCurrOffset'[m] = 0
      /\ \A m \in Mems, s \in Slots : mRelFence'[m][s] = 0
  BY DEF Deleted, EverySlot
<1>4. TypeOK'
  BY <1>1, <1>2, ConstantFacts DEF Deleted, TypeOK, EverySlot, Mems, Slots
<1>5. (1 - curr') \in Mems
  BY <1>1, ConstantFacts DEF Mems
<1>6. FrameInv' /\ AfterSync' /\ AfterQueue' /\ BetweenFrames'
  BY <1>1, <1>2 DEF FrameInv, AfterSync, AfterQueue, BetweenFrames
<1>7. FencesInv' /\ ReadsInv'
  BY <1>1, <1>2, <1>3, SlotFacts, PipeFacts DEF FencesInv, ReadsInv
<1>8. FreedMemoryLeavesTheScreen' /\ PrevOpenOnFailure' /\ AbortsOnlyOnFailure'
  BY <1>1, <1>3, <1>5, PipeFacts DEF FreedMemoryLeavesTheScreen, PrevOpenOnFailure,
     AbortsOnlyOnFailure
<1> QED
  BY <1>4, <1>6, <1>7, <1>8

(* hwc_sync puts the fence of the frame to come in the place of one that   *)
(* has signalled, or the frame is not a calm one.                          *)
LEMMA SyncPreserves ==
  ASSUME IInv, Sync
  PROVE  IInv'
<1> USE DEF IInv
<1>1. PICK fence \in {lag + 1, 0} : SetReleaseFd(fence)
  BY DEF Sync
<1>2. TypeOK /\ FrameInv /\ ReadsInv /\ FencesInv /\ BetweenFrames
      /\ phase = "prepared" /\ phase' = "synced" /\ lag < MaxLag /\ outSize \in Sizes
      /\ UNCHANGED <<curr, bufSz, mCurrOffset, outSize, dst, pipe, lag, busy, freed>>
  BY DEF Sync, memory, reads, FrameInv
<1>3. Offset' = Offset /\ Other' = Other
  BY <1>2 DEF Offset, Other
<1>4. /\ \A m \in Mems, s \in Slots :
            mRelFence'[m][s] = IF <<m, s>> = <<curr, Offset>> THEN fence ELSE mRelFence[m][s]
      /\ fence \in 0 .. MaxLag /\ mRelFence' \in [Mems -> [Slots -> 0 .. MaxLag]]
  <2>1. mRelFence' = [mRelFence EXCEPT ![curr] = [@ EXCEPT ![Offset] = fence]]
    BY <1>1 DEF SetReleaseFd
  <2>2. fence \in 0 .. MaxLag
    BY <1>2, SlotFacts, ConstantFacts
  <2> QED
    BY <1>2, <2>1, <2>2, SlotFacts DEF TypeOK
<1>5. \/ mRelFence[curr][Offset] = 0 /\ fence = lag + 1 /\ failures' = failures /\ calm' = calm
      \/ calm' = 0 /\ failures' = failures \cup {"missed"}
  BY <1>1 DEF SetReleaseFd, history, Disturbed
<1>6. TypeOK'
  <2>1. calm' \in 0 .. 3 /\ failures' \subseteq Failures
    BY <1>2, <1>5, HistoryFacts DEF Failures
  <2> QED
    BY <1>2, <1>4, <2>1 DEF TypeOK
<1>7. FrameInv' /\ ReadsInv' /\ BetweenFrames' /\ AfterQueue'
  BY <1>2, <1>5 DEF FrameInv, ReadsInv, BetweenFrames, AfterQueue
<1>8. FencesInv'
  BY <1>2, <1>4, SlotFacts DEF FencesInv
<1>9. AfterSync'
  <2>1. CASE calm' = 0
    BY <2>1 DEF AfterSync
  <2>2. CASE mRelFence[curr][Offset] = 0 /\ fence = lag + 1 /\ failures' = failures /\ calm' = calm
    <3>1. mRelFence'[curr][Offset] = lag + 1 /\ mRelFence'[curr][Other] = mRelFence[curr][Other]
      BY <1>2, <1>4, <2>2, SlotFacts
    <3>2. calm = 3 => busy[curr][Offset] = 0 /\ freed = 0
      BY <1>2, <2>2, SlotFacts DEF BetweenFrames
    <3> QED
      BY <1>2, <1>3, <2>2, <3>1, <3>2 DEF AfterSync, BetweenFrames
  <2> QED
    BY <1>5, <2>1, <2>2
<1>10. FreedMemoryLeavesTheScreen' /\ PrevOpenOnFailure' /\ AbortsOnlyOnFailure'
  <2>1. phase' = "synced" /\ calm' = 3 => freed' = 0
    BY <1>9, <1>2 DEF AfterSync
  <2> QED
    BY <1>2, <1>5, <2>1 DEF FreedMemoryLeavesTheScreen, PrevOpenOnFailure,
       AbortsOnlyOnFailure
<1> QED
  BY <1>6, <1>7, <1>8, <1>9, <1>10

(* A frame whose draw fails earlier shows what the one before it did.      *)
LEMMA SkipDrawPreserves ==
  ASSUME IInv, SkipDraw
  PROVE  IInv'
<1> USE DEF IInv
<1>1. TypeOK /\ lag < MaxLag /\ phase = "synced" /\ phase' = "drawn"
      /\ UNCHANGED <<curr, bufSz, mCurrOffset, mRelFence, outSize, dst, pipe, lag, busy, freed>>
      /\ calm' = 0 /\ failures' = failures \cup {"missed"}
  BY DEF SkipDraw, FrameInv, memory, reads, Disturbed
<1>2. TypeOK'
  BY <1>1 DEF TypeOK, Failures
<1>3. FrameInv' /\ ReadsInv' /\ FencesInv'
  BY <1>1 DEF FrameInv, ReadsInv, FencesInv
<1>4. AfterSync' /\ BetweenFrames' /\ AfterQueue'
  BY <1>1 DEF AfterSync, BetweenFrames, AfterQueue
<1>5. FreedMemoryLeavesTheScreen' /\ PrevOpenOnFailure' /\ AbortsOnlyOnFailure'
  BY <1>1 DEF FreedMemoryLeavesTheScreen, PrevOpenOnFailure, AbortsOnlyOnFailure
<1> QED
  BY <1>2, <1>3, <1>4, <1>5

(* The assertion of remap fires on a memory a failure left open.           *)
LEMMA RemapAssertsPreserves ==
  ASSUME IInv, RemapAsserts
  PROVE  IInv'
<1> USE DEF IInv
<1>1. TypeOK /\ phase = "synced" /\ bufSz[1 - curr] # CLOSED /\ phase' = "aborted"
      /\ UNCHANGED <<curr, bufSz, mCurrOffset, mRelFence, outSize, dst, pipe, lag, busy, freed,
                     failures, calm>>
  BY DEF RemapAsserts, memory, reads, history
<1>2. TypeOK'
  BY <1>1 DEF TypeOK
<1>3. FrameInv' /\ ReadsInv' /\ FencesInv' /\ PrevOpenOnFailure'
  BY <1>1 DEF FrameInv, ReadsInv, FencesInv, PrevOpenOnFailure
<1>4. AfterSync' /\ BetweenFrames' /\ AfterQueue'
  BY <1>1 DEF AfterSync, BetweenFrames, AfterQueue
<1>5. FreedMemoryLeavesTheScreen' /\ AbortsOnlyOnFailure'
  BY <1>1 DEF FreedMemoryLeavesTheScreen, AbortsOnlyOnFailure, PrevOpenOnFailure
<1> QED
  BY <1>2, <1>3, <1>4, <1>5

(* queueBuffer asserts after memory could not be opened.                   *)
LEMMA RemapFailsPreserves ==
  ASSUME IInv, RemapFails
  PROVE  IInv'
<1> USE DEF IInv
<1>1. TypeOK /\ phase = "synced" /\ phase' = "aborted" /\ curr' = 1 - curr
      /\ calm' = 0 /\ failures' = failures \cup {"memory"}
      /\ UNCHANGED <<bufSz, mCurrOffset, mRelFence, outSize, dst, pipe, lag, busy, freed>>
  BY DEF RemapFails, reads, Disturbed
<1>2. TypeOK'
  BY <1>1, ConstantFacts DEF TypeOK, Failures
<1>3. FrameInv' /\ ReadsInv' /\ FencesInv' /\ PrevOpenOnFailure'
  BY <1>1 DEF FrameInv, ReadsInv, FencesInv, PrevOpenOnFailure
<1>4. AfterSync' /\ BetweenFrames' /\ AfterQueue'
  BY <1>1 DEF AfterSync, BetweenFrames, AfterQueue
<1>5. FreedMemoryLeavesTheScreen' /\ AbortsOnlyOnFailure'
  BY <1>1 DEF FreedMemoryLeavesTheScreen, AbortsOnlyOnFailure
<1> QED
  BY <1>2, <1>3, <1>4, <1>5

(* queueBuffer moves on to the other slot, whose fence is that of a frame  *)
(* before the one at hand, and closes the previous memory unless it fails. *)
LEMMA QueueBufferPreserves ==
  ASSUME IInv, NEW outcome \in {"none", "rotate", "close"}, QueueBuffer(outcome)
  PROVE  IInv'
<1> DEFINE m     == IF Remaps THEN 1 - curr ELSE curr
           sizes == [bufSz EXCEPT ![m] = outSize]
<1> USE DEF IInv
<1>1. /\ TypeOK /\ lag < MaxLag /\ outSize \in Sizes /\ ReadsInv
      /\ phase = "synced" /\ phase' = IF outcome = "none" THEN "queued" ELSE "drawn"
      /\ curr' = m /\ m \in Mems /\ 1 - m \in Mems /\ 1 - m # m
      /\ dst' = <<m, mCurrOffset[m]>> /\ UNCHANGED <<mRelFence, outSize>>
      /\ mCurrOffset' = [mCurrOffset EXCEPT ![m] = 1 - @]
      /\ (Remaps => bufSz[m] = CLOSED) /\ Frees
      /\ pipe' = IF pipe \in Mems \X Slots /\ bufSz'[pipe[1]] = CLOSED THEN FREED ELSE pipe
  <2>1. TypeOK /\ lag < MaxLag /\ outSize \in Sizes
    BY DEF FrameInv, QueueBuffer
  <2>2. m \in Mems
    BY <2>1, ConstantFacts DEF TypeOK
  <2> QED
    BY <2>1, <2>2, ConstantFacts DEF QueueBuffer, TypeOK
<1>2. /\ bufSz'[m] = outSize /\ bufSz'[m] # CLOSED
      /\ outcome = "none" => bufSz'[1 - m] = CLOSED
      /\ outcome # "none" => bufSz'[1 - m] = bufSz[1 - m]
      /\ bufSz' \in [Mems -> Sizes \cup {CLOSED}]
  BY <1>1, ConstantFacts DEF QueueBuffer, ClosePrev, TypeOK
<1>3. /\ lag' = lag /\ freed' \in 0 .. MaxLag /\ freed' <= lag
      /\ busy' \in [Mems -> [Slots -> 0 .. MaxLag]]
      /\ \A n \in Mems, s \in Slots :
           busy'[n][s] = IF bufSz'[n] = CLOSED THEN 0 ELSE busy[n][s]
      /\ (\A n \in Mems : bufSz'[n] = CLOSED => bufSz[n] = CLOSED) => freed' = freed
  BY <1>1, FreesFacts
<1>4. \/ /\ outcome = "none" /\ ~Remaps /\ Calmly /\ UNCHANGED failures
      \/ /\ outcome = "none" /\ Remaps /\ calm' = 0 /\ failures' = failures
      \/ /\ outcome # "none" /\ calm' = 0 /\ failures' = failures \cup {"memory"}
  BY <1>1 DEF QueueBuffer, Disturbed
<1>5. TypeOK'
  <2>1. mCurrOffset' \in [Mems -> Slots] /\ dst' \in Mems \X Slots
    BY <1>1, ConstantFacts DEF TypeOK
  <2>2. calm' \in 0 .. 3 /\ failures' \subseteq Failures
    BY <1>1, <1>4, HistoryFacts DEF Failures
  <2>3. pipe' \in (Mems \X Slots) \cup {NOTHING, FREED}
    BY <1>1 DEF TypeOK
  <2> QED
    BY <1>1, <1>2, <1>3, <2>1, <2>2, <2>3 DEF TypeOK
<1>6. \A n \in Mems : n = m \/ n = 1 - m
  BY <1>1 DEF Mems
<1>7. ReadsInv'
  <2>1. pipe' \in Mems \X Slots => bufSz'[pipe'[1]] # CLOSED
    BY <1>1, PipeFacts
  <2>2. \A n \in Mems, s \in Slots :
          busy'[n][s] <= lag /\ (bufSz'[n] = CLOSED => busy'[n][s] = 0)
    BY <1>1, <1>3, SlotFacts DEF ReadsInv
  <2> QED
    BY <1>3, <2>1, <2>2 DEF ReadsInv
<1>8. /\ Offset' = 1 - mCurrOffset[m] /\ Other' = mCurrOffset[m]
  BY <1>1, <1>5, ConstantFacts DEF Offset, Other, TypeOK, Slots
<1>9. FrameInv'
  <2>1. phase' = "queued" => dst' = <<curr', Other'>> /\ bufSz'[curr'] # CLOSED
    BY <1>1, <1>2, <1>8
  <2>2. calm' >= 1 => bufSz'[1 - curr'] = CLOSED
    BY <1>1, <1>2, <1>4, HistoryFacts
  <2> QED
    BY <1>1, <1>3, <2>1, <2>2 DEF FrameInv
<1>10. FencesInv'
  BY <1>1, <1>3 DEF FencesInv
<1>11. BetweenFrames' /\ AfterSync' /\ AbortsOnlyOnFailure'
  BY <1>1 DEF BetweenFrames, AfterSync, AbortsOnlyOnFailure
<1>12. AfterQueue'
  <2>1. CASE calm' = 0
    BY <2>1 DEF AfterQueue
  <2>2. CASE outcome = "none" /\ ~Remaps /\ Calmly
    <3>1. m = curr /\ curr' = curr /\ Offset' = Other /\ Other' = Offset /\ phase' = "queued"
      BY <1>1, <1>8, <2>2 DEF Offset, Other
    <3>2. ASSUME calm >= 1
          PROVE  /\ mRelFence[curr][Offset] = lag + 1 /\ mRelFence[curr][Other] <= lag
                 /\ freed < lag /\ freed' = freed
      <4>1. bufSz[1 - curr] = CLOSED
        BY <1>1, <3>2 DEF FrameInv
      <4>2. freed' = freed
        BY <1>2, <1>3, <1>6, <3>1, <4>1
      <4> QED
        BY <1>1, <3>2, <4>2 DEF AfterSync
    <3>3. ASSUME calm >= 2
          PROVE  /\ mRelFence[curr][Other] >= busy'[curr][Other]
                 /\ mRelFence[curr][Other] >= freed
      BY <1>1, <1>2, <1>3, <3>1, <3>3, SlotFacts DEF AfterSync
    <3>4. calm' >= 2 => calm >= 1
      BY <1>1, <2>2, HistoryFacts
    <3>5. calm' = 3 => calm >= 2 /\ calm >= 1
      BY <1>1, <2>2, HistoryFacts
    <3> QED
      BY <1>1, <1>3, <3>1, <3>2, <3>3, <3>4, <3>5 DEF AfterQueue
  <2> QED
    BY <1>4, <2>1, <2>2
<1>13. FreedMemoryLeavesTheScreen'
  <2> SUFFICES ASSUME phase' # "queued", pipe' = FREED
               PROVE  "play" \in failures' /\ calm' = 0
    BY <1>1 DEF FreedMemoryLeavesTheScreen
  <2>1. outcome # "none" /\ calm' = 0 /\ failures \subseteq failures'
    BY <1>1, <1>4
  <2>2. pipe = FREED
    <3>1. pipe \in Mems \X Slots => bufSz[pipe[1]] # CLOSED /\ pipe[1] \in Mems
      BY <1>1 DEF ReadsInv
    <3>2. pipe \in Mems \X Slots => bufSz'[pipe[1]] # CLOSED
      BY <1>2, <1>6, <2>1, <3>1
    <3> QED
      BY <1>1, <3>2, PipeFacts
  <2> QED
    BY <1>1, <2>1, <2>2 DEF FreedMemoryLeavesTheScreen
<1>14. PrevOpenOnFailure'
  BY <1>1, <1>2, <1>4 DEF PrevOpenOnFailure
<1> QED
  BY <1>5, <1>7, <1>9, <1>10, <1>11, <1>12, <1>13, <1>14

(* The pipe is given the slot, whose memory is open.                       *)
LEMMA PlayPreserves ==
  ASSUME IInv, Play
  PROVE  IInv'
<1> USE DEF IInv
<1>1. /\ TypeOK /\ phase = "queued" /\ phase' = "drawn" /\ lag < MaxLag
      /\ dst = <<curr, Other>> /\ bufSz[curr] # CLOSED /\ pipe' = dst
      /\ UNCHANGED <<curr, bufSz, mCurrOffset, mRelFence, outSize, dst, lag, busy, freed,
                     failures, calm>>
  BY DEF Play, FrameInv, memory, reads, history
<1>2. Offset' = Offset /\ Other' = Other
  BY <1>1 DEF Offset, Other
<1>3. TypeOK'
  BY <1>1 DEF TypeOK
<1>4. FrameInv' /\ ReadsInv' /\ FencesInv'
  BY <1>1 DEF FrameInv, ReadsInv, FencesInv
<1>5. AfterSync' /\ BetweenFrames' /\ AfterQueue'
  BY <1>1, <1>2 DEF AfterSync, BetweenFrames, AfterQueue
<1>6. FreedMemoryLeavesTheScreen' /\ PrevOpenOnFailure' /\ AbortsOnlyOnFailure'
  BY <1>1, PipeFacts DEF FreedMemoryLeavesTheScreen, PrevOpenOnFailure, AbortsOnlyOnFailure
<1> QED
  BY <1>3, <1>4, <1>5, <1>6

(* A pipe that refuses the slot goes on with what it has.                  *)
LEMMA PlayFailsPreserves ==
  ASSUME IInv, PlayFails
  PROVE  IInv'
<1> USE DEF IInv
<1>1. /\ TypeOK /\ phase = "queued" /\ phase' = "drawn" /\ lag < MaxLag
      /\ calm' = 0 /\ failures' = failures \cup {"play"}
      /\ UNCHANGED <<curr, bufSz, mCurrOffset, mRelFence, outSize, dst, pipe, lag, busy, freed>>
  BY DEF PlayFails, FrameInv, memory, reads, Disturbed
<1>2. TypeOK'
  BY <1>1 DEF TypeOK, Failures
<1>3. FrameInv' /\ ReadsInv' /\ FencesInv'
  BY <1>1 DEF FrameInv, ReadsInv, FencesInv
<1>4. AfterSync' /\ BetweenFrames' /\ AfterQueue'
  BY <1>1 DEF AfterSync, BetweenFrames, AfterQueue
<1>5. FreedMemoryLeavesTheScreen' /\ PrevOpenOnFailure' /\ AbortsOnlyOnFailure'
  BY <1>1 DEF FreedMemoryLeavesTheScreen, PrevOpenOnFailure, AbortsOnlyOnFailure
<1> QED
  BY <1>2, <1>3, <1>4, <1>5

(* The commit has the display read what the pipe was given: in a calm      *)
(* frame the slot rotated in it, which the fence of the frame covers.      *)
LEMMA DisplayCommitPreserves ==
  ASSUME IInv, DisplayCommit
  PROVE  IInv'
<1> USE DEF IInv
<1>1. /\ TypeOK /\ ReadsInv /\ phase \in {"drawn", "unused"} /\ phase' = "idle" /\ lag < MaxLag
      /\ lag' = lag + 1 /\ freed' = IF pipe = FREED THEN lag + 1 ELSE freed
      /\ UNCHANGED <<curr, bufSz, mCurrOffset, mRelFence, outSize, dst, pipe, failures, calm>>
  BY DEF DisplayCommit, FrameInv, memory, history
<1>2. /\ \A m \in Mems, s \in Slots :
            busy'[m][s] = IF pipe = <<m, s>> THEN lag + 1 ELSE busy[m][s]
      /\ busy' \in [Mems -> [Slots -> 0 .. MaxLag]]
  <2>1. \A m \in Mems, s \in Slots :
          busy'[m][s] = IF pipe = <<m, s>> THEN lag + 1 ELSE busy[m][s]
    BY DEF DisplayCommit
  <2>2. \A m \in Mems, s \in Slots : busy'[m][s] \in 0 .. MaxLag
    BY <1>1, <2>1, ConstantFacts DEF TypeOK
  <2> QED
    BY <2>1, <2>2 DEF DisplayCommit
<1>3. Offset' = Offset /\ Other' = Other
  BY <1>1 DEF Offset, Other
<1>4. TypeOK'
  BY <1>1, <1>2, ConstantFacts DEF TypeOK
<1>5. FrameInv' /\ AfterSync' /\ AfterQueue'
  BY <1>1 DEF FrameInv, AfterSync, AfterQueue
<1>6. ReadsInv'
  <2>1. freed' <= lag'
    BY <1>1, SlotFacts DEF ReadsInv
  <2>2. \A m \in Mems, s \in Slots : busy'[m][s] <= lag'
    BY <1>1, <1>2, SlotFacts DEF ReadsInv
  <2>3. \A m \in Mems, s \in Slots : bufSz[m] = CLOSED => pipe # <<m, s>> /\ busy[m][s] = 0
    BY <1>1 DEF ReadsInv
  <2> QED
    BY <1>1, <1>2, <2>1, <2>2, <2>3 DEF ReadsInv
<1>7. FencesInv'
  BY <1>1, SlotFacts DEF FencesInv
<1>8. BetweenFrames'
  <2>1. calm >= 1 => pipe # FREED /\ freed' = freed
    BY <1>1, PipeFacts DEF FreedMemoryLeavesTheScreen
  <2>2. mRelFence[curr][Other] <= lag + 1 /\ freed <= lag /\ busy[curr][Other] <= lag
        /\ busy[curr][Offset] <= lag
    BY <1>1, SlotFacts DEF FencesInv, ReadsInv
  <2>3. CASE phase = "unused"
    <3>1. pipe = NOTHING
      BY <2>3 DEF FrameInv
    <3>2. busy'[curr][Other] = busy[curr][Other] /\ busy'[curr][Offset] = busy[curr][Offset]
      BY <1>1, <1>2, <3>1, SlotFacts, PipeFacts
    <3> QED
      BY <1>1, <1>3, <2>1, <2>2, <2>3, <3>2, SlotFacts DEF BetweenFrames
  <2>4. CASE phase = "drawn"
    <3>1. calm >= 1 => pipe = <<curr, Other>>
      BY <2>4 DEF AfterQueue
    <3>2. calm >= 1 => busy'[curr][Other] = lag + 1 /\ busy'[curr][Offset] = busy[curr][Offset]
      BY <1>1, <1>2, <3>1, SlotFacts
    <3> QED
      BY <1>1, <1>3, <2>1, <2>2, <2>4, <3>2, SlotFacts DEF BetweenFrames, AfterQueue
  <2> QED
    BY <1>1, <2>3, <2>4
<1>9. FreedMemoryLeavesTheScreen' /\ PrevOpenOnFailure' /\ AbortsOnlyOnFailure'
  BY <1>1 DEF FreedMemoryLeavesTheScreen, PrevOpenOnFailure, AbortsOnlyOnFailure
<1> QED
  BY <1>4, <1>5, <1>6, <1>7, <1>8, <1>9

(* A commit that fails changes nothing the display reads.                  *)
LEMMA DisplayCommitFailsPreserves ==
  ASSUME IInv, DisplayCommitFails
  PROVE  IInv'
<1> USE DEF IInv
<1>1. /\ TypeOK /\ phase \in {"drawn", "unused"} /\ phase' = "idle"
      /\ calm' = 0 /\ failures' = failures \cup {"missed"}
      /\ UNCHANGED <<curr, bufSz, mCurrOffset, mRelFence, outSize, dst, pipe, lag, busy, freed>>
  BY DEF DisplayCommitFails, memory, reads, Disturbed
<1>2. TypeOK'
  BY <1>1 DEF TypeOK, Failures
<1>3. FrameInv' /\ ReadsInv' /\ FencesInv'
  BY <1>1 DEF FrameInv, ReadsInv, FencesInv
<1>4. AfterSync' /\ BetweenFrames' /\ AfterQueue'
  BY <1>1 DEF AfterSync, BetweenFrames, AfterQueue
<1>5. FreedMemoryLeavesTheScreen' /\ PrevOpenOnFailure' /\ AbortsOnlyOnFailure'
  BY <1>1 DEF FreedMemoryLeavesTheScreen, PrevOpenOnFailure, AbortsOnlyOnFailure
<1> QED
  BY <1>2, <1>3, <1>4, <1>5

(* A frame that is replaced ages fences and reads alike.                   *)
LEMMA RetirePreserves ==
  ASSUME IInv, Retire
  PROVE  IInv'
<1> USE DEF IInv
<1>1. /\ TypeOK /\ ReadsInv /\ lag > 1 /\ lag' = lag - 1
      /\ UNCHANGED <<curr, bufSz, mCurrOffset, outSize, dst, phase, pipe, failures, calm>>
      /\ freed' = IF freed = 0 THEN 0 ELSE freed - 1
  BY DEF Retire, memory, history
<1>2. \A m \in Mems, s \in Slots :
        /\ mRelFence'[m][s] = IF mRelFence[m][s] = 0 THEN 0 ELSE mRelFence[m][s] - 1
        /\ busy'[m][s] = IF busy[m][s] = 0 THEN 0 ELSE busy[m][s] - 1
  BY DEF Retire
<1>3. Offset' = Offset /\ Other' = Other
  BY <1>1 DEF Offset, Other
<1>4. TypeOK'
  <2>1. \A m \in Mems, s \in Slots : mRelFence[m][s] \in 0 .. MaxLag /\ busy[m][s] \in 0 .. MaxLag
    BY <1>1 DEF TypeOK
  <2>2. \A m \in Mems, s \in Slots : mRelFence'[m][s] \in 0 .. MaxLag /\ busy'[m][s] \in 0 .. MaxLag
    BY <1>2, <2>1, ConstantFacts
  <2>3. mRelFence' \in [Mems -> [Slots -> 0 .. MaxLag]] /\ busy' \in [Mems -> [Slots -> 0 .. MaxLag]]
    BY <2>2 DEF Retire
  <2> QED
    BY <1>1, <2>3, ConstantFacts DEF TypeOK
<1>5. FrameInv'
  BY <1>1, <1>3, ConstantFacts DEF FrameInv, TypeOK
<1>6. FencesInv' /\ ReadsInv'
  BY <1>1, <1>2, SlotFacts DEF FencesInv, ReadsInv
<1>7. BetweenFrames'
  BY <1>1, <1>2, <1>3, SlotFacts DEF BetweenFrames
<1>8. AfterSync' /\ AfterQueue'
  BY <1>1, <1>2, <1>3, SlotFacts DEF AfterSync, AfterQueue
<1>9. FreedMemoryLeavesTheScreen' /\ PrevOpenOnFailure' /\ AbortsOnlyOnFailure'
  BY <1>1 DEF FreedMemoryLeavesTheScreen, PrevOpenOnFailure, AbortsOnlyOnFailure
<1> QED
  BY <1>4, <1>5, <1>6, <1>7, <1>8, <1>9

LEMMA StepPreserves ==
  ASSUME IInv, [Next]_vars
  PROVE  IInv'
<1>1. CASE UNCHANGED vars
  BY <1>1 DEF vars, memory, reads, history, IInv, TypeOK, FrameInv, ReadsInv, FencesInv,
     BetweenFrames, AfterSync, AfterQueue, FreedMemoryLeavesTheScreen, PrevOpenOnFailure,
     AbortsOnlyOnFailure, Offset, Other
<1>2. CASE Next
  BY <1>2, CommitPreserves, CommitFailsPreserves, DeletedPreserves, SyncPreserves,
     SkipDrawPreserves, RemapAssertsPreserves, RemapFailsPreserves,
     QueueBufferPreserves, PlayPreserves, PlayFailsPreserves, DisplayCommitPreserves,
     DisplayCommitFailsPreserves, RetirePreserves DEF Next
<1> QED
  BY <1>1, <1>2

-----------------------------------------------------------------------------
(* Theorems.                                                               *)

(* The memory, its fences and what the display reads stay related as IInv  *)
(* says, through every change of size and every failure.                   *)
THEOREM InductiveInvariant == Spec => []IInv
BY InitIInv, StepPreserves, PTL DEF Spec

(* Once three frames have passed without a failure or a change of size,    *)
(* MdpRot::queueBuffer writes no slot the display may still read, however  *)
(* many frames the display lags behind.                                    *)
THEOREM DoubleBufferingWorks == Spec => []WritesFreeSlotWhenCalm
<1>1. IInv => WritesFreeSlotWhenCalm
  BY SlotFacts DEF IInv, AfterSync, WritesFreeSlotWhenCalm, SlotIsFree
<1> QED
  BY <1>1, InductiveInvariant, PTL

(* setReleaseFd then never waits for the fence of the last frame           *)
(* committed, which only the commit to come would signal.                  *)
THEOREM NoWaitForOwnCommit == Spec => []WaitsForReplacedFrame
<1>1. IInv => WaitsForReplacedFrame
  BY SlotFacts DEF IInv, BetweenFrames, WaitsForReplacedFrame
<1> QED
  BY <1>1, InductiveInvariant, PTL

(* A change of size closes memory the display may still read; but the      *)
(* commit that ends the frame shows open memory, unless the pipe refused   *)
(* the new slot, and after three calm frames no freed memory is read, by a *)
(* display that lags by any number of frames.                              *)
THEOREM FreedMemoryIsSoonUnread == Spec => []FreedMemoryLeavesTheScreen
<1>1. IInv => FreedMemoryLeavesTheScreen
  BY DEF IInv
<1> QED
  BY <1>1, InductiveInvariant, PTL

(* The assertions of remap and queueBuffer are reached only after opening, *)
(* closing or rotating has failed.                                         *)
THEOREM AssertionsNeedFailures == Spec => []AbortsOnlyOnFailure
<1>1. IInv => AbortsOnlyOnFailure
  BY DEF IInv
<1> QED
  BY <1>1, InductiveInvariant, PTL
=============================================================================
