---------------------------- MODULE OverlayProofs ----------------------------
(***************************************************************************)
(* Proofs about the pipe book and the draw round, for any number of pipes  *)
(* of any types, displays and mixers.                                      *)
(***************************************************************************)
EXTENDS Overlay, FiniteSetTheorems, WellFoundedInduction, TLAPS

(* A non-empty set of pipes has a lowest one: no interval 0..p with p in   *)
(* the set strictly includes another for ever.                             *)
LEMMA LowestIsMember ==
  ASSUME NEW S, S \subseteq Pipes, S # {}
  PROVE  Lowest(S) \in S
<1> DEFINE Below == {0 .. p : p \in S}
<1>1. IsFiniteSet(Pipes)
  BY FS_Interval, OverlayAssumption DEF Pipes
<1>2. Below \subseteq SUBSET Pipes /\ Below # {}
  <2>1. \A p \in Pipes : 0 .. p \subseteq Pipes
    BY OverlayAssumption DEF Pipes
  <2>2. \A p \in S : 0 .. p \in Below /\ p \in Pipes
    OBVIOUS
  <2> QED
    BY <2>1, <2>2
<1>3. IsWellFoundedOn(StrictSubsetOrdering(Pipes), SUBSET Pipes)
  BY <1>1, FS_StrictSubsetOrderingWellFounded, FS_FiniteSubsetsOfFinite, Zenon
<1> HIDE DEF Below
<1>4. PICK B \in Below : \A C \in Below : <<C, B>> \notin StrictSubsetOrdering(Pipes)
  BY <1>2, <1>3, WFMin
<1>5. PICK p \in S : B = 0 .. p
  BY DEF Below
<1>6. \A q \in S : p <= q
  <2> SUFFICES ASSUME NEW q \in S, q < p PROVE FALSE
    BY OverlayAssumption DEF Pipes
  <2>1. 0 .. q \in Below /\ 0 .. q \in SUBSET Pipes /\ B \in SUBSET Pipes
    <3>1. 0 .. q \in Below
      BY DEF Below
    <3> QED
      BY <3>1, <1>2
  <2>2. 0 .. q \subseteq B /\ 0 .. q # B
    BY <1>5, OverlayAssumption DEF Pipes
  <2> QED
    BY <2>1, <2>2, <1>4 DEF StrictSubsetOrdering
<1> QED
  BY <1>6 DEF Lowest

(* What the constants are worth to the proofs.                             *)
LEMMA ConstantFacts ==
  /\ DPY_UNUSED \notin Displays /\ -1 \notin Displays
  /\ OV_INVALID \notin Pipes
  /\ Pipes \subseteq Nat /\ Displays \subseteq Nat
  /\ NumDisplays - 1 \in Displays
  /\ \A d \in Displays : d - 1 \in Displays \cup {-1}
  /\ NumDisplays \in Nat
BY OverlayAssumption DEF DPY_UNUSED, OV_INVALID, Pipes, Displays

(* Overlay::nextPipe returns a pipe of the display, or an unused one, that *)
(* is not handed out.                                                      *)
LEMMA NextPipeGrants ==
  ASSUME TypeOK, NEW type, NEW d \in Displays, NextPipe(type, d) # OV_INVALID
  PROVE  LET p == NextPipe(type, d)
         IN  p \in Pipes /\ p \notin allocated /\ mDisplay[p] \in {d, DPY_UNUSED}
<1>1. \A o : Candidates(type, o) # {} =>
              Lowest(Candidates(type, o)) \in Candidates(type, o)
  BY LowestIsMember DEF Candidates, PipesOf
<1> QED
  BY <1>1 DEF NextPipe, Candidates, PipesOf

LEMMA FbPipeGrants ==
  ASSUME TypeOK, turn \in Displays, PipeForFb # OV_INVALID
  PROVE  /\ PipeForFb \in Pipes /\ PipeForFb \notin allocated
         /\ mDisplay[PipeForFb] \in {turn, DPY_UNUSED}
BY NextPipeGrants DEF PipeForFb

LEMMA MdpPipeGrants ==
  ASSUME TypeOK, turn \in Displays, NEW type, MdpPipe(type) # OV_INVALID
  PROVE  /\ MdpPipe(type) \in Pipes /\ MdpPipe(type) \notin allocated
         /\ mDisplay[MdpPipe(type)] \in {turn, DPY_UNUSED}
BY NextPipeGrants DEF MdpPipe

-----------------------------------------------------------------------------
(* The initial state satisfies the inductive invariant.                    *)
LEMMA InitIInv == Init => IInv
BY ConstantFacts DEF Init, IInv, TypeOK, WrapperMatchesBook, BookInv, HeldInv,
     Steps, Drawn, PipesOf

(* One lemma per action: it preserves the inductive invariant.             *)

(* A round begins with every bitmap and every composition empty.           *)
LEMMA ConfigBeginPreserves ==
  ASSUME IInv, ConfigBegin
  PROVE  IInv'
<1> USE ConstantFacts DEF IInv
<1>1. TypeOK'
  BY DEF ConfigBegin, TypeOK, Steps, hw
<1>2. WrapperMatchesBook'
  BY DEF ConfigBegin, WrapperMatchesBook, hw
<1>3. BookInv'
  BY DEF ConfigBegin, BookInv, TypeOK, hw
<1>4. HeldInv'
  BY DEF ConfigBegin, HeldInv, TypeOK, Drawn, PipesOf, hw
<1> QED
  BY <1>1, <1>2, <1>3, <1>4

(* A display that is skipped has composed nothing.                         *)
LEMMA SkipDisplayPreserves ==
  ASSUME IInv, SkipDisplay
  PROVE  IInv'
<1> USE ConstantFacts DEF IInv
<1>1. TypeOK'
  BY DEF SkipDisplay, TypeOK, Steps, book, hw, At, NextDisplay
<1>2. WrapperMatchesBook'
  BY DEF SkipDisplay, WrapperMatchesBook, book, hw, At, NextDisplay
<1>3. BookInv'
  BY DEF SkipDisplay, BookInv, TypeOK, book, hw, At, NextDisplay
<1>4. HeldInv'
  BY DEF SkipDisplay, HeldInv, TypeOK, Drawn, PipesOf, book, hw, At,
     NextDisplay
<1> QED
  BY <1>1, <1>2, <1>3, <1>4

(* The choice of a composition starts with nothing acquired.               *)
LEMMA ChooseCompositionPreserves ==
  ASSUME IInv, ChooseComposition
  PROVE  IInv'
<1> USE ConstantFacts DEF IInv
<1>1. TypeOK'
  BY DEF ChooseComposition, TypeOK, Steps, book, hw, At, Goto
<1>2. WrapperMatchesBook'
  BY DEF ChooseComposition, WrapperMatchesBook, book, hw, At, Goto
<1>3. BookInv'
  BY DEF ChooseComposition, BookInv, TypeOK, book, hw, At, Goto
<1>4. HeldInv'
  BY DEF ChooseComposition, HeldInv, TypeOK, Drawn, PipesOf, book, hw, At,
     Goto
<1> QED
  BY <1>1, <1>2, <1>3, <1>4

(* The FB of a display is in use before its layers are.                    *)
LEMMA FbConfiguredPreserves ==
  ASSUME IInv, FbConfigured
  PROVE  IInv'
<1> USE ConstantFacts DEF IInv
<1>1. TypeOK'
  BY DEF FbConfigured, TypeOK, Steps, book, hw, At, Goto, NextDisplay
<1>2. WrapperMatchesBook'
  BY DEF FbConfigured, WrapperMatchesBook, book, hw, At, Goto, NextDisplay
<1>3. BookInv'
  BY DEF FbConfigured, BookInv, TypeOK, book, hw, At, Goto, NextDisplay
<1>4. HeldInv'
  BY DEF FbConfigured, HeldInv, TypeOK, Drawn, PipesOf, book, hw, At, Goto,
     NextDisplay
<1> QED
  BY <1>1, <1>2, <1>3, <1>4

(* No layer has been drawn before all of them have a pipe.                 *)
LEMMA LayersAllocatedPreserves ==
  ASSUME IInv, LayersAllocated
  PROVE  IInv'
<1> USE ConstantFacts DEF IInv
<1>1. TypeOK'
  BY DEF LayersAllocated, TypeOK, Steps, book, hw, At, Goto
<1>2. WrapperMatchesBook'
  BY DEF LayersAllocated, WrapperMatchesBook, book, hw, At, Goto
<1>3. BookInv'
  BY DEF LayersAllocated, BookInv, TypeOK, book, hw, At, Goto
<1>4. HeldInv'
  BY DEF LayersAllocated, HeldInv, TypeOK, Drawn, PipesOf, book, hw, At,
     Goto
<1> QED
  BY <1>1, <1>2, <1>3, <1>4

(* A display that is programmed holds only pipes in use.                   *)
LEMMA LayersProgrammedPreserves ==
  ASSUME IInv, LayersProgrammed
  PROVE  IInv'
<1> USE ConstantFacts DEF IInv
<1>1. TypeOK'
  BY DEF LayersProgrammed, TypeOK, Steps, book, hw, At, NextDisplay
<1>2. WrapperMatchesBook'
  BY DEF LayersProgrammed, WrapperMatchesBook, book, hw, At, NextDisplay
<1>3. BookInv'
  BY DEF LayersProgrammed, BookInv, TypeOK, book, hw, At, NextDisplay
<1>4. HeldInv'
  BY DEF LayersProgrammed, HeldInv, TypeOK, Drawn, PipesOf, book, hw, At,
     NextDisplay
<1> QED
  BY <1>1, <1>2, <1>3, <1>4

(* The end of hwc_set leaves the book alone.                               *)
LEMMA SetDonePreserves ==
  ASSUME IInv, SetDone
  PROVE  IInv'
<1> USE ConstantFacts DEF IInv
<1>1. TypeOK'
  BY DEF SetDone, TypeOK, Steps, book, hw, client
<1>2. WrapperMatchesBook'
  BY DEF SetDone, WrapperMatchesBook, book, hw, client
<1>3. BookInv'
  BY DEF SetDone, BookInv, TypeOK, book, hw, client
<1>4. HeldInv'
  BY DEF SetDone, HeldInv, TypeOK, Drawn, PipesOf, book, hw, client
<1> QED
  BY <1>1, <1>2, <1>3, <1>4

(* The collection spares the pipes in use, hence the drawn ones.           *)
LEMMA ConfigDonePreserves ==
  ASSUME IInv, ConfigDone
  PROVE  IInv'
<1> USE ConstantFacts DEF IInv
<1>1. TypeOK'
  BY DEF ConfigDone, TypeOK, Steps, hw, client, CollectUnused, Destroy
<1>2. WrapperMatchesBook'
  BY DEF ConfigDone, WrapperMatchesBook, hw, client, CollectUnused, Destroy
<1>3. BookInv'
  BY DEF ConfigDone, BookInv, TypeOK, hw, client, CollectUnused, Destroy
<1>4. HeldInv'
  <2>1. /\ phase' = "set" /\ turn = -1
        /\ UNCHANGED <<turn, step, pending, failedCommit, mdpDest, fbDest, used, allocated>>
    BY DEF ConfigDone, client
  <2>2. \A p \in used : p \in Pipes /\ mDisplay'[p] = mDisplay[p]
    BY DEF ConfigDone, CollectUnused, Destroy, TypeOK
  <2>3. \A d \in Displays : Drawn(d) \subseteq used /\ Drawn(d) \subseteq PipesOf(d)
    BY DEF HeldInv, ConfigDone
  <2>4. \A d \in Displays : Drawn(d)' = Drawn(d)
    BY <2>1 DEF Drawn
  <2>5. \A d \in Displays : Drawn(d)' \subseteq PipesOf(d)'
    BY <2>2, <2>3, <2>4 DEF PipesOf
  <2> QED
    BY <2>1, <2>3, <2>4, <2>5 DEF HeldInv
<1> QED
  BY <1>1, <1>2, <1>3, <1>4

(* A blank empties the book between two rounds.                            *)
LEMMA BlankPreserves ==
  ASSUME IInv, Blank
  PROVE  IInv'
<1> USE ConstantFacts DEF IInv
<1>1. TypeOK'
  BY DEF Blank, TypeOK, Steps, hw, client, CollectUnused, Destroy
<1>2. WrapperMatchesBook'
  BY DEF Blank, WrapperMatchesBook, hw, client, CollectUnused, Destroy
<1>3. BookInv'
  BY DEF Blank, BookInv, TypeOK, hw, client, CollectUnused, Destroy
<1>4. HeldInv'
  BY DEF Blank, HeldInv, TypeOK, Drawn, PipesOf, hw, client, CollectUnused,
     Destroy
<1> QED
  BY <1>1, <1>2, <1>3, <1>4

(* The pipe of the FB becomes a pipe of the display.                       *)
LEMMA FbGetPipePreserves ==
  ASSUME IInv, FbGetPipe
  PROVE  IInv'
<1> USE ConstantFacts DEF IInv
<1>1. TypeOK'
  BY FbPipeGrants DEF FbGetPipe, TypeOK, Steps, hw, At, Goto, Grant, valid
<1>2. WrapperMatchesBook'
  BY FbPipeGrants DEF FbGetPipe, WrapperMatchesBook, TypeOK, hw, At, Goto,
     Grant, valid
<1>3. BookInv'
  BY FbPipeGrants DEF FbGetPipe, BookInv, TypeOK, hw, At, Goto, Grant, valid
<1>4. HeldInv'
  <2> DEFINE q == PipeForFb
  <2>1. q \in Pipes /\ mDisplay[q] \in {turn, DPY_UNUSED} /\ turn \in Displays
    BY FbPipeGrants DEF FbGetPipe, At
  <2>2. /\ mDisplay' = [mDisplay EXCEPT ![q] = turn] /\ pending' = pending \cup {q}
        /\ allocated' = allocated \cup {q}
        /\ UNCHANGED <<used, phase, turn, failedCommit, mdpDest, fbDest>>
    BY DEF FbGetPipe, Grant, Goto
  <2>3. step' \in {"fbAlloc", "fbCommit", "alloc"} /\ (step' = "alloc" <=> step = "alloc")
    BY DEF FbGetPipe, At, Goto
  <2> HIDE DEF q
  <2>4. \A d \in Displays : Drawn(d)' = Drawn(d)
    BY <2>2 DEF Drawn
  <2>5. \A d \in Displays : PipesOf(d) \subseteq PipesOf(d)'
    BY <2>1, <2>2, ConstantFacts DEF PipesOf, TypeOK
  <2>6. q \in PipesOf(turn)'
    BY <2>1, <2>2 DEF PipesOf, TypeOK
  <2>7. step \in {"fbAlloc", "alloc"} /\ phase = "config" /\ step # "begin"
    BY DEF FbGetPipe, At
  <2> QED
    BY ZenonT(40), <2>1, <2>2, <2>3, <2>4, <2>5, <2>6, <2>7 DEF HeldInv
<1> QED
  BY <1>1, <1>2, <1>3, <1>4

(* The pipe of a layer becomes a pipe of the display.                      *)
LEMMA AllocLayerPipePreserves ==
  ASSUME IInv, NEW type, AllocLayerPipe(type)
  PROVE  IInv'
<1> USE ConstantFacts DEF IInv
<1>1. TypeOK'
  BY MdpPipeGrants DEF AllocLayerPipe, TypeOK, Steps, hw, At, Grant, valid
<1>2. WrapperMatchesBook'
  BY MdpPipeGrants DEF AllocLayerPipe, WrapperMatchesBook, TypeOK, hw, At,
     Grant, valid
<1>3. BookInv'
  BY MdpPipeGrants DEF AllocLayerPipe, BookInv, TypeOK, hw, At, Grant, valid
<1>4. HeldInv'
  <2> DEFINE q == MdpPipe(type)
  <2>1. q \in Pipes /\ mDisplay[q] \in {turn, DPY_UNUSED} /\ turn \in Displays
    BY MdpPipeGrants DEF AllocLayerPipe, At
  <2>2. /\ mDisplay' = [mDisplay EXCEPT ![q] = turn] /\ pending' = pending \cup {q}
        /\ allocated' = allocated \cup {q}
        /\ UNCHANGED <<used, phase, turn, failedCommit, mdpDest, fbDest>>
    BY DEF AllocLayerPipe, Grant, Goto
  <2>3. step' \in {"fbAlloc", "fbCommit", "alloc"} /\ (step' = "alloc" <=> step = "alloc")
    BY DEF AllocLayerPipe, At, Goto
  <2> HIDE DEF q
  <2>4. \A d \in Displays : Drawn(d)' = Drawn(d)
    BY <2>2 DEF Drawn
  <2>5. \A d \in Displays : PipesOf(d) \subseteq PipesOf(d)'
    BY <2>1, <2>2, ConstantFacts DEF PipesOf, TypeOK
  <2>6. q \in PipesOf(turn)'
    BY <2>1, <2>2 DEF PipesOf, TypeOK
  <2>7. step \in {"fbAlloc", "alloc"} /\ phase = "config" /\ step # "begin"
    BY DEF AllocLayerPipe, At
  <2> QED
    BY <2>1, <2>2, <2>3, <2>4, <2>5, <2>6, <2>7 DEF HeldInv
<1> QED
  BY <1>1, <1>2, <1>3, <1>4

(* A display whose FB gets no pipe keeps nothing it composed.              *)
LEMMA FbNoPipePreserves ==
  ASSUME IInv, FbNoPipe
  PROVE  IInv'
<1> USE ConstantFacts DEF IInv
<1>1. TypeOK'
  BY DEF FbNoPipe, TypeOK, Steps, hw, At, Goto, NextDisplay, Clear,
     FallBack, FbUpdateFailed
<1>2. WrapperMatchesBook'
  BY DEF FbNoPipe, WrapperMatchesBook, hw, At, Goto, NextDisplay, Clear,
     FallBack, FbUpdateFailed
<1>3. BookInv'
  BY DEF FbNoPipe, BookInv, TypeOK, hw, At, Goto, NextDisplay, Clear,
     FallBack, FbUpdateFailed
<1>4. HeldInv'
  BY DEF FbNoPipe, HeldInv, TypeOK, Drawn, PipesOf, hw, At, Goto,
     NextDisplay, Clear, FallBack, FbUpdateFailed
<1> QED
  BY <1>1, <1>2, <1>3, <1>4

(* A display whose FB gets no rotator keeps nothing it composed.           *)
LEMMA FbNoRotatorPreserves ==
  ASSUME IInv, FbNoRotator
  PROVE  IInv'
<1> USE ConstantFacts DEF IInv
<1>1. TypeOK'
  BY DEF FbNoRotator, TypeOK, Steps, hw, At, Goto, NextDisplay, Clear,
     FallBack, FbUpdateFailed
<1>2. WrapperMatchesBook'
  BY DEF FbNoRotator, WrapperMatchesBook, hw, At, Goto, NextDisplay, Clear,
     FallBack, FbUpdateFailed
<1>3. BookInv'
  BY DEF FbNoRotator, BookInv, TypeOK, hw, At, Goto, NextDisplay, Clear,
     FallBack, FbUpdateFailed
<1>4. HeldInv'
  BY DEF FbNoRotator, HeldInv, TypeOK, Drawn, PipesOf, hw, At, Goto,
     NextDisplay, Clear, FallBack, FbUpdateFailed
<1> QED
  BY <1>1, <1>2, <1>3, <1>4

(* A display whose FB fails to commit keeps nothing it composed.           *)
LEMMA FbNotConfiguredPreserves ==
  ASSUME IInv, FbNotConfigured
  PROVE  IInv'
<1> USE ConstantFacts DEF IInv
<1>1. TypeOK'
  BY DEF FbNotConfigured, TypeOK, Steps, hw, At, Goto, NextDisplay, Clear,
     FallBack, FbUpdateFailed
<1>2. WrapperMatchesBook'
  BY DEF FbNotConfigured, WrapperMatchesBook, hw, At, Goto, NextDisplay,
     Clear, FallBack, FbUpdateFailed
<1>3. BookInv'
  BY DEF FbNotConfigured, BookInv, TypeOK, hw, At, Goto, NextDisplay, Clear,
     FallBack, FbUpdateFailed
<1>4. HeldInv'
  <2>1. CASE fallback
    <3>1. /\ turn \in Displays /\ phase = "config" /\ step = "fbDone"
          /\ turn' = turn - 1 /\ step' = "begin" /\ fbDest' = [fbDest EXCEPT ![turn] = {}]
          /\ UNCHANGED <<phase, mDisplay, used, allocated, failedCommit, mdpDest>>
      BY <2>1 DEF FbNotConfigured, FbUpdateFailed, NextDisplay, At
    <3>2. mdpDest[turn] = {}
      BY <3>1 DEF HeldInv
    <3>3. \A d \in Displays : Drawn(d)' = IF d = turn THEN {} ELSE Drawn(d)
      BY <3>1, <3>2 DEF Drawn, TypeOK
    <3>4. \A d \in Displays : PipesOf(d)' = PipesOf(d)
      BY <3>1 DEF PipesOf
    <3> QED
      BY <3>1, <3>3, <3>4 DEF HeldInv, Displays
  <2>2. CASE ~fallback
    BY <2>2 DEF FbNotConfigured, FbUpdateFailed, FallBack, Clear, Goto, At, HeldInv,
       TypeOK, Drawn, PipesOf
  <2> QED
    BY <2>1, <2>2
<1> QED
  BY <1>1, <1>2, <1>3, <1>4

(* A layer that cannot be configured costs its display the round.          *)
LEMMA LayerNotConfigurablePreserves ==
  ASSUME IInv, LayerNotConfigurable
  PROVE  IInv'
<1> USE ConstantFacts DEF IInv
<1>1. TypeOK'
  BY DEF LayerNotConfigurable, TypeOK, Steps, hw, At, Goto, Clear, FallBack
<1>2. WrapperMatchesBook'
  BY DEF LayerNotConfigurable, WrapperMatchesBook, hw, At, Goto, Clear,
     FallBack
<1>3. BookInv'
  BY DEF LayerNotConfigurable, BookInv, TypeOK, hw, At, Goto, Clear,
     FallBack
<1>4. HeldInv'
  BY DEF LayerNotConfigurable, HeldInv, TypeOK, Drawn, PipesOf, hw, At,
     Goto, Clear, FallBack
<1> QED
  BY <1>1, <1>2, <1>3, <1>4

(* A layer without a pipe costs its display what it composed.              *)
LEMMA NoLayerPipePreserves ==
  ASSUME IInv, NEW type, NoLayerPipe(type)
  PROVE  IInv'
<1> USE ConstantFacts DEF IInv
<1>1. TypeOK'
  BY DEF NoLayerPipe, TypeOK, Steps, hw, At, Goto, Clear, FallBack
<1>2. WrapperMatchesBook'
  BY DEF NoLayerPipe, WrapperMatchesBook, hw, At, Goto, Clear, FallBack
<1>3. BookInv'
  BY DEF NoLayerPipe, BookInv, TypeOK, hw, At, Goto, Clear, FallBack
<1>4. HeldInv'
  BY DEF NoLayerPipe, HeldInv, TypeOK, Drawn, PipesOf, hw, At, Goto, Clear,
     FallBack
<1> QED
  BY <1>1, <1>2, <1>3, <1>4

(* A pipe that is acquired and not programmed is not drawn.                *)
LEMMA SkipFbLayerPreserves ==
  ASSUME IInv, NEW p \in Pipes, SkipFbLayer(p)
  PROVE  IInv'
<1> USE ConstantFacts DEF IInv
<1>1. TypeOK'
  BY DEF SkipFbLayer, TypeOK, Steps, book, hw, At
<1>2. WrapperMatchesBook'
  BY DEF SkipFbLayer, WrapperMatchesBook, book, hw, At
<1>3. BookInv'
  BY DEF SkipFbLayer, BookInv, TypeOK, book, hw, At
<1>4. HeldInv'
  BY DEF SkipFbLayer, HeldInv, TypeOK, Drawn, PipesOf, book, hw, At
<1> QED
  BY <1>1, <1>2, <1>3, <1>4

(* A commit that passes puts a pipe of the display in use.                 *)
LEMMA ProgramLayerPreserves ==
  ASSUME IInv, NEW p \in Pipes, ProgramLayer(p)
  PROVE  IInv'
<1> USE ConstantFacts DEF IInv
<1>0. turn \in Displays /\ p \in pending /\ mDisplay[p] = turn
  BY DEF ProgramLayer, At, HeldInv, PipesOf
<1>1. TypeOK'
  BY DEF ProgramLayer, TypeOK, Steps, At, CommitPasses
<1>2. WrapperMatchesBook'
  BY DEF ProgramLayer, WrapperMatchesBook, At, CommitPasses
<1>3. BookInv'
  BY <1>0 DEF ProgramLayer, BookInv, TypeOK, At, CommitPasses
<1>4. HeldInv'
  BY DEF ProgramLayer, HeldInv, TypeOK, Drawn, PipesOf, At, CommitPasses
<1> QED
  BY <1>1, <1>2, <1>3, <1>4

(* A commit that fails closes the pipe it takes out of use.                *)
LEMMA ProgramLayerFailsPreserves ==
  ASSUME IInv, NEW p \in Pipes, ProgramLayerFails(p)
  PROVE  IInv'
<1> USE ConstantFacts DEF IInv
<1>0. turn \in Displays /\ p \in pending /\ mDisplay[p] = turn
  BY DEF ProgramLayerFails, At, HeldInv, PipesOf
<1>1. TypeOK'
  BY DEF ProgramLayerFails, TypeOK, Steps, At, Goto, Clear, FallBack,
     CommitFails
<1>2. WrapperMatchesBook'
  BY DEF ProgramLayerFails, WrapperMatchesBook, At, Goto, Clear, FallBack,
     CommitFails
<1>3. BookInv'
  BY <1>0 DEF ProgramLayerFails, BookInv, TypeOK, PipesOf, At, Goto, Clear, FallBack,
     CommitFails
<1>4. HeldInv'
  BY DEF ProgramLayerFails, HeldInv, TypeOK, Drawn, PipesOf, At, Goto,
     Clear, FallBack, CommitFails
<1> QED
  BY <1>1, <1>2, <1>3, <1>4

(* A commit of the FB; draw has the pipe whatever the commit returns.      *)
LEMMA FbCommitPreserves ==
  ASSUME IInv, NEW p \in Pipes, FbCommit(p)
  PROVE  IInv'
<1> USE ConstantFacts DEF IInv
<1>0. turn \in Displays /\ p \in pending /\ mDisplay[p] = turn
  BY DEF FbCommit, At, HeldInv, PipesOf
<1>1. TypeOK'
  BY DEF FbCommit, TypeOK, Steps, At, Goto, Clear, CommitFails, CommitPasses
<1>2. WrapperMatchesBook'
  BY DEF FbCommit, WrapperMatchesBook, At, Goto, Clear, CommitFails,
     CommitPasses
<1>3. BookInv'
  BY <1>0 DEF FbCommit, BookInv, TypeOK, PipesOf, At, Goto, Clear, CommitFails,
     CommitPasses
<1>4. HeldInv'
  BY DEF FbCommit, HeldInv, TypeOK, Drawn, PipesOf, At, Goto, Clear,
     CommitFails, CommitPasses
<1> QED
  BY <1>1, <1>2, <1>3, <1>4

(* Only a pipe in use starts to play.                                      *)
LEMMA QueueBufferPreserves ==
  ASSUME IInv, NEW d \in Displays, NEW p \in Pipes, QueueBuffer(d, p)
  PROVE  IInv'
<1> USE ConstantFacts DEF IInv
<1>1. TypeOK'
  BY DEF QueueBuffer, TypeOK, Steps, book, client, QueueAsserts
<1>2. WrapperMatchesBook'
  BY DEF QueueBuffer, WrapperMatchesBook, book, client, QueueAsserts
<1>3. BookInv'
  BY DEF QueueBuffer, BookInv, TypeOK, book, client, QueueAsserts
<1>4. HeldInv'
  BY DEF QueueBuffer, HeldInv, TypeOK, Drawn, PipesOf, book, client,
     QueueAsserts
<1> QED
  BY <1>1, <1>2, <1>3, <1>4

-----------------------------------------------------------------------------
(* A step that changes nothing preserves the inductive invariant.          *)
LEMMA StutterPreserves ==
  ASSUME IInv, UNCHANGED vars
  PROVE  IInv'
BY DEF IInv, TypeOK, WrapperMatchesBook, BookInv, HeldInv, Drawn, PipesOf,
   vars, book, hw, client

(* Every step of the draw round preserves the inductive invariant.         *)
LEMMA NextPreserves ==
  ASSUME IInv, [Next]_vars
  PROVE  IInv'
<1>1. CASE ConfigBegin \/ SkipDisplay \/ ChooseComposition
  BY <1>1, ConfigBeginPreserves, SkipDisplayPreserves, ChooseCompositionPreserves
<1>2. CASE FbGetPipe \/ FbNoPipe \/ FbNoRotator \/ FbConfigured \/ FbNotConfigured
  BY <1>2, FbGetPipePreserves, FbNoPipePreserves, FbNoRotatorPreserves,
     FbConfiguredPreserves, FbNotConfiguredPreserves
<1>3. CASE \E p \in Pipes : FbCommit(p)
  BY <1>3, FbCommitPreserves
<1>4. CASE \E type \in {"DMA", "ANY", "VG"} : AllocLayerPipe(type) \/ NoLayerPipe(type)
  BY <1>4, AllocLayerPipePreserves, NoLayerPipePreserves
<1>5. CASE \E p \in Pipes : ProgramLayer(p) \/ ProgramLayerFails(p) \/ SkipFbLayer(p)
  BY <1>5, ProgramLayerPreserves, ProgramLayerFailsPreserves, SkipFbLayerPreserves
<1>6. CASE LayersAllocated \/ LayerNotConfigurable \/ LayersProgrammed
  BY <1>6, LayersAllocatedPreserves, LayerNotConfigurablePreserves,
     LayersProgrammedPreserves
<1>7. CASE ConfigDone \/ SetDone \/ Blank
  BY <1>7, ConfigDonePreserves, SetDonePreserves, BlankPreserves
<1>8. CASE \E d \in Displays, p \in Pipes : QueueBuffer(d, p)
  BY <1>8, QueueBufferPreserves
<1>9. CASE UNCHANGED vars
  BY <1>9, StutterPreserves
<1> QED
  BY <1>1, <1>2, <1>3, <1>4, <1>5, <1>6, <1>7, <1>8, <1>9 DEF Next

(* The inductive invariant holds in every round: pipes, bitmaps and the    *)
(* compositions of the displays stay consistent through every failure.     *)
THEOREM InductiveInvariant == Spec => []IInv
<1>1. Init => IInv
  BY InitIInv
<1>2. IInv /\ [Next]_vars => IInv'
  BY NextPreserves
<1> QED
  BY <1>1, <1>2, PTL DEF Spec

(* The variables keep their types.                                         *)
THEOREM TypeCorrect == Spec => []TypeOK
<1>1. IInv => TypeOK
  BY DEF IInv
<1> QED
  BY <1>1, InductiveInvariant, PTL

(* The wrapper of a pipe was made for the display the book registers the   *)
(* pipe with.                                                              *)
THEOREM WrapperMatches == Spec => []WrapperMatchesBook
<1>1. IInv => WrapperMatchesBook
  BY DEF IInv
<1> QED
  BY <1>1, InductiveInvariant, PTL

(* The draws of hwc_set reach no assertion of queueBuffer and no pipe of   *)
(* another display: a drawn pipe is in use, a used pipe is open, an open   *)
(* pipe is set, and a set pipe has a wrapper.                              *)
THEOREM DrawnPipesStayLive == Spec => []DrawnPipesLive
<1>1. IInv => DrawnPipesLive
  <2> SUFFICES ASSUME IInv, phase = "set", NEW d \in Displays, NEW p \in Drawn(d)
               PROVE  QueueAsserts(p) /\ mDisplay[p] = d /\ p \in used
    BY DEF DrawnPipesLive
  <2>1. mDisplay[p] = d /\ p \in used /\ p \in Pipes
    BY ConstantFacts DEF IInv, HeldInv, TypeOK, PipesOf
  <2>2. p \in open \cap isSet /\ mPipe[p] = d
    BY <2>1 DEF IInv, BookInv, WrapperMatchesBook
  <2> QED
    BY <2>1, <2>2, ConstantFacts DEF QueueAsserts, valid
<1> QED
  BY <1>1, InductiveInvariant, PTL

(* A pipe that is part of a composition of the round is never the answer   *)
(* to a request for another: the pipes of the displays already prepared    *)
(* are registered with them, and those of the display at hand are still    *)
(* allocated while it asks.                                                *)
THEOREM FreshPipes == Spec => []NextPipeIsFresh
<1>1. IInv => NextPipeIsFresh
  <2> SUFFICES ASSUME IInv, phase = "config", turn \in Displays,
                      step \in {"fbAlloc", "alloc"}, NEW type \in PipeTypes
               PROVE  NextPipe(type, turn) \notin DrawnPipes \cup pending
    BY DEF NextPipeIsFresh
  <2>1. DrawnPipes \cup pending \subseteq Pipes
    BY DEF DrawnPipes, Drawn, IInv, TypeOK
  <2>2. CASE NextPipe(type, turn) = OV_INVALID
    BY <2>1, <2>2, ConstantFacts
  <2>3. CASE NextPipe(type, turn) # OV_INVALID
    <3> DEFINE q == NextPipe(type, turn)
    <3>1. q \notin allocated /\ mDisplay[q] \in {turn, DPY_UNUSED}
      BY <2>3, NextPipeGrants DEF IInv
    <3>2. \A d \in Displays \ {turn} : q \notin Drawn(d)
      BY <3>1, ConstantFacts DEF IInv, HeldInv, PipesOf
    <3>3. ~failedCommit
      BY DEF IInv, HeldInv
    <3>4. q \notin Drawn(turn) \cup pending
      BY <3>1, <3>3 DEF IInv, HeldInv
    <3> QED
      BY <3>2, <3>4 DEF DrawnPipes
  <2> QED
    BY <2>2, <2>3
<1> QED
  BY <1>1, InductiveInvariant, PTL

(* Outside the configuration of a round only pipes used in the last round  *)
(* scan out.                                                               *)
THEOREM StaleScanout == Spec => []NoStaleScanout
<1>1. IInv => NoStaleScanout
  BY DEF IInv, BookInv, NoStaleScanout
<1> QED
  BY <1>1, InductiveInvariant, PTL

(* A pipe loses its use in a round only while its own display is prepared: *)
(* each rollback clears the pipes of the display at hand, and the pipe of  *)
(* a failed commit is one it acquired.                                     *)
THEOREM LocalFailures == Spec => FailuresStayLocal
<1> DEFINE Local == phase = "config" => \A p \in used \ used' : mDisplay[p] = turn
<1>1. ASSUME IInv, Next PROVE Local
  <2>1. CASE UNCHANGED used
    BY <2>1
  <2>2. CASE Clear(turn)
    BY <1>1, <2>2 DEF Clear, PipesOf, IInv, TypeOK
  <2>3. ASSUME NEW p \in pending, CommitFails(p), At("program") \/ At("fbCommit")
        PROVE  Local
    BY <1>1, <2>3 DEF CommitFails, Clear, PipesOf, At, IInv, TypeOK, HeldInv
  <2>4. ASSUME NEW p \in pending, CommitPasses(p) PROVE Local
    BY <2>4 DEF CommitPasses
  <2>5. CASE FbNoPipe \/ FbNoRotator \/ FbNotConfigured
    BY <2>1, <2>2, <2>5 DEF FbNoPipe, FbNoRotator, FbNotConfigured
  <2>6. CASE \E p \in Pipes : FbCommit(p)
    BY <2>3, <2>4, <2>6 DEF FbCommit
  <2>7. CASE \E type \in {"DMA", "ANY", "VG"} : AllocLayerPipe(type) \/ NoLayerPipe(type)
    BY <2>1, <2>2, <2>7 DEF AllocLayerPipe, Grant, NoLayerPipe
  <2>8. CASE \E p \in Pipes : ProgramLayer(p) \/ ProgramLayerFails(p) \/ SkipFbLayer(p)
    BY <2>1, <2>3, <2>4, <2>8 DEF ProgramLayer, ProgramLayerFails, SkipFbLayer, book
  <2>9. CASE \/ SkipDisplay \/ ChooseComposition \/ FbGetPipe \/ FbConfigured
             \/ LayersAllocated \/ LayersProgrammed \/ SetDone \/ ConfigDone
             \/ \E d \in Displays, p \in Pipes : QueueBuffer(d, p)
    BY <2>1, <2>9 DEF SkipDisplay, ChooseComposition, FbGetPipe, Grant, FbConfigured,
       LayersAllocated, LayersProgrammed, SetDone, ConfigDone, QueueBuffer, book
  <2>10. CASE LayerNotConfigurable
    BY <2>2, <2>10 DEF LayerNotConfigurable
  <2>11. CASE ConfigBegin \/ Blank
    BY <2>11 DEF ConfigBegin, Blank
  <2> QED
    BY <1>1, <2>5, <2>6, <2>7, <2>8, <2>9, <2>10, <2>11 DEF Next
<1>2. IInv /\ [Next]_vars => [Local]_vars
  BY <1>1
<1> HIDE DEF Local
<1>3. Spec => [][Local]_vars
  BY <1>2, InductiveInvariant, PTL DEF Spec
<1> QED
  BY <1>3 DEF FailuresStayLocal, Local

-----------------------------------------------------------------------------
(* The refinement: what each kind of step is to the promise of the book.   *)

(* A step that touches no registration, no id and no scanout is a stutter. *)
LEMMA BitsStutter ==
  ASSUME UNCHANGED <<mPipe, mDisplay, isSet, playing>>
  PROVE  UNCHANGED Ownership!ovars
BY DEF Ownership!ovars

(* nextPipe acquires an unused pipe, or returns one the display owns.      *)
LEMMA GrantAcquires ==
  ASSUME IInv, turn \in Displays, NEW q \in Pipes,
         mDisplay[q] \in {turn, DPY_UNUSED}, Grant(q, turn), UNCHANGED hw
  PROVE  [Ownership!Next]_Ownership!ovars
<1>1. CASE mDisplay[q] = turn
  BY <1>1, BitsStutter, ConstantFacts
     DEF IInv, TypeOK, WrapperMatchesBook, Grant, valid, hw
<1>2. CASE mDisplay[q] = DPY_UNUSED
  <2>1. q \notin isSet
    BY <1>2 DEF IInv, BookInv
  <2>2. \A p \in Pipes : p # q => mPipe'[p] = mPipe[p]
    BY DEF Grant, IInv, TypeOK
  <2>3. Ownership!Acquire(q, turn)
    BY <1>2, <2>1, <2>2 DEF Ownership!Acquire, Grant, hw
  <2> QED
    BY <2>3 DEF Ownership!Next
<1> QED
  BY <1>1, <1>2

(* A commit that passes stages the pipe on the mixer of its owner.         *)
LEMMA CommitStages ==
  ASSUME IInv, turn \in Displays, NEW p \in Pipes, mDisplay[p] = turn, CommitPasses(p)
  PROVE  [Ownership!Next]_Ownership!ovars
<1>1. Ownership!Stage(p)
  BY ConstantFacts
     DEF Ownership!Stage, CommitPasses, IInv, WrapperMatchesBook
<1> QED
  BY <1>1 DEF Ownership!Next

(* The collection of unused pipes releases them, if it collects at all.    *)
LEMMA CollectReleases ==
  ASSUME IInv, NEW U, CollectUnused(U)
  PROVE  [Ownership!Next]_Ownership!ovars
<1>1. CASE U = lastUsed
  BY <1>1, BitsStutter DEF CollectUnused, hw
<1>2. CASE U # lastUsed
  <2>1. Ownership!Release(Pipes \ U)
    BY <1>2 DEF CollectUnused, Destroy, Ownership!Release, IInv, TypeOK
  <2> QED
    BY <2>1 DEF Ownership!Next
<1> QED
  BY <1>1, <1>2

(* The draw round implements the promise of the pipe book.                 *)
THEOREM OverlayImplementsOwnership == Spec => ImplementsOwnership
<1>1. Init => Ownership!Init
  BY DEF Init, Ownership!Init
<1>2. ASSUME IInv, [Next]_vars PROVE [Ownership!Next]_Ownership!ovars
  <2>1. CASE UNCHANGED vars
    BY <2>1, BitsStutter DEF vars, book, hw
  <2>2. CASE FbGetPipe
    BY <1>2, <2>2, FbPipeGrants, GrantAcquires DEF FbGetPipe, At, IInv
  <2>3. CASE \E type \in {"DMA", "ANY", "VG"} : AllocLayerPipe(type)
    BY <1>2, <2>3, MdpPipeGrants, GrantAcquires DEF AllocLayerPipe, At, IInv
  <2>4. CASE \E p \in Pipes : FbCommit(p)
    <3> SUFFICES ASSUME NEW p \in Pipes, FbCommit(p)
                 PROVE  [Ownership!Next]_Ownership!ovars
      BY <2>4
    <3>1. turn \in Displays /\ mDisplay[p] = turn
      BY <1>2 DEF FbCommit, At, IInv, HeldInv, PipesOf
    <3>2. CASE CommitPasses(p)
      BY <1>2, <3>1, <3>2, CommitStages
    <3>3. CASE CommitFails(p)
      BY <3>3, BitsStutter DEF CommitFails
    <3> QED
      BY <3>2, <3>3 DEF FbCommit
  <2>5. CASE \E p \in Pipes : ProgramLayer(p)
    BY <1>2, <2>5, CommitStages DEF ProgramLayer, At, IInv, HeldInv, PipesOf
  <2>6. CASE \E p \in Pipes : ProgramLayerFails(p)
    BY <2>6, BitsStutter DEF ProgramLayerFails, CommitFails
  <2>7. CASE ConfigDone \/ Blank
    BY <1>2, <2>7, CollectReleases DEF ConfigDone, Blank
  <2>8. CASE \E d \in Displays, p \in Pipes : QueueBuffer(d, p)
    <3> SUFFICES ASSUME NEW d \in Displays, NEW p \in Pipes, QueueBuffer(d, p)
                 PROVE  [Ownership!Next]_Ownership!ovars
      BY <2>8
    <3>1. p \in isSet /\ mPipe[p] # DPY_UNUSED
      BY DEF QueueBuffer, QueueAsserts, valid
    <3>2. Ownership!Play(p)
      BY <3>1 DEF QueueBuffer, Ownership!Play, book
    <3> QED
      BY <3>2 DEF Ownership!Next
  <2>9. CASE \/ ConfigBegin \/ SkipDisplay \/ ChooseComposition \/ FbNoPipe
             \/ FbNoRotator \/ FbConfigured \/ FbNotConfigured
    BY <2>9, BitsStutter DEF ConfigBegin, SkipDisplay, ChooseComposition, FbNoPipe,
       FbNoRotator, FbConfigured, FbNotConfigured, book, hw
  <2>10. CASE \/ \E type \in {"DMA", "ANY", "VG"} : NoLayerPipe(type)
              \/ \E p \in Pipes : SkipFbLayer(p)
              \/ LayersAllocated \/ LayerNotConfigurable \/ LayersProgrammed \/ SetDone
    BY <2>10, BitsStutter DEF NoLayerPipe, SkipFbLayer, LayersAllocated,
       LayerNotConfigurable, LayersProgrammed, SetDone, book, hw
  <2> QED
    BY <1>2, <2>1, <2>2, <2>3, <2>4, <2>5, <2>6, <2>7, <2>8, <2>9, <2>10 DEF Next
<1> QED
  BY <1>1, <1>2, InductiveInvariant, PTL DEF Spec, ImplementsOwnership, Ownership!Spec

=============================================================================
