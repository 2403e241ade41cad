# A verification of the Qualcomm display HAL

TLA+ models of the display hardware abstraction of this repository, TLC runs
that check them on small instances, and TLAPS proofs for every instance.
Line numbers refer to the files under `src/`.

## 1. The system

Two threads do the work. SurfaceFlinger calls `hwc_prepare`, which decides for
every display which layers go to hardware pipes (MDP) and which are composed by
the GPU into the framebuffer, and `hwc_set`, which queues the buffers and commits
the display. The uevent thread handles hotplug of the external (HDMI) and virtual
(WFD) display. Both work on one `hwc_context_t` under `mDrawLock`, which is held
from `hwc_prepare` to the end of `hwc_set`. Around them are a vsync thread, an
idle timer thread, binder threads of the display service, and the C2D wait thread.

| Component | State | Operations | Hard because | Correct if |
|---|---|---|---|---|
| Pipe book: `overlay::Overlay`, `GenericPipe`, `MdpCtrl` (liboverlay) | per pipe: wrapper, display, kernel id; three bitmaps: used now, used in the last round, handed out | `configBegin`, `nextPipe`, `commit`, `clear`, `configDone`, `queueBuffer` | displays compete for the pipes in one round; a failed commit takes back the pipes of its display; the collection is skipped when the bitmaps are equal | a pipe changes display only after an UNSET; what a display composed is there when it draws; nothing given up scans out |
| Draw cycle: `hwc_prepare`, `hwc_set`, `hwc_blank`, panel reset (libhwcomposer/hwc.cpp) | `dpyAttr`, `mPanelResetStatus`, per-display objects | prepare, set, blank, unblank, reset | the lock is held across two calls; blanking and resets come in between | a cycle draws the displays it composed |
| Uevent thread (hwc_uevents.cpp, `Locker` of gr.h) | `connected`, `isActive`, `isPause`, `isConfiguring`, `mVirtualonExtActive` | OFFLINE, ONLINE, PAUSE, RESUME, panel dead | waits for "a composition cycle" on a condition variable without a predicate | a whole cycle passes over the change; the wait ends; the framebuffer is closed after the pipes are unset |
| `FBUpdate` (hwc_fbupdate.cpp) | pipe(s) of the framebuffer, `mModeOn`, `mRot` | prepare, draw | two mixers: one commit may fail without the other | as the pipe book |
| `MDPComp` (hwc_mdpcomp.cpp) | current frame, cached frame, layer-to-pipe map, `sIdleFallBack` | prepare, draw, timeout | batching, layer cache, pipe count against what is acquired | counts and flags agree; a cached framebuffer shows current layers |
| A-family rotator: `MdpRot`, `RotMem` (liboverlay) | two memories of two slots, a release fence per slot | commit, `setReleaseFd`, remap, queueBuffer, close | fence and slot are chosen in different calls; memory changes while it is shown | a slot is not written while the display reads it |
| `RotMgr`, `LayerRotMap` | three sessions, a use count, a layer-to-session map per display | getNext, add, clear, configDone | shared by displays, stack-like use count | a session serves one layer of one display in a round |
| `hwc_sync` (hwc_utils.cpp) | file descriptors of fences | accumulate, distribute, dup, close | each descriptor has one owner | closed once, given to SurfaceFlinger or kept |
| Copybit in the hwc, libcopybit | ring of render buffers and fences; C2D surfaces, counts, mappings, wait thread | prepare, draw, flush, clean-up thread | the wait thread cleans up for whichever blits came last | a buffer is rendered to when its reader is done; mappings are freed once |
| Vsync (hwc_vsync.cpp) | `vstate.enable`, `fakevsync` | control, loop | control does not share the lock with blank | vsync is on exactly when asked for |
| Idle invalidator (libqdutils) | `mSleepAgain`, thread running | markForSleep, threadLoop | flag without lock, thread may be ending | an idle period after a draw raises the timeout |
| External display (libexternal), virtual display (libvirtual) | framebuffer fd, mode, EDID modes | configure, teardown, mode selection | result of configure ignored | a display announced is open |
| Display service (libqservice, hwc_qclient.cpp) | `mSecuring`, `mSecureMode`, orientation, view frames | binder calls | some setters take the lock, some do not | securing pauses MDP in time |
| Gralloc, genlock | buffer handles: base, fd, flags, lock fd | alloc, free, map, lock, unlock | mapping test outside the lock; error paths | mapped once, every fd closed |
| libqdutils queries, overlay utilities, lights, memtrack, tile renderer, layer dumps | none shared | pure functions, input and output | – | – |

`PROJECT.json` lists each with its status, and under `hazards` each place where
this code is hard to test.

## 2. Modules

| Module | What it is |
|---|---|
| `PipeOwnership` | what the pipe book promises: a pipe is acquired, staged on its owner's mixer, played, released with an unset |
| `Overlay` | the pipe book and the draw round that drives it, as one thread |
| `MCOverlay` | values of its constants for TLC |
| `OverlayProofs` | theorems about `Overlay`, one of them that it implements `PipeOwnership` |
| `DrawCycle` | SurfaceFlinger's cycles and the uevent thread around `mDrawLock` |
| `DrawCycleProofs` | theorems about `DrawCycle` |
| `DisplayControl` | what runs beside the cycle: idle invalidator, panel reset, vsync |
| `FrameComp` | which layers MDPComp composes on pipes, the stages, the layer cache |
| `FrameCompProofs` | theorems about `FrameComp` |
| `LayerGeometry` | the rectangles of hwc_utils and overlay::utils, as operators |
| `ExternalDisplay` | HDMI: modes, timing, attributes, underscan |
| `VirtualDisplay` | WFD: size and attributes; extends `ExternalDisplay` |
| `LayerConfig` | from a layer to its pipes and its rotator session; extends `VirtualDisplay` |
| `MCLayerConfig` | layers, panels, modes for TLC and what of them is explored |
| `LayerConfigProofs` | theorems about `LayerConfig` and the `ExternalDisplay` in it |
| `Rotator`, `RotatorProofs` | one rotator session: memory, slots, fences, and the display that reads them |
| `Copybit`, `MCCopybit` | composition by the 2D core: render buffers, C2D engine, wait thread |
| `CopybitProofs` | theorems about `Copybit` |
| `GrallocFormats` | sizes, strides, planes and heaps of every format, as operators |
| `Gralloc`, `MCGralloc` | a buffer shared by processes; the slots of the framebuffer |
| `GrallocProofs` | theorems about `Gralloc` and `GrallocFormats` |
| `NatFacts` | lemmas about natural numbers that the proofs share: least and greatest members, products, quotients, rounding up |

How they fit. `Overlay` and `DrawCycle` look at one cycle from two sides: `Overlay`
follows every pipe through a round and sees no second thread, since `mDrawLock` is
held; `DrawCycle` sees both threads and reduces a round to the set of displays it
composes, which is what `ConfigDone` of `Overlay` leaves set in the kernel
(`NoStaleScanout`). `FrameComp` is the choice that `Overlay` leaves open (which layers
ask for pipes), and what it may find free is what `Overlay` grants. `LayerConfig`
is what one granted layer is then programmed with; the memory of a session is
`Rotator`'s. The fence `Rotator` and `Copybit` wait for is the one `hwc_sync` hands
out. `DisplayControl` is the threads that set the flags (`sIdleFallBack`,
`mPanelResetStatus`) which `FrameComp` and `DrawCycle` read. `LayerGeometry` takes the
alignments of `GrallocFormats`.

Definitions marked "Faulty" are variants of the definition after them; no
specification uses them. They serve to see that each property notices a bug of
that kind.

### Overlay

`mPipe`, `mDisplay`, `used`, `lastUsed`, `allocated` are the fields and bitmaps of
`PipeBook`; `open` is `GenericPipe::pipeState`; `isSet` is the kernel id of
`MdpCtrl`; `playing` is the hardware. `phase`, `turn`, `step` are the place in
`hwc_prepare` (displays from the last to the primary), `mdpDest` and `fbDest` the
pipes the draws will queue to. A step is one call of the `Overlay`, with what the
caller does about its result: `FbGetPipe`, `FbCommit`, `FbNoPipe`, `FbNoRotator`
are `FBUpdate::configure` for one or two mixers; `AllocLayerPipe`, `NoLayerPipe`,
`ProgramLayer`, `ProgramLayerFails`, `LayerNotConfigurable`, `SkipFbLayer` are
`allocLayerPipes` and `programMDP`; `FallBack` is the failure path of
`MDPComp::prepare`. Which layers MDPComp picks is nondeterministic, hence every
request the real one makes is among those of the model. A commit that passes may
or may not have called the kernel; `forceSet`, which only decides that, is left out.
An `MSMFB_OVERLAY_UNSET` that fails is not modelled.

### DrawCycle

A step of the uevent thread is what it does from taking `mDrawLock` to `wait()` or
`unlock()`; a wait is `ue` at the place after it with `waiting` set. `SfSet`
signals; the woken thread needs the lock again, and SurfaceFlinger may run further
cycles first. `SpuriousWakeup` is a return of `pthread_cond_wait` without a signal;
`spurious` records that one happened, and the properties that hold for a real wait
say `~spurious`: without that `PipesUnset` fails, as no caller of `wait()` looks
again. `invalidated`, `plugged`, `sfExternal` are what SurfaceFlinger has been told
and knows. `primaryMdp` says that the primary's layers are on pipes; frames with a
secure video layer, which `isFrameDoable` lets through, are left out.
PAUSE and RESUME are taken to come from the WFD stack for a session that is
connected, as the stack guarantees an order of its events (hwc_uevents.cpp:274-277).

### Rotator

`curr`, `bufSz`, `mCurrOffset`, `mRelFence` are those of `RotMem`. The display is
counted in frames: `lag` frames are committed and not yet replaced, `busy[m][s]`
says how many must still be replaced until slot `s` of memory `m` is not read, and
a fence is the number of frames until it signals. So a fence is right when it is at
least `busy` of the slot it is kept for. A frame is `Commit` (prepare), `Sync`
(`hwc_sync` and `setReleaseFd`), `QueueBuffer` (rotate, then close the previous memory),
`Play` (the pipe is given the slot), `DisplayCommit`; each may fail, and the frame goes
on to the commit of the display with what the pipe then has (`SkipDraw` is an earlier
layer's draw that failed). `pipe` is what the pipe was last given, a slot or `FREED`
memory; `freed` is `busy` for memory that has been closed. `failures` and `calm` are
history: what has failed, and for how many frames nothing has, nor the size changed.

### DisplayControl

Four threads without a common lock: SurfaceFlinger's main thread (`sf`), its event
control thread (`ec`), the uevent thread (`ue`), the vsync thread (`vs`), and the
invalidator. `Begin`, `PanelBlank` ... `PanelClear`, `Prepare`, `Draw`, `Mark`, `Run`,
`Set` are the places in `hwc_prepare` and `hwc_set` where another thread's write
makes a difference; `frame` says whether layers are on pipes ("full"), or some
although the timeout asked for none ("spared": secure video), or none.
`markForSleep` and `run()` are two steps since `threadLoop` may decide to end in
between; `missed` remembers that `run()` found it ending. `Control` is the ioctl,
`Store` the assignment to `vstate.enable` after it. `vsyncLost` remembers that
SurfaceFlinger blanked with vsync on, or that the ioctl of the panel reset failed.

### FrameComp

Layers are kinds: "rgb", "unfit" (not for a pipe), "yuv", and "rotated" (a video that
needs the rotator). `hit` is the set of layers whose handle the cache holds;
`fresh` is what the cache cannot see: whether the framebuffer still shows the
layer's content. Buffers are recycled, so new content may come with a handle the
cache has. A prepare is one action per path: `PrepareFull`, `PreparePartial`,
`PrepareVideo`, `PrepareAnimating`, `PrepareNotDoable`, `PrepareUnsupported`, each with
`FallBack` for a pipe that cannot be had or programmed. How many pipes are free,
and whether the DMA pipe is in use, is chosen anew each frame.

### LayerGeometry, ExternalDisplay, VirtualDisplay, LayerConfig

One layer per step. `ConfigureVideo`, `ConfigureRGB`, `ConfigureFb` place the layer
(`Place`: trimming, external position, aspect ratio, action-safe area, mirroring), take
a session if it needs one, and record in `shown` what the pipes were told, next to
what the layer asked. `VideoDenied`, `VideoRefused`, `FbRefused`, `PipeRefused` are the
failures, which end in `FallBack`: the display's map is reset and the framebuffer set
up instead. `mRot`, `mUseCount`, `mLayerRotMap` are those of `RotMgr` and `LayerRotMap`.
`QueueBuffer` in `hwc_set` remaps and rotates; `QueueAborts` is its assertion. A
session has the configuration it would tell the driver (`conf`) and the one the
driver took (`kern`). MDP 4 and MDSS differ in the downscale, in what the flags keep,
and in padding. The second display is external or WFD; it comes, goes, and changes
orientation between frames. Ratios the code keeps in floats are exact.

### Copybit

`engine` is the part of `copybit_context_t` a draw uses: blit list, surface counts,
mapped target. A call of the engine holds `wait_cleanup_lock` and is one step, but
for the flush, which hands the lock to the wait thread (`ThreadLocks`,
`ThreadCleans`). The GPU takes `jobs` in order; the display replaces a frame at
`Vsync` when the frame's fence has signalled. The device is of one of two kinds
(`ownBuffers`): after MDP 4.3 CopyBit has render buffers of its own, before it draws
into SurfaceFlinger's framebuffer target. A frame is drawn by copybit (`Prepare`),
refused by it after the buffer was advanced (`PrepareRefused`: then nobody draws that
buffer, or the GPU draws the target), or composed without it (`PrepareWithout`);
`composer` says which. `hwc_sync` gives the fence of each of them to the buffer that is
current. A frame whose every layer failed is shown all the same, and the play of the
framebuffer's pipe may be refused. What SurfaceFlinger's GPU draws into the target is
its own: it respects the target's fences. `spoilt` remembers what the code does
not survive: a call that overtook the wait thread, a failed flush or mapping, a blit
list that filled up within a layer; it is cleared when the engine is clean again.
`raced` remembers a fence that was missing or whose wait of a second lapsed, or a play
that was refused; it is cleared when all that is on the screen has its fence again.

### Gralloc

The kernel's side is counts of descriptors and mappings per process (`fds`, `maps`),
the library's side is `hnd`. An allocation that fails, an mmap that fails, a metadata
buffer that cannot be had are outcomes of the same action. `cache` is whether the CPU's
cache is older or newer than memory. The framebuffer mask is read and stored in two
steps, by allocations under the lock and by frees without it; `fbRaced` remembers
that a store overwrote another.

## 3. What the runs check

| Run | Distinct states | Result |
|---|---|---|
| `pipe_book` | 1.38 million | every property holds |
| `pipe_book_collect` | – | `ConfigDoneCollects` is violated |
| `draw_cycle` | 552 thousand | every property holds |
| `draw_cycle_pending` | – | `PendingIsConnected` is violated |
| `rotator` | 3.4 million | every property holds |
| `rotator_fence` | – | `WritesFreeSlot` is violated |
| `rotator_prev` | – | `PrevIsClosed` is violated |
| `frame_comp` | 178 thousand | every property holds |
| `copybit` | 674 thousand | every property holds |
| `gralloc` | 166 thousand | every property holds |
| `layer_config` | 55 thousand | every property holds |
| `display_control` | 637 thousand | every property holds |

`IInv`, in six of the runs, is the inductive invariant of section 4 (the one of
`Gralloc`, with `FbInv`, was checked the same way on the instance of `gralloc`, and is
not among what that run lists). It contains the type invariant.

**pipe_book.** Two displays, the primary on two mixers; four pipes, two RGB, one VG
and one DMA; up to two pipes for layers. That is enough for every fall-through of
`getMdpPipe`, for a display to run dry in each place, for one mixer to fail and the
other not, and for a pipe to wander between displays. Rounds are unbounded.
`DrawnPipesLive`: what a display composed is still its own, set and open when
`hwc_set` draws, so that no assertion of `queueBuffer` is reached.
`NextPipeIsFresh`: a request cannot be answered with a pipe in use in the round,
also after a rollback. `NoStaleScanout`: outside a configuration only pipes in use
scan out. `FailuresStayLocal`: a rollback costs no other display a pipe.
`WrapperMatchesBook`: the wrapper is made for the display of the book.
`ImplementsOwnership`: refinement of `PipeOwnership`.

**draw_cycle.** The three displays of the code, all events, no bound.
`PipesUnsetOnSignal`, `ClosedOnlyUnstaged`: the commit and the teardown after a wait
come when the pipes are unset. `WaitHasWaker`: no lost wakeup.
`CycleDrawsLiveDisplays`: nothing changes under a cycle. `PaddingRoundFirst`,
`PipesFreed`: a display that comes (back) does not take pipes from the primary's
mixer without a round in between. `UeventReturns`: every event is handled to its end.

*Fairness.* Weak fairness of SurfaceFlinger answering an `invalidate` and finishing
what it began; strong fairness of the uevent thread's continuation. `mDrawLock` is a
plain mutex and promises no order, but SurfaceFlinger is off it from the end of a
cycle to the next vsync, so that a thread that finds it free again and again gets
it. Nothing is assumed of events, blanking or spurious wakeups.

**rotator.** Two sizes; a display that lags up to `MaxLag` = 3 frames, one more than
the slots, so that a slot is due while it is still queued to be shown.
`WritesFreeSlotWhenCalm`: after three frames without failure or change of size the
slot about to be written is free. `WaitsForReplacedFrame`: the wait is never for
the frame on screen. `FreedMemoryLeavesTheScreen`: a change of size frees memory the
display reads, as a FIXME in the code admits (overlayMdpRot.cpp:261), since the old
memory is closed before the pipe has the new slot and before the commit. That a frame
on the screen reads freed memory is therefore a normal state of the model. The
property bounds it: the frame that freed the memory ends on memory that is open,
unless the pipe refused the new slot, and after three calm frames every frame that
showed freed memory has been replaced. `AbortsOnlyOnFailure`: changes of size alone reach no
assertion. Deadlock is not checked, as an assertion that fails aborts.

**frame_comp.** Three layers of the kinds rgb, unfit and rotated, a mixer of three
stages or (the debug property) one, up to three free pipes, one of them DMA. Three
layers are enough for a batch that leaves a layer above and one below, for two
batches, and for a list that fits and one that does not; histories are unbounded.
`StackFollowsList`: batching, cache and stages together keep the order of the list.
`StagesSuffice`: counts and flags agree, and the mixer has the stages.
`KeptBufferIsCurrent`: a framebuffer that is not drawn again shows the present
content of exactly the layers left to it. Two cases are excepted by name, and really
occur: after a frame with videos only the cache is older than the framebuffer, and a
video without a pipe is left to a kept framebuffer (against the comment "NEVER mark
an updating layer for caching", hwc_mdpcomp.cpp:676).

**display_control.** No bound. `IdleScreenFallsBack`: an application that stops drawing
does not keep its layers on pipes, though frames clear a fallback they never saw.
`DeadPanelIsReset`: a dead panel is reset unless its report is forgotten, which
happens when the driver refuses, and when a reset under way clears the flag the next
death has set (hwc.cpp:452). `VsyncKeepsComing`: events go on through panel resets.
*Fairness.* Weak, of each thread's next step: the threads never block for ever on one
another (they share no lock), the scheduler runs them, SurfaceFlinger answers an
invalidate and finishes a cycle. No frame, blank, or event control need ever come.

**layer_config.** Three panels (MDP4; MDSS; MDSS wider than a mixer), EDIDs with
progressive, interlaced, downscaled and unknown modes and none, two WFD sizes, all
orientations and mirrorings. Layers are *placed* first: every transform in five
places (inside, over each edge, across and beyond the middle), secure tiled videos,
RGB layers; what follows them is not explored (`Explored`), be they shown or refused a
session. Instead, two frames of
videos are drawn one after another for the sessions: the first of up to two videos on
the primary and one on the second display, any of three videos, the second of one on
each, any of two; in two orientations, with refusals, fallbacks (in the first of the
two), and blanking in between. Displays come and go before the first frame, so that
each session question meets each display once (`Bounded`). Three frames are what a
session needs to be left, deleted or kept, and taken again by another layer.
`ShownAsAsked`: the chain of trimming, splitting, rotating, shrinking and flipping
shows the point of the buffer the layer asked for, at the four corners of the part of
the screen each pipe is to fill, within two pixels (more for a video, whose rectangles
are evened), the session and the pipe shrinking it alike. `WellPlaced` says where
placing has put the layer: it has a size, is on a wide screen in part, and the
framebuffer is on the screen entirely. `TurnedAsAsked` compares how the layer is turned
with what it asked before it was placed. Five cases are excepted as known to go wrong,
each described under *Read in the code* below: `SplitGoesWrong`, `TrimGoesWrong`,
`ShrinkGoesWrong`, `TurnGoesWrong`, `OverwrittenGoesWrong`; all of them occur in the
run. Where an external display that is turned, scales or has margins puts crop and
destination is taken as `calcExtDisplayPosition` has it. `SessionsServeTheirLayers`: a session in use
rotates for one layer of one display, as that layer wants, and none is denied while
one is free, unless a `configRotator` failed and lost it. `AnnouncedModeIsInForce`: size
and period announced are those of the timing in force, unless the driver refused it
or the best mode is unknown to `getAttrForMode`. Deadlock is not checked: an assertion
aborts, and `Bounded` ends the frames.

**copybit.** Both kinds of device, two render buffers, a blit list of two, one surface
template of each type, frames of up to two layers of one rectangle, a display that lags
up to two frames. With two buffers a buffer is wanted while its last frame is still
queued. The first layer uses up the templates of its type, and an engine at a limit
draws before it takes the next layer, so that the limit of the templates is met in
every frame of two layers and a draw holds one layer. Draws of several layers, a full
blit list, and one that fills up within the rectangles of a layer are covered by the
proofs only, which are for all limits.
`FrameReachesItsBuffer`, `DrawsFromMappedMemory`: what a frame's layers ask for is drawn
to the frame's buffer, from memory mapped until the GPU is done. `ScanoutNeverRaces`: GPU
and display do not share a buffer, although refused frames advance the buffer without
drawing it, and `hwc_sync` replaces the fence of a buffer that was not drawn.
`FramesComplete`: no circle of waits. *Fairness.*
Weak, of a frame that has begun, the wait thread, the GPU and the vsync. The engine
may be closed, after which nothing happens, so deadlock is not checked.

**gralloc.** The composer and one client, every class of usage, thirteen requests, at
odd sizes and at the alignments' edges; two threads for two slots of the framebuffer.
Since what becomes of a buffer depends neither on its size nor on the framebuffer,
one of the three varies at a time (`OneAtATime`).
`KernelHoldsWhatHandlesSay`: every descriptor and mapping is closed once, in any order
of register, lock, unlock and free. `CacheIsCoherent`: no write of the CPU or of
hardware is lost to the cache. `PlanesFit`: the planes announced lie in what was
allocated; the proof of it found the one exception, `YCrCb_420_SP_ADRENO` with a width
one above a multiple of 64, whose chroma is allocated with rows of `2 * ALIGN(width / 2,
32)` bytes and announced with rows of `ALIGN(width, 32)` (alloc_controller.cpp:302, :405). `FbSlotsExclusive`: no slot of the framebuffer is handed out twice; excepted
is the lost update between an allocation and a free (gpu.cpp:317), which takes no lock.

**Findings.**
- `ConfigDoneCollects`: `configDone` returns early on equal usage bits and leaves
  pipes set that nobody uses (overlay.cpp:65), until usage changes.
- `PendingIsConnected`: unplugging before the first frame leaves `isConfiguring`
  set; layers stay off the MDP until the next connection.
- `WritesFreeSlot`: the fence is stored before a remap moves to the new memory, so
  the second use of its first slot is not protected.
- `PrevIsClosed`: a rotation that fails after a remap leaves the old memory open;
  the next change of size aborts.

**Read in the code, without a run of their own.**
- `debug.mdpcomp.maxpermixer`, whatever its number, leaves one stage: `true` is assigned
  (hwc_mdpcomp.cpp:111-115). Hence the second value of `sMaxPipesPerMixer`.
- `MdssRot::setFlags` adds to the flags a session has (overlayMdssRot.cpp:96): a session
  that was secure stays so until it is reset.
- Two videos on one display whose destinations have one parity overwrite each other's
  remembered size, and both are sent through the rotator every round
  (hwc_utils.cpp:1347).
- On a wide display the halves of a layer that the pipes flip are not swapped, and what
  lies to the right of the middle, or a framebuffer region that is not centred, is
  placed at the middle (hwc_utils.cpp:1512, :1558, hwc_fbupdate.cpp:347):
  `SplitGoesWrong`.
- In downscale mode a layer over the edge of the external display is trimmed to the
  size the primary lends, not to the one the display has (hwc_utils.cpp:1158):
  `TrimGoesWrong`.
- How much the rotator shrinks a video is worked out before it is trimmed to the
  display, and again for the pipe after it (hwc_utils.cpp:1391,
  overlayGenPipe.cpp:114); rounding may carry the ratio past a step in between. A
  600x460 crop shown at 340x480, from x = 897 on an MDP4 panel 1200 wide, is halved by
  the session, and the pipe takes it for whole: `ShrinkGoesWrong`. The proof of
  `ShownAsAsked` found it; the run has the video since.
- An RGB layer of an external display that is turned by 90 degrees is placed over the
  whole display, as the framebuffer is (hwc_utils.cpp:508), but gets no session to turn
  it: whether it may have a pipe is decided by its own transform
  (hwc_mdpcomp.cpp:280), and only videos are given a rotator (hwc_utils.cpp:1408).
  `TurnGoesWrong`.
- On an external display that is turned in any way the display's orientation replaces
  the layer's own transform, which is lost (hwc_utils.cpp:556): `OverwrittenGoesWrong`.
  When it is turned by 180 degrees an RGB layer's content is flipped while its
  destination stays where it was; the run takes the destination as it is.
- A user mode may be interlaced although the best mode never is
  (external.cpp:434, :480). The best mode may be 3840x2160p25, which `getAttrForMode`
  does not know; the 640x480 of an empty EDID is not in the list of modes.
- A timing the driver refuses is taken as set (external.cpp:531).
- `getActionSafePosition` asks the external display for its size for a WFD session in
  downscale mode too (hwc_utils.cpp:295), where it is 0.
- `VirtualDisplay::openFrameBuffer` returns -1 as a bool, which is true, when it fails
  (virtual.cpp:179).
- A temporary buffer of copybit whose allocation failed keeps the size asked for.
- The reset of a panel unblanks a display SurfaceFlinger has blanked (hwc.cpp:443-447).
- A vsync event read before a disable may be sent after it.

## 4. What is proved

TLAPS checks every invariant that the runs check, `ShownAsAsked` for layers that are
placed where it makes sense (below), and the safety properties among the action
properties, for all values of the constants that satisfy the named assumptions. In
each module the pattern is one: a lemma per action shows that `IInv` is kept, a
theorem `Spec => []IInv` follows, and the properties follow from `IInv`.

| Module | Theorems | For every |
|---|---|---|
| `OverlayProofs` | 8 | number of pipes and displays, type of pipe, one or two mixers |
| `DrawCycleProofs` | 7 | interleaving of the three displays' events |
| `RotatorProofs` | 5 | set of sizes, lag of the display |
| `FrameCompProofs` | 4 | number of layers, stages and pipes, kinds of layers |
| `GrallocProofs` | 5 | set of clients, of formats, widths and heights; number of slots and threads |
| `LayerConfigProofs` | 6 | panels, layers, crops, destinations and transforms, EDIDs, WFD sizes, orientations |
| `CopybitProofs` | 4 | number of buffers, limits of blits and templates, layers, clips, lag |

`Overlay`. The invariant `IInv` is `TypeOK`, `WrapperMatchesBook`, and two parts.
`BookInv` orders the bits: used ⊆ open ⊆ set ⊆ registered, and what plays was in use
at the last collection. `HeldInv` relates the round to the bits: displays not yet
prepared hold nothing; those prepared hold pipes of their own that are in use; the
display at hand holds pipes in use, unless a commit of its framebuffer failed, when
it is about to give them up. `DrawnPipesLive` is not inductive alone: that a
collection spares what another display draws needs "held ⊆ used" for all displays,
which needs that a rollback touches only the display's own pipes, which needs
`WrapperMatchesBook` for the pipes in hand. `NoStaleScanout` needs `playing ⊆
lastUsed` through the configuration, where it is not itself true. Refinement: each
step is an `Acquire`, a `Stage`, a `Play`, a `Release` of a set, or a stutter.

`DrawCycle`. `IInv` says for each place of the uevent thread what it has written and
SurfaceFlinger cannot undo (`ThreadInv`, `DisplayInv`), together with
`PipesUnsetOnSignal`, `WaitHasWaker` and `CycleDrawsLiveDisplays`. The core is that
while the thread waits, either no cycle holds the lock, or one does that began after
the change. `PaddingRoundFirst`, `PipesFreed`, `ClosedOnlyUnstaged` follow from it.

`Rotator`. A slot is safe when its fence lasts at least as long as its readers. That
takes three frames to establish after a failure, so the invariant counts: after one
calm frame the slot to be written next does not hold the last frame's fence, after
two the other slot's fence covers its readers, after three both do (`BetweenFrames`;
`AfterSync` says the same once the wait is over and the fence has been replaced,
`AfterQueue` once the slot is rotated). Freed memory is counted along: a calm frame has
not freed any, so it is read by frames before the last one only, and the fences that
cover the readers of a slot cover these frames too (`FreedMemoryLeavesTheScreen`).
`FencesInv` bounds every fence by the lag, without which a vsync could signal a
fence early. `PrevOpenOnFailure` is what `AbortsOnlyOnFailure` rests on.

`FrameComp`. `ShapeInv` says for each outcome of a prepare what the counts and flags
of the frame and of the cache are: on a partial composition the layers left to the
framebuffer are one interval of the list and `fbZ` is its place (`Batched`), on a
frame of videos only the videos have pipes (`VideosOut`). Order and number of the
stages follow from it by counting. `BufferInv` carries the framebuffer's content
from one frame to the next: the layers drawn last are those the frame left to it, and
what the cache takes for unchanged is.

`Gralloc`. `KernelInv` bounds what the kernel holds by what the handles say, and
makes it equal until an error path has `slipped`; it needs `HandleInv` (which flags a
handle in each state can have) and `BufferInv`. `LocksInv` is what the cache rests
on: who writes is alone, has registered, and will flush. `FbInv` says that a thread
between look and store is the only one with the lock and that what it chose is still
free. `SlotsAreExclusive` has the hypothesis `HolesFit`: `free_impl` finds the index of a
slot by dividing by the size that is not rounded to pages, so what rounding adds to the
slots before the last must be less than a slot. It adds less than a page to each, and
a slot of a real panel is hundreds of pages; TLC evaluates it for the run's instance.
`PlanesLieInBuffer` splits on the format, and rests on lemmas about rounding up.

`LayerConfig`. `CountsMaps` and `SlotsInOrder` say that the second display, which is
set up first, has the slots up to some one in the order of its map, and the primary
all those taken after; hence maps are disjoint and below the use count, and a slot
returned by `getNext` is in no map. `EntriesServed` says that the last thing the driver
was told of a session is what its layer wants; the flags may be more, as they are
never taken away. The assumptions are that sizes are natural numbers, that
rectangles have integer sides, and that the RGB layers which get pipes do not ask to be
turned by 90 degrees themselves: that is what `isSupportedForMDPComp` looks at
(hwc_mdpcomp.cpp:280). `ModeInv` is the part of the external display:
only one that is open has a mode, its attributes are those of the mode, and the
timing in force is the mode's unless the driver refused.

`ShownAsAsked` has an inductive invariant of its own beside `IInv`: `ShownIsServed`
(`PipesAreServed`) says that the pipes set up last are those of a layer of the frame, or
of the framebuffer, and that this layer is *served*: by a session that the driver has
been told of its size, its turn and its shrinking, when it needs one, and by none only
when there is nothing to turn or to shrink; or it is `LeftUnturned`, an RGB layer on a
display that is turned by 90 degrees, which no code path gives a session. The rest is about one state, for every
rectangle and every transform. Each step of the chain has a lemma that says how far
from the point asked for it may read: `TrimShows` (a crop cut with its destination
shows, at the corners that are left, what is asked for there, to within one pixel),
`TurnedShows` (turned by the session or flipped by the pipe a corner shows what the
transform puts there), `SideReadNear` and `MdpSetReads` (shrinking and evening),
`MdpSetFills` and `SameShrinking` (session and pipe shrink alike when trimming has not
changed by how much), `NearBetween` and `MiddleShows` (at the cut between two mixers
what is read lies between two ends that are near, and so is near itself). They are put
together for a display of one mixer (`LowResShows`), of two (`HighResShows`), and for
the framebuffer. `PipesShowWhatIsAsked` has the hypothesis `WellPlaced`, since where
`calcExtDisplayPosition` puts a layer on an external display that scales or turns it
is rounded, and may leave a small one no size at all. On the primary, on wide displays
and on external ones that neither turn, scale nor have an action-safe margin,
`PrimaryShowsWhatIsAsked` needs only that some of what is asked for is on the screen.

`Copybit`. While the engine is not spoilt and the wait thread owes no clean-up, what
is queued is well formed (`GoodEngine`): the target is mapped, every blit is for the
target's buffer, from mapped memory, with a template below its type's count, hence
no template twice. Outside of a frame nothing is mapped, which is why the target that
is mapped is the present frame's (`EngineInv`). Layers accepted are in the queue or
drawn (`LayersInv`), draws under way are as good as the engine was (`DrawsInv`), and a
release fence signals no sooner than its buffer has left the screen (`FencesInv`); the
last is what the wait at the start of a draw turns into "the buffer is not on the
screen", from which `ScanoutNeverRaces` follows. It holds of every buffer, drawn or not:
a frame that shows nothing of the current buffer can only replace its fence by a later
one. `JobsInv` says what the GPU may still draw: the frame just flushed, or one that is
on the screen. The assumptions that are not mere positivity are that the blit list
holds the rectangles of one layer and that a device is a pair of flags.

## 5. What is model-checked only

- Liveness: `UeventReturns`, `FramesComplete`, and the three properties of
  `DisplayControl`. Fairness and ENABLED are out of the provers' reach.
- `WellPlaced` on an external display that turns or scales: that the layers of the run
  keep a size where `calcExtDisplayPosition` puts them, and that the framebuffer fits
  the screen there. It is not true of every layer.
- That the findings are violations: TLC shows an execution.

Some hazards of the list go wrong in the code, and the properties except them by name
(`spoilt`, `fbRaced`, `missed`, `refused`, `spurious`, ...): no property catches those
cases, and the notes under `hazards` say so.

## 6. Not modelled

- Genlock: compiled to functions that do nothing and report success.
- libqdutils queries, lights, memory tracking, tile renderer, layer dumps: input and
  output without state shared with the rest.
- The MSM copybit engine, the software converters: they move pixels. Of C2D, planar
  YUV destinations, three-plane sources, and a `finish` that fails. Of CopyBit, render
  buffers that cannot be allocated, and a display commit that fails.
- In hwc_utils: `setListStats` beyond what its users need, S3D layouts, who closes which
  descriptor in `hwc_sync`, `optimizeLayerRects`. In MDPComp: securing, layers for the
  external display only. In the display service: securing, screen refresh, hpd.
- VirtualDisplay: `isSinkSecure`, which reads a file; action-safe margins of a session
  in downscale mode (see above).
- The second display of `LayerConfig` is external or virtual, never both; `shown`
  has the pipes of the layer set up last only, since layers meet only in the sessions.
- MdssRot double-buffers as `Rotator` does but waits for no fence.
- `debug.egl.swapinterval` = 0, which gives up fences on purpose; an
  `MSMFB_OVERLAY_UNSET` that fails.

Kernel calls are outcomes: they pass or fail. Colours, debug
properties without effect on control, dumps and logs are left out.
