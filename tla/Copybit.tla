------------------------------- MODULE Copybit -------------------------------
(***************************************************************************)
(* Composition by the 2D core: CopyBit of the hwc over the C2D engine of   *)
(* libcopybit.                                                             *)
(*                                                                         *)
(* A frame is drawn layer by layer into a render buffer.  The engine       *)
(* queues blits, each with a surface template and with memory it maps for  *)
(* the GPU; finish draws the queue and waits, flush_get_fence draws it and *)
(* leaves the waiting and the cleaning up to a thread.  The fence of the   *)
(* flush keeps the display off a buffer the GPU still draws; the release   *)
(* fence of the display keeps CopyBit off a buffer that is on the screen.  *)
(*                                                                         *)
(* Every call of the engine holds wait_cleanup_lock, so it is one step;    *)
(* the thread holds it as well, while it waits for the GPU.                *)
(***************************************************************************)
EXTENDS Integers, Sequences, FiniteSets, SequencesExt

CONSTANTS
  Devices,                (* <<override, ownBuffers>> of the devices       *)
  NUM_RENDER_BUFFERS,
  MAX_BLIT_OBJECT_COUNT,  (* blits in the list of a draw                   *)
  MaxSurfaces,            (* templates of each type of source surface      *)
  MaxLayers,              (* bound: layers of a frame                      *)
  MaxClips,               (* bound: visible rectangles of a layer          *)
  MaxLag                  (* bound: frames committed and not replaced      *)

Types == {"rgb", "yuv"}

ASSUME CopybitAssumption ==
  /\ Devices \subseteq BOOLEAN \X BOOLEAN
  /\ {NUM_RENDER_BUFFERS, MaxLayers, MaxClips, MaxLag} \subseteq Nat \ {0}
  /\ MAX_BLIT_OBJECT_COUNT \in Nat /\ MAX_BLIT_OBJECT_COUNT >= MaxClips
  /\ MaxSurfaces \in [Types -> Nat \ {0}]

Buffers == 0 .. NUM_RENDER_BUFFERS - 1
NONE == NUM_RENDER_BUFFERS           (* no buffer of these                 *)

VARIABLES
  phase,        (* where the frame is                                      *)
  override,     (* C2D_DRIVER_SUPPORTS_OVERRIDE_TARGET_ROTATE_OP           *)
  ownBuffers,   (* MDP later than 4.3: the buffers are mRenderBuffer; else *)
                (* they are those of SurfaceFlinger's framebuffer target   *)
  cur,          (* mCurRenderBufferIndex, or the target's buffer           *)
  composer,     (* who draws the frame into it: "copybit" is mCopyBitDraw  *)
  relFd,        (* relFd[b]: frames to be replaced until mRelFd[b], or the *)
                (* target's fence, signals                                 *)
  todo,         (* layers of the frame still to be drawn                   *)
  stretched,    (* those the engine has accepted                           *)
  drawn,        (* and those it has drawn into the render buffer           *)
  engine,       (* the part of copybit_context_t a draw uses               *)
  thread,       (* c2d_wait_loop: waiting for work, or for the GPU         *)
  jobs,         (* draws the GPU has still to do, in order                 *)
  done,         (* draws done within the last call of the engine           *)
  fence,        (* the frame has the fence of its flush                    *)
  screen,       (* frames committed and not replaced; the first is shown   *)
  spoilt,       (* the engine is, until it is clean again (history)        *)
  raced         (* a fence was missing or not waited for, or a play was    *)
                (* refused (history)                                       *)

device == <<override, ownBuffers>>
frameVars == <<cur, composer, todo, stretched, drawn, fence>>
display == <<relFd, screen>>
history == <<spoilt, raced>>
vars == <<phase, device, frameVars, engine, thread, jobs, done, display,
          history>>

Blits == [buf : Buffers, layer : 1 .. MaxLayers, type : Types, tmpl : Nat,
          live : BOOLEAN]

Draws == [target : Buffers \cup {NONE}, live : BOOLEAN, blits : SUBSET Blits]

Engines ==
  [blits : Seq(Blits), count : [Types -> Nat], mapped : BOOLEAN,
   dst : Buffers \cup {NONE}, live : BOOLEAN, wait : BOOLEAN]

TypeOK ==
  /\ phase \in {"idle", "begun", "drawing", "flushed", "synced", "closing",
                "closed"}
  /\ device \in Devices /\ cur \in Buffers
  /\ composer \in {"copybit", "gpu", "none"}
  /\ relFd \in [Buffers -> 0 .. MaxLag + 1]
  /\ todo \in 0 .. MaxLayers
  /\ stretched \subseteq 1 .. MaxLayers /\ drawn \subseteq 1 .. MaxLayers
  /\ engine \in Engines /\ Len(engine.blits) <= MAX_BLIT_OBJECT_COUNT
  /\ \A t \in Types : engine.count[t] <= MaxSurfaces[t]
  /\ thread \in {"cond", "gpu", "ended"}
  /\ jobs \in Seq(Draws) /\ Len(jobs) <= 2 /\ done \subseteq Draws
  /\ fence \in BOOLEAN
  /\ screen \in Seq([buf : Buffers \cup {NONE}, fence : BOOLEAN])
  /\ Len(screen) \in 1 .. MaxLag + 1
  /\ {spoilt, raced} \subseteq BOOLEAN

-----------------------------------------------------------------------------
(* The engine.  mapped is dst_surface_mapped, dst the buffer the target    *)
(* surface was last set to and live whether that is still mapped; wait is  *)
(* wait_timestamp.                                                         *)
CleanEngine ==
  [blits |-> <<>>, count |-> [t \in Types |-> 0], mapped |-> FALSE,
   dst |-> NONE, live |-> FALSE, wait |-> FALSE]

(* open_copybit.                                                           *)
Init ==
  /\ phase = "idle"
  /\ \E d \in Devices : override = d[1] /\ ownBuffers = d[2]
  /\ cur = 0 /\ composer = "none"
  /\ relFd = [b \in Buffers |-> 0] /\ todo = 0
  /\ stretched = {} /\ drawn = {} /\ engine = CleanEngine
  /\ thread = "cond" /\ jobs = <<>> /\ done = {} /\ fence = FALSE
  /\ screen = <<[buf |-> NONE, fence |-> FALSE]>> /\ spoilt = FALSE /\ raced = FALSE

(* msm_copybit: what the GPU is told to draw.                              *)
Draw(E) ==
  [target |-> E.dst, live |-> E.live, blits |-> Range(E.blits)]
DrawsOf(E) == IF E.blits = <<>> THEN {} ELSE {Draw(E)}

(* Faulty: dst_surface_mapped is left set.                                 *)
finishKeepsDst(E) == [CleanEngine EXCEPT !.wait = E.wait, !.mapped = E.mapped,
                                         !.dst = E.dst]

(* finish_copybit, once the draw is done: all memory is unmapped, and the  *)
(* templates are free.                                                     *)
finish(E) == [CleanEngine EXCEPT !.wait = E.wait]

(* Faulty: the limits are noticed one too late.                            *)
AtLimitLate(E) ==
  (\E t \in Types : E.count[t] > MaxSurfaces[t])
  \/ Len(E.blits) > MAX_BLIT_OBJECT_COUNT

(* The templates of a type, or the list, are used up.                      *)
AtLimit(E) ==
  (\E t \in Types : E.count[t] = MaxSurfaces[t])
  \/ Len(E.blits) = MAX_BLIT_OBJECT_COUNT

(* set_image for the target, unless dst_surface_mapped.                    *)
MapDst(E, b) ==
  IF E.mapped THEN E ELSE [E EXCEPT !.mapped = TRUE, !.dst = b, !.live = TRUE]

(* stretch_copybit_internal when nothing fails: the draws it finishes, and *)
(* the engine it leaves.  The list may fill up in the loop over the        *)
(* rectangles; the finish there also unmaps the surfaces of this blit.     *)
stretch(E, layer, type, clips) ==
  LET F == MapDst(IF AtLimit(E) THEN finish(E) ELSE E, cur)
      blit == [buf |-> cur, layer |-> layer, type |-> type,
               tmpl |-> F.count[type], live |-> TRUE]
      room == MAX_BLIT_OBJECT_COUNT - Len(F.blits)
      Add(G, n) == [G EXCEPT !.blits = @ \o [k \in 1 .. n |-> blit]]
      Full == [Add(F, room) EXCEPT !.count[type] = @ + 1] IN
  [now |-> (IF AtLimit(E) THEN <<E>> ELSE <<>>)
           \o (IF clips > room THEN <<Full>> ELSE <<>>),
   eng |-> IF clips <= room
           THEN [Add(F, clips) EXCEPT !.count[type] = @ + 1]
           ELSE [finish(Full) EXCEPT !.blits =
                   [k \in 1 .. clips - room |-> [blit EXCEPT !.live = FALSE]]]]

Unfinished(s) == UNION {DrawsOf(s[k]) : k \in DOMAIN s}

(* Layers of this frame a draw has put into their buffer.                  *)
Reached(D) ==
  {b.layer : b \in {c \in UNION {d.blits : d \in D} :
                      \E d \in D : c \in d.blits /\ d.live /\ d.target = cur
                                   /\ c.live /\ c.buf = cur}}

(* Draws done in a call, which waits for all that came before.             *)
DoneNow(D) ==
  /\ done' = D /\ drawn' = drawn \cup Reached(D)
  /\ jobs' = IF D = {} THEN jobs ELSE <<>>

LockFree == thread # "gpu"

(* A call that comes after a flush and before the thread has the lock has  *)
(* its work cleaned up by the thread.                                      *)
Late == engine.wait

-----------------------------------------------------------------------------
(* Every frame on the screen will be waited for.                           *)
ScreenHeld ==
  /\ jobs = <<>>
  /\ \A k \in DOMAIN screen : screen[k].buf # NONE => relFd[screen[k].buf] >= k

Begins ==
  /\ phase = "idle" /\ Len(screen) <= MaxLag
  /\ stretched' = {} /\ drawn' = {} /\ fence' = FALSE /\ done' = {}
  /\ raced' = (raced /\ ~ScreenHeld)
  /\ spoilt' = (spoilt /\ [engine EXCEPT !.wait = FALSE] # CleanEngine)
  /\ UNCHANGED <<device, engine, thread, jobs, display>>

(* Faulty: the frame is drawn into the buffer of the last one.             *)
PrepareSameBuffer(n) ==
  /\ Begins /\ UNCHANGED cur /\ phase' = "begun" /\ todo' = n
  /\ composer' = "copybit"

(* CopyBit::prepare of a frame with layers for copybit: the next render    *)
(* buffer, or the next that SurfaceFlinger has for its target.             *)
NextBuffer == cur' = (cur + 1) % NUM_RENDER_BUFFERS
Prepare(n) ==
  /\ Begins /\ NextBuffer /\ phase' = "begun" /\ todo' = n
  /\ composer' = "copybit"

(* A layer is not for copybit, and the others are taken back: the render   *)
(* buffer of CopyBit's own has been advanced and stays as it is; that of   *)
(* the target is drawn by SurfaceFlinger.                                  *)
PrepareRefused ==
  /\ Begins /\ NextBuffer /\ todo' = 0
  /\ IF ownBuffers THEN composer' = "none" /\ phase' = "flushed"
     ELSE composer' = "gpu" /\ phase' = "begun"

(* Pipes show the layers, or prepare returns before it chooses a buffer.   *)
(* hwc_sync is left out for a list without layers.                         *)
PrepareWithout ==
  /\ Begins /\ UNCHANGED cur /\ todo' = 0 /\ composer' = "none"
  /\ phase' \in {"flushed", "synced"}

AfterWait == IF composer = "copybit" THEN "drawing" ELSE "flushed"

(* Faulty: the buffer is drawn into at once.                               *)
WaitReleaseNever ==
  /\ phase = "begun" /\ phase' = AfterWait
  /\ UNCHANGED <<device, frameVars, engine, thread, jobs, done, display,
                 history>>

(* CopyBit::draw waits for the release fence of its buffer and closes it,  *)
(* or for the acquire fence of the target, which comes after its release.  *)
WaitRelease ==
  /\ phase = "begun" /\ relFd[cur] = 0 /\ phase' = AfterWait
  /\ UNCHANGED <<device, frameVars, engine, thread, jobs, done, display,
                 history>>

(* It gives up after a second.                                             *)
WaitLapses ==
  /\ phase = "begun" /\ composer = "copybit" /\ phase' = "drawing"
  /\ relFd[cur] # 0
  /\ relFd' = [relFd EXCEPT ![cur] = 0] /\ raced' = TRUE
  /\ UNCHANGED <<device, frameVars, engine, thread, jobs, done, screen,
                 spoilt>>

(* clear_copybit of the region no layer covers; it may fail to map.        *)
Clear ==
  /\ phase = "drawing" /\ LockFree /\ stretched = {} /\ ~engine.mapped
  /\ engine' = MapDst(engine, cur) /\ done' = {}
  /\ spoilt' = (spoilt \/ Late)
  /\ UNCHANGED <<phase, device, frameVars, thread, jobs, display, raced>>

(* set_parameter_copybit of COPYBIT_TRANSFORM: without the override, what  *)
(* is queued is drawn first.                                               *)
Transformed == IF override THEN engine ELSE finish(engine)
TransformDraws == IF override THEN {} ELSE DrawsOf(engine)

(* drawLayerUsingCopybit.  A source whose lines are not aligned goes       *)
(* through a temporary buffer, and is drawn at once.                       *)
DrawLayer(type, clips, temp) ==
  LET s == stretch(Transformed, todo, type, clips) IN
  /\ phase = "drawing" /\ LockFree /\ todo > 0
  /\ temp => type = "yuv"
  /\ todo' = todo - 1 /\ stretched' = stretched \cup {todo}
  /\ DoneNow(TransformDraws \cup Unfinished(s.now)
             \cup (IF temp THEN DrawsOf(s.eng) ELSE {}))
  /\ engine' = IF temp THEN finish(s.eng) ELSE s.eng
  /\ spoilt' = (spoilt \/ Late
                \/ \E k \in DOMAIN s.eng.blits : ~s.eng.blits[k].live)
  /\ UNCHANGED <<phase, device, cur, composer, fence, thread, display, raced>>

(* The surface of the target or of the source cannot be set; CopyBit goes  *)
(* on with the next layer.  If this call has mapped the target, it unmaps  *)
(* it, but dst_surface_mapped stays.                                       *)
DrawLayerFails ==
  LET T == Transformed
      E == IF AtLimit(T) THEN finish(T) ELSE T IN
  /\ phase = "drawing" /\ LockFree /\ todo > 0
  /\ todo' = todo - 1
  /\ DoneNow(TransformDraws \cup (IF AtLimit(T) THEN DrawsOf(T) ELSE {}))
  /\ \/ engine' = E /\ spoilt' = (spoilt \/ Late)
     \/ /\ ~E.mapped
        /\ engine' = [MapDst(E, cur) EXCEPT !.live = FALSE]
        /\ spoilt' = TRUE
  /\ UNCHANGED <<phase, device, cur, composer, stretched, fence, thread,
                 display, raced>>

Flushed ==
  /\ phase = "drawing" /\ LockFree /\ todo = 0 /\ phase' = "flushed"
  /\ Len(jobs) < 2 /\ done' = {}
  /\ UNCHANGED <<device, cur, composer, todo, stretched, thread, display>>
StartsDraw ==
  /\ jobs' = IF engine.blits = <<>> THEN jobs ELSE Append(jobs, Draw(engine))
  /\ drawn' = drawn \cup Reached(DrawsOf(engine))

(* flush_get_fence_copybit: the GPU draws on, and the thread is told.      *)
Flush ==
  /\ Flushed /\ StartsDraw /\ fence' = TRUE
  /\ engine' = [engine EXCEPT !.wait = TRUE]
  /\ spoilt' = (spoilt \/ Late) /\ UNCHANGED raced

(* Either there is no fence, the draw being under way, or nothing is drawn;*)
(* then the queue and the mappings stay.  CopyBit ignores it.              *)
FlushFails ==
  /\ Flushed /\ fence' = FALSE /\ spoilt' = TRUE /\ UNCHANGED engine
  /\ \/ StartsDraw /\ raced' = TRUE
     \/ UNCHANGED <<jobs, drawn, raced>>

(* c2d_wait_loop takes the lock.                                           *)
ThreadLocks ==
  /\ thread = "cond" /\ engine.wait /\ thread' = "gpu" /\ done' = {}
  /\ UNCHANGED <<phase, device, frameVars, engine, jobs, display, history>>

(* Faulty: the surfaces are unmapped before the GPU is done.               *)
ThreadCleansEarly ==
  /\ thread = "gpu" /\ thread' = "cond" /\ done' = {}
  /\ engine' = CleanEngine
  /\ jobs' = [k \in DOMAIN jobs |-> [jobs[k] EXCEPT !.live = FALSE]]
  /\ UNCHANGED <<phase, device, frameVars, display, history>>

(* The GPU is done: everything is unmapped, whatever is in the queue.      *)
ThreadCleans ==
  /\ thread = "gpu" /\ jobs = <<>> /\ thread' = "cond" /\ done' = {}
  /\ engine' = CleanEngine
  /\ UNCHANGED <<phase, device, frameVars, jobs, display, history>>

GpuDraws ==
  /\ jobs # <<>> /\ jobs' = Tail(jobs) /\ done' = {}
  /\ UNCHANGED <<phase, device, frameVars, engine, thread, display, history>>

(* hwc_sync: the display waits for the fence of the flush, and gives the   *)
(* release fence of the frame to CopyBit, used or not (or gives none).     *)
Sync ==
  /\ phase = "flushed" /\ phase' = "synced" /\ done' = {}
  /\ \/ relFd' = [relFd EXCEPT ![cur] = Len(screen) + 1] /\ UNCHANGED raced
     \/ relFd' = [relFd EXCEPT ![cur] = 0] /\ raced' = TRUE
  /\ UNCHANGED <<device, frameVars, engine, thread, jobs, screen, spoilt>>

Commits ==
  /\ phase = "synced" /\ phase' = "idle"
  /\ stretched' = {} /\ drawn' = {} /\ done' = {} /\ fence' = FALSE
  /\ composer' = "none"
  /\ UNCHANGED <<device, cur, todo, engine, thread, jobs, spoilt>>

(* The frame is committed: FBUpdate plays the buffer it was composed in,   *)
(* though every layer of it may have failed.                               *)
Commit ==
  /\ Commits /\ UNCHANGED <<relFd, raced>>
  /\ screen' = Append(screen,
       [buf |-> IF composer = "none" THEN NONE ELSE cur, fence |-> fence])

(* The play is refused, and the pipe goes on reading what it had.          *)
PlayRefused ==
  /\ Commits /\ raced' = TRUE /\ UNCHANGED relFd
  /\ screen' = Append(screen, [buf |-> Last(screen).buf, fence |-> FALSE])

(* The display goes on to the next frame once its fence has signalled.     *)
Vsync ==
  /\ Len(screen) > 1
  /\ screen[2].fence => ~\E k \in DOMAIN jobs : jobs[k].target = screen[2].buf
  /\ screen' = Tail(screen) /\ done' = {}
  /\ relFd' = [b \in Buffers |-> IF relFd[b] = 0 THEN 0 ELSE relFd[b] - 1]
  /\ UNCHANGED <<phase, device, frameVars, engine, thread, jobs, history>>

(* ~CopyBit: close_copybit stops the thread and waits for it; the thread   *)
(* cleans up once more if it was told of a flush.                          *)
Close ==
  /\ phase = "idle" /\ phase' = "closing" /\ done' = {}
  /\ UNCHANGED <<device, frameVars, engine, thread, jobs, display, history>>
ThreadEnds ==
  /\ phase = "closing" /\ thread = "cond" /\ ~engine.wait /\ done' = {}
  /\ thread' = "ended" /\ phase' = "closed"
  /\ UNCHANGED <<device, frameVars, engine, jobs, display, history>>

Starts ==
  PrepareRefused \/ PrepareWithout \/ \E n \in 1 .. MaxLayers : Prepare(n)
GoesOn ==
  \/ WaitRelease \/ Clear \/ DrawLayerFails
  \/ \E type \in Types, clips \in 1 .. MaxClips, temp \in BOOLEAN :
       DrawLayer(type, clips, temp)
  \/ Flush \/ FlushFails \/ Sync \/ Commit \/ PlayRefused
Frame == Starts \/ GoesOn \/ WaitLapses
Thread == ThreadLocks \/ ThreadCleans \/ ThreadEnds

Next == Frame \/ Thread \/ GpuDraws \/ Vsync \/ Close

(* A frame that is begun goes on, the thread gets the lock in the end, the *)
(* GPU does its draws and the panel has its vsyncs.                        *)
Spec ==
  /\ Init /\ [][Next]_vars
  /\ WF_vars(GoesOn)
  /\ WF_vars(Thread) /\ WF_vars(GpuDraws) /\ WF_vars(Vsync)

-----------------------------------------------------------------------------
Submitted == Range(jobs) \cup done

(* Every layer the engine has accepted is drawn into the render buffer of  *)
(* its frame by the time the frame is flushed, and no draw has blits for   *)
(* another buffer than its target; unless a call has overtaken the wait    *)
(* thread, a flush or a mapping has failed, or the blit list filled up in  *)
(* the middle of a layer, and then until the engine is clean again.        *)
FrameReachesItsBuffer ==
  ~spoilt =>
    /\ phase \in {"flushed", "synced"} => stretched \subseteq drawn
    /\ \A d \in Submitted : \A b \in d.blits : b.buf = d.target

(* The GPU draws from and to memory that is mapped, with one surface       *)
(* template per layer, for as long as the draw takes.                      *)
DrawsFromMappedMemory ==
  ~spoilt => \A d \in Submitted :
    /\ d.live
    /\ \A b \in d.blits : b.live
    /\ \A b, c \in d.blits :
         <<b.type, b.tmpl>> = <<c.type, c.tmpl>> => b.layer = c.layer

(* The GPU and the display never share a render buffer: one that is drawn  *)
(* is on the screen for no frame but one that waits for the draw; unless a *)
(* fence was missing or was not waited for, or a play was refused, and     *)
(* then until all that the screen shows will be waited for again.          *)
ScanoutNeverRaces ==
  (~spoilt /\ ~raced) =>
    /\ \A d \in done, k \in DOMAIN screen : screen[k].buf # d.target
    /\ \A d \in Range(jobs), k \in DOMAIN screen :
         screen[k].buf = d.target => k > 1 /\ screen[k].fence

(* Render buffer, GPU, display and wait thread never wait for one another  *)
(* in a circle: a frame that is begun is committed, though no wait lapses. *)
FramesComplete == (phase \notin {"idle", "closing", "closed"}) ~> (phase = "idle")

-----------------------------------------------------------------------------
(* The inductive invariant.                                                *)

(* Blits to one mapped buffer, from mapped memory, each with a template of *)
(* its layer's own.                                                        *)
WellFormed(B, target) ==
  /\ \A b \in B : b.live /\ b.buf = target
  /\ \A b, c \in B : <<b.type, b.tmpl>> = <<c.type, c.tmpl>> => b.layer = c.layer

GoodDraw(d) == d.live /\ d.target \in Buffers /\ WellFormed(d.blits, d.target)

GoodEngine(E) ==
  /\ E.blits # <<>> => E.mapped
  /\ E.mapped => E.live /\ E.dst \in Buffers
  /\ WellFormed(Range(E.blits), E.dst)
  /\ \A b \in Range(E.blits) : b.tmpl < E.count[b.type]

LayersOf(E) == {b.layer : b \in Range(E.blits)}

(* The engine is used while a frame is drawn, and until the thread has     *)
(* cleaned up after its flush.                                             *)
EngineInv ==
  /\ thread = "gpu" => engine.wait
  /\ jobs # <<>> => engine.blits # <<>>
  /\ ~spoilt /\ ~engine.wait =>
       /\ GoodEngine(engine)
       /\ IF phase = "drawing" THEN engine.mapped => engine.dst = cur
          ELSE ~engine.mapped

DrawsInv == ~spoilt => \A d \in Submitted : GoodDraw(d)

(* What has been accepted is drawn or in the queue.                        *)
LayersInv ==
  /\ phase = "begun" => stretched = {} /\ composer # "none"
  /\ phase = "drawing" => composer = "copybit"
  /\ ~spoilt =>
       /\ phase = "drawing" =>
            IF engine.wait THEN stretched = {} ELSE stretched \subseteq drawn \cup LayersOf(engine)
       /\ phase \in {"flushed", "synced"} =>
            stretched \subseteq drawn /\ (composer = "copybit" => fence)

(* A release fence signals no sooner than its buffer has left the screen.  *)
FencesInv ==
  /\ phase \in {"begun", "drawing", "flushed", "synced"} => Len(screen) <= MaxLag
  /\ ~raced =>
       /\ \A k \in DOMAIN screen : screen[k].buf # NONE => relFd[screen[k].buf] >= k
       /\ phase = "synced" /\ composer # "none" => relFd[cur] = Len(screen) + 1
       /\ phase \in {"drawing", "flushed", "synced"} /\ composer # "none" =>
            \A k \in DOMAIN screen : screen[k].buf # cur

(* What the GPU still draws is the frame just flushed, or on the screen.   *)
JobsInv ==
  (~spoilt /\ ~raced) => \A d \in Range(jobs) :
    \/ phase \in {"flushed", "synced"} /\ composer = "copybit" /\ d.target = cur
    \/ \E k \in DOMAIN screen : screen[k].buf = d.target

IInv ==
  TypeOK /\ EngineInv /\ DrawsInv /\ LayersInv /\ FencesInv /\ JobsInv
  /\ ScanoutNeverRaces
=============================================================================
