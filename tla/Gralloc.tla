------------------------------- MODULE Gralloc -------------------------------
(***************************************************************************)
(* Gralloc: buffers of ION memory and their handles in several processes,  *)
(* and the slots of the framebuffer's memory.                              *)
(*                                                                         *)
(* The first part follows one buffer through its life: it is allocated in  *)
(* the process of the composer together with its metadata, sent to other   *)
(* processes, mapped there, locked for the CPU or for hardware, and given  *)
(* back in any order.  The kernel keeps the memory for as long as a file   *)
(* descriptor or a mapping is left.  The second part hands out the slots   *)
(* of the framebuffer to threads; the mask of slots is changed under       *)
(* m->lock by an allocation, and without it by a free.                     *)
(***************************************************************************)
EXTENDS GrallocFormats, FiniteSets

CONSTANTS
  Composer,      (* the process that allocates                             *)
  Clients,       (* the processes it sends the buffer to                   *)
  Usages,        (* usages that are asked for                              *)
  Requests,      (* <<format, width, height>> that are asked for           *)
  MaxFds,        (* bound: descriptors a process may come to hold          *)
  FbThreads,     (* threads that allocate from the framebuffer             *)
  numBuffers,    (* of the framebuffer                                     *)
  FbLine, FbRows (* line_length and yres of the framebuffer                *)

Procs == {Composer} \cup Clients

ASSUME GrallocAssumption ==
  /\ Composer \notin Clients /\ IsFiniteSet(Clients)
  /\ Usages \subseteq SUBSET UsageBits
  /\ Requests \subseteq Formats \X (Nat \ {0}) \X (Nat \ {0})
  /\ {MaxFds, FbLine, FbRows, numBuffers} \subseteq Nat \ {0}
  /\ numBuffers >= 2

VARIABLES
  buf,        (* the memory: usage, request, type, heaps, metadata         *)
  hnd,        (* hnd[p]: the private_handle_t of process p                 *)
  fds, maps,  (* what the kernel holds for a process: data and metadata    *)
  locks,      (* locks[p]: what process p has locked the buffer for        *)
  cache,      (* of the CPU: "dirty", "stale" (older than memory) or "ok"  *)
  slipped,    (* mmap or a cache operation has failed (history)            *)
  lost,       (* writes of the CPU were thrown away (history)              *)
  fbMem,      (* m->framebuffer: "none", "mapped", or "broken": not mapped *)
  mask,       (* m->bufferMask                                             *)
  fbHnd,      (* fbHnd[t]: handle of the framebuffer thread t has          *)
  fbPc, fbReg,(* where thread t is, and the mask it has read               *)
  fbRaced     (* a mask was stored that was not the last one (history)     *)

ionVars == <<buf, hnd, fds, maps, locks, cache, slipped, lost>>
fbVars == <<fbMem, mask, fbHnd, fbPc, fbReg, fbRaced>>
vars == <<ionVars, fbVars>>

NoBuf == [usage |-> {}, request |-> <<>>, type |-> "none", heaps |-> {},
          meta |-> FALSE]
NoHandle == [st |-> "none", base |-> FALSE, meta |-> FALSE,
             needsFlush |-> FALSE, doNotFlush |-> FALSE]
Handles == [st : {"none", "sent", "ready"}, base : BOOLEAN, meta : BOOLEAN,
            needsFlush : BOOLEAN, doNotFlush : BOOLEAN]
Kernel == [data : 0 .. MaxFds, meta : 0 .. MaxFds]
Nothing == [data |-> 0, meta |-> 0]
LockKinds == {"none", "sw", "sww", "hw", "hww"}

(* The sizes of a slot in the mask, and of one in the index of a free.     *)
SlotSize == ALIGN(FbLine * FbRows, PAGE)
Slots == 0 .. numBuffers - 1
NoFb == [base |-> -1]

TypeOK ==
  /\ buf = NoBuf \/ (buf.usage \in Usages /\ buf.request \in Requests
                     /\ buf.type \in {"UI", "VIDEO"})
  /\ hnd \in [Procs -> Handles]
  /\ fds \in [Procs -> Kernel] /\ maps \in [Procs -> Kernel]
  /\ locks \in [Procs -> LockKinds] /\ cache \in {"ok", "dirty", "stale"}
  /\ {slipped, lost, fbRaced} \subseteq BOOLEAN
  /\ fbMem \in {"none", "mapped", "broken"} /\ mask \subseteq Slots
  /\ fbHnd \in [FbThreads -> {NoFb} \cup [base : Nat]]
  /\ fbPc \in [FbThreads -> {"idle", "look", "set", "clear"}]
  /\ fbReg \in [FbThreads -> SUBSET Slots]

Init ==
  /\ buf = NoBuf /\ hnd = [p \in Procs |-> NoHandle]
  /\ fds = [p \in Procs |-> Nothing] /\ maps = [p \in Procs |-> Nothing]
  /\ locks = [p \in Procs |-> "none"] /\ cache = "ok"
  /\ slipped = FALSE /\ lost = FALSE
  /\ fbMem = "none" /\ mask = {}
  /\ fbHnd = [t \in FbThreads |-> NoFb]
  /\ fbPc = [t \in FbThreads |-> "idle"]
  /\ fbReg = [t \in FbThreads |-> {}] /\ fbRaced = FALSE

-----------------------------------------------------------------------------
Secure(b) == "CP_MM" \in b.heaps
Cached(b) == ~useUncached(b.usage)

(* IonAlloc::alloc_buffer: memory, a descriptor and, unless it is secure,  *)
(* a mapping.  The descriptor of memory that cannot be mapped stays open.  *)
IonAlloc(secure) ==
  {[ok |-> TRUE, map |-> IF secure THEN 0 ELSE 1, leaked |-> 0],
   [ok |-> FALSE, map |-> 0, leaked |-> 0]}
  \cup (IF secure THEN {} ELSE {[ok |-> FALSE, map |-> 0, leaked |-> 1]})

(* IonController::allocate, which may try again with the system heap.      *)
allocate(usage) ==
  {[ok |-> a.ok, map |-> a.map, leaked |-> a.leaked, heaps |-> ionHeaps(usage)] :
     a \in {o \in IonAlloc(Secured(usage)) : o.ok \/ ~canFallback(usage)}}
  \cup
  {[ok |-> b.ok, map |-> b.map, leaked |-> a.leaked + b.leaked,
    heaps |-> {"SYSTEM"}] :
     a \in {o \in IonAlloc(Secured(usage)) : ~o.ok /\ canFallback(usage)},
     b \in IonAlloc(FALSE)}

Gone == buf = NoBuf

(* alloc_impl and gralloc_alloc_buffer.  Without its metadata the buffer   *)
(* is handed out all the same.                                             *)
Alloc(usage, request) ==
  LET dims == getBufferSizeAndDimensions(request[1], request[2], request[3]) IN
  /\ Gone /\ dims.size > 0
  /\ \E d \in allocate(usage), m \in IonAlloc(FALSE) :
       LET fd == IF d.ok THEN 1 ELSE 0
           mfd == IF d.ok /\ m.ok THEN 1 ELSE 0
           mleak == IF d.ok THEN m.leaked ELSE 0 IN
       /\ fds[Composer].data + d.leaked + fd <= MaxFds
       /\ fds[Composer].meta + mleak + mfd <= MaxFds
       /\ fds' = [fds EXCEPT ![Composer] =
            [data |-> @.data + d.leaked + fd, meta |-> @.meta + mleak + mfd]]
       /\ slipped' = (slipped \/ d.leaked + mleak > 0)
       /\ IF d.ok
          THEN /\ buf' = [usage |-> usage, request |-> request,
                          type |-> bufferType(request[1], usage),
                          heaps |-> d.heaps, meta |-> m.ok]
               /\ hnd' = [hnd EXCEPT ![Composer] =
                    [NoHandle EXCEPT !.st = "ready", !.base = (d.map = 1),
                                     !.meta = m.ok]]
               /\ maps' = [maps EXCEPT ![Composer] =
                    [data |-> @.data + d.map, meta |-> @.meta + mfd]]
               /\ cache' = "ok"
          ELSE UNCHANGED <<buf, hnd, maps, cache>>
  /\ UNCHANGED <<locks, lost, fbVars>>

(* The handle goes to a client with its flags; the descriptors are         *)
(* duplicated, which needs both.                                           *)
Send(p) ==
  /\ hnd[Composer].st = "ready" /\ hnd[p] = NoHandle /\ buf.meta
  /\ fds[p].data < MaxFds /\ fds[p].meta < MaxFds
  /\ hnd' = [hnd EXCEPT ![p] = [hnd[Composer] EXCEPT !.st = "sent"]]
  /\ fds' = [fds EXCEPT ![p] = [data |-> @.data + 1, meta |-> @.meta + 1]]
  /\ UNCHANGED <<buf, maps, locks, cache, slipped, lost, fbVars>>

(* Process p drops its handle; the memory goes with the last one.          *)
Dropped(p) ==
  /\ hnd' = [hnd EXCEPT ![p] = NoHandle]
  /\ buf' = IF \A q \in Procs \ {p} : hnd[q] = NoHandle THEN NoBuf ELSE buf

Closed(p) == [fds EXCEPT ![p] = [data |-> @.data - 1, meta |-> @.meta - 1]]

(* gralloc_register_buffer: gralloc_map maps the data and the metadata,    *)
(* neither of a secure buffer.  A client that gets an error drops the      *)
(* handle; what was mapped stays.                                          *)
Register(p) ==
  /\ hnd[p].st = "sent" /\ maps[p].data < MaxFds
  /\ \/ /\ hnd' = [hnd EXCEPT ![p].st = "ready", ![p].base = ~Secure(buf),
                              ![p].meta = ~Secure(buf)]
        /\ maps' = IF Secure(buf) THEN maps
                   ELSE [maps EXCEPT ![p] = [data |-> @.data + 1,
                                             meta |-> @.meta + 1]]
        /\ UNCHANGED <<buf, fds, slipped>>
     \/ /\ ~Secure(buf) /\ Dropped(p) /\ fds' = Closed(p)
        /\ \E mapped \in {0, 1} :
             maps' = [maps EXCEPT ![p].data = @ + mapped]
        /\ slipped' = TRUE
  /\ UNCHANGED <<locks, cache, lost, fbVars>>

(* Faulty: gralloc_unmap forgets the metadata.                             *)
UnmapDataOnly(p) ==
  IF hnd[p].base THEN [maps EXCEPT ![p].data = @ - 1] ELSE maps

(* gralloc_unmap, of a handle that is mapped.                              *)
Unmap(p) ==
  IF hnd[p].base
  THEN [maps EXCEPT ![p] = [data |-> @.data - 1,
                            meta |-> @.meta - (IF hnd[p].meta THEN 1 ELSE 0)]]
  ELSE maps

(* gralloc_unregister_buffer; then the client drops the handle.            *)
Unregister(p) ==
  /\ p \in Clients /\ hnd[p].st = "ready" /\ locks[p] = "none"
  /\ maps' = Unmap(p) /\ fds' = Closed(p) /\ Dropped(p)
  /\ UNCHANGED <<locks, cache, slipped, lost, fbVars>>

(* gralloc_free: terminateBuffer unmaps what is mapped, free_buffer the    *)
(* metadata of a buffer whose data was not, and closes the descriptors.    *)
Free ==
  LET h == hnd[Composer] IN
  /\ h.st = "ready" /\ locks[Composer] = "none"
  /\ maps' = IF h.base \/ ~h.meta THEN Unmap(Composer)
             ELSE [maps EXCEPT ![Composer].meta = @ - 1]
  /\ fds' = [fds EXCEPT ![Composer] =
       [data |-> @.data - 1, meta |-> @.meta - (IF buf.meta THEN 1 ELSE 0)]]
  /\ Dropped(Composer)
  /\ UNCHANGED <<locks, cache, slipped, lost, fbVars>>

-----------------------------------------------------------------------------
(* Who owns the buffer when is up to the queue it goes through: any number *)
(* of readers, or one writer.                                              *)
Writing(k) == k \in {"sww", "hww"}
MayLock(p, kind) ==
  /\ hnd[p].st = "ready" /\ locks[p] = "none"
  /\ \A q \in Procs : ~Writing(locks[q])
  /\ Writing(kind) => \A q \in Procs : locks[q] = "none"

Invalidated == /\ cache' = "ok" /\ lost' = (lost \/ cache = "dirty")

(* Faulty: a lock for writing does not ask for the flush.                  *)
LockSWUnflagged(p, kind) ==
  /\ MayLock(p, kind) /\ kind \in {"sw", "sww"} /\ ~Secure(buf)
  /\ locks' = [locks EXCEPT ![p] = kind] /\ Invalidated
  /\ UNCHANGED <<buf, hnd, fds, maps, slipped, fbVars>>

(* gralloc_map_and_invalidate for the CPU; secure memory has no address.   *)
(* The flag is set even when the cache operation fails and so the lock.    *)
LockSW(p, kind) ==
  /\ MayLock(p, kind) /\ kind \in {"sw", "sww"} /\ ~Secure(buf)
  /\ hnd' = [hnd EXCEPT ![p].needsFlush = @ \/ kind = "sww"]
  /\ \/ /\ locks' = [locks EXCEPT ![p] = kind] /\ Invalidated
     \/ UNCHANGED <<locks, cache, lost>>
  /\ UNCHANGED <<buf, fds, maps, slipped, fbVars>>

(* For hardware nothing is done but a flag.                                *)
LockHW(p, kind) ==
  /\ MayLock(p, kind) /\ kind \in {"hw", "hww"}
  /\ locks' = [locks EXCEPT ![p] = kind]
  /\ hnd' = [hnd EXCEPT ![p].doNotFlush = TRUE]
  /\ UNCHANGED <<buf, fds, maps, cache, slipped, lost, fbVars>>

(* gralloc_unlock: one of three, by the flags of the handle.               *)
Unlock(p) ==
  /\ locks[p] # "none" /\ locks' = [locks EXCEPT ![p] = "none"]
  /\ \/ /\ hnd[p].needsFlush
        /\ hnd' = [hnd EXCEPT ![p].needsFlush = FALSE]
        /\ \/ cache' = "ok" /\ UNCHANGED slipped
           \/ slipped' = TRUE /\ UNCHANGED cache
        /\ UNCHANGED lost
     \/ /\ ~hnd[p].needsFlush /\ hnd[p].doNotFlush
        /\ hnd' = [hnd EXCEPT ![p].doNotFlush = FALSE]
        /\ UNCHANGED <<cache, lost, slipped>>
     \/ /\ ~hnd[p].needsFlush /\ ~hnd[p].doNotFlush
        /\ UNCHANGED <<hnd, slipped>>
        /\ Invalidated \/ UNCHANGED <<cache, lost>>
  /\ UNCHANGED <<buf, fds, maps, fbVars>>

(* What is done with a lock: the CPU writes through its cache, hardware    *)
(* behind its back.                                                        *)
CpuWrites(p) ==
  /\ locks[p] = "sww" /\ Cached(buf) /\ cache' = "dirty"
  /\ UNCHANGED <<buf, hnd, fds, maps, locks, slipped, lost, fbVars>>
HardwareWrites(p) ==
  /\ locks[p] = "hww" /\ Cached(buf)
  /\ cache' = IF cache = "dirty" THEN cache ELSE "stale"
  /\ UNCHANGED <<buf, hnd, fds, maps, locks, slipped, lost, fbVars>>

-----------------------------------------------------------------------------
Stores(t, m) ==
  /\ mask' = m /\ fbRaced' = (fbRaced \/ fbReg[t] # mask)

(* mapFrameBufferLocked, at every open of the framebuffer device: it does  *)
(* nothing once m->framebuffer is set, and that is set before the mmap     *)
(* that may fail.                                                          *)
FbOpen ==
  /\ fbMem = "none" /\ \A t \in FbThreads : fbPc[t] \notin {"look", "set"}
  /\ fbMem' \in {"mapped", "broken"} /\ mask' = {}
  /\ UNCHANGED <<ionVars, fbHnd, fbPc, fbReg, fbRaced>>

(* gralloc_alloc_framebuffer_locked: no slot is left, or one is free in    *)
(* the mask as read under the lock.                                        *)
FbLook(t) ==
  /\ fbPc[t] = "idle" /\ fbHnd[t] = NoFb
  /\ \A u \in FbThreads : fbPc[u] \notin {"look", "set"}
  /\ fbMem # "none" /\ mask # Slots
  /\ fbPc' = [fbPc EXCEPT ![t] = "look"] /\ fbReg' = [fbReg EXCEPT ![t] = mask]
  /\ UNCHANGED <<ionVars, fbMem, mask, fbHnd, fbRaced>>

(* Faulty: slots are counted from one.                                     *)
FirstFreeFromOne(m) == 1 + CHOOSE i \in Slots \ m : \A j \in Slots \ m : i <= j

(* The first bit that is not set.                                          *)
FirstFree(m) == CHOOSE i \in Slots \ m : \A j \in Slots \ m : i <= j

(* bufferMask |= 1 << i loads the mask once more and stores it.            *)
FbLoad(t) ==
  /\ fbPc[t] = "look" /\ fbPc' = [fbPc EXCEPT ![t] = "set"]
  /\ fbHnd' = [fbHnd EXCEPT ![t] = [base |-> FirstFree(fbReg[t]) * SlotSize]]
  /\ fbReg' = [fbReg EXCEPT ![t] = mask]
  /\ UNCHANGED <<ionVars, fbMem, mask, fbRaced>>
FbStore(t) ==
  /\ fbPc[t] = "set" /\ fbPc' = [fbPc EXCEPT ![t] = "idle"]
  /\ Stores(t, fbReg[t] \cup {fbHnd[t].base \div SlotSize})
  /\ fbReg' = [fbReg EXCEPT ![t] = {}]
  /\ UNCHANGED <<ionVars, fbMem, fbHnd>>

(* Faulty: the rows of a slot are not counted.                             *)
FbIndexByLine(base) == base \div FbLine

(* free_impl: the index by the size that is not rounded up to pages.       *)
FbIndex(base) == base \div (FbLine * FbRows)

(* bufferMask &= ~(1 << index), without the lock.                          *)
FbFreeLoad(t) ==
  /\ fbPc[t] = "idle" /\ fbHnd[t] # NoFb
  /\ fbPc' = [fbPc EXCEPT ![t] = "clear"] /\ fbReg' = [fbReg EXCEPT ![t] = mask]
  /\ UNCHANGED <<ionVars, fbMem, mask, fbHnd, fbRaced>>
FbFreeStore(t) ==
  /\ fbPc[t] = "clear" /\ fbPc' = [fbPc EXCEPT ![t] = "idle"]
  /\ Stores(t, fbReg[t] \ {FbIndex(fbHnd[t].base)})
  /\ fbHnd' = [fbHnd EXCEPT ![t] = NoFb]
  /\ fbReg' = [fbReg EXCEPT ![t] = {}]
  /\ UNCHANGED <<ionVars, fbMem>>

Next ==
  \/ \E usage \in Usages, request \in Requests : Alloc(usage, request)
  \/ \E p \in Clients : Send(p) \/ Register(p) \/ Unregister(p)
  \/ Free
  \/ \E p \in Procs :
       \/ \E kind \in LockKinds : LockSW(p, kind) \/ LockHW(p, kind)
       \/ Unlock(p) \/ CpuWrites(p) \/ HardwareWrites(p)
  \/ FbOpen
  \/ \E t \in FbThreads :
       FbLook(t) \/ FbLoad(t) \/ FbStore(t) \/ FbFreeLoad(t) \/ FbFreeStore(t)

Spec == Init /\ [][Next]_vars

-----------------------------------------------------------------------------
(* A process holds one descriptor and one mapping of data and of metadata  *)
(* for the handle it has, none for a handle it has given back, and no      *)
(* mapping of secure data; a protected buffer lies in no heap it has not   *)
(* asked for.  Unless an mmap has failed, whichever way the buffer went.   *)
KernelHoldsWhatHandlesSay ==
  ~slipped => \A p \in Procs :
    LET h == hnd[p]  n(b) == IF b THEN 1 ELSE 0 IN
    /\ fds[p] = [data |-> n(h # NoHandle), meta |-> n(h # NoHandle /\ buf.meta)]
    /\ h.st # "sent" => maps[p] = [data |-> n(h.base), meta |-> n(h.meta)]
    /\ h # NoHandle /\ "PROTECTED" \in buf.usage =>
         buf.heaps = ionHeaps(buf.usage)
    /\ h # NoHandle /\ Secure(buf) => maps[p].data = 0

(* Writes of the CPU are in memory once the lock is given up, and are      *)
(* never thrown away; a CPU that has locked the buffer sees no content     *)
(* older than the last write of hardware.  Unless a cache operation has    *)
(* failed at unlock.                                                       *)
CacheIsCoherent ==
  ~slipped =>
    /\ ~lost
    /\ (\A p \in Procs : locks[p] # "sww") => cache # "dirty"
    /\ (\E p \in Procs : locks[p] \in {"sw", "sww"}) => cache # "stale"

(* The planes getYUVPlaneInfo announces lie in the buffer for the picture  *)
(* that was asked for, and do not overlap.  Unless the format is           *)
(* HAL_PIXEL_FORMAT_YCrCb_420_SP_ADRENO and one pixel goes beyond a        *)
(* multiple of 64: its chroma is allocated for the width halved before it  *)
(* is aligned, and announced with the width aligned.                       *)
PlanesFit ==
  buf # NoBuf =>
    LET f == buf.request[1]  w == buf.request[2]  h == buf.request[3]
        d == getBufferSizeAndDimensions(f, w, h)
        p == getYUVPlaneInfo(f, d.w, d.h)
        rows == IF f \in YUV422SP THEN h ELSE h \div 2
        End(c) == c + p.c * (rows - 1) + p.step * (w \div 2 - 1) IN
    p.ok /\ rows > 0 /\ w > 1 /\ (f = "YCrCb_420_SP_ADRENO" => w % 64 # 1) =>
      /\ End(p.cb) < d.size /\ End(p.cr) < d.size
      /\ p.y * (h - 1) + w <= p.cb /\ p.y * (h - 1) + w <= p.cr
      /\ p.step = 1 => p.cr + p.c * rows <= p.cb
      /\ p.step = 2 => p.cb - p.cr \in {-1, 1} /\ p.c >= 2 * (w \div 2)

(* No two handles have the same slot of the framebuffer, none has a slot   *)
(* the mask calls free, and the mask calls no slot taken that has come     *)
(* back; unless an update of the mask was lost between an allocation and a *)
(* free, which takes no lock.                                              *)
FbSlotsExclusive ==
  ~fbRaced =>
    /\ \A t \in FbThreads : fbHnd[t] # NoFb /\ fbPc[t] # "set" =>
         /\ fbHnd[t].base \div SlotSize \in mask
         /\ \A u \in FbThreads \ {t} : fbHnd[u] # fbHnd[t]
    /\ \A i \in mask : \E t \in FbThreads :
         fbHnd[t] # NoFb /\ fbHnd[t].base \div SlotSize = i

-----------------------------------------------------------------------------
(* The inductive invariants of the proofs.                                 *)
N(b) == IF b THEN 1 ELSE 0

(* What a process has mapped for its handle: nothing before it registers.  *)
Mapped(p) == IF hnd[p].st = "ready"
             THEN [data |-> N(hnd[p].base), meta |-> N(hnd[p].meta)] ELSE Nothing
Held(p) == [data |-> N(hnd[p] # NoHandle),
            meta |-> N(hnd[p] # NoHandle /\ buf.meta)]

(* The buffer lives for as long as a handle, and a handle's flags say what *)
(* was mapped for it.                                                      *)
BufferInv ==
  /\ buf = NoBuf <=> \A p \in Procs : hnd[p] = NoHandle
  /\ buf # NoBuf =>
       /\ buf.meta \in BOOLEAN
       /\ getBufferSizeAndDimensions(buf.request[1], buf.request[2],
                                     buf.request[3]).size > 0
       /\ "PROTECTED" \in buf.usage => buf.heaps = ionHeaps(buf.usage)
HandleInv ==
  /\ \A p \in Procs :
       /\ hnd[p].st = "none" => hnd[p] = NoHandle
       /\ hnd[p].st = "ready" => hnd[p].base = ~Secure(buf)
  /\ hnd[Composer].st # "sent"
  /\ hnd[Composer].st = "ready" => hnd[Composer].meta = buf.meta
  /\ \A p \in Clients :
       /\ hnd[p] # NoHandle => buf.meta
       /\ hnd[p].st = "ready" => hnd[p].meta = ~Secure(buf)

(* Only the composer leaks descriptors, and only a client a mapping, that  *)
(* of the data.                                                            *)
KernelInv ==
  /\ maps[Composer] = Mapped(Composer)
  /\ fds[Composer].data >= Held(Composer).data
  /\ fds[Composer].meta >= Held(Composer).meta
  /\ ~slipped => fds[Composer] = Held(Composer)
  /\ \A p \in Clients :
       /\ fds[p] = Held(p) /\ maps[p].meta = Mapped(p).meta
       /\ maps[p].data >= Mapped(p).data
       /\ ~slipped => maps[p].data = Mapped(p).data

(* Who writes is alone, has registered, and will flush.                    *)
LocksInv ==
  \A p \in Procs :
    /\ locks[p] # "none" => hnd[p].st = "ready"
    /\ locks[p] = "sww" => hnd[p].needsFlush
    /\ Writing(locks[p]) => \A q \in Procs \ {p} : locks[q] = "none"

(* m->lock is held by one thread at a time, and nobody is inside before    *)
(* the framebuffer is open; handles lie at the start of a slot.            *)
FbShapeInv ==
  /\ \A t, u \in FbThreads :
       fbPc[t] \in {"look", "set"} /\ fbPc[u] \in {"look", "set"} => t = u
  /\ fbMem = "none" =>
       mask = {} /\ \A t \in FbThreads : fbPc[t] = "idle" /\ fbHnd[t] = NoFb
  /\ \A t \in FbThreads :
       /\ fbHnd[t] # NoFb => \E i \in Slots : fbHnd[t] = [base |-> i * SlotSize]
       /\ fbPc[t] = "look" => fbHnd[t] = NoFb /\ fbReg[t] # Slots
       /\ fbPc[t] \in {"set", "clear"} => fbHnd[t] # NoFb

IInv == TypeOK /\ BufferInv /\ HandleInv /\ KernelInv /\ LocksInv
        /\ CacheIsCoherent /\ FbShapeInv

(* The slot an allocation has chosen is still free when it stores it.      *)
FbChoiceInv ==
  ~fbRaced => \A t \in FbThreads :
    /\ fbPc[t] = "look" => mask \subseteq fbReg[t]
    /\ fbPc[t] = "set" => fbHnd[t].base \div SlotSize \notin mask
FbInv == FbShapeInv /\ FbChoiceInv /\ FbSlotsExclusive

(* What rounding a slot up to pages adds to the slots before the last one  *)
(* is less than a slot: free_impl, which divides by the size that is not   *)
(* rounded, then finds the index.                                          *)
HolesFit == (numBuffers - 1) * (SlotSize - FbLine * FbRows) < FbLine * FbRows
=============================================================================
