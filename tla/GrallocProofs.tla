---------------------------- MODULE GrallocProofs ----------------------------
(***************************************************************************)
(* Proofs about gralloc: for any number of client processes, of threads    *)
(* and of slots, any set of usages and requests, and requests of any size. *)
(***************************************************************************)
EXTENDS Gralloc, NatFacts

LEMMA ConstantFacts ==
  /\ Composer \in Procs /\ Composer \notin Clients /\ Clients \subseteq Procs
  /\ Procs = {Composer} \cup Clients
  /\ MaxFds \in Nat \ {0} /\ numBuffers \in Nat \ {0}
BY GrallocAssumption DEF Procs

(* A slot is at least what the picture takes.                              *)
LEMMA SlotFacts ==
  /\ FbLine * FbRows \in Nat \ {0} /\ SlotSize \in Nat \ {0}
  /\ FbLine * FbRows <= SlotSize
<1>1. FbLine \in Nat \ {0} /\ FbRows \in Nat \ {0}
  BY GrallocAssumption
<1>2. FbLine * FbRows \in Nat \ {0}
  BY <1>1
<1> DEFINE X == FbLine * FbRows
<1>3. X \in Nat /\ X >= 1
  BY <1>2
<1> HIDE DEF X
<1>4. ((X + 4096 - 1) \div 4096) * 4096 \in Nat /\ X <= ((X + 4096 - 1) \div 4096) * 4096
  BY <1>3, RoundUpFacts
<1>5. SlotSize = ((X + 4096 - 1) \div 4096) * 4096
  BY DEF X, SlotSize, ALIGN, PAGE
<1>6. SlotSize \in Nat \ {0} /\ X <= SlotSize
  BY <1>3, <1>4, <1>5
<1> QED
  BY <1>2, <1>6 DEF X

-----------------------------------------------------------------------------
(* The type invariant of the two parts.                                    *)
IonTypeOK ==
  /\ buf = NoBuf \/ (buf.usage \in Usages /\ buf.request \in Requests
                     /\ buf.type \in {"UI", "VIDEO"})
  /\ hnd \in [Procs -> Handles]
  /\ fds \in [Procs -> Kernel] /\ maps \in [Procs -> Kernel]
  /\ locks \in [Procs -> LockKinds] /\ cache \in {"ok", "dirty", "stale"}
  /\ {slipped, lost} \subseteq BOOLEAN
FbTypeOK ==
  /\ fbRaced \in BOOLEAN
  /\ fbMem \in {"none", "mapped", "broken"} /\ mask \subseteq Slots
  /\ fbHnd \in [FbThreads -> {NoFb} \cup [base : Nat]]
  /\ fbPc \in [FbThreads -> {"idle", "look", "set", "clear"}]
  /\ fbReg \in [FbThreads -> SUBSET Slots]
IonInv == IonTypeOK /\ BufferInv /\ HandleInv /\ KernelInv /\ LocksInv /\ CacheIsCoherent

LEMMA Parts == IInv <=> IonInv /\ FbTypeOK /\ FbShapeInv
<1>1. TypeOK <=> IonTypeOK /\ FbTypeOK
  BY Zenon DEF TypeOK, IonTypeOK, FbTypeOK
<1> QED
  BY <1>1 DEF IInv, IonInv

(* The two parts share nothing.                                            *)
LEMMA FbUnchanged ==
  ASSUME FbTypeOK, FbShapeInv, UNCHANGED fbVars
  PROVE  FbTypeOK' /\ FbShapeInv'
BY DEF FbTypeOK, FbShapeInv, fbVars

LEMMA IonUnchanged ==
  ASSUME IonInv, UNCHANGED ionVars
  PROVE  IonInv'
<1> USE DEF ionVars, IonInv
<1>1. IonTypeOK'
  BY DEF IonTypeOK
<1>2. BufferInv'
  BY DEF BufferInv
<1>3. HandleInv'
  BY DEF HandleInv, Secure
<1>4. KernelInv'
  BY DEF KernelInv, Mapped, Held
<1>5. LocksInv' /\ CacheIsCoherent'
  BY DEF LocksInv, CacheIsCoherent
<1> QED
  BY <1>1, <1>2, <1>3, <1>4, <1>5

-----------------------------------------------------------------------------
(* The initial state satisfies the inductive invariant.                    *)
LEMMA InitIInv == Init => IInv
<1> SUFFICES ASSUME Init PROVE IInv
  OBVIOUS
<1>0. NoHandle \in Handles /\ Nothing \in Kernel /\ NoHandle.st = "none"
  BY ConstantFacts DEF Handles, Kernel, NoHandle, Nothing
<1>1. IonTypeOK
  BY <1>0 DEF Init, IonTypeOK, LockKinds
<1>2. FbTypeOK
  BY DEF Init, FbTypeOK
<1>3. BufferInv
  BY DEF Init, BufferInv
<1>4. HandleInv
  BY ConstantFacts DEF Init, HandleInv, NoHandle
<1>5. KernelInv
  <2>1. \A p \in Procs : Mapped(p) = Nothing /\ Held(p) = Nothing
                         /\ maps[p] = Nothing /\ fds[p] = Nothing
    BY <1>0 DEF Init, Mapped, Held, Nothing, N
  <2>2. 0 >= 0
    OBVIOUS
  <2> QED
    BY <2>1, <2>2, ConstantFacts DEF KernelInv, Nothing
<1>6. LocksInv /\ CacheIsCoherent
  BY DEF Init, LocksInv, CacheIsCoherent, Writing
<1>7. FbShapeInv
  BY DEF Init, FbShapeInv
<1> QED
  BY <1>1, <1>2, <1>3, <1>4, <1>5, <1>6, <1>7, Parts DEF IonInv

-----------------------------------------------------------------------------
(* The life of a buffer.                                                   *)

LEMMA IonAllocFacts ==
  ASSUME NEW s \in BOOLEAN, NEW a \in IonAlloc(s)
  PROVE  /\ a.ok \in BOOLEAN /\ a.map \in {0, 1} /\ a.leaked \in Nat
         /\ a.ok => (a.map = 1 <=> ~s)
<1>1. CASE a = [ok |-> TRUE, map |-> IF s THEN 0 ELSE 1, leaked |-> 0]
  BY <1>1
<1>2. CASE a = [ok |-> FALSE, map |-> 0, leaked |-> 0]
  BY <1>2
<1>3. CASE a = [ok |-> FALSE, map |-> 0, leaked |-> 1]
  BY <1>3
<1> QED
  BY <1>1, <1>2, <1>3 DEF IonAlloc

(* What an allocation comes to: a mapping unless the memory is secure, and *)
(* the heaps that were asked for if it is protected.                       *)
LEMMA AllocateFacts ==
  ASSUME NEW usage, NEW d \in allocate(usage)
  PROVE  /\ d.ok \in BOOLEAN /\ d.map \in {0, 1} /\ d.leaked \in Nat
         /\ d.ok => (d.map = 1 <=> "CP_MM" \notin d.heaps)
         /\ d.ok /\ "PROTECTED" \in usage => d.heaps = ionHeaps(usage)
<1>1. "CP_MM" \in ionHeaps(usage) <=> Secured(usage)
  BY DEF ionHeaps
<1>2. Secured(usage) => ~canFallback(usage)
  BY DEF Secured, canFallback
<1>3. "PROTECTED" \in usage => ~canFallback(usage)
  BY DEF canFallback
<1>4. \A s \in BOOLEAN : \A a \in IonAlloc(s) :
        a.ok \in BOOLEAN /\ a.map \in {0, 1} /\ a.leaked \in Nat
        /\ (a.ok => (a.map = 1 <=> ~s))
  BY IonAllocFacts
<1>5. Secured(usage) \in BOOLEAN
  BY DEF Secured
<1>6. CASE \E a \in {o \in IonAlloc(Secured(usage)) : o.ok \/ ~canFallback(usage)} :
             d = [ok |-> a.ok, map |-> a.map, leaked |-> a.leaked, heaps |-> ionHeaps(usage)]
  BY <1>1, <1>4, <1>5, <1>6
<1>7. CASE \E a \in {o \in IonAlloc(Secured(usage)) : ~o.ok /\ canFallback(usage)},
              b \in IonAlloc(FALSE) :
             d = [ok |-> b.ok, map |-> b.map, leaked |-> a.leaked + b.leaked,
                  heaps |-> {"SYSTEM"}]
  <2>1. PICK a \in IonAlloc(Secured(usage)), b \in IonAlloc(FALSE) :
          /\ canFallback(usage)
          /\ d = [ok |-> b.ok, map |-> b.map, leaked |-> a.leaked + b.leaked,
                  heaps |-> {"SYSTEM"}]
    BY <1>7
  <2>2. a.leaked \in Nat /\ b.leaked \in Nat /\ b.ok \in BOOLEAN /\ b.map \in {0, 1}
        /\ (b.ok => b.map = 1)
    BY <1>4, <1>5
  <2>3. d.ok = b.ok /\ d.map = b.map /\ d.leaked = a.leaked + b.leaked
        /\ d.heaps = {"SYSTEM"}
    BY <2>1
  <2>4. "CP_MM" \notin d.heaps
    BY <2>3
  <2> QED
    BY <1>3, <2>1, <2>2, <2>3, <2>4
<1> DEFINE First == {[ok |-> a.ok, map |-> a.map, leaked |-> a.leaked, heaps |-> ionHeaps(usage)] :
                       a \in {o \in IonAlloc(Secured(usage)) : o.ok \/ ~canFallback(usage)}}
           Failed == {o \in IonAlloc(Secured(usage)) : ~o.ok /\ canFallback(usage)}
           Retried == IonAlloc(FALSE)
           Second == {[ok |-> b.ok, map |-> b.map, leaked |-> a.leaked + b.leaked,
                       heaps |-> {"SYSTEM"}] :
                        a \in Failed, b \in Retried}
<1>8. d \in First \/ d \in Second
  <2>1. allocate(usage) = First \cup Second
    BY DEF allocate
  <2> HIDE DEF First, Second
  <2> QED
    BY <2>1
<1>9. CASE d \in First
  <2>1. \E a \in {o \in IonAlloc(Secured(usage)) : o.ok \/ ~canFallback(usage)} :
          d = [ok |-> a.ok, map |-> a.map, leaked |-> a.leaked, heaps |-> ionHeaps(usage)]
    BY <1>9
  <2> QED
    BY <2>1, <1>6
<1>10. CASE d \in Second
  <2> HIDE DEF Failed, Retried
  <2>1. \E a \in Failed, b \in Retried :
          d = [ok |-> b.ok, map |-> b.map, leaked |-> a.leaked + b.leaked,
               heaps |-> {"SYSTEM"}]
    BY <1>10
  <2> QED
    BY <2>1, <1>7 DEF Failed, Retried
<1> HIDE DEF First, Second
<1> QED
  BY <1>8, <1>9, <1>10

LEMMA TypeOfBuffer ==
  ASSUME NEW f, NEW usage
  PROVE  bufferType(f, usage) \in {"UI", "VIDEO"}
BY DEF bufferType, getGrallocInformationFromFormat

LEMMA AllocPreserves ==
  ASSUME IonInv, NEW usage \in Usages, NEW request \in Requests, Alloc(usage, request)
  PROVE  IonInv'
<1> USE DEF IonInv
<1> DEFINE dims == getBufferSizeAndDimensions(request[1], request[2], request[3])
<1>1. buf = NoBuf /\ dims.size > 0 /\ UNCHANGED <<locks, lost>>
      /\ \A p \in Procs : hnd[p] = NoHandle
  BY DEF Alloc, Gone, BufferInv
<1>2. PICK d \in allocate(usage), m \in IonAlloc(FALSE) :
        LET fd == IF d.ok THEN 1 ELSE 0
            mfd == IF d.ok /\ m.ok THEN 1 ELSE 0
            mleak == IF d.ok THEN m.leaked ELSE 0 IN
        /\ fds[Composer].data + d.leaked + fd <= MaxFds
        /\ fds[Composer].meta + mleak + mfd <= MaxFds
        /\ fds' = [fds EXCEPT ![Composer] =
             [data |-> @.data + d.leaked + fd, meta |-> @.meta + mleak + mfd]]
        /\ slipped' = (slipped \/ d.leaked + mleak > 0)
        /\ IF d.ok
           THEN /\ buf' = [usage |-> usage, request |-> request,
                           type |-> bufferType(request[1], usage),
                           heaps |-> d.heaps, meta |-> m.ok]
                /\ hnd' = [hnd EXCEPT ![Composer] =
                     [NoHandle EXCEPT !.st = "ready", !.base = (d.map = 1),
                                      !.meta = m.ok]]
                /\ maps' = [maps EXCEPT ![Composer] =
                     [data |-> @.data + d.map, meta |-> @.meta + mfd]]
                /\ cache' = "ok"
           ELSE UNCHANGED <<buf, hnd, maps, cache>>
  BY DEF Alloc
<1> DEFINE fd == IF d.ok THEN 1 ELSE 0
           mfd == IF d.ok /\ m.ok THEN 1 ELSE 0
           mleak == IF d.ok THEN m.leaked ELSE 0
<1>3. /\ d.ok \in BOOLEAN /\ d.map \in {0, 1} /\ d.leaked \in Nat
      /\ d.ok => (d.map = 1 <=> "CP_MM" \notin d.heaps)
      /\ d.ok /\ "PROTECTED" \in usage => d.heaps = ionHeaps(usage)
  BY AllocateFacts
<1>4. m.ok \in BOOLEAN /\ m.leaked \in Nat
  BY IonAllocFacts
<1>5. fd \in {0, 1} /\ mfd \in {0, 1} /\ mleak \in Nat /\ (fd = 1 <=> d.ok)
      /\ (d.ok => mfd = N(m.ok)) /\ (~d.ok => mfd = 0 /\ mleak = 0)
  BY <1>3, <1>4 DEF N
<1> HIDE DEF fd, mfd, mleak, dims
<1>6. \A p \in Procs : Mapped(p) = Nothing /\ Held(p) = Nothing
  BY <1>1 DEF Mapped, Held, NoHandle, Nothing, N
<1>7. /\ fds[Composer].data \in Nat /\ fds[Composer].meta \in Nat
      /\ maps[Composer].data = 0 /\ maps[Composer].meta = 0
      /\ ~slipped => fds[Composer].data = 0 /\ fds[Composer].meta = 0
  BY <1>6, ConstantFacts DEF IonTypeOK, Kernel, KernelInv, Nothing
<1>8. /\ fds'[Composer] = [data |-> fds[Composer].data + d.leaked + fd,
                           meta |-> fds[Composer].meta + mleak + mfd]
      /\ fds[Composer].data + d.leaked + fd <= MaxFds
      /\ fds[Composer].meta + mleak + mfd <= MaxFds
      /\ \A p \in Clients : fds'[p] = fds[p]
  BY <1>2, ConstantFacts DEF fd, mfd, mleak, IonTypeOK
<1>9. slipped' = (slipped \/ d.leaked + mleak > 0)
  BY <1>2 DEF mleak
<1>10. fds' \in [Procs -> Kernel] /\ slipped' \in BOOLEAN
  <2>1. fds'[Composer] \in Kernel
    BY <1>3, <1>5, <1>7, <1>8, ConstantFacts DEF Kernel
  <2> QED
    BY <2>1, <1>2, <1>9, ConstantFacts DEF IonTypeOK
<1>11. /\ fds'[Composer].data >= fd /\ fds'[Composer].meta >= mfd
       /\ ~slipped' => ~slipped /\ fds'[Composer] = [data |-> fd, meta |-> mfd]
  <2>1. fds'[Composer].data >= fd /\ fds'[Composer].meta >= mfd
    BY <1>3, <1>5, <1>7, <1>8
  <2>2. ~slipped' => ~slipped /\ d.leaked = 0 /\ mleak = 0
    <3>1. ~slipped' => ~slipped /\ ~(d.leaked + mleak > 0)
      BY <1>9, Zenon
    <3> QED
      BY <3>1, <1>3, <1>5
  <2>3. ~slipped' => fds[Composer].data + d.leaked + fd = fd
                     /\ fds[Composer].meta + mleak + mfd = mfd
    BY <2>2, <1>5, <1>7
  <2> QED
    BY <2>1, <2>2, <2>3, <1>8
<1>12. CASE ~d.ok
  <2>1. UNCHANGED <<buf, hnd, maps, cache, locks, lost>> /\ fd = 0 /\ mfd = 0
    BY <1>1, <1>2, <1>5, <1>12
  <2>2. IonTypeOK'
    BY <2>1, <1>10 DEF IonTypeOK
  <2>3. BufferInv' /\ HandleInv' /\ LocksInv'
    BY <2>1 DEF BufferInv, HandleInv, LocksInv, Secure
  <2>4. KernelInv'
    <3>1. \A p \in Procs : Mapped(p)' = Mapped(p) /\ Held(p)' = Held(p)
      BY <2>1 DEF Mapped, Held
    <3> QED
      BY <2>1, <3>1, <1>6, <1>8, <1>11, ConstantFacts DEF KernelInv, Nothing
  <2>5. CacheIsCoherent'
    BY <2>1, <1>11 DEF CacheIsCoherent
  <2> QED
    BY <2>2, <2>3, <2>4, <2>5
<1>13. CASE d.ok
  <2> DEFINE h == [NoHandle EXCEPT !.st = "ready", !.base = (d.map = 1), !.meta = m.ok]
  <2>1. /\ buf' = [usage |-> usage, request |-> request,
                   type |-> bufferType(request[1], usage),
                   heaps |-> d.heaps, meta |-> m.ok]
        /\ hnd' = [hnd EXCEPT ![Composer] = h]
        /\ maps' = [maps EXCEPT ![Composer] =
             [data |-> @.data + d.map, meta |-> @.meta + mfd]]
        /\ cache' = "ok"
    BY <1>2, <1>13 DEF mfd
  <2>2. h \in Handles /\ h.st = "ready" /\ h.base = (d.map = 1) /\ h.meta = m.ok
        /\ h # NoHandle
    BY <1>4 DEF NoHandle, Handles
  <2> HIDE DEF h
  <2>3. hnd'[Composer] = h /\ \A p \in Clients : hnd'[p] = NoHandle
    BY <2>1, <1>1, ConstantFacts DEF IonTypeOK
  <2>4. buf'.usage = usage /\ buf'.request = request /\ buf'.heaps = d.heaps
        /\ buf'.meta = m.ok /\ buf'.type \in {"UI", "VIDEO"} /\ buf' # NoBuf
    BY <2>1, TypeOfBuffer DEF NoBuf
  <2>5. maps'[Composer] = [data |-> d.map, meta |-> mfd]
        /\ \A p \in Clients : maps'[p] = maps[p]
    BY <2>1, <1>3, <1>5, <1>7, ConstantFacts DEF IonTypeOK
  <2>6. IonTypeOK'
    <3>1. hnd' \in [Procs -> Handles]
      BY <2>1, <2>2 DEF IonTypeOK
    <3>2. maps'[Composer] \in Kernel
      BY <2>5, <1>3, <1>5, ConstantFacts DEF Kernel
    <3>3. maps' \in [Procs -> Kernel]
      BY <2>1, <3>2, ConstantFacts DEF IonTypeOK
    <3> QED
      BY <2>1, <2>4, <3>1, <3>3, <1>1, <1>10 DEF IonTypeOK
  <2>7. BufferInv'
    BY <2>2, <2>3, <2>4, <1>1, <1>3, <1>4, <1>13, ConstantFacts DEF BufferInv, dims
  <2>8. HandleInv'
    BY <2>2, <2>3, <2>4, <1>3, <1>13, ConstantFacts DEF HandleInv, Secure, NoHandle
  <2>9. KernelInv'
    <3>1. Mapped(Composer)' = [data |-> d.map, meta |-> mfd]
      BY <2>2, <2>3, <1>3, <1>5, <1>13 DEF Mapped, N
    <3>2. Held(Composer)' = [data |-> fd, meta |-> mfd]
      BY <2>2, <2>3, <2>4, <1>4, <1>5, <1>13 DEF Held, N
    <3>3. \A p \in Clients : Mapped(p)' = Mapped(p) /\ Held(p)' = Held(p)
      BY <2>3, <1>1, ConstantFacts DEF Mapped, Held, NoHandle
    <3> QED
      BY <2>5, <3>1, <3>2, <3>3, <1>8, <1>11 DEF KernelInv
  <2>10. LocksInv'
    <3>1. \A p \in Procs : hnd[p].st # "ready"
      BY <1>1 DEF NoHandle
    <3>2. \A p \in Procs : locks[p] = "none"
      BY <3>1 DEF LocksInv
    <3> QED
      BY <3>2, <1>1 DEF LocksInv, Writing
  <2>11. CacheIsCoherent'
    BY <2>1, <1>1, <1>11 DEF CacheIsCoherent
  <2> QED
    BY <2>6, <2>7, <2>8, <2>9, <2>10, <2>11
<1> QED
  BY <1>3, <1>12, <1>13

(* Counts of the kernel are naturals.                                      *)
LEMMA CountFacts ==
  ASSUME IonInv, NEW p \in Procs
  PROVE  /\ fds[p].data \in 0 .. MaxFds /\ fds[p].meta \in 0 .. MaxFds
         /\ maps[p].data \in 0 .. MaxFds /\ maps[p].meta \in 0 .. MaxFds
         /\ fds[p] = [data |-> fds[p].data, meta |-> fds[p].meta]
         /\ maps[p] = [data |-> maps[p].data, meta |-> maps[p].meta]
         /\ hnd[p] \in Handles
         /\ hnd[p] # NoHandle <=> hnd[p].st # "none"
         /\ hnd[p] # NoHandle => buf # NoBuf /\ buf.meta \in BOOLEAN
         /\ hnd[p].base \in BOOLEAN /\ hnd[p].meta \in BOOLEAN
<1>1. fds[p] \in Kernel /\ maps[p] \in Kernel /\ hnd[p] \in Handles
  BY DEF IonInv, IonTypeOK
<1>2. hnd[p] # NoHandle <=> hnd[p].st # "none"
  BY DEF IonInv, HandleInv, NoHandle
<1>3. hnd[p] # NoHandle => buf # NoBuf /\ buf.meta \in BOOLEAN
  BY DEF IonInv, BufferInv
<1> QED
  BY <1>1, <1>2, <1>3 DEF Kernel, Handles

(* A client that is sent the buffer has mapped nothing yet.                *)
LEMMA SendPreserves ==
  ASSUME IonInv, NEW p \in Clients, Send(p)
  PROVE  IonInv'
<1> USE DEF IonInv
<1> DEFINE h == [hnd[Composer] EXCEPT !.st = "sent"]
<1>0. p \in Procs /\ p # Composer
  BY ConstantFacts
<1>1. /\ hnd[Composer].st = "ready" /\ hnd[p] = NoHandle /\ buf.meta
      /\ fds[p].data < MaxFds /\ fds[p].meta < MaxFds
      /\ hnd' = [hnd EXCEPT ![p] = h]
      /\ fds' = [fds EXCEPT ![p] = [data |-> @.data + 1, meta |-> @.meta + 1]]
      /\ UNCHANGED <<buf, maps, locks, cache, slipped, lost>>
  BY DEF Send
<1>2. h \in Handles /\ h.st = "sent" /\ h # NoHandle
  BY ConstantFacts DEF IonTypeOK, Handles, NoHandle
<1> HIDE DEF h
<1>3. hnd'[p] = h /\ \A q \in Procs \ {p} : hnd'[q] = hnd[q]
  BY <1>0, <1>1 DEF IonTypeOK
<1>4. /\ \A q \in Procs \ {p} : Mapped(q)' = Mapped(q) /\ Held(q)' = Held(q)
      /\ Mapped(p) = Nothing /\ Mapped(p)' = Nothing
      /\ Held(p) = Nothing /\ Held(p)' = [data |-> 1, meta |-> 1]
  BY <1>1, <1>2, <1>3, <1>0 DEF Mapped, Held, Nothing, N, NoHandle
<1>5. fds[p].data = 0 /\ fds[p].meta = 0
  BY <1>4 DEF KernelInv, Nothing
<1>6. fds'[p] = [data |-> 1, meta |-> 1] /\ \A q \in Procs \ {p} : fds'[q] = fds[q]
  BY <1>0, <1>1, <1>5 DEF IonTypeOK
<1>7. IonTypeOK'
  <2>1. fds'[p] \in Kernel
    BY <1>6, ConstantFacts DEF Kernel
  <2> QED
    BY <1>0, <1>1, <1>2, <2>1 DEF IonTypeOK
<1>8. BufferInv'
  <2>1. buf # NoBuf
    BY <1>1, ConstantFacts, CountFacts
  <2>2. hnd'[p] # NoHandle
    BY <1>2, <1>3
  <2> QED
    BY <1>0, <1>1, <2>1, <2>2 DEF BufferInv
<1>9. HandleInv'
  <2>1. /\ \A q \in Procs \ {p} : hnd'[q] = hnd[q]
        /\ Composer \in Procs \ {p} /\ Clients \subseteq Procs
        /\ hnd'[p].st # "none" /\ hnd'[p].st # "ready" /\ buf' = buf /\ buf.meta
    BY <1>0, <1>1, <1>2, <1>3, ConstantFacts
  <2> QED
    BY <2>1 DEF HandleInv, Secure
<1>10. KernelInv'
  BY <1>0, <1>1, <1>4, <1>6, ConstantFacts DEF KernelInv
<1>11. LocksInv'
  <2>0. hnd[p].st # "ready"
    BY <1>1 DEF NoHandle
  <2>1. locks[p] = "none"
    BY <1>0, <2>0 DEF LocksInv
  <2> QED
    BY <1>0, <1>1, <1>3, <2>1 DEF LocksInv
<1>12. CacheIsCoherent'
  BY <1>1 DEF CacheIsCoherent
<1> QED
  BY <1>7, <1>8, <1>9, <1>10, <1>11, <1>12

(* What a process leaves behind that drops its handle: the handles of the  *)
(* others, and the buffer if there is one.                                 *)
LEMMA DroppedFacts ==
  ASSUME IonInv, NEW p \in Procs, hnd[p] # NoHandle, Dropped(p)
  PROVE  /\ hnd' \in [Procs -> Handles] /\ hnd'[p] = NoHandle
         /\ \A q \in Procs \ {p} : hnd'[q] = hnd[q]
         /\ buf' = NoBuf \/ buf' = buf
         /\ BufferInv' /\ HandleInv'
         /\ Mapped(p)' = Nothing /\ Held(p)' = Nothing
         /\ \A q \in Procs \ {p} : Mapped(q)' = Mapped(q) /\ Held(q)' = Held(q)
<1> USE DEF IonInv
<1>1. NoHandle \in Handles /\ NoHandle.st = "none"
  BY DEF NoHandle, Handles
<1>2. hnd' \in [Procs -> Handles] /\ hnd'[p] = NoHandle
      /\ \A q \in Procs \ {p} : hnd'[q] = hnd[q]
  BY <1>1 DEF Dropped, IonTypeOK
<1>3. \/ buf' = NoBuf /\ \A q \in Procs : hnd'[q] = NoHandle
      \/ buf' = buf /\ \E q \in Procs : hnd'[q] # NoHandle
  BY <1>2 DEF Dropped
<1>4. BufferInv'
  <2>1. buf # NoBuf
    BY DEF BufferInv
  <2> QED
    BY <2>1, <1>3 DEF BufferInv
<1>5. HandleInv'
  BY <1>1, <1>2, <1>3, ConstantFacts DEF HandleInv, Secure
<1>6. Mapped(p)' = Nothing /\ Held(p)' = Nothing
  BY <1>1, <1>2 DEF Mapped, Held, Nothing, N
<1>7. \A q \in Procs \ {p} : Mapped(q)' = Mapped(q) /\ Held(q)' = Held(q)
  <2> TAKE q \in Procs \ {p}
  <2>0. q \in Procs /\ hnd'[q] = hnd[q]
    BY <1>2
  <2>1. Mapped(q)' = Mapped(q)
    BY <2>0 DEF Mapped
  <2>2. CASE hnd[q] = NoHandle
    <3>1. Held(q) = [data |-> 0, meta |-> 0]
      BY <2>2 DEF Held, N
    <3>2. Held(q)' = [data |-> 0, meta |-> 0]
      BY <2>0, <2>2 DEF Held, N
    <3> QED
      BY <2>1, <3>1, <3>2
  <2>3. CASE hnd[q] # NoHandle
    <3>1. buf' = buf
      BY <2>0, <2>3, <1>3
    <3> QED
      BY <2>0, <2>1, <3>1 DEF Held
  <2> QED
    BY <2>1, <2>2, <2>3
<1> QED
  BY <1>2, <1>3, <1>4, <1>5, <1>6, <1>7

LEMMA DroppedUnlocked ==
  ASSUME IonInv, NEW p \in Procs, hnd[p] # NoHandle, Dropped(p), locks[p] = "none",
         locks' = locks
  PROVE  LocksInv'
BY DroppedFacts DEF IonInv, LocksInv

(* Registering maps both parts, or neither of a secure buffer.             *)
LEMMA RegisterMapsPreserves ==
  ASSUME IonInv, NEW p \in Clients, hnd[p].st = "sent", maps[p].data < MaxFds,
         hnd' = [hnd EXCEPT ![p].st = "ready", ![p].base = ~Secure(buf),
                            ![p].meta = ~Secure(buf)],
         maps' = IF Secure(buf) THEN maps
                 ELSE [maps EXCEPT ![p] = [data |-> @.data + 1, meta |-> @.meta + 1]],
         UNCHANGED <<buf, fds, slipped, locks, cache, lost>>
  PROVE  IonInv'
<1> USE DEF IonInv
<1>0. p \in Procs /\ p # Composer /\ hnd[p] # NoHandle /\ Secure(buf) \in BOOLEAN
  BY ConstantFacts DEF NoHandle, Secure
<1>1. /\ hnd' \in [Procs -> Handles]
      /\ \A q \in Procs \ {p} : hnd'[q] = hnd[q]
      /\ hnd'[p].st = "ready" /\ hnd'[p].base = ~Secure(buf)
      /\ hnd'[p].meta = ~Secure(buf) /\ hnd'[p].needsFlush = hnd[p].needsFlush
  <2> DEFINE h == [hnd[p] EXCEPT !.st = "ready", !.base = ~Secure(buf), !.meta = ~Secure(buf)]
  <2>1. hnd[p] \in Handles /\ hnd \in [Procs -> Handles]
    BY <1>0 DEF IonTypeOK
  <2>2. h \in Handles /\ h.st = "ready" /\ h.base = ~Secure(buf) /\ h.meta = ~Secure(buf)
        /\ h.needsFlush = hnd[p].needsFlush
    BY <1>0, <2>1 DEF Handles
  <2>3. hnd' = [hnd EXCEPT ![p] = h]
    BY <1>0, <2>1
  <2> HIDE DEF h
  <2> QED
    BY ZenonT(40), <1>0, <2>1, <2>2, <2>3
<1>2. hnd'[p] # NoHandle
  <2>1. NoHandle.st = "none"
    BY DEF NoHandle
  <2> QED
    BY <1>1, <2>1
<1>3. \A q \in Procs : Held(q)' = Held(q)
  BY <1>0, <1>1, <1>2 DEF Held
<1>4. /\ \A q \in Procs \ {p} : Mapped(q)' = Mapped(q)
      /\ Mapped(p) = Nothing
      /\ Mapped(p)' = [data |-> N(~Secure(buf)), meta |-> N(~Secure(buf))]
  BY <1>0, <1>1 DEF Mapped
<1>5. /\ \A q \in Procs \ {p} : maps'[q] = maps[q]
      /\ maps'[p].data = maps[p].data + N(~Secure(buf))
      /\ maps'[p].meta = maps[p].meta + N(~Secure(buf))
      /\ maps' \in [Procs -> Kernel]
  <2>1. maps[p].data \in Nat /\ maps[p].data < MaxFds /\ maps[p].meta = 0 /\ MaxFds \in Nat \ {0}
    <3>1. maps[p].meta = 0
      BY <1>4 DEF KernelInv, Nothing
    <3>2. maps[p].data \in Nat
      BY <1>0, ConstantFacts DEF IonTypeOK, Kernel
    <3> QED
      BY <3>1, <3>2, ConstantFacts
  <2>2. CASE Secure(buf)
    BY <2>1, <2>2 DEF IonTypeOK, N
  <2>3. CASE ~Secure(buf)
    <3>1. maps'[p] = [data |-> maps[p].data + 1, meta |-> maps[p].meta + 1]
          /\ \A q \in Procs \ {p} : maps'[q] = maps[q]
      BY <1>0, <2>3 DEF IonTypeOK
    <3>2. maps'[p] \in Kernel
      BY <2>1, <3>1 DEF Kernel
    <3>3. maps' \in [Procs -> Kernel]
      BY <1>0, <2>3, <3>2 DEF IonTypeOK
    <3> QED
      BY <3>1, <3>3, <2>3 DEF N
  <2> QED
    BY <1>0, <2>2, <2>3
<1>6. IonTypeOK'
  BY <1>1, <1>5 DEF IonTypeOK
<1>7. BufferInv'
  BY <1>0, <1>1, <1>2 DEF BufferInv
<1>8. HandleInv'
  BY <1>0, <1>1, <1>2, ConstantFacts DEF HandleInv, Secure
<1>9. KernelInv'
  <2>1. maps'[p].meta = Mapped(p)'.meta /\ maps'[p].data >= Mapped(p)'.data
        /\ (~slipped => maps'[p].data = Mapped(p)'.data)
    <3>0. maps[p].data \in Nat
      BY <1>0, ConstantFacts DEF IonTypeOK, Kernel
    <3>1. maps[p].meta = 0 /\ maps[p].data \in Nat /\ (~slipped => maps[p].data = 0)
      BY <1>4, <3>0 DEF KernelInv, Nothing
    <3>2. N(~Secure(buf)) \in Nat
      BY DEF N
    <3> QED
      BY <1>4, <1>5, <3>1, <3>2
  <2> QED
    BY <2>1, <1>0, <1>3, <1>4, <1>5, ConstantFacts DEF KernelInv
<1>10. LocksInv'
  BY <1>0, <1>1 DEF LocksInv
<1>11. CacheIsCoherent'
  BY DEF CacheIsCoherent
<1> QED
  BY <1>6, <1>7, <1>8, <1>9, <1>10, <1>11

(* A client that gives its handle back closes its two descriptors.         *)
LEMMA ClosedFacts ==
  ASSUME IonInv, NEW p \in Clients, hnd[p] # NoHandle, fds' = Closed(p)
  PROVE  /\ fds'[p] = Nothing /\ fds' \in [Procs -> Kernel]
         /\ \A q \in Procs \ {p} : fds'[q] = fds[q]
<1>1. p \in Procs /\ buf.meta
  BY ConstantFacts DEF IonInv, HandleInv
<1>2. fds[p].data = 1 /\ fds[p].meta = 1
  <2>1. Held(p) = [data |-> 1, meta |-> 1]
    BY <1>1 DEF Held, N
  <2> QED
    BY <2>1 DEF IonInv, KernelInv
<1>3. fds'[p] = [data |-> fds[p].data - 1, meta |-> fds[p].meta - 1]
      /\ \A q \in Procs \ {p} : fds'[q] = fds[q]
  BY <1>1 DEF Closed, IonInv, IonTypeOK
<1>4. fds'[p] = Nothing /\ Nothing \in Kernel
  BY <1>2, <1>3, ConstantFacts DEF Nothing, Kernel
<1>5. fds' \in [Procs -> Kernel]
  BY <1>1, <1>4 DEF Closed, IonInv, IonTypeOK
<1> QED
  BY <1>3, <1>4, <1>5

(* A client that drops its handle, with what the kernel then holds for it. *)
LEMMA ClientDropsPreserves ==
  ASSUME NEW p \in Clients, NEW n \in 0 .. MaxFds,
         IonInv, hnd[p] # NoHandle, Dropped(p), fds' = Closed(p),
         locks[p] = "none", UNCHANGED <<locks, cache, lost>>,
         slipped' \in BOOLEAN, ~slipped' => ~slipped, maps' \in [Procs -> Kernel],
         maps'[p] = [data |-> n, meta |-> 0], ~slipped' => n = 0,
         \A q \in Procs \ {p} : maps'[q] = maps[q]
  PROVE  IonInv'
<1> USE DEF IonInv
<1>0. p \in Procs /\ p # Composer
  BY ConstantFacts
<1>1. IonTypeOK'
  BY <1>0, DroppedFacts, ClosedFacts DEF IonTypeOK
<1>2. BufferInv' /\ HandleInv'
  BY <1>0, DroppedFacts
<1>3. KernelInv'
  <2>1. fds'[p] = Held(p)' /\ maps'[p].meta = Mapped(p)'.meta
        /\ maps'[p].data >= Mapped(p)'.data
        /\ (~slipped' => maps'[p].data = Mapped(p)'.data)
    <3>1. Mapped(p)' = Nothing /\ Held(p)' = Nothing
      BY <1>0, DroppedFacts
    <3>2. fds'[p] = Nothing
      BY ClosedFacts
    <3>3. maps'[p].meta = 0 /\ maps'[p].data = n /\ (~slipped' => n = 0)
      OBVIOUS
    <3>4. n >= 0
      BY ConstantFacts
    <3> HIDE DEF IonInv
    <3> QED
      BY <3>1, <3>2, <3>3, <3>4 DEF Nothing
  <2>2. \A q \in Procs \ {p} : Mapped(q)' = Mapped(q) /\ Held(q)' = Held(q)
    BY <1>0, DroppedFacts
  <2>3. \A q \in Procs \ {p} : fds'[q] = fds[q]
    BY <1>0, ClosedFacts
  <2>4. \A q \in Procs \ {p} : maps'[q] = maps[q]
    OBVIOUS
  <2>5. /\ maps'[Composer] = Mapped(Composer)'
        /\ fds'[Composer].data >= Held(Composer)'.data
        /\ fds'[Composer].meta >= Held(Composer)'.meta
        /\ ~slipped' => fds'[Composer] = Held(Composer)'
    BY <1>0, <2>2, <2>3, <2>4, ConstantFacts DEF KernelInv
  <2>6. ASSUME NEW q \in Clients \ {p}
        PROVE  /\ fds'[q] = Held(q)' /\ maps'[q].meta = Mapped(q)'.meta
               /\ maps'[q].data >= Mapped(q)'.data
               /\ ~slipped' => maps'[q].data = Mapped(q)'.data
    <3>1. q \in Clients /\ q \in Procs \ {p} /\ (~slipped' => ~slipped)
      BY ConstantFacts
    <3>2. fds'[q] = fds[q] /\ maps'[q] = maps[q] /\ Mapped(q)' = Mapped(q) /\ Held(q)' = Held(q)
      BY <3>1, <2>2, <2>3, <2>4
    <3>3. fds[q] = Held(q) /\ maps[q].meta = Mapped(q).meta /\ maps[q].data >= Mapped(q).data
          /\ (~slipped => maps[q].data = Mapped(q).data)
      BY <3>1 DEF KernelInv
    <3> QED
      BY <3>1, <3>2, <3>3
  <2> QED
    BY <2>1, <2>5, <2>6 DEF KernelInv
<1>4. LocksInv'
  BY <1>0, DroppedUnlocked
<1>5. CacheIsCoherent'
  BY DEF CacheIsCoherent
<1> QED
  BY <1>1, <1>2, <1>3, <1>4, <1>5

LEMMA RegisterPreserves ==
  ASSUME IonInv, NEW p \in Clients, Register(p)
  PROVE  IonInv'
<1>0. p \in Procs /\ hnd[p].st = "sent" /\ maps[p].data < MaxFds /\ hnd[p] # NoHandle
      /\ UNCHANGED <<locks, cache, lost>>
  BY ConstantFacts DEF Register, NoHandle
<1>1. CASE /\ hnd' = [hnd EXCEPT ![p].st = "ready", ![p].base = ~Secure(buf),
                                 ![p].meta = ~Secure(buf)]
           /\ maps' = IF Secure(buf) THEN maps
                      ELSE [maps EXCEPT ![p] = [data |-> @.data + 1,
                                                meta |-> @.meta + 1]]
           /\ UNCHANGED <<buf, fds, slipped>>
  BY <1>0, <1>1, RegisterMapsPreserves
<1>2. CASE /\ ~Secure(buf) /\ Dropped(p) /\ fds' = Closed(p)
           /\ \E mapped \in {0, 1} : maps' = [maps EXCEPT ![p].data = @ + mapped]
           /\ slipped' = TRUE
  <2>1. PICK mapped \in {0, 1} : maps' = [maps EXCEPT ![p].data = @ + mapped]
    BY <1>2
  <2>2. maps[p] = [data |-> maps[p].data, meta |-> 0] /\ maps[p].data \in 0 .. MaxFds
    <3>1. maps[p].meta = 0
      BY <1>0 DEF IonInv, KernelInv, Mapped, Nothing
    <3> QED
      BY <1>0, <3>1, CountFacts
  <2>3. maps[p].data + mapped \in 0 .. MaxFds
    BY <1>0, <2>2, ConstantFacts
  <2>4. maps'[p] = [data |-> maps[p].data + mapped, meta |-> 0]
        /\ \A q \in Procs \ {p} : maps'[q] = maps[q]
    <3>1. maps \in [Procs -> Kernel] /\ maps[p] \in Kernel
      BY <1>0 DEF IonInv, IonTypeOK
    <3> QED
      BY <1>0, <2>1, <2>2, <3>1 DEF Kernel
  <2>5. maps' \in [Procs -> Kernel]
    BY <1>0, <2>1, <2>3, <2>4, ConstantFacts DEF IonInv, IonTypeOK, Kernel
  <2>6. locks[p] = "none"
    BY <1>0 DEF IonInv, LocksInv
  <2> QED
    BY <1>0, <1>2, <2>3, <2>4, <2>5, <2>6, ClientDropsPreserves
<1> QED
  BY <1>1, <1>2 DEF Register

(* Giving a registered handle back unmaps what it says.                    *)
LEMMA UnregisterPreserves ==
  ASSUME IonInv, NEW p \in Clients, Unregister(p)
  PROVE  IonInv'
<1>0. p \in Procs /\ hnd[p].st = "ready" /\ locks[p] = "none" /\ hnd[p] # NoHandle
      /\ UNCHANGED <<locks, cache, slipped, lost>>
      /\ maps' = Unmap(p) /\ fds' = Closed(p) /\ Dropped(p)
  <2>1. NoHandle.st = "none"
    BY DEF NoHandle
  <2> QED
    BY <2>1, ConstantFacts DEF Unregister
<1>1. /\ hnd[p].base \in BOOLEAN /\ hnd[p].meta = hnd[p].base
      /\ maps[p].meta = N(hnd[p].base) /\ maps[p].data \in 0 .. MaxFds
      /\ maps[p].data >= N(hnd[p].base)
      /\ ~slipped => maps[p].data = N(hnd[p].base)
      /\ maps[p] = [data |-> maps[p].data, meta |-> maps[p].meta]
      /\ slipped \in BOOLEAN
  <2>1. hnd[p].base \in BOOLEAN /\ hnd[p].meta = hnd[p].base
    BY <1>0, CountFacts DEF IonInv, HandleInv
  <2>2. Mapped(p) = [data |-> N(hnd[p].base), meta |-> N(hnd[p].base)]
    BY <1>0, <2>1 DEF Mapped
  <2>3. maps[p].meta = Mapped(p).meta /\ maps[p].data >= Mapped(p).data
        /\ (~slipped => maps[p].data = Mapped(p).data)
    BY DEF IonInv, KernelInv
  <2>4. slipped \in BOOLEAN
    BY DEF IonInv, IonTypeOK
  <2>5. maps[p].data \in 0 .. MaxFds /\ maps[p] = [data |-> maps[p].data, meta |-> maps[p].meta]
    BY <1>0, CountFacts
  <2> QED
    BY <2>1, <2>2, <2>3, <2>4, <2>5
<1> DEFINE left == maps[p].data - N(hnd[p].base)
<1>2. left \in 0 .. MaxFds /\ (~slipped => left = 0)
  BY <1>1, ConstantFacts DEF N
<1>3. maps' \in [Procs -> Kernel] /\ maps'[p] = [data |-> left, meta |-> 0]
      /\ \A q \in Procs \ {p} : maps'[q] = maps[q]
  <2>1. CASE hnd[p].base
    <3>1. maps' = [maps EXCEPT ![p] = [data |-> @.data - 1, meta |-> @.meta - 1]]
      BY <1>0, <1>1, <2>1 DEF Unmap
    <3>2. maps'[p] = [data |-> maps[p].data - 1, meta |-> maps[p].meta - 1]
          /\ \A q \in Procs \ {p} : maps'[q] = maps[q]
      BY <1>0, <3>1 DEF IonInv, IonTypeOK
    <3>3. maps[p].data - 1 = left /\ maps[p].meta - 1 = 0
      BY <1>1, <2>1 DEF N
    <3>4. maps'[p] \in Kernel
      BY <1>2, <3>2, <3>3, ConstantFacts DEF Kernel
    <3> QED
      BY <1>0, <3>1, <3>2, <3>3, <3>4 DEF IonInv, IonTypeOK
  <2>2. CASE ~hnd[p].base
    <3>1. maps' = maps
      BY <1>0, <2>2 DEF Unmap
    <3>2. maps[p].data = left /\ maps[p].meta = 0
      BY <1>1, <2>2 DEF N
    <3> QED
      BY <1>0, <1>1, <3>1, <3>2 DEF IonInv, IonTypeOK
  <2> QED
    BY <1>1, <2>1, <2>2
<1> HIDE DEF left
<1> QED
  BY <1>0, <1>1, <1>2, <1>3, ClientDropsPreserves

(* gralloc_free unmaps the data, the metadata, or both, and closes what    *)
(* the handle has; what an earlier failure has leaked stays.               *)
LEMMA FreePreserves ==
  ASSUME IonInv, Free
  PROVE  IonInv'
<1> USE DEF IonInv
<1> DEFINE h == hnd[Composer]
<1>0. Composer \in Procs /\ \A q \in Clients : q \in Procs \ {Composer}
  BY ConstantFacts
<1>1. /\ h.st = "ready" /\ locks[Composer] = "none"
      /\ maps' = IF h.base \/ ~h.meta THEN Unmap(Composer)
                 ELSE [maps EXCEPT ![Composer].meta = @ - 1]
      /\ fds' = [fds EXCEPT ![Composer] =
           [data |-> @.data - 1, meta |-> @.meta - (IF buf.meta THEN 1 ELSE 0)]]
      /\ Dropped(Composer)
      /\ UNCHANGED <<locks, cache, slipped, lost>>
  BY DEF Free
<1>2. h # NoHandle /\ h.base \in BOOLEAN /\ h.meta = buf.meta /\ buf.meta \in BOOLEAN
  <2>1. h # NoHandle
    BY <1>1 DEF NoHandle
  <2> QED
    BY <1>0, <1>1, <2>1, CountFacts DEF HandleInv
<1>3. /\ maps[Composer] = [data |-> N(h.base), meta |-> N(h.meta)]
      /\ Held(Composer) = [data |-> 1, meta |-> N(h.meta)]
  BY <1>1, <1>2 DEF KernelInv, Mapped, Held, N
<1>4. /\ fds[Composer].data \in 0 .. MaxFds /\ fds[Composer].meta \in 0 .. MaxFds
      /\ fds[Composer].data >= 1 /\ fds[Composer].meta >= N(h.meta)
      /\ ~slipped => fds[Composer] = [data |-> 1, meta |-> N(h.meta)]
  <2>1. fds[Composer].data \in 0 .. MaxFds /\ fds[Composer].meta \in 0 .. MaxFds
    BY <1>0, CountFacts
  <2>2. /\ fds[Composer].data >= Held(Composer).data
        /\ fds[Composer].meta >= Held(Composer).meta
        /\ ~slipped => fds[Composer] = Held(Composer)
    BY DEF KernelInv
  <2> QED
    BY <1>3, <2>1, <2>2
<1>5. maps'[Composer] = Nothing /\ maps' \in [Procs -> Kernel]
      /\ \A q \in Procs \ {Composer} : maps'[q] = maps[q]
  <2>0. Nothing \in Kernel /\ maps \in [Procs -> Kernel]
    BY ConstantFacts DEF Nothing, Kernel, IonTypeOK
  <2>1. CASE h.base
    <3>1. maps' = [maps EXCEPT ![Composer] =
                     [data |-> @.data - 1, meta |-> @.meta - (IF h.meta THEN 1 ELSE 0)]]
      BY <1>1, <2>1 DEF Unmap
    <3>2. maps[Composer].data - 1 = 0
          /\ maps[Composer].meta - (IF h.meta THEN 1 ELSE 0) = 0
      BY <1>3, <2>1 DEF N
    <3>3. maps'[Composer] = Nothing
      BY <1>0, <2>0, <3>1, <3>2 DEF Nothing
    <3> QED
      BY <1>0, <2>0, <3>1, <3>3
  <2>2. CASE ~h.base /\ ~h.meta
    BY <1>0, <1>1, <1>3, <2>0, <2>2 DEF Unmap, N, Nothing
  <2>3. CASE ~h.base /\ h.meta
    <3>1. maps' = [maps EXCEPT ![Composer].meta = @ - 1]
      BY <1>1, <2>3
    <3>2. maps[Composer] = [data |-> 0, meta |-> 1]
      BY <1>3, <2>3 DEF N
    <3>3. maps'[Composer] = Nothing
      BY <1>0, <2>0, <3>1, <3>2 DEF Nothing
    <3> QED
      BY <1>0, <2>0, <3>1, <3>3
  <2> QED
    BY <1>2, <2>1, <2>2, <2>3
<1>6. /\ fds'[Composer] = [data |-> fds[Composer].data - 1,
                           meta |-> fds[Composer].meta - N(h.meta)]
      /\ fds' \in [Procs -> Kernel]
      /\ \A q \in Procs \ {Composer} : fds'[q] = fds[q]
  <2>1. fds'[Composer] = [data |-> fds[Composer].data - 1,
                          meta |-> fds[Composer].meta - N(h.meta)]
        /\ \A q \in Procs \ {Composer} : fds'[q] = fds[q]
    BY <1>0, <1>1, <1>2 DEF IonTypeOK, N
  <2>2. fds'[Composer] \in Kernel
    <3>1. N(h.meta) \in Nat
      BY DEF N
    <3>2. fds[Composer].data - 1 \in 0 .. MaxFds
          /\ fds[Composer].meta - N(h.meta) \in 0 .. MaxFds
      BY <1>4, <3>1, ConstantFacts
    <3> QED
      BY <2>1, <3>2 DEF Kernel
  <2> QED
    BY <1>0, <1>1, <2>1, <2>2 DEF IonTypeOK
<1>7. /\ fds'[Composer].data >= 0 /\ fds'[Composer].meta >= 0
      /\ ~slipped => fds'[Composer] = Nothing
  <2>1. N(h.meta) \in Nat
    BY DEF N
  <2> QED
    BY <1>4, <1>6, <2>1, ConstantFacts DEF Nothing
<1> HIDE DEF h
<1>8. hnd[Composer] # NoHandle
  BY <1>2 DEF h
<1>9. IonTypeOK'
  <2>1. hnd' \in [Procs -> Handles] /\ (buf' = NoBuf \/ buf' = buf)
    BY <1>0, <1>1, <1>8, DroppedFacts
  <2> QED
    BY <1>1, <1>5, <1>6, <2>1 DEF IonTypeOK
<1>10. BufferInv' /\ HandleInv'
  BY <1>0, <1>1, <1>8, DroppedFacts
<1>11. KernelInv'
  <2>1. Mapped(Composer)' = Nothing /\ Held(Composer)' = Nothing
        /\ \A q \in Procs \ {Composer} : Mapped(q)' = Mapped(q) /\ Held(q)' = Held(q)
    BY <1>0, <1>1, <1>8, DroppedFacts
  <2>2. /\ maps'[Composer] = Mapped(Composer)'
        /\ fds'[Composer].data >= Held(Composer)'.data
        /\ fds'[Composer].meta >= Held(Composer)'.meta
        /\ ~slipped' => fds'[Composer] = Held(Composer)'
    BY <1>1, <1>5, <1>7, <2>1 DEF Nothing
  <2>3. ASSUME NEW q \in Clients
        PROVE  /\ fds'[q] = Held(q)' /\ maps'[q].meta = Mapped(q)'.meta
               /\ maps'[q].data >= Mapped(q)'.data
               /\ ~slipped' => maps'[q].data = Mapped(q)'.data
    <3>1. fds'[q] = fds[q] /\ maps'[q] = maps[q] /\ Mapped(q)' = Mapped(q) /\ Held(q)' = Held(q)
      BY <1>0, <1>5, <1>6, <2>1
    <3> QED
      BY <1>1, <3>1 DEF KernelInv
  <2> QED
    BY <2>2, <2>3 DEF KernelInv
<1>12. LocksInv'
  BY <1>0, <1>1, <1>8, DroppedUnlocked
<1>13. CacheIsCoherent'
  BY <1>1 DEF CacheIsCoherent
<1> QED
  BY <1>9, <1>10, <1>11, <1>12, <1>13

-----------------------------------------------------------------------------
(* Locks and the cache.                                                    *)

(* Steps that change only flags of handles that are ready, and locks.      *)
LEMMA FlagsOnly ==
  ASSUME IonInv, NEW p \in Procs, hnd[p].st = "ready",
         NEW f \in BOOLEAN, NEW g \in BOOLEAN,
         hnd' = [hnd EXCEPT ![p].needsFlush = f, ![p].doNotFlush = g],
         UNCHANGED <<buf, fds, maps>>,
         slipped' \in BOOLEAN, ~slipped' => ~slipped, lost' \in BOOLEAN,
         locks' \in [Procs -> LockKinds], cache' \in {"ok", "dirty", "stale"}
  PROVE  /\ IonTypeOK' /\ BufferInv' /\ HandleInv' /\ KernelInv'
         /\ \A q \in Procs : hnd'[q].st = hnd[q].st
         /\ hnd'[p].needsFlush = f
         /\ \A q \in Procs \ {p} : hnd'[q] = hnd[q]
<1> USE DEF IonInv
<1> DEFINE h == [hnd[p] EXCEPT !.needsFlush = f, !.doNotFlush = g]
<1>1. hnd[p] \in Handles /\ hnd \in [Procs -> Handles]
  BY DEF IonTypeOK
<1>2. h \in Handles /\ h.st = "ready" /\ h.base = hnd[p].base /\ h.meta = hnd[p].meta
      /\ h.needsFlush = f
  BY <1>1 DEF Handles
<1>3. hnd' = [hnd EXCEPT ![p] = h]
  BY <1>1 DEF Handles
<1> HIDE DEF h
<1>4. hnd' \in [Procs -> Handles] /\ hnd'[p] = h
      /\ \A q \in Procs \ {p} : hnd'[q] = hnd[q]
  BY <1>1, <1>2, <1>3
<1>5. \A q \in Procs : /\ hnd'[q].st = hnd[q].st /\ hnd'[q].base = hnd[q].base
                       /\ hnd'[q].meta = hnd[q].meta
                       /\ hnd'[q] = NoHandle <=> hnd[q] = NoHandle
  <2>1. h # NoHandle /\ hnd[p] # NoHandle
    BY <1>2 DEF NoHandle
  <2> QED
    BY <1>2, <1>4, <2>1
<1>6. IonTypeOK'
  BY <1>4 DEF IonTypeOK
<1>7. BufferInv'
  BY <1>5 DEF BufferInv
<1>8. HandleInv'
  <2>1. Secure(buf)' = Secure(buf)
    BY DEF Secure
  <2>2. \A q \in Procs : /\ hnd'[q].st = "none" => hnd'[q] = NoHandle
                         /\ hnd'[q].st = "ready" => hnd'[q].base = ~Secure(buf)
    BY ZenonT(40), <1>5 DEF HandleInv
  <2>3. /\ hnd'[Composer].st # "sent"
        /\ hnd'[Composer].st = "ready" => hnd'[Composer].meta = buf.meta
    BY <1>5, ConstantFacts DEF HandleInv
  <2>4. \A q \in Clients : /\ hnd'[q] # NoHandle => buf.meta
                           /\ hnd'[q].st = "ready" => hnd'[q].meta = ~Secure(buf)
    <3> TAKE q \in Clients
    <3>1. (hnd[q] # NoHandle => buf.meta) /\ (hnd[q].st = "ready" => hnd[q].meta = ~Secure(buf))
      BY DEF HandleInv
    <3>2. q \in Procs
      BY ConstantFacts
    <3> QED
      BY <1>5, <3>1, <3>2
  <2> QED
    BY ZenonT(40), <2>1, <2>2, <2>3, <2>4 DEF HandleInv
<1>9. \A q \in Procs : Mapped(q)' = Mapped(q) /\ Held(q)' = Held(q)
  BY <1>5 DEF Mapped, Held
<1>10. KernelInv'
  BY <1>9, ConstantFacts DEF KernelInv
<1> QED
  BY <1>2, <1>4, <1>5, <1>6, <1>7, <1>8, <1>10

(* Who may write is the only one with a lock.                              *)
LEMMA MayLockFacts ==
  ASSUME IonInv, NEW p \in Procs, NEW kind \in LockKinds, kind # "none", MayLock(p, kind),
         hnd'[p].st = "ready", kind = "sww" => hnd'[p].needsFlush,
         \A q \in Procs \ {p} : hnd'[q] = hnd[q],
         locks' = [locks EXCEPT ![p] = kind]
  PROVE  LocksInv'
<1> USE DEF IonInv
<1>1. \A q \in Procs : locks[q] \in LockKinds /\ ~Writing(locks[q])
  BY DEF MayLock, IonTypeOK
<1>2. Writing(kind) => \A q \in Procs : locks[q] = "none"
  BY DEF MayLock
<1>3. locks'[p] = kind /\ \A q \in Procs \ {p} : locks'[q] = locks[q]
  BY DEF IonTypeOK
<1>4. ASSUME NEW q \in Procs
      PROVE  /\ locks'[q] # "none" => hnd'[q].st = "ready"
             /\ locks'[q] = "sww" => hnd'[q].needsFlush
             /\ Writing(locks'[q]) => \A r \in Procs \ {q} : locks'[r] = "none"
  <2>1. CASE q = p
    BY <1>2, <1>3, <2>1
  <2>2. CASE q # p
    <3>1. hnd'[q] = hnd[q] /\ locks'[q] = locks[q] /\ ~Writing(locks[q]) /\ locks[q] # "sww"
      BY <1>1, <1>3, <2>2 DEF Writing
    <3> QED
      BY <3>1 DEF LocksInv
  <2> QED
    BY <2>1, <2>2
<1> QED
  BY <1>4 DEF LocksInv, Writing

(* Nobody writes through the cache while a lock may be taken.              *)
LEMMA MayLockClean ==
  ASSUME IonInv, NEW p \in Procs, NEW kind \in LockKinds, MayLock(p, kind), ~slipped
  PROVE  cache # "dirty" /\ ~lost
<1>1. \A q \in Procs : locks[q] # "sww"
  BY DEF MayLock, Writing
<1> QED
  BY <1>1 DEF IonInv, CacheIsCoherent

LEMMA LockSWPreserves ==
  ASSUME IonInv, NEW p \in Procs, NEW kind \in LockKinds, LockSW(p, kind)
  PROVE  IonInv'
<1> USE DEF IonInv
<1> DEFINE f == hnd[p].needsFlush \/ kind = "sww"
           g == hnd[p].doNotFlush
<1>1. /\ MayLock(p, kind) /\ kind \in {"sw", "sww"} /\ ~Secure(buf)
      /\ hnd' = [hnd EXCEPT ![p].needsFlush = @ \/ kind = "sww"]
      /\ UNCHANGED <<buf, fds, maps, slipped>>
      /\ \/ locks' = [locks EXCEPT ![p] = kind] /\ Invalidated
         \/ UNCHANGED <<locks, cache, lost>>
  BY DEF LockSW
<1>2. hnd[p].st = "ready" /\ locks[p] = "none" /\ hnd \in [Procs -> Handles]
      /\ slipped \in BOOLEAN /\ lost \in BOOLEAN /\ locks \in [Procs -> LockKinds]
      /\ cache \in {"ok", "dirty", "stale"}
  BY <1>1 DEF MayLock, IonTypeOK
<1>3. f \in BOOLEAN /\ g \in BOOLEAN
  BY <1>2 DEF Handles
<1>4. hnd' = [hnd EXCEPT ![p].needsFlush = f, ![p].doNotFlush = g]
  BY <1>1, <1>2 DEF Handles
<1>5. locks' \in [Procs -> LockKinds] /\ cache' \in {"ok", "dirty", "stale"} /\ lost' \in BOOLEAN
  BY <1>1, <1>2 DEF Invalidated
<1> HIDE DEF f, g
<1>6. /\ IonTypeOK' /\ BufferInv' /\ HandleInv' /\ KernelInv'
      /\ \A q \in Procs : hnd'[q].st = hnd[q].st
      /\ hnd'[p].needsFlush = f
      /\ \A q \in Procs \ {p} : hnd'[q] = hnd[q]
  BY <1>1, <1>2, <1>3, <1>4, <1>5, FlagsOnly
<1>7. kind = "sww" => hnd'[p].needsFlush
  BY <1>6 DEF f
<1>8. CASE locks' = [locks EXCEPT ![p] = kind] /\ Invalidated
  <2>1. LocksInv'
    BY <1>1, <1>2, <1>6, <1>7, <1>8, MayLockFacts
  <2>2. CacheIsCoherent'
    BY <1>1, <1>8, MayLockClean DEF Invalidated, CacheIsCoherent
  <2> QED
    BY <1>6, <2>1, <2>2
<1>9. CASE UNCHANGED <<locks, cache, lost>>
  <2>1. LocksInv'
    <3>1. \A q \in Procs : locks[q] = "sww" => q # p
      BY <1>2
    <3> QED
      BY <1>6, <1>9, <3>1 DEF LocksInv
  <2>2. CacheIsCoherent'
    BY <1>1, <1>9 DEF CacheIsCoherent
  <2> QED
    BY <1>6, <2>1, <2>2
<1> QED
  BY <1>1, <1>8, <1>9

LEMMA LockHWPreserves ==
  ASSUME IonInv, NEW p \in Procs, NEW kind \in LockKinds, LockHW(p, kind)
  PROVE  IonInv'
<1> USE DEF IonInv
<1> DEFINE f == hnd[p].needsFlush
<1>1. /\ MayLock(p, kind) /\ kind \in {"hw", "hww"}
      /\ locks' = [locks EXCEPT ![p] = kind]
      /\ hnd' = [hnd EXCEPT ![p].doNotFlush = TRUE]
      /\ UNCHANGED <<buf, fds, maps, cache, slipped, lost>>
  BY DEF LockHW
<1>2. hnd[p].st = "ready" /\ locks[p] = "none" /\ hnd \in [Procs -> Handles]
      /\ slipped \in BOOLEAN /\ lost \in BOOLEAN /\ locks' \in [Procs -> LockKinds]
      /\ cache \in {"ok", "dirty", "stale"}
  BY <1>1 DEF MayLock, IonTypeOK
<1>3. f \in BOOLEAN
  BY <1>2 DEF Handles
<1>4. hnd' = [hnd EXCEPT ![p].needsFlush = f, ![p].doNotFlush = TRUE]
  BY <1>1, <1>2 DEF Handles
<1> HIDE DEF f
<1>5. /\ IonTypeOK' /\ BufferInv' /\ HandleInv' /\ KernelInv'
      /\ \A q \in Procs : hnd'[q].st = hnd[q].st
      /\ \A q \in Procs \ {p} : hnd'[q] = hnd[q]
  BY <1>1, <1>2, <1>3, <1>4, FlagsOnly
<1>6. LocksInv'
  BY <1>1, <1>2, <1>5, MayLockFacts
<1>7. CacheIsCoherent'
  <2>1. ~slipped => cache # "dirty"
    BY <1>1, MayLockClean
  <2>2. \A q \in Procs : locks'[q] \in {"sw", "sww"} => locks[q] \in {"sw", "sww"}
    BY <1>1 DEF IonTypeOK
  <2> QED
    BY <1>1, <2>1, <2>2 DEF CacheIsCoherent
<1> QED
  BY <1>5, <1>6, <1>7

(* A lock that is given up leaves those of the others.                     *)
LEMMA UnlockedLocks ==
  ASSUME IonInv, NEW p \in Procs, locks' = [locks EXCEPT ![p] = "none"],
         \A q \in Procs : hnd'[q].st = hnd[q].st,
         \A q \in Procs \ {p} : hnd'[q] = hnd[q]
  PROVE  LocksInv'
<1>1. locks'[p] = "none" /\ \A q \in Procs \ {p} : locks'[q] = locks[q]
  BY DEF IonInv, IonTypeOK
<1>2. ASSUME NEW q \in Procs
      PROVE  /\ locks'[q] # "none" => hnd'[q].st = "ready"
             /\ locks'[q] = "sww" => hnd'[q].needsFlush
             /\ Writing(locks'[q]) => \A r \in Procs \ {q} : locks'[r] = "none"
  <2>1. CASE q = p
    BY <1>1, <2>1 DEF Writing
  <2>2. CASE q # p
    <3>1. hnd'[q] = hnd[q] /\ locks'[q] = locks[q]
      BY <1>1, <2>2
    <3>2. Writing(locks[q]) => \A r \in Procs \ {q} : locks'[r] = "none"
      BY <1>1 DEF IonInv, LocksInv
    <3> QED
      BY <3>1, <3>2 DEF IonInv, LocksInv
  <2> QED
    BY <2>1, <2>2
<1> QED
  BY <1>2 DEF LocksInv, Writing

LEMMA UnlockPreserves ==
  ASSUME IonInv, NEW p \in Procs, Unlock(p)
  PROVE  IonInv'
<1> USE DEF IonInv
<1>1. locks[p] # "none" /\ locks' = [locks EXCEPT ![p] = "none"] /\ UNCHANGED <<buf, fds, maps>>
  BY DEF Unlock
<1>2. hnd[p].st = "ready" /\ hnd[p] \in Handles /\ hnd \in [Procs -> Handles]
      /\ slipped \in BOOLEAN /\ lost \in BOOLEAN /\ locks' \in [Procs -> LockKinds]
      /\ cache \in {"ok", "dirty", "stale"}
  <2>1. "none" \in LockKinds
    BY DEF LockKinds
  <2> QED
    BY <1>1, <2>1 DEF LocksInv, IonTypeOK
<1>3. hnd[p].needsFlush \in BOOLEAN /\ hnd[p].doNotFlush \in BOOLEAN
  BY <1>2 DEF Handles
<1>4. /\ \A q \in Procs \ {p} : locks[q] # "none" => locks[p] # "sww"
      /\ (\E q \in Procs : locks'[q] \in {"sw", "sww"})
           => \E q \in Procs : locks[q] \in {"sw", "sww"}
      /\ locks[p] = "sww" => hnd[p].needsFlush
      /\ \A q \in Procs \ {p} : locks[q] # "sww"
  <2>1. \A q \in Procs \ {p} : locks'[q] = locks[q]
    BY <1>1 DEF IonTypeOK
  <2>2. locks'[p] = "none"
    BY <1>1 DEF IonTypeOK
  <2>3. \A q \in Procs : /\ Writing(locks[q]) => \A r \in Procs \ {q} : locks[r] = "none"
                         /\ locks[q] = "sww" => hnd[q].needsFlush
    BY DEF LocksInv
  <2>4. \A q \in Procs \ {p} : locks[q] # "sww"
    BY <1>1, <2>3 DEF Writing
  <2> QED
    BY <2>1, <2>2, <2>3, <2>4 DEF Writing
<1>5. CASE /\ hnd[p].needsFlush /\ hnd' = [hnd EXCEPT ![p].needsFlush = FALSE]
           /\ (cache' = "ok" /\ UNCHANGED slipped) \/ (slipped' = TRUE /\ UNCHANGED cache)
           /\ UNCHANGED lost
  <2> DEFINE g == hnd[p].doNotFlush
  <2>1. hnd' = [hnd EXCEPT ![p].needsFlush = FALSE, ![p].doNotFlush = g]
    BY <1>2, <1>5 DEF Handles
  <2>2. slipped' \in BOOLEAN /\ (~slipped' => ~slipped) /\ lost' \in BOOLEAN
        /\ cache' \in {"ok", "dirty", "stale"}
    <3>1. CASE cache' = "ok" /\ slipped' = slipped
      BY <1>2, <1>5, <3>1
    <3>2. CASE slipped' = TRUE /\ cache' = cache
      BY <1>2, <1>5, <3>2
    <3> QED
      BY <1>5, <3>1, <3>2
  <2> HIDE DEF g
  <2>3. g \in BOOLEAN
    BY <1>3 DEF g
  <2>4. /\ IonTypeOK' /\ BufferInv' /\ HandleInv' /\ KernelInv'
        /\ \A q \in Procs : hnd'[q].st = hnd[q].st
        /\ \A q \in Procs \ {p} : hnd'[q] = hnd[q]
    BY <1>1, <1>2, <2>1, <2>2, <2>3, FlagsOnly
  <2>5. LocksInv'
    BY <1>1, <2>4, UnlockedLocks
  <2>6. CacheIsCoherent'
    BY <1>5, <2>2 DEF CacheIsCoherent
  <2> QED
    BY <2>4, <2>5, <2>6
<1>6. CASE /\ ~hnd[p].needsFlush /\ hnd' = [hnd EXCEPT ![p].doNotFlush = FALSE]
           /\ UNCHANGED <<cache, lost, slipped>>
  <2> DEFINE f == hnd[p].needsFlush
  <2>1. hnd' = [hnd EXCEPT ![p].needsFlush = f, ![p].doNotFlush = FALSE]
    BY <1>2, <1>6 DEF Handles
  <2> HIDE DEF f
  <2>2. f \in BOOLEAN
    BY <1>3 DEF f
  <2>3. /\ IonTypeOK' /\ BufferInv' /\ HandleInv' /\ KernelInv'
        /\ \A q \in Procs : hnd'[q].st = hnd[q].st
        /\ \A q \in Procs \ {p} : hnd'[q] = hnd[q]
    BY <1>1, <1>2, <1>6, <2>1, <2>2, FlagsOnly
  <2>4. LocksInv'
    BY <1>1, <2>3, UnlockedLocks
  <2>5. \A q \in Procs : locks[q] # "sww"
    BY <1>4, <1>6
  <2>6. CacheIsCoherent'
    BY <1>4, <1>6, <2>5 DEF CacheIsCoherent
  <2> QED
    BY <2>3, <2>4, <2>6
<1>7. CASE /\ ~hnd[p].needsFlush /\ UNCHANGED <<hnd, slipped>>
           /\ Invalidated \/ UNCHANGED <<cache, lost>>
  <2> DEFINE f == hnd[p].needsFlush
             g == hnd[p].doNotFlush
  <2>1. hnd' = [hnd EXCEPT ![p].needsFlush = f, ![p].doNotFlush = g]
    BY <1>2, <1>7 DEF Handles
  <2>2. lost' \in BOOLEAN /\ cache' \in {"ok", "dirty", "stale"}
    BY <1>2, <1>7 DEF Invalidated
  <2> HIDE DEF f, g
  <2>3. f \in BOOLEAN /\ g \in BOOLEAN
    BY <1>3 DEF f, g
  <2>4. /\ IonTypeOK' /\ BufferInv' /\ HandleInv' /\ KernelInv'
    BY <1>1, <1>2, <1>7, <2>1, <2>2, <2>3, FlagsOnly
  <2>5. LocksInv'
    BY <1>1, <1>7, UnlockedLocks
  <2>6. \A q \in Procs : locks[q] # "sww"
    BY <1>4, <1>7
  <2>7. ~slipped => cache # "dirty" /\ ~lost
    BY <2>6 DEF CacheIsCoherent
  <2>8. CacheIsCoherent'
    BY <1>4, <1>7, <2>6, <2>7 DEF CacheIsCoherent, Invalidated
  <2> QED
    BY <2>4, <2>5, <2>8
<1> QED
  BY <1>5, <1>6, <1>7 DEF Unlock

LEMMA WritesPreserve ==
  ASSUME IonInv, NEW p \in Procs, CpuWrites(p) \/ HardwareWrites(p)
  PROVE  IonInv'
<1> USE DEF IonInv
<1>1. UNCHANGED <<buf, hnd, fds, maps, locks, slipped, lost>>
      /\ cache' \in {"ok", "dirty", "stale"}
  BY DEF CpuWrites, HardwareWrites, IonTypeOK
<1>2. IonTypeOK' /\ BufferInv' /\ LocksInv'
  BY <1>1 DEF IonTypeOK, BufferInv, LocksInv
<1>3. HandleInv'
  BY <1>1 DEF HandleInv, Secure
<1>4. KernelInv'
  BY <1>1 DEF KernelInv, Mapped, Held
<1>5. CacheIsCoherent'
  <2>1. CASE CpuWrites(p)
    BY <1>1, <2>1 DEF CpuWrites, CacheIsCoherent
  <2>2. CASE HardwareWrites(p)
    <3>1. locks[p] = "hww" /\ cache' \in {cache, "stale"}
      BY <2>2 DEF HardwareWrites
    <3>2. \A q \in Procs : locks[q] \notin {"sw", "sww"}
      BY <3>1 DEF LocksInv, Writing
    <3> QED
      BY <1>1, <3>1, <3>2 DEF CacheIsCoherent
  <2> QED
    BY <2>1, <2>2
<1> QED
  BY <1>2, <1>3, <1>4, <1>5

-----------------------------------------------------------------------------
(* The slots of the framebuffer.                                           *)

(* A slot is found from where it begins.                                   *)
LEMMA SlotOf ==
  ASSUME NEW i \in Slots
  PROVE  /\ i \in Nat /\ i * SlotSize \in Nat /\ (i * SlotSize) \div SlotSize = i
         /\ NoFb # [base |-> i * SlotSize]
<1>1. i \in Nat /\ i * SlotSize \in Nat
  <2>1. i \in Nat
    BY ConstantFacts DEF Slots
  <2> QED
    BY <2>1, SlotFacts
<1>2. i * SlotSize <= i * SlotSize /\ i * SlotSize < i * SlotSize + SlotSize
  <2> DEFINE x == i * SlotSize
  <2>1. x \in Nat
    BY <1>1
  <2> HIDE DEF x
  <2>2. x <= x /\ x < x + SlotSize
    BY <2>1, SlotFacts
  <2> QED
    BY <2>2 DEF x
<1>3. (i * SlotSize) \div SlotSize = i
  <2> DEFINE x == i * SlotSize
  <2>1. x \in Nat /\ i * SlotSize <= x /\ x < i * SlotSize + SlotSize
    BY <1>1, <1>2
  <2> HIDE DEF x
  <2>2. x \div SlotSize = i
    BY <1>1, <2>1, SlotFacts, QuotientUnique
  <2> QED
    BY <2>2 DEF x
<1>4. NoFb.base = -1 /\ -1 \notin Nat
  BY DEF NoFb
<1> QED
  BY <1>1, <1>3, <1>4

(* free_impl finds it as well, if the holes of the slots before it fit     *)
(* into one.                                                               *)
LEMMA IndexOfSlot ==
  ASSUME HolesFit, NEW i \in Slots
  PROVE  FbIndex(i * SlotSize) = i
<1> DEFINE X == FbLine * FbRows
           S == SlotSize
           n == numBuffers - 1
<1>1. X \in Nat \ {0} /\ S \in Nat /\ X <= S /\ n * (S - X) < X
  BY SlotFacts DEF HolesFit
<1>2. i \in Nat /\ n \in Nat /\ i <= n
  BY ConstantFacts DEF Slots
<1> HIDE DEF X, S, n
<1>3. S - X \in Nat
  BY <1>1
<1>4. i * (S - X) <= n * (S - X) /\ i * (S - X) \in Nat /\ n * (S - X) \in Nat
  BY <1>2, <1>3, ProductMono
<1>5. i * S = i * X + i * (S - X) /\ i * S \in Nat /\ i * X \in Nat
  BY <1>1, <1>2
<1>6. i * X <= i * S /\ i * S < i * X + X
  <2> DEFINE a == i * (S - X)
             b == n * (S - X)
             c == i * X
             d == i * S
  <2>1. a <= b /\ a \in Nat /\ b \in Nat /\ c \in Nat /\ d = c + a /\ b < X /\ X \in Nat
    BY <1>1, <1>4, <1>5
  <2> HIDE DEF a, b, c, d
  <2>2. c <= d /\ d < c + X
    BY <2>1
  <2> QED
    BY <2>2 DEF c, d
<1>7. (i * S) \div X = i
  <2> DEFINE x == i * S
  <2>1. x \in Nat /\ i * X <= x /\ x < i * X + X
    BY <1>5, <1>6
  <2> HIDE DEF x
  <2>2. x \div X = i
    BY <1>1, <1>2, <2>1, QuotientUnique
  <2> QED
    BY <2>2 DEF x
<1> QED
  BY <1>7 DEF FbIndex, X, S

(* The first slot that is not in a mask.                                   *)
LEMMA FirstFreeFacts ==
  ASSUME NEW m, m \subseteq Slots, m # Slots
  PROVE  FirstFree(m) \in Slots \ m
<1>1. Slots \ m \subseteq 0 .. numBuffers - 1 /\ Slots \ m # {} /\ numBuffers - 1 \in Nat
  <2>1. Slots \ m # {}
    OBVIOUS
  <2> QED
    BY <2>1, ConstantFacts DEF Slots
<1>2. \E i \in Slots \ m : \A j \in Slots \ m : i <= j
  BY <1>1, LeastMember
<1> QED
  BY <1>2 DEF FirstFree

(* A thread that has a handle has a slot.                                  *)
LEMMA HandleFacts ==
  ASSUME FbShapeInv, NEW t \in FbThreads, fbHnd[t] # NoFb
  PROVE  \E i \in Slots : /\ fbHnd[t] = [base |-> i * SlotSize]
                          /\ fbHnd[t].base = i * SlotSize
                          /\ fbHnd[t].base \div SlotSize = i
<1>1. PICK i \in Slots : fbHnd[t] = [base |-> i * SlotSize]
  BY DEF FbShapeInv
<1>2. fbHnd[t].base = i * SlotSize
  BY <1>1
<1> QED
  BY <1>1, <1>2, SlotOf

LEMMA FbOpenPreserves ==
  ASSUME FbTypeOK, FbShapeInv, FbOpen
  PROVE  FbTypeOK' /\ FbShapeInv'
BY DEF FbTypeOK, FbShapeInv, FbOpen

LEMMA FbLookPreserves ==
  ASSUME FbTypeOK, FbShapeInv, NEW t \in FbThreads, FbLook(t)
  PROVE  FbTypeOK' /\ FbShapeInv'
<1>1. /\ fbPc' = [fbPc EXCEPT ![t] = "look"] /\ fbReg' = [fbReg EXCEPT ![t] = mask]
      /\ UNCHANGED <<fbMem, mask, fbHnd, fbRaced>>
      /\ fbHnd[t] = NoFb /\ fbMem # "none" /\ mask # Slots
      /\ \A u \in FbThreads : fbPc[u] \notin {"look", "set"}
  BY DEF FbLook
<1>2. FbTypeOK'
  BY <1>1 DEF FbTypeOK
<1>3. FbShapeInv'
  BY <1>1 DEF FbTypeOK, FbShapeInv
<1> QED
  BY <1>2, <1>3

LEMMA FbLoadPreserves ==
  ASSUME FbTypeOK, FbShapeInv, NEW t \in FbThreads, FbLoad(t)
  PROVE  FbTypeOK' /\ FbShapeInv'
<1> DEFINE i == FirstFree(fbReg[t])
           b == [base |-> i * SlotSize]
<1>1. /\ fbPc[t] = "look" /\ fbPc' = [fbPc EXCEPT ![t] = "set"]
      /\ fbHnd' = [fbHnd EXCEPT ![t] = b] /\ fbReg' = [fbReg EXCEPT ![t] = mask]
      /\ UNCHANGED <<fbMem, mask, fbRaced>>
  BY DEF FbLoad
<1>2. i \in Slots
  BY <1>1, FirstFreeFacts DEF FbShapeInv, FbTypeOK
<1> HIDE DEF i
<1>3. b # NoFb /\ b \in [base : Nat]
  BY <1>2, SlotOf
<1>4. \E j \in Slots : b = [base |-> j * SlotSize]
  BY <1>2
<1> HIDE DEF b
<1>5. FbTypeOK'
  BY <1>1, <1>3 DEF FbTypeOK
<1>6. fbHnd'[t] = b /\ (\A u \in FbThreads \ {t} : fbHnd'[u] = fbHnd[u] /\ fbPc'[u] = fbPc[u]
                                                 /\ fbReg'[u] = fbReg[u])
      /\ fbPc'[t] = "set"
  BY <1>1 DEF FbTypeOK
<1>7. ASSUME NEW u \in FbThreads
      PROVE  /\ fbHnd'[u] # NoFb => \E j \in Slots : fbHnd'[u] = [base |-> j * SlotSize]
             /\ fbPc'[u] = "look" => fbHnd'[u] = NoFb /\ fbReg'[u] # Slots
             /\ fbPc'[u] \in {"set", "clear"} => fbHnd'[u] # NoFb
  <2>1. CASE u = t
    BY <1>3, <1>4, <1>6, <2>1
  <2>2. CASE u # t
    BY <1>6, <2>2 DEF FbShapeInv
  <2> QED
    BY <2>1, <2>2
<1>8. \A u, v \in FbThreads :
        fbPc'[u] \in {"look", "set"} /\ fbPc'[v] \in {"look", "set"} => u = v
  BY <1>1, <1>6 DEF FbShapeInv
<1>9. fbMem' # "none"
  BY <1>1 DEF FbShapeInv
<1> QED
  BY <1>5, <1>7, <1>8, <1>9 DEF FbShapeInv

(* A slot is taken in the mask, or given back.                             *)
LEMMA FbStorePreserves ==
  ASSUME FbTypeOK, FbShapeInv, NEW t \in FbThreads, FbStore(t)
  PROVE  FbTypeOK' /\ FbShapeInv'
<1>1. /\ fbPc[t] = "set" /\ fbPc' = [fbPc EXCEPT ![t] = "idle"]
      /\ mask' = fbReg[t] \cup {fbHnd[t].base \div SlotSize}
      /\ fbRaced' = (fbRaced \/ fbReg[t] # mask)
      /\ fbReg' = [fbReg EXCEPT ![t] = {}] /\ UNCHANGED <<fbMem, fbHnd>>
  BY DEF FbStore, Stores
<1>2. mask' \subseteq Slots /\ fbRaced' \in BOOLEAN
  <2>1. fbHnd[t] # NoFb
    BY <1>1 DEF FbShapeInv
  <2>2. fbHnd[t].base \div SlotSize \in Slots
    BY <2>1, HandleFacts
  <2> QED
    BY <1>1, <2>2 DEF FbTypeOK
<1>3. FbTypeOK'
  BY <1>1, <1>2 DEF FbTypeOK
<1>4. FbShapeInv'
  BY <1>1 DEF FbTypeOK, FbShapeInv
<1> QED
  BY <1>3, <1>4

LEMMA FbFreeLoadPreserves ==
  ASSUME FbTypeOK, FbShapeInv, NEW t \in FbThreads, FbFreeLoad(t)
  PROVE  FbTypeOK' /\ FbShapeInv'
<1>1. /\ fbPc[t] = "idle" /\ fbHnd[t] # NoFb
      /\ fbPc' = [fbPc EXCEPT ![t] = "clear"] /\ fbReg' = [fbReg EXCEPT ![t] = mask]
      /\ UNCHANGED <<fbMem, mask, fbHnd, fbRaced>>
  BY DEF FbFreeLoad
<1>2. FbTypeOK'
  BY <1>1 DEF FbTypeOK
<1>3. FbShapeInv'
  BY <1>1 DEF FbTypeOK, FbShapeInv
<1> QED
  BY <1>2, <1>3

LEMMA FbFreeStorePreserves ==
  ASSUME FbTypeOK, FbShapeInv, NEW t \in FbThreads, FbFreeStore(t)
  PROVE  FbTypeOK' /\ FbShapeInv'
<1>1. /\ fbPc[t] = "clear" /\ fbPc' = [fbPc EXCEPT ![t] = "idle"]
      /\ mask' = fbReg[t] \ {FbIndex(fbHnd[t].base)}
      /\ fbRaced' = (fbRaced \/ fbReg[t] # mask)
      /\ fbHnd' = [fbHnd EXCEPT ![t] = NoFb]
      /\ fbReg' = [fbReg EXCEPT ![t] = {}] /\ UNCHANGED fbMem
  BY DEF FbFreeStore, Stores
<1>2. FbTypeOK'
  <2>1. mask' \subseteq Slots /\ fbRaced' \in BOOLEAN
    BY <1>1 DEF FbTypeOK
  <2> QED
    BY <1>1, <2>1 DEF FbTypeOK
<1>3. FbShapeInv'
  BY <1>1 DEF FbTypeOK, FbShapeInv
<1> QED
  BY <1>2, <1>3

-----------------------------------------------------------------------------
(* Every step preserves the inductive invariant.                           *)
LEMMA NextIInv == IInv /\ [Next]_vars => IInv'
<1> SUFFICES ASSUME IInv, [Next]_vars PROVE IInv'
  OBVIOUS
<1>0. IonInv /\ FbTypeOK /\ FbShapeInv
  BY Parts
<1>1. ASSUME IonInv', UNCHANGED fbVars PROVE IInv'
  <2>1. FbTypeOK' /\ FbShapeInv'
    BY <1>0, <1>1, FbUnchanged
  <2> QED
    BY <1>1, <2>1, Parts DEF IInv, IonInv, TypeOK, IonTypeOK, FbTypeOK
<1>2. ASSUME FbTypeOK', FbShapeInv', UNCHANGED ionVars PROVE IInv'
  <2>1. IonInv'
    BY <1>0, <1>2, IonUnchanged
  <2> QED
    BY <1>2, <2>1 DEF IInv, IonInv, TypeOK, IonTypeOK, FbTypeOK
<1>3. CASE \E usage \in Usages, request \in Requests : Alloc(usage, request)
  <2>1. UNCHANGED fbVars
    BY <1>3 DEF Alloc
  <2>2. IonInv'
    BY <1>0, <1>3, AllocPreserves
  <2> QED
    BY <1>1, <2>1, <2>2
<1>4. CASE \E p \in Clients : Send(p) \/ Register(p) \/ Unregister(p)
  <2>1. UNCHANGED fbVars
    BY <1>4 DEF Send, Register, Unregister
  <2>2. IonInv'
    BY <1>0, <1>4, SendPreserves, RegisterPreserves, UnregisterPreserves
  <2> QED
    BY <1>1, <2>1, <2>2
<1>5. CASE Free
  <2>1. UNCHANGED fbVars
    BY <1>5 DEF Free
  <2>2. IonInv'
    BY <1>0, <1>5, FreePreserves
  <2> QED
    BY <1>1, <2>1, <2>2
<1>6. CASE \E p \in Procs :
             \/ \E kind \in LockKinds : LockSW(p, kind) \/ LockHW(p, kind)
             \/ Unlock(p) \/ CpuWrites(p) \/ HardwareWrites(p)
  <2>1. PICK p \in Procs : \/ \E kind \in LockKinds : LockSW(p, kind) \/ LockHW(p, kind)
                           \/ Unlock(p) \/ CpuWrites(p) \/ HardwareWrites(p)
    BY <1>6
  <2>2. UNCHANGED fbVars
    BY <2>1 DEF LockSW, LockHW, Unlock, CpuWrites, HardwareWrites
  <2>3. IonInv'
    BY <1>0, <2>1, LockSWPreserves, LockHWPreserves, UnlockPreserves, WritesPreserve
  <2> QED
    BY <1>1, <2>2, <2>3
<1>7. CASE FbOpen
  <2>1. UNCHANGED ionVars
    BY <1>7 DEF FbOpen
  <2> QED
    BY <1>0, <1>2, <1>7, <2>1, FbOpenPreserves
<1>8. CASE \E t \in FbThreads :
             FbLook(t) \/ FbLoad(t) \/ FbStore(t) \/ FbFreeLoad(t) \/ FbFreeStore(t)
  <2>1. UNCHANGED ionVars
    BY <1>8 DEF FbLook, FbLoad, FbStore, FbFreeLoad, FbFreeStore
  <2>2. FbTypeOK' /\ FbShapeInv'
    BY <1>0, <1>8, FbLookPreserves, FbLoadPreserves, FbStorePreserves,
       FbFreeLoadPreserves, FbFreeStorePreserves
  <2> QED
    BY <1>2, <2>1, <2>2
<1>9. CASE UNCHANGED vars
  <2>1. UNCHANGED ionVars /\ UNCHANGED fbVars
    BY <1>9 DEF vars
  <2> QED
    BY <1>0, <1>1, <2>1, IonUnchanged
<1> QED
  BY <1>3, <1>4, <1>5, <1>6, <1>7, <1>8, <1>9 DEF Next

(* The inductive invariant holds in every state: flags of handles, counts  *)
(* of the kernel, locks and the mask of slots go together.                 *)
THEOREM InductiveInvariant == Spec => []IInv
<1>1. Init => IInv
  BY InitIInv
<1>2. IInv /\ [Next]_vars => IInv'
  BY NextIInv
<1> QED
  BY <1>1, <1>2, PTL DEF Spec

(* Whichever way a buffer went through whichever processes, each holds one *)
(* descriptor and one mapping for the handle it has and none for one it    *)
(* has given back.                                                         *)
THEOREM NothingLeaks == Spec => []KernelHoldsWhatHandlesSay
<1>1. IInv => KernelHoldsWhatHandlesSay
  <2> SUFFICES ASSUME IonInv, ~slipped, NEW p \in Procs
               PROVE  LET h == hnd[p]  n(b) == IF b THEN 1 ELSE 0 IN
                 /\ fds[p] = [data |-> n(h # NoHandle), meta |-> n(h # NoHandle /\ buf.meta)]
                 /\ h.st # "sent" => maps[p] = [data |-> n(h.base), meta |-> n(h.meta)]
                 /\ h # NoHandle /\ "PROTECTED" \in buf.usage =>
                      buf.heaps = ionHeaps(buf.usage)
                 /\ h # NoHandle /\ Secure(buf) => maps[p].data = 0
    BY Parts DEF KernelHoldsWhatHandlesSay
  <2>1. fds[p] = Held(p) /\ maps[p] = Mapped(p)
    <3>1. CASE p = Composer
      BY <3>1 DEF IonInv, KernelInv
    <3>2. CASE p # Composer
      <4>1. p \in Clients
        BY <3>2, ConstantFacts
      <4>2. fds[p] = Held(p) /\ maps[p].data = Mapped(p).data /\ maps[p].meta = Mapped(p).meta
        BY <4>1 DEF IonInv, KernelInv
      <4>3. maps[p] = [data |-> maps[p].data, meta |-> maps[p].meta]
        BY CountFacts
      <4>4. Mapped(p) = [data |-> Mapped(p).data, meta |-> Mapped(p).meta]
        BY DEF Mapped, Nothing
      <4> QED
        BY <4>2, <4>3, <4>4
    <3> QED
      BY <3>1, <3>2
  <2>2. hnd[p].st \in {"none", "sent", "ready"} /\ hnd[p].base \in BOOLEAN
        /\ hnd[p].meta \in BOOLEAN
    BY CountFacts DEF Handles
  <2>3. hnd[p].st # "sent" => maps[p] = [data |-> N(hnd[p].base), meta |-> N(hnd[p].meta)]
    <3>1. CASE hnd[p].st = "none"
      <4>1. hnd[p] = NoHandle
        BY <3>1 DEF IonInv, HandleInv
      <4> QED
        BY <2>1, <3>1, <4>1 DEF Mapped, NoHandle, Nothing, N
    <3>2. CASE hnd[p].st = "ready"
      BY <2>1, <3>2 DEF Mapped
    <3> QED
      BY <2>2, <3>1, <3>2
  <2>4. hnd[p] # NoHandle /\ "PROTECTED" \in buf.usage => buf.heaps = ionHeaps(buf.usage)
    BY CountFacts DEF IonInv, BufferInv
  <2>5. hnd[p] # NoHandle /\ Secure(buf) => maps[p].data = 0
    BY <2>1, <2>2 DEF IonInv, HandleInv, Mapped, Nothing, N
  <2> QED
    BY <2>1, <2>3, <2>4, <2>5 DEF Held, N
<1> QED
  BY <1>1, InductiveInvariant, PTL

(* Writes of the CPU reach memory, and a CPU that has locked the buffer    *)
(* sees what hardware has written, with any number of processes.           *)
THEOREM CacheStaysCoherent == Spec => []CacheIsCoherent
<1>1. IInv => CacheIsCoherent
  BY DEF IInv
<1> QED
  BY <1>1, InductiveInvariant, PTL

-----------------------------------------------------------------------------
(* The slots of the framebuffer are handed out exclusively.                *)

(* What the exclusive slots say of a thread and its slot.                  *)
LEMMA ExclusiveFacts ==
  ASSUME FbInv, ~fbRaced, NEW t \in FbThreads, fbHnd[t] # NoFb, fbPc[t] # "set"
  PROVE  \A u \in FbThreads \ {t} : fbHnd[u] # NoFb =>
           fbHnd[u].base \div SlotSize # fbHnd[t].base \div SlotSize
<1> TAKE u \in FbThreads \ {t}
<1> HAVE fbHnd[u] # NoFb
<1>1. PICK i \in Slots : fbHnd[t] = [base |-> i * SlotSize]
                         /\ fbHnd[t].base \div SlotSize = i
  BY HandleFacts DEF FbInv
<1>2. PICK j \in Slots : fbHnd[u] = [base |-> j * SlotSize]
                         /\ fbHnd[u].base \div SlotSize = j
  BY HandleFacts DEF FbInv
<1>3. fbHnd[u] # fbHnd[t]
  BY DEF FbInv, FbSlotsExclusive
<1> QED
  BY <1>1, <1>2, <1>3

LEMMA FbLoadExclusive ==
  ASSUME FbTypeOK, FbInv, NEW t \in FbThreads, FbLoad(t)
  PROVE  FbChoiceInv' /\ FbSlotsExclusive'
<1> SUFFICES ASSUME ~fbRaced' PROVE FbChoiceInv' /\ FbSlotsExclusive'
  BY DEF FbChoiceInv, FbSlotsExclusive
<1> DEFINE i == FirstFree(fbReg[t])
           b == [base |-> i * SlotSize]
<1>1. /\ fbPc[t] = "look" /\ fbPc' = [fbPc EXCEPT ![t] = "set"]
      /\ fbHnd' = [fbHnd EXCEPT ![t] = b] /\ fbReg' = [fbReg EXCEPT ![t] = mask]
      /\ UNCHANGED <<fbMem, mask, fbRaced>>
  BY DEF FbLoad
<1>2. i \in Slots \ fbReg[t] /\ mask \subseteq fbReg[t] /\ ~fbRaced
  BY <1>1, FirstFreeFacts DEF FbInv, FbShapeInv, FbChoiceInv, FbTypeOK
<1> HIDE DEF i
<1>3. b.base = i * SlotSize /\ b.base \div SlotSize = i /\ i \notin mask
  BY <1>2, SlotOf
<1> HIDE DEF b
<1>4. /\ fbHnd'[t] = b /\ fbPc'[t] = "set"
      /\ \A u \in FbThreads \ {t} : fbHnd'[u] = fbHnd[u] /\ fbPc'[u] = fbPc[u]
                                    /\ fbReg'[u] = fbReg[u]
  BY <1>1 DEF FbTypeOK
<1>5. \A u \in FbThreads \ {t} : fbPc[u] \notin {"look", "set"}
  BY <1>1 DEF FbInv, FbShapeInv
<1>6. FbChoiceInv'
  <2>1. ASSUME NEW u \in FbThreads
        PROVE  /\ fbPc'[u] = "look" => mask' \subseteq fbReg'[u]
               /\ fbPc'[u] = "set" => fbHnd'[u].base \div SlotSize \notin mask'
    <3>1. CASE u = t
      BY <1>1, <1>3, <1>4, <3>1
    <3>2. CASE u # t
      BY <1>4, <1>5, <3>2
    <3> QED
      BY <3>1, <3>2
  <2> QED
    BY <2>1 DEF FbChoiceInv
<1>7. FbSlotsExclusive'
  <2>1. ASSUME NEW u \in FbThreads, fbHnd'[u] # NoFb, fbPc'[u] # "set"
        PROVE  /\ fbHnd'[u].base \div SlotSize \in mask'
               /\ \A v \in FbThreads \ {u} : fbHnd'[v] # fbHnd'[u]
    <3>1. u # t /\ fbHnd'[u] = fbHnd[u] /\ fbPc[u] # "set"
      BY <1>4, <2>1
    <3>2. /\ fbHnd[u].base \div SlotSize \in mask
          /\ \A v \in FbThreads \ {u} : fbHnd[v] # fbHnd[u]
      BY <1>2, <2>1, <3>1 DEF FbInv, FbSlotsExclusive
    <3>3. b # fbHnd[u]
      BY <1>3, <3>2
    <3> QED
      BY <1>1, <1>4, <3>1, <3>2, <3>3
  <2>2. ASSUME NEW k \in mask'
        PROVE  \E u \in FbThreads : fbHnd'[u] # NoFb /\ fbHnd'[u].base \div SlotSize = k
    <3>1. PICK u \in FbThreads : fbHnd[u] # NoFb /\ fbHnd[u].base \div SlotSize = k
      BY <1>1, <1>2, <2>2 DEF FbInv, FbSlotsExclusive
    <3>2. u # t
      BY <1>1, <3>1 DEF FbInv, FbShapeInv
    <3> QED
      BY <1>4, <3>1, <3>2
  <2> QED
    BY <2>1, <2>2 DEF FbSlotsExclusive
<1> QED
  BY <1>6, <1>7

LEMMA FbStoreExclusive ==
  ASSUME FbTypeOK, FbInv, NEW t \in FbThreads, FbStore(t)
  PROVE  FbChoiceInv' /\ FbSlotsExclusive'
<1> SUFFICES ASSUME ~fbRaced' PROVE FbChoiceInv' /\ FbSlotsExclusive'
  BY DEF FbChoiceInv, FbSlotsExclusive
<1>1. /\ fbPc[t] = "set" /\ fbPc' = [fbPc EXCEPT ![t] = "idle"]
      /\ mask' = mask \cup {fbHnd[t].base \div SlotSize}
      /\ ~fbRaced /\ UNCHANGED <<fbMem, fbHnd>>
  BY DEF FbStore, Stores, FbTypeOK
<1>2. /\ fbHnd[t] # NoFb /\ fbPc'[t] = "idle"
      /\ \A u \in FbThreads \ {t} : fbPc'[u] = fbPc[u] /\ fbPc[u] \notin {"look", "set"}
  BY <1>1 DEF FbTypeOK, FbInv, FbShapeInv
<1>3. FbChoiceInv'
  BY <1>2 DEF FbChoiceInv
<1>4. \A u \in FbThreads \ {t} : fbHnd[u] # NoFb =>
        /\ fbHnd[u].base \div SlotSize \in mask
        /\ \A v \in FbThreads \ {u} : fbHnd[v] # fbHnd[u]
  BY <1>1, <1>2 DEF FbInv, FbSlotsExclusive
<1>5. FbSlotsExclusive'
  <2>1. ASSUME NEW u \in FbThreads, fbHnd'[u] # NoFb
        PROVE  /\ fbHnd'[u].base \div SlotSize \in mask'
               /\ \A v \in FbThreads \ {u} : fbHnd'[v] # fbHnd'[u]
    <3>1. CASE u = t
      <4>1. \A v \in FbThreads \ {t} : fbHnd[v] # fbHnd[t]
        BY <1>2, <1>4
      <4> QED
        BY <1>1, <3>1, <4>1
    <3>2. CASE u # t
      BY <1>1, <1>4, <2>1, <3>2
    <3> QED
      BY <3>1, <3>2
  <2>2. ASSUME NEW k \in mask'
        PROVE  \E u \in FbThreads : fbHnd'[u] # NoFb /\ fbHnd'[u].base \div SlotSize = k
    <3>1. CASE k \in mask
      BY <1>1, <3>1 DEF FbInv, FbSlotsExclusive
    <3>2. CASE k = fbHnd[t].base \div SlotSize
      BY <1>1, <1>2, <3>2
    <3> QED
      BY <1>1, <2>2, <3>1, <3>2
  <2> QED
    BY <2>1, <2>2 DEF FbSlotsExclusive
<1> QED
  BY <1>3, <1>5

LEMMA FbFreeStoreExclusive ==
  ASSUME HolesFit, FbTypeOK, FbInv, NEW t \in FbThreads, FbFreeStore(t)
  PROVE  FbChoiceInv' /\ FbSlotsExclusive'
<1> SUFFICES ASSUME ~fbRaced' PROVE FbChoiceInv' /\ FbSlotsExclusive'
  BY DEF FbChoiceInv, FbSlotsExclusive
<1>1. /\ fbPc[t] = "clear" /\ fbPc' = [fbPc EXCEPT ![t] = "idle"]
      /\ mask' = mask \ {FbIndex(fbHnd[t].base)} /\ ~fbRaced
      /\ fbHnd' = [fbHnd EXCEPT ![t] = NoFb]
      /\ fbReg' = [fbReg EXCEPT ![t] = {}] /\ UNCHANGED fbMem
  BY DEF FbFreeStore, Stores, FbTypeOK
<1>2. fbHnd[t] # NoFb
  BY <1>1 DEF FbInv, FbShapeInv
<1>3. PICK i \in Slots : fbHnd[t].base = i * SlotSize /\ fbHnd[t].base \div SlotSize = i
  BY <1>2, HandleFacts DEF FbInv
<1>4. mask' = mask \ {i}
  BY <1>1, <1>3, IndexOfSlot
<1>5. /\ fbHnd'[t] = NoFb /\ fbPc'[t] = "idle"
      /\ \A u \in FbThreads \ {t} : fbHnd'[u] = fbHnd[u] /\ fbPc'[u] = fbPc[u]
                                    /\ fbReg'[u] = fbReg[u]
  BY <1>1 DEF FbTypeOK
<1>6. FbChoiceInv'
  <2>1. ASSUME NEW u \in FbThreads
        PROVE  /\ fbPc'[u] = "look" => mask' \subseteq fbReg'[u]
               /\ fbPc'[u] = "set" => fbHnd'[u].base \div SlotSize \notin mask'
    <3>1. CASE u = t
      BY <1>5, <3>1
    <3>2. CASE u # t
      BY <1>1, <1>4, <1>5, <3>2 DEF FbInv, FbChoiceInv
    <3> QED
      BY <3>1, <3>2
  <2> QED
    BY <2>1 DEF FbChoiceInv
<1>7. \A u \in FbThreads \ {t} : fbHnd[u] # NoFb => fbHnd[u].base \div SlotSize # i
  BY <1>1, <1>2, <1>3, ExclusiveFacts
<1>8. FbSlotsExclusive'
  <2>1. ASSUME NEW u \in FbThreads, fbHnd'[u] # NoFb, fbPc'[u] # "set"
        PROVE  /\ fbHnd'[u].base \div SlotSize \in mask'
               /\ \A v \in FbThreads \ {u} : fbHnd'[v] # fbHnd'[u]
    <3>1. u # t /\ fbHnd'[u] = fbHnd[u] /\ fbPc[u] # "set" /\ fbHnd[u] # NoFb
      BY <1>5, <2>1
    <3>2. /\ fbHnd[u].base \div SlotSize \in mask
          /\ \A v \in FbThreads \ {u} : fbHnd[v] # fbHnd[u]
      BY <1>1, <3>1 DEF FbInv, FbSlotsExclusive
    <3>3. \A v \in FbThreads \ {u} : fbHnd'[v] # fbHnd'[u]
      <4> TAKE v \in FbThreads \ {u}
      <4>1. CASE v = t
        BY <1>5, <2>1, <4>1
      <4>2. CASE v # t
        BY <1>5, <3>1, <3>2, <4>2
      <4> QED
        BY <4>1, <4>2
    <3> QED
      BY <1>4, <1>7, <3>1, <3>2, <3>3
  <2>2. ASSUME NEW k \in mask'
        PROVE  \E u \in FbThreads : fbHnd'[u] # NoFb /\ fbHnd'[u].base \div SlotSize = k
    <3>1. PICK u \in FbThreads : fbHnd[u] # NoFb /\ fbHnd[u].base \div SlotSize = k
      BY <1>1, <1>4, <2>2 DEF FbInv, FbSlotsExclusive
    <3>2. u # t
      BY <1>3, <1>4, <2>2, <3>1
    <3> QED
      BY <1>5, <3>1, <3>2
  <2> QED
    BY <2>1, <2>2 DEF FbSlotsExclusive
<1> QED
  BY <1>6, <1>8

LEMMA NextFbInv == HolesFit /\ IInv /\ FbInv /\ [Next]_vars => FbInv'
<1> SUFFICES ASSUME HolesFit, IInv, FbInv, [Next]_vars PROVE FbInv'
  OBVIOUS
<1>0. FbTypeOK /\ FbShapeInv'
  BY Parts, NextIInv DEF IInv
<1>1. CASE UNCHANGED fbVars
  BY <1>1 DEF fbVars, FbInv, FbShapeInv, FbChoiceInv, FbSlotsExclusive
<1>2. CASE FbOpen
  <2>1. mask' = {} /\ UNCHANGED <<fbHnd, fbPc, fbReg, fbRaced>>
        /\ \A t \in FbThreads : fbHnd[t] = NoFb /\ fbPc[t] \notin {"look", "set"}
    BY <1>2 DEF FbOpen, FbInv, FbShapeInv
  <2>2. FbChoiceInv' /\ FbSlotsExclusive'
    BY <2>1 DEF FbChoiceInv, FbSlotsExclusive
  <2> QED
    BY <1>0, <2>2 DEF FbInv
<1>3. ASSUME NEW t \in FbThreads, FbLook(t) PROVE FbInv'
  <2>1. /\ fbPc' = [fbPc EXCEPT ![t] = "look"] /\ fbReg' = [fbReg EXCEPT ![t] = mask]
        /\ UNCHANGED <<mask, fbHnd, fbRaced>> /\ fbHnd[t] = NoFb
        /\ \A u \in FbThreads : fbPc[u] \notin {"look", "set"}
    BY <1>3 DEF FbLook
  <2>2. FbChoiceInv' /\ FbSlotsExclusive'
    BY <1>0, <2>1 DEF FbInv, FbTypeOK, FbChoiceInv, FbSlotsExclusive
  <2> QED
    BY <1>0, <2>2 DEF FbInv
<1>4. ASSUME NEW t \in FbThreads, FbFreeLoad(t) PROVE FbInv'
  <2>1. /\ fbPc' = [fbPc EXCEPT ![t] = "clear"] /\ fbReg' = [fbReg EXCEPT ![t] = mask]
        /\ UNCHANGED <<mask, fbHnd, fbRaced>> /\ fbPc[t] = "idle"
    BY <1>4 DEF FbFreeLoad
  <2>2. FbChoiceInv' /\ FbSlotsExclusive'
    BY <1>0, <2>1 DEF FbInv, FbTypeOK, FbChoiceInv, FbSlotsExclusive
  <2> QED
    BY <1>0, <2>2 DEF FbInv
<1>5. ASSUME NEW t \in FbThreads, FbLoad(t) \/ FbStore(t) \/ FbFreeStore(t) PROVE FbInv'
  BY <1>0, <1>5, FbLoadExclusive, FbStoreExclusive, FbFreeStoreExclusive DEF FbInv
<1>6. UNCHANGED fbVars \/ FbOpen
      \/ \E t \in FbThreads : FbLook(t) \/ FbLoad(t) \/ FbStore(t) \/ FbFreeLoad(t) \/ FbFreeStore(t)
  BY DEF Next, vars, Alloc, Send, Register, Unregister, Free, LockSW, LockHW, Unlock,
         CpuWrites, HardwareWrites
<1> QED
  BY <1>1, <1>2, <1>3, <1>4, <1>5, <1>6

(* No two threads get the same slot of the framebuffer, and the mask calls *)
(* taken what is taken, with any number of threads and of slots, unless an *)
(* update of the mask was lost to a free without the lock, and if what     *)
(* rounding to pages adds does not mislead free_impl.                      *)
THEOREM SlotsAreExclusive ==
  ASSUME HolesFit
  PROVE  Spec => []FbSlotsExclusive
<1>1. Init => FbInv
  <2> SUFFICES ASSUME Init PROVE FbInv
    OBVIOUS
  <2>1. FbShapeInv
    BY InitIInv DEF IInv
  <2>2. FbChoiceInv /\ FbSlotsExclusive
    BY DEF Init, FbChoiceInv, FbSlotsExclusive
  <2> QED
    BY <2>1, <2>2 DEF FbInv
<1>2. IInv /\ FbInv /\ [Next]_vars => FbInv'
  BY NextFbInv
<1>3. FbInv => FbSlotsExclusive
  BY DEF FbInv
<1> QED
  BY <1>1, <1>2, <1>3, InductiveInvariant, PTL DEF Spec

-----------------------------------------------------------------------------
(* The planes lie in the buffer, whatever size is asked for.               *)

LEMMA AlignFacts ==
  ASSUME NEW x \in Nat
  PROVE  /\ ALIGN(x, 16) \in Nat /\ x <= ALIGN(x, 16)
         /\ ALIGN(x, 32) \in Nat /\ x <= ALIGN(x, 32)
         /\ ALIGN(x, 64) \in Nat /\ x <= ALIGN(x, 64)
         /\ ALIGN(x, 128) \in Nat /\ x <= ALIGN(x, 128)
         /\ ALIGN(x, 2048) \in Nat /\ x <= ALIGN(x, 2048)
         /\ ALIGN(x, 4096) \in Nat /\ x <= ALIGN(x, 4096)
         /\ ALIGN(x, 8192) \in Nat /\ x <= ALIGN(x, 8192)
<1>1. \A a \in Nat \ {0} : ALIGN(x, a) \in Nat /\ x <= ALIGN(x, a)
  BY RoundUpFacts DEF ALIGN
<1> QED
  BY <1>1

(* What is aligned stays, and is even.                                     *)
LEMMA AlignAgain ==
  ASSUME NEW x \in Nat
  PROVE  /\ ALIGN(ALIGN(x, 16), 16) = ALIGN(x, 16)
         /\ 2 * (ALIGN(x, 16) \div 2) = ALIGN(x, 16)
         /\ ALIGN(x, 16) <= ALIGN(x, 128)
BY DEF ALIGN

(* Halving before aligning loses nothing, but of one pixel more than a     *)
(* multiple of 64.                                                         *)
LEMMA AlignHalf ==
  ASSUME NEW w \in Nat, w % 64 # 1
  PROVE  ALIGN(w, 32) <= 2 * ALIGN(w \div 2, 32)
BY DEF ALIGN

LEMMA HalfFacts ==
  ASSUME NEW n \in Nat
  PROVE  n \div 2 \in Nat /\ 2 * (n \div 2) <= n /\ n <= 2 * (n \div 2) + 1
OBVIOUS

(* Two planes, the second of pairs of Cb and Cr: what PlanesFit asks of    *)
(* stride s, H rows of Y, r rows of chroma and the size of the buffer.     *)
LEMMA SemiPlanarFits ==
  ASSUME NEW w \in Nat, NEW h \in Nat, NEW s \in Nat, NEW H \in Nat, NEW r \in Nat,
         NEW size \in Nat, NEW cb \in Nat, NEW cr \in Nat,
         1 < w, w <= s, 0 < h, h <= H, 0 < r, s * H + s * r <= size,
         \/ cb = s * H /\ cr = s * H + 1
         \/ cb = s * H + 1 /\ cr = s * H
  PROVE  /\ cb + s * (r - 1) + 2 * (w \div 2 - 1) < size
         /\ cr + s * (r - 1) + 2 * (w \div 2 - 1) < size
         /\ s * (h - 1) + w <= cb /\ s * (h - 1) + w <= cr
         /\ cb - cr \in {-1, 1} /\ s >= 2 * (w \div 2)
<1> DEFINE B == s * H
           C == s * r
           Y == s * h
<1>1. w \div 2 \in Nat /\ 2 * (w \div 2) <= w
  BY HalfFacts
<1>2. B \in Nat /\ C \in Nat /\ Y \in Nat /\ Y <= B
  BY ProductMono
<1>3. s * (r - 1) = C - s /\ s * (h - 1) = Y - s
  OBVIOUS
<1>4. B + C <= size /\ ((cb = B /\ cr = B + 1) \/ (cb = B + 1 /\ cr = B))
  <2>1. B + C <= size
    OBVIOUS
  <2>2. CASE cb = s * H /\ cr = s * H + 1
    BY <2>1, <2>2
  <2>3. CASE cb = s * H + 1 /\ cr = s * H
    BY <2>1, <2>3
  <2> QED
    BY <2>2, <2>3
<1> DEFINE k == w \div 2
           c1 == s * (r - 1)
           y1 == s * (h - 1)
<1> HIDE DEF B, C, Y, k, c1, y1
<1>5. /\ cb + c1 + 2 * (k - 1) < size /\ cr + c1 + 2 * (k - 1) < size
      /\ y1 + w <= cb /\ y1 + w <= cr
      /\ cb - cr \in {-1, 1} /\ s >= 2 * k
  BY <1>1, <1>2, <1>3, <1>4 DEF k, c1, y1
<1> QED
  BY <1>5 DEF k, c1, y1

(* What PlanesFit says of one request, of its size and its planes.         *)
FitIn(f, w, h, size, p) ==
  LET rows == IF f \in YUV422SP THEN h ELSE h \div 2
      End(c) == c + p.c * (rows - 1) + p.step * (w \div 2 - 1) IN
  p.ok /\ rows > 0 /\ w > 1 /\ (f = "YCrCb_420_SP_ADRENO" => w % 64 # 1) =>
    /\ End(p.cb) < size /\ End(p.cr) < size
    /\ p.y * (h - 1) + w <= p.cb /\ p.y * (h - 1) + w <= p.cr
    /\ p.step = 1 => p.cr + p.c * rows <= p.cb
    /\ p.step = 2 => p.cb - p.cr \in {-1, 1} /\ p.c >= 2 * (w \div 2)
Fit(f, w, h) ==
  LET d == getBufferSizeAndDimensions(f, w, h) IN
  FitIn(f, w, h, d.size, getYUVPlaneInfo(f, d.w, d.h))

(* A format of two planes has room for both: H rows of Y and r of chroma,  *)
(* all s bytes apart.                                                      *)
Room(f, w, h, s, H, r, size) ==
  /\ {w, h, s, H, r, size} \subseteq Nat
  /\ r = (IF f \in YUV422SP THEN h ELSE h \div 2)
  /\ getBufferSizeAndDimensions(f, w, h) = [size |-> size, w |-> s, h |-> H]
  /\ \/ getYUVPlaneInfo(f, s, H) = [ok |-> TRUE, y |-> s, c |-> s, cb |-> s * H,
                                    cr |-> s * H + 1, step |-> 2]
     \/ getYUVPlaneInfo(f, s, H) = [ok |-> TRUE, y |-> s, c |-> s, cb |-> s * H + 1,
                                    cr |-> s * H, step |-> 2]
  /\ w <= s /\ 0 < h /\ h <= H
  /\ (f = "YCrCb_420_SP_ADRENO" => w % 64 # 1) => s * H + s * r <= size

LEMMA SemiPlanarRequest ==
  ASSUME NEW f, NEW w, NEW h, NEW s, NEW H, NEW r, NEW size, Room(f, w, h, s, H, r, size)
  PROVE  Fit(f, w, h)
<1>0. /\ w \in Nat /\ h \in Nat /\ s \in Nat /\ H \in Nat /\ r \in Nat /\ size \in Nat
      /\ w <= s /\ 0 < h /\ h <= H
      /\ r = (IF f \in YUV422SP THEN h ELSE h \div 2)
  BY DEF Room
<1>00. (f = "YCrCb_420_SP_ADRENO" => w % 64 # 1) => s * H + s * r <= size
  BY Zenon DEF Room
<1> DEFINE p == getYUVPlaneInfo(f, s, H)
           d == getBufferSizeAndDimensions(f, w, h)
<1>1. Fit(f, w, h) <=> FitIn(f, w, h, size, p)
  <2>1. d = [size |-> size, w |-> s, h |-> H]
    BY Zenon DEF Room
  <2> HIDE DEF d
  <2>2. d.size = size /\ d.w = s /\ d.h = H
    BY <2>1
  <2>3. Fit(f, w, h) <=> FitIn(f, w, h, d.size, getYUVPlaneInfo(f, d.w, d.h))
    BY Zenon DEF Fit, d
  <2> QED
    BY <2>2, <2>3, Zenon
<1>2. \/ p = [ok |-> TRUE, y |-> s, c |-> s, cb |-> s * H, cr |-> s * H + 1, step |-> 2]
      \/ p = [ok |-> TRUE, y |-> s, c |-> s, cb |-> s * H + 1, cr |-> s * H, step |-> 2]
  BY Zenon DEF Room
<1> HIDE DEF p
<1>3. p.c = s /\ p.y = s /\ p.step = 2
      /\ ((p.cb = s * H /\ p.cr = s * H + 1) \/ (p.cb = s * H + 1 /\ p.cr = s * H))
  <2>1. CASE p = [ok |-> TRUE, y |-> s, c |-> s, cb |-> s * H, cr |-> s * H + 1, step |-> 2]
    BY <2>1
  <2>2. CASE p = [ok |-> TRUE, y |-> s, c |-> s, cb |-> s * H + 1, cr |-> s * H, step |-> 2]
    BY <2>2
  <2> QED
    BY <1>2, <2>1, <2>2
<1>4. p.cb \in Nat /\ p.cr \in Nat
  <2>1. s * H \in Nat
    BY <1>0, ProductMono
  <2> QED
    BY <1>3, <2>1
<1>5. ASSUME 1 < w, 0 < r, f = "YCrCb_420_SP_ADRENO" => w % 64 # 1
      PROVE  /\ p.cb + p.c * (r - 1) + p.step * (w \div 2 - 1) < size
             /\ p.cr + p.c * (r - 1) + p.step * (w \div 2 - 1) < size
             /\ p.y * (h - 1) + w <= p.cb /\ p.y * (h - 1) + w <= p.cr
             /\ p.step = 1 => p.cr + p.c * r <= p.cb
             /\ p.step = 2 => p.cb - p.cr \in {-1, 1} /\ p.c >= 2 * (w \div 2)
  <2>1. /\ p.cb + s * (r - 1) + 2 * (w \div 2 - 1) < size
        /\ p.cr + s * (r - 1) + 2 * (w \div 2 - 1) < size
        /\ s * (h - 1) + w <= p.cb /\ s * (h - 1) + w <= p.cr
        /\ p.cb - p.cr \in {-1, 1} /\ s >= 2 * (w \div 2)
    BY <1>0, <1>00, <1>3, <1>4, <1>5, SemiPlanarFits
  <2>2. p.step # 1
    BY <1>3
  <2> QED
    BY <1>3, <2>1, <2>2, Zenon
<1>6. FitIn(f, w, h, size, p)
  BY <1>0, <1>5, Zenon DEF FitIn
<1> QED
  BY <1>1, <1>6

(* One lemma per group of formats.                                         *)
LEMMA Yuv420spFits ==
  ASSUME NEW f \in YUV420SP, NEW w \in Nat \ {0}, NEW h \in Nat \ {0}
  PROVE  Fit(f, w, h)
<1> DEFINE s == ALIGN(w, 16)
           r == h \div 2
           Y == s * h
           size == ALIGN(Y + Y \div 2 + 1, 4096)
<1>1. s \in Nat /\ w <= s /\ r \in Nat /\ 2 * r <= h
  BY AlignFacts, HalfFacts
<1> HIDE DEF s, r
<1>2. Y \in Nat /\ s * r \in Nat /\ 2 * (s * r) <= Y
  <2>1. s * (2 * r) <= s * h /\ s * h \in Nat /\ s * r \in Nat
    BY <1>1, ProductMono
  <2>2. s * (2 * r) = 2 * (s * r)
    BY <1>1
  <2> QED
    BY <2>1, <2>2
<1> HIDE DEF Y
<1>3. size \in Nat /\ Y + Y \div 2 + 1 <= size
  <2>1. Y + Y \div 2 + 1 \in Nat
    BY <1>2
  <2> QED
    BY <2>1, AlignFacts
<1> HIDE DEF size
<1>4. Y + s * r <= size
  <2> DEFINE c == s * r
  <2>1. c \in Nat /\ 2 * c <= Y
    BY <1>2
  <2> HIDE DEF c
  <2>2. c <= Y \div 2
    BY <1>2, <2>1
  <2>3. Y + c <= size
    BY <1>2, <1>3, <2>1, <2>2
  <2> QED
    BY <2>3 DEF c
<1>5. getBufferSizeAndDimensions(f, w, h) = [size |-> size, w |-> s, h |-> h]
  BY DEF getBufferSizeAndDimensions, getStride, Sized, PAGE, YUV420SP, RGB, YUV422SP, size, Y, s
<1>6. \/ getYUVPlaneInfo(f, s, h) = [ok |-> TRUE, y |-> s, c |-> s, cb |-> s * h,
                                     cr |-> s * h + 1, step |-> 2]
      \/ getYUVPlaneInfo(f, s, h) = [ok |-> TRUE, y |-> s, c |-> s, cb |-> s * h + 1,
                                     cr |-> s * h, step |-> 2]
  BY DEF getYUVPlaneInfo, YUV420SP
<1>7. r = (IF f \in YUV422SP THEN h ELSE h \div 2) /\ f \in Formats
  BY DEF YUV420SP, YUV422SP, Formats, r
<1>8. s * h + s * r <= size
  BY <1>4 DEF Y
<1>9. Room(f, w, h, s, h, r, size)
  BY <1>1, <1>3, <1>5, <1>6, <1>7, <1>8 DEF Room
<1> QED
  BY <1>9, SemiPlanarRequest

LEMMA Yuv422spFits ==
  ASSUME NEW f \in YUV422SP, NEW w \in Nat \ {0}, NEW h \in Nat \ {0},
         getBufferSizeAndDimensions(f, w, h).size > 0
  PROVE  Fit(f, w, h)
<1> DEFINE s == ALIGN(w, 16)
           size == ALIGN(s * h * 2, 4096)
<1>1. s \in Nat /\ w <= s
  BY AlignFacts
<1>2. getBufferSizeAndDimensions(f, w, h) = [size |-> size, w |-> s, h |-> h]
  <2>1. getBufferSizeAndDimensions(f, w, h) =
          IF w % 2 = 1 THEN Refused ELSE [size |-> size, w |-> s, h |-> h]
    BY DEF getBufferSizeAndDimensions, getStride, Sized, PAGE, YUV420SP, RGB, YUV422SP
  <2>2. ~(Refused.size > 0)
    BY DEF Refused
  <2> QED
    BY <2>1, <2>2
<1> HIDE DEF s
<1>3. s * h \in Nat /\ s * h * 2 = s * h + s * h
  BY <1>1, ProductMono
<1>4. size \in Nat /\ s * h + s * h <= size
  <2>1. s * h * 2 \in Nat
    BY <1>3
  <2> QED
    BY <1>3, <2>1, AlignFacts
<1> HIDE DEF size
<1>5. \/ getYUVPlaneInfo(f, s, h) = [ok |-> TRUE, y |-> s, c |-> s, cb |-> s * h,
                                     cr |-> s * h + 1, step |-> 2]
      \/ getYUVPlaneInfo(f, s, h) = [ok |-> TRUE, y |-> s, c |-> s, cb |-> s * h + 1,
                                     cr |-> s * h, step |-> 2]
  BY DEF getYUVPlaneInfo, YUV422SP
<1>6. h = (IF f \in YUV422SP THEN h ELSE h \div 2) /\ f \in Formats
  BY DEF YUV422SP, Formats
<1>7. Room(f, w, h, s, h, h, size)
  BY <1>1, <1>2, <1>4, <1>5, <1>6 DEF Room
<1> QED
  BY <1>7, SemiPlanarRequest

LEMMA AdrenoFits ==
  ASSUME NEW w \in Nat \ {0}, NEW h \in Nat \ {0}
  PROVE  Fit("YCrCb_420_SP_ADRENO", w, h)
<1> DEFINE f == "YCrCb_420_SP_ADRENO"
           s == ALIGN(w, 32)
           H == ALIGN(h, 32)
           r == h \div 2
           cw == ALIGN(w \div 2, 32)
           ch == ALIGN(r, 32)
           size == ALIGN(s * H, 4096) + ALIGN(2 * cw * ch, 4096)
<1>1. /\ s \in Nat /\ w <= s /\ H \in Nat /\ h <= H /\ r \in Nat
      /\ cw \in Nat /\ ch \in Nat /\ r <= ch
  <2>1. w \div 2 \in Nat /\ r \in Nat
    BY HalfFacts
  <2>2. s \in Nat /\ w <= s /\ H \in Nat /\ h <= H
    BY AlignFacts
  <2>3. cw \in Nat
    BY <2>1, AlignFacts
  <2> HIDE DEF r
  <2>4. ch \in Nat /\ r <= ch
    BY <2>1, AlignFacts
  <2> QED
    BY <2>1, <2>2, <2>3, <2>4
<1>2. w % 64 # 1 => s <= 2 * cw
  BY AlignHalf
<1>3. getBufferSizeAndDimensions(f, w, h) = [size |-> size, w |-> s, h |-> H]
  BY DEF getBufferSizeAndDimensions, getStride, Sized, PAGE, RGB, YUV420SP, YUV422SP
<1>4. getYUVPlaneInfo(f, s, H) = [ok |-> TRUE, y |-> s, c |-> s, cb |-> s * H + 1,
                                  cr |-> s * H, step |-> 2]
  BY DEF getYUVPlaneInfo
<1>5. r = (IF f \in YUV422SP THEN h ELSE h \div 2) /\ f \in Formats
  BY DEF YUV422SP, Formats
<1> HIDE DEF s, H, cw, ch
<1>6. s * H \in Nat /\ 2 * cw * ch \in Nat
  BY <1>1, ProductMono
<1>7. size \in Nat /\ s * H + 2 * cw * ch <= size
  <2> DEFINE a == s * H
             b == 2 * cw * ch
  <2>1. a \in Nat /\ b \in Nat
    BY <1>6
  <2> HIDE DEF a, b
  <2>2. a <= ALIGN(a, 4096) /\ b <= ALIGN(b, 4096) /\ ALIGN(a, 4096) \in Nat /\ ALIGN(b, 4096) \in Nat
    BY <2>1, AlignFacts
  <2>3. ALIGN(a, 4096) + ALIGN(b, 4096) \in Nat /\ a + b <= ALIGN(a, 4096) + ALIGN(b, 4096)
    BY <2>1, <2>2
  <2> QED
    BY <2>3 DEF a, b
<1>8. w % 64 # 1 => s * r <= 2 * cw * ch
  <2> SUFFICES ASSUME w % 64 # 1 PROVE s * r <= 2 * cw * ch
    OBVIOUS
  <2>1. s * r <= (2 * cw) * r /\ s * r \in Nat /\ (2 * cw) * r \in Nat
    BY <1>1, <1>2, ProductMono
  <2>2. (2 * cw) * r <= (2 * cw) * ch /\ (2 * cw) * ch \in Nat
    <3>1. 2 * cw \in Nat
      BY <1>1
    <3> QED
      BY <1>1, <3>1, ProductMono
  <2> QED
    BY <2>1, <2>2
<1>9. w % 64 # 1 => s * H + s * r <= size
  <2> DEFINE a == s * H
             b == 2 * cw * ch
             c == s * r
  <2>1. a \in Nat /\ b \in Nat /\ c \in Nat /\ (w % 64 # 1 => c <= b) /\ a + b <= size
    BY <1>1, <1>6, <1>7, <1>8, ProductMono
  <2> HIDE DEF a, b, c
  <2>2. w % 64 # 1 => a + c <= size
    BY <1>7, <2>1
  <2> QED
    BY <2>2 DEF a, c
<1> HIDE DEF size, r
<1>10. r \in Nat
  BY <1>1
<1>11. Room(f, w, h, s, H, r, size)
  BY <1>1, <1>3, <1>4, <1>5, <1>7, <1>9, <1>10 DEF Room
<1> QED
  BY <1>11, SemiPlanarRequest

LEMMA ZslFits ==
  ASSUME NEW w \in Nat \ {0}, NEW h \in Nat \ {0}
  PROVE  Fit("NV21_ZSL", w, h)
<1> DEFINE f == "NV21_ZSL"
           s == ALIGN(w, 64)
           H == ALIGN(h, 64)
           r == h \div 2
           Y == s * H
           size == ALIGN(Y + Y \div 2, 4096)
<1>1. s \in Nat /\ w <= s /\ H \in Nat /\ h <= H
  BY AlignFacts
<1>2. r \in Nat /\ 2 * r <= h
  BY HalfFacts
<1>3. getBufferSizeAndDimensions(f, w, h) = [size |-> size, w |-> s, h |-> H]
  BY DEF getBufferSizeAndDimensions, getStride, Sized, PAGE, RGB, YUV420SP, YUV422SP
<1>4. getYUVPlaneInfo(f, s, H) = [ok |-> TRUE, y |-> s, c |-> s, cb |-> s * H + 1,
                                  cr |-> s * H, step |-> 2]
  BY DEF getYUVPlaneInfo
<1>5. r = (IF f \in YUV422SP THEN h ELSE h \div 2)
  BY DEF YUV422SP
<1> HIDE DEF s, H, r
<1>6. Y \in Nat /\ s * r \in Nat /\ 2 * (s * r) <= Y
  <2>1. 2 * r \in Nat /\ 2 * r <= H
    BY <1>1, <1>2
  <2>2. s * (2 * r) <= s * H /\ s * H \in Nat /\ s * r \in Nat
    BY <1>1, <1>2, <2>1, ProductMono
  <2>3. s * (2 * r) = 2 * (s * r)
    BY <1>1, <1>2
  <2> QED
    BY <2>2, <2>3
<1> DEFINE c == s * r
<1> HIDE DEF Y, c
<1>7. c \in Nat /\ Y \in Nat /\ c <= Y \div 2 /\ Y + Y \div 2 \in Nat
  BY <1>6 DEF c
<1>8. size \in Nat /\ Y + Y \div 2 <= size
  BY <1>7, AlignFacts
<1> HIDE DEF size
<1>9. Y + c <= size
  BY <1>7, <1>8
<1>10. s * H + s * r <= size
  BY <1>9 DEF Y, c
<1>11. Room(f, w, h, s, H, r, size)
  BY <1>1, <1>2, <1>3, <1>4, <1>5, <1>8, <1>10 DEF Room
<1> QED
  BY <1>11, SemiPlanarRequest

LEMMA RawFits ==
  ASSUME NEW w \in Nat \ {0}, NEW h \in Nat \ {0}
  PROVE  Fit("RAW_SENSOR", w, h)
<1> DEFINE f == "RAW_SENSOR"
           s == ALIGN(w, 32)
           H == ALIGN(h, 32)
           r == h \div 2
           size == s * H * 2
<1>1. s \in Nat /\ w <= s /\ H \in Nat /\ h <= H
  BY AlignFacts
<1>2. r \in Nat /\ 2 * r <= h
  BY HalfFacts
<1>3. getBufferSizeAndDimensions(f, w, h) = [size |-> size, w |-> s, h |-> H]
  BY DEF getBufferSizeAndDimensions, getStride, Sized, PAGE, RGB, YUV420SP, YUV422SP
<1>4. getYUVPlaneInfo(f, s, H) = [ok |-> TRUE, y |-> s, c |-> s, cb |-> s * H + 1,
                                  cr |-> s * H, step |-> 2]
  BY DEF getYUVPlaneInfo
<1>5. r = (IF f \in YUV422SP THEN h ELSE h \div 2)
  BY DEF YUV422SP
<1> HIDE DEF s, H, r
<1>6. s * H \in Nat /\ s * r <= s * H /\ s * r \in Nat
  <2>1. r <= H
    BY <1>1, <1>2
  <2> QED
    BY <1>1, <1>2, <2>1, ProductMono
<1>7. size \in Nat /\ s * H + s * r <= size
  <2> DEFINE a == s * H
             c == s * r
  <2>1. a \in Nat /\ c \in Nat /\ c <= a
    BY <1>6
  <2> HIDE DEF a, c
  <2>2. a * 2 \in Nat /\ a + c <= a * 2
    BY <2>1
  <2> QED
    BY <2>2 DEF a, c
<1> HIDE DEF size
<1>8. Room(f, w, h, s, H, r, size)
  BY <1>1, <1>2, <1>3, <1>4, <1>5, <1>7 DEF Room
<1> QED
  BY <1>8, SemiPlanarRequest

LEMMA EncodeableFits ==
  ASSUME NEW w \in Nat \ {0}, NEW h \in Nat \ {0}
  PROVE  Fit("NV12_ENCODEABLE", w, h)
<1> DEFINE f == "NV12_ENCODEABLE"
           s == ALIGN(w, 16)
           r == h \div 2
           k == ALIGN(s \div 2, 16)
           Y == s * h
           C == k * r * 2
           size == ALIGN(ALIGN(Y, 2048) + C, 4096)
<1>1. s \in Nat /\ w <= s /\ 2 * (s \div 2) = s
  BY AlignFacts, AlignAgain
<1>2. r \in Nat
  BY HalfFacts
<1>3. getBufferSizeAndDimensions(f, w, h) = [size |-> size, w |-> s, h |-> h]
  BY DEF getBufferSizeAndDimensions, getStride, Sized, PAGE, RGB, YUV420SP, YUV422SP
<1>4. getYUVPlaneInfo(f, s, h) = [ok |-> TRUE, y |-> s, c |-> s, cb |-> s * h,
                                  cr |-> s * h + 1, step |-> 2]
  BY DEF getYUVPlaneInfo
<1>5. r = (IF f \in YUV422SP THEN h ELSE h \div 2)
  BY DEF YUV422SP
<1> HIDE DEF s, r
<1>6. k \in Nat /\ s \div 2 <= k /\ s <= 2 * k
  <2>1. s \div 2 \in Nat
    BY <1>1, HalfFacts
  <2>2. k \in Nat /\ s \div 2 <= k
    BY <2>1, AlignFacts
  <2> HIDE DEF k
  <2> QED
    BY <1>1, <2>1, <2>2
<1> HIDE DEF k
<1>7. Y \in Nat /\ C \in Nat /\ s * r <= C /\ s * r \in Nat
  <2>1. s * r <= (2 * k) * r /\ s * r \in Nat /\ (2 * k) * r \in Nat
    BY <1>1, <1>2, <1>6, ProductMono
  <2>2. (2 * k) * r = k * r * 2
    BY <1>2, <1>6
  <2>3. Y \in Nat
    BY <1>1, ProductMono
  <2> QED
    BY <2>1, <2>2, <2>3
<1> DEFINE c == s * r
<1> HIDE DEF Y, C, c
<1>8. c \in Nat /\ c <= C /\ Y \in Nat /\ C \in Nat
  BY <1>7 DEF c
<1>9. size \in Nat /\ Y + C <= size
  <2>1. ALIGN(Y, 2048) \in Nat /\ Y <= ALIGN(Y, 2048)
    BY <1>8, AlignFacts
  <2> DEFINE A == ALIGN(Y, 2048)
  <2> HIDE DEF A
  <2>2. A \in Nat /\ Y <= A /\ A + C \in Nat
    BY <1>8, <2>1 DEF A
  <2>3. ALIGN(A + C, 4096) \in Nat /\ A + C <= ALIGN(A + C, 4096)
    BY <2>2, AlignFacts
  <2>4. Y + C <= A + C
    BY <1>8, <2>2
  <2>5. Y + C <= ALIGN(A + C, 4096)
    BY <1>8, <2>2, <2>3, <2>4
  <2> QED
    BY <2>3, <2>5 DEF A
<1> HIDE DEF size
<1>10. Y + c <= size
  BY <1>8, <1>9
<1>11. s * h + s * r <= size
  BY <1>10 DEF Y, c
<1>12. Room(f, w, h, s, h, r, size)
  BY <1>1, <1>2, <1>3, <1>4, <1>5, <1>9, <1>11 DEF Room
<1> QED
  BY <1>12, SemiPlanarRequest

LEMMA Nv12Fits ==
  ASSUME NEW w \in Nat \ {0}, NEW h \in Nat \ {0}
  PROVE  Fit("NV12", w, h)
<1> DEFINE f == "NV12"
           s == ALIGN(w, 16)
           r == h \div 2
           W == ALIGN(w, 128)
           A == ALIGN(h, 32)
           B == ALIGN(r, 32)
           size == ALIGN(W * A, 8192) + ALIGN(W * B, 8192)
<1>1. s \in Nat /\ w <= s /\ W \in Nat /\ s <= W /\ A \in Nat /\ h <= A /\ ALIGN(s, 16) = s
  BY AlignFacts, AlignAgain
<1>2. r \in Nat
  BY HalfFacts
<1>3. B \in Nat /\ r <= B
  <2> HIDE DEF r
  <2> QED
    BY <1>2, AlignFacts
<1>4. getBufferSizeAndDimensions(f, w, h) = [size |-> size, w |-> s, h |-> h]
  BY DEF getBufferSizeAndDimensions, getStride, Sized, PAGE, RGB, YUV420SP, YUV422SP
<1>5. r = (IF f \in YUV422SP THEN h ELSE h \div 2)
  BY DEF YUV422SP
<1> HIDE DEF s, r, W, A, B
<1>6. getYUVPlaneInfo(f, s, h) = [ok |-> TRUE, y |-> s, c |-> s, cb |-> s * h,
                                  cr |-> s * h + 1, step |-> 2]
  BY <1>1 DEF getYUVPlaneInfo
<1> DEFINE Y == s * h
           c == s * r
           P == W * A
           Q == W * B
<1>7. Y \in Nat /\ c \in Nat /\ P \in Nat /\ Q \in Nat /\ Y <= P /\ c <= Q
  <2>1. s * h <= W * h /\ s * h \in Nat /\ W * h \in Nat
    BY <1>1, ProductMono
  <2>2. W * h <= W * A /\ W * A \in Nat
    BY <1>1, ProductMono
  <2>3. s * r <= W * r /\ s * r \in Nat /\ W * r \in Nat
    BY <1>1, <1>2, ProductMono
  <2>4. W * r <= W * B /\ W * B \in Nat
    BY <1>1, <1>2, <1>3, ProductMono
  <2> QED
    BY <2>1, <2>2, <2>3, <2>4
<1> HIDE DEF Y, c, P, Q
<1>8. size \in Nat /\ Y + c <= size
  <2>1. ALIGN(P, 8192) \in Nat /\ P <= ALIGN(P, 8192)
    BY <1>7, AlignFacts
  <2>2. ALIGN(Q, 8192) \in Nat /\ Q <= ALIGN(Q, 8192)
    BY <1>7, AlignFacts
  <2>3. size = ALIGN(P, 8192) + ALIGN(Q, 8192)
    BY DEF P, Q
  <2> HIDE DEF size
  <2> QED
    BY <1>7, <2>1, <2>2, <2>3
<1> HIDE DEF size
<1>9. s * h + s * r <= size
  BY <1>8 DEF Y, c
<1>10. Room(f, w, h, s, h, r, size)
  BY <1>1, <1>2, <1>4, <1>5, <1>6, <1>8, <1>9 DEF Room
<1> QED
  BY <1>10, SemiPlanarRequest

(* Three planes: two of chroma, one after the other.                       *)
LEMMA Yv12Fits ==
  ASSUME NEW w \in Nat \ {0}, NEW h \in Nat \ {0},
         getBufferSizeAndDimensions("YV12", w, h).size > 0
  PROVE  Fit("YV12", w, h)
<1> DEFINE f == "YV12"
           s == ALIGN(w, 16)
           r == h \div 2
           k == ALIGN(s \div 2, 16)
           Y == s * h
           C == k * r
           size == ALIGN(Y + C * 2, 4096)
           d == getBufferSizeAndDimensions(f, w, h)
           p == [ok |-> TRUE, y |-> s, c |-> k, cb |-> Y + C, cr |-> Y, step |-> 1]
<1>1. s \in Nat /\ w <= s /\ 2 * (s \div 2) = s /\ r \in Nat
  BY AlignFacts, AlignAgain, HalfFacts
<1>2. d = [size |-> size, w |-> s, h |-> h] /\ h % 2 # 1
  <2>1. d = IF w % 2 = 1 \/ h % 2 = 1 THEN Refused ELSE [size |-> size, w |-> s, h |-> h]
    BY DEF getBufferSizeAndDimensions, getStride, Sized, PAGE, RGB, YUV420SP, YUV422SP
  <2>2. ~(Refused.size > 0)
    BY DEF Refused
  <2> HIDE DEF s, size
  <2> QED
    BY <2>1, <2>2
<1>3. 2 * r = h
  BY <1>2
<1>4. k \in Nat /\ s <= 2 * k
  <2>1. s \div 2 \in Nat
    BY <1>1, HalfFacts
  <2>2. k \in Nat /\ s \div 2 <= k
    BY <2>1, AlignFacts
  <2> HIDE DEF k, s
  <2> QED
    BY <1>1, <2>1, <2>2
<1> HIDE DEF s, r, k
<1>5. Y \in Nat /\ C \in Nat /\ (k * h) \div 2 = C
  <2>1. k * h = C * 2
    BY <1>1, <1>3, <1>4
  <2>2. Y \in Nat /\ C \in Nat
    BY <1>1, <1>4, ProductMono
  <2> HIDE DEF Y, C
  <2> QED
    BY <2>1, <2>2
<1>6. getYUVPlaneInfo(f, s, h) = p
  <2>1. getYUVPlaneInfo(f, s, h) = [ok |-> TRUE, y |-> s, c |-> k, cb |-> s * h + (k * h) \div 2,
                                    cr |-> s * h, step |-> 1]
    BY DEF getYUVPlaneInfo, k
  <2> QED
    BY <1>5, <2>1, Zenon
<1>7. (h \div 2) = r /\ f \notin YUV422SP
  BY DEF YUV422SP, r
<1> HIDE DEF Y, C
<1>8. size \in Nat /\ Y + C * 2 <= size
  <2>1. Y + C * 2 \in Nat
    BY <1>5
  <2> QED
    BY <2>1, AlignFacts
<1> HIDE DEF size
<1>9. ASSUME r > 0, w > 1
      PROVE  /\ Y + C + k * (r - 1) + 1 * (w \div 2 - 1) < size
             /\ Y + k * (r - 1) + 1 * (w \div 2 - 1) < size
             /\ s * (h - 1) + w <= Y + C /\ s * (h - 1) + w <= Y
             /\ Y + k * r <= Y + C
  <2>1. k * (r - 1) = C - k /\ s * (h - 1) = Y - s /\ k * r = C
    BY <1>1, <1>4 DEF C, Y
  <2>2. w \div 2 \in Nat /\ 2 * (w \div 2) <= w
    BY HalfFacts
  <2> DEFINE v == w \div 2
             c1 == k * (r - 1)
             y1 == s * (h - 1)
             kr == k * r
  <2> HIDE DEF v, c1, y1, kr
  <2>3. v \in Nat /\ v <= k /\ 1 * (v - 1) = v - 1
    BY <1>1, <1>4, <2>2 DEF v
  <2>4. c1 = C - k /\ y1 = Y - s /\ kr = C
    BY <2>1 DEF c1, y1, kr
  <2>5. /\ Y + C + c1 + 1 * (v - 1) < size /\ Y + c1 + 1 * (v - 1) < size
        /\ y1 + w <= Y + C /\ y1 + w <= Y /\ Y + kr <= Y + C
    BY <1>1, <1>4, <1>5, <1>8, <2>3, <2>4
  <2> QED
    BY <2>5 DEF v, c1, y1, kr
<1>10. p.ok /\ p.y = s /\ p.c = k /\ p.cb = Y + C /\ p.cr = Y /\ p.step = 1 /\ p.step # 2
  OBVIOUS
<1> HIDE DEF p
<1>11. FitIn(f, w, h, size, p)
  BY <1>7, <1>9, <1>10, Zenon DEF FitIn
<1>12. Fit(f, w, h) <=> FitIn(f, w, h, d.size, getYUVPlaneInfo(f, d.w, d.h))
  BY Zenon DEF Fit
<1> HIDE DEF d
<1>13. d.size = size /\ d.w = s /\ d.h = h
  BY <1>2
<1> QED
  BY <1>6, <1>11, <1>12, <1>13, Zenon

(* The other formats have no planes to announce.                           *)
LEMMA OthersFit ==
  ASSUME NEW f \in {"RGBA_8888", "RGB_888", "RGB_565", "YCbCr_420_SP_TILED",
                    "YCrCb_422_I", "BLOB"}, NEW w, NEW h
  PROVE  Fit(f, w, h)
<1>1. \A s, H : ~getYUVPlaneInfo(f, s, H).ok
  BY DEF getYUVPlaneInfo
<1> QED
  BY <1>1, Zenon DEF Fit, FitIn

LEMMA EveryFormatFits ==
  ASSUME NEW f \in Formats, NEW w \in Nat \ {0}, NEW h \in Nat \ {0},
         getBufferSizeAndDimensions(f, w, h).size > 0
  PROVE  Fit(f, w, h)
<1>1. f \in {"RGBA_8888", "RGB_888", "RGB_565", "YCbCr_420_SP_TILED", "YCrCb_422_I", "BLOB"}
      \/ f \in YUV420SP \/ f \in YUV422SP
      \/ f \in {"YCrCb_420_SP_ADRENO", "NV12", "NV12_ENCODEABLE", "YV12", "NV21_ZSL", "RAW_SENSOR"}
  BY DEF Formats, RGB
<1>2. CASE f \in {"YCrCb_420_SP_ADRENO", "NV12", "NV12_ENCODEABLE", "YV12", "NV21_ZSL",
                  "RAW_SENSOR"}
  BY <1>2, AdrenoFits, Nv12Fits, EncodeableFits, Yv12Fits, ZslFits, RawFits
<1> QED
  BY <1>1, <1>2, OthersFit, Yuv420spFits, Yuv422spFits

(* Whatever format, width and height are asked for, the planes gralloc     *)
(* announces to the CPU lie in the memory it has allocated.                *)
THEOREM PlanesLieInBuffer == Spec => []PlanesFit
<1>1. IInv => PlanesFit
  <2> SUFFICES ASSUME IInv, buf # NoBuf
               PROVE  Fit(buf.request[1], buf.request[2], buf.request[3])
    BY Zenon DEF PlanesFit, Fit, FitIn
  <2>1. buf.request \in Requests
        /\ getBufferSizeAndDimensions(buf.request[1], buf.request[2], buf.request[3]).size > 0
    BY DEF IInv, TypeOK, BufferInv
  <2>2. buf.request[1] \in Formats /\ buf.request[2] \in Nat \ {0} /\ buf.request[3] \in Nat \ {0}
    <3>1. buf.request \in Formats \X (Nat \ {0}) \X (Nat \ {0})
      BY <2>1, GrallocAssumption
    <3> QED
      BY <3>1
  <2> QED
    BY <2>1, <2>2, EveryFormatFits
<1> QED
  BY <1>1, InductiveInvariant, PTL
=============================================================================
