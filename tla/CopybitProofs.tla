---------------------------- MODULE CopybitProofs ----------------------------
(***************************************************************************)
(* Proofs about Copybit: its inductive invariant, and with it that every   *)
(* layer reaches the buffer of its frame, that the GPU draws from and to   *)
(* mapped memory, and that it shares no buffer with the display.           *)
(***************************************************************************)
EXTENDS Copybit, TLAPS

-----------------------------------------------------------------------------
(* The engine.                                                             *)

LEMMA CleanIsGood == GoodEngine(CleanEngine) /\ CleanEngine \in Engines
<1>1. <<>> \in Seq(Blits) /\ Range(<<>>) = {}
  BY DEF Range
<1>2. NONE \in Buffers \cup {NONE}
  OBVIOUS
<1> QED
  BY <1>1, <1>2 DEF CleanEngine, GoodEngine, WellFormed, Engines

(* What finish leaves, whatever was queued.                                *)
LEMMA FinishFacts ==
  ASSUME NEW E \in Engines
  PROVE  /\ finish(E) \in Engines /\ GoodEngine(finish(E)) /\ ~finish(E).mapped
         /\ finish(E).blits = <<>> /\ finish(E).wait = E.wait
         /\ \A t \in Types : finish(E).count[t] = 0
<1>1. /\ finish(E) \in Engines /\ ~finish(E).mapped
      /\ finish(E).blits = <<>> /\ finish(E).wait = E.wait
      /\ \A t \in Types : finish(E).count[t] = 0
  BY CleanIsGood DEF finish, CleanEngine, Engines
<1>2. Range(<<>>) = {}
  BY DEF Range
<1>3. GoodEngine(finish(E))
  BY <1>1, <1>2 DEF GoodEngine, WellFormed
<1> QED
  BY <1>1, <1>3

(* The target is mapped once, for the buffer of the frame.                 *)
LEMMA MapFacts ==
  ASSUME NEW E \in Engines, NEW b \in Buffers
  PROVE  LET F == MapDst(E, b) IN
         /\ F \in Engines /\ F.blits = E.blits /\ F.count = E.count /\ F.wait = E.wait
         /\ F.mapped /\ (~E.mapped => F.dst = b) /\ (E.mapped => F = E)
         /\ GoodEngine(E) => GoodEngine(F)
<1> DEFINE F == MapDst(E, b)
<1>1. CASE E.mapped
  BY <1>1 DEF MapDst, Engines
<1>2. CASE ~E.mapped
  <2>1. /\ F \in Engines /\ F.blits = E.blits /\ F.count = E.count /\ F.wait = E.wait
        /\ F.mapped /\ F.live /\ F.dst = b
    BY <1>2 DEF MapDst, Engines
  <2>2. GoodEngine(E) => GoodEngine(F)
    <3>1. Range(<<>>) = {}
      BY DEF Range
    <3> QED
      BY <1>2, <2>1, <3>1 DEF GoodEngine, WellFormed
  <2> QED
    BY <1>2, <2>1, <2>2
<1> QED
  BY <1>1, <1>2

(* Blits of a layer are added to the list.                                 *)
LEMMA AddedBlits ==
  ASSUME NEW s \in Seq(Blits), NEW blit \in Blits, NEW n \in Nat
  PROVE  LET new == s \o [k \in 1 .. n |-> blit] IN
         /\ new \in Seq(Blits) /\ Len(new) = Len(s) + n
         /\ Range(new) = Range(s) \cup (IF n = 0 THEN {} ELSE {blit})
         /\ n > 0 => new # <<>>
         /\ s # <<>> => new # <<>>
<1> DEFINE t == [k \in 1 .. n |-> blit]
<1>1. t \in Seq(Blits) /\ Len(t) = n /\ Len(s) \in Nat
  OBVIOUS
<1> DEFINE new == s \o t
<1>2. /\ new \in Seq(Blits) /\ Len(new) = Len(s) + n /\ DOMAIN new = 1 .. Len(s) + n
      /\ \A i \in 1 .. Len(s) : new[i] = s[i]
      /\ \A i \in Len(s) + 1 .. Len(s) + n : new[i] = blit
  <2>1. \A i \in Len(s) + 1 .. Len(s) + n : i - Len(s) \in 1 .. n
    BY <1>1
  <2> QED
    BY <1>1, <2>1
<1>3. Range(new) = Range(s) \cup (IF n = 0 THEN {} ELSE {blit})
  <2>1. DOMAIN s = 1 .. Len(s)
    OBVIOUS
  <2> HIDE DEF new
  <2>2. ASSUME NEW x \in Range(new) PROVE x \in Range(s) \cup (IF n = 0 THEN {} ELSE {blit})
    BY <1>1, <1>2, <2>1 DEF Range
  <2>3. Range(s) \subseteq Range(new)
    BY <1>1, <1>2, <2>1 DEF Range
  <2>4. n # 0 => blit \in Range(new)
    <3>1. n # 0 => Len(s) + 1 \in Len(s) + 1 .. Len(s) + n
      BY <1>1
    <3> QED
      BY <1>1, <1>2, <3>1 DEF Range
  <2> QED
    BY <2>2, <2>3, <2>4
<1>4. (n > 0 => new # <<>>) /\ (s # <<>> => new # <<>>)
  <2> HIDE DEF new
  <2>1. s # <<>> => Len(s) > 0
    OBVIOUS
  <2> QED
    BY <1>1, <1>2, <2>1
<1> QED
  BY <1>2, <1>3, <1>4

(* A layer takes the next template of its type, and blits with it join the *)
(* list.                                                                   *)
Taken(F, blit, n) ==
  [[F EXCEPT !.blits = @ \o [k \in 1 .. n |-> blit]] EXCEPT !.count[blit.type] = @ + 1]

LEMMA TakenTemplate ==
  ASSUME NEW F \in Engines, NEW blit \in Blits, NEW n \in Nat
  PROVE  LET G == Taken(F, blit, n) IN
         /\ G \in Engines /\ G.dst = F.dst
         /\ (G.mapped <=> F.mapped) /\ (G.live <=> F.live) /\ G.wait = F.wait
         /\ G.count = [F.count EXCEPT ![blit.type] = @ + 1]
<1> DEFINE new == F.blits \o [k \in 1 .. n |-> blit]
           A == [F EXCEPT !.blits = new]
           G == [A EXCEPT !.count[blit.type] = @ + 1]
<1>1. /\ F.blits \in Seq(Blits) /\ F.count \in [Types -> Nat] /\ blit.type \in Types
      /\ F = [blits |-> F.blits, count |-> F.count, mapped |-> F.mapped,
              dst |-> F.dst, live |-> F.live, wait |-> F.wait]
  BY DEF Engines, Blits
<1>2. /\ new \in Seq(Blits) /\ Len(new) = Len(F.blits) + n
      /\ Range(new) = Range(F.blits) \cup (IF n = 0 THEN {} ELSE {blit})
  BY <1>1, AddedBlits
<1> HIDE DEF new
<1>3. /\ A \in Engines /\ A.blits = new /\ A.count = F.count /\ A.mapped = F.mapped
      /\ A.dst = F.dst /\ A.live = F.live /\ A.wait = F.wait
  BY <1>2 DEF Engines
<1>4. [F.count EXCEPT ![blit.type] = @ + 1] \in [Types -> Nat]
  BY <1>1
<1>5. /\ G \in Engines /\ G.blits = new /\ G.count = [F.count EXCEPT ![blit.type] = @ + 1]
      /\ G.mapped = F.mapped /\ G.dst = F.dst /\ G.live = F.live /\ G.wait = F.wait
  <2> HIDE DEF A
  <2> QED
    BY <1>1, <1>3, <1>4 DEF Engines
<1> QED
  BY <1>2, <1>4, <1>5 DEF Taken, new

LEMMA TakenDst ==
  ASSUME NEW F \in Engines, NEW blit \in Blits, NEW n \in Nat
  PROVE  Taken(F, blit, n).dst = F.dst
<1>1. F.count \in [Types -> Nat]
  BY DEF Engines
<1> QED
  BY <1>1 DEF Taken, Engines

LEMMA TakenCount ==
  ASSUME NEW F \in Engines, NEW blit \in Blits, NEW n \in Nat, NEW t \in Types
  PROVE  Taken(F, blit, n).count[t] = IF t = blit.type THEN F.count[t] + 1 ELSE F.count[t]
<1>1. F.count \in [Types -> Nat] /\ blit.type \in Types
  BY DEF Engines, Blits
<1> QED
  BY <1>1 DEF Taken, Engines

LEMMA TakenBlits ==
  ASSUME NEW F \in Engines, NEW blit \in Blits, NEW n \in Nat
  PROVE  LET G == Taken(F, blit, n) IN
         /\ Len(G.blits) = Len(F.blits) + n
         /\ Range(G.blits) = Range(F.blits) \cup (IF n = 0 THEN {} ELSE {blit})
<1> DEFINE new == F.blits \o [k \in 1 .. n |-> blit]
<1>1. F.blits \in Seq(Blits)
  BY DEF Engines
<1>2. Taken(F, blit, n).blits = new
  BY DEF Taken, Engines
<1>3. /\ Len(new) = Len(F.blits) + n
      /\ Range(new) = Range(F.blits) \cup (IF n = 0 THEN {} ELSE {blit})
  BY <1>1, AddedBlits
<1> HIDE DEF new
<1> QED
  BY <1>2, <1>3

LEMMA AddGood ==
  ASSUME NEW F \in Engines, NEW blit \in Blits, NEW n \in Nat,
         GoodEngine(F), F.mapped, blit.live, blit.buf = F.dst,
         blit.tmpl = F.count[blit.type]
  PROVE  LET G == Taken(F, blit, n) IN
         /\ GoodEngine(G)
         /\ LayersOf(F) \subseteq LayersOf(G)
         /\ n > 0 => blit.layer \in LayersOf(G)
<1> DEFINE G == Taken(F, blit, n)
<1>1. /\ F.blits \in Seq(Blits) /\ F.count \in [Types -> Nat] /\ blit.type \in Types
  BY DEF Engines, Blits
<1>2. G \in Engines /\ (G.mapped <=> F.mapped) /\ G.dst = F.dst /\ (G.live <=> F.live)
  BY TakenTemplate
<1>4. \A t \in Types : G.count[t] = IF t = blit.type THEN F.count[t] + 1 ELSE F.count[t]
  BY TakenCount
<1>3. Range(G.blits) = Range(F.blits) \cup (IF n = 0 THEN {} ELSE {blit})
  BY TakenBlits
<1> HIDE DEF G
<1>5. Range(F.blits) \subseteq Blits
  BY <1>1 DEF Range
<1>6. \A b \in Range(F.blits) : b.type \in Types /\ b.tmpl \in Nat /\ b.tmpl < F.count[b.type]
  BY <1>5 DEF Blits, GoodEngine
<1>7. WellFormed(Range(G.blits), G.dst)
  <2>1. \A b \in Range(G.blits) : b.live /\ b.buf = G.dst
    BY <1>2, <1>3 DEF GoodEngine, WellFormed
  <2>2. \A b \in Range(F.blits) : <<b.type, b.tmpl>> # <<blit.type, blit.tmpl>>
    BY <1>1, <1>6
  <2>3. ASSUME NEW b \in Range(G.blits), NEW c \in Range(G.blits),
               <<b.type, b.tmpl>> = <<c.type, c.tmpl>>
        PROVE b.layer = c.layer
    <3>1. CASE b \in Range(F.blits) /\ c \in Range(F.blits)
      BY <2>3, <3>1 DEF GoodEngine, WellFormed
    <3>2. CASE b = blit /\ c = blit
      BY <3>2
    <3> QED
      BY <1>3, <2>2, <2>3, <3>1, <3>2
  <2> QED
    BY <2>1, <2>3 DEF WellFormed
<1>8. \A b \in Range(G.blits) : b.tmpl < G.count[b.type]
  <2>1. \A b \in Range(F.blits) : b.tmpl < G.count[b.type]
    BY <1>1, <1>4, <1>6
  <2>2. blit.tmpl < G.count[blit.type]
    BY <1>1, <1>4
  <2> QED
    BY <1>3, <2>1, <2>2
<1>9. GoodEngine(G)
  BY <1>2, <1>7, <1>8 DEF GoodEngine
<1>10. LayersOf(F) \subseteq LayersOf(G) /\ (n > 0 => blit.layer \in LayersOf(G))
  BY <1>3 DEF LayersOf
<1> QED
  BY <1>9, <1>10 DEF G

-----------------------------------------------------------------------------
(* The draws of a call.                                                    *)

Within(E) ==
  /\ Len(E.blits) <= MAX_BLIT_OBJECT_COUNT
  /\ \A t \in Types : E.count[t] <= MaxSurfaces[t]

OnTarget(E) == GoodEngine(E) /\ (E.mapped => E.dst = cur)

ForFrame(D) == \A d \in D : GoodDraw(d) /\ d.target = cur

LEMMA DrawFacts ==
  ASSUME NEW E \in Engines
  PROVE  /\ DrawsOf(E) \subseteq Draws
         /\ E.blits # <<>> => DrawsOf(E) # {}
         /\ OnTarget(E) => ForFrame(DrawsOf(E))
<1>1. Range(E.blits) \subseteq Blits
  BY DEF Range, Engines
<1>2. Draw(E) \in Draws
  BY <1>1 DEF Draw, Draws, Engines
<1>3. OnTarget(E) /\ E.blits # <<>> => GoodDraw(Draw(E)) /\ Draw(E).target = cur
  BY DEF OnTarget, GoodEngine, GoodDraw, Draw
<1> QED
  BY <1>2, <1>3 DEF DrawsOf, ForFrame

LEMMA ReachedFacts ==
  ASSUME NEW D \in SUBSET Draws
  PROVE  /\ Reached(D) \subseteq 1 .. MaxLayers
         /\ ForFrame(D) => \A d \in D : \A b \in d.blits : b.layer \in Reached(D)
         /\ \A C \in SUBSET D : Reached(C) \subseteq Reached(D)
<1>1. \A d \in D : d.blits \subseteq Blits
  BY DEF Draws
<1>2. Reached(D) \subseteq 1 .. MaxLayers
  BY <1>1 DEF Reached, Blits
<1>3. ASSUME ForFrame(D), NEW d \in D, NEW b \in d.blits PROVE b.layer \in Reached(D)
  <2>1. d.live /\ d.target = cur /\ b.live /\ b.buf = cur
    BY <1>3 DEF ForFrame, GoodDraw, WellFormed
  <2> QED
    BY <2>1 DEF Reached
<1>4. \A C \in SUBSET D : Reached(C) \subseteq Reached(D)
  BY DEF Reached
<1> QED
  BY <1>2, <1>3, <1>4

(* An engine that may be finished draws what it had queued.                *)
LEMMA FinishedIf ==
  ASSUME NEW E \in Engines, Within(E), NEW c \in BOOLEAN, CopybitAssumption
  PROVE  LET T == IF c THEN finish(E) ELSE E
             D == IF c THEN DrawsOf(E) ELSE {} IN
         /\ T \in Engines /\ Within(T) /\ T.wait = E.wait /\ D \subseteq Draws
         /\ E.blits # <<>> => T.blits # <<>> \/ D # {}
         /\ OnTarget(E) => /\ OnTarget(T) /\ ForFrame(D)
                           /\ LayersOf(E) \subseteq LayersOf(T) \cup Reached(D)
<1>1. CASE ~c
  BY <1>1 DEF ForFrame
<1>2. CASE c
  <2> DEFINE T == finish(E)
  <2>1. /\ T \in Engines /\ GoodEngine(T) /\ ~T.mapped /\ T.blits = <<>> /\ T.wait = E.wait
        /\ \A t \in Types : T.count[t] = 0
    BY FinishFacts
  <2>2. Within(T) /\ OnTarget(T)
    <3> HIDE DEF T
    <3>1. Len(T.blits) = 0
      BY <2>1
    <3> QED
      BY <2>1, <3>1 DEF Within, OnTarget, CopybitAssumption
  <2>3. OnTarget(E) => ForFrame(DrawsOf(E)) /\ LayersOf(E) \subseteq Reached(DrawsOf(E))
    <3> SUFFICES ASSUME OnTarget(E)
                 PROVE  ForFrame(DrawsOf(E)) /\ LayersOf(E) \subseteq Reached(DrawsOf(E))
      OBVIOUS
    <3>1. ForFrame(DrawsOf(E)) /\ DrawsOf(E) \in SUBSET Draws
      BY DrawFacts
    <3>2. ASSUME NEW b \in Range(E.blits) PROVE b.layer \in Reached(DrawsOf(E))
      <4>1. E.blits # <<>>
        BY <3>2 DEF Range
      <4>2. Draw(E) \in DrawsOf(E) /\ b \in Draw(E).blits
        BY <4>1 DEF DrawsOf, Draw
      <4> QED
        BY <3>1, <4>2, ReachedFacts
    <3> QED
      BY <3>1, <3>2 DEF LayersOf
  <2> QED
    BY <1>2, <2>1, <2>2, <2>3, DrawFacts
<1> QED
  BY <1>1, <1>2

(* A call of stretch: the list never overflows, the templates last, and    *)
(* whatever a clean engine draws or keeps goes to the buffer of the frame. *)
LEMMA UnfinishedFacts ==
  ASSUME NEW x, NEW y, NEW c \in BOOLEAN, NEW d \in BOOLEAN
  PROVE  Unfinished((IF c THEN <<x>> ELSE <<>>) \o (IF d THEN <<y>> ELSE <<>>))
           = (IF c THEN DrawsOf(x) ELSE {}) \cup (IF d THEN DrawsOf(y) ELSE {})
<1>1. CASE c /\ d
  <2>1. <<x>> \o <<y>> = <<x, y>>
    <3>1. <<x>> \in Seq({x, y})
      OBVIOUS
    <3>2. <<y>> \in Seq({x, y})
      OBVIOUS
    <3>3. <<x, y>> \in Seq({x, y})
      OBVIOUS
    <3>4. Len(<<x>> \o <<y>>) = 2 /\ (<<x>> \o <<y>>)[1] = x /\ (<<x>> \o <<y>>)[2] = y
      BY <3>1, <3>2
    <3>5. <<x>> \o <<y>> \in Seq({x, y})
      BY <3>1, <3>2
    <3>6. Len(<<x, y>>) = 2 /\ <<x, y>>[1] = x /\ <<x, y>>[2] = y
      OBVIOUS
    <3>7. \A p \in Seq({x, y}), q \in Seq({x, y}) :
            Len(p) = 2 /\ Len(q) = 2 /\ p[1] = q[1] /\ p[2] = q[2] => p = q
      OBVIOUS
    <3> QED
      BY <3>3, <3>4, <3>5, <3>6, <3>7
  <2>2. Unfinished(<<x, y>>) = DrawsOf(x) \cup DrawsOf(y)
    BY DEF Unfinished
  <2> QED
    BY <1>1, <2>1, <2>2
<1>2. \A z : Unfinished(<<z>>) = DrawsOf(z)
  BY DEF Unfinished
<1>3. Unfinished(<<>>) = {}
  BY DEF Unfinished
<1>4. \A z : <<z>> \o <<>> = <<z>> /\ <<>> \o <<z>> = <<z>>
  OBVIOUS
<1>5. <<>> \o <<>> = <<>>
  OBVIOUS
<1>6. CASE c /\ ~d
  BY <1>2, <1>4, <1>6
<1>7. CASE ~c /\ d
  BY <1>2, <1>4, <1>7
<1>8. CASE ~c /\ ~d
  BY <1>3, <1>5, <1>8
<1> QED
  BY <1>1, <1>6, <1>7, <1>8

LEMMA StretchFacts ==
  ASSUME CopybitAssumption, cur \in Buffers, NEW E \in Engines, Within(E),
         NEW layer \in 1 .. MaxLayers, NEW type \in Types, NEW clips \in 1 .. MaxClips
  PROVE  LET s == stretch(E, layer, type, clips) IN
         /\ s.eng \in Engines /\ Within(s.eng) /\ s.eng.wait = E.wait
         /\ s.eng.blits # <<>> /\ Unfinished(s.now) \subseteq Draws
         /\ (OnTarget(E) /\ \A k \in DOMAIN s.eng.blits : s.eng.blits[k].live) =>
              /\ OnTarget(s.eng) /\ ForFrame(Unfinished(s.now))
              /\ LayersOf(E) \cup {layer} \subseteq LayersOf(s.eng) \cup Reached(Unfinished(s.now))
<1> DEFINE T == IF AtLimit(E) THEN finish(E) ELSE E
           D == IF AtLimit(E) THEN DrawsOf(E) ELSE {}
           F == MapDst(T, cur)
           blit == [buf |-> cur, layer |-> layer, type |-> type,
                    tmpl |-> F.count[type], live |-> TRUE]
           room == MAX_BLIT_OBJECT_COUNT - Len(F.blits)
           Add(n) == Taken(F, blit, n)
           dead == [blit EXCEPT !.live = FALSE]
           left == [k \in 1 .. clips - room |-> dead]
           Over == [finish(Add(room)) EXCEPT !.blits = left]
           s == stretch(E, layer, type, clips)
           U == D \cup (IF clips > room THEN DrawsOf(Add(room)) ELSE {})
<1>1. /\ T \in Engines /\ Within(T) /\ T.wait = E.wait /\ D \subseteq Draws
      /\ OnTarget(E) => /\ OnTarget(T) /\ ForFrame(D)
                        /\ LayersOf(E) \subseteq LayersOf(T) \cup Reached(D)
  <2>1. AtLimit(E) \in BOOLEAN
    BY DEF AtLimit
  <2> QED
    BY <2>1, FinishedIf
<1>2. ~AtLimit(T)
  <2>1. CASE ~AtLimit(E)
    BY <2>1
  <2>2. CASE AtLimit(E)
    <3>1. T.blits = <<>> /\ \A t \in Types : T.count[t] = 0
      BY <2>2, FinishFacts
    <3> HIDE DEF T
    <3>2. Len(T.blits) = 0
      BY <3>1
    <3>3. 0 # MAX_BLIT_OBJECT_COUNT /\ \A t \in Types : MaxSurfaces[t] # 0
      BY DEF CopybitAssumption
    <3> QED
      BY <3>1, <3>2, <3>3 DEF AtLimit
  <2> QED
    BY <2>1, <2>2
<1>3. /\ F \in Engines /\ F.blits = T.blits /\ F.count = T.count /\ F.wait = E.wait
      /\ F.mapped /\ (~T.mapped => F.dst = cur) /\ (T.mapped => F = T)
      /\ GoodEngine(T) => GoodEngine(F)
  <2> HIDE DEF T
  <2> QED
    BY <1>1, MapFacts
<1>4. OnTarget(E) => GoodEngine(F) /\ F.dst = cur
  BY <1>1, <1>3 DEF OnTarget
<1> HIDE DEF T, F
<1>5. /\ F.blits \in Seq(Blits) /\ F.count \in [Types -> Nat] /\ Len(F.blits) \in Nat
  BY <1>3 DEF Engines
<1>6. /\ Len(F.blits) < MAX_BLIT_OBJECT_COUNT
      /\ \A t \in Types : F.count[t] < MaxSurfaces[t]
  <2>1. Len(F.blits) # MAX_BLIT_OBJECT_COUNT /\ \A t \in Types : F.count[t] # MaxSurfaces[t]
    BY <1>2, <1>3 DEF AtLimit
  <2>2. Len(F.blits) <= MAX_BLIT_OBJECT_COUNT /\ \A t \in Types : F.count[t] <= MaxSurfaces[t]
    BY <1>1, <1>3 DEF Within
  <2> QED
    BY <1>5, <2>1, <2>2 DEF CopybitAssumption
<1>7. room \in Nat /\ room > 0 /\ clips \in Nat /\ clips > 0 /\ clips <= MAX_BLIT_OBJECT_COUNT
  BY SMTT(30), <1>5, <1>6 DEF CopybitAssumption
<1>8. blit \in Blits /\ dead \in Blits /\ blit.type = type /\ blit.live /\ ~dead.live
      /\ blit.buf = cur /\ blit.tmpl = F.count[type] /\ blit.layer = layer
  BY <1>5 DEF Blits
<1> HIDE DEF blit, dead
<1>9. ASSUME NEW n \in Nat, n <= room
      PROVE  /\ Add(n) \in Engines /\ Within(Add(n)) /\ Add(n).wait = E.wait
             /\ n > 0 => Add(n).blits # <<>>
             /\ OnTarget(E) => /\ OnTarget(Add(n)) /\ LayersOf(F) \subseteq LayersOf(Add(n))
                               /\ n > 0 => layer \in LayersOf(Add(n))
  <2> DEFINE G == Add(n)
  <2>1. G \in Engines
    BY <1>3, <1>8, TakenTemplate
  <2>2. Len(G.blits) = Len(F.blits) + n
    <3>1. F \in Engines /\ blit \in Blits
      BY <1>3, <1>8
    <3>2. \A H \in Engines, b \in Blits, m \in Nat :
            Len(Taken(H, b, m).blits) = Len(H.blits) + m
      BY TakenBlits
    <3> QED
      BY <3>1, <3>2
  <2>3. G.dst = F.dst
    <3>1. F \in Engines /\ blit \in Blits
      BY <1>3, <1>8
    <3>2. \A H \in Engines, b \in Blits, m \in Nat : Taken(H, b, m).dst = H.dst
      BY TakenDst
    <3> QED
      BY <3>1, <3>2
  <2>4. G.wait = F.wait
    BY <1>3, <1>8, TakenTemplate
  <2>5. \A t \in Types : G.count[t] = IF t = type THEN F.count[t] + 1 ELSE F.count[t]
    <3>1. F \in Engines /\ blit \in Blits /\ blit.type = type
      BY <1>3, <1>8
    <3> QED
      BY <3>1, TakenCount
  <2>6. OnTarget(E) => /\ GoodEngine(G) /\ LayersOf(F) \subseteq LayersOf(G)
                       /\ n > 0 => layer \in LayersOf(G)
    BY <1>3, <1>4, <1>8, AddGood
  <2> HIDE DEF G
  <2>7. Within(G)
    <3>1. Len(G.blits) <= MAX_BLIT_OBJECT_COUNT
      BY <1>5, <1>7, <1>9, <2>2 DEF CopybitAssumption
    <3>2. ASSUME NEW t \in Types PROVE G.count[t] <= MaxSurfaces[t]
      <4>1. F.count[t] \in Nat /\ MaxSurfaces[t] \in Nat /\ F.count[t] < MaxSurfaces[t]
        BY <1>5, <1>6 DEF CopybitAssumption
      <4> QED
        BY <2>5, <4>1
    <3> QED
      BY <3>1, <3>2 DEF Within
  <2>8. n > 0 => G.blits # <<>>
    <3>1. Len(<<>>) = 0
      OBVIOUS
    <3> QED
      BY <1>5, <2>2, <3>1
  <2>9. OnTarget(E) => OnTarget(G)
    BY <1>4, <2>3, <2>6 DEF OnTarget
  <2> QED
    BY <1>3, <2>1, <2>4, <2>6, <2>7, <2>8, <2>9 DEF G
<1>10. /\ s.now = (IF AtLimit(E) THEN <<E>> ELSE <<>>)
                  \o (IF clips > room THEN <<Add(room)>> ELSE <<>>)
       /\ s.eng = IF clips <= room THEN Add(clips) ELSE Over
  BY DEF stretch, T, F, blit, dead, Taken
<1>11. Unfinished(s.now) = U
  <2>1. AtLimit(E) \in BOOLEAN /\ (clips > room) \in BOOLEAN
    BY <1>7 DEF AtLimit
  <2> DEFINE over == clips > room
             G == Add(room)
  <2>2. Unfinished((IF AtLimit(E) THEN <<E>> ELSE <<>>) \o (IF over THEN <<G>> ELSE <<>>))
          = (IF AtLimit(E) THEN DrawsOf(E) ELSE {}) \cup (IF over THEN DrawsOf(G) ELSE {})
    <3> HIDE DEF over, G
    <3>1. over \in BOOLEAN
      BY <2>1 DEF over
    <3> QED
      BY <2>1, <3>1, UnfinishedFacts
  <2> HIDE DEF s
  <2> QED
    BY <1>10, <2>2
<1> HIDE DEF s, D
<1>12. CASE clips <= room
  <2>1. s.eng = Add(clips) /\ ~(clips > room)
    BY <1>7, <1>10, <1>12
  <2>2. U = D
    BY <2>1
  <2>3. LayersOf(F) = LayersOf(T)
    BY <1>3 DEF LayersOf
  <2>4. /\ s.eng \in Engines /\ Within(s.eng) /\ s.eng.wait = E.wait /\ s.eng.blits # <<>>
        /\ OnTarget(E) => OnTarget(s.eng) /\ LayersOf(F) \subseteq LayersOf(s.eng)
                          /\ layer \in LayersOf(s.eng)
    <3> HIDE DEF Add, room
    <3> QED
      BY <1>7, <1>9, <1>12, <2>1
  <2>5. Unfinished(s.now) = D
    BY <1>11, <2>2
  <2> HIDE DEF Add, room
  <2>6. OnTarget(E) =>
          /\ OnTarget(s.eng) /\ ForFrame(D)
          /\ LayersOf(E) \cup {layer} \subseteq LayersOf(s.eng) \cup Reached(D)
    BY <1>1, <2>3, <2>4
  <2> QED
    BY <1>1, <2>4, <2>5, <2>6 DEF s
<1>13. CASE ~(clips <= room)
  <2>1. s.eng = Over /\ clips > room
    BY <1>7, <1>10, <1>13
  <2>2. clips - room \in Nat /\ clips - room > 0
    BY SMTT(30), <1>7, <2>1
  <2>3. Add(room) \in Engines
    BY <1>7, <1>9
  <2> HIDE DEF Add
  <2>4. /\ finish(Add(room)) \in Engines /\ finish(Add(room)).wait = Add(room).wait
        /\ \A t \in Types : finish(Add(room)).count[t] = 0
    BY <2>3, FinishFacts
  <2>5. left \in Seq(Blits) /\ Len(left) = clips - room /\ left # <<>>
        /\ 1 \in DOMAIN left /\ ~left[1].live
    <3> HIDE DEF room
    <3> QED
      BY <1>8, <2>2
  <2> DEFINE fin == finish(Add(room))
  <2> HIDE DEF left, fin
  <2>6. /\ s.eng \in Engines /\ s.eng.blits = left /\ s.eng.count = fin.count
        /\ s.eng.wait = fin.wait
    <3>1. fin \in Engines
      BY <2>4 DEF fin
    <3>2. s.eng = [fin EXCEPT !.blits = left]
      BY <2>1 DEF fin
    <3> QED
      BY <2>5, <3>1, <3>2 DEF Engines
  <2>7. Within(s.eng)
    <3>1. Len(left) <= MAX_BLIT_OBJECT_COUNT
      BY SMTT(30), <1>7, <2>5 DEF CopybitAssumption
    <3>2. \A t \in Types : s.eng.count[t] <= MaxSurfaces[t]
      BY <2>4, <2>6 DEF fin, CopybitAssumption
    <3> QED
      BY <2>6, <3>1, <3>2 DEF Within
  <2>8. s.eng.wait = E.wait
    BY <1>7, <1>9, <2>4, <2>6 DEF fin, Add
  <2>9. ~(\A k \in DOMAIN s.eng.blits : s.eng.blits[k].live)
    BY <2>5, <2>6
  <2>10. U \subseteq Draws
    BY <1>1, <2>3, DrawFacts
  <2>11. Unfinished(s.now) \subseteq Draws /\ s.eng.blits # <<>> /\ s.eng \in Engines
    BY <1>11, <2>5, <2>6, <2>10
  <2> QED
    BY <2>7, <2>8, <2>9, <2>11 DEF s
<1> QED
  BY <1>12, <1>13 DEF s

-----------------------------------------------------------------------------
(* The steps.                                                              *)

LEMMA InitHolds == ASSUME CopybitAssumption, Init PROVE IInv
<1>1. CleanEngine \in Engines /\ GoodEngine(CleanEngine) /\ ~CleanEngine.mapped
      /\ CleanEngine.blits = <<>> /\ \A t \in Types : CleanEngine.count[t] = 0
  BY CleanIsGood DEF CleanEngine
<1>2. Range(<<>>) = {} /\ Len(<<>>) = 0 /\ <<>> \in Seq(Draws)
  BY DEF Range
<1>3. 0 \in Buffers /\ NONE \notin Buffers
  BY DEF CopybitAssumption, Buffers, NONE
<1>4. TypeOK
  <2>1. engine \in Engines /\ Len(engine.blits) = 0 /\ \A t \in Types : engine.count[t] = 0
    BY <1>1, <1>2 DEF Init
  <2>2. 0 <= MAX_BLIT_OBJECT_COUNT /\ \A t \in Types : 0 <= MaxSurfaces[t]
    BY DEF CopybitAssumption
  <2>3. relFd \in [Buffers -> 0 .. MaxLag + 1] /\ todo \in 0 .. MaxLayers
    BY DEF Init, CopybitAssumption
  <2>4. /\ screen \in Seq([buf : Buffers \cup {NONE}, fence : BOOLEAN])
        /\ Len(screen) = 1
    <3>1. [buf |-> NONE, fence |-> FALSE] \in [buf : Buffers \cup {NONE}, fence : BOOLEAN]
      OBVIOUS
    <3> QED
      BY <3>1 DEF Init
  <2>5. 1 \in 1 .. MaxLag + 1
    BY DEF CopybitAssumption
  <2>6. Len(jobs) <= 2 /\ jobs \in Seq(Draws) /\ done \subseteq Draws
    BY <1>2 DEF Init
  <2>7. {spoilt, raced} \subseteq BOOLEAN /\ fence \in BOOLEAN
        /\ composer \in {"copybit", "gpu", "none"}
    BY DEF Init
  <2>9. device \in Devices
    <3>1. PICK d \in Devices : override = d[1] /\ ownBuffers = d[2]
      BY DEF Init
    <3>2. d = <<d[1], d[2]>>
      BY DEF CopybitAssumption
    <3> QED
      BY <3>1, <3>2 DEF device
  <2>8. /\ phase = "idle" /\ cur \in Buffers /\ stretched = {} /\ drawn = {}
        /\ thread = "cond"
    BY <1>3 DEF Init
  <2> QED
    BY <2>1, <2>2, <2>3, <2>4, <2>5, <2>6, <2>7, <2>8, <2>9 DEF TypeOK
<1>5. screen = <<[buf |-> NONE, fence |-> FALSE]>> /\ DOMAIN screen = {1} /\ screen[1].buf = NONE
  BY DEF Init
<1>6. Submitted = {}
  BY <1>2 DEF Init, Submitted
<1>7. EngineInv /\ DrawsInv /\ LayersInv
  BY <1>1, <1>2, <1>6 DEF Init, EngineInv, DrawsInv, LayersInv
<1>8. FencesInv /\ JobsInv /\ ScanoutNeverRaces
  BY <1>2, <1>5 DEF Init, FencesInv, JobsInv, ScanoutNeverRaces
<1> QED
  BY <1>4, <1>7, <1>8 DEF IInv

LEMMA BeginsKeeps ==
  ASSUME CopybitAssumption, IInv, Begins, phase' \in {"begun", "flushed", "synced"},
         todo' \in 0 .. MaxLayers, cur' \in Buffers,
         composer' \in {"copybit", "gpu", "none"},
         IF phase' = "begun" THEN composer' # "none" ELSE composer' = "none"
  PROVE  IInv'
<1>1. TypeOK /\ phase = "idle" /\ Len(screen) <= MaxLag
  BY DEF IInv, Begins
<1>2. spoilt' = (spoilt /\ [engine EXCEPT !.wait = FALSE] # CleanEngine)
      /\ raced' = (raced /\ ~ScreenHeld)
      /\ stretched' = {} /\ drawn' = {} /\ fence' = FALSE /\ done' = {}
      /\ engine' = engine /\ thread' = thread /\ jobs' = jobs /\ relFd' = relFd
      /\ screen' = screen /\ device' = device
  BY DEF Begins, display
<1>3. spoilt' \in BOOLEAN /\ raced' \in BOOLEAN
  BY <1>2
<1>4. TypeOK'
  BY <1>1, <1>2, <1>3 DEF TypeOK
<1>5. engine \in Engines /\ (jobs # <<>> => engine.blits # <<>>)
  BY <1>1 DEF TypeOK, IInv, EngineInv
<1>6. [engine EXCEPT !.wait = FALSE] = CleanEngine =>
        jobs = <<>> /\ engine.blits = <<>> /\ ~engine.mapped
  <2> SUFFICES ASSUME [engine EXCEPT !.wait = FALSE] = CleanEngine
               PROVE  jobs = <<>> /\ engine.blits = <<>> /\ ~engine.mapped
    OBVIOUS
  <2>1. [engine EXCEPT !.wait = FALSE].blits = <<>> /\ ~[engine EXCEPT !.wait = FALSE].mapped
    BY DEF CleanEngine
  <2>2. engine.blits = <<>> /\ ~engine.mapped
    BY <1>5, <2>1 DEF Engines
  <2> QED
    BY <1>5, <2>2
<1>7. Range(<<>>) = {}
  BY DEF Range
<1>8. Submitted' = Range(jobs) /\ Submitted' \subseteq Submitted
  BY <1>2 DEF Submitted
<1>9. EngineInv'
  <2>1. thread = "gpu" => engine.wait
    BY DEF IInv, EngineInv
  <2>2. ASSUME ~spoilt', ~engine.wait PROVE GoodEngine(engine) /\ ~engine.mapped
    <3>1. CASE ~spoilt
      BY <1>1, <2>2, <3>1 DEF IInv, EngineInv
    <3>2. CASE [engine EXCEPT !.wait = FALSE] = CleanEngine
      BY <1>6, <1>7, <3>2 DEF GoodEngine, WellFormed
    <3> QED
      BY <1>2, <2>2, <3>1, <3>2
  <2>3. phase' # "drawing"
    OBVIOUS
  <2> QED
    BY <1>2, <1>5, <2>1, <2>2, <2>3 DEF EngineInv
<1>10. DrawsInv'
  <2> SUFFICES ASSUME ~spoilt' PROVE (\A d \in Submitted : GoodDraw(d))'
    BY DEF DrawsInv
  <2>1. CASE ~spoilt
    BY <1>8, <2>1 DEF IInv, DrawsInv
  <2>2. CASE [engine EXCEPT !.wait = FALSE] = CleanEngine
    BY <1>6, <1>7, <1>8, <2>2
  <2> QED
    BY <1>2, <2>1, <2>2
<1>11. LayersInv'
  BY <1>2 DEF LayersInv
<1>12. FencesInv'
  <2>1. ASSUME ~raced'
        PROVE \A k \in DOMAIN screen : screen[k].buf # NONE => relFd[screen[k].buf] >= k
    <3>1. CASE ~raced
      BY <3>1 DEF IInv, FencesInv
    <3>2. CASE ScreenHeld
      BY <3>2 DEF ScreenHeld
    <3> QED
      BY <1>2, <2>1, <3>1, <3>2
  <2> QED
    BY <1>1, <1>2, <2>1 DEF FencesInv
<1>13. ScanoutNeverRaces'
  <2> SUFFICES ASSUME ~spoilt', ~raced'
               PROVE  \A d \in Range(jobs), k \in DOMAIN screen :
                        screen[k].buf = d.target => k > 1 /\ screen[k].fence
    BY <1>2 DEF ScanoutNeverRaces
  <2>1. CASE ~spoilt /\ ~raced
    BY <2>1 DEF IInv, ScanoutNeverRaces
  <2>2. CASE jobs = <<>>
    BY <1>7, <2>2
  <2> QED
    BY <1>2, <1>6, <2>1, <2>2 DEF ScreenHeld
<1>14. JobsInv'
  <2> SUFFICES ASSUME ~spoilt', ~raced', NEW d \in Range(jobs)
               PROVE  \E k \in DOMAIN screen : screen[k].buf = d.target
    BY <1>2 DEF JobsInv
  <2>1. CASE ~spoilt /\ ~raced
    BY <1>1, <2>1 DEF IInv, JobsInv
  <2>2. CASE jobs = <<>>
    BY <1>7, <2>2
  <2> QED
    BY <1>2, <1>6, <2>1, <2>2 DEF ScreenHeld
<1> QED
  BY <1>4, <1>9, <1>10, <1>11, <1>12, <1>13, <1>14 DEF IInv

(* A step that leaves engine, draws and screen as they are.                *)
LEMMA WaitReleaseKeeps == ASSUME CopybitAssumption, IInv, WaitRelease \/ WaitLapses PROVE IInv'
<1>1. /\ phase = "begun" /\ phase' = AfterWait /\ cur' = cur /\ todo' = todo
      /\ stretched' = stretched /\ drawn' = drawn /\ fence' = fence /\ engine' = engine
      /\ thread' = thread /\ jobs' = jobs /\ done' = done /\ screen' = screen
      /\ spoilt' = spoilt /\ device' = device /\ composer' = composer
  BY DEF WaitRelease, WaitLapses, AfterWait, frameVars, display, history
<1>2. TypeOK /\ composer # "none" /\ stretched = {}
  BY <1>1 DEF IInv, LayersInv
<1>7. /\ phase' \in {"drawing", "flushed"} /\ (phase' = "drawing" <=> composer = "copybit")
      /\ (WaitLapses => raced')
  BY <1>1 DEF AfterWait, WaitLapses
<1>3. relFd' \in [Buffers -> 0 .. MaxLag + 1] /\ raced' \in BOOLEAN
  <2>1. CASE WaitRelease
    BY <1>2, <2>1 DEF WaitRelease, TypeOK, display, history
  <2>2. CASE WaitLapses
    <3>1. 0 \in 0 .. MaxLag + 1
      BY DEF CopybitAssumption
    <3> QED
      BY <1>2, <2>2, <3>1 DEF WaitLapses, TypeOK
  <2> QED
    BY <2>1, <2>2
<1>4. TypeOK'
  BY <1>1, <1>2, <1>3, <1>7 DEF TypeOK
<1>5. EngineInv' /\ DrawsInv' /\ LayersInv'
  <2>1. EngineInv'
    BY <1>1, <1>7 DEF IInv, EngineInv
  <2>2. Submitted' = Submitted
    BY <1>1 DEF Submitted
  <2>3. DrawsInv'
    BY <1>1, <2>2 DEF IInv, DrawsInv
  <2>4. LayersInv'
    BY <1>1, <1>2, <1>7 DEF LayersInv
  <2> QED
    BY <2>1, <2>3, <2>4
<1>6. FencesInv' /\ JobsInv' /\ ScanoutNeverRaces'
  <2>1. CASE WaitLapses
    BY <1>1, <1>7, <2>1 DEF IInv, FencesInv, JobsInv, ScanoutNeverRaces
  <2>2. CASE WaitRelease
    <3>1. relFd[cur] = 0 /\ relFd' = relFd /\ raced' = raced /\ cur \in Buffers /\ cur # NONE
      BY <1>2, <2>2 DEF WaitRelease, display, history, TypeOK, Buffers, NONE, CopybitAssumption
    <3>2. ~raced => \A k \in DOMAIN screen : screen[k].buf # cur
      <4> SUFFICES ASSUME ~raced, NEW k \in DOMAIN screen, screen[k].buf = cur PROVE FALSE
        OBVIOUS
      <4>1. relFd[cur] >= k
        BY <3>1 DEF IInv, FencesInv
      <4>2. k \in Nat /\ k >= 1
        BY <1>2 DEF TypeOK
      <4> QED
        BY <3>1, <4>1, <4>2
    <3>3. FencesInv'
      BY <1>1, <1>7, <3>1, <3>2 DEF IInv, FencesInv
    <3>4. ScanoutNeverRaces' /\ JobsInv'
      BY <1>1, <3>1 DEF IInv, JobsInv, ScanoutNeverRaces
    <3> QED
      BY <3>3, <3>4
  <2> QED
    BY <2>1, <2>2
<1> QED
  BY <1>4, <1>5, <1>6 DEF IInv

(* A call of the engine in a frame: D is what is drawn before it returns.  *)
LEMMA CallKeeps ==
  ASSUME CopybitAssumption, IInv, NEW D \in SUBSET Draws, DoneNow(D),
         phase = "drawing", phase' = "drawing", cur' = cur, thread' = thread,
         relFd' = relFd, screen' = screen, fence' = fence, device' = device,
         composer' = composer,
         raced' = raced, spoilt' \in BOOLEAN, ~spoilt' => ~spoilt /\ ~engine.wait,
         engine' \in Engines, Within(engine'), engine'.wait = engine.wait,
         todo' \in 0 .. MaxLayers, stretched' \subseteq 1 .. MaxLayers,
         engine.blits # <<>> => engine'.blits # <<>> \/ D # {},
         ~spoilt' => /\ OnTarget(engine') /\ ForFrame(D)
                     /\ stretched' \subseteq drawn' \cup LayersOf(engine')
  PROVE  IInv'
<1>1. TypeOK /\ drawn' = drawn \cup Reached(D) /\ done' = D
      /\ jobs' = IF D = {} THEN jobs ELSE <<>>
  BY DEF IInv, DoneNow
<1>2. Range(<<>>) = {} /\ Len(<<>>) = 0 /\ <<>> \in Seq(Draws)
  BY DEF Range
<1>3. TypeOK'
  <2>1. drawn' \subseteq 1 .. MaxLayers
    BY <1>1, ReachedFacts DEF TypeOK
  <2>2. jobs' \in Seq(Draws) /\ Len(jobs') <= 2 /\ done' \subseteq Draws
    <3>1. CASE D = {}
      BY <1>1, <3>1 DEF TypeOK
    <3>2. CASE D # {}
      <4>1. jobs' = <<>>
        BY <1>1, <3>2
      <4>2. jobs' \in Seq(Draws) /\ Len(jobs') <= 2
        BY <1>2, <4>1
      <4>3. done' \subseteq Draws
        BY <1>1
      <4> QED
        BY <4>2, <4>3
    <3> QED
      BY <3>1, <3>2
  <2>3. Len(engine'.blits) <= MAX_BLIT_OBJECT_COUNT
        /\ \A t \in Types : engine'.count[t] <= MaxSurfaces[t]
    BY DEF Within
  <2>4. raced' \in BOOLEAN
    BY <1>1 DEF TypeOK
  <2> QED
    BY <1>1, <2>1, <2>2, <2>3, <2>4 DEF TypeOK
<1>4. EngineInv'
  <2>1. thread' = "gpu" => engine'.wait
    BY DEF IInv, EngineInv
  <2>2. jobs' # <<>> => engine'.blits # <<>>
    BY <1>1 DEF IInv, EngineInv
  <2>3. ~spoilt' => GoodEngine(engine') /\ (engine'.mapped => engine'.dst = cur')
    BY DEF OnTarget
  <2> QED
    BY <2>1, <2>2, <2>3 DEF EngineInv
<1>5. Submitted' \subseteq Range(jobs) \cup D
  BY <1>1, <1>2 DEF Submitted
<1>6. DrawsInv'
  <2> SUFFICES ASSUME ~spoilt', NEW d \in Submitted' PROVE GoodDraw(d)
    BY DEF DrawsInv
  <2>1. CASE d \in D
    BY <2>1 DEF ForFrame
  <2>2. CASE d \in Range(jobs)
    BY <2>2 DEF IInv, DrawsInv, Submitted
  <2> QED
    BY <1>5, <2>1, <2>2
<1>7. LayersInv'
  <2>1. (~spoilt' => ~engine'.wait) /\ composer = "copybit"
    BY DEF IInv, LayersInv
  <2> QED
    BY <2>1 DEF LayersInv
<1>8. FencesInv'
  BY DEF IInv, FencesInv
<1>10. JobsInv'
  BY <1>1, <1>2 DEF IInv, JobsInv
<1>9. ScanoutNeverRaces'
  <2> SUFFICES ASSUME ~spoilt', ~raced
               PROVE  /\ \A d \in D, k \in DOMAIN screen : screen[k].buf # d.target
                      /\ \A d \in Range(jobs), k \in DOMAIN screen :
                           screen[k].buf = d.target => k > 1 /\ screen[k].fence
    BY <1>1, <1>2 DEF ScanoutNeverRaces
  <2>1. \A k \in DOMAIN screen : screen[k].buf # cur
    BY DEF IInv, FencesInv, LayersInv
  <2>2. \A d \in D : d.target = cur
    BY DEF ForFrame
  <2> QED
    BY <2>1, <2>2 DEF IInv, ScanoutNeverRaces
<1> QED
  BY <1>3, <1>4, <1>6, <1>7, <1>8, <1>9, <1>10 DEF IInv

LEMMA EngineFacts ==
  ASSUME IInv
  PROVE  /\ engine \in Engines /\ Within(engine) /\ cur \in Buffers
         /\ phase = "drawing" /\ ~spoilt /\ ~engine.wait =>
              OnTarget(engine) /\ stretched \subseteq drawn \cup LayersOf(engine)
<1>1. engine \in Engines /\ Within(engine) /\ cur \in Buffers
  BY DEF IInv, TypeOK, Within
<1>2. ASSUME phase = "drawing", ~spoilt, ~engine.wait
      PROVE OnTarget(engine) /\ stretched \subseteq drawn \cup LayersOf(engine)
  BY <1>2 DEF IInv, EngineInv, LayersInv, OnTarget
<1> QED
  BY <1>1, <1>2

LEMMA ClearKeeps == ASSUME CopybitAssumption, IInv, Clear PROVE IInv'
<1>1. /\ phase = "drawing" /\ phase' = "drawing" /\ cur' = cur /\ thread' = thread
      /\ relFd' = relFd /\ screen' = screen /\ fence' = fence
      /\ device' = device /\ composer' = composer
      /\ raced' = raced /\ spoilt' = (spoilt \/ Late) /\ todo' = todo
      /\ stretched' = stretched /\ drawn' = drawn /\ jobs' = jobs /\ done' = {}
      /\ stretched = {} /\ ~engine.mapped /\ engine' = MapDst(engine, cur)
  BY DEF Clear, frameVars, display
<1>2. spoilt' \in BOOLEAN /\ (~spoilt' => ~spoilt /\ ~engine.wait)
  BY <1>1 DEF Late
<1>3. Reached({}) = {}
  BY DEF Reached
<1>4. DoneNow({})
  BY <1>1, <1>3 DEF DoneNow
<1>5. engine \in Engines /\ Within(engine) /\ cur \in Buffers
      /\ (~spoilt' => OnTarget(engine))
  BY <1>1, <1>2, EngineFacts
<1>6. /\ engine' \in Engines /\ engine'.blits = engine.blits /\ engine'.count = engine.count
      /\ engine'.wait = engine.wait /\ engine'.dst = cur
      /\ GoodEngine(engine) => GoodEngine(engine')
  BY <1>1, <1>5, MapFacts
<1>7. Within(engine')
  BY <1>5, <1>6 DEF Within
<1>8. ~spoilt' => OnTarget(engine') /\ ForFrame({})
  BY <1>5, <1>6 DEF OnTarget, ForFrame
<1>9. todo' \in 0 .. MaxLayers /\ stretched' \subseteq 1 .. MaxLayers
  BY <1>1 DEF IInv, TypeOK
<1> QED
  BY <1>1, <1>2, <1>4, <1>6, <1>7, <1>8, <1>9, CallKeeps

LEMMA TransformFacts ==
  ASSUME CopybitAssumption, IInv
  PROVE  /\ Transformed \in Engines /\ Within(Transformed) /\ Transformed.wait = engine.wait
         /\ TransformDraws \subseteq Draws
         /\ engine.blits # <<>> => Transformed.blits # <<>> \/ TransformDraws # {}
         /\ OnTarget(engine) =>
              /\ OnTarget(Transformed) /\ ForFrame(TransformDraws)
              /\ LayersOf(engine) \subseteq LayersOf(Transformed) \cup Reached(TransformDraws)
<1>1. engine \in Engines /\ Within(engine)
  BY EngineFacts
<1>2. override \in BOOLEAN
  BY DEF IInv, TypeOK, device, CopybitAssumption
<1>3. /\ Transformed = IF ~override THEN finish(engine) ELSE engine
      /\ TransformDraws = IF ~override THEN DrawsOf(engine) ELSE {}
  BY <1>2 DEF Transformed, TransformDraws
<1>4. (~override) \in BOOLEAN
  BY <1>2
<1> QED
  BY <1>1, <1>3, <1>4, FinishedIf

LEMMA DrawLayerKeeps ==
  ASSUME CopybitAssumption, IInv, NEW type \in Types, NEW clips \in 1 .. MaxClips,
         NEW temp \in BOOLEAN, DrawLayer(type, clips, temp)
  PROVE  IInv'
<1> DEFINE T == Transformed
           s == stretch(Transformed, todo, type, clips)
           U == Unfinished(s.now)
           last == IF temp THEN DrawsOf(s.eng) ELSE {}
           E == IF temp THEN finish(s.eng) ELSE s.eng
           D == TransformDraws \cup U \cup last
           allLive == \A k \in DOMAIN s.eng.blits : s.eng.blits[k].live
<1>1. /\ phase = "drawing" /\ phase' = "drawing" /\ cur' = cur /\ thread' = thread
      /\ relFd' = relFd /\ screen' = screen /\ fence' = fence
      /\ device' = device /\ composer' = composer
      /\ raced' = raced /\ todo > 0 /\ todo' = todo - 1
      /\ stretched' = stretched \cup {todo}
  BY DEF DrawLayer, display
<1>2. DoneNow(D) /\ engine' = E
  BY DEF DrawLayer
<1>3. spoilt' = (spoilt \/ Late \/ ~allLive)
  BY DEF DrawLayer
<1> HIDE DEF s
<1>4. spoilt' \in BOOLEAN /\ (~spoilt' => ~spoilt /\ ~engine.wait /\ allLive)
  BY <1>3 DEF Late
<1>5. todo \in 1 .. MaxLayers /\ todo' \in 0 .. MaxLayers /\ stretched' \subseteq 1 .. MaxLayers
  <2>1. MaxLayers \in Nat /\ todo \in 0 .. MaxLayers /\ stretched \subseteq 1 .. MaxLayers
    BY DEF IInv, TypeOK, CopybitAssumption
  <2>2. todo \in 1 .. MaxLayers /\ todo' \in 0 .. MaxLayers
    BY ONLY <1>1, <2>1
  <2> QED
    BY ONLY <1>1, <2>1, <2>2
<1>6. /\ T \in Engines /\ Within(T) /\ T.wait = engine.wait /\ TransformDraws \subseteq Draws
      /\ OnTarget(engine) =>
           /\ OnTarget(T) /\ ForFrame(TransformDraws)
           /\ LayersOf(engine) \subseteq LayersOf(T) \cup Reached(TransformDraws)
  BY TransformFacts
<1>7. cur \in Buffers
  BY EngineFacts
<1>8. /\ s.eng \in Engines /\ Within(s.eng) /\ s.eng.wait = T.wait
      /\ s.eng.blits # <<>> /\ U \subseteq Draws
      /\ OnTarget(T) /\ allLive =>
           /\ OnTarget(s.eng) /\ ForFrame(U)
           /\ LayersOf(T) \cup {todo} \subseteq LayersOf(s.eng) \cup Reached(U)
  BY <1>5, <1>6, <1>7, StretchFacts DEF s
<1> HIDE DEF T, U
<1>9. /\ E \in Engines /\ Within(E) /\ E.wait = s.eng.wait /\ last \subseteq Draws
      /\ s.eng.blits # <<>> => E.blits # <<>> \/ last # {}
      /\ OnTarget(s.eng) => /\ OnTarget(E) /\ ForFrame(last)
                            /\ LayersOf(s.eng) \subseteq LayersOf(E) \cup Reached(last)
  BY <1>8, FinishedIf
<1> HIDE DEF E, last
<1>10. D \in SUBSET Draws
  BY <1>6, <1>8, <1>9
<1>11. engine'.blits # <<>> \/ D # {}
  BY <1>2, <1>8, <1>9
<1>12. ASSUME ~spoilt'
       PROVE  OnTarget(engine') /\ ForFrame(D) /\ stretched' \subseteq drawn' \cup LayersOf(engine')
  <2>1. OnTarget(engine) /\ stretched \subseteq drawn \cup LayersOf(engine)
    BY <1>1, <1>4, <1>12, EngineFacts
  <2>2. allLive
    BY <1>4, <1>12
  <2>3. /\ OnTarget(T) /\ ForFrame(TransformDraws)
        /\ LayersOf(engine) \subseteq LayersOf(T) \cup Reached(TransformDraws)
    BY <1>6, <2>1
  <2>4. /\ OnTarget(s.eng) /\ ForFrame(U)
        /\ LayersOf(T) \cup {todo} \subseteq LayersOf(s.eng) \cup Reached(U)
    BY <1>8, <2>2, <2>3
  <2>5. /\ OnTarget(E) /\ ForFrame(last)
        /\ LayersOf(s.eng) \subseteq LayersOf(E) \cup Reached(last)
    BY <1>9, <2>4
  <2>6. ForFrame(D)
    BY <2>3, <2>4, <2>5 DEF ForFrame
  <2>7. /\ Reached(TransformDraws) \subseteq Reached(D) /\ Reached(U) \subseteq Reached(D)
        /\ Reached(last) \subseteq Reached(D)
    BY <1>10, ReachedFacts
  <2>8. drawn' = drawn \cup Reached(D)
    BY <1>2 DEF DoneNow
  <2> HIDE DEF D
  <2>9. stretched' \subseteq drawn' \cup LayersOf(E)
    BY <1>1, <2>1, <2>3, <2>4, <2>5, <2>7, <2>8
  <2> QED
    BY <1>2, <2>5, <2>6, <2>9
<1>13. engine' \in Engines /\ Within(engine') /\ engine'.wait = engine.wait
  BY <1>2, <1>6, <1>8, <1>9
<1> HIDE DEF D
<1> QED
  BY <1>1, <1>2, <1>4, <1>5, <1>10, <1>11, <1>12, <1>13, CallKeeps

LEMMA DrawLayerFailsKeeps == ASSUME CopybitAssumption, IInv, DrawLayerFails PROVE IInv'
<1> DEFINE T == Transformed
           E == IF AtLimit(T) THEN finish(T) ELSE T
           last == IF AtLimit(T) THEN DrawsOf(T) ELSE {}
           D == TransformDraws \cup last
<1>1. /\ phase = "drawing" /\ phase' = "drawing" /\ cur' = cur /\ thread' = thread
      /\ relFd' = relFd /\ screen' = screen /\ fence' = fence
      /\ device' = device /\ composer' = composer
      /\ raced' = raced /\ todo > 0 /\ todo' = todo - 1 /\ stretched' = stretched
  BY DEF DrawLayerFails, display
<1>2. DoneNow(D)
  BY DEF DrawLayerFails
<1>3. \/ engine' = E /\ spoilt' = (spoilt \/ Late)
      \/ engine' = [MapDst(E, cur) EXCEPT !.live = FALSE] /\ spoilt' = TRUE
  BY DEF DrawLayerFails
<1>4. todo' \in 0 .. MaxLayers /\ stretched' \subseteq 1 .. MaxLayers
  <2>1. MaxLayers \in Nat /\ todo \in 0 .. MaxLayers /\ stretched \subseteq 1 .. MaxLayers
    BY DEF IInv, TypeOK, CopybitAssumption
  <2> QED
    BY ONLY <1>1, <2>1
<1>5. /\ T \in Engines /\ Within(T) /\ T.wait = engine.wait /\ TransformDraws \subseteq Draws
      /\ engine.blits # <<>> => T.blits # <<>> \/ TransformDraws # {}
      /\ OnTarget(engine) =>
           /\ OnTarget(T) /\ ForFrame(TransformDraws)
           /\ LayersOf(engine) \subseteq LayersOf(T) \cup Reached(TransformDraws)
  BY TransformFacts
<1>6. cur \in Buffers
  BY EngineFacts
<1> HIDE DEF T
<1>7. /\ E \in Engines /\ Within(E) /\ E.wait = T.wait /\ last \subseteq Draws
      /\ T.blits # <<>> => E.blits # <<>> \/ last # {}
      /\ OnTarget(T) => /\ OnTarget(E) /\ ForFrame(last)
                        /\ LayersOf(T) \subseteq LayersOf(E) \cup Reached(last)
  <2>1. AtLimit(T) \in BOOLEAN
    BY DEF AtLimit
  <2> QED
    BY <1>5, <2>1, FinishedIf
<1> HIDE DEF E, last
<1>8. D \in SUBSET Draws
  BY <1>5, <1>7
<1>9. engine.blits # <<>> => E.blits # <<>> \/ D # {}
  BY <1>5, <1>7
<1>10. CASE engine' = E /\ spoilt' = (spoilt \/ Late)
  <2>1. spoilt' \in BOOLEAN /\ (~spoilt' => ~spoilt /\ ~engine.wait)
    BY <1>10 DEF Late
  <2>2. ASSUME ~spoilt'
        PROVE  OnTarget(engine') /\ ForFrame(D) /\ stretched' \subseteq drawn' \cup LayersOf(engine')
    <3>1. OnTarget(engine) /\ stretched \subseteq drawn \cup LayersOf(engine)
      BY <1>1, <2>1, <2>2, EngineFacts
    <3>2. /\ OnTarget(T) /\ ForFrame(TransformDraws)
          /\ LayersOf(engine) \subseteq LayersOf(T) \cup Reached(TransformDraws)
      BY <1>5, <3>1
    <3>3. /\ OnTarget(E) /\ ForFrame(last)
          /\ LayersOf(T) \subseteq LayersOf(E) \cup Reached(last)
      BY <1>7, <3>2
    <3>4. ForFrame(D)
      BY <3>2, <3>3 DEF ForFrame
    <3>5. Reached(TransformDraws) \subseteq Reached(D) /\ Reached(last) \subseteq Reached(D)
      BY <1>8, ReachedFacts
    <3>6. drawn' = drawn \cup Reached(D)
      BY <1>2 DEF DoneNow
    <3> HIDE DEF D
    <3>7. stretched' \subseteq drawn' \cup LayersOf(E)
      BY <1>1, <3>1, <3>2, <3>3, <3>5, <3>6
    <3> QED
      BY <1>10, <3>3, <3>4, <3>7
  <2>3. engine' \in Engines /\ Within(engine') /\ engine'.wait = engine.wait
        /\ (engine.blits # <<>> => engine'.blits # <<>> \/ D # {})
    BY <1>5, <1>7, <1>9, <1>10
  <2> HIDE DEF D
  <2> QED
    BY <1>1, <1>2, <1>4, <1>8, <2>1, <2>2, <2>3, CallKeeps
<1>11. CASE engine' = [MapDst(E, cur) EXCEPT !.live = FALSE] /\ spoilt' = TRUE
  <2> DEFINE F == MapDst(E, cur)
  <2>1. F \in Engines /\ F.blits = E.blits /\ F.count = E.count /\ F.wait = E.wait
    BY <1>6, <1>7, MapFacts
  <2> HIDE DEF F
  <2>2. engine' = [F EXCEPT !.live = FALSE]
    BY <1>11 DEF F
  <2>3. engine' \in Engines /\ engine'.blits = E.blits /\ engine'.count = E.count
        /\ engine'.wait = E.wait
    BY <2>1, <2>2 DEF Engines
  <2>4. Within(engine')
    BY <1>7, <2>3 DEF Within
  <2>5. engine'.wait = engine.wait /\ (engine.blits # <<>> => engine'.blits # <<>> \/ D # {})
    BY <1>5, <1>7, <1>9, <2>3
  <2>6. spoilt'
    BY <1>11
  <2> HIDE DEF D
  <2> QED
    BY <1>1, <1>2, <1>4, <1>8, <2>3, <2>4, <2>5, <2>6, CallKeeps
<1> QED
  BY <1>3, <1>10, <1>11

LEMMA AppendRange ==
  ASSUME NEW S, NEW s \in Seq(S), NEW x \in S
  PROVE  /\ Append(s, x) \in Seq(S) /\ Len(Append(s, x)) = Len(s) + 1
         /\ Range(Append(s, x)) \subseteq Range(s) \cup {x}
         /\ \A i \in 1 .. Len(s) : Append(s, x)[i] = s[i]
         /\ Append(s, x)[Len(s) + 1] = x
<1>1. /\ Append(s, x) \in Seq(S) /\ Len(Append(s, x)) = Len(s) + 1
      /\ \A i \in 1 .. Len(s) : Append(s, x)[i] = s[i]
      /\ Append(s, x)[Len(s) + 1] = x
  OBVIOUS
<1>2. DOMAIN s = 1 .. Len(s) /\ DOMAIN Append(s, x) = 1 .. Len(s) + 1 /\ Len(s) \in Nat
  OBVIOUS
<1>3. Range(Append(s, x)) \subseteq Range(s) \cup {x}
  <2> SUFFICES ASSUME NEW i \in 1 .. Len(s) + 1 PROVE Append(s, x)[i] \in Range(s) \cup {x}
    BY <1>2 DEF Range
  <2>1. CASE i = Len(s) + 1
    BY <1>1, <2>1
  <2>2. CASE i \in 1 .. Len(s)
    BY <1>1, <1>2, <2>2 DEF Range
  <2> QED
    BY <1>2, <2>1, <2>2
<1> QED
  BY <1>1, <1>3

LEMMA TailFacts ==
  ASSUME NEW S, NEW s \in Seq(S), s # <<>>
  PROVE  /\ Tail(s) \in Seq(S) /\ Len(Tail(s)) = Len(s) - 1 /\ Len(s) \in Nat
         /\ Len(s) >= 1 /\ DOMAIN Tail(s) = 1 .. Len(s) - 1 /\ DOMAIN s = 1 .. Len(s)
         /\ \A i \in 1 .. Len(s) - 1 : Tail(s)[i] = s[i + 1]
         /\ Range(Tail(s)) \subseteq Range(s)
<1>1. /\ Tail(s) \in Seq(S) /\ Len(Tail(s)) = Len(s) - 1 /\ Len(s) \in Nat
      /\ Len(s) >= 1 /\ DOMAIN Tail(s) = 1 .. Len(s) - 1 /\ DOMAIN s = 1 .. Len(s)
      /\ \A i \in 1 .. Len(s) - 1 : Tail(s)[i] = s[i + 1]
  OBVIOUS
<1>2. \A i \in 1 .. Len(s) - 1 : i + 1 \in 1 .. Len(s)
  BY <1>1
<1> QED
  BY <1>1, <1>2 DEF Range

(* The draw that a flush starts.                                           *)
LEMMA StartsFacts ==
  ASSUME CopybitAssumption, IInv, StartsDraw, Len(jobs) < 2
  PROVE  /\ jobs' \in Seq(Draws) /\ Len(jobs') <= 2 /\ drawn' \subseteq 1 .. MaxLayers
         /\ jobs' # <<>> => engine.blits # <<>>
         /\ Range(jobs') \subseteq Range(jobs) \cup DrawsOf(engine)
<1>1. engine \in Engines /\ DrawsOf(engine) \subseteq Draws
  BY EngineFacts, DrawFacts
<1>2. jobs \in Seq(Draws) /\ Len(jobs) \in Nat
  BY DEF IInv, TypeOK
<1>3. drawn' \subseteq 1 .. MaxLayers
  BY <1>1, ReachedFacts DEF StartsDraw, IInv, TypeOK
<1>4. CASE engine.blits = <<>>
  BY <1>2, <1>3, <1>4 DEF StartsDraw, IInv, EngineInv
<1>5. CASE engine.blits # <<>>
  <2>1. jobs' = Append(jobs, Draw(engine)) /\ DrawsOf(engine) = {Draw(engine)}
    BY <1>5 DEF StartsDraw, DrawsOf
  <2>2. Draw(engine) \in Draws
    BY <1>1, <2>1
  <2> QED
    BY <1>2, <1>3, <1>5, <2>1, <2>2, AppendRange
<1> QED
  BY <1>4, <1>5

LEMMA FlushKeeps == ASSUME CopybitAssumption, IInv, Flush PROVE IInv'
<1>1. /\ phase = "drawing" /\ phase' = "flushed" /\ Len(jobs) < 2 /\ done' = {}
      /\ device' = device /\ composer' = composer /\ cur' = cur
      /\ todo' = todo /\ stretched' = stretched
      /\ thread' = thread /\ relFd' = relFd /\ screen' = screen /\ fence' = TRUE
      /\ engine' = [engine EXCEPT !.wait = TRUE] /\ raced' = raced
      /\ spoilt' = (spoilt \/ Late) /\ StartsDraw
  BY DEF Flush, Flushed, display
<1>2. spoilt' \in BOOLEAN /\ (~spoilt' => ~spoilt /\ ~engine.wait)
  BY <1>1 DEF Late
<1>3. TypeOK /\ engine \in Engines
  BY DEF IInv, TypeOK
<1>4. engine' \in Engines /\ engine'.blits = engine.blits /\ engine'.count = engine.count
      /\ engine'.wait
  BY <1>1, <1>3 DEF Engines
<1>5. /\ jobs' \in Seq(Draws) /\ Len(jobs') <= 2 /\ drawn' \subseteq 1 .. MaxLayers
      /\ jobs' # <<>> => engine.blits # <<>>
      /\ Range(jobs') \subseteq Range(jobs) \cup DrawsOf(engine)
  BY <1>1, StartsFacts
<1>6. TypeOK'
  BY <1>1, <1>2, <1>3, <1>4, <1>5 DEF TypeOK
<1>7. EngineInv'
  BY <1>1, <1>4, <1>5 DEF EngineInv
<1>8. Submitted' = Range(jobs')
  BY <1>1 DEF Submitted
<1>9. ~spoilt' => OnTarget(engine) /\ stretched \subseteq drawn \cup LayersOf(engine)
  BY <1>1, <1>2, EngineFacts
<1>10. ~spoilt' => ForFrame(DrawsOf(engine))
  BY <1>3, <1>9, DrawFacts
<1>11. DrawsInv'
  <2> SUFFICES ASSUME ~spoilt', NEW d \in Range(jobs') PROVE GoodDraw(d)
    BY <1>8 DEF DrawsInv
  <2>1. CASE d \in DrawsOf(engine)
    BY <1>10, <2>1 DEF ForFrame
  <2>2. CASE d \in Range(jobs)
    BY <1>2, <2>2 DEF IInv, DrawsInv, Submitted
  <2> QED
    BY <1>5, <2>1, <2>2
<1>12. LayersInv'
  <2>2. composer = "copybit"
    BY <1>1 DEF IInv, LayersInv
  <2>1. ASSUME ~spoilt' PROVE stretched' \subseteq drawn'
    <3>1. drawn' = drawn \cup Reached(DrawsOf(engine))
      BY <1>1 DEF StartsDraw
    <3>2. LayersOf(engine) \subseteq Reached(DrawsOf(engine))
      <4> SUFFICES ASSUME NEW b \in Range(engine.blits)
                   PROVE  b.layer \in Reached(DrawsOf(engine))
        BY DEF LayersOf
      <4>1. engine.blits # <<>>
        BY DEF Range
      <4>2. Draw(engine) \in DrawsOf(engine) /\ b \in Draw(engine).blits
        BY <4>1 DEF DrawsOf, Draw
      <4>3. DrawsOf(engine) \in SUBSET Draws /\ ForFrame(DrawsOf(engine))
        BY <1>3, <1>10, <2>1, DrawFacts
      <4> QED
        BY <4>2, <4>3, ReachedFacts
    <3> QED
      BY <1>1, <1>9, <2>1, <3>1, <3>2
  <2> QED
    BY <1>1, <2>1 DEF LayersInv
<1>13. FencesInv'
  BY <1>1 DEF IInv, FencesInv
<1>15. JobsInv'
  <2> SUFFICES ASSUME ~spoilt', ~raced, NEW d \in Range(jobs'), d.target # cur
               PROVE  \E k \in DOMAIN screen : screen[k].buf = d.target
    <3>1. composer = "copybit"
      BY <1>1 DEF IInv, LayersInv
    <3> QED
      BY <1>1, <3>1 DEF JobsInv
  <2>1. d \notin DrawsOf(engine)
    BY <1>10 DEF ForFrame
  <2> QED
    BY <1>1, <1>2, <1>5, <2>1 DEF IInv, JobsInv
<1>14. ScanoutNeverRaces'
  <2> SUFFICES ASSUME ~spoilt', ~raced
               PROVE  \A d \in Range(jobs'), k \in DOMAIN screen :
                        screen[k].buf = d.target => k > 1 /\ screen[k].fence
    BY <1>1 DEF ScanoutNeverRaces
  <2>1. \A k \in DOMAIN screen : screen[k].buf # cur
    BY <1>1 DEF IInv, FencesInv, LayersInv
  <2>2. \A d \in DrawsOf(engine) : d.target = cur
    BY <1>10 DEF ForFrame
  <2>3. \A d \in Range(jobs), k \in DOMAIN screen :
          screen[k].buf = d.target => k > 1 /\ screen[k].fence
    BY <1>2 DEF IInv, ScanoutNeverRaces
  <2> QED
    BY <1>5, <2>1, <2>2, <2>3
<1> QED
  BY <1>6, <1>7, <1>11, <1>12, <1>13, <1>14, <1>15 DEF IInv

LEMMA FlushFailsKeeps == ASSUME CopybitAssumption, IInv, FlushFails PROVE IInv'
<1>1. /\ phase = "drawing" /\ phase' = "flushed" /\ Len(jobs) < 2 /\ done' = {}
      /\ device' = device /\ composer' = composer /\ cur' = cur
      /\ todo' = todo /\ stretched' = stretched
      /\ thread' = thread /\ relFd' = relFd /\ screen' = screen /\ fence' = FALSE
      /\ engine' = engine /\ spoilt' = TRUE
      /\ \/ StartsDraw /\ raced' = TRUE
         \/ jobs' = jobs /\ drawn' = drawn /\ raced' = raced
  BY DEF FlushFails, Flushed, display
<1>2. TypeOK
  BY DEF IInv
<1>3. /\ jobs' \in Seq(Draws) /\ Len(jobs') <= 2 /\ drawn' \subseteq 1 .. MaxLayers
      /\ jobs' # <<>> => engine.blits # <<>>
  <2>1. CASE StartsDraw
    BY <1>1, <2>1, StartsFacts
  <2>2. CASE jobs' = jobs /\ drawn' = drawn
    BY <1>2, <2>2 DEF TypeOK, IInv, EngineInv
  <2> QED
    BY <1>1, <2>1, <2>2
<1>4. raced' \in BOOLEAN /\ (~raced' => ~raced)
  <2>1. CASE raced' = TRUE
    BY <2>1
  <2>2. CASE raced' = raced
    BY <1>2, <2>2 DEF TypeOK
  <2> QED
    BY <1>1, <2>1, <2>2
<1>5. TypeOK'
  BY <1>1, <1>2, <1>3, <1>4 DEF TypeOK
<1>6. EngineInv' /\ DrawsInv' /\ LayersInv' /\ JobsInv' /\ ScanoutNeverRaces'
  BY <1>1, <1>3 DEF IInv, EngineInv, DrawsInv, LayersInv, JobsInv, ScanoutNeverRaces
<1>7. FencesInv'
  BY <1>1, <1>4 DEF IInv, FencesInv
<1> QED
  BY <1>5, <1>6, <1>7 DEF IInv

(* The wait thread, and the GPU.                                           *)
LEMMA ThreadKeeps == ASSUME CopybitAssumption, IInv, Thread PROVE IInv'
<1>1. TypeOK
  BY DEF IInv
<1>2. CASE ThreadLocks
  <2>1. /\ engine.wait /\ thread' = "gpu" /\ done' = {} /\ phase' = phase
        /\ device' = device /\ composer' = composer /\ cur' = cur
      /\ todo' = todo /\ stretched' = stretched
        /\ drawn' = drawn /\ fence' = fence /\ engine' = engine /\ jobs' = jobs
        /\ relFd' = relFd /\ screen' = screen /\ spoilt' = spoilt /\ raced' = raced
    BY <1>2 DEF ThreadLocks, frameVars, display, history
  <2>2. TypeOK'
    BY <1>1, <2>1 DEF TypeOK
  <2>3. Submitted' \subseteq Submitted
    BY <2>1 DEF Submitted
  <2>4. EngineInv' /\ LayersInv' /\ FencesInv'
    BY <2>1 DEF IInv, EngineInv, LayersInv, FencesInv
  <2>5. DrawsInv'
    BY <2>1, <2>3 DEF IInv, DrawsInv
  <2>6. JobsInv' /\ ScanoutNeverRaces'
    BY <2>1 DEF IInv, JobsInv, ScanoutNeverRaces
  <2> QED
    BY <2>2, <2>4, <2>5, <2>6 DEF IInv
<1>3. CASE ThreadCleans
  <2>1. /\ thread = "gpu" /\ jobs = <<>> /\ thread' = "cond" /\ done' = {} /\ phase' = phase
        /\ device' = device /\ composer' = composer /\ cur' = cur
      /\ todo' = todo /\ stretched' = stretched
        /\ drawn' = drawn /\ fence' = fence /\ engine' = CleanEngine /\ jobs' = jobs
        /\ relFd' = relFd /\ screen' = screen /\ spoilt' = spoilt /\ raced' = raced
    BY <1>3 DEF ThreadCleans, frameVars, display, history
  <2>2. /\ CleanEngine \in Engines /\ GoodEngine(CleanEngine) /\ ~CleanEngine.mapped
        /\ CleanEngine.blits = <<>> /\ ~CleanEngine.wait
        /\ \A t \in Types : CleanEngine.count[t] = 0
    BY CleanIsGood DEF CleanEngine
  <2>3. Len(<<>>) = 0 /\ Range(<<>>) = {}
    BY DEF Range
  <2>4. TypeOK'
    <3>1. Len(CleanEngine.blits) <= MAX_BLIT_OBJECT_COUNT
          /\ \A t \in Types : CleanEngine.count[t] <= MaxSurfaces[t]
      BY <2>2, <2>3 DEF CopybitAssumption
    <3> QED
      BY <1>1, <2>1, <2>2, <3>1 DEF TypeOK
  <2>5. engine.wait
    BY <2>1 DEF IInv, EngineInv
  <2>6. EngineInv'
    BY <2>1, <2>2 DEF EngineInv
  <2>7. Submitted' = {}
    BY <2>1, <2>3 DEF Submitted
  <2>8. DrawsInv' /\ JobsInv' /\ ScanoutNeverRaces'
    BY <2>1, <2>3, <2>7 DEF DrawsInv, JobsInv, ScanoutNeverRaces
  <2>9. LayersInv'
    <3>1. /\ phase = "begun" => stretched = {} /\ composer # "none"
          /\ phase = "drawing" => composer = "copybit"
      BY DEF IInv, LayersInv
    <3>2. ~spoilt /\ phase = "drawing" => stretched = {}
      BY <2>5 DEF IInv, LayersInv
    <3>3. ~spoilt /\ phase \in {"flushed", "synced"} =>
            stretched \subseteq drawn /\ (composer = "copybit" => fence)
      BY DEF IInv, LayersInv
    <3> QED
      BY <2>1, <2>2, <3>1, <3>2, <3>3 DEF LayersInv
  <2>10. FencesInv'
    BY <2>1 DEF IInv, FencesInv
  <2> QED
    BY <2>4, <2>6, <2>8, <2>9, <2>10 DEF IInv
<1>4. CASE ThreadEnds
  <2>1. /\ thread' = "ended" /\ done' = {} /\ phase = "closing" /\ phase' = "closed"
        /\ device' = device /\ composer' = composer /\ cur' = cur
      /\ todo' = todo /\ stretched' = stretched
        /\ drawn' = drawn /\ fence' = fence /\ engine' = engine /\ jobs' = jobs
        /\ relFd' = relFd /\ screen' = screen /\ spoilt' = spoilt /\ raced' = raced
    BY <1>4 DEF ThreadEnds, frameVars, display, history
  <2>2. TypeOK'
    BY <1>1, <2>1 DEF TypeOK
  <2>3. Submitted' \subseteq Submitted
    BY <2>1 DEF Submitted
  <2>4. EngineInv' /\ LayersInv' /\ FencesInv'
    BY <2>1 DEF IInv, EngineInv, LayersInv, FencesInv
  <2>5. DrawsInv'
    BY <2>1, <2>3 DEF IInv, DrawsInv
  <2>6. JobsInv' /\ ScanoutNeverRaces'
    BY <2>1 DEF IInv, JobsInv, ScanoutNeverRaces
  <2> QED
    BY <2>2, <2>4, <2>5, <2>6 DEF IInv
<1> QED
  BY <1>2, <1>3, <1>4 DEF Thread

LEMMA GpuDrawsKeeps == ASSUME CopybitAssumption, IInv, GpuDraws PROVE IInv'
<1>1. /\ jobs # <<>> /\ jobs' = Tail(jobs) /\ done' = {} /\ phase' = phase
      /\ device' = device /\ composer' = composer /\ cur' = cur
      /\ todo' = todo /\ stretched' = stretched
      /\ drawn' = drawn /\ fence' = fence /\ engine' = engine /\ thread' = thread
      /\ relFd' = relFd /\ screen' = screen /\ spoilt' = spoilt /\ raced' = raced
  BY DEF GpuDraws, frameVars, display, history
<1>2. TypeOK /\ jobs \in Seq(Draws) /\ Len(jobs) <= 2
  BY DEF IInv, TypeOK
<1>3. jobs' \in Seq(Draws) /\ Len(jobs') <= 2 /\ Range(jobs') \subseteq Range(jobs)
  BY <1>1, <1>2, TailFacts
<1>4. TypeOK'
  BY <1>1, <1>2, <1>3 DEF TypeOK
<1>5. Submitted' \subseteq Submitted
  BY <1>1, <1>3 DEF Submitted
<1>6. DrawsInv'
  BY <1>1, <1>5 DEF IInv, DrawsInv
<1>7. EngineInv' /\ LayersInv' /\ FencesInv'
  BY <1>1 DEF IInv, EngineInv, LayersInv, FencesInv
<1>8. JobsInv' /\ ScanoutNeverRaces'
  BY <1>1, <1>3 DEF IInv, JobsInv, ScanoutNeverRaces
<1> QED
  BY <1>4, <1>6, <1>7, <1>8 DEF IInv

LEMMA CloseKeeps == ASSUME CopybitAssumption, IInv, Close PROVE IInv'
<1>1. /\ phase = "idle" /\ phase' = "closing" /\ done' = {}
      /\ device' = device /\ composer' = composer /\ cur' = cur
      /\ todo' = todo /\ stretched' = stretched
      /\ drawn' = drawn /\ fence' = fence /\ engine' = engine /\ jobs' = jobs
      /\ thread' = thread
      /\ relFd' = relFd /\ screen' = screen /\ spoilt' = spoilt /\ raced' = raced
  BY DEF Close, frameVars, display, history
<1>2. TypeOK
  BY DEF IInv
<1>3. TypeOK'
  BY <1>1, <1>2 DEF TypeOK
<1>4. Submitted' \subseteq Submitted
  BY <1>1 DEF Submitted
<1>5. EngineInv' /\ LayersInv' /\ FencesInv'
  BY <1>1 DEF IInv, EngineInv, LayersInv, FencesInv
<1>6. DrawsInv'
  BY <1>1, <1>4 DEF IInv, DrawsInv
<1>7. JobsInv' /\ ScanoutNeverRaces'
  BY <1>1 DEF IInv, JobsInv, ScanoutNeverRaces
<1> QED
  BY <1>3, <1>5, <1>6, <1>7 DEF IInv

(* The display.                                                            *)
Frames == [buf : Buffers \cup {NONE}, fence : BOOLEAN]

LEMMA SyncKeeps == ASSUME CopybitAssumption, IInv, Sync PROVE IInv'
<1>1. /\ phase = "flushed" /\ phase' = "synced" /\ done' = {}
      /\ device' = device /\ composer' = composer /\ cur' = cur
      /\ todo' = todo /\ stretched' = stretched
      /\ drawn' = drawn /\ fence' = fence /\ engine' = engine /\ jobs' = jobs
      /\ thread' = thread /\ screen' = screen /\ spoilt' = spoilt
      /\ \/ relFd' = [relFd EXCEPT ![cur] = Len(screen) + 1] /\ raced' = raced
         \/ relFd' = [relFd EXCEPT ![cur] = 0] /\ raced' = TRUE
  BY DEF Sync, frameVars
<1>2. TypeOK /\ cur \in Buffers /\ relFd \in [Buffers -> 0 .. MaxLag + 1] /\ raced \in BOOLEAN
      /\ screen \in Seq(Frames)
  BY DEF IInv, TypeOK, Frames
<1>3. Len(screen) \in Nat /\ Len(screen) <= MaxLag /\ DOMAIN screen = 1 .. Len(screen)
      /\ \A k \in DOMAIN screen : screen[k].buf \in Buffers \cup {NONE}
  <2>1. Len(screen) <= MaxLag
    BY <1>1 DEF IInv, FencesInv
  <2>2. \A k \in DOMAIN screen : screen[k] \in Frames
    BY <1>2
  <2>3. Len(screen) \in Nat /\ DOMAIN screen = 1 .. Len(screen)
    BY <1>2
  <2>4. \A x \in Frames : x.buf \in Buffers \cup {NONE}
    BY DEF Frames
  <2> QED
    BY <2>1, <2>2, <2>3, <2>4
<1>4. relFd' \in [Buffers -> 0 .. MaxLag + 1] /\ raced' \in BOOLEAN
  <2>1. Len(screen) + 1 \in 0 .. MaxLag + 1 /\ 0 \in 0 .. MaxLag + 1
    BY <1>3 DEF CopybitAssumption
  <2>2. relFd' \in [Buffers -> 0 .. MaxLag + 1]
    BY <1>1, <1>2, <2>1
  <2>3. raced' = raced \/ raced' = TRUE
    BY <1>1
  <2>4. CASE raced' = TRUE
    BY <2>2, <2>4
  <2>5. CASE raced' = raced
    BY <1>2, <2>2, <2>5
  <2> QED
    BY <2>3, <2>4, <2>5
<1>5. TypeOK'
  BY <1>1, <1>2, <1>4 DEF TypeOK
<1>6. ~raced' => /\ ~raced /\ relFd' = [relFd EXCEPT ![cur] = Len(screen) + 1]
  BY <1>1
<1>7. Submitted' \subseteq Submitted
  BY <1>1 DEF Submitted
<1>8. EngineInv' /\ LayersInv'
  BY <1>1 DEF IInv, EngineInv, LayersInv
<1>9. DrawsInv'
  BY <1>1, <1>7 DEF IInv, DrawsInv
<1>10. FencesInv'
  <2>1. ASSUME ~raced'
        PROVE  /\ \A k \in DOMAIN screen : screen[k].buf # NONE => relFd'[screen[k].buf] >= k
               /\ relFd'[cur] = Len(screen) + 1
    <3>1. relFd'[cur] = Len(screen) + 1
      BY <1>2, <1>6, <2>1
    <3> SUFFICES ASSUME NEW k \in DOMAIN screen, screen[k].buf # NONE
                 PROVE  relFd'[screen[k].buf] >= k
      BY <3>1
    <3>2. screen[k].buf \in Buffers /\ k \in Nat /\ k <= Len(screen)
      BY <1>3
    <3>3. CASE screen[k].buf = cur
      BY <1>3, <3>1, <3>2, <3>3
    <3>4. CASE screen[k].buf # cur
      <4>1. relFd'[screen[k].buf] = relFd[screen[k].buf]
        BY <1>2, <1>6, <2>1, <3>2, <3>4
      <4>2. relFd[screen[k].buf] >= k
        BY <1>6, <2>1 DEF IInv, FencesInv
      <4> QED
        BY <4>1, <4>2
    <3> QED
      BY <3>3, <3>4
  <2>2. ~raced /\ composer # "none" => \A k \in DOMAIN screen : screen[k].buf # cur
    BY <1>1 DEF IInv, FencesInv
  <2> QED
    BY <1>1, <1>3, <1>6, <2>1, <2>2 DEF FencesInv
<1>11. JobsInv' /\ ScanoutNeverRaces'
  BY <1>1, <1>6 DEF IInv, JobsInv, ScanoutNeverRaces
<1> QED
  BY <1>5, <1>8, <1>9, <1>10, <1>11 DEF IInv

LEMMA CommitKeeps == ASSUME CopybitAssumption, IInv, Commit \/ PlayRefused PROVE IInv'
<1> DEFINE new == [buf |-> IF composer = "none" THEN NONE ELSE cur, fence |-> fence]
           old == [buf |-> Last(screen).buf, fence |-> FALSE]
<1>1. /\ phase = "synced" /\ phase' = "idle" /\ done' = {}
      /\ device' = device /\ composer' = "none" /\ cur' = cur /\ todo' = todo
      /\ stretched' = {} /\ drawn' = {} /\ fence' = FALSE /\ engine' = engine
      /\ jobs' = jobs /\ thread' = thread /\ spoilt' = spoilt /\ relFd' = relFd
  BY DEF Commit, PlayRefused, Commits
<1>2. TypeOK /\ cur \in Buffers /\ relFd \in [Buffers -> 0 .. MaxLag + 1] /\ fence \in BOOLEAN
      /\ screen \in Seq(Frames) /\ Len(screen) >= 1 /\ raced \in BOOLEAN
  BY DEF IInv, TypeOK, Frames
<1>3. Len(screen) \in Nat /\ Len(screen) <= MaxLag /\ DOMAIN screen = 1 .. Len(screen)
  <2>1. Len(screen) <= MaxLag
    BY <1>1 DEF IInv, FencesInv
  <2> QED
    BY <1>2, <2>1
<1>4. new \in Frames /\ old \in Frames
  <2>1. screen[Len(screen)] \in Frames
    BY <1>2, <1>3
  <2>2. Last(screen).buf \in Buffers \cup {NONE}
    BY <2>1 DEF Last, Frames
  <2> QED
    BY <1>2, <2>2 DEF Frames
<1>5. PICK f \in Frames :
        /\ screen' = Append(screen, f) /\ raced' \in BOOLEAN
        /\ ~raced' => ~raced /\ f = new
  <2>1. CASE Commit
    BY <1>2, <1>4, <2>1 DEF Commit
  <2>2. CASE PlayRefused
    BY <1>4, <2>2 DEF PlayRefused
  <2> QED
    BY <2>1, <2>2
<1>6. ~raced' => /\ ~raced /\ (f.fence <=> fence)
                 /\ f.buf = IF composer = "none" THEN NONE ELSE cur
  BY <1>5
<1>7. /\ screen' \in Seq(Frames) /\ Len(screen') = Len(screen) + 1
      /\ \A i \in 1 .. Len(screen) : screen'[i] = screen[i]
      /\ screen'[Len(screen) + 1] = f
  BY <1>2, <1>5, AppendRange
<1> HIDE DEF new, old
<1>8. DOMAIN screen' = 1 .. Len(screen) + 1
  BY <1>3, <1>7
<1>9. TypeOK'
  <2>1. screen' \in Seq([buf : Buffers \cup {NONE}, fence : BOOLEAN])
        /\ Len(screen') \in 1 .. MaxLag + 1
    BY <1>3, <1>7 DEF CopybitAssumption, Frames
  <2> QED
    BY <1>1, <1>2, <1>5, <2>1 DEF TypeOK
<1>10. Submitted' \subseteq Submitted /\ Submitted' = Range(jobs)
  BY <1>1 DEF Submitted
<1>11. EngineInv' /\ LayersInv'
  BY <1>1 DEF IInv, EngineInv, LayersInv
<1>12. DrawsInv'
  BY <1>1, <1>10 DEF IInv, DrawsInv
<1>13. FencesInv'
  <2> SUFFICES ASSUME ~raced', NEW k \in 1 .. Len(screen) + 1, screen'[k].buf # NONE
               PROVE  relFd[screen'[k].buf] >= k
    BY <1>1, <1>8 DEF FencesInv
  <2>1. CASE k = Len(screen) + 1
    <3>1. composer # "none" /\ screen'[k].buf = cur
      BY <1>6, <1>7, <2>1
    <3>2. relFd[cur] = Len(screen) + 1
      BY <1>1, <1>6, <3>1 DEF IInv, FencesInv
    <3> QED
      BY <1>3, <2>1, <3>1, <3>2
  <2>2. CASE k \in 1 .. Len(screen)
    <3>1. screen'[k] = screen[k] /\ k \in DOMAIN screen
      BY <1>3, <1>7, <2>2
    <3> QED
      BY <1>6, <3>1 DEF IInv, FencesInv
  <2> QED
    BY <1>3, <2>1, <2>2
<1>14. ASSUME ~spoilt, ~raced', NEW d \in Range(jobs)
       PROVE  d.target \in Buffers /\ d.target # NONE
  BY <1>14 DEF IInv, DrawsInv, Submitted, GoodDraw, Buffers, NONE, CopybitAssumption
<1>15. ScanoutNeverRaces'
  <2> SUFFICES ASSUME ~spoilt, ~raced', NEW d \in Range(jobs),
                      NEW k \in 1 .. Len(screen) + 1, screen'[k].buf = d.target
               PROVE  k > 1 /\ screen'[k].fence
    BY <1>1, <1>8 DEF ScanoutNeverRaces
  <2>1. CASE k = Len(screen) + 1
    <3>1. composer # "none" /\ d.target = cur
      BY <1>6, <1>7, <1>14, <2>1
    <3>2. \A i \in DOMAIN screen : screen[i].buf # d.target
      BY <1>1, <1>6, <3>1 DEF IInv, FencesInv
    <3>3. composer = "copybit"
      BY <1>6, <3>2 DEF IInv, JobsInv
    <3>4. fence
      BY <1>1, <3>3 DEF IInv, LayersInv
    <3>5. k > 1
      BY <1>2, <1>3, <2>1
    <3> QED
      BY <1>6, <1>7, <2>1, <3>4, <3>5
  <2>2. CASE k \in 1 .. Len(screen)
    <3>1. screen'[k] = screen[k] /\ k \in DOMAIN screen
      BY <1>3, <1>7, <2>2
    <3> QED
      BY <1>6, <3>1 DEF IInv, ScanoutNeverRaces
  <2> QED
    BY <1>3, <2>1, <2>2
<1>16. JobsInv'
  <2> SUFFICES ASSUME ~spoilt, ~raced', NEW d \in Range(jobs)
               PROVE  \E k \in 1 .. Len(screen) + 1 : screen'[k].buf = d.target
    BY <1>1, <1>8 DEF JobsInv
  <2>1. CASE composer = "copybit" /\ d.target = cur
    <3>1. screen'[Len(screen) + 1].buf = d.target
      BY <1>6, <1>7, <2>1
    <3>2. Len(screen) + 1 \in 1 .. Len(screen) + 1
      BY <1>3
    <3> QED
      BY <3>1, <3>2
  <2>2. CASE \E k \in DOMAIN screen : screen[k].buf = d.target
    <3>1. PICK k \in DOMAIN screen : screen[k].buf = d.target
      BY <2>2
    <3>2. k \in 1 .. Len(screen) + 1 /\ screen'[k] = screen[k]
      BY <1>3, <1>7
    <3> QED
      BY <3>1, <3>2
  <2> QED
    BY <1>6, <2>1, <2>2 DEF IInv, JobsInv
<1> QED
  BY <1>9, <1>11, <1>12, <1>13, <1>15, <1>16 DEF IInv

LEMMA VsyncKeeps == ASSUME CopybitAssumption, IInv, Vsync PROVE IInv'
<1>1. /\ Len(screen) > 1 /\ done' = {} /\ phase' = phase
      /\ screen[2].fence => ~\E k \in DOMAIN jobs : jobs[k].target = screen[2].buf
      /\ screen' = Tail(screen)
      /\ relFd' = [b \in Buffers |-> IF relFd[b] = 0 THEN 0 ELSE relFd[b] - 1]
      /\ device' = device /\ composer' = composer /\ cur' = cur
      /\ todo' = todo /\ stretched' = stretched
      /\ drawn' = drawn /\ fence' = fence /\ engine' = engine /\ jobs' = jobs
      /\ thread' = thread /\ spoilt' = spoilt /\ raced' = raced
  BY DEF Vsync, frameVars, history
<1>2. TypeOK /\ cur \in Buffers /\ relFd \in [Buffers -> 0 .. MaxLag + 1]
      /\ screen \in Seq(Frames) /\ Len(screen) \in 1 .. MaxLag + 1
  BY DEF IInv, TypeOK, Frames
<1>3. screen # <<>>
  BY <1>1
<1>4. /\ screen' \in Seq(Frames) /\ Len(screen') = Len(screen) - 1 /\ Len(screen) \in Nat
      /\ DOMAIN screen' = 1 .. Len(screen) - 1 /\ DOMAIN screen = 1 .. Len(screen)
      /\ \A i \in 1 .. Len(screen) - 1 : screen'[i] = screen[i + 1]
  BY <1>1, <1>2, <1>3, TailFacts
<1>5. relFd' \in [Buffers -> 0 .. MaxLag + 1]
      /\ \A b \in Buffers : relFd'[b] = IF relFd[b] = 0 THEN 0 ELSE relFd[b] - 1
  <2>1. \A b \in Buffers : relFd[b] \in 0 .. MaxLag + 1
    BY <1>2
  <2>2. \A b \in Buffers : (IF relFd[b] = 0 THEN 0 ELSE relFd[b] - 1) \in 0 .. MaxLag + 1
    BY <2>1 DEF CopybitAssumption
  <2> QED
    BY <1>1, <2>2
<1>6. TypeOK'
  <2>1. screen' \in Seq([buf : Buffers \cup {NONE}, fence : BOOLEAN])
        /\ Len(screen') \in 1 .. MaxLag + 1
    BY <1>1, <1>2, <1>4 DEF Frames, CopybitAssumption
  <2> QED
    BY <1>1, <1>2, <1>5, <2>1 DEF TypeOK
<1>7. Submitted' \subseteq Submitted /\ Submitted' = Range(jobs)
  BY <1>1 DEF Submitted
<1>8. EngineInv' /\ LayersInv'
  BY <1>1 DEF IInv, EngineInv, LayersInv
<1>9. DrawsInv'
  BY <1>1, <1>7 DEF IInv, DrawsInv
<1>10. FencesInv'
  <2>1. ASSUME ~raced, NEW k \in DOMAIN screen', screen'[k].buf # NONE
        PROVE  relFd'[screen'[k].buf] >= k
    <3>1. k \in Nat /\ k >= 1 /\ k + 1 \in DOMAIN screen /\ screen'[k] = screen[k + 1]
      BY <1>4
    <3>2. relFd[screen[k + 1].buf] >= k + 1
      BY <2>1, <3>1 DEF IInv, FencesInv
    <3>3. screen[k + 1].buf \in Buffers
      <4>1. screen[k + 1] \in Frames
        BY <1>2, <3>1
      <4>2. screen[k + 1].buf \in Buffers \cup {NONE}
        BY <4>1 DEF Frames
      <4> QED
        BY <2>1, <3>1, <4>2
    <3>4. relFd[screen[k + 1].buf] \in 0 .. MaxLag + 1
      BY <1>2, <3>3
    <3>5. relFd'[screen[k + 1].buf] = relFd[screen[k + 1].buf] - 1
      <4>1. relFd[screen[k + 1].buf] # 0
        BY <3>1, <3>2
      <4> QED
        BY <1>5, <3>3, <4>1
    <3> QED
      BY <3>1, <3>2, <3>4, <3>5 DEF CopybitAssumption
  <2>2. ASSUME ~raced, phase = "synced", composer # "none"
        PROVE relFd'[cur] = Len(screen') + 1
    <3>1. relFd[cur] = Len(screen) + 1
      BY <2>2 DEF IInv, FencesInv
    <3>2. relFd[cur] # 0
      BY <1>4, <3>1
    <3> QED
      BY <1>2, <1>4, <1>5, <3>1, <3>2
  <2>3. ASSUME ~raced, phase \in {"drawing", "flushed", "synced"}, composer # "none",
               NEW k \in DOMAIN screen'
        PROVE screen'[k].buf # cur
    <3>1. k + 1 \in DOMAIN screen /\ screen'[k] = screen[k + 1]
      BY <1>4
    <3> QED
      BY <2>3, <3>1 DEF IInv, FencesInv
  <2>4. phase \in {"begun", "drawing", "flushed", "synced"} => Len(screen') <= MaxLag
    BY <1>2, <1>4 DEF CopybitAssumption
  <2> QED
    BY <1>1, <2>1, <2>2, <2>3, <2>4 DEF FencesInv
<1>11. ScanoutNeverRaces'
  <2> SUFFICES ASSUME ~spoilt, ~raced, NEW d \in Range(jobs), NEW k \in DOMAIN screen',
                      screen'[k].buf = d.target
               PROVE  k > 1 /\ screen'[k].fence
    BY <1>1 DEF ScanoutNeverRaces
  <2>1. k \in Nat /\ k >= 1 /\ k + 1 \in DOMAIN screen /\ screen'[k] = screen[k + 1]
    BY <1>4
  <2>2. screen[k + 1].fence
    BY <2>1 DEF IInv, ScanoutNeverRaces
  <2>3. k # 1
    <3> SUFFICES ASSUME k = 1 PROVE FALSE
      OBVIOUS
    <3>1. screen[2].fence /\ screen[2].buf = d.target
      BY <2>1, <2>2
    <3> QED
      BY <1>1, <3>1 DEF Range
  <2> QED
    BY <2>1, <2>2, <2>3
<1>12. JobsInv'
  <2> SUFFICES ASSUME ~spoilt, ~raced, NEW d \in Range(jobs),
                      NEW k \in DOMAIN screen, screen[k].buf = d.target
               PROVE  \E i \in DOMAIN screen' : screen'[i].buf = d.target
    BY <1>1 DEF IInv, JobsInv
  <2>1. k > 1
    BY DEF IInv, ScanoutNeverRaces
  <2>2. k - 1 \in DOMAIN screen' /\ k - 1 + 1 = k /\ screen'[k - 1] = screen[k - 1 + 1]
    BY <1>4, <2>1
  <2> QED
    BY <2>2
<1> QED
  BY <1>6, <1>8, <1>9, <1>10, <1>11, <1>12 DEF IInv

-----------------------------------------------------------------------------
(* The theorems.                                                           *)

LEMMA NextKeeps == ASSUME CopybitAssumption, IInv, [Next]_vars PROVE IInv'
<1>1. CASE UNCHANGED vars
  <2>1. /\ phase' = phase /\ device' = device /\ cur' = cur /\ composer' = composer
        /\ relFd' = relFd /\ todo' = todo /\ stretched' = stretched /\ drawn' = drawn
        /\ engine' = engine /\ thread' = thread /\ jobs' = jobs /\ done' = done
        /\ fence' = fence /\ screen' = screen /\ spoilt' = spoilt /\ raced' = raced
    BY <1>1 DEF vars, frameVars, display, history
  <2>2. TypeOK' /\ EngineInv' /\ LayersInv' /\ FencesInv' /\ JobsInv'
    BY SMTT(30), <2>1 DEF IInv, TypeOK, EngineInv, LayersInv, FencesInv, JobsInv
  <2>3. Submitted' = Submitted
    BY <2>1 DEF Submitted
  <2>4. DrawsInv' /\ ScanoutNeverRaces'
    BY <2>1, <2>3 DEF IInv, DrawsInv, ScanoutNeverRaces
  <2> QED
    BY <2>2, <2>4 DEF IInv
<1>2. TypeOK /\ cur \in Buffers
  BY DEF IInv, TypeOK
<1>3. (cur + 1) % NUM_RENDER_BUFFERS \in Buffers
  <2>1. NUM_RENDER_BUFFERS \in Nat \ {0} /\ cur \in Nat
    BY <1>2 DEF CopybitAssumption, Buffers
  <2>2. (cur + 1) % NUM_RENDER_BUFFERS \in 0 .. NUM_RENDER_BUFFERS - 1
    BY <2>1
  <2> QED
    BY <2>2 DEF Buffers
<1>4. (1 .. MaxLayers) \cup {0} \subseteq 0 .. MaxLayers
  BY DEF CopybitAssumption
<1>5. ASSUME NEW n \in 1 .. MaxLayers, Prepare(n) PROVE IInv'
  <2>1. Begins /\ phase' = "begun" /\ todo' = n /\ composer' = "copybit"
        /\ cur' = (cur + 1) % NUM_RENDER_BUFFERS
    BY <1>5 DEF Prepare, NextBuffer
  <2> QED
    BY <1>3, <1>4, <2>1, BeginsKeeps
<1>6. CASE PrepareRefused
  <2>1. Begins /\ todo' = 0 /\ cur' = (cur + 1) % NUM_RENDER_BUFFERS
        /\ \/ composer' = "none" /\ phase' = "flushed"
           \/ composer' = "gpu" /\ phase' = "begun"
    BY <1>6 DEF PrepareRefused, NextBuffer
  <2> QED
    BY <1>3, <1>4, <2>1, BeginsKeeps
<1>7. CASE PrepareWithout
  <2>1. Begins /\ phase' \in {"flushed", "synced"} /\ todo' = 0 /\ cur' = cur
        /\ composer' = "none"
    BY <1>7 DEF PrepareWithout
  <2> QED
    BY <1>2, <1>4, <2>1, BeginsKeeps
<1>8. ASSUME NEW type \in Types, NEW clips \in 1 .. MaxClips, NEW temp \in BOOLEAN,
             DrawLayer(type, clips, temp)
      PROVE  IInv'
  BY <1>8, DrawLayerKeeps
<1>9. CASE Starts
  BY <1>5, <1>6, <1>7, <1>9 DEF Starts
<1>10. CASE GoesOn
  BY <1>8, <1>10, WaitReleaseKeeps, ClearKeeps, DrawLayerFailsKeeps, FlushKeeps,
     FlushFailsKeeps, SyncKeeps, CommitKeeps DEF GoesOn
<1>11. CASE WaitLapses
  BY <1>11, WaitReleaseKeeps
<1> QED
  BY <1>1, <1>9, <1>10, <1>11, ThreadKeeps, GpuDrawsKeeps, VsyncKeeps, CloseKeeps
     DEF Next, Frame

(* The inductive invariant: while nothing has spoilt it, the engine holds  *)
(* well-formed blits for one mapped buffer, that of the frame in the       *)
(* making; every layer accepted is queued or drawn; a release fence        *)
(* outlasts the frames it stands for; and what the GPU still draws has     *)
(* been flushed for this frame or is on the screen.                        *)
THEOREM InductiveInvariant == Spec => []IInv
<1>1. Init => IInv
  BY CopybitAssumption, InitHolds
<1>2. IInv /\ [Next]_vars => IInv'
  BY CopybitAssumption, NextKeeps
<1> QED
  BY <1>1, <1>2, PTL DEF Spec

(* What hwc_sync hands on and FBUpdate then draws has every layer that     *)
(* drawLayerUsingCopybit reported as drawn, and no draw of the engine      *)
(* mixes the buffers of two frames.                                        *)
THEOREM LayersReachTheirBuffer == Spec => []FrameReachesItsBuffer
<1>1. IInv => FrameReachesItsBuffer
  <2> SUFFICES ASSUME IInv, ~spoilt
               PROVE  /\ phase \in {"flushed", "synced"} => stretched \subseteq drawn
                      /\ \A d \in Submitted : \A b \in d.blits : b.buf = d.target
    BY DEF FrameReachesItsBuffer
  <2>1. phase \in {"flushed", "synced"} => stretched \subseteq drawn
    BY DEF IInv, LayersInv
  <2>2. \A d \in Submitted : \A b \in d.blits : b.buf = d.target
    BY DEF IInv, DrawsInv, GoodDraw, WellFormed
  <2> QED
    BY <2>1, <2>2
<1> QED
  BY <1>1, InductiveInvariant, PTL

(* The memory and the surface templates of a draw are its own until the    *)
(* GPU is done with it: neither finish nor the wait thread frees them      *)
(* sooner, and stretch hands out none a second time.                       *)
THEOREM DrawsFromMapped == Spec => []DrawsFromMappedMemory
<1>1. IInv => DrawsFromMappedMemory
  BY DEF IInv, DrawsInv, GoodDraw, WellFormed, DrawsFromMappedMemory
<1> QED
  BY <1>1, InductiveInvariant, PTL

(* The fences of hwc_sync keep the GPU and the display apart, however the  *)
(* frames, the wait thread and the vsyncs interleave, also when prepare    *)
(* advances the buffer for a frame that then is not drawn, when a frame    *)
(* without copybit replaces the fence of the last buffer, and when every   *)
(* layer of a frame fails and its buffer is shown all the same.            *)
THEOREM NoScanoutRace == Spec => []ScanoutNeverRaces
<1>1. IInv => ScanoutNeverRaces
  BY DEF IInv
<1> QED
  BY <1>1, InductiveInvariant, PTL
=============================================================================
