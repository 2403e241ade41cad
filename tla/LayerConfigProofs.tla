-------------------------- MODULE LayerConfigProofs --------------------------
(***************************************************************************)
(* Proofs about LayerConfig: its inductive invariant, that what an         *)
(* external display announces is the mode it is in, that every session in  *)
(* a map is one layer's and does what the layer wants, and that the pipes  *)
(* show what the layers ask for.  The last needs that a pipe is served     *)
(* (ShownIsServed, an invariant with IInv), and then geometry: how far a   *)
(* corner of what the pipe fills may be, read back through the flips, the  *)
(* evening, the shrinking, the turn, the halving and the trimming, from    *)
(* the point of the buffer that is asked for there.                        *)
(***************************************************************************)
EXTENDS LayerConfig, TLAPS

LOCAL INSTANCE SequencesExt

-----------------------------------------------------------------------------
(* Sizes.                                                                  *)

(* Rounding up gives a natural number.                                     *)
LEMMA AlignNat == ASSUME NEW x \in Nat, NEW a \in Nat \ {0} PROVE Align(x, a) \in Nat
BY DEF Align

(* What setAttributes announces are natural numbers.                       *)
LEMMA AttrNat ==
  ASSUME NEW mode, NEW w \in Nat, NEW h \in Nat
  PROVE  /\ getAttrForMode(mode).w \in Nat /\ getAttrForMode(mode).h \in Nat
         /\ getAttrForMode(mode).fps \in Nat
         /\ setAttributes(mode, w, h).xres \in Nat /\ setAttributes(mode, w, h).yres \in Nat
<1>1. /\ getAttrForMode(mode).w \in Nat /\ getAttrForMode(mode).h \in Nat
      /\ getAttrForMode(mode).fps \in Nat
  BY SMT DEF getAttrForMode, Size
<1> QED
  BY <1>1 DEF setAttributes, Greatest, Least

(* NoMode is not one of the modes getAttrForMode knows.                    *)
LEMMA NoModeUnknown == ~Known(NoMode)
BY SMT DEF Known, NoMode, getAttrForMode, Size

(* The display that is lent the size of the primary has it laid flat.      *)
LEMMA Lent ==
  ASSUME NEW mode, NEW w \in Nat, NEW h \in Nat, setAttributes(mode, w, h).downscale
  PROVE  LET attr == setAttributes(mode, w, h)  t == getAttrForMode(mode) IN
         /\ {attr.xres, attr.yres} = {w, h} /\ attr.xres >= attr.yres
         /\ attr.xres * attr.yres > t.w * t.h
<1> DEFINE t == getAttrForMode(mode)
<1>0. t.w \in Nat /\ t.h \in Nat
  BY AttrNat
<1>1. /\ w * h > t.w * t.h
      /\ setAttributes(mode, w, h).xres = Greatest(w, h)
      /\ setAttributes(mode, w, h).yres = Least(w, h)
  BY DEF setAttributes
<1>2. Greatest(w, h) * Least(w, h) = w * h
  BY DEF Greatest, Least
<1>3. {Greatest(w, h), Least(w, h)} = {w, h} /\ Greatest(w, h) >= Least(w, h)
  BY DEF Greatest, Least
<1> QED
  BY <1>1, <1>2, <1>3

(* The display that is not lent it has the size of its mode.               *)
LEMMA NotLent ==
  ASSUME NEW mode, NEW w \in Nat, NEW h \in Nat, ~setAttributes(mode, w, h).downscale
  PROVE  LET attr == setAttributes(mode, w, h)  t == getAttrForMode(mode) IN
         attr.xres = t.w /\ attr.yres = t.h
BY DEF setAttributes

(* The rotator of a session shrinks three times at most.                   *)
LEMMA DownscaleRange ==
  ASSUME NEW d, NEW L, NEW p
  PROVE  LayerDownscale(d, L, p) \in 0 .. 3
BY SMT DEF LayerDownscale, getDownscaleFactor

-----------------------------------------------------------------------------
(* The mode of the external display.                                       *)

(* What the displays say of themselves: the part of the type invariant and *)
(* the mode that change when displays come and go.                         *)
DisplaysInv ==
  /\ panel \in Panels /\ mFd \in BOOLEAN /\ dpyAttr.xres \in Nat /\ dpyAttr.yres \in Nat
  /\ ModeInv

(* The primary has a size.                                                 *)
LEMMA PanelNat == ASSUME panel \in Panels PROVE panel.w \in Nat /\ panel.h \in Nat
BY LayerConfigAssumption

(* Nothing but the uevent thread changes what the displays say.            *)
LEMMA DisplaysUnchanged ==
  ASSUME DisplaysInv, UNCHANGED dpyVars
  PROVE  DisplaysInv'
BY DEF DisplaysInv, ModeInv, dpyVars, extVars

(* Plugging a display in sets the mode, unless it is not in the list; the  *)
(* display then has none.                                                  *)
LEMMA PlugInMode ==
  ASSUME DisplaysInv, ~mFd, NEW edid, NEW user, NEW underscan \in BOOLEAN,
         NEW accepted \in BOOLEAN, configure(edid, user, underscan, accepted)
  PROVE  DisplaysInv'
<1>1. panel' = panel /\ mFd' = TRUE
      /\ dpyAttr' = setAttributes(mCurrentMode', panel.w, panel.h)
  BY DEF configure
<1>2. PICK mode : setResolution(mEDIDModes', mode, accepted)
  BY DEF configure
<1>3. mCurrentMode = NoMode /\ timing = NoMode /\ refused = FALSE
  BY DEF DisplaysInv, ModeInv
<1>4. ~refused' => timing' = mCurrentMode'
  BY <1>2, <1>3 DEF setResolution
<1>5. panel.w \in Nat /\ panel.h \in Nat
  BY PanelNat DEF DisplaysInv
<1>6. dpyAttr'.xres \in Nat /\ dpyAttr'.yres \in Nat
  BY <1>1, <1>5, AttrNat
<1> QED
  BY <1>1, <1>4, <1>6 DEF DisplaysInv, ModeInv

(* Unplugging it forgets the mode and the timing.                          *)
LEMMA PlugOutMode ==
  ASSUME DisplaysInv, teardown
  PROVE  DisplaysInv'
BY DEF DisplaysInv, ModeInv, teardown, resetInfo

(* A WFD session announces its own size; no display is open then.          *)
LEMMA WfdOnlineMode ==
  ASSUME DisplaysInv, ~mFd, NEW info \in WfdSizes, configureVirtual(info)
  PROVE  DisplaysInv'
<1>1. panel.w \in Nat /\ panel.h \in Nat /\ info.w \in Nat /\ info.h \in Nat
  BY PanelNat, WfdAssumption DEF DisplaysInv
<1>2. dpyAttr'.xres \in Nat /\ dpyAttr'.yres \in Nat
  BY <1>1 DEF configureVirtual, setVirtualAttributes, Greatest, Least
<1> QED
  BY <1>2 DEF DisplaysInv, ModeInv, configureVirtual

-----------------------------------------------------------------------------
(* Sessions.                                                               *)

(* A list of entries of a map, whatever they are.                          *)
LEMMA AppendEntries ==
  ASSUME NEW S, NEW s \in Seq(S), NEW e
  PROVE  /\ Append(s, e) \in Seq({Append(s, e)[k] : k \in DOMAIN Append(s, e)})
         /\ Len(Append(s, e)) = Len(s) + 1 /\ Len(s) \in Nat
         /\ DOMAIN Append(s, e) = 1 .. Len(s) + 1 /\ DOMAIN s = 1 .. Len(s)
         /\ \A k \in 1 .. Len(s) : Append(s, e)[k] = s[k]
         /\ Append(s, e)[Len(s) + 1] = e
<1>1. s \in Seq(S \cup {e}) /\ e \in S \cup {e}
  OBVIOUS
<1> DEFINE t == Append(s, e)
<1>2. /\ t \in Seq(S \cup {e}) /\ Len(t) = Len(s) + 1 /\ Len(s) \in Nat
      /\ DOMAIN t = 1 .. Len(s) + 1 /\ DOMAIN s = 1 .. Len(s)
      /\ \A k \in 1 .. Len(s) : t[k] = s[k]
      /\ t[Len(s) + 1] = e
  BY <1>1
<1>3. t \in Seq({t[k] : k \in DOMAIN t})
  <2> HIDE DEF t
  <2> QED
    BY <1>2
<1> QED
  BY <1>2, <1>3

(* What commit() leaves of a session.                                      *)
LEMMA CommitFacts ==
  ASSUME NEW rot, DOMAIN rot = DOMAIN Fresh, NEW conf, NEW ok \in BOOLEAN
  PROVE  LET new == CommitRotator(rot, conf, ok) IN
         /\ DOMAIN new = DOMAIN Fresh /\ new.alive = rot.alive /\ new.size = rot.size
         /\ new.conf = conf /\ (ok => new.kern = conf)
BY DEF CommitRotator, Fresh

(* The session getNext answers with is there, of the right shape.          *)
LEMMA NextFacts ==
  ASSUME SessionsHaveShape, mUseCount \in 0 .. MAX_ROT_SESS - 1, TypeOK
  PROVE  /\ mUseCount + 1 \in Slots
         /\ DOMAIN getNext = DOMAIN Fresh /\ getNext.alive /\ getNext.size \in Nat
<1>1. mUseCount + 1 \in Slots
  BY DEF Slots, MAX_ROT_SESS
<1> QED
  BY <1>1 DEF SessionsHaveShape, getNext, Fresh, TypeOK

(* What a session is told serves the layer.                                *)
LEMMA ToldWhatIsWanted ==
  ASSUME panel \in Panels, NEW d, NEW L, NEW p
  PROVE  LET conf == LayerConf(d, L, p)  want == WantOf(d, L, p) IN
         /\ [conf EXCEPT !.flags = {}] = [want EXCEPT !.flags = {}]
         /\ want.flags \subseteq conf.flags
<1> DEFINE ds == LayerDownscale(d, L, p)
           fmt == getMdpFormat(L.format)  whf == PadTiled(L.format, L.w, L.h)
           flags == setMdpFlags(L, ds, p.transform)  or == getMdpOrient(p.transform)
           want == [w |-> whf.w, h |-> whf.h, format |-> fmt, orient |-> or, ds |-> ds,
                    flags |-> flags \cap {"SECURE"}]
<1>1. WantOf(d, L, p) = want
  BY DEF WantOf, MdpConf
<1>2. CASE panel.version = "MDSS"
  <2>1. ds = 0
    BY <1>2 DEF LayerDownscale
  <2> DEFINE conf == [w |-> whf.w, h |-> whf.h, format |-> fmt, orient |-> or, ds |-> 0,
                      flags |-> getNext.conf.flags \cup (flags \ Flips)]
  <2>2. LayerConf(d, L, p) = conf
    BY <1>2 DEF LayerConf, RotConf, MdssConf
  <2> HIDE DEF ds, fmt, whf, flags, or
  <2>3. want.flags \subseteq conf.flags
    BY DEF Flips
  <2>4. [conf EXCEPT !.flags = {}] = [want EXCEPT !.flags = {}]
    BY <2>1
  <2> QED
    BY <1>1, <2>2, <2>3, <2>4
<1>3. CASE panel.version # "MDSS"
  BY <1>1, <1>3 DEF LayerConf, RotConf, MdpConf
<1> QED
  BY <1>2, <1>3

(* Its numbers are in range.                                               *)
LEMMA ConfTypes ==
  ASSUME panel \in Panels, NEW d, NEW L, L.w \in Nat, L.h \in Nat, NEW p
  PROVE  LET conf == LayerConf(d, L, p) IN
         conf.w \in Nat /\ conf.h \in Nat /\ conf.ds \in 0 .. 3
<1> DEFINE whf == PadTiled(L.format, L.w, L.h)
<1>1. whf.w \in Nat /\ whf.h \in Nat
  BY AlignNat DEF PadTiled
<1>2. LayerDownscale(d, L, p) \in 0 .. 3
  BY DownscaleRange
<1>3. CASE panel.version = "MDSS"
  BY <1>1, <1>3 DEF LayerConf, RotConf, MdssConf
<1>4. CASE panel.version # "MDSS"
  BY <1>1, <1>2, <1>4 DEF LayerConf, RotConf, MdpConf
<1> QED
  BY <1>3, <1>4

(* The bytes of a buffer are a natural number, whatever the format.        *)
LEMMA RoundNat == ASSUME NEW x \in Nat, NEW a \in Nat \ {0} PROVE Formats!ALIGN(x, a) \in Nat
BY DEF Formats!ALIGN

LEMMA StrideNat == ASSUME NEW f, NEW w \in Nat PROVE Formats!getStride(f, w) \in Nat
BY RoundNat DEF Formats!getStride

LEMMA RoundProduct ==
  ASSUME NEW x \in Nat, NEW y \in Nat
  PROVE  /\ x * y \in Nat /\ Formats!ALIGN(x * y, 2048) \in Nat
         /\ Formats!ALIGN(x * y, 4096) \in Nat /\ Formats!ALIGN(x * y, 8192) \in Nat
<1>1. x * y \in Nat
  OBVIOUS
<1> QED
  BY <1>1, RoundNat

LEMMA BytesNat ==
  ASSUME NEW f, NEW w \in Nat, NEW h \in Nat
  PROVE  Formats!getBufferSizeAndDimensions(f, w, h).size \in Nat
<1> DEFINE aw == Formats!getStride(f, w)  R(x, a) == Formats!ALIGN(x, a)
           ah == R(h, 32)  zh == R(h, 64)
           s1 == aw * ah * 4  s2 == aw * ah * 3  s3 == aw * ah * 2
           s4 == R(aw * ah, 4096) + R(2 * R(w \div 2, 32) * R(h \div 2, 32), 4096)
           s5 == R(aw * ah, 8192) + R(aw * R(h \div 2, 32), 8192)
           s6 == R(R(w, 128) * R(h, 32), 8192) + R(R(w, 128) * R(h \div 2, 32), 8192)
           s7 == R(R(aw * h, 2048) + R(aw \div 2, 16) * (h \div 2) * 2, 4096)
           s8 == R(aw * h + R(aw \div 2, 16) * (h \div 2) * 2, 4096)
           s9 == R(aw * h + (aw * h) \div 2 + 1, 4096)
           s10 == R(aw * h * 2, 4096)
           s11 == R(aw * zh + (aw * zh) \div 2, 4096)
<1>1. Formats!getBufferSizeAndDimensions(f, w, h).size
        \in {s1, s2, s3, s4, s5, s6, s7, s8, s9, s10, s11, w, 0}
  BY DEF Formats!getBufferSizeAndDimensions, Formats!Sized, Formats!Refused, Formats!PAGE,
         Formats!YUV420SP, Formats!YUV422SP
<1>2. /\ aw \in Nat /\ ah \in Nat /\ zh \in Nat /\ aw \div 2 \in Nat
      /\ w \div 2 \in Nat /\ h \div 2 \in Nat
  BY RoundNat, StrideNat
<1>3. \A x, y \in Nat : x * y \in Nat /\ x + y \in Nat /\ x \div 2 \in Nat
  OBVIOUS
<1>4. \A x \in Nat : /\ R(x, 16) \in Nat /\ R(x, 32) \in Nat /\ R(x, 128) \in Nat
                     /\ R(x, 2048) \in Nat /\ R(x, 4096) \in Nat /\ R(x, 8192) \in Nat
  BY RoundNat
<1> HIDE DEF aw
<1>5. s1 \in Nat /\ s2 \in Nat /\ s3 \in Nat
  BY <1>2, <1>3
<1>6. s4 \in Nat
  <2>1. R(aw * ah, 4096) \in Nat
    BY <1>2, RoundProduct
  <2>2. R(w \div 2, 32) \in Nat /\ R(h \div 2, 32) \in Nat
    BY SMTT(30), <1>2, <1>4
  <2>3. R(2 * R(w \div 2, 32) * R(h \div 2, 32), 4096) \in Nat
    <3>1. 2 * R(w \div 2, 32) \in Nat
      BY <2>2
    <3> QED
      BY <2>2, <3>1, RoundProduct
  <2> QED
    BY <2>1, <2>3
<1>7. s5 \in Nat /\ s6 \in Nat
  <2>1. /\ R(h \div 2, 32) \in Nat /\ R(w, 128) \in Nat /\ R(h, 32) \in Nat
    BY SMTT(30), <1>2, <1>4
  <2>2. R(aw * ah, 8192) \in Nat
    <3> HIDE DEF ah
    <3> QED
      BY <1>2, RoundProduct
  <2>5. R(aw * R(h \div 2, 32), 8192) \in Nat
    <3> DEFINE k == R(h \div 2, 32)
    <3>1. k \in Nat
      BY <2>1
    <3> HIDE DEF k
    <3>2. R(aw * k, 8192) \in Nat
      BY <1>2, <3>1, RoundProduct
    <3> QED
      BY <3>2 DEF k
  <2>3. R(R(w, 128) * R(h, 32), 8192) \in Nat
    BY <2>1, RoundProduct
  <2>4. R(R(w, 128) * R(h \div 2, 32), 8192) \in Nat
    BY <2>1, RoundProduct
  <2> QED
    BY <2>2, <2>3, <2>4, <2>5
<1>8. s7 \in Nat /\ s8 \in Nat
  <2> DEFINE c == R(aw \div 2, 16) * (h \div 2) * 2  y == aw * h
  <2>1. c \in Nat /\ y \in Nat
    <3>1. R(aw \div 2, 16) \in Nat
      BY SMTT(30), <1>2, <1>4
    <3>2. R(aw \div 2, 16) * (h \div 2) \in Nat /\ y \in Nat
      BY <1>2, <3>1, RoundProduct
    <3> QED
      BY <3>2
  <2> HIDE DEF c, y
  <2>2. R(R(y, 2048) + c, 4096) \in Nat
    <3>1. R(y, 2048) \in Nat
      BY <2>1, RoundNat
    <3>2. R(y, 2048) + c \in Nat
      BY <2>1, <3>1
    <3> QED
      BY <3>2, RoundNat
  <2>3. R(y + c, 4096) \in Nat
    <3>1. y + c \in Nat
      BY <2>1
    <3> QED
      BY <3>1, RoundNat
  <2> QED
    BY <2>2, <2>3 DEF c, y
<1>9. s9 \in Nat /\ s10 \in Nat /\ s11 \in Nat
  <2> DEFINE y == aw * h  z == aw * zh
  <2>1. y \in Nat /\ z \in Nat
    BY <1>2, <1>3
  <2> HIDE DEF y, z
  <2>2. R(y + y \div 2 + 1, 4096) \in Nat
    <3>1. y + y \div 2 + 1 \in Nat
      BY <2>1
    <3> QED
      BY <3>1, RoundNat
  <2>3. R(y * 2, 4096) \in Nat
    <3>1. y * 2 \in Nat
      BY <2>1
    <3> QED
      BY <3>1, RoundNat
  <2>4. R(z + z \div 2, 4096) \in Nat
    <3>1. z + z \div 2 \in Nat
      BY <2>1
    <3> QED
      BY <3>1, RoundNat
  <2> QED
    BY <2>2, <2>3, <2>4 DEF y, z
<1> QED
  <2> HIDE DEF s1, s2, s3, s4, s5, s6, s7, s8, s9, s10, s11
  <2> QED
    BY <1>1, <1>5, <1>6, <1>7, <1>8, <1>9

LEMMA OutputNat ==
  ASSUME NEW conf, conf.w \in Nat, conf.h \in Nat
  PROVE  OutputSize(conf) \in Nat
<1> DEFINE turned == "ROT_90" \in conf.orient
           whf == [w |-> IF turned THEN conf.h ELSE conf.w,
                   h |-> IF turned THEN conf.w ELSE conf.h, format |-> conf.format]
<1>1. calcOutputBufSize(whf) \in Nat
  BY BytesNat DEF calcOutputBufSize
<1> QED
  BY <1>1, AlignNat DEF OutputSize

-----------------------------------------------------------------------------
(* The invariant of the sessions.                                          *)

SessionTypes ==
  /\ phase \in {"idle", "prepare", "set", "aborted"} /\ dpy \in Displays
  /\ stage \in {"begun", "layers", "fell", "over"}
  /\ frame \in 0 .. Len(Layers) /\ (phase = "prepare" => frame > 0)
  /\ mUseCount \in 0 .. MAX_ROT_SESS
  /\ \A d \in Displays : \A k \in DOMAIN mLayerRotMap[d] : mLayerRotMap[d][k].rot \in Slots
  /\ \A s \in Slots : /\ mRot[s].size \in Nat /\ mRot[s].conf.ds \in 0 .. 3
                      /\ mRot[s].conf.w \in Nat /\ mRot[s].conf.h \in Nat
  /\ rotated \subseteq Slots /\ driverRefused \in BOOLEAN

SessionsInv ==
  /\ SessionTypes /\ ~deniedUnjustly
  /\ SessionsHaveShape /\ CountsMaps /\ SlotsInOrder /\ EntriesServed /\ RotatedHaveMemory

(* The parts together are the invariant.                                   *)
LEMMA Parts ==
  IInv <=> DisplaysInv /\ orientation \in Orientations /\ SessionsInv
BY DEF IInv, TypeOK, DisplaysInv, SessionsInv, SessionTypes

(* Maps are sequences, and what they hold is counted.                      *)
LEMMA MapFacts ==
  ASSUME SessionsInv
  PROVE  \A d \in Displays : /\ Len(mLayerRotMap[d]) \in Nat
                             /\ DOMAIN mLayerRotMap[d] = 1 .. Len(mLayerRotMap[d])
BY DEF SessionsInv, SessionsHaveShape

LEMMA RotsCounted ==
  ASSUME SessionsInv, phase \in {"prepare", "set"}, NEW d \in Displays,
         NEW i \in DOMAIN mLayerRotMap[d]
  PROVE  mLayerRotMap[d][i].rot \in 1 .. mUseCount
<1>1. /\ Len(mLayerRotMap[0]) \in Nat /\ DOMAIN mLayerRotMap[0] = 1 .. Len(mLayerRotMap[0])
      /\ mUseCount \in Nat /\ mLayerRotMap[d][i].rot \in 1 .. 3
  BY SMTT(30), MapFacts DEF SessionsInv, SessionTypes, Displays, Slots, MAX_ROT_SESS
<1>2. CASE d = 0
  BY <1>1, <1>2 DEF SessionsInv, SlotsInOrder
<1>3. CASE d = 1
  BY <1>1, <1>3 DEF SessionsInv, SlotsInOrder
<1> QED
  BY <1>2, <1>3 DEF Displays

(* No two layers share a session.                                          *)
LEMMA RotsDiffer ==
  ASSUME SessionsInv, phase \in {"prepare", "set"},
         NEW d \in Displays, NEW i \in DOMAIN mLayerRotMap[d],
         NEW e \in Displays, NEW j \in DOMAIN mLayerRotMap[e],
         mLayerRotMap[d][i].rot = mLayerRotMap[e][j].rot
  PROVE  <<d, i>> = <<e, j>>
<1>1. \A c \in Displays : /\ Len(mLayerRotMap[c]) \in Nat
                          /\ DOMAIN mLayerRotMap[c] = 1 .. Len(mLayerRotMap[c])
                          /\ \A k \in DOMAIN mLayerRotMap[c] : mLayerRotMap[c][k].rot \in Nat
  <2>1. \A c \in Displays : \A k \in DOMAIN mLayerRotMap[c] : mLayerRotMap[c][k].rot \in 1 .. 3
    BY DEF SessionsInv, SessionTypes, Slots, MAX_ROT_SESS
  <2>2. \A c \in Displays : \A k \in DOMAIN mLayerRotMap[c] : mLayerRotMap[c][k].rot \in Nat
    BY <2>1
  <2> QED
    BY <2>2, MapFacts
<1>2. mUseCount \in Nat
  BY DEF SessionsInv, SessionTypes
<1>3. CASE d = 0 /\ e = 0
  BY <1>1, <1>2, <1>3 DEF SessionsInv, SlotsInOrder, Displays
<1>4. CASE d = 1 /\ e = 1
  BY <1>1, <1>2, <1>4 DEF SessionsInv, SlotsInOrder, Displays
<1>5. CASE d # e
  BY <1>1, <1>2, <1>5 DEF SessionsInv, SlotsInOrder, Displays
<1> QED
  BY <1>3, <1>4, <1>5 DEF Displays

(* A layer gets a session: the next one, told what the layer wants.        *)
LEMMA TakePreserves ==
  ASSUME panel \in Panels, SessionsInv, phase = "prepare",
         UNCHANGED <<panel, phase, dpy, frame, driverRefused, deniedUnjustly, rotated>>,
         stage' \in {"begun", "layers", "fell", "over"},
         NEW L, L.w \in Nat, L.h \in Nat, NEW p,
         TakeSession(dpy, WantOf(dpy, L, p), LayerConf(dpy, L, p))
  PROVE  SessionsInv'
<1> DEFINE conf == LayerConf(dpy, L, p)  want == WantOf(dpy, L, p)
           new == CommitRotator(getNext, conf, TRUE)
           n == mUseCount + 1  old == mLayerRotMap[dpy]
           e == [rot |-> n, want |-> want]
<1>1. /\ mUseCount \in 0 .. 2 /\ mUseCount' = n /\ n \in Slots
      /\ mRot' = [mRot EXCEPT ![n] = new]
      /\ mLayerRotMap' = [mLayerRotMap EXCEPT ![dpy] = Append(old, e)]
  BY DEF TakeSession, SessionsInv, SessionTypes, Slots, MAX_ROT_SESS
<1>2. dpy \in Displays /\ SessionTypes /\ SessionsHaveShape
  BY DEF SessionsInv, SessionTypes
<1>3. DOMAIN getNext = DOMAIN Fresh /\ getNext.alive /\ getNext.size \in Nat
  BY <1>1, <1>2 DEF SessionsHaveShape, getNext, Fresh, SessionTypes
<1>4. /\ DOMAIN new = DOMAIN Fresh /\ new.alive /\ new.size \in Nat
      /\ new.conf = conf /\ new.kern = conf
  BY ZenonT(40), <1>3, CommitFacts
<1>5. conf.w \in Nat /\ conf.h \in Nat /\ conf.ds \in 0 .. 3
  BY ConfTypes
<1>6. Serves(new, want)
  <2>1. /\ [conf EXCEPT !.flags = {}] = [want EXCEPT !.flags = {}]
        /\ want.flags \subseteq conf.flags
    BY ToldWhatIsWanted
  <2> HIDE DEF conf, want, new
  <2> QED
    BY <1>4, <2>1 DEF Serves
<1> HIDE DEF conf, want, new
<1>7. /\ DOMAIN mRot' = Slots /\ mRot'[n] = new
      /\ \A s \in Slots : s # n => mRot'[s] = mRot[s]
  BY <1>1, <1>2 DEF SessionsHaveShape
<1>8. old \in Seq(EntriesOf(dpy))
  BY <1>2 DEF SessionsHaveShape
<1>9. /\ Append(old, e) \in Seq({Append(old, e)[k] : k \in DOMAIN Append(old, e)})
      /\ Len(Append(old, e)) = Len(old) + 1 /\ Len(old) \in Nat
      /\ DOMAIN Append(old, e) = 1 .. Len(old) + 1 /\ DOMAIN old = 1 .. Len(old)
      /\ \A k \in 1 .. Len(old) : Append(old, e)[k] = old[k]
      /\ Append(old, e)[Len(old) + 1] = e
  BY <1>8, AppendEntries
<1>10. /\ DOMAIN mLayerRotMap' = Displays /\ mLayerRotMap'[dpy] = Append(old, e)
       /\ \A d \in Displays : d # dpy => mLayerRotMap'[d] = mLayerRotMap[d]
  BY <1>1, <1>2 DEF SessionsHaveShape
<1>11. SessionsHaveShape'
  <2>1. \A d \in Displays : mLayerRotMap'[d] \in Seq(EntriesOf(d)')
    <3> SUFFICES ASSUME NEW d \in Displays PROVE mLayerRotMap'[d] \in Seq(EntriesOf(d)')
      OBVIOUS
    <3>1. CASE d = dpy
      BY SMTT(30), <3>1, <1>9, <1>10 DEF EntriesOf
    <3>2. CASE d # dpy
      BY <3>2, <1>2, <1>10 DEF EntriesOf, SessionsHaveShape
    <3> QED
      BY <3>1, <3>2
  <2>2. \A s \in Slots : DOMAIN mRot'[s] = DOMAIN Fresh
    BY <1>2, <1>4, <1>7 DEF SessionsHaveShape
  <2> QED
    BY <1>7, <1>10, <2>1, <2>2 DEF SessionsHaveShape, Fresh
<1>12. \A d \in Displays : \A k \in DOMAIN mLayerRotMap'[d] :
         \/ d = dpy /\ k = Len(old) + 1 /\ mLayerRotMap'[d][k] = e
         \/ /\ k \in DOMAIN mLayerRotMap[d] /\ mLayerRotMap'[d][k] = mLayerRotMap[d][k]
            /\ d = dpy => k <= Len(old)
  <2> SUFFICES ASSUME NEW d \in Displays, NEW k \in DOMAIN mLayerRotMap'[d]
               PROVE  \/ d = dpy /\ k = Len(old) + 1 /\ mLayerRotMap'[d][k] = e
                      \/ /\ k \in DOMAIN mLayerRotMap[d]
                         /\ mLayerRotMap'[d][k] = mLayerRotMap[d][k]
                         /\ d = dpy => k <= Len(old)
    OBVIOUS
  <2> HIDE DEF e
  <2>1. CASE d = dpy
    BY <2>1, <1>9, <1>10
  <2>2. CASE d # dpy
    BY <2>2, <1>10
  <2> QED
    BY <2>1, <2>2
<1>13. SessionTypes'
  <2>1. \A d \in Displays : \A k \in DOMAIN mLayerRotMap'[d] : mLayerRotMap'[d][k].rot \in Slots
    BY <1>1, <1>2, <1>12 DEF SessionTypes
  <2>2. \A s \in Slots : /\ mRot'[s].size \in Nat /\ mRot'[s].conf.ds \in 0 .. 3
                         /\ mRot'[s].conf.w \in Nat /\ mRot'[s].conf.h \in Nat
    BY <1>2, <1>4, <1>5, <1>7 DEF SessionTypes
  <2>3. mUseCount' \in 0 .. MAX_ROT_SESS
    BY <1>1 DEF MAX_ROT_SESS
  <2>4. frame' = frame /\ phase' = phase /\ dpy' = dpy
        /\ rotated' = rotated /\ driverRefused' = driverRefused
    OBVIOUS
  <2> QED
    BY <1>2, <2>1, <2>2, <2>3, <2>4 DEF SessionTypes
<1>14. /\ Len(mLayerRotMap[0]) \in Nat /\ DOMAIN mLayerRotMap[0] = 1 .. Len(mLayerRotMap[0])
       /\ Len(mLayerRotMap[1]) \in Nat /\ DOMAIN mLayerRotMap[1] = 1 .. Len(mLayerRotMap[1])
  BY MapFacts DEF Displays
<1>15. CountsMaps'
  <2>1. CASE dpy = 0
    BY <2>1, <1>1, <1>9, <1>10, <1>14 DEF SessionsInv, CountsMaps, InMaps, Displays
  <2>2. CASE dpy = 1
    BY <2>2, <1>1, <1>9, <1>10, <1>14 DEF SessionsInv, CountsMaps, InMaps, Displays
  <2> QED
    BY <1>2, <2>1, <2>2 DEF Displays
<1>16. SlotsInOrder'
  <2>1. \A d \in Displays : \A i \in DOMAIN mLayerRotMap[d] :
          mLayerRotMap[d][i].rot \in 1 .. mUseCount
    BY RotsCounted
  <2>2. SlotsInOrder
    BY DEF SessionsInv
  <2>3. CASE dpy = 0
    <3>1. /\ mLayerRotMap'[1] = mLayerRotMap[1]
          /\ mUseCount' - Len(mLayerRotMap'[0]) = mUseCount - Len(mLayerRotMap[0])
      BY <2>3, <1>1, <1>9, <1>10 DEF Displays
    <3>2. \A i \in DOMAIN mLayerRotMap'[0] :
            mLayerRotMap'[0][i].rot = mUseCount - Len(mLayerRotMap[0]) + i
      <4> SUFFICES ASSUME NEW i \in DOMAIN mLayerRotMap'[0]
                   PROVE  mLayerRotMap'[0][i].rot = mUseCount - Len(mLayerRotMap[0]) + i
        OBVIOUS
      <4>1. CASE i = Len(old) + 1 /\ mLayerRotMap'[0][i] = e
        BY <2>3, <4>1, <1>1, <1>14
      <4>2. CASE i \in DOMAIN mLayerRotMap[0] /\ mLayerRotMap'[0][i] = mLayerRotMap[0][i]
        BY <2>2, <4>2 DEF SlotsInOrder
      <4> QED
        BY <2>3, <4>1, <4>2, <1>12 DEF Displays
    <3> QED
      BY <2>2, <3>1, <3>2 DEF SlotsInOrder
  <2>4. CASE dpy = 1
    <3>1. mLayerRotMap'[0] = <<>> /\ Len(mLayerRotMap'[0]) = 0 /\ DOMAIN mLayerRotMap'[0] = {}
      BY <2>4, <1>10, <1>14 DEF SessionsInv, CountsMaps, Displays
    <3> QED
      BY <2>1, <2>2, <2>4, <3>1, <1>1, <1>9, <1>10, <1>12, <1>14 DEF SlotsInOrder, Displays
  <2> QED
    BY <1>2, <2>3, <2>4 DEF Displays
<1>17. EntriesServed'
  <2> SUFFICES ASSUME NEW d \in Displays, NEW i \in DOMAIN mLayerRotMap'[d]
               PROVE  Serves(mRot'[mLayerRotMap'[d][i].rot], mLayerRotMap'[d][i].want)
    BY DEF EntriesServed
  <2>1. CASE d = dpy /\ mLayerRotMap'[d][i] = e
    BY <2>1, <1>6, <1>7
  <2>2. CASE i \in DOMAIN mLayerRotMap[d] /\ mLayerRotMap'[d][i] = mLayerRotMap[d][i]
    <3>1. mLayerRotMap[d][i].rot \in 1 .. mUseCount /\ mLayerRotMap[d][i].rot \in Slots
      BY <2>2, <1>2, RotsCounted DEF SessionTypes
    <3>2. mRot'[mLayerRotMap[d][i].rot] = mRot[mLayerRotMap[d][i].rot]
      BY <3>1, <1>1, <1>7
    <3>3. Serves(mRot[mLayerRotMap[d][i].rot], mLayerRotMap[d][i].want)
      BY <2>2 DEF SessionsInv, EntriesServed
    <3> QED
      BY <2>2, <3>2, <3>3
  <2> QED
    BY <1>12, <2>1, <2>2
<1>18. RotatedHaveMemory'
  BY DEF SessionsInv, RotatedHaveMemory
<1> QED
  BY <1>11, <1>13, <1>15, <1>16, <1>17, <1>18 DEF SessionsInv

(* A display falls back: its map is cleared, its sessions are given back.  *)
LEMMA FallBackPreserves ==
  ASSUME SessionsInv, phase = "prepare",
         UNCHANGED <<panel, phase, dpy, frame, rotated>>, ~deniedUnjustly',
         stage' \in {"begun", "layers", "fell", "over"},
         NEW count \in 0 .. MAX_ROT_SESS,
         count = mUseCount \/ (count = mUseCount + 1 /\ driverRefused'),
         driverRefused' \in BOOLEAN, driverRefused => driverRefused',
         mLayerRotMap' = ClearedMap(dpy), mUseCount' = CountWithout(dpy, count),
         DOMAIN mRot' = Slots, \A s \in Slots : DOMAIN mRot'[s] = DOMAIN Fresh,
         \A s \in Slots : /\ mRot'[s].size \in Nat /\ mRot'[s].conf.ds \in 0 .. 3
                          /\ mRot'[s].conf.w \in Nat /\ mRot'[s].conf.h \in Nat,
         \A s \in Slots : s <= mUseCount => mRot'[s] = mRot[s]
  PROVE  SessionsInv'
<1>1. /\ dpy \in Displays /\ mUseCount \in 0 .. 3 /\ count \in 0 .. 3
      /\ SessionTypes /\ SessionsHaveShape
  BY DEF SessionsInv, SessionTypes, MAX_ROT_SESS
<1>2. /\ Len(mLayerRotMap[0]) \in Nat /\ DOMAIN mLayerRotMap[0] = 1 .. Len(mLayerRotMap[0])
      /\ Len(mLayerRotMap[1]) \in Nat /\ DOMAIN mLayerRotMap[1] = 1 .. Len(mLayerRotMap[1])
  BY MapFacts DEF Displays
<1>3. /\ DOMAIN mLayerRotMap' = Displays /\ mLayerRotMap'[dpy] = <<>>
      /\ Len(mLayerRotMap'[dpy]) = 0 /\ DOMAIN mLayerRotMap'[dpy] = {}
      /\ \A d \in Displays : d # dpy => mLayerRotMap'[d] = mLayerRotMap[d]
  BY <1>1 DEF ClearedMap, SessionsHaveShape
<1>4. mUseCount' = count - Len(mLayerRotMap[dpy])
  BY DEF CountWithout
<1>5. /\ Len(mLayerRotMap[0]) + Len(mLayerRotMap[1]) <= mUseCount
      /\ ~driverRefused => Len(mLayerRotMap[0]) + Len(mLayerRotMap[1]) = mUseCount
      /\ dpy = 1 => mLayerRotMap[0] = <<>>
  BY DEF SessionsInv, CountsMaps, InMaps
<1> DEFINE a == Len(mLayerRotMap[0])  b == Len(mLayerRotMap[1])
<1>a. /\ a \in Nat /\ b \in Nat /\ a + b <= mUseCount /\ mUseCount <= count
      /\ mUseCount \in 0 .. 3 /\ count \in 0 .. 3
  <2>1. mUseCount <= count
    BY <1>1
  <2>2. a + b <= mUseCount
    BY <1>5
  <2> QED
    BY <1>1, <1>2, <2>1, <2>2
<1>b. dpy = 0 => mUseCount' = count - a
  BY <1>4
<1>c. dpy = 1 => mUseCount' = count - b /\ a = 0
  BY <1>4, <1>5
<1>d. ~driverRefused' => a + b = count
  BY <1>5
<1> HIDE DEF a, b
<1>6. mUseCount' \in 0 .. 3
  <2>1. CASE dpy = 0
    BY <2>1, <1>a, <1>b
  <2>2. CASE dpy = 1
    BY <2>2, <1>a, <1>c
  <2> QED
    BY <1>1, <2>1, <2>2 DEF Displays
<1>7. SessionTypes'
  <2>1. \A d \in Displays : \A k \in DOMAIN mLayerRotMap'[d] : mLayerRotMap'[d][k].rot \in Slots
    BY <1>1, <1>3 DEF SessionTypes
  <2> QED
    BY <1>1, <1>6, <2>1 DEF SessionTypes, MAX_ROT_SESS
<1>8. SessionsHaveShape'
  <2>1. \A d \in Displays : mLayerRotMap'[d] \in Seq(EntriesOf(d)')
    <3> SUFFICES ASSUME NEW d \in Displays PROVE mLayerRotMap'[d] \in Seq(EntriesOf(d)')
      OBVIOUS
    <3>1. CASE d = dpy
      BY <3>1, <1>3
    <3>2. CASE d # dpy
      BY <3>2, <1>1, <1>3 DEF EntriesOf, SessionsHaveShape
    <3> QED
      BY <3>1, <3>2
  <2> QED
    BY <1>3, <2>1 DEF SessionsHaveShape, Fresh
<1>9. CountsMaps'
  <2>1. CASE dpy = 0
    <3>1. Len(mLayerRotMap'[0]) = 0 /\ Len(mLayerRotMap'[1]) = b
      BY <2>1, <1>3 DEF Displays, b
    <3>2. b <= mUseCount'
      BY <2>1, <1>a, <1>b
    <3>3. ~driverRefused' => b = mUseCount'
      BY <2>1, <1>a, <1>b, <1>d
    <3>4. InMaps' = b
      BY <3>1, <1>a DEF InMaps
    <3> QED
      BY <2>1, <3>2, <3>3, <3>4 DEF CountsMaps
  <2>2. CASE dpy = 1
    <3>1. mLayerRotMap'[0] = <<>> /\ Len(mLayerRotMap'[0]) = 0 /\ Len(mLayerRotMap'[1]) = 0
      BY <2>2, <1>3, <1>5 DEF Displays
    <3>2. 0 <= mUseCount'
      BY <1>6
    <3>3. ~driverRefused' => mUseCount' = 0
      BY <2>2, <1>a, <1>c, <1>d
    <3>4. InMaps' = 0
      BY <3>1 DEF InMaps
    <3> QED
      BY <3>1, <3>2, <3>3, <3>4 DEF CountsMaps
  <2> QED
    BY <1>1, <2>1, <2>2 DEF Displays
<1>10. \A d \in Displays : \A i \in DOMAIN mLayerRotMap[d] :
         mLayerRotMap[d][i].rot \in 1 .. mUseCount /\ mLayerRotMap[d][i].rot \in Slots
  BY RotsCounted DEF SessionsInv, SessionTypes
<1>11. SlotsInOrder'
  <2>1. CASE dpy = 0
    <3>1. mLayerRotMap'[1] = mLayerRotMap[1] /\ DOMAIN mLayerRotMap'[0] = {}
      BY <2>1, <1>3 DEF Displays
    <3>2. mUseCount - Len(mLayerRotMap[0]) <= mUseCount' - Len(mLayerRotMap'[0])
      BY <2>1, <1>3, <1>a, <1>b DEF a
    <3>3. mUseCount' - Len(mLayerRotMap'[0]) \in Int
      BY <2>1, <1>3, <1>6
    <3>4. \A i \in DOMAIN mLayerRotMap[1] :
            /\ mLayerRotMap[1][i].rot <= mUseCount - Len(mLayerRotMap[0])
            /\ \A j \in DOMAIN mLayerRotMap[1] :
                 i < j => mLayerRotMap[1][i].rot < mLayerRotMap[1][j].rot
      BY DEF SessionsInv, SlotsInOrder
    <3>5. \A i \in DOMAIN mLayerRotMap[1] :
            mLayerRotMap[1][i].rot <= mUseCount' - Len(mLayerRotMap'[0])
      <4>1. \A i \in DOMAIN mLayerRotMap[1] : mLayerRotMap[1][i].rot \in Int
        BY <1>10 DEF Displays
      <4>2. mUseCount - Len(mLayerRotMap[0]) \in Int
        BY <1>1, <1>2
      <4> QED
        BY <3>2, <3>3, <3>4, <4>1, <4>2
    <3> QED
      BY <3>1, <3>4, <3>5 DEF SlotsInOrder
  <2>2. CASE dpy = 1
    BY <2>2, <1>2, <1>3, <1>5 DEF SlotsInOrder, Displays
  <2> QED
    BY <1>1, <2>1, <2>2 DEF Displays
<1>12. EntriesServed'
  <2> SUFFICES ASSUME NEW d \in Displays, NEW i \in DOMAIN mLayerRotMap'[d]
               PROVE  Serves(mRot'[mLayerRotMap'[d][i].rot], mLayerRotMap'[d][i].want)
    BY DEF EntriesServed
  <2>1. mLayerRotMap'[d] = mLayerRotMap[d]
    BY <1>3
  <2>2. mRot'[mLayerRotMap[d][i].rot] = mRot[mLayerRotMap[d][i].rot]
    BY <2>1, <1>1, <1>10
  <2>3. Serves(mRot[mLayerRotMap[d][i].rot], mLayerRotMap[d][i].want)
    BY <2>1 DEF SessionsInv, EntriesServed
  <2> QED
    BY <2>1, <2>2, <2>3
<1>13. RotatedHaveMemory'
  BY DEF SessionsInv, RotatedHaveMemory
<1> QED
  BY <1>7, <1>8, <1>9, <1>11, <1>12, <1>13 DEF SessionsInv

-----------------------------------------------------------------------------
(* The steps of a frame.                                                   *)

(* What leaves the sessions alone.                                         *)
LEMMA SessionsUnchanged ==
  ASSUME SessionsInv,
         UNCHANGED <<panel, frame, phase, dpy, sessVars, histVars, rotated>>,
         stage' \in {"begun", "layers", "fell", "over"}, phase = "set" => todo' = todo
  PROVE  SessionsInv'
<1>1. SessionTypes'
  BY DEF SessionsInv, SessionTypes, sessVars, histVars
<1>2. SessionsHaveShape'
  BY DEF SessionsInv, SessionsHaveShape, EntriesOf, sessVars, Fresh
<1>3. CountsMaps' /\ SlotsInOrder'
  BY DEF SessionsInv, CountsMaps, InMaps, SlotsInOrder, sessVars, histVars
<1>4. EntriesServed'
  BY DEF SessionsInv, EntriesServed, Serves, sessVars
<1>5. RotatedHaveMemory'
  <2>1. panel' = panel /\ mRot' = mRot /\ rotated' = rotated /\ phase' = phase
    BY DEF sessVars
  <2> QED
    BY <2>1 DEF SessionsInv, RotatedHaveMemory, OutputSize
<1>6. ~deniedUnjustly'
  BY DEF SessionsInv, histVars
<1> QED
  BY <1>1, <1>2, <1>3, <1>4, <1>5, <1>6 DEF SessionsInv

LEMMA BeginRound ==
  ASSUME IInv, ConfigBegin
  PROVE  SessionsInv'
<1>1. SessionsInv /\ rotated = {}
  BY Parts DEF ConfigBegin, SessionsInv, RotatedHaveMemory
<1>2. /\ phase' = "prepare" /\ dpy' = 1 /\ stage' = "begun" /\ frame' = frame + 1
      /\ frame < Len(Layers) /\ frame \in 0 .. Len(Layers)
      /\ mUseCount' = 0 /\ mLayerRotMap' = [d \in Displays |-> <<>>] /\ mRot' = mRot
      /\ driverRefused' = FALSE /\ deniedUnjustly' = FALSE /\ rotated' = {}
  BY <1>1 DEF ConfigBegin, Begin, SessionsInv, SessionTypes
<1>3. \A d \in Displays : mLayerRotMap'[d] = <<>> /\ Len(mLayerRotMap'[d]) = 0
                          /\ DOMAIN mLayerRotMap'[d] = {}
  BY <1>2
<1>4. SessionTypes'
  <2>1. frame' \in 0 .. Len(Layers) /\ frame' > 0
    BY <1>2, LayerConfigAssumption
  <2> QED
    BY <1>1, <1>2, <1>3, <2>1 DEF SessionsInv, SessionTypes, Displays, MAX_ROT_SESS
<1>5. SessionsHaveShape'
  BY <1>1, <1>2, <1>3 DEF SessionsInv, SessionsHaveShape, Fresh
<1>6. CountsMaps' /\ SlotsInOrder' /\ EntriesServed' /\ RotatedHaveMemory'
  BY <1>2, <1>3 DEF CountsMaps, InMaps, SlotsInOrder, EntriesServed, RotatedHaveMemory,
                    Displays
<1> QED
  BY <1>2, <1>4, <1>5, <1>6 DEF SessionsInv

LEMMA BeginPrimary ==
  ASSUME IInv, NextDisplay
  PROVE  SessionsInv'
<1>1. SessionsInv
  BY Parts
<1>2. /\ phase = "prepare" /\ phase' = "prepare" /\ dpy = 1 /\ dpy' = 0 /\ stage' = "begun"
      /\ UNCHANGED <<panel, frame, mRot, mUseCount, mLayerRotMap, driverRefused,
                     deniedUnjustly, rotated>>
  BY DEF NextDisplay, Begin, sessVars, histVars, dpyVars, extVars
<1>3. SessionTypes' /\ SessionsHaveShape'
  BY <1>1, <1>2 DEF SessionsInv, SessionTypes, SessionsHaveShape, EntriesOf, Displays, Fresh
<1>4. CountsMaps' /\ SlotsInOrder' /\ EntriesServed'
  BY <1>1, <1>2 DEF SessionsInv, CountsMaps, InMaps, SlotsInOrder, EntriesServed, Serves
<1>5. RotatedHaveMemory'
  BY <1>1, <1>2 DEF SessionsInv, RotatedHaveMemory
<1> QED
  BY <1>1, <1>2, <1>3, <1>4, <1>5 DEF SessionsInv

(* A layer of the frame has a size, and so has a framebuffer.              *)
LEMMA SizesOfLayers ==
  ASSUME IInv, NEW L \in LayersNow
  PROVE  phase = "prepare" /\ L.w \in Nat /\ L.h \in Nat
<1>1. phase = "prepare" /\ L \in Layers[frame]
  BY DEF LayersNow
<1>2. frame \in 1 .. Len(Layers)
  BY <1>1, LayerConfigAssumption DEF IInv, TypeOK
<1> QED
  BY <1>1, <1>2, LayerConfigAssumption

LEMMA SizesOfFb ==
  ASSUME IInv, NEW q
  PROVE  FbLayer(dpy, q).w \in Nat /\ FbLayer(dpy, q).h \in Nat
<1>1. Xres(dpy) \in Nat /\ Yres(dpy) \in Nat
  BY PanelNat DEF IInv, TypeOK, Xres, Yres
<1> QED
  BY <1>1, AlignNat DEF FbLayer

LEMMA VideoPreserves ==
  ASSUME IInv, NEW L \in LayersNow, NEW p, ConfigureVideo(L, p)
  PROVE  SessionsInv'
<1>1. /\ SessionsInv /\ panel \in Panels /\ phase = "prepare"
      /\ L.w \in Nat /\ L.h \in Nat
  BY Parts, SizesOfLayers DEF DisplaysInv
<1>2. /\ UNCHANGED <<panel, frame, phase, dpy, histVars, driverRefused, deniedUnjustly,
                     rotated>>
      /\ stage' = "layers"
  BY DEF ConfigureVideo, dpyVars, extVars, histVars
<1>3. CASE TakeSession(dpy, WantOf(dpy, L, p), LayerConf(dpy, L, p))
  BY <1>1, <1>2, <1>3, TakePreserves
<1>4. CASE UNCHANGED sessVars
  BY <1>1, <1>2, <1>4, SessionsUnchanged
<1> QED
  BY <1>3, <1>4 DEF ConfigureVideo

LEMMA FbPreserves ==
  ASSUME IInv, NEW q, ConfigureFb(FbLayer(dpy, q))
  PROVE  SessionsInv'
<1> DEFINE fb == FbLayer(dpy, q)  p == Place(dpy, fb)
<1> HIDE DEF fb, p
<1>0. ConfigureFbAt(fb, p)
  BY DEF ConfigureFb, fb, p
<1>1. /\ SessionsInv /\ panel \in Panels /\ phase = "prepare"
      /\ fb.w \in Nat /\ fb.h \in Nat
  BY <1>0, Parts, SizesOfFb DEF DisplaysInv, ConfigureFbAt, MayTryFb, fb
<1>2. /\ UNCHANGED <<panel, frame, phase, dpy, histVars, driverRefused, deniedUnjustly,
                     rotated>>
      /\ stage' \in {"layers", "over"}
  BY <1>0 DEF ConfigureFbAt, dpyVars, extVars, histVars
<1>3. CASE TakeSession(dpy, WantOf(dpy, fb, p), LayerConf(dpy, fb, p))
  BY <1>1, <1>2, <1>3, TakePreserves
<1>4. CASE UNCHANGED sessVars
  BY <1>1, <1>2, <1>4, SessionsUnchanged
<1> QED
  BY <1>0, <1>3, <1>4 DEF ConfigureFbAt

(* What getNext answers with has the numbers of a session.                 *)
LEMMA NextTypes ==
  ASSUME SessionsInv, mUseCount < MAX_ROT_SESS
  PROVE  /\ mUseCount + 1 \in Slots /\ mUseCount + 1 \in 0 .. MAX_ROT_SESS
         /\ DOMAIN getNext = DOMAIN Fresh /\ getNext.size \in Nat
<1>1. mUseCount + 1 \in Slots /\ mUseCount + 1 \in 0 .. MAX_ROT_SESS
  BY DEF SessionsInv, SessionTypes, Slots, MAX_ROT_SESS
<1> QED
  BY <1>1 DEF SessionsInv, SessionTypes, SessionsHaveShape, getNext, Fresh

LEMMA RefusedPreserves ==
  ASSUME IInv, phase = "prepare", NEW L, L.w \in Nat, L.h \in Nat, NEW p,
         SessionRefused(LayerConf(dpy, L, p))
  PROVE  SessionsInv'
<1> DEFINE conf == LayerConf(dpy, L, p)  new == CommitRotator(getNext, conf, FALSE)
           n == mUseCount + 1
<1>1. /\ SessionsInv /\ panel \in Panels /\ mUseCount < MAX_ROT_SESS
      /\ mUseCount \in 0 .. 3
  BY Parts DEF DisplaysInv, SessionRefused, SessionsInv, SessionTypes, MAX_ROT_SESS
<1>2. /\ UNCHANGED <<panel, frame, phase, dpy, rotated>> /\ ~deniedUnjustly'
      /\ stage' \in {"begun", "layers", "fell", "over"} /\ driverRefused' = TRUE
      /\ mLayerRotMap' = ClearedMap(dpy) /\ mUseCount' = CountWithout(dpy, n)
      /\ mRot' = [mRot EXCEPT ![n] = new]
  BY <1>1 DEF SessionRefused, FallBack, dpyVars, extVars, SessionsInv
<1>3. n \in Slots /\ n \in 0 .. MAX_ROT_SESS /\ DOMAIN getNext = DOMAIN Fresh /\ getNext.size \in Nat
  BY <1>1, NextTypes
<1>4. /\ DOMAIN new = DOMAIN Fresh /\ new.size \in Nat
      /\ new.conf.w \in Nat /\ new.conf.h \in Nat /\ new.conf.ds \in 0 .. 3
  <2>1. /\ DOMAIN new = DOMAIN Fresh /\ new.size = getNext.size /\ new.conf = conf
    BY <1>3, CommitFacts
  <2>2. conf.w \in Nat /\ conf.h \in Nat /\ conf.ds \in 0 .. 3
    BY <1>1, ConfTypes
  <2> HIDE DEF conf, new
  <2> QED
    BY <1>3, <2>1, <2>2
<1> HIDE DEF conf, new
<1>5. DOMAIN mRot = Slots /\ \A s \in Slots : DOMAIN mRot[s] = DOMAIN Fresh
  BY <1>1 DEF SessionsInv, SessionsHaveShape
<1>6. /\ DOMAIN mRot' = Slots /\ mRot'[n] = new
      /\ \A s \in Slots : s # n => mRot'[s] = mRot[s]
  BY <1>2, <1>3, <1>5
<1>7. \A s \in Slots : DOMAIN mRot'[s] = DOMAIN Fresh
  BY <1>4, <1>5, <1>6
<1>8. \A s \in Slots : /\ mRot'[s].size \in Nat /\ mRot'[s].conf.ds \in 0 .. 3
                       /\ mRot'[s].conf.w \in Nat /\ mRot'[s].conf.h \in Nat
  BY <1>1, <1>4, <1>6 DEF SessionsInv, SessionTypes
<1>9. \A s \in Slots : s <= mUseCount => mRot'[s] = mRot[s]
  BY <1>1, <1>6
<1> QED
  BY <1>1, <1>2, <1>3, <1>6, <1>7, <1>8, <1>9, FallBackPreserves

(* A display that falls back while the sessions stay as they are.          *)
LEMMA FallBackOnly ==
  ASSUME IInv, phase = "prepare", FallBack(mUseCount), UNCHANGED <<mRot, driverRefused>>,
         ~deniedUnjustly'
  PROVE  SessionsInv'
<1>1. SessionsInv /\ SessionTypes /\ SessionsHaveShape /\ ~deniedUnjustly
  BY Parts DEF SessionsInv
<1>2. /\ UNCHANGED <<panel, frame, phase, dpy, rotated>>
      /\ stage' \in {"begun", "layers", "fell", "over"}
      /\ mLayerRotMap' = ClearedMap(dpy) /\ mUseCount' = CountWithout(dpy, mUseCount)
  BY DEF FallBack, dpyVars, extVars
<1>3. /\ DOMAIN mRot' = Slots /\ \A s \in Slots : DOMAIN mRot'[s] = DOMAIN Fresh
      /\ \A s \in Slots : s <= mUseCount => mRot'[s] = mRot[s]
  BY <1>1 DEF SessionsHaveShape
<1>4. \A s \in Slots : /\ mRot'[s].size \in Nat /\ mRot'[s].conf.ds \in 0 .. 3
                       /\ mRot'[s].conf.w \in Nat /\ mRot'[s].conf.h \in Nat
  BY <1>1 DEF SessionTypes
<1>5. mUseCount \in 0 .. MAX_ROT_SESS /\ driverRefused' \in BOOLEAN
      /\ (driverRefused => driverRefused')
  BY <1>1 DEF SessionTypes
<1> QED
  BY <1>1, <1>2, <1>3, <1>4, <1>5, FallBackPreserves

(* A layer that is denied a session is denied it for a reason.             *)
LEMMA DeniedPreserves ==
  ASSUME IInv, phase = "prepare", Denied
  PROVE  SessionsInv'
<1>1. /\ mUseCount >= MAX_ROT_SESS /\ FallBack(mUseCount) /\ UNCHANGED <<mRot, driverRefused>>
      /\ deniedUnjustly' = (deniedUnjustly \/ (InMaps < MAX_ROT_SESS /\ ~driverRefused))
  BY DEF Denied
<1>2. SessionsInv /\ ~deniedUnjustly /\ (~driverRefused => InMaps = mUseCount)
  BY Parts DEF SessionsInv, CountsMaps
<1>3. mUseCount \in Nat /\ MAX_ROT_SESS \in Nat
  BY <1>2 DEF SessionsInv, SessionTypes, MAX_ROT_SESS
<1>4. ~(InMaps < MAX_ROT_SESS /\ ~driverRefused)
  BY <1>1, <1>2, <1>3
<1>5. ~deniedUnjustly'
  BY <1>1, <1>2, <1>4
<1> QED
  BY <1>1, <1>5, FallBackOnly

(* RotMgr deletes the sessions no map holds.                               *)
LEMMA RoundDone ==
  ASSUME IInv, ConfigDone
  PROVE  SessionsInv'
<1>1. SessionsInv /\ SessionTypes /\ SessionsHaveShape
  BY Parts DEF SessionsInv
<1>2. /\ phase = "prepare" /\ phase' = "set" /\ todo' = SlotsOf(0)
      /\ mRot' = [s \in Slots |-> IF s > mUseCount THEN Deleted ELSE mRot[s]]
      /\ UNCHANGED <<panel, frame, dpy, stage, mUseCount, mLayerRotMap, driverRefused,
                     deniedUnjustly, rotated>>
  BY DEF ConfigDone, dpyVars, extVars, histVars
<1>3. SessionTypes'
  <2>1. \A s \in Slots : /\ mRot'[s].size \in Nat /\ mRot'[s].conf.ds \in 0 .. 3
                         /\ mRot'[s].conf.w \in Nat /\ mRot'[s].conf.h \in Nat
    BY <1>1, <1>2 DEF SessionTypes, Deleted, Fresh, NoConf
  <2> QED
    BY <1>1, <1>2, <2>1 DEF SessionTypes
<1>4. SessionsHaveShape'
  <2>1. todo' \in Seq(Slots)
    <3>1. 0 \in Displays /\ mLayerRotMap[0] \in Seq(EntriesOf(0))
      BY <1>1 DEF SessionsHaveShape, Displays
    <3>2. \A k \in DOMAIN mLayerRotMap[0] : mLayerRotMap[0][k].rot \in Slots
      BY <1>1, <3>1 DEF SessionTypes
    <3> QED
      BY <1>2, <3>1, <3>2 DEF SlotsOf
  <2>2. \A s \in Slots : DOMAIN mRot'[s] = DOMAIN Fresh
    BY <1>1, <1>2 DEF SessionsHaveShape, Deleted, Fresh
  <2> QED
    BY <1>1, <1>2, <2>1, <2>2 DEF SessionsHaveShape, EntriesOf, Fresh
<1>5. CountsMaps' /\ SlotsInOrder'
  BY <1>1, <1>2 DEF SessionsInv, CountsMaps, SlotsInOrder
<1>6. EntriesServed'
  <2> SUFFICES ASSUME NEW d \in Displays, NEW i \in DOMAIN mLayerRotMap'[d]
               PROVE  Serves(mRot'[mLayerRotMap'[d][i].rot], mLayerRotMap'[d][i].want)
    BY DEF EntriesServed
  <2>1. mLayerRotMap' = mLayerRotMap
    BY <1>2
  <2>2. mLayerRotMap[d][i].rot \in 1 .. mUseCount /\ mLayerRotMap[d][i].rot \in Slots
        /\ mUseCount \in Nat
    BY <1>1, <1>2, <2>1, RotsCounted DEF SessionTypes
  <2>3. mRot'[mLayerRotMap[d][i].rot] = mRot[mLayerRotMap[d][i].rot]
    BY <1>2, <2>2
  <2>4. Serves(mRot[mLayerRotMap[d][i].rot], mLayerRotMap[d][i].want)
    BY <1>1, <1>2, <2>1 DEF SessionsInv, EntriesServed
  <2> QED
    BY <2>1, <2>3, <2>4
<1>7. RotatedHaveMemory'
  BY <1>1, <1>2 DEF SessionsInv, RotatedHaveMemory
<1> QED
  BY <1>1, <1>2, <1>3, <1>4, <1>5, <1>6, <1>7 DEF SessionsInv

(* A session that rotates has memory of the size it rotates into.          *)
LEMMA QueuePreserves ==
  ASSUME IInv, NEW played \in BOOLEAN, QueueBuffer(played)
  PROVE  SessionsInv'
<1> DEFINE s == Head(todo)
<1>1. SessionsInv /\ SessionTypes /\ SessionsHaveShape
  BY Parts DEF SessionsInv
<1>2. /\ phase = "set" /\ phase' = "set" /\ todo \in Seq(Slots) /\ todo # <<>>
      /\ mRot' = [mRot EXCEPT ![s].size = OutputSize(mRot[s].conf),
                  ![s].prev = ~played /\ (@ \/ (Resized(s) /\ mRot[s].size # 0))]
      /\ todo' = IF played \/ HighRes(dpy) THEN Tail(todo) ELSE OnlyFb(Tail(todo))
      /\ rotated' = IF played THEN rotated \cup {s} ELSE rotated
      /\ UNCHANGED <<panel, frame, dpy, stage, mUseCount, mLayerRotMap, driverRefused,
                     deniedUnjustly>>
  BY <1>1 DEF QueueBuffer, SessionsHaveShape, dpyVars, extVars, histVars
<1>3. s \in Slots
  BY <1>2
<1> HIDE DEF s
<1>4. DOMAIN mRot = Slots /\ \A t \in Slots : DOMAIN mRot[t] = DOMAIN Fresh
  BY <1>1 DEF SessionsHaveShape
<1>5. /\ DOMAIN mRot' = Slots /\ \A t \in Slots : t # s => mRot'[t] = mRot[t]
      /\ DOMAIN mRot'[s] = DOMAIN Fresh /\ mRot'[s].size = OutputSize(mRot[s].conf)
      /\ mRot'[s].alive = mRot[s].alive /\ mRot'[s].conf = mRot[s].conf
      /\ mRot'[s].kern = mRot[s].kern
  BY <1>2, <1>3, <1>4 DEF Fresh
<1>6. OutputSize(mRot[s].conf) \in Nat
  BY <1>1, <1>3, OutputNat DEF SessionTypes
<1>7. SessionTypes'
  <2>1. \A t \in Slots : /\ mRot'[t].size \in Nat /\ mRot'[t].conf.ds \in 0 .. 3
                         /\ mRot'[t].conf.w \in Nat /\ mRot'[t].conf.h \in Nat
    BY <1>1, <1>3, <1>5, <1>6 DEF SessionTypes
  <2>2. rotated' \subseteq Slots
    BY <1>1, <1>2, <1>3 DEF SessionTypes
  <2> QED
    BY <1>1, <1>2, <2>1, <2>2 DEF SessionTypes
<1>8. todo' \in Seq(Slots)
  <2>1. Tail(todo) \in Seq(Slots)
    BY <1>2
  <2>2. OnlyFb(Tail(todo)) \in Seq(Slots)
    <3> DEFINE Fb(t) == Holds(Tail(todo), t) /\ IsFb(t)
    <3>1. CASE \E t \in Slots : Fb(t)
      <4> DEFINE c == CHOOSE t \in Slots : Fb(t)
      <4>1. c \in Slots
        BY <3>1
      <4>2. OnlyFb(Tail(todo)) = <<c>>
        BY <3>1 DEF OnlyFb
      <4> HIDE DEF c
      <4>3. <<c>> \in Seq(Slots)
        BY <4>1
      <4> QED
        BY <4>2, <4>3
    <3>2. CASE ~\E t \in Slots : Fb(t)
      <4>1. OnlyFb(Tail(todo)) = <<>>
        BY <3>2 DEF OnlyFb
      <4>2. <<>> \in Seq(Slots)
        OBVIOUS
      <4> QED
        BY <4>1, <4>2
    <3> QED
      BY <3>1, <3>2
  <2> QED
    BY <1>2, <2>1, <2>2
<1>9. SessionsHaveShape'
  <2>1. \A t \in Slots : DOMAIN mRot'[t] = DOMAIN Fresh
    BY <1>4, <1>5
  <2> QED
    BY <1>1, <1>2, <1>5, <1>8, <2>1 DEF SessionsHaveShape, EntriesOf, Fresh
<1>10. CountsMaps' /\ SlotsInOrder'
  BY <1>1, <1>2 DEF SessionsInv, CountsMaps, SlotsInOrder
<1>11. EntriesServed'
  <2> SUFFICES ASSUME NEW d \in Displays, NEW i \in DOMAIN mLayerRotMap'[d]
               PROVE  Serves(mRot'[mLayerRotMap'[d][i].rot], mLayerRotMap'[d][i].want)
    BY DEF EntriesServed
  <2>1. mLayerRotMap' = mLayerRotMap
    BY <1>2
  <2>2. mLayerRotMap[d][i].rot \in Slots
    BY <1>1, <2>1 DEF SessionTypes
  <2>3. Serves(mRot[mLayerRotMap[d][i].rot], mLayerRotMap[d][i].want)
    BY <1>1, <1>2, <2>1 DEF SessionsInv, EntriesServed
  <2>4. /\ mRot'[mLayerRotMap[d][i].rot].alive = mRot[mLayerRotMap[d][i].rot].alive
        /\ mRot'[mLayerRotMap[d][i].rot].conf = mRot[mLayerRotMap[d][i].rot].conf
        /\ mRot'[mLayerRotMap[d][i].rot].kern = mRot[mLayerRotMap[d][i].rot].kern
    BY <1>5, <2>2
  <2> QED
    BY <2>1, <2>3, <2>4 DEF Serves
<1>12. RotatedHaveMemory'
  <2> SUFFICES ASSUME NEW t \in rotated' PROVE mRot'[t].size = OutputSize(mRot[t].conf)
                                              /\ mRot'[t].conf = mRot[t].conf
    <3>1. \A t \in rotated' : OutputSize(mRot[t].conf) = OutputSize(mRot'[t].conf)
      OBVIOUS
    <3>2. \A c : OutputSize(c)' = OutputSize(c)
      BY <1>2 DEF OutputSize
    <3> QED
      BY <1>2, <3>1, <3>2 DEF RotatedHaveMemory
  <2>1. CASE t = s
    BY <2>1, <1>5
  <2>2. CASE t # s
    BY <2>2, <1>1, <1>2, <1>5 DEF SessionsInv, RotatedHaveMemory, SessionTypes
  <2> QED
    BY <2>1, <2>2
<1> QED
  BY <1>1, <1>2, <1>7, <1>9, <1>10, <1>11, <1>12 DEF SessionsInv

(* The phase changes outside of a preparation, the sessions do not.        *)
LEMMA PhasePreserves ==
  ASSUME IInv, phase = "set", UNCHANGED <<panel, frame, sessVars>>,
         phase' \in {"idle", "set", "aborted"}, dpy' \in Displays,
         stage' \in {"begun", "layers", "fell", "over"},
         rotated' \subseteq rotated, phase' = "idle" => rotated' = {},
         driverRefused' \in BOOLEAN, ~deniedUnjustly',
         phase' = "set" => todo' \in Seq(Slots)
  PROVE  SessionsInv'
<1>1. SessionsInv /\ SessionTypes /\ SessionsHaveShape
  BY Parts DEF SessionsInv
<1>2. mRot' = mRot /\ mUseCount' = mUseCount /\ mLayerRotMap' = mLayerRotMap
  BY DEF sessVars
<1>3. SessionTypes'
  BY <1>1, <1>2 DEF SessionTypes
<1>4. SessionsHaveShape'
  BY <1>1, <1>2 DEF SessionsHaveShape, EntriesOf, Fresh
<1>5. CountsMaps' /\ SlotsInOrder' /\ EntriesServed'
  BY <1>1, <1>2 DEF SessionsInv, CountsMaps, SlotsInOrder, EntriesServed, Serves
<1>6. RotatedHaveMemory'
  <2>1. RotatedHaveMemory
    BY <1>1 DEF SessionsInv
  <2>2. \A t \in rotated' : mRot'[t].size = OutputSize(mRot[t].conf)
    BY <1>2, <2>1 DEF RotatedHaveMemory
  <2>3. \A c : OutputSize(c)' = OutputSize(c)
    BY DEF OutputSize
  <2>4. phase' \notin {"prepare"}
    OBVIOUS
  <2> QED
    BY <1>2, <2>2, <2>3, <2>4 DEF RotatedHaveMemory
<1> QED
  BY <1>1, <1>3, <1>4, <1>5, <1>6 DEF SessionsInv

LEMMA AbortPreserves == ASSUME IInv, QueueAborts PROVE SessionsInv'
<1>1. /\ SessionsInv /\ ~deniedUnjustly /\ driverRefused \in BOOLEAN /\ dpy \in Displays
      /\ stage \in {"begun", "layers", "fell", "over"}
  BY Parts DEF SessionsInv, SessionTypes
<1>2. /\ phase = "set" /\ phase' = "aborted"
      /\ UNCHANGED <<panel, frame, dpy, stage, sessVars, driverRefused, deniedUnjustly, rotated>>
  BY DEF QueueAborts, dpyVars, extVars, histVars
<1> QED
  BY <1>1, <1>2, PhasePreserves

LEMMA DrawPreserves == ASSUME IInv, DrawSecond PROVE SessionsInv'
<1>1. /\ SessionsInv /\ ~deniedUnjustly /\ driverRefused \in BOOLEAN
      /\ stage \in {"begun", "layers", "fell", "over"} /\ SessionTypes /\ SessionsHaveShape
  BY Parts DEF SessionsInv, SessionTypes
<1>2. /\ phase = "set" /\ phase' = "set" /\ dpy' = 1 /\ todo' = SlotsOf(1)
      /\ UNCHANGED <<panel, frame, stage, sessVars, driverRefused, deniedUnjustly, rotated>>
  BY DEF DrawSecond, dpyVars, extVars, histVars
<1>3. todo' \in Seq(Slots)
  <2>1. 1 \in Displays /\ mLayerRotMap[1] \in Seq(EntriesOf(1))
    BY <1>1 DEF SessionsHaveShape, Displays
  <2>2. \A k \in DOMAIN mLayerRotMap[1] : mLayerRotMap[1][k].rot \in Slots
    BY <1>1, <2>1 DEF SessionTypes
  <2> QED
    BY <1>2, <2>1, <2>2 DEF SlotsOf
<1>4. dpy' \in Displays
  BY <1>2 DEF Displays
<1> QED
  BY <1>1, <1>2, <1>3, <1>4, PhasePreserves

LEMMA FrameDone == ASSUME IInv, SetDone PROVE SessionsInv'
<1>1. /\ phase = "set" /\ phase' = "idle" /\ dpy' = 0 /\ stage' = "over" /\ rotated' = {}
      /\ driverRefused' = FALSE /\ deniedUnjustly' = FALSE
      /\ UNCHANGED <<panel, frame, sessVars>>
  BY DEF SetDone, dpyVars, extVars
<1>2. dpy' \in Displays
  BY <1>1 DEF Displays
<1> QED
  BY <1>1, <1>2, PhasePreserves

(* RotMgr::clear between two frames.                                       *)
LEMMA BlankPreserves == ASSUME IInv, Blank PROVE SessionsInv'
<1>1. SessionsInv /\ SessionTypes /\ SessionsHaveShape /\ rotated = {}
  BY Parts DEF SessionsInv, RotatedHaveMemory, Blank
<1>2. /\ phase = "idle" /\ phase' = "idle" /\ mUseCount' = 0
      /\ mRot' = [s \in Slots |-> Deleted]
      /\ UNCHANGED <<panel, frame, dpy, stage, mLayerRotMap, driverRefused, deniedUnjustly,
                     rotated>>
  BY DEF Blank, dpyVars, extVars, roundVars, histVars
<1>3. \A s \in Slots : mRot'[s] = Deleted
  BY <1>2
<1>4. SessionTypes'
  <2>1. \A s \in Slots : /\ mRot'[s].size \in Nat /\ mRot'[s].conf.ds \in 0 .. 3
                         /\ mRot'[s].conf.w \in Nat /\ mRot'[s].conf.h \in Nat
    BY <1>3 DEF Deleted, Fresh, NoConf
  <2> QED
    BY <1>1, <1>2, <2>1 DEF SessionTypes, MAX_ROT_SESS
<1>5. SessionsHaveShape'
  <2>1. DOMAIN mRot' = Slots /\ \A s \in Slots : DOMAIN mRot'[s] = DOMAIN Fresh
    BY <1>2, <1>3 DEF Deleted, Fresh
  <2> QED
    BY <1>1, <1>2, <2>1 DEF SessionsHaveShape, EntriesOf, Fresh
<1>6. CountsMaps' /\ SlotsInOrder' /\ EntriesServed' /\ RotatedHaveMemory'
  BY <1>1, <1>2 DEF CountsMaps, SlotsInOrder, EntriesServed, RotatedHaveMemory
<1> QED
  BY <1>1, <1>2, <1>4, <1>5, <1>6 DEF SessionsInv

-----------------------------------------------------------------------------
(* Every step keeps the invariant.                                         *)

LEMMA InitIInv == Init => IInv
<1> SUFFICES ASSUME Init PROVE IInv
  OBVIOUS
<1>1. DisplaysInv
  BY DEF Init, ExtInit, DisplaysInv, ModeInv, NoAttr
<1>2. \A d \in Displays : mLayerRotMap[d] = <<>> /\ DOMAIN mLayerRotMap[d] = {}
  BY DEF Init
<1>3. SessionTypes
  <2>1. \A s \in Slots : /\ mRot[s].size \in Nat /\ mRot[s].conf.ds \in 0 .. 3
                         /\ mRot[s].conf.w \in Nat /\ mRot[s].conf.h \in Nat
    BY DEF Init, Deleted, Fresh, NoConf
  <2> QED
    <3>1. frame \in 0 .. Len(Layers) /\ (phase = "prepare" => frame > 0)
      BY LayerConfigAssumption DEF Init
    <3>2. mUseCount \in 0 .. MAX_ROT_SESS /\ dpy \in Displays
      BY DEF Init, MAX_ROT_SESS, Displays
    <3> QED
      BY <1>2, <2>1, <3>1, <3>2 DEF Init, SessionTypes
<1>4. SessionsHaveShape
  <2>1. DOMAIN mRot = Slots /\ \A s \in Slots : DOMAIN mRot[s] = DOMAIN Fresh
    BY DEF Init, Deleted, Fresh
  <2>2. \A d \in Displays : mLayerRotMap[d] \in Seq(EntriesOf(d))
    <3>1. \A S : <<>> \in Seq(S)
      OBVIOUS
    <3> QED
      BY <1>2, <3>1
  <2> QED
    BY <2>1, <2>2 DEF Init, SessionsHaveShape
<1>5. CountsMaps /\ SlotsInOrder /\ EntriesServed /\ RotatedHaveMemory /\ ~deniedUnjustly
  BY DEF Init, CountsMaps, SlotsInOrder, EntriesServed, RotatedHaveMemory
<1>6. orientation \in Orientations
  BY DEF Init
<1> QED
  BY <1>1, <1>3, <1>4, <1>5, <1>6, Parts DEF SessionsInv

(* What a frame does changes neither the displays nor their orientation.   *)
FrameStep ==
  \/ ConfigBegin \/ NextDisplay \/ ConfigDone
  \/ \E L \in LayersNow : \/ ConfigureLayer(L, Place(dpy, L))
                         \/ ConfigureFb(FbLayer(dpy, FbRegion(dpy, L)))
  \/ FbRefused(FbLayer(dpy, Screen(Xres(dpy), Yres(dpy)))) \/ PipeRefused
  \/ \E played \in BOOLEAN : QueueBuffer(played)
  \/ QueueAborts \/ DrawSecond \/ SetDone \/ Blank

LEMMA FrameLeavesDisplays ==
  ASSUME FrameStep
  PROVE  UNCHANGED <<dpyVars, orientation>>
<1>1. CASE ConfigBegin \/ NextDisplay \/ ConfigDone
  BY <1>1 DEF ConfigBegin, NextDisplay, ConfigDone
<1>2. ASSUME NEW L \in LayersNow, NEW p, ConfigureLayer(L, p)
      PROVE  UNCHANGED <<dpyVars, orientation>>
  BY <1>2 DEF ConfigureLayer, ConfigureVideo, ConfigureRGB, VideoDenied, Denied, VideoRefused,
              SessionRefused, FallBack
<1>3. ASSUME NEW fb, ConfigureFb(fb)
      PROVE  UNCHANGED <<dpyVars, orientation>>
  BY <1>3 DEF ConfigureFb, ConfigureFbAt
<1>4. ASSUME NEW fb, FbRefused(fb)
      PROVE  UNCHANGED <<dpyVars, orientation>>
  BY <1>4 DEF FbRefused, SessionRefused, FallBack
<1>5. CASE PipeRefused
  BY <1>5 DEF PipeRefused, FallBack
<1>6. ASSUME NEW played \in BOOLEAN, QueueBuffer(played)
      PROVE  UNCHANGED <<dpyVars, orientation>>
  BY <1>6 DEF QueueBuffer
<1>7. CASE QueueAborts \/ DrawSecond \/ SetDone \/ Blank
  BY <1>7 DEF QueueAborts, DrawSecond, SetDone, Blank
<1> QED
  BY <1>1, <1>2, <1>3, <1>4, <1>5, <1>6, <1>7 DEF FrameStep

LEMMA LayerPreserves ==
  ASSUME IInv, NEW L \in LayersNow, NEW p, ConfigureLayer(L, p)
  PROVE  SessionsInv'
<1>1. phase = "prepare" /\ L.w \in Nat /\ L.h \in Nat
  BY SizesOfLayers
<1>2. CASE ConfigureVideo(L, p)
  BY <1>2, VideoPreserves
<1>3. CASE ConfigureRGB(L, p)
  <2>1. /\ UNCHANGED <<panel, frame, phase, dpy, sessVars, histVars, rotated>>
        /\ stage' = "layers"
    BY <1>3 DEF ConfigureRGB, dpyVars, extVars
  <2> QED
    BY <1>1, <2>1, Parts, SessionsUnchanged
<1>4. CASE VideoDenied(L, p)
  BY <1>1, <1>4, DeniedPreserves DEF VideoDenied
<1>5. CASE VideoRefused(L, p)
  BY <1>1, <1>5, RefusedPreserves DEF VideoRefused
<1> QED
  BY <1>2, <1>3, <1>4, <1>5 DEF ConfigureLayer

LEMMA FrameStepPreserves ==
  ASSUME IInv, FrameStep
  PROVE  IInv'
<1>1. SessionsInv'
  <2>1. CASE ConfigBegin \/ NextDisplay \/ ConfigDone
    BY <2>1, BeginRound, BeginPrimary, RoundDone
  <2>2. ASSUME NEW L \in LayersNow, ConfigureLayer(L, Place(dpy, L))
        PROVE  SessionsInv'
    BY <2>2, LayerPreserves
  <2>3. ASSUME NEW L \in LayersNow, ConfigureFb(FbLayer(dpy, FbRegion(dpy, L)))
        PROVE  SessionsInv'
    BY <2>3, FbPreserves
  <2>4. CASE FbRefused(FbLayer(dpy, Screen(Xres(dpy), Yres(dpy))))
    <3> DEFINE fb == FbLayer(dpy, Screen(Xres(dpy), Yres(dpy)))
    <3>1. fb.w \in Nat /\ fb.h \in Nat
      BY SizesOfFb
    <3> HIDE DEF fb
    <3>2. phase = "prepare" /\ SessionRefused(LayerConf(dpy, fb, Place(dpy, fb)))
      BY <2>4 DEF FbRefused, MayTryFb, fb
    <3> QED
      BY <3>1, <3>2, RefusedPreserves
  <2>5. CASE PipeRefused
    <3>1. ~deniedUnjustly' /\ UNCHANGED driverRefused
      BY <2>5 DEF PipeRefused, histVars, IInv
    <3> QED
      BY <2>5, <3>1, FallBackOnly DEF PipeRefused
  <2>6. ASSUME NEW played \in BOOLEAN, QueueBuffer(played)
        PROVE  SessionsInv'
    BY <2>6, QueuePreserves
  <2>7. CASE QueueAborts \/ DrawSecond \/ SetDone \/ Blank
    BY <2>7, AbortPreserves, DrawPreserves, FrameDone, BlankPreserves
  <2> QED
    BY <2>1, <2>2, <2>3, <2>4, <2>5, <2>6, <2>7 DEF FrameStep
<1>2. UNCHANGED dpyVars /\ orientation' = orientation
  BY FrameLeavesDisplays
<1>3. DisplaysInv'
  BY <1>2, Parts, DisplaysUnchanged
<1>4. orientation' \in Orientations
  BY <1>2 DEF IInv, TypeOK
<1>5. IInv' <=> DisplaysInv' /\ orientation' \in Orientations /\ SessionsInv'
  BY DEF IInv, TypeOK, DisplaysInv, SessionsInv, SessionTypes
<1> QED
  BY <1>1, <1>3, <1>4, <1>5

(* Displays come and go between two frames.                                *)
LEMMA DisplayStepPreserves ==
  ASSUME IInv, SetOrientation \/ PlugIn \/ PlugOut \/ WfdOnline \/ WfdOffline
  PROVE  IInv'
<1>1. DisplaysInv /\ SessionsInv
  BY Parts
<1>2. phase = "idle" /\ UNCHANGED <<roundVars, sessVars, histVars, rotated>>
  BY DEF SetOrientation, PlugIn, PlugOut, WfdOnline, WfdOffline
<1>3. panel' = panel
  BY DEF SetOrientation, PlugIn, PlugOut, WfdOnline, WfdOffline, configure, teardown,
         configureVirtual, teardownVirtual, dpyVars, extVars
<1>4. SessionsInv'
  <2>1. stage' \in {"begun", "layers", "fell", "over"}
    BY <1>1, <1>2 DEF SessionsInv, SessionTypes, roundVars
  <2> QED
    BY <1>1, <1>2, <1>3, <2>1, SessionsUnchanged DEF roundVars
<1>5. orientation' \in Orientations
  BY DEF SetOrientation, PlugIn, PlugOut, WfdOnline, WfdOffline, IInv, TypeOK
<1>6. DisplaysInv'
  <2>1. CASE SetOrientation
    BY <1>1, <2>1, DisplaysUnchanged DEF SetOrientation
  <2>2. CASE PlugIn
    BY <1>1, <2>2, PlugInMode DEF PlugIn
  <2>3. CASE PlugOut
    BY <1>1, <2>3, PlugOutMode DEF PlugOut
  <2>4. CASE WfdOnline
    BY <1>1, <2>4, WfdOnlineMode DEF WfdOnline
  <2>5. CASE WfdOffline
    BY <1>1, <2>5 DEF WfdOffline, teardownVirtual, extVars, DisplaysInv, ModeInv
  <2> QED
    BY <2>1, <2>2, <2>3, <2>4, <2>5
<1>7. IInv' <=> DisplaysInv' /\ orientation' \in Orientations /\ SessionsInv'
  BY DEF IInv, TypeOK, DisplaysInv, SessionsInv, SessionTypes
<1> QED
  BY <1>4, <1>5, <1>6, <1>7

LEMMA StepPreserves == IInv /\ [Next]_vars => IInv'
<1> SUFFICES ASSUME IInv, [Next]_vars PROVE IInv'
  OBVIOUS
<1>1. CASE FrameStep
  BY <1>1, FrameStepPreserves
<1>2. CASE SetOrientation \/ PlugIn \/ PlugOut \/ WfdOnline \/ WfdOffline
  BY <1>2, DisplayStepPreserves
<1>3. CASE UNCHANGED vars
  <2>1. DisplaysInv'
    BY <1>3, Parts, DisplaysUnchanged DEF vars
  <2>2. SessionsInv'
    <3>1. SessionsInv /\ stage \in {"begun", "layers", "fell", "over"}
      BY Parts DEF SessionsInv, SessionTypes
    <3> QED
      BY <1>3, <3>1, SessionsUnchanged DEF vars, roundVars, dpyVars, extVars
  <2>3. orientation' \in Orientations
    BY <1>3 DEF vars, IInv, TypeOK
  <2> QED
    BY <2>1, <2>2, <2>3 DEF IInv, TypeOK, DisplaysInv, SessionsInv, SessionTypes
<1>4. Next => \/ FrameStep
              \/ SetOrientation \/ PlugIn \/ PlugOut \/ WfdOnline \/ WfdOffline
  BY DEF Next, FrameStep, DrawNext, DrawVirtual
<1> QED
  BY <1>1, <1>2, <1>3, <1>4

-----------------------------------------------------------------------------
(* Theorems.                                                               *)

(* Modes, maps, sessions and what RotMgr counts go together as IInv says.  *)
THEOREM InductiveInvariant == Spec => []IInv
BY InitIInv, StepPreserves, PTL DEF Spec

(* An external display that is open in a mode that is known, with a timing *)
(* the driver took, announces the size and the period of that timing, or   *)
(* the primary's size laid flat, whatever was plugged in and out before    *)
(* and whatever the primary.                                               *)
THEOREM ModeAnnounced == Spec => []AnnouncedModeIsInForce
<1>1. IInv => AnnouncedModeIsInForce
  <2> SUFFICES ASSUME IInv, mFd, Known(mCurrentMode), ~refused
               PROVE  LET t == getAttrForMode(timing) IN
                      /\ timing = mCurrentMode
                      /\ dpyAttr.period = SECOND \div t.fps
                      /\ IF dpyAttr.downscale
                         THEN /\ {dpyAttr.xres, dpyAttr.yres} = {panel.w, panel.h}
                              /\ dpyAttr.xres >= dpyAttr.yres
                              /\ dpyAttr.xres * dpyAttr.yres > t.w * t.h
                         ELSE dpyAttr.xres = t.w /\ dpyAttr.yres = t.h
    BY DEF AnnouncedModeIsInForce
  <2>1. timing = mCurrentMode /\ dpyAttr = setAttributes(mCurrentMode, panel.w, panel.h)
    BY DEF IInv, ModeInv
  <2>2. panel.w \in Nat /\ panel.h \in Nat
    BY PanelNat DEF IInv, TypeOK
  <2>3. dpyAttr.period = SECOND \div getAttrForMode(mCurrentMode).fps
    BY <2>1 DEF setAttributes, Known
  <2>4. CASE dpyAttr.downscale
    <3> DEFINE attr == setAttributes(mCurrentMode, panel.w, panel.h)
               t == getAttrForMode(mCurrentMode)
    <3>1. /\ {attr.xres, attr.yres} = {panel.w, panel.h} /\ attr.xres >= attr.yres
          /\ attr.xres * attr.yres > t.w * t.h
      BY <2>1, <2>2, <2>4, Lent
    <3> HIDE DEF attr, t
    <3>2. /\ {dpyAttr.xres, dpyAttr.yres} = {panel.w, panel.h}
          /\ dpyAttr.xres >= dpyAttr.yres
          /\ dpyAttr.xres * dpyAttr.yres > t.w * t.h
      BY <2>1, <3>1 DEF attr
    <3> QED
      BY <2>1, <2>3, <2>4, <3>2 DEF t
  <2>5. CASE ~dpyAttr.downscale
    BY <2>1, <2>2, <2>3, <2>5, NotLent
  <2> QED
    BY <2>4, <2>5
<1> QED
  BY <1>1, InductiveInvariant, PTL

(* With any videos on both displays, and whatever the driver refuses, each *)
(* session in a map is one layer's alone, has been told what that layer    *)
(* wants and rotates into memory of the size that takes; no layer is       *)
(* denied a session while fewer than three are in use.                     *)
THEOREM SessionsServe == Spec => []SessionsServeTheirLayers
<1>1. IInv => SessionsServeTheirLayers
  <2> SUFFICES ASSUME IInv, phase \in {"prepare", "set"},
                      NEW d \in Displays, NEW i \in DOMAIN mLayerRotMap[d]
               PROVE  LET entry == mLayerRotMap[d][i]  rot == mRot[entry.rot]
                          kern == rot.kern IN
                      /\ rot.alive
                      /\ [kern EXCEPT !.flags = {}] = [entry.want EXCEPT !.flags = {}]
                      /\ entry.want.flags \subseteq kern.flags
                      /\ \A e \in Displays : \A j \in DOMAIN mLayerRotMap[e] :
                           mLayerRotMap[e][j].rot = entry.rot => <<d, i>> = <<e, j>>
                      /\ entry.rot \in rotated => rot.size = OutputSize(kern)
    BY DEF IInv, SessionsServeTheirLayers
  <2> DEFINE entry == mLayerRotMap[d][i]  rot == mRot[entry.rot]
  <2>1. SessionsInv
    BY Parts
  <2>2. Serves(rot, entry.want)
    BY <2>1 DEF SessionsInv, EntriesServed
  <2>3. \A e \in Displays : \A j \in DOMAIN mLayerRotMap[e] :
          mLayerRotMap[e][j].rot = entry.rot => <<d, i>> = <<e, j>>
    BY <2>1, RotsDiffer
  <2>4. entry.rot \in rotated => rot.size = OutputSize(rot.conf)
    BY <2>1 DEF SessionsInv, RotatedHaveMemory
  <2> QED
    BY <2>2, <2>3, <2>4 DEF Serves
<1> QED
  BY <1>1, InductiveInvariant, PTL

-----------------------------------------------------------------------------
(* What the pipes show: intervals that are cut.                            *)

(* A point cut off an interval by n parts of d lies less than one before   *)
(* where it is exactly.                                                    *)
LEMMA CutFacts ==
  ASSUME NEW e \in Int, NEW n \in Int, NEW d \in Nat \ {0}
  PROVE  LET q == (e * d + n) \div d IN
         q \in Int /\ -d < (q - e) * d - n /\ (q - e) * d - n <= 0
OBVIOUS

(* A point nothing is cut off stays.                                       *)
LEMMA CutNothing == ASSUME NEW e \in Int, NEW d \in Nat \ {0} PROVE (e * d) \div d = e
<1> DEFINE q == (e * d) \div d
<1>1. q \in Int /\ q * d <= e * d /\ e * d < q * d + d
  OBVIOUS
<1> HIDE DEF q
<1>2. q <= e
  <2> SUFFICES ASSUME q >= e + 1 PROVE FALSE
    BY <1>1
  <2>1. q * d >= (e + 1) * d
    BY <1>1
  <2> QED
    BY <1>1, <2>1
<1>3. e <= q
  <2> SUFFICES ASSUME e >= q + 1 PROVE FALSE
    BY <1>1
  <2>1. e * d >= (q + 1) * d
    BY <1>1
  <2> QED
    BY <1>1, <2>1
<1> QED
  BY <1>1, <1>2, <1>3 DEF q

(* A number whose multiple is within a multiple is within that.            *)
LEMMA Divided ==
  ASSUME NEW k \in Nat \ {0}, NEW x \in Int, NEW y \in Int, k * x <= k * y
  PROVE  x <= y
OBVIOUS

(* Between two points that are each off by less than m parts, a point that *)
(* is k of k + n parts on the way, and rounded down, is off by less than   *)
(* twice as much.                                                          *)
LEMMA Between ==
  ASSUME NEW a \in Int, NEW b \in Int, NEW m \in Nat \ {0}, NEW n \in Nat, NEW k \in Nat,
         n + k # 0, NEW rem \in Nat, rem < n + k, NEW s \in {1, -1}, NEW off \in Int,
         -m <= a, a <= m, -m <= b, b <= m,
         (n + k) * off = k * a + n * b - s * (m * rem)
  PROVE  -(2 * m) <= off /\ off <= 2 * m
<1>1. k * a + n * b <= (n + k) * m /\ -((n + k) * m) <= k * a + n * b
  <2>1. k * a <= k * m /\ -(k * m) <= k * a /\ n * b <= n * m /\ -(n * m) <= n * b
    OBVIOUS
  <2> QED
    BY <2>1
<1>2. m * rem <= (n + k) * m /\ 0 <= m * rem
  OBVIOUS
<1>3. (n + k) * off <= (n + k) * (2 * m) /\ (n + k) * (-(2 * m)) <= (n + k) * off
  BY <1>1, <1>2
<1> QED
  BY <1>3, Divided

(* A point beside one that is near is near, to within more.                *)
LEMMA NearMoved ==
  ASSUME NEW p \in Int, NEW q \in Int, NEW lo \in Int, NEW size \in Int,
         NEW g \in Int, NEW m \in Nat, NEW tolerance \in Nat, NEW more \in Nat,
         Near(q, lo, size, <<g, m>>, tolerance), p - q <= more, q - p <= more
  PROVE  Near(p, lo, size, <<g, m>>, tolerance + more)
<1> DEFINE a == (q - lo) * m - size * g  b == (p - lo) * m - size * g
<1>1. -tolerance * m <= a /\ a <= tolerance * m
  BY DEF Near
<1>2. b = a + (p - q) * m
  OBVIOUS
<1>3. (p - q) * m <= more * m /\ -more * m <= (p - q) * m
  OBVIOUS
<1>4. (tolerance + more) * m = tolerance * m + more * m
  OBVIOUS
<1>5. a \in Int /\ b \in Int /\ tolerance * m \in Int /\ more * m \in Int
  OBVIOUS
<1>6. -(tolerance + more) * m <= b /\ b <= (tolerance + more) * m
  <2> HIDE DEF a, b
  <2> QED
    BY <1>1, <1>2, <1>3, <1>4, <1>5
<1> QED
  BY <1>6 DEF Near

(* One coordinate, at a point between two at which it shows what is asked. *)
LiesBetween(gl, gr, got, c, s, a, b, p, n, k, rem, lo, size, g, m, z) ==
  /\ gl \in Int /\ gr \in Int /\ got \in Int /\ c \in Int /\ s \in {1, -1}
  /\ a \in Int /\ b \in Int /\ p \in Int /\ n \in Nat /\ k \in Nat /\ n + k # 0
  /\ rem \in Nat /\ rem < n + k /\ p * (n + k) = a * k + b * n - rem
  /\ gr = c + s * a /\ gl = c + s * b /\ got = c + s * p
  /\ lo \in Int /\ size \in Int /\ g \in Int /\ m \in Nat \ {0} /\ z \in {1, -1}
  /\ Near(gr, lo, size, <<g, m>>, 1) /\ Near(gl, lo, size, <<g + z * (n + k), m>>, 1)

(* A point that lies between the ends of a crop, as its destination is     *)
(* cut, is near what is asked for there.                                   *)
LEMMA NearBetween ==
  ASSUME NEW gl, NEW gr, NEW got, NEW c, NEW s, NEW a, NEW b, NEW p, NEW n, NEW k, NEW rem,
         NEW lo, NEW size, NEW g, NEW m, NEW z,
         LiesBetween(gl, gr, got, c, s, a, b, p, n, k, rem, lo, size, g, m, z)
  PROVE  Near(got, lo, size, <<g + z * n, m>>, 2)
<1>1. /\ gl \in Int /\ gr \in Int /\ got \in Int /\ c \in Int /\ s \in {1, -1}
      /\ a \in Int /\ b \in Int /\ p \in Int /\ n \in Nat /\ k \in Nat /\ n + k # 0
      /\ rem \in Nat /\ rem < n + k /\ p * (n + k) = a * k + b * n - rem
      /\ lo \in Int /\ size \in Int /\ g \in Int /\ m \in Nat \ {0} /\ z \in {1, -1}
  BY DEF LiesBetween
<1>2. gr = c + s * a /\ gl = c + s * b /\ got = c + s * p
  BY DEF LiesBetween
<1> DEFINE A == (gr - lo) * m - size * g
           B == (gl - lo) * m - size * (g + z * (n + k))
           off == (got - lo) * m - size * (g + z * n)
<1>3. A \in Int /\ B \in Int /\ off \in Int
  BY <1>1
<1>4. -m <= A /\ A <= m /\ -m <= B /\ B <= m
  <2>1. -1 * m <= A /\ A <= 1 * m /\ -1 * m <= B /\ B <= 1 * m
    BY DEF LiesBetween, Near
  <2> HIDE DEF A, B
  <2> QED
    BY <1>1, <1>3, <2>1
<1>5. (n + k) * off = k * A + n * B - s * (m * rem)
  <2>1. (s * m) * (p * (n + k)) = (s * m) * (a * k + b * n - rem)
    BY <1>1, <1>2
  <2>2. (n + k) * off = (n + k) * ((c - lo) * m) + (s * m) * (p * (n + k))
             - (n + k) * (size * (g + z * n))
    BY <1>1, <1>2
  <2>3. k * A = k * ((c - lo) * m) + (s * m) * (a * k) - k * (size * g)
    BY <1>1, <1>2
  <2>4. n * B = n * ((c - lo) * m) + (s * m) * (b * n) - n * (size * (g + z * (n + k)))
    BY <1>1, <1>2
  <2>5. (n + k) * (size * (g + z * n)) = k * (size * g) + n * (size * (g + z * (n + k)))
    BY <1>1, <1>2
  <2>6. (s * m) * (a * k + b * n - rem) = (s * m) * (a * k) + (s * m) * (b * n) - s * (m * rem)
    BY <1>1, <1>2
  <2>7. (n + k) * ((c - lo) * m) = n * ((c - lo) * m) + k * ((c - lo) * m)
    BY <1>1, <1>2
  <2>8. /\ (n + k) * ((c - lo) * m) \in Int /\ n * ((c - lo) * m) \in Int
        /\ k * ((c - lo) * m) \in Int
        /\ (s * m) * (a * k) \in Int /\ (s * m) * (b * n) \in Int /\ s * (m * rem) \in Int
        /\ k * (size * g) \in Int /\ n * (size * (g + z * (n + k))) \in Int
        /\ k * A \in Int /\ n * B \in Int /\ (n + k) * off \in Int
    BY <1>1, <1>2
  <2> HIDE DEF A, B, off
  <2> QED
    BY <2>1, <2>2, <2>3, <2>4, <2>5, <2>6, <2>7, <2>8
<1>6. -(2 * m) <= off /\ off <= 2 * m
  <2> HIDE DEF A, B, off
  <2> QED
    BY <1>1, <1>3, <1>4, <1>5, Between
<1> QED
  BY <1>6 DEF Near

-----------------------------------------------------------------------------
(* Cutting a crop as its destination is cut.                               *)

(* The corner of a rectangle of the buffer that shows at corner (i, j) of  *)
(* a destination under a transform.                                        *)
CornerOf(transform, q, i, j) ==
  LET a == IF "FLIP_H" \in transform THEN 1 - i ELSE i
      b == IF "FLIP_V" \in transform THEN 1 - j ELSE j IN
  IF "ROT_90" \in transform
  THEN [x |-> IF b = 0 THEN q.l ELSE q.r, y |-> IF a = 0 THEN q.b ELSE q.t]
  ELSE [x |-> IF a = 0 THEN q.l ELSE q.r, y |-> IF b = 0 THEN q.t ELSE q.b]

(* A side that is cut shows the point where the cut is.                    *)
LEMMA StartShows ==
  ASSUME NEW e \in Int, NEW size \in Int, NEW n \in Int, NEW d \in Nat \ {0}
  PROVE  LET q == CutStart(e, size, [n |-> n, d |-> d]) IN
         q \in Int /\ Near(q, e, size, <<n, d>>, 1)
<1> DEFINE q == CutStart(e, size, [n |-> n, d |-> d])  k == size * n
<1>1. k \in Int
  OBVIOUS
<1>2. q = (e * d + k) \div d
  BY DEF CutStart
<1>3. q \in Int /\ -d < (q - e) * d - k /\ (q - e) * d - k <= 0
  <2> HIDE DEF k, q
  <2> QED
    BY <1>1, <1>2, CutFacts
<1>4. /\ <<n, d>>[1] = n /\ <<n, d>>[2] = d /\ 1 * d = d /\ -1 * d = -d
      /\ (q - e) * d - k \in Int
  BY <1>1, <1>3
<1> HIDE DEF q
<1> QED
  BY <1>1, <1>3, <1>4 DEF q, Near

(* The same of the other end.                                              *)
LEMMA EndShows ==
  ASSUME NEW e \in Int, NEW size \in Int, NEW n \in Int, NEW d \in Nat \ {0}
  PROVE  LET q == CutEnd(e + size, size, [n |-> n, d |-> d]) IN
         q \in Int /\ Near(q, e, size, <<d - n, d>>, 1)
<1> DEFINE q == CutEnd(e + size, size, [n |-> n, d |-> d])  k == -(size * n)
<1>1. k \in Int /\ e + size \in Int
  OBVIOUS
<1>2. q = ((e + size) * d + k) \div d
  BY DEF CutEnd
<1>3. q \in Int /\ -d < (q - (e + size)) * d - k /\ (q - (e + size)) * d - k <= 0
  <2> HIDE DEF k, q
  <2> QED
    BY <1>1, <1>2, CutFacts
<1>4. (q - e) * d - size * (d - n) = (q - (e + size)) * d - k
  <2> HIDE DEF q
  <2> QED
    BY <1>3
<1> HIDE DEF q
<1>5. (q - e) * d - size * (d - n) <= 0 /\ -d < (q - e) * d - size * (d - n)
  BY <1>3, <1>4
<1>6. /\ <<d - n, d>>[1] = d - n /\ <<d - n, d>>[2] = d /\ 1 * d = d /\ -1 * d = -d
      /\ (q - e) * d - size * (d - n) \in Int
  BY <1>3
<1> QED
  BY <1>3, <1>5, <1>6 DEF q, Near

(* The sides of a rectangle are integers.                                  *)
LEMMA RectFacts ==
  ASSUME NEW q \in Rects
  PROVE  /\ q.l \in Int /\ q.t \in Int /\ q.r \in Int /\ q.b \in Int
         /\ Width(q) \in Int /\ Height(q) \in Int
         /\ q.r = q.l + Width(q) /\ q.b = q.t + Height(q)
BY DEF Rects, Width, Height

(* What cutting a layer to a part of the screen leaves of its crop shows,  *)
(* at the corners of what it leaves of its destination, what the layer     *)
(* asks for there.                                                         *)
LEMMA CutShows ==
  ASSUME NEW asked, asked.crop \in Rects, asked.dst \in Rects, isValidRect(asked.dst),
         asked.transform \subseteq Turns, NEW scissor \in Rects,
         NEW i \in {0, 1}, NEW j \in {0, 1}
  PROVE  LET t == calculate_crop_rects(asked.crop, asked.dst, scissor, asked.transform)
             got == CornerOf(asked.transform, t.crop, i, j)
             ask == PointAsked(asked, IF i = 0 THEN t.dst.l ELSE t.dst.r,
                                      IF j = 0 THEN t.dst.t ELSE t.dst.b) IN
         /\ t.crop \in Rects /\ t.dst \in Rects /\ t.dst = Overlap(asked.dst, scissor)
         /\ Near(got.x, asked.crop.l, Width(asked.crop), ask.x, 1)
         /\ Near(got.y, asked.crop.t, Height(asked.crop), ask.y, 1)
<1> DEFINE crop == asked.crop  dst == asked.dst  transform == asked.transform
           t == calculate_crop_rects(crop, dst, scissor, transform)
           m == Width(dst)  n == Height(dst)
           L == Greatest(scissor.l - dst.l, 0)  R == Greatest(dst.r - scissor.r, 0)
           T == Greatest(scissor.t - dst.t, 0)  B == Greatest(dst.b - scissor.b, 0)
           Sx(k, d) == CutStart(crop.l, Width(crop), [n |-> k, d |-> d])
           Ex(k, d) == CutEnd(crop.r, Width(crop), [n |-> k, d |-> d])
           Sy(k, d) == CutStart(crop.t, Height(crop), [n |-> k, d |-> d])
           Ey(k, d) == CutEnd(crop.b, Height(crop), [n |-> k, d |-> d])
           NearX(p, k, d) == Near(p, crop.l, Width(crop), <<k, d>>, 1)
           NearY(p, k, d) == Near(p, crop.t, Height(crop), <<k, d>>, 1)
           H == "FLIP_H" \in transform  V == "FLIP_V" \in transform
<1>1. /\ crop.l \in Int /\ crop.t \in Int /\ Width(crop) \in Int /\ Height(crop) \in Int
      /\ crop.r = crop.l + Width(crop) /\ crop.b = crop.t + Height(crop)
      /\ dst.l \in Int /\ dst.t \in Int /\ dst.r = dst.l + m /\ dst.b = dst.t + n
      /\ dst.r \in Int /\ dst.b \in Int
      /\ m \in Nat \ {0} /\ n \in Nat \ {0}
      /\ scissor.l \in Int /\ scissor.t \in Int /\ scissor.r \in Int /\ scissor.b \in Int
  BY DEF Rects, Width, Height, isValidRect
<1>2. L \in Int /\ R \in Int /\ T \in Int /\ B \in Int
  BY <1>1 DEF Greatest
<1>3. /\ t.dst = Overlap(dst, scissor) /\ t.dst \in Rects
      /\ t.dst.l = dst.l + L /\ t.dst.r = dst.r - R /\ t.dst.t = dst.t + T /\ t.dst.b = dst.b - B
  BY <1>1 DEF calculate_crop_rects, Overlap, Rect, Rects, Greatest, Least
<1>4. ASSUME NEW k \in Int, NEW d \in Nat \ {0}
      PROVE  /\ Sx(k, d) \in Int /\ Ex(k, d) \in Int /\ Sy(k, d) \in Int /\ Ey(k, d) \in Int
             /\ NearX(Sx(k, d), k, d) /\ NearX(Ex(k, d), d - k, d)
             /\ NearY(Sy(k, d), k, d) /\ NearY(Ey(k, d), d - k, d)
  <2>1. Sx(k, d) \in Int /\ NearX(Sx(k, d), k, d)
    BY <1>1, StartShows
  <2>2. Sy(k, d) \in Int /\ NearY(Sy(k, d), k, d)
    BY <1>1, StartShows
  <2>3. Ex(k, d) \in Int /\ NearX(Ex(k, d), d - k, d)
    BY <1>1, EndShows
  <2>4. Ey(k, d) \in Int /\ NearY(Ey(k, d), d - k, d)
    BY <1>1, EndShows
  <2> QED
    BY <2>1, <2>2, <2>3, <2>4
<1>5. CASE "ROT_90" \in transform
  <2>1. t.crop = Rect(Sx(IF V THEN B ELSE T, n), Sy(IF H THEN L ELSE R, m),
                      Ex(IF V THEN T ELSE B, n), Ey(IF H THEN R ELSE L, m))
    BY <1>5 DEF calculate_crop_rects, CutCrop, calc_cut, SidesCut, Part
  <2> HIDE DEF Sx, Ex, Sy, Ey, L, R, T, B, m, n, NearX, NearY
  <2>2. t.crop \in Rects
    <3>1. /\ Sx(IF V THEN B ELSE T, n) \in Int /\ Sy(IF H THEN L ELSE R, m) \in Int
          /\ Ex(IF V THEN T ELSE B, n) \in Int /\ Ey(IF H THEN R ELSE L, m) \in Int
      BY <1>1, <1>2, <1>4
    <3> QED
      BY <2>1, <3>1 DEF Rect, Rects
  <2> DEFINE fx == IF H THEN dst.r - (IF i = 0 THEN t.dst.l ELSE t.dst.r)
                   ELSE (IF i = 0 THEN t.dst.l ELSE t.dst.r) - dst.l
             fy == IF V THEN dst.b - (IF j = 0 THEN t.dst.t ELSE t.dst.b)
                   ELSE (IF j = 0 THEN t.dst.t ELSE t.dst.b) - dst.t
             got == CornerOf(transform, t.crop, i, j)
             ask == PointAsked(asked, IF i = 0 THEN t.dst.l ELSE t.dst.r,
                                      IF j = 0 THEN t.dst.t ELSE t.dst.b)
  <2>3. ask = [x |-> <<fy, n>>, y |-> <<m - fx, m>>]
    BY <1>5 DEF PointAsked, m, n
  <2>4. NearX(got.x, fy, n)
    <3>1. got.x = IF (V /\ j = 1) \/ (~V /\ j = 0) THEN t.crop.l ELSE t.crop.r
      BY <1>5 DEF CornerOf
    <3>2. fy = IF V THEN (IF j = 0 THEN n - T ELSE B) ELSE (IF j = 0 THEN T ELSE n - B)
      BY <1>1, <1>2, <1>3
    <3>3. t.crop.l = Sx(IF V THEN B ELSE T, n) /\ t.crop.r = Ex(IF V THEN T ELSE B, n)
      BY <2>1 DEF Rect
    <3>4. CASE V
      <4>1. CASE j = 0
        BY <1>1, <1>2, <1>4, <3>1, <3>2, <3>3, <3>4, <4>1
      <4>2. CASE j = 1
        BY <1>1, <1>2, <1>4, <3>1, <3>2, <3>3, <3>4, <4>2
      <4> QED
        BY <4>1, <4>2
    <3>5. CASE ~V
      <4>1. CASE j = 0
        BY <1>1, <1>2, <1>4, <3>1, <3>2, <3>3, <3>5, <4>1
      <4>2. CASE j = 1
        BY <1>1, <1>2, <1>4, <3>1, <3>2, <3>3, <3>5, <4>2
      <4> QED
        BY <4>1, <4>2
    <3> QED
      BY <3>4, <3>5
  <2>5. NearY(got.y, m - fx, m)
    <3>1. got.y = IF (H /\ i = 1) \/ (~H /\ i = 0) THEN t.crop.b ELSE t.crop.t
      BY <1>5 DEF CornerOf
    <3>2. m - fx = IF H THEN (IF i = 0 THEN L ELSE m - R) ELSE (IF i = 0 THEN m - L ELSE R)
      BY <1>1, <1>2, <1>3
    <3>3. t.crop.t = Sy(IF H THEN L ELSE R, m) /\ t.crop.b = Ey(IF H THEN R ELSE L, m)
      BY <2>1 DEF Rect
    <3>4. CASE H
      <4>1. CASE i = 0
        BY <1>1, <1>2, <1>4, <3>1, <3>2, <3>3, <3>4, <4>1
      <4>2. CASE i = 1
        BY <1>1, <1>2, <1>4, <3>1, <3>2, <3>3, <3>4, <4>2
      <4> QED
        BY <4>1, <4>2
    <3>5. CASE ~H
      <4>1. CASE i = 0
        BY <1>1, <1>2, <1>4, <3>1, <3>2, <3>3, <3>5, <4>1
      <4>2. CASE i = 1
        BY <1>1, <1>2, <1>4, <3>1, <3>2, <3>3, <3>5, <4>2
      <4> QED
        BY <4>1, <4>2
    <3> QED
      BY <3>4, <3>5
  <2> QED
    BY <1>3, <2>2, <2>3, <2>4, <2>5 DEF NearX, NearY
<1>6. CASE "ROT_90" \notin transform
  <2>1. t.crop = Rect(Sx(IF H THEN R ELSE L, m), Sy(IF V THEN B ELSE T, n),
                      Ex(IF H THEN L ELSE R, m), Ey(IF V THEN T ELSE B, n))
    BY <1>6 DEF calculate_crop_rects, CutCrop, calc_cut, SidesCut, Part
  <2> HIDE DEF Sx, Ex, Sy, Ey, L, R, T, B, m, n, NearX, NearY
  <2>2. t.crop \in Rects
    <3>1. /\ Sx(IF H THEN R ELSE L, m) \in Int /\ Sy(IF V THEN B ELSE T, n) \in Int
          /\ Ex(IF H THEN L ELSE R, m) \in Int /\ Ey(IF V THEN T ELSE B, n) \in Int
      BY <1>1, <1>2, <1>4
    <3> QED
      BY <2>1, <3>1 DEF Rect, Rects
  <2> DEFINE fx == IF H THEN dst.r - (IF i = 0 THEN t.dst.l ELSE t.dst.r)
                   ELSE (IF i = 0 THEN t.dst.l ELSE t.dst.r) - dst.l
             fy == IF V THEN dst.b - (IF j = 0 THEN t.dst.t ELSE t.dst.b)
                   ELSE (IF j = 0 THEN t.dst.t ELSE t.dst.b) - dst.t
             got == CornerOf(transform, t.crop, i, j)
             ask == PointAsked(asked, IF i = 0 THEN t.dst.l ELSE t.dst.r,
                                      IF j = 0 THEN t.dst.t ELSE t.dst.b)
  <2>3. ask = [x |-> <<fx, m>>, y |-> <<fy, n>>]
    BY <1>6 DEF PointAsked, m, n
  <2>4. NearX(got.x, fx, m)
    <3>1. got.x = IF (H /\ i = 1) \/ (~H /\ i = 0) THEN t.crop.l ELSE t.crop.r
      BY <1>6 DEF CornerOf
    <3>2. fx = IF H THEN (IF i = 0 THEN m - L ELSE R) ELSE (IF i = 0 THEN L ELSE m - R)
      BY <1>1, <1>2, <1>3
    <3>3. t.crop.l = Sx(IF H THEN R ELSE L, m) /\ t.crop.r = Ex(IF H THEN L ELSE R, m)
      BY <2>1 DEF Rect
    <3>4. CASE H
      <4>1. CASE i = 0
        BY <1>1, <1>2, <1>4, <3>1, <3>2, <3>3, <3>4, <4>1
      <4>2. CASE i = 1
        BY <1>1, <1>2, <1>4, <3>1, <3>2, <3>3, <3>4, <4>2
      <4> QED
        BY <4>1, <4>2
    <3>5. CASE ~H
      <4>1. CASE i = 0
        BY <1>1, <1>2, <1>4, <3>1, <3>2, <3>3, <3>5, <4>1
      <4>2. CASE i = 1
        BY <1>1, <1>2, <1>4, <3>1, <3>2, <3>3, <3>5, <4>2
      <4> QED
        BY <4>1, <4>2
    <3> QED
      BY <3>4, <3>5
  <2>5. NearY(got.y, fy, n)
    <3>1. got.y = IF (V /\ j = 1) \/ (~V /\ j = 0) THEN t.crop.t ELSE t.crop.b
      BY <1>6 DEF CornerOf
    <3>2. fy = IF V THEN (IF j = 0 THEN n - T ELSE B) ELSE (IF j = 0 THEN T ELSE n - B)
      BY <1>1, <1>2, <1>3
    <3>3. t.crop.t = Sy(IF V THEN B ELSE T, n) /\ t.crop.b = Ey(IF V THEN T ELSE B, n)
      BY <2>1 DEF Rect
    <3>4. CASE V
      <4>1. CASE j = 0
        BY <1>1, <1>2, <1>4, <3>1, <3>2, <3>3, <3>4, <4>1
      <4>2. CASE j = 1
        BY <1>1, <1>2, <1>4, <3>1, <3>2, <3>3, <3>4, <4>2
      <4> QED
        BY <4>1, <4>2
    <3>5. CASE ~V
      <4>1. CASE j = 0
        BY <1>1, <1>2, <1>4, <3>1, <3>2, <3>3, <3>5, <4>1
      <4>2. CASE j = 1
        BY <1>1, <1>2, <1>4, <3>1, <3>2, <3>3, <3>5, <4>2
      <4> QED
        BY <4>1, <4>2
    <3> QED
      BY <3>4, <3>5
  <2> QED
    BY <1>3, <2>2, <2>3, <2>4, <2>5 DEF NearX, NearY
<1> QED
  BY <1>5, <1>6

(* The sides of the crop are where none and all of it has been crossed.    *)
LEMMA EndsShow ==
  ASSUME NEW lo \in Int, NEW size \in Int, NEW d \in Nat \ {0}, NEW f \in {0, d}, NEW p,
         p = IF f = 0 THEN lo ELSE lo + size
  PROVE  p \in Int /\ Near(p, lo, size, <<f, d>>, 1)
<1>1. CASE f = 0
  BY <1>1 DEF Near
<1>2. CASE f = d /\ f # 0
  BY <1>2 DEF Near
<1> QED
  BY <1>1, <1>2

AskedOk(asked) ==
  /\ asked.crop \in Rects /\ asked.dst \in Rects /\ isValidRect(asked.dst)
  /\ asked.transform \in SUBSET Turns

(* The corner of a crop that t.crop leaves shows what is asked for at that *)
(* of the destination t.dst.                                               *)
ShowsAt(asked, crop, dst, i, j) ==
  LET got == CornerOf(asked.transform, crop, i, j)
      ask == PointAsked(asked, IF i = 0 THEN dst.l ELSE dst.r, IF j = 0 THEN dst.t ELSE dst.b) IN
  /\ Near(got.x, asked.crop.l, Width(asked.crop), ask.x, 1)
  /\ Near(got.y, asked.crop.t, Height(asked.crop), ask.y, 1)

(* A crop that is left whole shows at its corners what is asked for there. *)
LEMMA UncutShows ==
  ASSUME NEW asked, AskedOk(asked), NEW i \in {0, 1}, NEW j \in {0, 1}
  PROVE  ShowsAt(asked, asked.crop, asked.dst, i, j)
<1>0. /\ asked.crop \in Rects /\ asked.dst \in Rects /\ isValidRect(asked.dst)
      /\ asked.transform \subseteq Turns
  BY DEF AskedOk
<1> USE <1>0
<1> DEFINE crop == asked.crop  dst == asked.dst  m == Width(dst)  n == Height(dst)
           X == IF i = 0 THEN dst.l ELSE dst.r  Y == IF j = 0 THEN dst.t ELSE dst.b
           H == "FLIP_H" \in asked.transform  V == "FLIP_V" \in asked.transform
           fx == IF H THEN dst.r - X ELSE X - dst.l
           fy == IF V THEN dst.b - Y ELSE Y - dst.t
           got == CornerOf(asked.transform, crop, i, j)
           ask == PointAsked(asked, X, Y)
<1>1. /\ crop.l \in Int /\ crop.t \in Int /\ crop.r \in Int /\ crop.b \in Int
      /\ Width(crop) \in Int /\ Height(crop) \in Int
      /\ crop.r = crop.l + Width(crop) /\ crop.b = crop.t + Height(crop)
  BY DEF Rects, Width, Height
<1>2. /\ m = dst.r - dst.l /\ n = dst.b - dst.t /\ m \in Nat \ {0} /\ n \in Nat \ {0}
      /\ dst.l \in Int /\ dst.t \in Int /\ dst.r \in Int /\ dst.b \in Int
  BY DEF Rects, Width, Height, isValidRect
<1>3. /\ fx = IF (H /\ i = 1) \/ (~H /\ i = 0) THEN 0 ELSE m
      /\ fy = IF (V /\ j = 1) \/ (~V /\ j = 0) THEN 0 ELSE n
  BY <1>2
<1>4. fx \in {0, m} /\ fy \in {0, n} /\ m - fx \in {0, m}
  BY <1>2, <1>3
<1>5. ASSUME "ROT_90" \in asked.transform
      PROVE  /\ Near(got.x, crop.l, Width(crop), ask.x, 1)
             /\ Near(got.y, crop.t, Height(crop), ask.y, 1)
  <2>1. ask = [x |-> <<fy, n>>, y |-> <<m - fx, m>>]
    BY <1>5 DEF PointAsked
  <2>2. /\ got.x = IF fy = 0 THEN crop.l ELSE crop.l + Width(crop)
        /\ got.y = IF m - fx = 0 THEN crop.t ELSE crop.t + Height(crop)
    BY <1>1, <1>2, <1>3, <1>5 DEF CornerOf
  <2> HIDE DEF fx, fy, got, m, n, ask, crop
  <2>3. Near(got.x, crop.l, Width(crop), <<fy, n>>, 1)
    BY <1>1, <1>2, <1>4, <2>2, EndsShow
  <2>4. Near(got.y, crop.t, Height(crop), <<m - fx, m>>, 1)
    BY <1>1, <1>2, <1>4, <2>2, EndsShow
  <2>5. Near(got.x, crop.l, Width(crop), ask.x, 1) /\ Near(got.y, crop.t, Height(crop), ask.y, 1)
    BY <2>1, <2>3, <2>4
  <2> QED
    BY <2>5
<1>6. ASSUME "ROT_90" \notin asked.transform
      PROVE  /\ Near(got.x, crop.l, Width(crop), ask.x, 1)
             /\ Near(got.y, crop.t, Height(crop), ask.y, 1)
  <2>1. ask = [x |-> <<fx, m>>, y |-> <<fy, n>>]
    BY <1>6 DEF PointAsked
  <2>2. /\ got.x = IF fx = 0 THEN crop.l ELSE crop.l + Width(crop)
        /\ got.y = IF fy = 0 THEN crop.t ELSE crop.t + Height(crop)
    BY <1>1, <1>2, <1>3, <1>6 DEF CornerOf
  <2> HIDE DEF fx, fy, got, m, n, ask, crop
  <2>3. Near(got.x, crop.l, Width(crop), <<fx, m>>, 1)
    BY <1>1, <1>2, <1>4, <2>2, EndsShow
  <2>4. Near(got.y, crop.t, Height(crop), <<fy, n>>, 1)
    BY <1>1, <1>2, <1>4, <2>2, EndsShow
  <2>5. Near(got.x, crop.l, Width(crop), ask.x, 1) /\ Near(got.y, crop.t, Height(crop), ask.y, 1)
    BY <2>1, <2>3, <2>4
  <2> QED
    BY <2>5
<1> QED
  BY <1>5, <1>6 DEF ShowsAt

(* So does one that trimLayer has cut with its destination.                *)
LEMMA TrimShows ==
  ASSUME NEW asked, AskedOk(asked), NEW w \in Int, NEW h \in Int,
         NEW t, t = trimLayer(Screen(w, h), asked.transform, asked.crop, asked.dst)
  PROVE  /\ t.crop \in Rects /\ t.dst \in Rects /\ t.dst = Overlap(asked.dst, Screen(w, h))
         /\ \A i, j \in {0, 1} : ShowsAt(asked, t.crop, t.dst, i, j)
<1> DEFINE dst == asked.dst
           over == dst.l < 0 \/ dst.t < 0 \/ dst.r > w \/ dst.b > h
<1>1. /\ Screen(w, h) \in Rects
      /\ asked.crop \in Rects /\ asked.dst \in Rects /\ isValidRect(asked.dst)
      /\ asked.transform \subseteq Turns
  BY DEF Screen, Rect, Rects, AskedOk
<1>2. CASE over
  <2>1. t = calculate_crop_rects(asked.crop, dst, Screen(w, h), asked.transform)
    BY <1>2 DEF trimLayer, Screen, Rect
  <2>2. t.crop \in Rects /\ t.dst \in Rects /\ t.dst = Overlap(dst, Screen(w, h))
    BY <1>1, <2>1, CutShows
  <2>3. ASSUME NEW i \in {0, 1}, NEW j \in {0, 1}
        PROVE  ShowsAt(asked, t.crop, t.dst, i, j)
    BY <1>1, <2>1, CutShows DEF ShowsAt
  <2> QED
    BY <2>2, <2>3
<1>3. CASE ~over
  <2>1. t = [crop |-> asked.crop, dst |-> dst]
    BY <1>3 DEF trimLayer, Screen, Rect
  <2>2. dst = Overlap(dst, Screen(w, h))
    BY <1>1, <1>3 DEF Overlap, Screen, Rect, Rects, Greatest, Least
  <2>3. ASSUME NEW i \in {0, 1}, NEW j \in {0, 1}
        PROVE  ShowsAt(asked, t.crop, t.dst, i, j)
    BY <2>1, UncutShows
  <2> QED
    BY <1>1, <2>1, <2>2, <2>3
<1> QED
  BY <1>2, <1>3

(* What a session makes of a buffer, turned back, is the buffer: each      *)
(* coordinate of the buffer is c + s * x of one of what has been made of   *)
(* it, x, where s is 1 or -1.                                              *)
AxesOf(k) ==
  IF "ROT_90" \in k.orient
  THEN [x |-> [c |-> IF "FLIP_H" \in k.orient THEN k.w ELSE 0,
               s |-> IF "FLIP_H" \in k.orient THEN -1 ELSE 1],
        y |-> [c |-> IF "FLIP_V" \in k.orient THEN 0 ELSE k.h,
               s |-> IF "FLIP_V" \in k.orient THEN 1 ELSE -1]]
  ELSE [x |-> [c |-> IF "FLIP_H" \in k.orient THEN k.w ELSE 0,
               s |-> IF "FLIP_H" \in k.orient THEN -1 ELSE 1],
        y |-> [c |-> IF "FLIP_V" \in k.orient THEN k.h ELSE 0,
               s |-> IF "FLIP_V" \in k.orient THEN -1 ELSE 1]]

(* Turning a point back moves it along each axis, or against it.           *)
LEMMA SessionAxes ==
  ASSUME NEW k, k.w \in Int, k.h \in Int, NEW p, NEW x \in Int, NEW y \in Int,
         p = [x |-> x, y |-> y]
  PROVE  LET axes == AxesOf(k)
             turned == "ROT_90" \in k.orient IN
         /\ axes.x.c \in Int /\ axes.x.s \in {1, -1}
         /\ axes.y.c \in Int /\ axes.y.s \in {1, -1}
         /\ TurnedBack(k, p).x = axes.x.c + axes.x.s * (IF turned THEN y ELSE x)
         /\ TurnedBack(k, p).y = axes.y.c + axes.y.s * (IF turned THEN x ELSE y)
<1>1. CASE "ROT_90" \in k.orient
  <2>1. TurnedBack(k, p) = [x |-> IF "FLIP_H" \in k.orient THEN k.w - y ELSE y,
                            y |-> IF "FLIP_V" \in k.orient THEN x ELSE k.h - x]
    BY <1>1 DEF TurnedBack
  <2> QED
    BY <1>1, <2>1 DEF AxesOf
<1>2. CASE "ROT_90" \notin k.orient
  <2>1. TurnedBack(k, p) = [x |-> IF "FLIP_H" \in k.orient THEN k.w - x ELSE x,
                            y |-> IF "FLIP_V" \in k.orient THEN k.h - y ELSE y]
    BY <1>2 DEF TurnedBack
  <2> QED
    BY <1>2, <2>1 DEF AxesOf
<1> QED
  BY <1>1, <1>2

(* The corners of the crop as the pipe sees it, turned back, are those the *)
(* layer's transform puts at the corners of its destination.               *)
LEMMA TurnedCorner ==
  ASSUME NEW transform \in SUBSET Turns, NEW k, k.w \in Int, k.h \in Int,
         k.orient = getMdpOrient(transform), NEW whf, whf.w = k.w, whf.h = k.h,
         NEW crop \in Rects, NEW i \in {0, 1}, NEW j \in {0, 1},
         NEW q, q = updateSource(transform, whf, crop).crop
  PROVE  /\ q \in Rects /\ Width(q) * Height(q) = Width(crop) * Height(crop)
         /\ TurnedBack(k, [x |-> IF i = 0 THEN q.l ELSE q.r, y |-> IF j = 0 THEN q.t ELSE q.b])
              = CornerOf(transform, crop, i, j)
<1> DEFINE mdp == getMdpOrient(transform)
           H == "FLIP_H" \in mdp  V == "FLIP_V" \in mdp
           x == IF H THEN k.w - crop.r ELSE crop.l
           y == IF V THEN k.h - crop.b ELSE crop.t
<1>1. /\ crop.l \in Int /\ crop.t \in Int /\ crop.r \in Int /\ crop.b \in Int
  BY DEF Rects
<1>2. CASE "ROT_90" \in transform
  <2>1. /\ "ROT_90" \in mdp
        /\ H <=> ("FLIP_H" \in transform /\ "FLIP_V" \in transform)
                 \/ ("FLIP_H" \notin transform /\ "FLIP_V" \in transform)
        /\ V <=> ("FLIP_H" \in transform /\ "FLIP_V" \in transform)
                 \/ ("FLIP_V" \notin transform /\ "FLIP_H" \in transform)
    BY <1>2 DEF getMdpOrient, Flips, Turns
  <2>2. q = Rect(k.h - (y + Height(crop)), x, k.h - y, x + Width(crop))
    BY <2>1 DEF updateSource, preRotateSource
  <2> QED
    BY <1>1, <1>2, <2>1, <2>2 DEF TurnedBack, CornerOf, Rect, Rects, Width, Height
<1>3. CASE "ROT_90" \notin transform
  <2>1. mdp = transform
    BY <1>3 DEF getMdpOrient
  <2>2. q = [l |-> x, t |-> y, r |-> x + Width(crop), b |-> y + Height(crop)]
    BY <1>3, <2>1 DEF updateSource, preRotateSource, Rect
  <2>3. /\ x \in Int /\ y \in Int /\ Width(crop) \in Int /\ Height(crop) \in Int
        /\ crop.r = crop.l + Width(crop) /\ crop.b = crop.t + Height(crop)
    BY <1>1 DEF Width, Height
  <2>4. q \in Rects /\ Width(q) = Width(crop) /\ Height(q) = Height(crop)
    <3> HIDE DEF x, y
    <3> QED
      BY <2>2, <2>3 DEF Rects, Width, Height
  <2>5. \A a, b \in Int : TurnedBack(k, [x |-> a, y |-> b]) =
          [x |-> IF "FLIP_H" \in transform THEN k.w - a ELSE a,
           y |-> IF "FLIP_V" \in transform THEN k.h - b ELSE b]
    BY <1>3, <2>1 DEF TurnedBack
  <2>6. CornerOf(transform, crop, i, j) =
          [x |-> IF "FLIP_H" \in transform THEN (IF i = 0 THEN crop.r ELSE crop.l)
                 ELSE IF i = 0 THEN crop.l ELSE crop.r,
           y |-> IF "FLIP_V" \in transform THEN (IF j = 0 THEN crop.b ELSE crop.t)
                 ELSE IF j = 0 THEN crop.t ELSE crop.b]
    BY <1>3 DEF CornerOf
  <2>7. /\ q.l = IF "FLIP_H" \in transform THEN k.w - crop.r ELSE crop.l
        /\ q.r = IF "FLIP_H" \in transform THEN k.w - crop.l ELSE crop.r
        /\ q.t = IF "FLIP_V" \in transform THEN k.h - crop.b ELSE crop.t
        /\ q.b = IF "FLIP_V" \in transform THEN k.h - crop.t ELSE crop.b
    BY <1>1, <2>1, <2>2 DEF Width, Height
  <2> HIDE DEF x, y, mdp, H, V
  <2>8. q.l \in Int /\ q.r \in Int /\ q.t \in Int /\ q.b \in Int
    BY <2>4 DEF Rects
  <2> QED
    BY <1>1, <2>4, <2>5, <2>6, <2>7, <2>8
<1> QED
  BY <1>2, <1>3

-----------------------------------------------------------------------------
(* What MdpCtrl::set makes of a crop and a destination.                    *)

(* The powers of two that shrink.                                          *)
LEMMA Powers == 2 ^ 0 = 1 /\ 2 ^ 1 = 2 /\ 2 ^ 2 = 4 /\ 2 ^ 3 = 8
OBVIOUS

(* The rotator shrinks by 1, 2, 4 or 8.                                    *)
LEMMA Halvings == ASSUME NEW ds \in 0 .. 3 PROVE 2 ^ ds \in {1, 2, 4, 8}
<1>1. ds = 0 \/ ds = 1 \/ ds = 2 \/ ds = 3
  OBVIOUS
<1> QED
  BY <1>1, Powers

(* What is read of an interval from l on, of w, by one of s, and evened.   *)
LEMMA Evened ==
  ASSUME NEW x \in Int, NEW w \in Int
  PROVE  LET q == normalizeCrop(x, w) IN
         /\ q[1] \in Int /\ q[2] \in Int
         /\ 0 <= q[1] - x /\ q[1] - x <= 1
         /\ -1 <= q[1] + q[2] - (x + w) /\ q[1] + q[2] - (x + w) <= 0
BY DEF normalizeCrop

(* What rounding down leaves out.                                          *)
LEMMA DividedDown ==
  ASSUME NEW x \in Int, NEW s \in {1, 2, 4, 8}
  PROVE  x \div s \in Int /\ x - (x \div s) * s \in 0 .. s - 1
OBVIOUS

(* What is read of an interval from l on, of w, is near it, when it is     *)
(* stretched by s again.                                                   *)
ReadNear(q, l, w, s) ==
  /\ q[1] \in Int /\ q[2] \in Int
  /\ -(3 * s - 2) <= q[1] * s - l /\ q[1] * s - l <= 3 * s - 2
  /\ -(3 * s - 2) <= (q[1] + q[2]) * s - (l + w) /\ (q[1] + q[2]) * s - (l + w) <= 3 * s - 2

(* Both ends of an interval that is shrunk and evened stay near where they *)
(* are.                                                                    *)
LEMMA SideReadNear ==
  ASSUME NEW l \in Int, NEW w \in Int, NEW s \in {1, 2, 4, 8}, NEW q,
         q = normalizeCrop(l \div s, w \div s) \/ q = <<l \div s, w \div s>>
  PROVE  ReadNear(q, l, w, s)
<1> DEFINE x == l \div s  y == w \div s
<1>1. /\ x \in Int /\ y \in Int
      /\ 0 <= l - x * s /\ l - x * s <= s - 1 /\ 0 <= w - y * s /\ w - y * s <= s - 1
  BY DividedDown
<1> HIDE DEF x, y
<1>2. /\ q[1] \in Int /\ q[2] \in Int
      /\ 0 <= q[1] - x /\ q[1] - x <= 1
      /\ -1 <= q[1] + q[2] - (x + y) /\ q[1] + q[2] - (x + y) <= 0
  <2>1. CASE q = normalizeCrop(x, y)
    BY <1>1, <2>1, Evened
  <2>2. CASE q = <<x, y>>
    BY <1>1, <2>2
  <2> QED
    BY <2>1, <2>2 DEF x, y
<1>3. CASE s = 1
  BY <1>1, <1>2, <1>3 DEF ReadNear
<1>4. CASE s = 2
  BY <1>1, <1>2, <1>4 DEF ReadNear
<1>5. CASE s = 4
  BY <1>1, <1>2, <1>5 DEF ReadNear
<1>6. CASE s = 8
  BY <1>1, <1>2, <1>6 DEF ReadNear
<1> QED
  BY <1>3, <1>4, <1>5, <1>6

(* What MdpCtrl::set reads is near the crop, when it is stretched again.   *)
LEMMA MdpSetReads ==
  ASSUME NEW crop \in Rects, NEW dst \in Rects, NEW ds \in 0 .. 3, NEW kind,
         NEW s, s = 2 ^ ds, NEW m, m = MdpSet(crop, dst, ds, kind = "yuv")
  PROVE  LET Within(a, b) == -(3 * s - 2) <= a * s - b /\ a * s - b <= 3 * s - 2 IN
         /\ m.src \in Rects
         /\ Within(m.src.l, crop.l) /\ Within(m.src.t, crop.t)
         /\ Within(m.src.r, crop.r) /\ Within(m.src.b, crop.b)
<1> DEFINE yuv == kind = "yuv"
           x == IF yuv THEN normalizeCrop(crop.l \div s, Width(crop) \div s)
                ELSE <<crop.l \div s, Width(crop) \div s>>
           y == IF yuv THEN normalizeCrop(crop.t \div s, Height(crop) \div s)
                ELSE <<crop.t \div s, Height(crop) \div s>>
<1>1. s \in {1, 2, 4, 8}
  BY Halvings
<1>2. /\ crop.l \in Int /\ crop.t \in Int /\ Width(crop) \in Int /\ Height(crop) \in Int
      /\ crop.r = crop.l + Width(crop) /\ crop.b = crop.t + Height(crop)
  BY RectFacts
<1>3. m.src = [l |-> x[1], t |-> y[1], r |-> x[1] + x[2], b |-> y[1] + y[2]]
  BY DEF MdpSet, Rect
<1>4. /\ x[1] \in Int /\ x[2] \in Int /\ y[1] \in Int /\ y[2] \in Int
      /\ -(3 * s - 2) <= x[1] * s - crop.l /\ x[1] * s - crop.l <= 3 * s - 2
      /\ -(3 * s - 2) <= y[1] * s - crop.t /\ y[1] * s - crop.t <= 3 * s - 2
      /\ -(3 * s - 2) <= (x[1] + x[2]) * s - crop.r /\ (x[1] + x[2]) * s - crop.r <= 3 * s - 2
      /\ -(3 * s - 2) <= (y[1] + y[2]) * s - crop.b /\ (y[1] + y[2]) * s - crop.b <= 3 * s - 2
  <2>1. /\ x = normalizeCrop(crop.l \div s, Width(crop) \div s)
             \/ x = <<crop.l \div s, Width(crop) \div s>>
        /\ y = normalizeCrop(crop.t \div s, Height(crop) \div s)
             \/ y = <<crop.t \div s, Height(crop) \div s>>
    OBVIOUS
  <2> HIDE DEF x, y
  <2>2. /\ x[1] \in Int /\ x[2] \in Int
        /\ -(3 * s - 2) <= x[1] * s - crop.l /\ x[1] * s - crop.l <= 3 * s - 2
        /\ -(3 * s - 2) <= (x[1] + x[2]) * s - crop.r /\ (x[1] + x[2]) * s - crop.r <= 3 * s - 2
    <3>1. ReadNear(x, crop.l, Width(crop), s)
      BY <1>1, <1>2, <2>1, SideReadNear
    <3>2. crop.r = crop.l + Width(crop)
      BY <1>2
    <3> QED
      BY <3>1, <3>2 DEF ReadNear
  <2>3. /\ y[1] \in Int /\ y[2] \in Int
        /\ -(3 * s - 2) <= y[1] * s - crop.t /\ y[1] * s - crop.t <= 3 * s - 2
        /\ -(3 * s - 2) <= (y[1] + y[2]) * s - crop.b /\ (y[1] + y[2]) * s - crop.b <= 3 * s - 2
    <3>1. ReadNear(y, crop.t, Height(crop), s)
      BY <1>1, <1>2, <2>1, SideReadNear
    <3>2. crop.b = crop.t + Height(crop)
      BY <1>2
    <3> QED
      BY <3>1, <3>2 DEF ReadNear
  <2> QED
    BY <2>2, <2>3
<1>5. m.src \in Rects
  <2> HIDE DEF x, y
  <2> QED
    BY <1>3, <1>4 DEF Rects
<1> HIDE DEF x, y
<1>6. /\ m.src.l = x[1] /\ m.src.t = y[1] /\ m.src.r = x[1] + x[2] /\ m.src.b = y[1] + y[2]
  BY <1>3
<1> QED
  BY <1>4, <1>5, <1>6

(* Without shrinking and evening it is the crop.                           *)
LEMMA MdpSetReadsAll ==
  ASSUME NEW crop \in Rects, NEW dst, NEW m, m = MdpSet(crop, dst, 0, FALSE)
  PROVE  m.src = crop
<1>1. /\ crop.l \in Int /\ crop.t \in Int /\ Width(crop) \in Int /\ Height(crop) \in Int
      /\ crop.r = crop.l + Width(crop) /\ crop.b = crop.t + Height(crop)
  BY RectFacts
<1>2. \A v \in Int : v \div (2 ^ 0) = v
  BY Powers
<1>3. m.src = [l |-> crop.l, t |-> crop.t, r |-> crop.l + Width(crop), b |-> crop.t + Height(crop)]
  BY <1>1, <1>2 DEF MdpSet, Rect
<1>4. crop = [l |-> crop.l, t |-> crop.t, r |-> crop.r, b |-> crop.b]
  BY DEF Rects
<1> QED
  BY <1>1, <1>3, <1>4

(* What it fills is the destination, evened.                               *)
LEMMA MdpSetFills ==
  ASSUME NEW crop, NEW dst \in Rects, NEW ds, NEW kind,
         NEW m, m = MdpSet(crop, dst, ds, kind = "yuv")
  PROVE  /\ m.dst \in Rects /\ m.dst.l = dst.l /\ m.dst.t = dst.t
         /\ dst.r - m.dst.r \in 0 .. 1 /\ dst.b - m.dst.b \in 0 .. 1
<1> DEFINE Even(v) == IF kind = "yuv" THEN v - (v % 2) ELSE v
<1>1. /\ dst.l \in Int /\ dst.t \in Int /\ Width(dst) \in Int /\ Height(dst) \in Int
      /\ dst.r = dst.l + Width(dst) /\ dst.b = dst.t + Height(dst)
  BY RectFacts
<1>2. m.dst = [l |-> dst.l, t |-> dst.t, r |-> dst.l + Even(Width(dst)),
               b |-> dst.t + Even(Height(dst))]
  BY DEF MdpSet, Rect
<1>3. \A v \in Int : Even(v) \in Int /\ v - Even(v) \in 0 .. 1
  OBVIOUS
<1>4. /\ Even(Width(dst)) \in Int /\ Width(dst) - Even(Width(dst)) \in 0 .. 1
      /\ Even(Height(dst)) \in Int /\ Height(dst) - Even(Height(dst)) \in 0 .. 1
  BY <1>1, <1>3
<1> HIDE DEF Even
<1> QED
  BY <1>1, <1>2, <1>4 DEF Rects

-----------------------------------------------------------------------------
(* Turning.                                                                *)

(* How what a pipe reads is turned back: by its session k, if it has one.  *)
TurnOf(rot, k, p) == IF rot = 0 THEN p ELSE TurnedBack(k, p)

(* The ways a crop is turned: by the pipe's flips, or by a session, which  *)
(* gives it to the pipe as the rectangle q.                                *)
Turned(rot, k, flips, transform, crop, q) ==
  \/ rot = 0 /\ "ROT_90" \notin transform /\ flips = transform \cap Flips /\ q = crop
  \/ /\ rot # 0 /\ k.w \in Int /\ k.h \in Int /\ k.orient = getMdpOrient(transform)
     /\ flips = {} /\ \E whf : /\ whf.w = k.w /\ whf.h = k.h
                               /\ q = updateSource(transform, whf, crop).crop

(* Turned by the session, or flipped by the pipe, a corner shows what the  *)
(* transform puts there.                                                   *)
LEMMA TurnedShows ==
  ASSUME NEW rot, NEW k, NEW flips, NEW transform \in SUBSET Turns, NEW crop \in Rects, NEW q,
         Turned(rot, k, flips, transform, crop, q), NEW i \in {0, 1}, NEW j \in {0, 1},
         NEW a, a = IF "FLIP_H" \in flips THEN 1 - i ELSE i,
         NEW b, b = IF "FLIP_V" \in flips THEN 1 - j ELSE j
  PROVE  /\ q \in Rects /\ Width(q) * Height(q) = Width(crop) * Height(crop)
         /\ a \in {0, 1} /\ b \in {0, 1}
         /\ TurnOf(rot, k, [x |-> IF a = 0 THEN q.l ELSE q.r, y |-> IF b = 0 THEN q.t ELSE q.b])
              = CornerOf(transform, crop, i, j)
<1>0. a \in {0, 1} /\ b \in {0, 1}
  OBVIOUS
<1>1. CASE rot = 0 /\ "ROT_90" \notin transform /\ flips = transform \cap Flips /\ q = crop
  <2>1. ("FLIP_H" \in flips <=> "FLIP_H" \in transform)
         /\ ("FLIP_V" \in flips <=> "FLIP_V" \in transform)
    BY <1>1 DEF Flips
  <2> QED
    BY <1>0, <1>1, <2>1 DEF TurnOf, CornerOf
<1>2. CASE /\ rot # 0 /\ k.w \in Int /\ k.h \in Int /\ k.orient = getMdpOrient(transform)
           /\ flips = {} /\ \E whf : /\ whf.w = k.w /\ whf.h = k.h
                                     /\ q = updateSource(transform, whf, crop).crop
  <2>1. PICK whf : whf.w = k.w /\ whf.h = k.h /\ q = updateSource(transform, whf, crop).crop
    BY <1>2
  <2>2. a = i /\ b = j
    BY <1>2
  <2>3. /\ q \in Rects /\ Width(q) * Height(q) = Width(crop) * Height(crop)
        /\ TurnedBack(k, [x |-> IF i = 0 THEN q.l ELSE q.r, y |-> IF j = 0 THEN q.t ELSE q.b])
              = CornerOf(transform, crop, i, j)
    <3>1. /\ k.w \in Int /\ k.h \in Int /\ k.orient = getMdpOrient(transform)
      BY <1>2
    <3> QED
      BY <2>1, <3>1, TurnedCorner
  <2> QED
    BY <1>0, <1>2, <2>2, <2>3 DEF TurnOf
<1> QED
  BY <1>1, <1>2 DEF Turned

(* Turning keeps the sides of a crop, or swaps them.                       *)
LEMMA TurnedSides ==
  ASSUME NEW transform, NEW whf, whf.w \in Int, whf.h \in Int, NEW crop \in Rects,
         NEW q, q = updateSource(transform, whf, crop).crop
  PROVE  /\ q \in Rects
         /\ \/ Width(q) = Width(crop) /\ Height(q) = Height(crop)
            \/ Width(q) = Height(crop) /\ Height(q) = Width(crop)
<1> DEFINE mdp == getMdpOrient(transform)
           x == IF "FLIP_H" \in mdp THEN whf.w - crop.r ELSE crop.l
           y == IF "FLIP_V" \in mdp THEN whf.h - crop.b ELSE crop.t
           w == Width(crop)  h == Height(crop)
<1>1. /\ w \in Int /\ h \in Int /\ x \in Int /\ y \in Int
  BY RectFacts
<1>2. q = IF "ROT_90" \in mdp
          THEN [l |-> whf.h - (y + h), t |-> x, r |-> whf.h - y, b |-> x + w]
          ELSE [l |-> x, t |-> y, r |-> x + w, b |-> y + h]
  BY DEF updateSource, preRotateSource, Rect
<1> HIDE DEF mdp, x, y, w, h
<1>3. CASE "ROT_90" \in mdp
  <2>1. q \in Rects /\ Width(q) = h /\ Height(q) = w
    BY <1>1, <1>2, <1>3 DEF Rects, Width, Height
  <2> QED
    BY <2>1 DEF w, h
<1>4. CASE "ROT_90" \notin mdp
  <2>1. q \in Rects /\ Width(q) = w /\ Height(q) = h
    BY <1>1, <1>2, <1>4 DEF Rects, Width, Height
  <2> QED
    BY <2>1 DEF w, h
<1> QED
  BY <1>3, <1>4

(* So does what the session or the pipe makes of it.                       *)
LEMMA TurnedRect ==
  ASSUME NEW rot, NEW k, NEW flips, NEW transform, NEW crop \in Rects, NEW q,
         Turned(rot, k, flips, transform, crop, q)
  PROVE  /\ q \in Rects
         /\ \/ Width(q) = Width(crop) /\ Height(q) = Height(crop)
            \/ Width(q) = Height(crop) /\ Height(q) = Width(crop)
<1>1. CASE q = crop
  BY <1>1
<1>2. CASE /\ k.w \in Int /\ k.h \in Int
           /\ \E whf : /\ whf.w = k.w /\ whf.h = k.h
                       /\ q = updateSource(transform, whf, crop).crop
  <2>1. PICK whf : whf.w = k.w /\ whf.h = k.h /\ q = updateSource(transform, whf, crop).crop
    BY <1>2
  <2> QED
    BY <1>2, <2>1, TurnedSides
<1> QED
  BY <1>1, <1>2 DEF Turned

TurnAxes(rot, k) ==
  IF rot = 0 THEN [x |-> [c |-> 0, s |-> 1], y |-> [c |-> 0, s |-> 1]] ELSE AxesOf(k)

(* A point that is turned back moves along each axis, or against it,       *)
(* whether there is a session or not.                                      *)
LEMMA TurnHasAxes ==
  ASSUME NEW rot, NEW k, NEW flips, NEW transform \in SUBSET Turns, NEW crop, NEW q,
         Turned(rot, k, flips, transform, crop, q), NEW x \in Int, NEW y \in Int
  PROVE  LET axes == TurnAxes(rot, k)
             got == TurnOf(rot, k, [x |-> x, y |-> y])
             turned == "ROT_90" \in transform IN
         /\ axes.x.c \in Int /\ axes.x.s \in {1, -1}
         /\ axes.y.c \in Int /\ axes.y.s \in {1, -1}
         /\ got.x = axes.x.c + axes.x.s * (IF turned THEN y ELSE x)
         /\ got.y = axes.y.c + axes.y.s * (IF turned THEN x ELSE y)
<1>1. CASE rot = 0 /\ "ROT_90" \notin transform
  BY <1>1 DEF TurnOf, TurnAxes
<1>2. CASE rot # 0 /\ k.w \in Int /\ k.h \in Int /\ k.orient = getMdpOrient(transform)
  <2>1. "ROT_90" \in k.orient <=> "ROT_90" \in transform
    BY <1>2 DEF getMdpOrient, Flips, Turns
  <2>2. TurnAxes(rot, k) = AxesOf(k)
    BY <1>2 DEF TurnAxes
  <2>3. TurnOf(rot, k, [x |-> x, y |-> y]) = TurnedBack(k, [x |-> x, y |-> y])
    BY <1>2 DEF TurnOf
  <2> DEFINE axes == AxesOf(k)  p == [x |-> x, y |-> y]
             turned == "ROT_90" \in k.orient
  <2>4. /\ axes.x.c \in Int /\ axes.x.s \in {1, -1}
        /\ axes.y.c \in Int /\ axes.y.s \in {1, -1}
        /\ TurnedBack(k, p).x = axes.x.c + axes.x.s * (IF turned THEN y ELSE x)
        /\ TurnedBack(k, p).y = axes.y.c + axes.y.s * (IF turned THEN x ELSE y)
    BY <1>2, SessionAxes
  <2> QED
    BY <2>1, <2>2, <2>3, <2>4
<1> QED
  BY <1>1, <1>2 DEF Turned

(* Points that are close to one another are so when they are turned back.  *)
LEMMA TurnedStayClose ==
  ASSUME NEW rot, NEW k, NEW flips, NEW transform \in SUBSET Turns, NEW crop, NEW q,
         Turned(rot, k, flips, transform, crop, q), NEW e \in Nat,
         NEW x \in Int, NEW y \in Int, NEW z \in Int, NEW u \in Int,
         x - z <= e, z - x <= e, y - u <= e, u - y <= e
  PROVE  LET p == TurnOf(rot, k, [x |-> x, y |-> y])
             r == TurnOf(rot, k, [x |-> z, y |-> u]) IN
         /\ p.x \in Int /\ p.y \in Int /\ r.x \in Int /\ r.y \in Int
         /\ p.x - r.x <= e /\ r.x - p.x <= e /\ p.y - r.y <= e /\ r.y - p.y <= e
<1> DEFINE axes == TurnAxes(rot, k)  turned == "ROT_90" \in transform
           p == TurnOf(rot, k, [x |-> x, y |-> y])
           r == TurnOf(rot, k, [x |-> z, y |-> u])
<1>1. /\ axes.x.c \in Int /\ axes.x.s \in {1, -1} /\ axes.y.c \in Int /\ axes.y.s \in {1, -1}
      /\ p.x = axes.x.c + axes.x.s * (IF turned THEN y ELSE x)
      /\ p.y = axes.y.c + axes.y.s * (IF turned THEN x ELSE y)
  BY TurnHasAxes
<1>2. /\ r.x = axes.x.c + axes.x.s * (IF turned THEN u ELSE z)
      /\ r.y = axes.y.c + axes.y.s * (IF turned THEN z ELSE u)
  BY TurnHasAxes
<1> HIDE DEF p, r, axes
<1>3. /\ p.x \in Int /\ r.x \in Int /\ p.x - r.x <= e /\ r.x - p.x <= e
  BY <1>1, <1>2
<1>4. /\ p.y \in Int /\ r.y \in Int /\ p.y - r.y <= e /\ r.y - p.y <= e
  BY <1>1, <1>2
<1> QED
  BY <1>3, <1>4 DEF p, r

-----------------------------------------------------------------------------
(* What a pipe reads, and fills.                                           *)

(* There are at most three halvings.                                       *)
LEMMA DownscaleInRange ==
  ASSUME NEW w, NEW h, NEW u, NEW v
  PROVE  getDownscaleFactor(w, h, u, v) \in 0 .. 3
BY DEF getDownscaleFactor

(* A pipe that has been set to read a crop, and to fill dst with it.       *)
Reads(pipe, crop, dst) ==
  /\ crop \in Rects /\ dst \in Rects
  /\ pipe.ds \in 0 .. 3 /\ (pipe.kind = "yuv" \/ pipe.ds = 0)
  /\ pipe.src = MdpSet(crop, dst, pipe.ds, pipe.kind = "yuv").src
  /\ pipe.dst = MdpSet(crop, dst, pipe.ds, pipe.kind = "yuv").dst

(* What a pipe reads is the crop it was given, to within the evening and   *)
(* what the rotator's shrinking rounds off.                                *)
LEMMA PipeReads ==
  ASSUME NEW pipe, NEW crop, NEW dst, Reads(pipe, crop, dst),
         NEW s, s = 2 ^ pipe.ds, NEW i \in {0, 1}, NEW j \in {0, 1},
         NEW a, a = IF "FLIP_H" \in pipe.flips THEN 1 - i ELSE i,
         NEW b, b = IF "FLIP_V" \in pipe.flips THEN 1 - j ELSE j,
         NEW e, e = IF pipe.kind = "yuv" THEN 3 * s - 2 ELSE 0,
         NEW x, x = IF a = 0 THEN crop.l ELSE crop.r,
         NEW y, y = IF b = 0 THEN crop.t ELSE crop.b,
         NEW p, p = PointRead(pipe, i, j)
  PROVE  /\ s \in {1, 2, 4, 8} /\ x \in Int /\ y \in Int
         /\ p = [x |-> p.x, y |-> p.y] /\ p.x \in Int /\ p.y \in Int
         /\ p.x - x <= e /\ x - p.x <= e /\ p.y - y <= e /\ y - p.y <= e
<1> DEFINE ds == pipe.ds  kind == pipe.kind
           m == MdpSet(crop, dst, ds, kind = "yuv")
<1>1. pipe.src = m.src /\ crop \in Rects /\ dst \in Rects
  BY DEF Reads
<1>2. ds \in 0 .. 3 /\ (kind # "yuv" => ds = 0)
  BY DEF Reads
<1>3. s = 2 ^ ds /\ m = MdpSet(crop, dst, ds, kind = "yuv")
  OBVIOUS
<1>6. p = [x |-> (IF a = 0 THEN m.src.l ELSE m.src.r) * s,
           y |-> (IF b = 0 THEN m.src.t ELSE m.src.b) * s]
  BY <1>1, <1>3 DEF PointRead
<1>0. e = IF kind = "yuv" THEN 3 * s - 2 ELSE 0
  OBVIOUS
<1> HIDE DEF ds, m, kind
<1>4. /\ s \in {1, 2, 4, 8} /\ m.src \in Rects
      /\ -(3 * s - 2) <= m.src.l * s - crop.l /\ m.src.l * s - crop.l <= 3 * s - 2
      /\ -(3 * s - 2) <= m.src.t * s - crop.t /\ m.src.t * s - crop.t <= 3 * s - 2
      /\ -(3 * s - 2) <= m.src.r * s - crop.r /\ m.src.r * s - crop.r <= 3 * s - 2
      /\ -(3 * s - 2) <= m.src.b * s - crop.b /\ m.src.b * s - crop.b <= 3 * s - 2
  BY <1>1, <1>2, <1>3, Halvings, MdpSetReads
<1>5. kind # "yuv" => s = 1
  BY <1>2, <1>3, Powers
<1>7. /\ m.src.l \in Int /\ m.src.t \in Int /\ m.src.r \in Int /\ m.src.b \in Int
      /\ crop.l \in Int /\ crop.t \in Int /\ crop.r \in Int /\ crop.b \in Int
  BY <1>1, <1>4 DEF Rects
<1>8. x \in Int /\ y \in Int
  BY <1>7
<1>9. CASE kind = "yuv"
  <2>1. e = 3 * s - 2
    BY <1>0, <1>9
  <2> QED
    <3> DEFINE sl == m.src.l * s  st == m.src.t * s  sr == m.src.r * s  sb == m.src.b * s
    <3>1. s \in Int
      BY <1>4
    <3>2. sl \in Int /\ st \in Int /\ sr \in Int /\ sb \in Int /\ e \in Int
      BY <1>7, <2>1, <3>1
    <3>3. /\ -e <= sl - crop.l /\ sl - crop.l <= e /\ -e <= st - crop.t /\ st - crop.t <= e
          /\ -e <= sr - crop.r /\ sr - crop.r <= e /\ -e <= sb - crop.b /\ sb - crop.b <= e
      BY <1>4, <2>1, Zenon
    <3>4. p = [x |-> IF a = 0 THEN sl ELSE sr, y |-> IF b = 0 THEN st ELSE sb]
      BY <1>6
    <3> HIDE DEF sl, st, sr, sb
    <3>5. p.x \in Int /\ p.x - x <= e /\ x - p.x <= e
      BY <1>7, <3>2, <3>3, <3>4
    <3>6. p.y \in Int /\ p.y - y <= e /\ y - p.y <= e
      BY <1>7, <3>2, <3>3, <3>4
    <3>7. p = [x |-> p.x, y |-> p.y]
      BY <3>4
    <3> QED
      BY <1>4, <1>8, <3>5, <3>6, <3>7
<1>10. CASE kind # "yuv"
  <2>1. e = 0 /\ s = 1 /\ m.src = crop
    <3>1. ds = 0 /\ m = MdpSet(crop, dst, 0, FALSE)
      BY <1>2, <1>3, <1>10
    <3> QED
      BY <1>0, <1>1, <1>5, <1>10, <3>1, MdpSetReadsAll
  <2>2. p = [x |-> x, y |-> y]
    BY <1>6, <1>7, <1>8, <2>1
  <2> QED
    BY <1>8, <2>1, <2>2
<1> QED
  BY <1>9, <1>10

(* A pipe fills its destination, evened.                                   *)
LEMMA PipeFills ==
  ASSUME NEW pipe, NEW crop, NEW dst, Reads(pipe, crop, dst)
  PROVE  /\ pipe.dst \in Rects /\ pipe.dst.l = dst.l /\ pipe.dst.t = dst.t
         /\ dst.r - pipe.dst.r \in 0 .. 1 /\ dst.b - pipe.dst.b \in 0 .. 1
<1> DEFINE m == MdpSet(crop, dst, pipe.ds, pipe.kind = "yuv")
<1>1. pipe.dst = m.dst /\ dst \in Rects
  BY DEF Reads
<1>2. m = MdpSet(crop, dst, pipe.ds, pipe.kind = "yuv")
  OBVIOUS
<1> HIDE DEF m
<1>3. m.dst \in Rects
  BY <1>1, <1>2, MdpSetFills, Zenon
<1>4. m.dst.l = dst.l /\ m.dst.t = dst.t
  <2>1. m.dst = [l |-> dst.l, t |-> dst.t, r |-> m.dst.r, b |-> m.dst.b]
    BY <1>2 DEF MdpSet, Rect
  <2> QED
    BY <2>1
<1>5. dst.r - m.dst.r \in 0 .. 1 /\ dst.b - m.dst.b \in 0 .. 1
  BY <1>1, <1>2, MdpSetFills, Zenon
<1> QED
  BY <1>1, <1>3, <1>4, <1>5

(* What is asked for is given as fractions.                                *)
LEMMA AskedFacts ==
  ASSUME NEW asked, asked.dst \in Rects, isValidRect(asked.dst), NEW X \in Int, NEW Y \in Int
  PROVE  LET ask == PointAsked(asked, X, Y) IN
         /\ ask.x = <<ask.x[1], ask.x[2]>> /\ ask.x[1] \in Int /\ ask.x[2] \in Nat \ {0}
         /\ ask.y = <<ask.y[1], ask.y[2]>> /\ ask.y[1] \in Int /\ ask.y[2] \in Nat \ {0}
<1>1. /\ Width(asked.dst) \in Nat \ {0} /\ Height(asked.dst) \in Nat \ {0}
      /\ asked.dst.l \in Int /\ asked.dst.t \in Int /\ asked.dst.r \in Int /\ asked.dst.b \in Int
  BY DEF Rects, Width, Height, isValidRect
<1> QED
  BY <1>1 DEF PointAsked

(* The crop that a pipe was given, of the whole that the session or the    *)
(* pipe turns into q, shows at its corner (i, j) what is asked for at that *)
(* of the part it is to fill: got, the point that corner turns back to, is *)
(* near ask.                                                               *)
CropShows(pipe, asked, crop, dst, k, whole, q, i, j, got, part, ask) ==
  LET a == IF "FLIP_H" \in pipe.flips THEN 1 - i ELSE i
      b == IF "FLIP_V" \in pipe.flips THEN 1 - j ELSE j IN
  /\ asked = pipe.asked /\ AskedOk(asked) /\ Reads(pipe, crop, dst)
  /\ pipe.rot # 0 => k = mRot[pipe.rot].kern
  /\ Turned(pipe.rot, k, pipe.flips, asked.transform, whole, q)
  /\ i \in {0, 1} /\ j \in {0, 1}
  /\ got = TurnOf(pipe.rot, k, [x |-> IF a = 0 THEN crop.l ELSE crop.r,
                                y |-> IF b = 0 THEN crop.t ELSE crop.b])
  /\ part = PartOf(pipe) /\ part \in Rects
  /\ ask = PointAsked(asked, IF i = 0 THEN part.l ELSE part.r, IF j = 0 THEN part.t ELSE part.b)
  /\ Near(got.x, asked.crop.l, Width(asked.crop), ask.x, 2)
  /\ Near(got.y, asked.crop.t, Height(asked.crop), ask.y, 2)

(* Then so does the pipe.                                                  *)
LEMMA PipeShows ==
  ASSUME NEW pipe, NEW asked, NEW crop, NEW dst, NEW k, NEW whole, NEW q, NEW i, NEW j,
         NEW got, NEW part, NEW ask,
         CropShows(pipe, asked, crop, dst, k, whole, q, i, j, got, part, ask)
  PROVE  CornerShows(pipe, i, j)
<1> DEFINE rot == pipe.rot  kind == pipe.kind
           a == IF "FLIP_H" \in pipe.flips THEN 1 - i ELSE i
           b == IF "FLIP_V" \in pipe.flips THEN 1 - j ELSE j
           s == 2 ^ pipe.ds
           e == IF kind = "yuv" THEN 3 * s - 2 ELSE 0
           x == IF a = 0 THEN crop.l ELSE crop.r
           y == IF b = 0 THEN crop.t ELSE crop.b
           p == PointRead(pipe, i, j)
           r == PointInBuffer(pipe, i, j)
           more == IF kind = "yuv" THEN 4 * s - 2 ELSE 0
<1>a. /\ asked = pipe.asked /\ AskedOk(asked) /\ Reads(pipe, crop, dst)
      /\ pipe.rot # 0 => k = mRot[pipe.rot].kern
      /\ Turned(pipe.rot, k, pipe.flips, asked.transform, whole, q)
      /\ i \in {0, 1} /\ j \in {0, 1}
  BY DEF CropShows
<1>b. got = TurnOf(pipe.rot, k, [x |-> x, y |-> y])
  BY DEF CropShows
<1>c. /\ part = PartOf(pipe) /\ part \in Rects
      /\ ask = PointAsked(asked, IF i = 0 THEN part.l ELSE part.r,
                                 IF j = 0 THEN part.t ELSE part.b)
      /\ Near(got.x, asked.crop.l, Width(asked.crop), ask.x, 2)
      /\ Near(got.y, asked.crop.t, Height(asked.crop), ask.y, 2)
  BY DEF CropShows
<1>d. /\ s = 2 ^ pipe.ds /\ e = IF pipe.kind = "yuv" THEN 3 * s - 2 ELSE 0
      /\ a = IF "FLIP_H" \in pipe.flips THEN 1 - i ELSE i
      /\ b = IF "FLIP_V" \in pipe.flips THEN 1 - j ELSE j
      /\ x = (IF a = 0 THEN crop.l ELSE crop.r) /\ y = (IF b = 0 THEN crop.t ELSE crop.b)
      /\ p = PointRead(pipe, i, j) /\ r = PointInBuffer(pipe, i, j)
  OBVIOUS
<1> HIDE DEF s, e, x, y, p, r, a, b
<1>1. /\ s \in {1, 2, 4, 8} /\ x \in Int /\ y \in Int
      /\ p = [x |-> p.x, y |-> p.y] /\ p.x \in Int /\ p.y \in Int
      /\ p.x - x <= e /\ x - p.x <= e /\ p.y - y <= e /\ y - p.y <= e
  BY <1>a, <1>d, PipeReads
<1>2. pipe.rot = rot /\ pipe.kind = kind /\ pipe.asked = asked
  BY <1>a
<1>3. e \in Nat /\ more \in Nat /\ e <= more /\ Tolerance(pipe) = 2 + more
  <2>1. Tolerance(pipe) = IF kind = "yuv" THEN 4 * s ELSE 2
    BY <1>2, <1>d DEF Tolerance
  <2>2. CASE kind = "yuv"
    <3>1. s \in Int /\ s >= 1 /\ e = 3 * s - 2 /\ more = 4 * s - 2 /\ Tolerance(pipe) = 4 * s
      BY <1>1, <1>d, <2>1, <2>2
    <3> HIDE DEF more
    <3> QED
      BY <3>1
  <2>3. CASE kind # "yuv"
    BY <1>d, <2>1, <2>3
  <2> QED
    BY <2>2, <2>3
<1>4. r = TurnOf(rot, k, [x |-> p.x, y |-> p.y]) /\ got = TurnOf(rot, k, [x |-> x, y |-> y])
  BY <1>1, <1>2, <1>a, <1>b, <1>d DEF PointInBuffer, TurnOf
<1> HIDE DEF more
<1>5. /\ r.x \in Int /\ r.y \in Int /\ got.x \in Int /\ got.y \in Int
      /\ r.x - got.x <= e /\ got.x - r.x <= e /\ r.y - got.y <= e /\ got.y - r.y <= e
  BY <1>1, <1>3, <1>4, <1>a, TurnedStayClose DEF AskedOk
<1>6. /\ part.l \in Int /\ part.t \in Int /\ part.r \in Int /\ part.b \in Int
      /\ asked.crop.l \in Int /\ asked.crop.t \in Int
      /\ Width(asked.crop) \in Int /\ Height(asked.crop) \in Int
  BY <1>a, <1>c DEF AskedOk, Rects, Width, Height
<1>7. /\ ask.x = <<ask.x[1], ask.x[2]>> /\ ask.x[1] \in Int /\ ask.x[2] \in Nat \ {0}
      /\ ask.y = <<ask.y[1], ask.y[2]>> /\ ask.y[1] \in Int /\ ask.y[2] \in Nat \ {0}
  BY <1>6, <1>a, <1>c, AskedFacts DEF AskedOk
<1>8. Near(r.x, asked.crop.l, Width(asked.crop), ask.x, 2 + more)
  <2>1. Near(got.x, asked.crop.l, Width(asked.crop), <<ask.x[1], ask.x[2]>>, 2)
    BY <1>7, <1>c
  <2>2. Near(r.x, asked.crop.l, Width(asked.crop), <<ask.x[1], ask.x[2]>>, 2 + more)
    <3>1. r.x - got.x <= more /\ got.x - r.x <= more
      BY <1>3, <1>5
    <3>2. 2 \in Nat /\ ask.x[2] \in Nat
      BY <1>7
    <3> QED
      <4> DEFINE lo == asked.crop.l  size == Width(asked.crop)  g == ask.x[1]  m == ask.x[2]
                 rc == r.x  gc == got.x
      <4>1. /\ rc \in Int /\ gc \in Int /\ lo \in Int /\ size \in Int /\ g \in Int /\ m \in Nat
            /\ Near(gc, lo, size, <<g, m>>, 2) /\ rc - gc <= more /\ gc - rc <= more
        BY <1>5, <1>6, <1>7, <2>1, <3>1
      <4> HIDE DEF lo, size, g, m, rc, gc
      <4>2. Near(rc, lo, size, <<g, m>>, 2 + more)
        BY <1>3, <4>1, NearMoved
      <4> QED
        BY <4>2 DEF lo, size, g, m, rc, gc
  <2> QED
    BY <1>7, <2>2
<1>9. Near(r.y, asked.crop.t, Height(asked.crop), ask.y, 2 + more)
  <2>1. Near(got.y, asked.crop.t, Height(asked.crop), <<ask.y[1], ask.y[2]>>, 2)
    BY <1>7, <1>c
  <2>2. Near(r.y, asked.crop.t, Height(asked.crop), <<ask.y[1], ask.y[2]>>, 2 + more)
    <3>1. r.y - got.y <= more /\ got.y - r.y <= more
      BY <1>3, <1>5
    <3>2. 2 \in Nat /\ ask.y[2] \in Nat
      BY <1>7
    <3> QED
      <4> DEFINE lo == asked.crop.t  size == Height(asked.crop)  g == ask.y[1]  m == ask.y[2]
                 rc == r.y  gc == got.y
      <4>1. /\ rc \in Int /\ gc \in Int /\ lo \in Int /\ size \in Int /\ g \in Int /\ m \in Nat
            /\ Near(gc, lo, size, <<g, m>>, 2) /\ rc - gc <= more /\ gc - rc <= more
        BY <1>5, <1>6, <1>7, <2>1, <3>1
      <4> HIDE DEF lo, size, g, m, rc, gc
      <4>2. Near(rc, lo, size, <<g, m>>, 2 + more)
        BY <1>3, <4>1, NearMoved
      <4> QED
        BY <4>2 DEF lo, size, g, m, rc, gc
  <2> QED
    BY <1>7, <2>2
<1> QED
  BY <1>2, <1>3, <1>8, <1>9, <1>c, <1>d DEF CornerShows

(* A point near to within one is near to within two.                       *)
LEMMA NearLooser ==
  ASSUME NEW p \in Int, NEW lo \in Int, NEW size \in Int, NEW f, f[1] \in Int, f[2] \in Nat,
         Near(p, lo, size, f, 1)
  PROVE  Near(p, lo, size, f, 2)
<1> DEFINE m == f[2]
           off == (p - lo) * m - size * f[1]
<1>1. off \in Int /\ -1 * m <= off /\ off <= 1 * m
  BY DEF Near
<1>2. -2 * m <= off /\ off <= 2 * m
  <2> HIDE DEF off
  <2>1. m \in Nat
    OBVIOUS
  <2> HIDE DEF m
  <2> QED
    BY <1>1, <2>1
<1> QED
  BY <1>2 DEF Near

(* The corners of a crop are points.                                       *)
LEMMA CornerInt ==
  ASSUME NEW transform, NEW crop \in Rects, NEW i, NEW j
  PROVE  CornerOf(transform, crop, i, j).x \in Int /\ CornerOf(transform, crop, i, j).y \in Int
<1>1. crop.l \in Int /\ crop.t \in Int /\ crop.r \in Int /\ crop.b \in Int
  BY DEF Rects
<1> QED
  BY <1>1 DEF CornerOf

(* A pipe that is to fill dst with what is left of the crop, turned to q.  *)
IsWhole(pipe, asked, crop, q, dst, k) ==
  /\ asked = pipe.asked /\ AskedOk(asked)
  /\ Reads(pipe, q, dst) /\ dst = PartOf(pipe) /\ crop \in Rects
  /\ (pipe.rot # 0 => k = mRot[pipe.rot].kern)
  /\ Turned(pipe.rot, k, pipe.flips, asked.transform, crop, q)

(* A pipe that reads a crop which shows at a corner what is asked for      *)
(* shows it there.                                                         *)
LEMMA WholeCorner ==
  ASSUME NEW pipe, NEW asked, NEW q, NEW dst, NEW crop, NEW k,
         IsWhole(pipe, asked, crop, q, dst, k),
         NEW i \in {0, 1}, NEW j \in {0, 1}, ShowsAt(asked, crop, dst, i, j)
  PROVE  CornerShows(pipe, i, j)
<1>a. /\ asked = pipe.asked /\ AskedOk(asked)
      /\ Reads(pipe, q, dst) /\ dst = PartOf(pipe) /\ crop \in Rects
      /\ (pipe.rot # 0 => k = mRot[pipe.rot].kern)
      /\ Turned(pipe.rot, k, pipe.flips, asked.transform, crop, q)
  BY DEF IsWhole
<1> USE <1>a
<1> DEFINE a == IF "FLIP_H" \in pipe.flips THEN 1 - i ELSE i
           b == IF "FLIP_V" \in pipe.flips THEN 1 - j ELSE j
           got == TurnOf(pipe.rot, k, [x |-> IF a = 0 THEN q.l ELSE q.r,
                      y |-> IF b = 0 THEN q.t ELSE q.b])
           ask == PointAsked(asked, IF i = 0 THEN dst.l ELSE dst.r, IF j = 0 THEN dst.t ELSE dst.b)
<1>0. /\ a = IF "FLIP_H" \in pipe.flips THEN 1 - i ELSE i
      /\ b = IF "FLIP_V" \in pipe.flips THEN 1 - j ELSE j
      /\ got = TurnOf(pipe.rot, k, [x |-> IF a = 0 THEN q.l ELSE q.r,
                 y |-> IF b = 0 THEN q.t ELSE q.b])
      /\ ask = PointAsked(asked, IF i = 0 THEN dst.l ELSE dst.r, IF j = 0 THEN dst.t ELSE dst.b)
  OBVIOUS
<1> HIDE DEF a, b, got, ask
<1>1. q \in Rects /\ got = CornerOf(asked.transform, crop, i, j)
  BY <1>0, TurnedShows DEF AskedOk
<1>2. got.x \in Int /\ got.y \in Int
  BY <1>1, CornerInt
<1>3. /\ Near(got.x, asked.crop.l, Width(asked.crop), ask.x, 1)
      /\ Near(got.y, asked.crop.t, Height(asked.crop), ask.y, 1)
  BY <1>0, <1>1 DEF ShowsAt
<1>4. /\ dst.l \in Int /\ dst.t \in Int /\ dst.r \in Int /\ dst.b \in Int
      /\ asked.crop.l \in Int /\ asked.crop.t \in Int
      /\ Width(asked.crop) \in Int /\ Height(asked.crop) \in Int
  BY DEF AskedOk, Reads, Rects, Width, Height
<1>5. /\ ask.x = <<ask.x[1], ask.x[2]>> /\ ask.x[1] \in Int /\ ask.x[2] \in Nat \ {0}
      /\ ask.y = <<ask.y[1], ask.y[2]>> /\ ask.y[1] \in Int /\ ask.y[2] \in Nat \ {0}
  BY <1>0, <1>4, AskedFacts DEF AskedOk
<1>6. Near(got.x, asked.crop.l, Width(asked.crop), ask.x, 2)
  BY <1>2, <1>3, <1>4, <1>5, NearLooser
<1>7. Near(got.y, asked.crop.t, Height(asked.crop), ask.y, 2)
  BY <1>2, <1>3, <1>4, <1>5, NearLooser
<1>8. dst \in Rects
  BY DEF Reads
<1> QED
  <2>1. CropShows(pipe, asked, q, dst, k, crop, q, i, j, got, dst, ask)
    BY <1>0, <1>6, <1>7, <1>8 DEF CropShows
  <2> QED
    BY <2>1, PipeShows

(* A pipe placed at the part of the destination it is to fill fills it.    *)
LEMMA WholeFills ==
  ASSUME NEW pipe, NEW q, NEW dst, Reads(pipe, q, dst), pipe.side # "right", dst = PartOf(pipe)
  PROVE  FillsItsPart(pipe)
<1>1. /\ pipe.dst \in Rects /\ pipe.dst.l = dst.l /\ pipe.dst.t = dst.t
      /\ dst.r - pipe.dst.r \in 0 .. 1 /\ dst.b - pipe.dst.b \in 0 .. 1
  BY PipeFills
<1>2. dst.l \in Int /\ dst.t \in Int /\ dst.r \in Int /\ dst.b \in Int
  BY DEF Reads, Rects
<1>3. pipe.dst.l \in Int /\ pipe.dst.t \in Int /\ pipe.dst.r \in Int /\ pipe.dst.b \in Int
  BY <1>1 DEF Rects
<1>4. /\ pipe.dst.l + 0 - dst.l \in -1 .. 1 /\ pipe.dst.t - dst.t \in -1 .. 1
      /\ pipe.dst.r + 0 - dst.r \in -1 .. 1 /\ pipe.dst.b - dst.b \in -1 .. 1
  <2>1. \A x, y \in Int : /\ x = y => x + 0 - y \in -1 .. 1 /\ x - y \in -1 .. 1
                          /\ y - x \in 0 .. 1 => x + 0 - y \in -1 .. 1 /\ x - y \in -1 .. 1
    OBVIOUS
  <2> QED
    BY <1>1, <1>2, <1>3, <2>1
<1>5. (IF pipe.side = "right" THEN Half(pipe.d, "right").l ELSE 0) = 0
  OBVIOUS
<1> QED
  <2>1. \A left, part :
          left = (IF pipe.side = "right" THEN Half(pipe.d, "right").l ELSE 0) /\ part = PartOf(pipe)
            => /\ Close(pipe.dst.l + left, part.l) /\ Close(pipe.dst.t, part.t)
               /\ Close(pipe.dst.r + left, part.r) /\ Close(pipe.dst.b, part.b)
    <3> SUFFICES ASSUME NEW left, left = 0, NEW part, part = dst
                 PROVE  /\ Close(pipe.dst.l + left, part.l) /\ Close(pipe.dst.t, part.t)
                        /\ Close(pipe.dst.r + left, part.r) /\ Close(pipe.dst.b, part.b)
      BY <1>5
    <3> QED
      BY <1>2, <1>3, <1>4 DEF Close
  <2> QED
    BY <2>1, Zenon DEF FillsItsPart

-----------------------------------------------------------------------------
(* A display of one mixer.                                                 *)

(* The pipe is left to flip what no session turns or shrinks.              *)
LEMMA SessionFlags ==
  ASSUME NEW L, NEW ds, NEW transform \in SUBSET Turns
  PROVE  setMdpFlags(L, ds, transform) \cap Flips =
           IF "ROT_90" \notin transform /\ ds = 0 THEN transform \cap Flips ELSE {}
BY DEF setMdpFlags, Flips

(* Padding gives integers.                                                 *)
LEMMA PadInt ==
  ASSUME NEW format, NEW w \in Nat, NEW h \in Nat
  PROVE  PadTiled(format, w, h).w \in Int /\ PadTiled(format, w, h).h \in Int
BY DEF PadTiled, Align

(* The fields of a pipe.                                                   *)
LEMMA MdpPipe ==
  ASSUME NEW d, NEW asked, NEW crop, NEW dst, NEW flags, NEW rot, NEW dsEnabled, NEW kind,
         NEW side, NEW pipe,
         pipe = configMdp(d, asked, crop, dst, flags, rot, dsEnabled, kind, side)
  PROVE  /\ pipe.d = d /\ pipe.asked = asked /\ pipe.side = side /\ pipe.rot = rot
         /\ pipe.kind = kind /\ pipe.flips = flags \cap Flips
         /\ pipe.ds = PipeDownscale(dsEnabled, crop, dst)
         /\ pipe.src = MdpSet(crop, dst, pipe.ds, kind = "yuv").src
         /\ pipe.dst = MdpSet(crop, dst, pipe.ds, kind = "yuv").dst
BY DEF configMdp

(* A pipe of a display that has one mixer.                                 *)
IsSetWhole(pipe, asked, crop, q, dst, k) ==
  /\ asked = pipe.asked /\ AskedOk(asked) /\ pipe.side = "whole"
  /\ dst \in Rects /\ dst = PartOf(pipe) /\ crop \in Rects
  /\ pipe.ds \in 0 .. 3 /\ (pipe.kind = "yuv" \/ pipe.ds = 0)
  /\ pipe.src = MdpSet(q, dst, pipe.ds, pipe.kind = "yuv").src
  /\ pipe.dst = MdpSet(q, dst, pipe.ds, pipe.kind = "yuv").dst
  /\ (pipe.rot # 0 => k = mRot[pipe.rot].kern)
  /\ Turned(pipe.rot, k, pipe.flips, asked.transform, crop, q)
  /\ \A i, j \in {0, 1} : ShowsAt(asked, crop, dst, i, j)

(* Such a pipe shows its part of what was asked for.                       *)
LEMMA WholePipeShows ==
  ASSUME NEW pipe, NEW asked, NEW q, NEW dst, NEW crop, NEW k,
         IsSetWhole(pipe, asked, crop, q, dst, k)
  PROVE  FillsItsPart(pipe) /\ \A i, j \in {0, 1} : CornerShows(pipe, i, j)
<1>a. /\ asked = pipe.asked /\ AskedOk(asked) /\ pipe.side = "whole"
      /\ dst \in Rects /\ dst = PartOf(pipe) /\ crop \in Rects
      /\ pipe.ds \in 0 .. 3 /\ (pipe.kind = "yuv" \/ pipe.ds = 0)
      /\ pipe.src = MdpSet(q, dst, pipe.ds, pipe.kind = "yuv").src
      /\ pipe.dst = MdpSet(q, dst, pipe.ds, pipe.kind = "yuv").dst
      /\ (pipe.rot # 0 => k = mRot[pipe.rot].kern)
      /\ Turned(pipe.rot, k, pipe.flips, asked.transform, crop, q)
      /\ (\A i, j \in {0, 1} : ShowsAt(asked, crop, dst, i, j))
  BY DEF IsSetWhole
<1> USE <1>a
<1>1. q \in Rects
  BY TurnedRect DEF AskedOk
<1>2. Reads(pipe, q, dst)
  BY <1>1 DEF Reads
<1>3. FillsItsPart(pipe)
  BY <1>2, WholeFills
<1>4. ASSUME NEW i \in {0, 1}, NEW j \in {0, 1} PROVE CornerShows(pipe, i, j)
  <2>1. IsWhole(pipe, asked, crop, q, dst, k)
    BY <1>2 DEF IsWhole
  <2> QED
    BY <2>1, WholeCorner
<1> QED
  BY <1>3, <1>4

(* What a display's trimming leaves of a destination is the part of it     *)
(* that the display shows.                                                 *)
LEMMA TrimmedPart ==
  ASSUME NEW pipe, pipe.side = "whole", ~TrimGoesWrong(pipe), pipe.d \in Displays,
         NEW dst, dst = Overlap(pipe.asked.dst, Screen(Xres(pipe.d), Yres(pipe.d)))
  PROVE  dst = PartOf(pipe)
<1>1. Half(pipe.d, pipe.side) = Real(pipe.d)
  BY DEF Half
<1>2. PartOf(pipe) = Overlap(pipe.asked.dst, Real(pipe.d))
  BY <1>1 DEF PartOf
<1>3. CASE pipe.d = 1 /\ dpyAttr.downscale
  BY <1>2, <1>3 DEF TrimGoesWrong
<1>4. CASE ~(pipe.d = 1 /\ dpyAttr.downscale)
  BY <1>2, <1>4 DEF Real
<1> QED
  BY <1>3, <1>4

(* How far a buffer is shrunk depends on its area only.                    *)
Alike(p, q) == \/ Width(q) = Width(p) /\ Height(q) = Height(p)
               \/ Width(q) = Height(p) /\ Height(q) = Width(p)

(* ... so that the turned crop is shrunk as the crop is.                   *)
LEMMA ShrinksAsTurned ==
  ASSUME NEW q \in Rects, NEW crop \in Rects, NEW dst, Alike(crop, q)
  PROVE  getDownscaleFactor(Width(q), Height(q), Width(dst), Height(dst))
           = getDownscaleFactor(Width(crop), Height(crop), Width(dst), Height(dst))
<1>1. Width(q) * Height(q) = Width(crop) * Height(crop)
  BY RectFacts DEF Alike
<1> QED
  BY <1>1 DEF getDownscaleFactor

(* What a layer is served turns its crop as its transform says, and        *)
(* shrinks it as much as was wanted.                                       *)
LEMMA ServedTurns ==
  ASSUME NEW L, L.w \in Nat, L.h \in Nat, NEW p, p.transform \in SUBSET Turns,
         NEW rot, Served(L, p, rot), NEW crop
  PROVE  LET ds == LayerDownscale(dpy, L, p) IN
         /\ Turned(rot, mRot[rot].kern, setMdpFlags(L, ds, p.transform) \cap Flips,
                   p.transform, crop, SourceCrop(L, p, crop, rot))
         /\ rot # 0 => mRot[rot].kern.ds = ds
<1> DEFINE ds == LayerDownscale(dpy, L, p)  k == mRot[rot].kern
           flips == setMdpFlags(L, ds, p.transform) \cap Flips
           q == SourceCrop(L, p, crop, rot)
<1>1. /\ ds = LayerDownscale(dpy, L, p) /\ k = mRot[rot].kern
      /\ flips = setMdpFlags(L, ds, p.transform) \cap Flips
      /\ q = SourceCrop(L, p, crop, rot)
  OBVIOUS
<1> HIDE DEF ds, k, flips, q
<1>2. CASE rot = 0 /\ "ROT_90" \notin p.transform /\ ds = 0
  <2>1. flips = p.transform \cap Flips
    BY <1>1, <1>2, SessionFlags
  <2>2. q = crop
    BY <1>1, <1>2 DEF SourceCrop
  <2>3. Turned(rot, k, flips, p.transform, crop, q) /\ (rot # 0 => k.ds = ds)
    BY <1>2, <2>1, <2>2 DEF Turned
  <2> QED
    BY <1>1, <2>3
<1>3. CASE /\ rot \in Slots /\ flips = {}
           /\ \A x \in {"w", "h", "orient", "ds"} : k[x] = WantOf(dpy, L, p)[x]
  <2> DEFINE whf == PadTiled(L.format, L.w, L.h)
  <2>1. k.w = whf.w /\ k.h = whf.h /\ k.orient = getMdpOrient(p.transform) /\ k.ds = ds
    BY <1>1, <1>3 DEF WantOf, MdpConf
  <2>2. rot # 0
    BY <1>3 DEF Slots
  <2>3. q = updateSource(p.transform, whf, crop).crop
    BY <1>1, <2>2 DEF SourceCrop
  <2>4. whf.w \in Int /\ whf.h \in Int
    BY PadInt
  <2> HIDE DEF whf
  <2>5. Turned(rot, k, flips, p.transform, crop, q) /\ (rot # 0 => k.ds = ds)
    BY <1>3, <2>1, <2>2, <2>3, <2>4 DEF Turned
  <2> QED
    BY <1>1, <2>5
<1> QED
  BY <1>1, <1>2, <1>3 DEF Served

(* The pipe of a layer shrinks it as the session does.                     *)
LEMMA SameShrinking ==
  ASSUME NEW d, NEW L, NEW p, NEW ds, ds = LayerDownscale(d, L, p),
         NEW t, t = trimLayer(Screen(Xres(d), Yres(d)), p.transform, p.crop, p.dst),
         t.crop \in Rects, NEW q \in Rects,
         Alike(t.crop, q),
         NEW pipe, pipe.d = d, pipe.asked = p, pipe.ds = PipeDownscale(ds # 0, q, t.dst),
         pipe.rot = 0 => ds = 0, pipe.rot # 0 => mRot[pipe.rot].kern.ds = ds,
         ~ShrinkGoesWrong(pipe)
  PROVE  pipe.ds = ds
<1>1. CASE ds = 0
  BY <1>1 DEF PipeDownscale
<1>2. CASE ds # 0
  <2>1. ds = PipeDownscale(TRUE, p.crop, p.dst)
    BY <1>2 DEF LayerDownscale, PipeDownscale
  <2>2. PipeDownscale(TRUE, t.crop, t.dst) = PipeDownscale(TRUE, p.crop, p.dst)
    BY <1>2 DEF ShrinkGoesWrong
  <2>3. pipe.ds = PipeDownscale(TRUE, q, t.dst)
    BY <1>2 DEF PipeDownscale
  <2>4. PipeDownscale(TRUE, q, t.dst) = PipeDownscale(TRUE, t.crop, t.dst)
    BY ShrinksAsTurned DEF PipeDownscale
  <2> QED
    BY <2>1, <2>2, <2>3, <2>4
<1> QED
  BY <1>1, <1>2

(* A layer on a display of one mixer.                                      *)
LEMMA LowResShows ==
  ASSUME NEW L, L.w \in Nat, L.h \in Nat, NEW p, AskedOk(p), dpy \in Displays,
         Xres(dpy) \in Int, Yres(dpy) \in Int,
         NEW rot, Served(L, p, rot), NEW pipe, pipe \in LowResPipes(dpy, L, p, rot),
         ~TrimGoesWrong(pipe), ~ShrinkGoesWrong(pipe)
  PROVE  ShowsItsPart(pipe)
<1> DEFINE w == Xres(dpy)  h == Yres(dpy)
           t == trimLayer(Screen(w, h), p.transform, p.crop, p.dst)
           ds == LayerDownscale(dpy, L, p)
           q == SourceCrop(L, p, t.crop, rot)
           flags == setMdpFlags(L, ds, p.transform)
           k == mRot[rot].kern
<1>0. /\ p.crop \in Rects /\ p.dst \in Rects /\ isValidRect(p.dst)
      /\ p.transform \in SUBSET Turns /\ w \in Int /\ h \in Int
  BY DEF AskedOk
<1>1. pipe = configMdp(dpy, p, q, t.dst, flags, rot, ds # 0, KindOf(L), "whole")
  BY DEF LowResPipes
<1>2. /\ pipe.d = dpy /\ pipe.asked = p /\ pipe.side = "whole" /\ pipe.rot = rot
      /\ pipe.kind = KindOf(L) /\ pipe.flips = flags \cap Flips
      /\ pipe.ds = PipeDownscale(ds # 0, q, t.dst)
      /\ pipe.src = MdpSet(q, t.dst, pipe.ds, pipe.kind = "yuv").src
      /\ pipe.dst = MdpSet(q, t.dst, pipe.ds, pipe.kind = "yuv").dst
  BY <1>1, MdpPipe
<1>3. t = trimLayer(Screen(w, h), p.transform, p.crop, p.dst)
  OBVIOUS
<1>4. /\ Turned(rot, k, flags \cap Flips, p.transform, t.crop, q)
      /\ rot # 0 => k.ds = ds
  BY <1>0, ServedTurns
<1>5. rot = 0 => ds = 0
  BY DEF Served, Slots
<1>7. /\ t.crop \in Rects /\ t.dst \in Rects /\ t.dst = Overlap(p.dst, Screen(w, h))
      /\ \A i, j \in {0, 1} : ShowsAt(p, t.crop, t.dst, i, j)
  BY <1>0, <1>3, TrimShows
<1>8. ds \in 0 .. 3 /\ (ds # 0 => KindOf(L) = "yuv")
  BY DownscaleInRange DEF LayerDownscale, KindOf
<1>9. w = Xres(dpy) /\ h = Yres(dpy) /\ ds = LayerDownscale(dpy, L, p) /\ k = mRot[rot].kern
  OBVIOUS
<1> HIDE DEF w, h, t, ds, q, flags, k
<1>10. t.dst = PartOf(pipe)
  BY <1>2, <1>7, <1>9, TrimmedPart
<1>11. q \in Rects /\ Alike(t.crop, q)
  BY <1>4, <1>7, TurnedRect DEF Alike
<1>12. pipe.ds = ds
  BY <1>2, <1>3, <1>4, <1>5, <1>7, <1>9, <1>11, SameShrinking
<1>13. FillsItsPart(pipe) /\ \A i, j \in {0, 1} : CornerShows(pipe, i, j)
  <2>1. /\ pipe.asked = p /\ AskedOk(p) /\ pipe.side = "whole"
        /\ pipe.ds \in 0 .. 3 /\ (pipe.kind = "yuv" \/ pipe.ds = 0)
        /\ (pipe.rot # 0 => k = mRot[pipe.rot].kern)
        /\ Turned(pipe.rot, k, pipe.flips, p.transform, t.crop, q)
    BY <1>2, <1>4, <1>8, <1>9, <1>12
  <2> QED
    <3>1. IsSetWhole(pipe, p, t.crop, q, t.dst, k)
      BY <1>2, <1>7, <1>10, <2>1 DEF IsSetWhole
    <3> QED
      BY <3>1, WholePipeShows
<1> QED
  BY <1>2, <1>4, <1>9, <1>12, <1>13 DEF ShowsItsPart

-----------------------------------------------------------------------------
(* The framebuffer.                                                        *)

(* The framebuffer on a display of one mixer.                              *)
LEMMA FbLowResShows ==
  ASSUME NEW fb, ~fb.yuv, fb.w \in Nat, fb.h \in Nat, NEW p, AskedOk(p), dpy \in Displays,
         Overlap(p.dst, Real(dpy)) = p.dst,
         NEW rot, Served(fb, p, rot), NEW pipe, pipe \in FbLowResPipes(dpy, fb, p, rot)
  PROVE  ShowsItsPart(pipe)
<1> DEFINE q == SourceCrop(fb, p, p.crop, rot)
           flags == setMdpFlags(fb, 0, p.transform)
           k == mRot[rot].kern
<1>0. /\ p.crop \in Rects /\ p.dst \in Rects /\ isValidRect(p.dst) /\ p.transform \in SUBSET Turns
  BY DEF AskedOk
<1>1. pipe = configMdp(dpy, p, q, p.dst, flags, rot, FALSE, "fb", "whole")
  BY DEF FbLowResPipes
<1>2. /\ pipe.d = dpy /\ pipe.asked = p /\ pipe.side = "whole" /\ pipe.rot = rot
      /\ pipe.kind = "fb" /\ pipe.flips = flags \cap Flips
      /\ pipe.ds = 0
      /\ pipe.src = MdpSet(q, p.dst, pipe.ds, pipe.kind = "yuv").src
      /\ pipe.dst = MdpSet(q, p.dst, pipe.ds, pipe.kind = "yuv").dst
  BY <1>1 DEF configMdp, PipeDownscale
<1>3. LayerDownscale(dpy, fb, p) = 0
  BY DEF LayerDownscale
<1>4. /\ Turned(rot, k, flags \cap Flips, p.transform, p.crop, q)
      /\ rot # 0 => k.ds = 0
  BY <1>0, <1>3, ServedTurns
<1>5. \A i, j \in {0, 1} : ShowsAt(p, p.crop, p.dst, i, j)
  BY UncutShows
<1>6. p.dst = PartOf(pipe)
  BY <1>2 DEF PartOf, Half
<1>7. k = mRot[rot].kern
  OBVIOUS
<1> HIDE DEF q, flags, k
<1>8. FillsItsPart(pipe) /\ \A i, j \in {0, 1} : CornerShows(pipe, i, j)
  <2>1. /\ pipe.ds \in 0 .. 3 /\ (pipe.rot # 0 => k = mRot[pipe.rot].kern)
        /\ Turned(pipe.rot, k, pipe.flips, p.transform, p.crop, q)
    BY <1>2, <1>4, <1>7
  <2>2. \A i, j \in {0, 1} : ShowsAt(p, p.crop, p.dst, i, j)
    BY <1>5
  <2> QED
    <3>1. IsSetWhole(pipe, p, p.crop, q, p.dst, k)
      BY <1>0, <1>2, <1>6, <2>1, <2>2 DEF IsSetWhole
    <3> QED
      BY <3>1, WholePipeShows
<1> QED
  BY <1>2, <1>4, <1>7, <1>8 DEF ShowsItsPart

(* A point off by one at most shows what is asked for beside it.           *)
LEMMA BesideShows ==
  ASSUME NEW p \in Int, NEW lo \in Int, NEW size \in Nat, NEW x \in Int,
         p - x <= 1, x - p <= 1
  PROVE  Near(p, lo, size, <<x - lo, size>>, 2)
<1>1. (p - lo) * size - size * (x - lo) = (p - x) * size
  OBVIOUS
<1>2. -2 * size <= (p - x) * size /\ (p - x) * size <= 2 * size
  <2>1. p - x = -1 \/ p - x = 0 \/ p - x = 1
    OBVIOUS
  <2> QED
    BY <2>1
<1> QED
  BY <1>1, <1>2 DEF Near

(* A pipe that shows part of the framebuffer where it is.                  *)
LEMMA FbPieceShows ==
  ASSUME NEW pipe, NEW q \in Rects, isValidRect(q), NEW src \in Rects, NEW dst \in Rects,
         NEW part, part = PartOf(pipe), part \in Rects,
         pipe.asked = [crop |-> q, dst |-> q, transform |-> {}, own |-> {}],
         pipe.rot = 0, pipe.ds = 0, pipe.kind = "fb", pipe.flips = {},
         pipe.src = src, pipe.dst = dst,
         NEW left, left = (IF pipe.side = "right" THEN Half(pipe.d, "right").l ELSE 0),
         left \in Int,
         dst.l + left = src.l, dst.r + left = src.r,
         dst.t = src.t, dst.b = src.b,
         src.l = part.l, src.t = part.t, src.b = part.b, part.r - src.r \in {0, 1}
  PROVE  ShowsItsPart(pipe)
<1>1. /\ src.l \in Int /\ src.t \in Int /\ src.r \in Int /\ src.b \in Int
      /\ dst.l \in Int /\ dst.t \in Int /\ dst.r \in Int /\ dst.b \in Int
      /\ part.l \in Int /\ part.t \in Int /\ part.r \in Int /\ part.b \in Int
      /\ q.l \in Int /\ q.t \in Int /\ Width(q) \in Nat /\ Height(q) \in Nat
  BY DEF Rects, Width, Height, isValidRect
<1>2. FillsItsPart(pipe)
  <2>1. \A x, y \in Int : x - y \in {0, 1} => y - x \in -1 .. 1
    OBVIOUS
  <2>2. /\ Close(dst.l + left, part.l) /\ Close(dst.t, part.t)
        /\ Close(dst.r + left, part.r) /\ Close(dst.b, part.b)
    <3>1. \A x \in Int : x - x \in -1 .. 1
      OBVIOUS
    <3> QED
      BY <1>1, <2>1, <3>1 DEF Close
  <2> QED
    BY <2>2, Zenon DEF FillsItsPart
<1>3. ASSUME NEW i \in {0, 1}, NEW j \in {0, 1} PROVE CornerShows(pipe, i, j)
  <2> DEFINE x == IF i = 0 THEN src.l ELSE src.r
             y == IF j = 0 THEN src.t ELSE src.b
             u == IF i = 0 THEN part.l ELSE part.r
             v == IF j = 0 THEN part.t ELSE part.b
  <2>1. PointInBuffer(pipe, i, j) = [x |-> x, y |-> y]
    BY <1>1, Powers DEF PointInBuffer, PointRead
  <2>2. PointAsked(pipe.asked, u, v) = [x |-> <<u - q.l, Width(q)>>, y |-> <<v - q.t, Height(q)>>]
    BY <1>1 DEF PointAsked
  <2>3. Tolerance(pipe) = 2
    BY DEF Tolerance
  <2>4. /\ x \in Int /\ y \in Int /\ u \in Int /\ v \in Int
        /\ x - u <= 1 /\ u - x <= 1 /\ y - v <= 1 /\ v - y <= 1
    BY <1>1
  <2>5. u = (IF i = 0 THEN part.l ELSE part.r) /\ v = (IF j = 0 THEN part.t ELSE part.b)
    OBVIOUS
  <2> HIDE DEF x, y, u, v
  <2>6. Near(x, q.l, Width(q), <<u - q.l, Width(q)>>, 2)
    BY <1>1, <2>4, BesideShows
  <2>7. Near(y, q.t, Height(q), <<v - q.t, Height(q)>>, 2)
    BY <1>1, <2>4, BesideShows
  <2>8. pipe.asked.crop = q
    OBVIOUS
  <2> QED
    BY <2>1, <2>2, <2>3, <2>5, <2>6, <2>7, <2>8 DEF CornerShows
<1> QED
  BY <1>2, <1>3 DEF ShowsItsPart

(* A rectangle is given by its sides.                                      *)
LEMMA RectIs ==
  ASSUME NEW q \in Rects
  PROVE  \E l, t, r, b \in Int : q = Rect(l, t, r, b)
<1>1. q.l \in Int /\ q.t \in Int /\ q.r \in Int /\ q.b \in Int /\ q = Rect(q.l, q.t, q.r, q.b)
  BY DEF Rects, Rect
<1> QED
  BY <1>1

(* The halves of a region in the middle of a screen.                       *)
LEMMA Halved ==
  ASSUME NEW l \in Int, NEW t \in Int, NEW r \in Int, NEW b \in Int, NEW w \in Nat, NEW h \in Nat,
         l < r, t < b, l + r = w, NEW half, half = (r - l) \div 2, NEW q, q = Rect(l, t, r, b),
         Overlap(q, Screen(w, h)) = q
  PROVE  /\ half \in Int /\ w \div 2 = l + half /\ r - (l + 2 * half) \in {0, 1}
         /\ Overlap(q, Rect(0, 0, w \div 2, h)) = Rect(l, t, l + half, b)
         /\ Overlap(q, Rect(w \div 2, 0, w, h)) = Rect(l + half, t, r, b)
<1>1. half \in Int /\ w \div 2 = l + half /\ r - (l + 2 * half) \in {0, 1}
  OBVIOUS
<1>2. /\ l = Greatest(l, 0) /\ t = Greatest(t, 0) /\ r = Least(r, w) /\ b = Least(b, h)
  BY DEF Overlap, Screen, Rect
<1>4. /\ Greatest(l, l + half) = l + half /\ Least(r, l + half) = l + half
  BY <1>1 DEF Greatest, Least
<1>5. Overlap(q, Rect(0, 0, w \div 2, h)) = Rect(Greatest(l, 0), Greatest(t, 0),
           Least(r, l + half), Least(b, h))
  BY <1>1 DEF Overlap, Rect
<1>6. Overlap(q, Rect(w \div 2, 0, w, h)) = Rect(Greatest(l, l + half), Greatest(t, 0),
           Least(r, w), Least(b, h))
  BY <1>1 DEF Overlap, Rect
<1> QED
  BY <1>1, <1>2, <1>4, <1>5, <1>6

(* The framebuffer on a wide display.                                      *)
LEMMA FbHighResShows ==
  ASSUME NEW d, NEW w \in Nat, w = Xres(d), NEW h \in Nat, h = Yres(d), NEW fb,
         NEW l \in Int, NEW t \in Int, NEW r \in Int, NEW b \in Int,
         NEW q, q = fb.crop, q = Rect(l, t, r, b),
         l < r, t < b, Overlap(q, Screen(w, h)) = q,
         NEW pipe, pipe \in FbHighResPipes(d, fb), ~SplitGoesWrong(pipe)
  PROVE  ShowsItsPart(pipe)
<1> DEFINE half == (r - l) \div 2
           asked == [crop |-> q, dst |-> q, transform |-> {}, own |-> {}]
           one == Rect(l, t, l + half, b)
           other == Rect(l + half, t, l + 2 * half, b)
           there == Rect(0, t, half, b)
           rest == Rect(l + half, t, r, b)
<1>1. half = Width(fb.crop) \div 2 /\ half \in Int
  BY DEF Width, Rect
<1>2. /\ q \in Rects /\ isValidRect(q) /\ one \in Rects /\ other \in Rects /\ there \in Rects
      /\ rest \in Rects
  BY <1>1 DEF Rects, Rect, isValidRect
<1>3. \/ pipe = configMdp(d, asked, one, one, {}, 0, FALSE, "fb", "left")
      \/ pipe = configMdp(d, asked, other, there, {}, 0, FALSE, "fb", "right")
  <2> DEFINE c == fb.crop  m == Width(fb.crop) \div 2
  <2>1. c = q /\ m = half
    BY <1>1
  <2>2. c.l = l /\ c.t = t /\ c.r = r /\ c.b = b
    BY DEF Rect
  <2>3. \/ pipe = configMdp(d, [crop |-> c, dst |-> c, transform |-> {}, own |-> {}],
                           Rect(c.l, c.t, c.l + m, c.b), Rect(c.l, c.t, c.l + m, c.b),
                           {}, 0, FALSE, "fb", "left")
        \/ pipe = configMdp(d, [crop |-> c, dst |-> c, transform |-> {}, own |-> {}],
                           Rect(c.l + m, c.t, c.l + 2 * m, c.b), Rect(0, c.t, m, c.b),
                           {}, 0, FALSE, "fb", "right")
    BY Zenon DEF FbHighResPipes
  <2> HIDE DEF c, m, half
  <2> QED
    BY <2>1, <2>2, <2>3, Zenon
<1> HIDE DEF half
<1>5. ASSUME NEW crop \in Rects, NEW dst \in Rects, NEW side \in {"left", "right"},
             pipe = configMdp(d, asked, crop, dst, {}, 0, FALSE, "fb", side)
      PROVE  /\ pipe.d = d /\ pipe.asked = asked /\ pipe.rot = 0 /\ pipe.ds = 0
             /\ pipe.kind = "fb" /\ pipe.flips = {} /\ pipe.side = side
             /\ pipe.src = crop /\ pipe.dst = dst
  <2> HIDE DEF asked
  <2>1. /\ pipe.src = MdpSet(crop, dst, 0, "fb" = "yuv").src
        /\ pipe.dst = MdpSet(crop, dst, 0, "fb" = "yuv").dst
    BY <1>5 DEF configMdp, PipeDownscale
  <2>2. MdpSet(crop, dst, 0, "fb" = "yuv") = MdpSet(crop, dst, 0, FALSE)
    <3>1. ("fb" = "yuv") = FALSE
      OBVIOUS
    <3> QED
      BY <3>1
  <2>3. /\ pipe.d = d /\ pipe.asked = asked /\ pipe.rot = 0 /\ pipe.ds = 0
        /\ pipe.kind = "fb" /\ pipe.flips = {} /\ pipe.side = side
    BY <1>5 DEF configMdp, PipeDownscale
  <2>4. MdpSet(crop, dst, 0, FALSE).src = crop
    BY MdpSetReadsAll
  <2>5. MdpSet(crop, dst, 0, FALSE).dst = dst
    BY DEF MdpSet, Rect, Rects, Width, Height
  <2> QED
    BY <2>1, <2>2, <2>3, <2>4, <2>5
<1>6. ASSUME pipe.side \in {"left", "right"}, pipe.kind = "fb", pipe.asked = asked, pipe.d = d
      PROVE  /\ w \div 2 = l + half /\ r - (l + 2 * half) \in {0, 1}
             /\ Overlap(q, Rect(0, 0, w \div 2, h)) = one
             /\ Overlap(q, Rect(w \div 2, 0, w, h)) = rest
  <2>1. pipe.asked.dst.l + pipe.asked.dst.r = w
    BY <1>6 DEF SplitGoesWrong
  <2>2. l + r = w
    BY <1>6, <2>1 DEF Rect
  <2> QED
    BY <2>2, Halved DEF half
<1>7. CASE pipe = configMdp(d, asked, one, one, {}, 0, FALSE, "fb", "left")
  <2>1. /\ pipe.d = d /\ pipe.asked = asked /\ pipe.rot = 0 /\ pipe.ds = 0
        /\ pipe.kind = "fb" /\ pipe.flips = {} /\ pipe.side = "left"
        /\ pipe.src = one /\ pipe.dst = one
    <3> HIDE DEF one, asked
    <3> QED
      BY <1>2, <1>5, <1>7
  <2>2. Overlap(q, Rect(0, 0, w \div 2, h)) = one
    BY <1>6, <2>1
  <2>3. PartOf(pipe) = one
    <3> HIDE DEF one
    <3> QED
      BY <2>1, <2>2 DEF PartOf, Half, asked
  <2>4. /\ 0 = (IF pipe.side = "right" THEN Half(pipe.d, "right").l ELSE 0)
        /\ one.l + 0 = one.l /\ one.r + 0 = one.r /\ one.r - one.r \in {0, 1}
    BY <1>1, <2>1 DEF Rect
  <2> HIDE DEF one
  <2> QED
    BY <1>2, <2>1, <2>3, <2>4, FbPieceShows
<1>8. CASE pipe = configMdp(d, asked, other, there, {}, 0, FALSE, "fb", "right")
  <2>1. /\ pipe.d = d /\ pipe.asked = asked /\ pipe.rot = 0 /\ pipe.ds = 0
        /\ pipe.kind = "fb" /\ pipe.flips = {} /\ pipe.side = "right"
        /\ pipe.src = other /\ pipe.dst = there
    <3> HIDE DEF other, there, asked
    <3> QED
      BY <1>2, <1>5, <1>8
  <2>2. /\ w \div 2 = l + half /\ r - (l + 2 * half) \in {0, 1}
        /\ Overlap(q, Rect(w \div 2, 0, w, h)) = rest
    BY <1>6, <2>1
  <2>3. PartOf(pipe) = rest
    <3> HIDE DEF rest
    <3> QED
      BY <2>1, <2>2 DEF PartOf, Half, asked
  <2> DEFINE left == l + half
  <2>4. left = (IF pipe.side = "right" THEN Half(pipe.d, "right").l ELSE 0) /\ left \in Int
    BY <1>1, <2>1, <2>2 DEF Half, Rect
  <2>6. /\ there.l + left = other.l /\ there.r + left = other.r
        /\ there.t = other.t /\ there.b = other.b
        /\ other.l = rest.l /\ other.t = rest.t /\ other.b = rest.b /\ rest.r - other.r \in {0, 1}
    BY <1>1, <2>2 DEF Rect
  <2> HIDE DEF other, there, rest, left
  <2> QED
    BY <1>2, <2>1, <2>3, <2>4, <2>6, FbPieceShows
<1> QED
  BY <1>3, <1>7, <1>8

-----------------------------------------------------------------------------
(* A display of two mixers: at the cut between the halves.                 *)

(* As a point of the screen moves to the side, one coordinate of what is   *)
(* asked for at it moves along, and the other stays.                       *)
MovesAlong(asked, r, y, g, m, z) ==
  /\ g \in Int /\ m \in Nat \ {0} /\ z \in {1, -1}
  /\ \A x \in Int :
       IF "ROT_90" \in asked.transform
       THEN /\ PointAsked(asked, x, y).x = PointAsked(asked, r, y).x
            /\ PointAsked(asked, x, y).y = <<g + z * (r - x), m>>
       ELSE /\ PointAsked(asked, x, y).y = PointAsked(asked, r, y).y
            /\ PointAsked(asked, x, y).x = <<g + z * (r - x), m>>

(* What is asked for moves along an axis as the point of the screen does.  *)
LEMMA AskedAlong ==
  ASSUME NEW asked, AskedOk(asked), NEW r \in Int, NEW y \in Int
  PROVE  \E g, m, z : MovesAlong(asked, r, y, g, m, z)
<1> DEFINE dst == asked.dst  m == Width(dst)
           H == "FLIP_H" \in asked.transform
           T == "ROT_90" \in asked.transform
<1>1. /\ dst.l \in Int /\ dst.r \in Int /\ m \in Nat \ {0}
  BY DEF AskedOk, Rects, Width, isValidRect
<1>2. \A x \in Int :
        IF T THEN /\ PointAsked(asked, x, y).x = PointAsked(asked, r, y).x
                  /\ PointAsked(asked, x, y).y = <<m - (IF H THEN dst.r - x ELSE x - dst.l), m>>
             ELSE /\ PointAsked(asked, x, y).y = PointAsked(asked, r, y).y
                  /\ PointAsked(asked, x, y).x = <<IF H THEN dst.r - x ELSE x - dst.l, m>>
  BY DEF PointAsked
<1> HIDE DEF m, dst
<1>3. CASE T /\ H
  <2>1. \A x \in Int : m - (dst.r - x) = (m - (dst.r - r)) + (-1) * (r - x)
    BY <1>1
  <2>2. m - (dst.r - r) \in Int /\ -1 \in {1, -1}
    BY <1>1
  <2>3. MovesAlong(asked, r, y, m - (dst.r - r), m, -1)
    BY <1>1, <1>2, <1>3, <2>1, <2>2 DEF MovesAlong
  <2> QED
    BY <2>3
<1>4. CASE T /\ ~H
  <2>1. \A x \in Int : m - (x - dst.l) = (m - (r - dst.l)) + 1 * (r - x)
    BY <1>1
  <2>2. m - (r - dst.l) \in Int /\ 1 \in {1, -1}
    BY <1>1
  <2>3. MovesAlong(asked, r, y, m - (r - dst.l), m, 1)
    BY <1>1, <1>2, <1>4, <2>1, <2>2 DEF MovesAlong
  <2> QED
    BY <2>3
<1>5. CASE ~T /\ H
  <2>1. \A x \in Int : dst.r - x = (dst.r - r) + 1 * (r - x)
    BY <1>1
  <2>2. dst.r - r \in Int /\ 1 \in {1, -1}
    BY <1>1
  <2>3. MovesAlong(asked, r, y, dst.r - r, m, 1)
    BY <1>1, <1>2, <1>5, <2>1, <2>2 DEF MovesAlong
  <2> QED
    BY <2>3
<1>6. CASE ~T /\ ~H
  <2>1. \A x \in Int : x - dst.l = (r - dst.l) + (-1) * (r - x)
    BY <1>1
  <2>2. r - dst.l \in Int /\ -1 \in {1, -1}
    BY <1>1
  <2>3. MovesAlong(asked, r, y, r - dst.l, m, -1)
    BY <1>1, <1>2, <1>6, <2>1, <2>2 DEF MovesAlong
  <2> QED
    BY <2>3
<1> QED
  BY <1>3, <1>4, <1>5, <1>6

(* Of a layer that is not flipped from left to right: its crop is cut at   *)
(* p, as far across as mid is across dst.  The cut shows what is asked for *)
(* at mid.                                                                 *)
CutAt(p, l, r, mid, left, right) ==
  /\ p \in Int /\ mid \in Int /\ left <= mid /\ mid <= right /\ left < right
  /\ \E rem \in Nat : /\ rem < right - left
                      /\ p * (right - left) = r * (mid - left) + l * (right - mid) - rem

TurnedCut(asked, dst, crop, q, rot, k, flips, p, mid, j, b, y, Y, got, ask) ==
  /\ AskedOk(asked) /\ dst \in Rects /\ crop \in Rects
  /\ Turned(rot, k, flips, asked.transform, crop, q) /\ "FLIP_H" \notin flips
  /\ (\A i \in {0, 1} : ShowsAt(asked, crop, dst, i, j)) /\ CutAt(p, q.l, q.r, mid, dst.l, dst.r)
  /\ j \in {0, 1} /\ b = (IF "FLIP_V" \in flips THEN 1 - j ELSE j)
  /\ y = (IF b = 0 THEN q.t ELSE q.b) /\ Y = (IF j = 0 THEN dst.t ELSE dst.b)
  /\ got = TurnOf(rot, k, [x |-> p, y |-> y]) /\ ask = PointAsked(asked, mid, Y)

(* What a pipe reads at the cut between the halves, turned back, is what   *)
(* is asked for there.                                                     *)
LEMMA MiddleShows ==
  ASSUME NEW asked, NEW dst, NEW crop, NEW q, NEW rot, NEW k, NEW flips, NEW p, NEW mid,
         NEW j, NEW b, NEW y, NEW Y, NEW got, NEW ask,
         TurnedCut(asked, dst, crop, q, rot, k, flips, p, mid, j, b, y, Y, got, ask)
  PROVE  /\ Near(got.x, asked.crop.l, Width(asked.crop), ask.x, 2)
         /\ Near(got.y, asked.crop.t, Height(asked.crop), ask.y, 2)
<1>0. /\ AskedOk(asked) /\ dst \in Rects /\ crop \in Rects
      /\ Turned(rot, k, flips, asked.transform, crop, q) /\ "FLIP_H" \notin flips
      /\ (\A i \in {0, 1} : ShowsAt(asked, crop, dst, i, j))
      /\ CutAt(p, q.l, q.r, mid, dst.l, dst.r)
      /\ j \in {0, 1} /\ b = (IF "FLIP_V" \in flips THEN 1 - j ELSE j)
      /\ y = (IF b = 0 THEN q.t ELSE q.b) /\ Y = (IF j = 0 THEN dst.t ELSE dst.b)
      /\ got = TurnOf(rot, k, [x |-> p, y |-> y]) /\ ask = PointAsked(asked, mid, Y)
  BY DEF TurnedCut
<1> USE <1>0
<1> DEFINE axes == TurnAxes(rot, k)  turned == "ROT_90" \in asked.transform
           gl == TurnOf(rot, k, [x |-> q.l, y |-> y])
           gr == TurnOf(rot, k, [x |-> q.r, y |-> y])
           askL == PointAsked(asked, dst.l, Y)
           askR == PointAsked(asked, dst.r, Y)
<1>1. /\ asked.transform \in SUBSET Turns
      /\ asked.crop.l \in Int /\ asked.crop.t \in Int
      /\ Width(asked.crop) \in Int /\ Height(asked.crop) \in Int
      /\ dst.l \in Int /\ dst.t \in Int /\ dst.r \in Int /\ dst.b \in Int /\ Y \in Int
  BY RectFacts DEF AskedOk, Rects
<1>2. q \in Rects /\ q.l \in Int /\ q.r \in Int /\ q.t \in Int /\ q.b \in Int /\ y \in Int
  <2>1. q \in Rects
    BY TurnedRect
  <2> QED
    BY <2>1 DEF Rects
<1>3. PICK rem \in Nat : /\ rem < dst.r - dst.l
                         /\ p * (dst.r - dst.l) = q.r * (mid - dst.l) + q.l * (dst.r - mid) - rem
  BY DEF CutAt
<1>4. p \in Int /\ mid \in Int /\ dst.l <= mid /\ mid <= dst.r /\ dst.l < dst.r
  BY DEF CutAt
<1>5. /\ gl = CornerOf(asked.transform, crop, 0, j)
      /\ gr = CornerOf(asked.transform, crop, 1, j)
  <2>1. /\ 0 = (IF "FLIP_H" \in flips THEN 1 - 0 ELSE 0)
        /\ 1 = (IF "FLIP_H" \in flips THEN 1 - 1 ELSE 1)
    OBVIOUS
  <2>2. ASSUME NEW i \in {0, 1}, NEW a, a = IF "FLIP_H" \in flips THEN 1 - i ELSE i
        PROVE  TurnOf(rot, k, [x |-> IF a = 0 THEN q.l ELSE q.r, y |-> IF b = 0 THEN q.t ELSE q.b])
                 = CornerOf(asked.transform, crop, i, j)
    BY <1>1, <2>2, TurnedShows
  <2>3. \A i \in {0, 1} : TurnOf(rot, k, [x |-> IF i = 0 THEN q.l ELSE q.r, y |-> y])
                            = CornerOf(asked.transform, crop, i, j)
    BY <2>2
  <2> QED
    BY <2>3
<1>6. /\ Near(gl.x, asked.crop.l, Width(asked.crop), askL.x, 1)
      /\ Near(gl.y, asked.crop.t, Height(asked.crop), askL.y, 1)
      /\ Near(gr.x, asked.crop.l, Width(asked.crop), askR.x, 1)
      /\ Near(gr.y, asked.crop.t, Height(asked.crop), askR.y, 1)
  <2>1. ShowsAt(asked, crop, dst, 0, j) /\ ShowsAt(asked, crop, dst, 1, j)
    OBVIOUS
  <2> QED
    BY <1>5, <2>1 DEF ShowsAt
<1>7. ASSUME NEW x \in Int
      PROVE  LET at == TurnOf(rot, k, [x |-> x, y |-> y]) IN
             /\ axes.x.c \in Int /\ axes.x.s \in {1, -1}
             /\ axes.y.c \in Int /\ axes.y.s \in {1, -1}
             /\ at.x = axes.x.c + axes.x.s * (IF turned THEN y ELSE x)
             /\ at.y = axes.y.c + axes.y.s * (IF turned THEN x ELSE y)
  <2>1. /\ asked.transform \in SUBSET Turns /\ y \in Int
        /\ Turned(rot, k, flips, asked.transform, crop, q)
    BY <1>1, <1>2
  <2> HIDE <1>0
  <2> QED
    BY <2>1, TurnHasAxes
<1>8. PICK g, m, z : MovesAlong(asked, dst.r, Y, g, m, z)
  BY <1>1, AskedAlong
<1>9. g \in Int /\ m \in Nat \ {0} /\ z \in {1, -1}
  BY <1>8 DEF MovesAlong
<1> DEFINE n == dst.r - mid  j2 == mid - dst.l
<1>10. /\ n \in Nat /\ j2 \in Nat /\ n + j2 # 0 /\ n + j2 = dst.r - dst.l
       /\ rem < n + j2 /\ p * (n + j2) = q.r * j2 + q.l * n - rem
  BY <1>1, <1>3, <1>4
<1>11. /\ axes.x.c \in Int /\ axes.x.s \in {1, -1} /\ axes.y.c \in Int /\ axes.y.s \in {1, -1}
       /\ gl.x = axes.x.c + axes.x.s * (IF turned THEN y ELSE q.l)
       /\ gl.y = axes.y.c + axes.y.s * (IF turned THEN q.l ELSE y)
       /\ gr.x = axes.x.c + axes.x.s * (IF turned THEN y ELSE q.r)
       /\ gr.y = axes.y.c + axes.y.s * (IF turned THEN q.r ELSE y)
       /\ got.x = axes.x.c + axes.x.s * (IF turned THEN y ELSE p)
       /\ got.y = axes.y.c + axes.y.s * (IF turned THEN p ELSE y)
  BY <1>2, <1>4, <1>7
<1> DEFINE c == axes.x.c  s == axes.x.s  u == axes.y.c  v == axes.y.s
<1>12. c \in Int /\ s \in {1, -1} /\ u \in Int /\ v \in Int /\ v \in {1, -1}
  BY <1>11
<1> DEFINE xlo == asked.crop.l  xsize == Width(asked.crop)
           ylo == asked.crop.t  ysize == Height(asked.crop)
<1>13. xlo \in Int /\ xsize \in Int /\ ylo \in Int /\ ysize \in Int
  BY <1>1
<1>14. /\ askR.x = <<askR.x[1], askR.x[2]>> /\ askR.x[1] \in Int /\ askR.x[2] \in Nat \ {0}
       /\ askR.y = <<askR.y[1], askR.y[2]>> /\ askR.y[1] \in Int /\ askR.y[2] \in Nat \ {0}
  BY <1>1, AskedFacts DEF AskedOk
<1>15. CASE turned
  <2>1. /\ ask.x = askR.x /\ ask.y = <<g + z * n, m>> /\ askL.y = <<g + z * (n + j2), m>>
        /\ askR.y = <<g, m>>
    <3>1. \A x \in Int : /\ PointAsked(asked, x, Y).x = PointAsked(asked, dst.r, Y).x
                         /\ PointAsked(asked, x, Y).y = <<g + z * (dst.r - x), m>>
      BY <1>8, <1>15 DEF MovesAlong
    <3>2. askR.y = <<g + z * (dst.r - dst.r), m>> /\ g + z * (dst.r - dst.r) = g
      BY <1>1, <1>9, <3>1
    <3>3. askL.y = <<g + z * (dst.r - dst.l), m>>
      BY <1>1, <3>1
    <3> QED
      BY <1>4, <1>10, <3>1, <3>2, <3>3
  <2>2. got.x = gr.x /\ gr.x \in Int
    BY <1>2, <1>11, <1>15
  <2>3. gl.y = u + v * q.l /\ gr.y = u + v * q.r /\ got.y = u + v * p
    BY <1>11, <1>15
  <2> DEFINE glo == gl.y  gro == gr.y  goto == got.y  ql == q.l  qr == q.r
  <2>4. glo \in Int /\ gro \in Int /\ goto \in Int /\ ql \in Int /\ qr \in Int
    BY <1>2, <1>4, <1>12, <2>3
  <2>5. Near(gro, ylo, ysize, <<g, m>>, 1) /\ Near(glo, ylo, ysize, <<g + z * (n + j2), m>>, 1)
    BY <1>6, <2>1
  <2>6. glo = u + v * ql /\ gro = u + v * qr /\ goto = u + v * p
    BY <2>3
  <2>7. p * (n + j2) = qr * j2 + ql * n - rem
    BY <1>10
  <2>8. Near(goto, ylo, ysize, <<g + z * n, m>>, 2)
    <3> HIDE DEF glo, gro, goto, ql, qr, u, v, n, j2, ylo, ysize
    <3>1. LiesBetween(glo, gro, goto, u, v, qr, ql, p, n, j2, rem, ylo, ysize, g, m, z)
      BY <1>3, <1>4, <1>9, <1>10, <1>12, <1>13, <2>4, <2>5, <2>6, <2>7 DEF LiesBetween
    <3> QED
      BY <3>1, NearBetween
  <2>9. Near(gr.x, xlo, xsize, askR.x, 2)
    <3>1. Near(gr.x, xlo, xsize, askR.x, 1)
      BY <1>6
    <3> HIDE <1>0
    <3> QED
      BY <1>13, <1>14, <2>2, <3>1, NearLooser
  <2> QED
    BY <2>1, <2>2, <2>8, <2>9
<1>16. CASE ~turned
  <2>1. /\ ask.y = askR.y /\ ask.x = <<g + z * n, m>> /\ askL.x = <<g + z * (n + j2), m>>
        /\ askR.x = <<g, m>>
    <3>1. \A x \in Int : /\ PointAsked(asked, x, Y).y = PointAsked(asked, dst.r, Y).y
                         /\ PointAsked(asked, x, Y).x = <<g + z * (dst.r - x), m>>
      BY <1>8, <1>16 DEF MovesAlong
    <3>2. askR.x = <<g + z * (dst.r - dst.r), m>> /\ g + z * (dst.r - dst.r) = g
      <4>1. askR.x = <<g + z * (dst.r - dst.r), m>>
        BY <1>1, <3>1
      <4> HIDE <1>0
      <4> QED
        BY <1>1, <1>9, <4>1
    <3>3. askL.x = <<g + z * (dst.r - dst.l), m>>
      BY <1>1, <3>1
    <3> QED
      BY <1>4, <1>10, <3>1, <3>2, <3>3
  <2>2. got.y = gr.y /\ gr.y \in Int
    BY <1>2, <1>11, <1>16
  <2>3. gl.x = c + s * q.l /\ gr.x = c + s * q.r /\ got.x = c + s * p
    BY <1>11, <1>16
  <2> DEFINE glo == gl.x  gro == gr.x  goto == got.x  ql == q.l  qr == q.r
  <2>4. glo \in Int /\ gro \in Int /\ goto \in Int /\ ql \in Int /\ qr \in Int
    BY <1>2, <1>4, <1>12, <2>3
  <2>5. Near(gro, xlo, xsize, <<g, m>>, 1) /\ Near(glo, xlo, xsize, <<g + z * (n + j2), m>>, 1)
    BY <1>6, <2>1
  <2>6. glo = c + s * ql /\ gro = c + s * qr /\ goto = c + s * p
    BY <2>3
  <2>7. p * (n + j2) = qr * j2 + ql * n - rem
    BY <1>10
  <2>8. Near(goto, xlo, xsize, <<g + z * n, m>>, 2)
    <3> HIDE DEF glo, gro, goto, ql, qr, c, s, n, j2, xlo, xsize
    <3>1. LiesBetween(glo, gro, goto, c, s, qr, ql, p, n, j2, rem, xlo, xsize, g, m, z)
      BY <1>3, <1>4, <1>9, <1>10, <1>12, <1>13, <2>4, <2>5, <2>6, <2>7 DEF LiesBetween
    <3> QED
      BY <3>1, NearBetween
  <2>9. Near(gr.y, ylo, ysize, askR.y, 2)
    <3>1. Near(gr.y, ylo, ysize, askR.y, 1)
      BY <1>6
    <3> HIDE <1>0
    <3> QED
      BY <1>13, <1>14, <2>2, <3>1, NearLooser
  <2> QED
    BY <2>1, <2>2, <2>8, <2>9
<1> QED
  BY <1>15, <1>16

-----------------------------------------------------------------------------
(* Cutting into halves.                                                    *)

(* A side that is not cut stays where it is.                               *)
LEMMA StartStays ==
  ASSUME NEW e \in Int, NEW size \in Int, NEW n \in Int, NEW d \in Nat \ {0}, n <= 0
  PROVE  CutStart(e, size, Part(n, d)) = e
<1>1. Part(n, d) = [n |-> 0, d |-> d]
  BY DEF Part, Greatest
<1>2. CutStart(e, size, Part(n, d)) = (e * d + size * 0) \div d
  BY <1>1 DEF CutStart
<1>3. e * d + size * 0 = e * d
  OBVIOUS
<1> QED
  BY <1>2, <1>3, CutNothing

(* The same of the other end.                                              *)
LEMMA EndStays ==
  ASSUME NEW e \in Int, NEW size \in Int, NEW n \in Int, NEW d \in Nat \ {0}, n <= 0
  PROVE  CutEnd(e, size, Part(n, d)) = e
<1>1. Part(n, d) = [n |-> 0, d |-> d]
  BY DEF Part, Greatest
<1>2. CutEnd(e, size, Part(n, d)) = (e * d - size * 0) \div d
  BY <1>1 DEF CutEnd
<1>3. e * d - size * 0 = e * d
  OBVIOUS
<1> QED
  BY <1>2, <1>3, CutNothing

(* The division that rounds down.                                          *)
LEMMA Quotient ==
  ASSUME NEW x \in Int, NEW d \in Nat \ {0}
  PROVE  x \div d \in Int /\ \E rem \in Nat : rem < d /\ (x \div d) * d = x - rem
<1> DEFINE p == x \div d
<1>1. p \in Int /\ 0 <= x - p * d /\ x - p * d < d
  OBVIOUS
<1> HIDE DEF p
<1>2. x - p * d \in Nat /\ p * d = x - (x - p * d)
  BY <1>1
<1>3. p \in Int /\ \E rem \in Nat : rem < d /\ p * d = x - rem
  BY <1>1, <1>2
<1> QED
  BY <1>3 DEF p

(* The cut at the middle of a screen is at the same point of the crop from *)
(* either side.                                                            *)
LEMMA MiddleStart ==
  ASSUME NEW a \in Int, NEW b \in Int, NEW mid \in Int, NEW l \in Int, NEW r \in Int,
         l < r, l <= mid, mid <= r
  PROVE  CutAt(CutStart(a, b - a, Part(mid - l, r - l)), a, b, mid, l, r)
<1> DEFINE d == r - l  x == a * d + (b - a) * (mid - l)  p == x \div d
<1>1. Part(mid - l, d) = [n |-> mid - l, d |-> d] /\ d \in Nat \ {0}
  BY DEF Part, Greatest
<1>2. CutStart(a, b - a, Part(mid - l, d)) = p
  <2> DEFINE c == Part(mid - l, d)
  <2>1. CutStart(a, b - a, c) = (a * c.d + (b - a) * c.n) \div c.d
    BY DEF CutStart
  <2>2. c.n = mid - l /\ c.d = d
    BY <1>1
  <2> QED
    BY <2>1, <2>2
<1>3. x \in Int /\ x = b * (mid - l) + a * (r - mid)
  OBVIOUS
<1>4. p \in Int /\ \E rem \in Nat : rem < d /\ p * d = x - rem
  <2> HIDE DEF x, d
  <2> QED
    BY <1>1, <1>3, Quotient
<1>5. CutAt(p, a, b, mid, l, r)
  <2>1. PICK rem \in Nat : rem < d /\ p * d = x - rem
    BY <1>4
  <2> HIDE DEF p, x
  <2>2. rem < r - l /\ p * (r - l) = b * (mid - l) + a * (r - mid) - rem
    BY <1>3, <2>1
  <2> QED
    BY <1>4, <2>2 DEF CutAt
<1> QED
  BY <1>2, <1>5

(* The same of the end of the left half.                                   *)
LEMMA MiddleEnd ==
  ASSUME NEW a \in Int, NEW b \in Int, NEW mid \in Int, NEW l \in Int, NEW r \in Int,
         l < r, l <= mid, mid <= r
  PROVE  CutAt(CutEnd(b, b - a, Part(r - mid, r - l)), a, b, mid, l, r)
<1> DEFINE d == r - l  x == b * d - (b - a) * (r - mid)  p == x \div d
<1>1. Part(r - mid, d) = [n |-> r - mid, d |-> d] /\ d \in Nat \ {0}
  BY DEF Part, Greatest
<1>2. CutEnd(b, b - a, Part(r - mid, d)) = p
  BY <1>1 DEF CutEnd
<1>3. x \in Int /\ x = b * (mid - l) + a * (r - mid)
  OBVIOUS
<1>4. p \in Int /\ \E rem \in Nat : rem < d /\ p * d = x - rem
  <2> HIDE DEF x, d
  <2> QED
    BY <1>1, <1>3, Quotient
<1>5. CutAt(p, a, b, mid, l, r)
  <2>1. PICK rem \in Nat : rem < d /\ p * d = x - rem
    BY <1>4
  <2> HIDE DEF p, x
  <2>2. rem < r - l /\ p * (r - l) = b * (mid - l) + a * (r - mid) - rem
    BY <1>3, <2>1
  <2> QED
    BY <1>4, <2>2 DEF CutAt
<1> QED
  BY <1>2, <1>5

(* What cutting to a part of the screen does, each side at a time.         *)
LEMMA CutIs ==
  ASSUME NEW a \in Int, NEW t \in Int, NEW b \in Int, NEW u \in Int, NEW q, q = Rect(a, t, b, u),
         NEW dst, NEW scissor
  PROVE  LET cut == calculate_crop_rects(q, dst, scissor, {}) IN
         /\ cut.dst = Overlap(dst, scissor)
         /\ cut.crop = Rect(CutStart(a, b - a, Part(scissor.l - dst.l, Width(dst))),
                            CutStart(t, u - t, Part(scissor.t - dst.t, Height(dst))),
                            CutEnd(b, b - a, Part(dst.r - scissor.r, Width(dst))),
                            CutEnd(u, u - t, Part(dst.b - scissor.b, Height(dst))))
<1> DEFINE sides == SidesCut(dst, scissor)
<1>1. calc_cut(sides, {}) = sides
  BY DEF calc_cut
<1>2. /\ sides.l = Part(scissor.l - dst.l, Width(dst))
      /\ sides.r = Part(dst.r - scissor.r, Width(dst))
      /\ sides.t = Part(scissor.t - dst.t, Height(dst))
      /\ sides.b = Part(dst.b - scissor.b, Height(dst))
  BY DEF SidesCut
<1>3. q.l = a /\ q.t = t /\ q.r = b /\ q.b = u /\ Width(q) = b - a /\ Height(q) = u - t
  BY DEF Rect, Width, Height
<1>4. calculate_crop_rects(q, dst, scissor, {})
           = [crop |-> CutCrop(q, sides), dst |-> Overlap(dst, scissor)]
  BY <1>1 DEF calculate_crop_rects
<1> HIDE DEF sides
<1>5. CutCrop(q, sides) = Rect(CutStart(a, b - a, sides.l), CutStart(t, u - t, sides.t),
                               CutEnd(b, b - a, sides.r), CutEnd(u, u - t, sides.b))
  BY <1>3 DEF CutCrop
<1> QED
  BY <1>2, <1>4, <1>5

OnScreen(dl, dt, dr, db, w, h) ==
  /\ dl \in Int /\ dt \in Int /\ dr \in Int /\ db \in Int /\ w \in Nat /\ h \in Nat
  /\ 0 <= dl /\ 0 <= dt /\ dl < dr /\ dt < db /\ dr <= w /\ db <= h

(* A destination in the left half is not cut there.                        *)
LEMMA LeftUncut ==
  ASSUME NEW a \in Int, NEW t \in Int, NEW b \in Int, NEW u \in Int, NEW q, q = Rect(a, t, b, u),
         NEW dl, NEW dt, NEW dr, NEW db, NEW w, NEW h, OnScreen(dl, dt, dr, db, w, h),
         NEW mid \in Int, dr <= mid, NEW dst, dst = Rect(dl, dt, dr, db),
         NEW cut, cut = calculate_crop_rects(q, dst, Rect(0, 0, mid, h), {})
  PROVE  cut.crop = q /\ cut.dst = dst
<1>1. /\ dl \in Int /\ dt \in Int /\ dr \in Int /\ db \in Int /\ h \in Nat
      /\ 0 <= dl /\ 0 <= dt /\ dl < dr /\ dt < db /\ db <= h
  BY DEF OnScreen
<1> DEFINE sc == Rect(0, 0, mid, h)
<1>2. /\ sc.l - dst.l = 0 - dl /\ sc.t - dst.t = 0 - dt /\ dst.r - sc.r = dr - mid
      /\ dst.b - sc.b = db - h /\ Width(dst) = dr - dl /\ Height(dst) = db - dt
  BY DEF Rect, Width, Height
<1>3. /\ cut.dst = Overlap(dst, sc)
      /\ cut.crop = Rect(CutStart(a, b - a, Part(0 - dl, dr - dl)),
                         CutStart(t, u - t, Part(0 - dt, db - dt)),
                         CutEnd(b, b - a, Part(dr - mid, dr - dl)),
                         CutEnd(u, u - t, Part(db - h, db - dt)))
  <2> HIDE DEF sc
  <2>1. /\ cut.dst = Overlap(dst, sc)
        /\ cut.crop = Rect(CutStart(a, b - a, Part(sc.l - dst.l, Width(dst))),
                            CutStart(t, u - t, Part(sc.t - dst.t, Height(dst))),
                            CutEnd(b, b - a, Part(dst.r - sc.r, Width(dst))),
                            CutEnd(u, u - t, Part(dst.b - sc.b, Height(dst))))
    <3>1. cut = calculate_crop_rects(q, dst, sc, {})
      BY DEF sc
    <3> QED
      BY <3>1, CutIs
  <2> QED
    BY <1>2, <2>1
<1>4. /\ CutStart(a, b - a, Part(0 - dl, dr - dl)) = a
      /\ CutStart(t, u - t, Part(0 - dt, db - dt)) = t
      /\ CutEnd(b, b - a, Part(dr - mid, dr - dl)) = b
      /\ CutEnd(u, u - t, Part(db - h, db - dt)) = u
  <2>1. /\ 0 - dl \in Int /\ 0 - dl <= 0 /\ 0 - dt \in Int /\ 0 - dt <= 0
        /\ dr - mid \in Int /\ dr - mid <= 0 /\ db - h \in Int /\ db - h <= 0
        /\ dr - dl \in Nat \ {0} /\ db - dt \in Nat \ {0}
        /\ b - a \in Int /\ u - t \in Int
    BY <1>1
  <2> DEFINE n1 == 0 - dl  n2 == 0 - dt  n3 == dr - mid  n4 == db - h
             d1 == dr - dl  d2 == db - dt  s1 == b - a  s2 == u - t
  <2>2. /\ n1 \in Int /\ n1 <= 0 /\ n2 \in Int /\ n2 <= 0 /\ n3 \in Int /\ n3 <= 0
        /\ n4 \in Int /\ n4 <= 0 /\ d1 \in Nat \ {0} /\ d2 \in Nat \ {0} /\ s1 \in Int /\ s2 \in Int
    BY <2>1
  <2> HIDE DEF n1, n2, n3, n4, d1, d2, s1, s2
  <2>3. /\ CutStart(a, s1, Part(n1, d1)) = a /\ CutStart(t, s2, Part(n2, d2)) = t
        /\ CutEnd(b, s1, Part(n3, d1)) = b /\ CutEnd(u, s2, Part(n4, d2)) = u
    BY <2>2, StartStays, EndStays
  <2> QED
    BY <2>3 DEF n1, n2, n3, n4, d1, d2, s1, s2
<1>5. Overlap(dst, sc) = dst
  <2>1. Greatest(dl, 0) = dl /\ Greatest(dt, 0) = dt /\ Least(dr, mid) = dr /\ Least(db, h) = db
    BY <1>1 DEF Greatest, Least
  <2> QED
    BY <2>1 DEF Overlap, Rect
<1> QED
  BY <1>3, <1>4, <1>5

(* The left half of one across the middle.                                 *)
LEMMA LeftCut ==
  ASSUME NEW a \in Int, NEW t \in Int, NEW b \in Int, NEW u \in Int, NEW q, q = Rect(a, t, b, u),
         NEW dl, NEW dt, NEW dr, NEW db, NEW w, NEW h, OnScreen(dl, dt, dr, db, w, h),
         NEW mid \in Int, dl <= mid, mid <= dr, NEW dst, dst = Rect(dl, dt, dr, db),
         NEW cut, cut = calculate_crop_rects(q, dst, Rect(0, 0, mid, h), {})
  PROVE  /\ cut.dst = Rect(dl, dt, mid, db)
         /\ \E p : cut.crop = Rect(a, t, p, u) /\ CutAt(p, a, b, mid, dl, dr)
<1>1. /\ dl \in Int /\ dt \in Int /\ dr \in Int /\ db \in Int /\ h \in Nat
      /\ 0 <= dl /\ 0 <= dt /\ dl < dr /\ dt < db /\ db <= h
  BY DEF OnScreen
<1> DEFINE sc == Rect(0, 0, mid, h)
<1>2. /\ sc.l - dst.l = 0 - dl /\ sc.t - dst.t = 0 - dt /\ dst.r - sc.r = dr - mid
      /\ dst.b - sc.b = db - h /\ Width(dst) = dr - dl /\ Height(dst) = db - dt
  BY DEF Rect, Width, Height
<1>3. /\ cut.dst = Overlap(dst, sc)
      /\ cut.crop = Rect(CutStart(a, b - a, Part(0 - dl, dr - dl)),
                         CutStart(t, u - t, Part(0 - dt, db - dt)),
                         CutEnd(b, b - a, Part(dr - mid, dr - dl)),
                         CutEnd(u, u - t, Part(db - h, db - dt)))
  <2> HIDE DEF sc
  <2>1. /\ cut.dst = Overlap(dst, sc)
        /\ cut.crop = Rect(CutStart(a, b - a, Part(sc.l - dst.l, Width(dst))),
                            CutStart(t, u - t, Part(sc.t - dst.t, Height(dst))),
                            CutEnd(b, b - a, Part(dst.r - sc.r, Width(dst))),
                            CutEnd(u, u - t, Part(dst.b - sc.b, Height(dst))))
    <3>1. cut = calculate_crop_rects(q, dst, sc, {})
      BY DEF sc
    <3> QED
      BY <3>1, CutIs
  <2> QED
    BY <1>2, <2>1
<1>4. /\ CutStart(a, b - a, Part(0 - dl, dr - dl)) = a
      /\ CutStart(t, u - t, Part(0 - dt, db - dt)) = t
      /\ CutEnd(u, u - t, Part(db - h, db - dt)) = u
  <2>1. /\ 0 - dl \in Int /\ 0 - dl <= 0 /\ 0 - dt \in Int /\ 0 - dt <= 0
        /\ db - h \in Int /\ db - h <= 0
        /\ dr - dl \in Nat \ {0} /\ db - dt \in Nat \ {0}
        /\ b - a \in Int /\ u - t \in Int
    BY <1>1
  <2> DEFINE n1 == 0 - dl  n2 == 0 - dt  n4 == db - h
             d1 == dr - dl  d2 == db - dt  s1 == b - a  s2 == u - t
  <2>2. /\ n1 \in Int /\ n1 <= 0 /\ n2 \in Int /\ n2 <= 0
        /\ n4 \in Int /\ n4 <= 0 /\ d1 \in Nat \ {0} /\ d2 \in Nat \ {0} /\ s1 \in Int /\ s2 \in Int
    BY <2>1
  <2> HIDE DEF n1, n2, n4, d1, d2, s1, s2
  <2>3. /\ CutStart(a, s1, Part(n1, d1)) = a /\ CutStart(t, s2, Part(n2, d2)) = t
        /\ CutEnd(u, s2, Part(n4, d2)) = u
    BY <2>2, StartStays, EndStays
  <2> QED
    BY <2>3 DEF n1, n2, n4, d1, d2, s1, s2
<1>5. Overlap(dst, sc) = Rect(dl, dt, mid, db)
  <2>1. Greatest(dl, 0) = dl /\ Greatest(dt, 0) = dt /\ Least(dr, mid) = mid /\ Least(db, h) = db
    BY <1>1 DEF Greatest, Least
  <2> QED
    BY <2>1 DEF Overlap, Rect
<1>6. CutAt(CutEnd(b, b - a, Part(dr - mid, dr - dl)), a, b, mid, dl, dr)
  BY <1>1, MiddleEnd
<1> QED
  BY <1>3, <1>4, <1>5, <1>6

(* Its right half.                                                         *)
LEMMA RightCut ==
  ASSUME NEW a \in Int, NEW t \in Int, NEW b \in Int, NEW u \in Int, NEW q, q = Rect(a, t, b, u),
         NEW dl, NEW dt, NEW dr, NEW db, NEW w, NEW h, OnScreen(dl, dt, dr, db, w, h),
         NEW mid \in Int, dl <= mid, mid <= dr, NEW dst, dst = Rect(dl, dt, dr, db),
         NEW cut, cut = calculate_crop_rects(q, dst, Rect(mid, 0, w, h), {})
  PROVE  /\ cut.dst = Rect(mid, dt, dr, db)
         /\ \E p : cut.crop = Rect(p, t, b, u) /\ CutAt(p, a, b, mid, dl, dr)
<1>1. /\ dl \in Int /\ dt \in Int /\ dr \in Int /\ db \in Int /\ h \in Nat /\ w \in Nat
      /\ 0 <= dl /\ 0 <= dt /\ dl < dr /\ dt < db /\ db <= h /\ dr <= w
  BY DEF OnScreen
<1> DEFINE sc == Rect(mid, 0, w, h)
<1>2. /\ sc.l - dst.l = mid - dl /\ sc.t - dst.t = 0 - dt /\ dst.r - sc.r = dr - w
      /\ dst.b - sc.b = db - h /\ Width(dst) = dr - dl /\ Height(dst) = db - dt
  BY DEF Rect, Width, Height
<1>3. /\ cut.dst = Overlap(dst, sc)
      /\ cut.crop = Rect(CutStart(a, b - a, Part(mid - dl, dr - dl)),
                         CutStart(t, u - t, Part(0 - dt, db - dt)),
                         CutEnd(b, b - a, Part(dr - w, dr - dl)),
                         CutEnd(u, u - t, Part(db - h, db - dt)))
  <2> HIDE DEF sc
  <2>1. /\ cut.dst = Overlap(dst, sc)
        /\ cut.crop = Rect(CutStart(a, b - a, Part(sc.l - dst.l, Width(dst))),
                            CutStart(t, u - t, Part(sc.t - dst.t, Height(dst))),
                            CutEnd(b, b - a, Part(dst.r - sc.r, Width(dst))),
                            CutEnd(u, u - t, Part(dst.b - sc.b, Height(dst))))
    <3>1. cut = calculate_crop_rects(q, dst, sc, {})
      BY DEF sc
    <3> QED
      BY <3>1, CutIs
  <2> QED
    BY <1>2, <2>1
<1>4. /\ CutEnd(b, b - a, Part(dr - w, dr - dl)) = b
      /\ CutStart(t, u - t, Part(0 - dt, db - dt)) = t
      /\ CutEnd(u, u - t, Part(db - h, db - dt)) = u
  <2>1. /\ dr - w \in Int /\ dr - w <= 0 /\ 0 - dt \in Int /\ 0 - dt <= 0
        /\ db - h \in Int /\ db - h <= 0
        /\ dr - dl \in Nat \ {0} /\ db - dt \in Nat \ {0}
        /\ b - a \in Int /\ u - t \in Int
    BY <1>1
  <2> DEFINE n1 == dr - w  n2 == 0 - dt  n4 == db - h
             d1 == dr - dl  d2 == db - dt  s1 == b - a  s2 == u - t
  <2>2. /\ n1 \in Int /\ n1 <= 0 /\ n2 \in Int /\ n2 <= 0
        /\ n4 \in Int /\ n4 <= 0 /\ d1 \in Nat \ {0} /\ d2 \in Nat \ {0} /\ s1 \in Int /\ s2 \in Int
    BY <2>1
  <2> HIDE DEF n1, n2, n4, d1, d2, s1, s2
  <2>3. /\ CutEnd(b, s1, Part(n1, d1)) = b /\ CutStart(t, s2, Part(n2, d2)) = t
        /\ CutEnd(u, s2, Part(n4, d2)) = u
    BY <2>2, StartStays, EndStays
  <2> QED
    BY <2>3 DEF n1, n2, n4, d1, d2, s1, s2
<1>5. Overlap(dst, sc) = Rect(mid, dt, dr, db)
  <2>1. Greatest(dl, mid) = mid /\ Greatest(dt, 0) = dt /\ Least(dr, w) = dr /\ Least(db, h) = db
    BY <1>1 DEF Greatest, Least
  <2> QED
    BY <2>1 DEF Overlap, Rect
<1>6. CutAt(CutStart(a, b - a, Part(mid - dl, dr - dl)), a, b, mid, dl, dr)
  BY <1>1, MiddleStart
<1> QED
  BY <1>3, <1>4, <1>5, <1>6

-----------------------------------------------------------------------------
(* The pipe of a mixer.                                                    *)

(* The ends of a crop are cuts at the ends of its destination.             *)
LEMMA EndsAreCuts ==
  ASSUME NEW a \in Int, NEW b \in Int, NEW l \in Int, NEW r \in Int, l < r
  PROVE  CutAt(a, a, b, l, l, r) /\ CutAt(b, a, b, r, l, r)
<1>1. a * (r - l) = b * (l - l) + a * (r - l) - 0
  OBVIOUS
<1>2. b * (r - l) = b * (r - l) + a * (r - r) - 0
  OBVIOUS
<1>3. 0 \in Nat /\ 0 < r - l
  OBVIOUS
<1> QED
  BY <1>1, <1>2, <1>3 DEF CutAt

(* A pipe that shows a piece of a crop, cut from left to right only, where *)
(* the corners of the piece are asked for.                                 *)
IsPiece(pipe, asked, c, at, part, k, crop, q, dst) ==
  /\ asked = pipe.asked /\ AskedOk(asked)
  /\ Reads(pipe, c, at) /\ part = PartOf(pipe) /\ part \in Rects
  /\ (pipe.rot # 0 => k = mRot[pipe.rot].kern)
  /\ crop \in Rects /\ Turned(pipe.rot, k, pipe.flips, asked.transform, crop, q)
  /\ "FLIP_H" \notin pipe.flips /\ dst \in Rects
  /\ (\A i, j \in {0, 1} : ShowsAt(asked, crop, dst, i, j))
  /\ c.t = q.t /\ c.b = q.b /\ part.t = dst.t /\ part.b = dst.b

(* A piece shows at its corners what is asked for there, when they are cut *)
(* where its part of the screen ends.                                      *)
LEMMA PieceCorner ==
  ASSUME NEW pipe, NEW asked, NEW c, NEW at, NEW part, NEW k, NEW crop, NEW q, NEW dst,
         IsPiece(pipe, asked, c, at, part, k, crop, q, dst),
         NEW i \in {0, 1}, NEW j \in {0, 1},
         NEW p, p = IF i = 0 THEN c.l ELSE c.r,
         NEW mid, mid = IF i = 0 THEN part.l ELSE part.r,
         CutAt(p, q.l, q.r, mid, dst.l, dst.r)
  PROVE  CornerShows(pipe, i, j)
<1>0. /\ asked = pipe.asked /\ AskedOk(asked)
      /\ Reads(pipe, c, at) /\ part = PartOf(pipe) /\ part \in Rects
      /\ (pipe.rot # 0 => k = mRot[pipe.rot].kern)
      /\ crop \in Rects /\ Turned(pipe.rot, k, pipe.flips, asked.transform, crop, q)
      /\ "FLIP_H" \notin pipe.flips /\ dst \in Rects
      /\ (\A u, v \in {0, 1} : ShowsAt(asked, crop, dst, u, v))
      /\ c.t = q.t /\ c.b = q.b /\ part.t = dst.t /\ part.b = dst.b
  BY DEF IsPiece
<1> USE <1>0
<1> DEFINE b == IF "FLIP_V" \in pipe.flips THEN 1 - j ELSE j
           y == IF b = 0 THEN q.t ELSE q.b
           Y == IF j = 0 THEN dst.t ELSE dst.b
           got == TurnOf(pipe.rot, k, [x |-> p, y |-> y])
           ask == PointAsked(asked, mid, Y)
<1>1. /\ b = IF "FLIP_V" \in pipe.flips THEN 1 - j ELSE j
      /\ y = IF b = 0 THEN q.t ELSE q.b
      /\ Y = IF j = 0 THEN dst.t ELSE dst.b
      /\ got = TurnOf(pipe.rot, k, [x |-> p, y |-> y])
      /\ ask = PointAsked(asked, mid, Y)
  OBVIOUS
<1> HIDE DEF b, y, Y, got, ask
<1>2. /\ Near(got.x, asked.crop.l, Width(asked.crop), ask.x, 2)
      /\ Near(got.y, asked.crop.t, Height(asked.crop), ask.y, 2)
  <2> DEFINE rot == pipe.rot  flips == pipe.flips
  <2>1. /\ Turned(rot, k, flips, asked.transform, crop, q) /\ "FLIP_H" \notin flips
        /\ b = IF "FLIP_V" \in flips THEN 1 - j ELSE j
        /\ got = TurnOf(rot, k, [x |-> p, y |-> y])
    BY <1>1
  <2> HIDE DEF rot, flips
  <2>2. TurnedCut(asked, dst, crop, q, rot, k, flips, p, mid, j, b, y, Y, got, ask)
    BY <1>1, <2>1 DEF TurnedCut
  <2> QED
    BY <2>2, MiddleShows
<1>3. CropShows(pipe, asked, c, at, k, crop, q, i, j, got, part, ask)
  <2>1. got = TurnOf(pipe.rot, k, [x |-> IF (IF "FLIP_H" \in pipe.flips THEN 1 - i ELSE i) = 0
                                         THEN c.l ELSE c.r,
                                   y |-> IF (IF "FLIP_V" \in pipe.flips THEN 1 - j ELSE j) = 0
                                         THEN c.t ELSE c.b])
    BY <1>1
  <2>2. ask = PointAsked(asked, IF i = 0 THEN part.l ELSE part.r, IF j = 0 THEN part.t ELSE part.b)
    BY <1>1
  <2> QED
    BY <1>2, <2>1, <2>2 DEF CropShows
<1> QED
  BY <1>3, PipeShows

(* A piece of which each end is where the crop ends or at the cut.         *)
LEMMA PieceShows ==
  ASSUME NEW pipe, NEW asked, NEW c, NEW at, NEW part, NEW k, NEW crop, NEW q, NEW dst,
         IsPiece(pipe, asked, c, at, part, k, crop, q, dst), dst.l < dst.r,
         \/ c.l = q.l /\ part.l = dst.l
         \/ CutAt(c.l, q.l, q.r, part.l, dst.l, dst.r),
         \/ c.r = q.r /\ part.r = dst.r
         \/ CutAt(c.r, q.l, q.r, part.r, dst.l, dst.r)
  PROVE  \A i, j \in {0, 1} : CornerShows(pipe, i, j)
<1>1. q.l \in Int /\ q.r \in Int /\ dst.l \in Int /\ dst.r \in Int
  BY TurnedRect DEF IsPiece, Rects
<1>2. CutAt(c.l, q.l, q.r, part.l, dst.l, dst.r) /\ CutAt(c.r, q.l, q.r, part.r, dst.l, dst.r)
  <2>1. CutAt(q.l, q.l, q.r, dst.l, dst.l, dst.r) /\ CutAt(q.r, q.l, q.r, dst.r, dst.l, dst.r)
    <3> DEFINE a == q.l  b == q.r  l == dst.l  r == dst.r
    <3>1. a \in Int /\ b \in Int /\ l \in Int /\ r \in Int /\ l < r
      BY <1>1
    <3> HIDE DEF a, b, l, r
    <3>2. CutAt(a, a, b, l, l, r) /\ CutAt(b, a, b, r, l, r)
      BY <3>1, EndsAreCuts
    <3> QED
      BY <3>2 DEF a, b, l, r
  <2> QED
    BY <2>1
<1> SUFFICES ASSUME NEW i \in {0, 1}, NEW j \in {0, 1}
             PROVE  CornerShows(pipe, i, j)
  OBVIOUS
<1> DEFINE p == IF i = 0 THEN c.l ELSE c.r
           mid == IF i = 0 THEN part.l ELSE part.r
<1>3. /\ p = IF i = 0 THEN c.l ELSE c.r
      /\ mid = IF i = 0 THEN part.l ELSE part.r
      /\ CutAt(p, q.l, q.r, mid, dst.l, dst.r)
  BY <1>2
<1> HIDE DEF p, mid
<1> QED
  BY <1>3, PieceCorner

(* What is left of a destination from al to ar on a wide screen, and on    *)
(* each half of it.                                                        *)
HalvesAre(dst, al, ar, w, h, mid, dl, dt, dr, db) ==
  /\ Overlap(dst, Screen(w, h)) = Rect(dl, dt, dr, db)
  /\ OnScreen(dl, dt, dr, db, w, h)
  /\ al <= mid => dl <= mid
  /\ ar <= mid => dr <= mid
  /\ ar > mid => mid <= dr
  /\ dr <= mid => Overlap(dst, Rect(0, 0, mid, h)) = Rect(dl, dt, dr, db)
  /\ mid <= dr => Overlap(dst, Rect(0, 0, mid, h)) = Rect(dl, dt, mid, db)
  /\ dl <= mid => Overlap(dst, Rect(mid, 0, w, h)) = Rect(mid, dt, dr, db)

(* What is left of a destination on a wide screen, and its halves.         *)
LEMMA HalvesOf ==
  ASSUME NEW al \in Int, NEW at \in Int, NEW ar \in Int, NEW ab \in Int,
         NEW w \in Nat, NEW h \in Nat, NEW mid, mid = w \div 2, NEW dst, dst = Rect(al, at, ar, ab),
         isValidRect(Overlap(dst, Screen(w, h)))
  PROVE  \E dl, dt, dr, db : HalvesAre(dst, al, ar, w, h, mid, dl, dt, dr, db)
<1> DEFINE dl == Greatest(al, 0)  dt == Greatest(at, 0)  dr == Least(ar, w)  db == Least(ab, h)
<1>0. mid \in Nat /\ mid <= w
  OBVIOUS
<1>1. /\ dl \in Int /\ ((al >= 0 /\ dl = al) \/ (al < 0 /\ dl = 0))
      /\ dt \in Int /\ ((at >= 0 /\ dt = at) \/ (at < 0 /\ dt = 0))
      /\ dr \in Int /\ ((ar <= w /\ dr = ar) \/ (ar > w /\ dr = w))
      /\ db \in Int /\ ((ab <= h /\ db = ab) \/ (ab > h /\ db = h))
  <2>1. dl \in Int /\ ((al >= 0 /\ dl = al) \/ (al < 0 /\ dl = 0))
    BY DEF Greatest
  <2>2. dt \in Int /\ ((at >= 0 /\ dt = at) \/ (at < 0 /\ dt = 0))
    BY DEF Greatest
  <2>3. dr \in Int /\ ((ar <= w /\ dr = ar) \/ (ar > w /\ dr = w))
    BY DEF Least
  <2>4. db \in Int /\ ((ab <= h /\ db = ab) \/ (ab > h /\ db = h))
    BY DEF Least
  <2> QED
    BY <2>1, <2>2, <2>3, <2>4
<1>2. Overlap(dst, Screen(w, h)) = Rect(dl, dt, dr, db)
  BY DEF Overlap, Screen, Rect
<1>3. dl < dr /\ dt < db
  <2> HIDE DEF dl, dt, dr, db
  <2> QED
    BY <1>1, <1>2 DEF isValidRect, Rect
<1>4. OnScreen(dl, dt, dr, db, w, h)
  <2> HIDE DEF dl, dt, dr, db
  <2> QED
    BY <1>1, <1>3 DEF OnScreen
<1>5. Overlap(dst, Rect(0, 0, mid, h)) = Rect(dl, dt, Least(ar, mid), db)
  BY DEF Overlap, Rect
<1>6. Overlap(dst, Rect(mid, 0, w, h)) = Rect(Greatest(al, mid), dt, dr, db)
  BY DEF Overlap, Rect
<1> HIDE DEF dl, dt, dr, db
<1>7. dr <= mid => Least(ar, mid) = dr
  BY <1>0, <1>1 DEF Least
<1>8. mid <= dr => Least(ar, mid) = mid
  BY <1>0, <1>1 DEF Least
<1>9. dl <= mid => Greatest(al, mid) = mid
  BY <1>0, <1>1 DEF Greatest
<1>10. /\ al <= mid => dl <= mid
       /\ ar <= mid => dr <= mid
       /\ ar > mid => mid <= dr
  BY <1>0, <1>1
<1>11. HalvesAre(dst, al, ar, w, h, mid, dl, dt, dr, db)
  BY <1>2, <1>4, <1>5, <1>6, <1>7, <1>8, <1>9, <1>10 DEF HalvesAre
<1> QED
  BY <1>11

(* A pipe of one mixer has been set to read what the cut leaves of q, at   *)
(* the place that is left of dst, moved to the mixer's edge.               *)
LEMMA MixerReads ==
  ASSUME NEW d, NEW asked, NEW q, NEW dst, NEW flags, NEW rot, NEW kind, NEW side,
         NEW pipe, pipe = MixerPipe(d, asked, q, dst, flags, rot, kind, side),
         NEW cut, cut = calculate_crop_rects(q, dst, Half(d, side), {}),
         NEW to, to = IF side = "right" THEN Rect(0, cut.dst.t, Width(cut.dst), cut.dst.b)
                      ELSE cut.dst,
         cut.crop \in Rects, to \in Rects
  PROVE  /\ pipe.d = d /\ pipe.asked = asked /\ pipe.side = side /\ pipe.rot = rot
         /\ pipe.kind = kind /\ pipe.flips = flags \cap Flips /\ pipe.ds = 0
         /\ Reads(pipe, cut.crop, to)
<1>1. pipe = configMdp(d, asked, cut.crop, to, flags, rot, FALSE, kind, side)
  BY Zenon DEF MixerPipe
<1>2. /\ pipe.d = d /\ pipe.asked = asked /\ pipe.side = side /\ pipe.rot = rot
      /\ pipe.kind = kind /\ pipe.flips = flags \cap Flips /\ pipe.ds = 0
      /\ pipe.src = MdpSet(cut.crop, to, 0, kind = "yuv").src
      /\ pipe.dst = MdpSet(cut.crop, to, 0, kind = "yuv").dst
  BY <1>1 DEF configMdp, PipeDownscale
<1> QED
  BY <1>2 DEF Reads

(* The pipe of one mixer, of those it does not go wrong for.               *)
IsMixerPipe(pipe, d, w, h, asked, crop, dst, flags, q, rot, k, kind, side) ==
  /\ w \in Nat /\ w = Xres(d) /\ h \in Nat /\ h = Yres(d)
  /\ AskedOk(asked) /\ crop \in Rects
  /\ dst \in Rects /\ dst = Overlap(asked.dst, Screen(w, h)) /\ isValidRect(dst)
  /\ (\A i, j \in {0, 1} : ShowsAt(asked, crop, dst, i, j))
  /\ (rot # 0 => k = mRot[rot].kern /\ k.ds = 0)
  /\ Turned(rot, k, flags \cap Flips, asked.transform, crop, q)
  /\ side \in {"left", "right"} /\ asked.dst.l <= w \div 2
  /\ (side = "right" => asked.dst.r > w \div 2)
  /\ ("FLIP_H" \in flags \cap Flips => side = "left" /\ asked.dst.r <= w \div 2)
  /\ pipe = MixerPipe(d, asked, q, dst, flags, rot, kind, side)

(* The pipe at a mixer shows the half it is to fill.                       *)
LEMMA MixerShows ==
  ASSUME NEW d, NEW w, NEW h, NEW asked, NEW crop, NEW dst, NEW flags, NEW q, NEW rot, NEW k,
         NEW kind, NEW side, NEW pipe,
         IsMixerPipe(pipe, d, w, h, asked, crop, dst, flags, q, rot, k, kind, side)
  PROVE  ShowsItsPart(pipe)
<1>0. /\ w \in Nat /\ w = Xres(d) /\ h \in Nat /\ h = Yres(d)
      /\ AskedOk(asked) /\ crop \in Rects
      /\ dst \in Rects /\ dst = Overlap(asked.dst, Screen(w, h)) /\ isValidRect(dst)
      /\ (\A i, j \in {0, 1} : ShowsAt(asked, crop, dst, i, j))
      /\ (rot # 0 => k = mRot[rot].kern /\ k.ds = 0)
      /\ Turned(rot, k, flags \cap Flips, asked.transform, crop, q)
      /\ side \in {"left", "right"} /\ asked.dst.l <= w \div 2
      /\ (side = "right" => asked.dst.r > w \div 2)
      /\ ("FLIP_H" \in flags \cap Flips => side = "left" /\ asked.dst.r <= w \div 2)
      /\ pipe = MixerPipe(d, asked, q, dst, flags, rot, kind, side)
  BY DEF IsMixerPipe
<1> USE <1>0
<1> DEFINE mid == w \div 2
           cut == calculate_crop_rects(q, dst, Half(d, side), {})
           to == IF side = "right" THEN Rect(0, cut.dst.t, Width(cut.dst), cut.dst.b) ELSE cut.dst
<1>1. PICK al, at, ar, ab \in Int : asked.dst = Rect(al, at, ar, ab)
  BY RectIs DEF AskedOk
<1>2. q \in Rects
  BY TurnedRect
<1>3. PICK a, t, b, u \in Int : q = Rect(a, t, b, u)
  BY <1>2, RectIs
<1>4. PICK dl, dt, dr, db : HalvesAre(asked.dst, al, ar, w, h, mid, dl, dt, dr, db)
  <2> DEFINE whole == asked.dst
  <2>1. /\ mid = w \div 2 /\ whole = Rect(al, at, ar, ab)
        /\ isValidRect(Overlap(whole, Screen(w, h)))
    BY <1>1
  <2> HIDE DEF mid, whole
  <2>2. \E dl, dt, dr, db : HalvesAre(whole, al, ar, w, h, mid, dl, dt, dr, db)
    BY <2>1, HalvesOf
  <2> QED
    BY <2>2 DEF whole
<1>4a. /\ dst = Rect(dl, dt, dr, db) /\ OnScreen(dl, dt, dr, db, w, h)
       /\ al <= mid => dl <= mid
       /\ ar <= mid => dr <= mid
       /\ ar > mid => mid <= dr
       /\ dr <= mid => Overlap(asked.dst, Rect(0, 0, mid, h)) = Rect(dl, dt, dr, db)
       /\ mid <= dr => Overlap(asked.dst, Rect(0, 0, mid, h)) = Rect(dl, dt, mid, db)
       /\ dl <= mid => Overlap(asked.dst, Rect(mid, 0, w, h)) = Rect(mid, dt, dr, db)
  <2> HIDE DEF mid
  <2> QED
    BY <1>4 DEF HalvesAre
<1>5. /\ al <= mid /\ (side = "right" => ar > mid)
      /\ ("FLIP_H" \in flags \cap Flips => side = "left" /\ ar <= mid)
      /\ mid \in Int /\ dl <= mid
  BY <1>1, <1>4a DEF Rect
<1>6. Half(d, "left") = Rect(0, 0, mid, h) /\ Half(d, "right") = Rect(mid, 0, w, h)
  BY DEF Half
<1>7. /\ cut = calculate_crop_rects(q, dst, Half(d, side), {})
      /\ to = IF side = "right" THEN Rect(0, cut.dst.t, Width(cut.dst), cut.dst.b) ELSE cut.dst
  OBVIOUS
<1>8. dl \in Int /\ dr \in Int /\ dt \in Int /\ db \in Int /\ dl < dr
  BY <1>4a DEF OnScreen
<1> HIDE DEF mid, cut, to
<1>9. ASSUME cut.crop \in Rects, to \in Rects
      PROVE  /\ pipe.d = d /\ pipe.asked = asked /\ pipe.side = side /\ pipe.rot = rot
             /\ pipe.kind = kind /\ pipe.flips = flags \cap Flips /\ pipe.ds = 0
             /\ Reads(pipe, cut.crop, to)
             /\ PartOf(pipe) = Overlap(asked.dst, Half(d, side))
  <2>1. /\ pipe.d = d /\ pipe.asked = asked /\ pipe.side = side /\ pipe.rot = rot
        /\ pipe.kind = kind /\ pipe.flips = flags \cap Flips /\ pipe.ds = 0
        /\ Reads(pipe, cut.crop, to)
    BY <1>7, <1>9, MixerReads
  <2> QED
    BY <2>1 DEF PartOf
<1>10. CASE side = "left" /\ dr <= mid
  <2>1. cut = calculate_crop_rects(q, dst, Rect(0, 0, mid, h), {})
    BY <1>6, <1>7, <1>10
  <2>2. cut.crop = q /\ cut.dst = dst
    BY <1>3, <1>4a, <1>5, <1>10, <2>1, LeftUncut
  <2>3. to = dst
    BY <1>7, <1>10, <2>2
  <2>4. /\ pipe.d = d /\ pipe.asked = asked /\ pipe.side = "left" /\ pipe.rot = rot
        /\ pipe.flips = flags \cap Flips /\ pipe.ds = 0 /\ Reads(pipe, q, dst)
        /\ PartOf(pipe) = dst
    BY <1>2, <1>4a, <1>6, <1>9, <1>10, <2>2, <2>3
  <2>5. FillsItsPart(pipe)
    <3> HIDE <1>0
    <3> QED
      BY <2>4, WholeFills
  <2>6. ASSUME NEW i \in {0, 1}, NEW j \in {0, 1} PROVE CornerShows(pipe, i, j)
    <3>1. IsWhole(pipe, asked, crop, q, dst, k)
      BY <2>4 DEF IsWhole
    <3>2. ShowsAt(asked, crop, dst, i, j)
      OBVIOUS
    <3> HIDE <1>0
    <3> QED
      BY <3>1, <3>2, WholeCorner
  <2> QED
    BY <2>4, <2>5, <2>6 DEF ShowsItsPart
<1>11. CASE side = "left" /\ dr > mid
  <2> DEFINE part == Rect(dl, dt, mid, db)
  <2>1. cut = calculate_crop_rects(q, dst, Rect(0, 0, mid, h), {})
    BY <1>6, <1>7, <1>11
  <2>2. /\ cut.dst = part
        /\ \E p : cut.crop = Rect(a, t, p, u) /\ CutAt(p, a, b, mid, dl, dr)
    <3>1. /\ OnScreen(dl, dt, dr, db, w, h) /\ dst = Rect(dl, dt, dr, db)
          /\ dl <= mid /\ mid \in Int /\ mid <= dr
      BY <1>4a, <1>5, <1>8, <1>11
    <3> HIDE DEF part
    <3> QED
      BY <1>3, <2>1, <3>1, LeftCut DEF part
  <2>3. PICK p : cut.crop = Rect(a, t, p, u) /\ CutAt(p, a, b, mid, dl, dr)
    BY <2>2
  <2>4. to = part
    BY <1>7, <1>11, <2>2
  <2>5. part \in Rects /\ cut.crop \in Rects
    <3>1. p \in Int
      BY <2>3 DEF CutAt
    <3> QED
      BY <1>5, <1>8, <2>3, <3>1 DEF Rects, Rect
  <2>6. "FLIP_H" \notin flags \cap Flips
    BY <1>4a, <1>5, <1>8, <1>11
  <2>7. /\ pipe.d = d /\ pipe.asked = asked /\ pipe.side = "left" /\ pipe.rot = rot
        /\ pipe.flips = flags \cap Flips /\ pipe.ds = 0 /\ Reads(pipe, cut.crop, part)
        /\ PartOf(pipe) = part
    BY <1>4a, <1>5, <1>6, <1>8, <1>9, <1>11, <2>4, <2>5
  <2>8. FillsItsPart(pipe)
    <3> HIDE <1>0
    <3> QED
      BY <2>7, WholeFills
  <2>9. /\ cut.crop.l = a /\ cut.crop.t = t /\ cut.crop.r = p /\ cut.crop.b = u
        /\ q.l = a /\ q.t = t /\ q.r = b /\ q.b = u
        /\ part.l = dl /\ part.t = dt /\ part.r = mid /\ part.b = db
        /\ dst.l = dl /\ dst.t = dt /\ dst.r = dr /\ dst.b = db
    BY <1>3, <1>4a, <2>3 DEF Rect
  <2>10. \A i, j \in {0, 1} : CornerShows(pipe, i, j)
    <3> DEFINE c == cut.crop
    <3> HIDE DEF part
    <3>1. IsPiece(pipe, asked, c, part, part, k, crop, q, dst)
      BY <2>5, <2>6, <2>7, <2>9 DEF IsPiece
    <3>2. /\ c.l = q.l /\ part.l = dst.l
          /\ CutAt(c.r, q.l, q.r, part.r, dst.l, dst.r) /\ dst.l < dst.r
      BY <1>8, <2>3, <2>9
    <3> HIDE DEF c
    <3> QED
      BY <3>1, <3>2, PieceShows
  <2> QED
    BY <2>7, <2>8, <2>10 DEF ShowsItsPart
<1>12. CASE side = "right"
  <2> DEFINE part == Rect(mid, dt, dr, db)
  <2>0. mid <= dr
    BY <1>4a, <1>5, <1>12
  <2>1. cut = calculate_crop_rects(q, dst, Rect(mid, 0, w, h), {})
    BY <1>6, <1>7, <1>12
  <2>2. /\ cut.dst = part
        /\ \E p : cut.crop = Rect(p, t, b, u) /\ CutAt(p, a, b, mid, dl, dr)
    <3>1. /\ OnScreen(dl, dt, dr, db, w, h) /\ dst = Rect(dl, dt, dr, db)
          /\ dl <= mid /\ mid \in Int
      BY <1>4a, <1>5
    <3> QED
      BY <1>3, <2>0, <2>1, <3>1, RightCut
  <2>3. PICK p : cut.crop = Rect(p, t, b, u) /\ CutAt(p, a, b, mid, dl, dr)
    BY <2>2
  <2>4. to = Rect(0, dt, dr - mid, db)
    BY <1>7, <1>12, <2>2 DEF Rect, Width
  <2>5. part \in Rects /\ cut.crop \in Rects /\ to \in Rects
    <3>1. p \in Int
      BY <2>3 DEF CutAt
    <3> QED
      BY <1>5, <1>8, <2>3, <2>4, <3>1 DEF Rects, Rect
  <2>6. "FLIP_H" \notin flags \cap Flips
    BY <1>5, <1>12
  <2>7. /\ pipe.d = d /\ pipe.asked = asked /\ pipe.side = "right" /\ pipe.rot = rot
        /\ pipe.flips = flags \cap Flips /\ pipe.ds = 0 /\ Reads(pipe, cut.crop, to)
        /\ PartOf(pipe) = part
    BY <1>4a, <1>5, <1>6, <1>9, <1>12, <2>5
  <2>8. FillsItsPart(pipe)
    <3>1. /\ pipe.dst \in Rects /\ pipe.dst.l = 0 /\ pipe.dst.t = dt
          /\ (dr - mid) - pipe.dst.r \in 0 .. 1 /\ db - pipe.dst.b \in 0 .. 1
      <4>1. to.l = 0 /\ to.t = dt /\ to.r = dr - mid /\ to.b = db
        BY <2>4 DEF Rect
      <4>2. /\ pipe.dst \in Rects /\ pipe.dst.l = to.l /\ pipe.dst.t = to.t
            /\ to.r - pipe.dst.r \in 0 .. 1 /\ to.b - pipe.dst.b \in 0 .. 1
        BY <2>7, PipeFills
      <4> QED
        BY <4>1, <4>2
    <3>2. pipe.dst.r \in Int /\ pipe.dst.b \in Int
      BY <3>1 DEF Rects
    <3>3. Half(pipe.d, "right").l = mid
      BY <1>6, <2>7 DEF Rect
    <3>4. part.l = mid /\ part.t = dt /\ part.r = dr /\ part.b = db
      BY DEF Rect
    <3>5. /\ Close(pipe.dst.l + mid, part.l) /\ Close(pipe.dst.t, part.t)
          /\ Close(pipe.dst.r + mid, part.r) /\ Close(pipe.dst.b, part.b)
      <4>1. \A x \in Int : Close(x, x) /\ Close(0 + x, x)
        BY DEF Close
      <4>2. \A x, y, z \in Int : (x - z) - y \in 0 .. 1 => Close(y + z, x)
        BY DEF Close
      <4>3. \A x, y \in Int : x - y \in 0 .. 1 => Close(y, x)
        BY DEF Close
      <4> HIDE DEF part
      <4> QED
        BY <1>5, <1>8, <3>1, <3>2, <3>4, <4>1, <4>2, <4>3
    <3> HIDE DEF part
    <3> QED
      BY <2>7, <3>3, <3>5, Zenon DEF FillsItsPart
  <2>9. /\ cut.crop.l = p /\ cut.crop.t = t /\ cut.crop.r = b /\ cut.crop.b = u
        /\ q.l = a /\ q.t = t /\ q.r = b /\ q.b = u
        /\ part.l = mid /\ part.t = dt /\ part.r = dr /\ part.b = db
        /\ dst.l = dl /\ dst.t = dt /\ dst.r = dr /\ dst.b = db
    BY <1>3, <1>4a, <2>3 DEF Rect
  <2>10. \A i, j \in {0, 1} : CornerShows(pipe, i, j)
    <3> DEFINE c == cut.crop
    <3> HIDE DEF part
    <3>1. IsPiece(pipe, asked, c, to, part, k, crop, q, dst)
      BY <2>5, <2>6, <2>7, <2>9 DEF IsPiece
    <3>2. /\ c.r = q.r /\ part.r = dst.r
          /\ CutAt(c.l, q.l, q.r, part.l, dst.l, dst.r) /\ dst.l < dst.r
      BY <1>8, <2>3, <2>9
    <3> HIDE DEF c
    <3> QED
      BY <3>1, <3>2, PieceShows
  <2> QED
    BY <2>7, <2>8, <2>10 DEF ShowsItsPart
<1> QED
  BY <1>8, <1>5, <1>10, <1>11, <1>12

(* The fields of such a pipe.                                              *)
LEMMA MixerFields ==
  ASSUME NEW d, NEW asked, NEW q, NEW dst, NEW flags, NEW rot, NEW kind, NEW side
  PROVE  LET pipe == MixerPipe(d, asked, q, dst, flags, rot, kind, side) IN
         /\ pipe.d = d /\ pipe.asked = asked /\ pipe.side = side
         /\ pipe.flips = flags \cap Flips
<1> DEFINE cut == calculate_crop_rects(q, dst, Half(d, side), {})
           to == IF side = "right" THEN Rect(0, cut.dst.t, Width(cut.dst), cut.dst.b)
                 ELSE cut.dst
<1>1. MixerPipe(d, asked, q, dst, flags, rot, kind, side)
        = configMdp(d, asked, cut.crop, to, flags, rot, FALSE, kind, side)
  BY Zenon DEF MixerPipe
<1> HIDE DEF cut, to
<1> QED
  BY <1>1 DEF configMdp

(* The layers of a wide display.                                           *)
LEMMA HighResShows ==
  ASSUME NEW w \in Nat, w = Xres(dpy), NEW h \in Nat, h = Yres(dpy), HighRes(dpy),
         NEW L, L.w \in Nat, L.h \in Nat, NEW p, AskedOk(p), p.dst = L.dst,
         isValidRect(Overlap(p.dst, Screen(w, h))), NEW rot, Served(L, p, rot),
         shown = HighResPipes(dpy, L, p, rot), NEW pipe \in shown, ~SplitGoesWrong(pipe)
  PROVE  ShowsItsPart(pipe)
<1> DEFINE t == trimLayer(Screen(w, h), p.transform, p.crop, p.dst)
           q == SourceCrop(L, p, t.crop, rot)
           flags == setMdpFlags(L, 0, p.transform)
           k == mRot[rot].kern
           mid == w \div 2
           Of(side) == MixerPipe(dpy, p, q, t.dst, flags, rot, KindOf(L), side)
<1>0. /\ p.crop \in Rects /\ p.dst \in Rects /\ isValidRect(p.dst)
      /\ p.transform \in SUBSET Turns /\ w \in Int /\ h \in Int
  BY DEF AskedOk
<1>1. shown = {Of(side) : side \in MixersOf(dpy, L)}
  BY Zenon DEF HighResPipes
<1>2. \A side : /\ Of(side).d = dpy /\ Of(side).asked = p /\ Of(side).side = side
                /\ Of(side).flips = flags \cap Flips
  BY MixerFields
<1>3. LayerDownscale(dpy, L, p) = 0
  BY DEF LayerDownscale
<1>4. /\ Turned(rot, k, flags \cap Flips, p.transform, t.crop, q)
      /\ rot # 0 => k.ds = 0
  BY <1>0, <1>3, ServedTurns
<1>6. /\ t.crop \in Rects /\ t.dst \in Rects /\ t.dst = Overlap(p.dst, Screen(w, h))
      /\ \A i, j \in {0, 1} : ShowsAt(p, t.crop, t.dst, i, j)
  <2>1. t = trimLayer(Screen(w, h), p.transform, p.crop, p.dst)
    OBVIOUS
  <2> HIDE DEF t
  <2> QED
    BY <1>0, <2>1, TrimShows
<1>7. PICK side \in MixersOf(dpy, L) : pipe = Of(side)
  BY <1>1
<1>8. /\ side \in {"left", "right"} /\ p.dst.l <= mid
      /\ side = "right" => p.dst.r > mid
      /\ "FLIP_H" \in flags \cap Flips => side = "left" /\ p.dst.r <= mid
  <2> HIDE DEF t, q, flags, k, Of
  <2>1. MixersOf(dpy, L) = CASE p.dst.l > mid -> {"right"}
                             [] p.dst.l <= mid /\ p.dst.r <= mid -> {"left"}
                             [] OTHER -> {"left", "right"}
    BY DEF MixersOf
  <2>2. mid \in Int /\ p.dst.l \in Int /\ p.dst.r \in Int
    BY <1>0 DEF Rects
  <2>3. pipe.side = side /\ pipe.asked.dst = p.dst /\ pipe.d = dpy /\ pipe.flips = flags \cap Flips
    BY <1>2, <1>7
  <2>4. side \in {"left", "right"}
    BY <1>7, <2>1, <2>2
  <2>5. p.dst.l <= mid
    <3>1. CASE p.dst.l > mid
      <4>1. side = "right"
        BY <1>7, <2>1, <2>2, <3>1
      <4> QED
        BY <2>3, <3>1, <4>1 DEF SplitGoesWrong
    <3> QED
      BY <2>2, <3>1
  <2>6. side = "right" => p.dst.r > mid
    BY <1>7, <2>1, <2>2, <2>5
  <2>7. ASSUME "FLIP_H" \in flags \cap Flips PROVE p.dst.r <= mid
    <3> SUFFICES ASSUME p.dst.r > mid PROVE FALSE
      BY <2>2
    <3>1. MixersOf(dpy, L) = {"left", "right"}
      BY <2>1, <2>2, <2>5
    <3>2. PICK s \in {"left", "right"} : s # side
      BY <2>4
    <3>3. Of(s) \in shown /\ Of(s).side # pipe.side
      BY <1>1, <1>2, <2>3, <3>1, <3>2
    <3> QED
      BY <2>3, <2>4, <2>7, <3>3 DEF SplitGoesWrong
  <2>8. "FLIP_H" \in flags \cap Flips => side = "left" /\ p.dst.r <= mid
    BY <2>2, <2>4, <2>6, <2>7
  <2> QED
    BY <2>4, <2>5, <2>6, <2>8
<1> DEFINE dst == t.dst  crop == t.crop  kind == KindOf(L)
<1>9. /\ k = mRot[rot].kern /\ mid = w \div 2
      /\ pipe = MixerPipe(dpy, p, q, dst, flags, rot, kind, side)
      /\ crop \in Rects /\ dst \in Rects /\ dst = Overlap(p.dst, Screen(w, h))
      /\ \A i, j \in {0, 1} : ShowsAt(p, crop, dst, i, j)
      /\ Turned(rot, k, flags \cap Flips, p.transform, crop, q)
      /\ isValidRect(dst)
  BY <1>4, <1>6, <1>7
<1> HIDE DEF t, q, flags, k, Of, dst, crop, kind
<1>10. IsMixerPipe(pipe, dpy, w, h, p, crop, dst, flags, q, rot, k, kind, side)
  BY <1>4, <1>8, <1>9 DEF IsMixerPipe
<1> QED
  BY <1>10, MixerShows

-----------------------------------------------------------------------------
(* Whatever is served is shown as asked.                                   *)

(* The sizes of the displays are natural numbers.                          *)
LEMMA SizeNat == ASSUME IInv, NEW d PROVE Xres(d) \in Nat /\ Yres(d) \in Nat
BY PanelNat DEF IInv, TypeOK, Xres, Yres

(* How a layer that is placed is turned.                                   *)
LEMMA PlacedTurn ==
  ASSUME NEW d, NEW L
  PROVE  Place(d, L).transform =
           IF d = 1 /\ ~HighRes(d) /\ getExtOrientation(Ext) # {}
           THEN getExtOrientation(Ext) ELSE L.transform
<1>1. calcExtDisplayPosition(Ext, L.yuv, L.crop, L.dst, L.transform).transform
        = IF getExtOrientation(Ext) = {} THEN L.transform ELSE getExtOrientation(Ext)
  BY Zenon DEF calcExtDisplayPosition
<1> QED
  BY <1>1 DEF Place

(* Where a layer is placed: on the primary, and on a wide display, as it   *)
(* asks for.                                                               *)
LEMMA PlacedAs ==
  ASSUME IInv, NEW L, L.transform \in SUBSET Turns
  PROVE  /\ Place(dpy, L).transform \in SUBSET Turns
         /\ (dpy = 0 \/ HighRes(dpy)) =>
              /\ Place(dpy, L).dst = L.dst /\ Place(dpy, L).crop = L.crop
<1>1. orientation.ext \subseteq Turns
  BY LayerConfigAssumption DEF IInv, TypeOK
<1>2. getExtOrientation(Ext) \in SUBSET Turns
  <2>1. Ext.ext = orientation.ext
    BY DEF Ext
  <2>2. getMirrorModeOrientation(Ext) \in SUBSET Turns
    BY DEF getMirrorModeOrientation, Turns, Flips
  <2> QED
    BY <1>1, <2>1, <2>2 DEF getExtOrientation
<1>3. Place(dpy, L).transform \in SUBSET Turns
  BY <1>2, PlacedTurn
<1> QED
  BY <1>3 DEF Place

(* What a pipe of a layer was asked for, and where it is.                  *)
LEMMA LayerPipes ==
  ASSUME NEW d, NEW L, NEW p, NEW rot, NEW pipe \in PipesFor(d, L, p, rot)
  PROVE  pipe.asked = p /\ pipe.d = d
<1>1. CASE HighRes(d)
  <2>1. PICK crop, dst, flags, kind, side :
             pipe = MixerPipe(d, p, crop, dst, flags, rot, kind, side)
    BY <1>1, Zenon DEF PipesFor, HighResPipes
  <2>2. PICK crop2, dst2 : pipe = configMdp(d, p, crop2, dst2, flags, rot, FALSE, kind, side)
    BY <2>1, Zenon DEF MixerPipe
  <2> QED
    BY <2>2 DEF configMdp
<1>2. CASE ~HighRes(d)
  BY <1>2 DEF PipesFor, LowResPipes, configMdp
<1> QED
  BY <1>1, <1>2

(* The pipes of a layer that is served show it.                            *)
LEMMA LayerShown ==
  ASSUME IInv, NEW L \in LayersNow, NEW rot,
         shown = PipesFor(dpy, L, Place(dpy, L), rot), Served(L, Place(dpy, L), rot),
         NEW pipe \in shown, WellPlaced(pipe),
         ~SplitGoesWrong(pipe), ~TrimGoesWrong(pipe), ~ShrinkGoesWrong(pipe)
  PROVE  ShowsItsPart(pipe)
<1> DEFINE p == Place(dpy, L)
<1>1. /\ L.w \in Nat /\ L.h \in Nat /\ L.transform \in SUBSET Turns
  <2>1. phase = "prepare" /\ L \in Layers[frame] /\ frame \in 1 .. Len(Layers)
    BY LayerConfigAssumption DEF IInv, TypeOK, LayersNow
  <2> QED
    BY <2>1, LayerConfigAssumption
<1>2. Xres(dpy) \in Nat /\ Yres(dpy) \in Nat /\ dpy \in Displays
  BY SizeNat DEF IInv, TypeOK
<1>3. pipe.asked = p /\ pipe.d = dpy
  BY LayerPipes
<1>4. p.transform \in SUBSET Turns /\ (HighRes(dpy) => p.dst = L.dst)
  BY <1>1, PlacedAs
<1> HIDE DEF p
<1>5. AskedOk(p)
  BY <1>3, <1>4 DEF AskedOk, WellPlaced
<1>6. shown = PipesFor(dpy, L, p, rot) /\ Served(L, p, rot)
  BY DEF p
<1>7. CASE HighRes(dpy)
  <2> DEFINE w == Xres(dpy)  h == Yres(dpy)
  <2>1. w \in Nat /\ h \in Nat /\ w = Xres(dpy) /\ h = Yres(dpy)
    BY <1>2
  <2>2. isValidRect(Overlap(p.dst, Screen(w, h)))
    BY <1>3, <1>7 DEF WellPlaced
  <2>3. shown = HighResPipes(dpy, L, p, rot)
    BY <1>6, <1>7 DEF PipesFor
  <2> HIDE DEF w, h
  <2> QED
    BY <1>1, <1>4, <1>5, <1>6, <1>7, <2>1, <2>2, <2>3, HighResShows
<1>8. CASE ~HighRes(dpy)
  <2>1. pipe \in LowResPipes(dpy, L, p, rot)
    BY <1>6, <1>8 DEF PipesFor
  <2> QED
    BY <1>1, <1>2, <1>5, <1>6, <2>1, LowResShows
<1> QED
  BY <1>7, <1>8

(* What a pipe of the framebuffer was asked for.                           *)
LEMMA FbPipesOf ==
  ASSUME NEW d, NEW fb, NEW p, NEW rot, NEW pipe \in FbPipes(d, fb, p, rot)
  PROVE  /\ pipe.d = d /\ pipe.kind = "fb"
         /\ HighRes(d) => /\ pipe.asked.dst = fb.crop /\ pipe.asked.crop = fb.crop
                          /\ pipe.asked.transform = {} /\ pipe.asked.own = {}
         /\ ~HighRes(d) => pipe.asked = p
<1>1. CASE HighRes(d)
  <2>1. PICK src, dst, side :
          pipe = configMdp(d, [crop |-> fb.crop, dst |-> fb.crop, transform |-> {}, own |-> {}],
                           src, dst, {}, 0, FALSE, "fb", side)
    BY <1>1, Zenon DEF FbPipes, FbHighResPipes
  <2> QED
    BY <1>1, <2>1 DEF configMdp
<1>2. CASE ~HighRes(d)
  BY <1>2 DEF FbPipes, FbLowResPipes, configMdp
<1> QED
  BY <1>1, <1>2

(* The pipes of the framebuffer show it.                                   *)
LEMMA FbShown ==
  ASSUME IInv, NEW reg, NEW fb, fb = FbLayer(dpy, reg), NEW rot,
         shown = FbPipes(dpy, fb, Place(dpy, fb), rot), Served(fb, Place(dpy, fb), rot),
         NEW pipe \in shown, WellPlaced(pipe), ~SplitGoesWrong(pipe)
  PROVE  ShowsItsPart(pipe)
<1> DEFINE p == Place(dpy, fb)
<1>1. /\ fb.w \in Nat /\ fb.h \in Nat /\ fb.transform \in SUBSET Turns /\ ~fb.yuv
  BY SizesOfFb DEF FbLayer
<1>2. Xres(dpy) \in Nat /\ Yres(dpy) \in Nat /\ dpy \in Displays
  BY SizeNat DEF IInv, TypeOK
<1>3. /\ pipe.d = dpy /\ pipe.kind = "fb"
      /\ HighRes(dpy) => pipe.asked.dst = fb.crop
      /\ ~HighRes(dpy) => pipe.asked = p
  BY FbPipesOf
<1>4. p.transform \in SUBSET Turns
  BY <1>1, PlacedAs
<1> HIDE DEF p
<1>6. shown = FbPipes(dpy, fb, p, rot) /\ Served(fb, p, rot)
  BY DEF p
<1>7. CASE HighRes(dpy)
  <2> DEFINE w == Xres(dpy)  h == Yres(dpy)  q == pipe.asked.dst
  <2>1. w \in Nat /\ h \in Nat /\ w = Xres(dpy) /\ h = Yres(dpy)
    BY <1>2
  <2>2. q \in Rects /\ isValidRect(q) /\ Overlap(q, Screen(w, h)) = q /\ q = fb.crop
    BY <1>3, <1>7 DEF WellPlaced
  <2>3. pipe \in FbHighResPipes(dpy, fb)
    BY <1>6, <1>7 DEF FbPipes
  <2> HIDE DEF w, h, q
  <2>4. PICK l, t, r, b \in Int : q = Rect(l, t, r, b)
    BY <2>2, RectIs
  <2>5. l < r /\ t < b
    BY <2>2, <2>4 DEF isValidRect, Rect
  <2> QED
    BY <2>1, <2>2, <2>3, <2>4, <2>5, FbHighResShows
<1>8. CASE ~HighRes(dpy)
  <2>1. pipe \in FbLowResPipes(dpy, fb, p, rot)
    BY <1>6, <1>8 DEF FbPipes
  <2>2. AskedOk(p) /\ Overlap(p.dst, Real(dpy)) = p.dst
    BY <1>3, <1>4, <1>8 DEF AskedOk, WellPlaced
  <2> QED
    BY <1>1, <1>2, <1>6, <2>1, <2>2, FbLowResShows
<1> QED
  BY <1>7, <1>8

(* The pipes of a layer are as its format is.                              *)
LEMMA KindOfLayer ==
  ASSUME NEW d, NEW L, NEW p, NEW rot, NEW pipe \in PipesFor(d, L, p, rot)
  PROVE  pipe.kind = KindOf(L) /\ pipe.kind # "fb" /\ pipe.rot = rot
<1>0. KindOf(L) # "fb"
  BY DEF KindOf
<1>1. CASE HighRes(d)
  <2>1. PICK crop, dst, flags, side :
          pipe = MixerPipe(d, p, crop, dst, flags, rot, KindOf(L), side)
    BY <1>1, Zenon DEF PipesFor, HighResPipes
  <2>2. PICK crop2, dst2 :
          pipe = configMdp(d, p, crop2, dst2, flags, rot, FALSE, KindOf(L), side)
    BY <2>1, Zenon DEF MixerPipe
  <2> QED
    BY <1>0, <2>2 DEF configMdp
<1>2. CASE ~HighRes(d)
  BY <1>0, <1>2 DEF PipesFor, LowResPipes, configMdp
<1> QED
  BY <1>1, <1>2

(* What is set up for a layer is turned as the layer or the display says,  *)
(* and only what both say may be lost.                                     *)
LEMMA TurnIsAsked ==
  ASSUME NEW d, NEW L, NEW pipe, pipe.d = d, pipe.asked = Place(d, L)
  PROVE  OverwrittenGoesWrong(pipe) \/ TurnedAsAsked(pipe)
<1>1. pipe.asked.own = L.transform
  BY DEF Place
<1>2. pipe.asked.transform = IF OrientationOf(d) # {} THEN OrientationOf(d) ELSE L.transform
  BY PlacedTurn DEF OrientationOf
<1> QED
  BY <1>1, <1>2 DEF OverwrittenGoesWrong, TurnedAsAsked

(* A layer that is set up without the session it needs is known to be.     *)
LEMMA LeftIsKnown ==
  ASSUME NEW L, NEW rot, LeftUnturned(L, Place(dpy, L), rot),
         NEW pipe \in PipesFor(dpy, L, Place(dpy, L), rot)
  PROVE  TurnGoesWrong(pipe)
<1>1. pipe.asked = Place(dpy, L) /\ pipe.d = dpy /\ pipe.kind = KindOf(L) /\ pipe.rot = rot
  BY LayerPipes, KindOfLayer
<1>2. dpy = 1 /\ KindOf(L) = "rgb"
  BY DEF LeftUnturned, OrientationOf, KindOf
<1> QED
  BY <1>1, <1>2 DEF TurnGoesWrong, LeftUnturned

(* What is shown of layers placed where the display can show them is what  *)
(* they ask for.                                                           *)
LEMMA ServedIsShown ==
  ASSUME IInv, ShownIsServed, \A pipe \in shown : WellPlaced(pipe)
  PROVE  ShownAsAsked
<1> SUFFICES ASSUME NEW pipe \in shown
             PROVE  /\ OverwrittenGoesWrong(pipe) \/ TurnedAsAsked(pipe)
                    /\ \/ SplitGoesWrong(pipe) \/ TrimGoesWrong(pipe) \/ ShrinkGoesWrong(pipe)
                       \/ TurnGoesWrong(pipe) \/ ShowsItsPart(pipe)
  BY DEF ShownAsAsked
<1>1. PICK L \in LayersNow, rot \in 0 .. MAX_ROT_SESS :
        LET fb == FbLayer(dpy, FbRegion(dpy, L)) IN
        \/ /\ shown = PipesFor(dpy, L, Place(dpy, L), rot)
           /\ Served(L, Place(dpy, L), rot) \/ LeftUnturned(L, Place(dpy, L), rot)
        \/ shown = FbPipes(dpy, fb, Place(dpy, fb), rot) /\ Served(fb, Place(dpy, fb), rot)
  BY DEF ShownIsServed
<1> DEFINE fb == FbLayer(dpy, FbRegion(dpy, L))
<1>2. CASE shown = PipesFor(dpy, L, Place(dpy, L), rot) /\ Served(L, Place(dpy, L), rot)
  <2>1. OverwrittenGoesWrong(pipe) \/ TurnedAsAsked(pipe)
    BY <1>2, LayerPipes, TurnIsAsked
  <2> QED
    BY <1>2, <2>1, LayerShown
<1>3. CASE shown = PipesFor(dpy, L, Place(dpy, L), rot) /\ LeftUnturned(L, Place(dpy, L), rot)
  <2>1. OverwrittenGoesWrong(pipe) \/ TurnedAsAsked(pipe)
    BY <1>3, LayerPipes, TurnIsAsked
  <2> QED
    BY <1>3, <2>1, LeftIsKnown
<1>4. CASE shown = FbPipes(dpy, fb, Place(dpy, fb), rot) /\ Served(fb, Place(dpy, fb), rot)
  <2>1. fb = FbLayer(dpy, FbRegion(dpy, L))
    OBVIOUS
  <2> HIDE DEF fb
  <2>2. OverwrittenGoesWrong(pipe) \/ TurnedAsAsked(pipe)
    <3>1. CASE HighRes(dpy)
      <4>1. pipe.d = dpy /\ pipe.asked.transform = {} /\ pipe.asked.own = {}
        BY <1>4, <3>1, FbPipesOf
      <4>2. OrientationOf(pipe.d) = {}
        BY <3>1, <4>1, Zenon DEF OrientationOf
      <4> QED
        BY <4>1, <4>2 DEF TurnedAsAsked
    <3>2. CASE ~HighRes(dpy)
      BY <1>4, <3>2, FbPipesOf, TurnIsAsked
    <3> QED
      BY <3>1, <3>2
  <2> QED
    BY <1>4, <2>1, <2>2, FbShown
<1> QED
  BY <1>1, <1>2, <1>3, <1>4

-----------------------------------------------------------------------------
(* Whatever is shown is served, but for what is known not to be.           *)

(* Where things are placed depends on the displays and the orientation     *)
(* only;                                                                   *)
LEMMA ExtKept ==
  ASSUME UNCHANGED <<dpyVars, orientation>>
  PROVE  /\ Ext' = Ext /\ panel' = panel /\ dpyAttr' = dpyAttr
         /\ \A d : Xres(d)' = Xres(d) /\ Yres(d)' = Yres(d) /\ Real(d)' = Real(d)
                   /\ HighRes(d)' = HighRes(d)
<1>1. /\ panel' = panel /\ dpyAttr' = dpyAttr /\ mVInfo' = mVInfo
      /\ mCurrentMode' = mCurrentMode /\ mUnderscanSupported' = mUnderscanSupported
      /\ orientation' = orientation
  BY DEF dpyVars, extVars
<1>2. \A d : Xres(d)' = Xres(d) /\ Yres(d)' = Yres(d)
  BY <1>1 DEF Xres, Yres
<1>3. SizeOfSecond' = SizeOfSecond
  BY <1>1 DEF SizeOfSecond, Virtual, getAttributes
<1>4. Ext' = Ext
  BY <1>1, <1>2, <1>3 DEF Ext
<1>5. \A d : Real(d)' = Real(d) /\ HighRes(d)' = HighRes(d)
  BY <1>1, <1>2, <1>4 DEF Real, HighRes
<1> QED
  BY <1>1, <1>2, <1>4, <1>5

(* so does the placing,                                                    *)
LEMMA PlaceKept ==
  ASSUME UNCHANGED <<dpyVars, orientation>>, NEW d, NEW L
  PROVE  Place(d, L)' = Place(d, L)
BY ExtKept DEF Place

(* so do the pipes of a layer,                                             *)
LEMMA PipesKept ==
  ASSUME UNCHANGED <<dpyVars, orientation>>, NEW d, NEW L, NEW p, NEW rot
  PROVE  PipesFor(d, L, p, rot)' = PipesFor(d, L, p, rot)
<1>0. panel' = panel /\ dpyAttr' = dpyAttr
  BY DEF dpyVars, extVars
<1>1. LowResPipes(d, L, p, rot)' = LowResPipes(d, L, p, rot)
  BY <1>0 DEF LowResPipes, LayerDownscale, HighRes, Xres, Yres
<1>2. HighResPipes(d, L, p, rot)' = HighResPipes(d, L, p, rot)
  <2>1. \A side : Half(d, side)' = Half(d, side)
    BY ExtKept DEF Half
  <2>2. \A crop, dst, flags, kind, side : MixerPipe(d, p, crop, dst, flags, rot, kind, side)'
             = MixerPipe(d, p, crop, dst, flags, rot, kind, side)
    <3> TAKE crop, dst, flags, kind, side
    <3>1. Half(d, side)' = Half(d, side)
      BY <2>1
    <3> QED
      BY <3>1 DEF MixerPipe
  <2> QED
    BY <1>0, <2>2 DEF HighResPipes, MixersOf, HighRes, Xres, Yres
<1> QED
  BY <1>0, <1>1, <1>2 DEF PipesFor, HighRes, Xres

(* and of the framebuffer,                                                 *)
LEMMA FbKept ==
  ASSUME UNCHANGED <<dpyVars, orientation>>, NEW d, NEW L, NEW fb, NEW p, NEW rot
  PROVE  /\ FbPipes(d, fb, p, rot)' = FbPipes(d, fb, p, rot)
         /\ FbLayer(d, FbRegion(d, L))' = FbLayer(d, FbRegion(d, L))
<1>1. FbPipes(d, fb, p, rot)' = FbPipes(d, fb, p, rot)
  BY ExtKept DEF FbPipes, FbHighResPipes, FbLowResPipes
<1>2. \A q : FbLayer(d, q)' = FbLayer(d, q)
  BY ExtKept DEF FbLayer
<1>3. FbRegion(d, L)' = FbRegion(d, L)
  BY ExtKept DEF FbRegion
<1> QED
  BY <1>1, <1>2, <1>3

(* and what is wanted of a session.                                        *)
LEMMA WantKept ==
  ASSUME UNCHANGED <<dpyVars, orientation>>, NEW d, NEW L, NEW p
  PROVE  /\ LayerDownscale(d, L, p)' = LayerDownscale(d, L, p)
         /\ WantOf(d, L, p)' = WantOf(d, L, p)
<1>1. LayerDownscale(d, L, p)' = LayerDownscale(d, L, p)
  BY ExtKept DEF LayerDownscale
<1> QED
  BY <1>1 DEF WantOf

(* A session that has been told what the layer wants serves it.            *)
LEMMA NoFlipsLeft ==
  ASSUME NEW L, NEW ds, NEW transform,
         "ROT_90" \in transform \/ ds # 0 \/ transform \cap Flips = {}
  PROVE  setMdpFlags(L, ds, transform) \cap Flips = {}
BY DEF setMdpFlags, Flips

(* A session that is taken and told what is wanted serves the layer.       *)
LEMMA TakenServes ==
  ASSUME IInv, UNCHANGED <<dpyVars, orientation, dpy>>, NEW L, L.w \in Nat, L.h \in Nat, NEW p,
         NEW n, n = mUseCount + 1,
         TakeSession(dpy, WantOf(dpy, L, p), LayerConf(dpy, L, p)),
         \/ "ROT_90" \in p.transform \/ LayerDownscale(dpy, L, p) # 0
         \/ p.transform \cap Flips = {}
  PROVE  n \in 0 .. MAX_ROT_SESS /\ Served(L, p, n)'
<1> DEFINE conf == LayerConf(dpy, L, p)  want == WantOf(dpy, L, p)
           ds == LayerDownscale(dpy, L, p)
<1>1. mUseCount \in 0 .. MAX_ROT_SESS - 1 /\ SessionsHaveShape /\ TypeOK /\ panel \in Panels
  BY DEF TakeSession, IInv, TypeOK, MAX_ROT_SESS
<1>2. n \in Slots /\ DOMAIN getNext = DOMAIN Fresh
  BY <1>1, NextFacts
<1>3. CommitRotator(getNext, conf, TRUE).kern = conf
  <2> HIDE DEF conf
  <2> QED
    BY <1>2 DEF CommitRotator, Fresh
<1>4. mRot'[n].kern = conf
  BY <1>1, <1>2, <1>3 DEF TakeSession, SessionsHaveShape
<1>5. \A x \in {"w", "h", "orient", "ds"} : conf[x] = want[x]
  <2>1. CASE panel.version = "MDSS"
    <3>1. ds = 0
      BY <2>1 DEF LayerDownscale
    <3> QED
      BY <2>1, <3>1 DEF LayerConf, RotConf, MdssConf, WantOf, MdpConf
  <2>2. CASE panel.version # "MDSS"
    BY <2>2 DEF LayerConf, RotConf, WantOf
  <2> QED
    BY <2>1, <2>2
<1>6. WantOf(dpy, L, p)' = want /\ LayerDownscale(dpy, L, p)' = ds
  BY WantKept
<1>7. setMdpFlags(L, ds, p.transform) \cap Flips = {}
  BY NoFlipsLeft
<1> HIDE DEF conf, want, ds
<1>8. \A x \in {"w", "h", "orient", "ds"} : mRot'[n].kern[x] = want[x]
  BY <1>4, <1>5
<1>9. n \in 0 .. MAX_ROT_SESS
  BY <1>1 DEF MAX_ROT_SESS
<1> QED
  BY <1>2, <1>6, <1>7, <1>8, <1>9 DEF Served

(* A layer that wants none is served without.                              *)
LEMMA UntakenServes ==
  ASSUME UNCHANGED <<dpyVars, orientation, dpy>>, NEW L, NEW p,
         "ROT_90" \notin p.transform, LayerDownscale(dpy, L, p) = 0
  PROVE  0 \in 0 .. MAX_ROT_SESS /\ Served(L, p, 0)'
<1>1. LayerDownscale(dpy, L, p)' = 0
  BY WantKept
<1> QED
  BY <1>1 DEF Served, MAX_ROT_SESS

(* What has been set up for a layer is shown, served.                      *)
LEMMA LayerServes ==
  ASSUME UNCHANGED <<dpyVars, orientation, dpy, frame, phase>>, NEW L \in LayersNow,
         NEW p, p = Place(dpy, L), NEW rot \in 0 .. MAX_ROT_SESS,
         Served(L, p, rot)' \/ LeftUnturned(L, p, rot)', shown' = PipesFor(dpy, L, p, rot)
  PROVE  ShownIsServed'
<1>1. LayersNow' = LayersNow
  BY DEF LayersNow
<1>2. Place(dpy, L)' = p
  BY PlaceKept
<1>3. PipesFor(dpy, L, p, rot)' = PipesFor(dpy, L, p, rot)
  BY PipesKept
<1> QED
  BY <1>1, <1>2, <1>3 DEF ShownIsServed

(* The same of the framebuffer.                                            *)
LEMMA FbServes ==
  ASSUME UNCHANGED <<dpyVars, orientation, dpy, frame, phase>>, NEW L \in LayersNow,
         NEW fb, fb = FbLayer(dpy, FbRegion(dpy, L)), NEW p, p = Place(dpy, fb),
         NEW rot \in 0 .. MAX_ROT_SESS, Served(fb, p, rot)',
         shown' = FbPipes(dpy, fb, p, rot)
  PROVE  ShownIsServed'
<1>1. LayersNow' = LayersNow
  BY DEF LayersNow
<1>2. Place(dpy, fb)' = p
  BY PlaceKept
<1>3. FbPipes(dpy, fb, p, rot)' = FbPipes(dpy, fb, p, rot)
  BY FbKept
<1>4. FbLayer(dpy, FbRegion(dpy, L))' = fb
  BY FbKept
<1> QED
  BY <1>1, <1>2, <1>3, <1>4 DEF ShownIsServed

(* The layers of a frame, as assumed.                                      *)
LEMMA LayerFacts ==
  ASSUME IInv, NEW L \in LayersNow
  PROVE  /\ L.w \in Nat /\ L.h \in Nat
         /\ L.yuv \/ "ROT_90" \notin L.transform
<1>1. phase = "prepare" /\ L \in Layers[frame] /\ frame \in 1 .. Len(Layers)
  BY LayerConfigAssumption DEF IInv, TypeOK, LayersNow
<1> QED
  BY <1>1, LayerConfigAssumption

(* A video is shown served,                                                *)
LEMMA VideoIsServed ==
  ASSUME IInv, NEW L \in LayersNow, NEW p, p = Place(dpy, L), ConfigureVideo(L, p)
  PROVE  ShownIsServed'
<1>1. UNCHANGED <<dpyVars, orientation, dpy, frame, phase>> /\ L.yuv
  BY DEF ConfigureVideo, MoreVideo
<1>2. L.w \in Nat /\ L.h \in Nat
  BY LayerFacts
<1>3. CASE NeedsRotator(dpy, L, p, Head(todo))
  <2>1. TakeSession(dpy, WantOf(dpy, L, p), LayerConf(dpy, L, p))
    BY <1>3 DEF ConfigureVideo
  <2>2. shown' = PipesFor(dpy, L, p, mUseCount + 1)
    BY <1>3 DEF ConfigureVideo
  <2>3. \/ "ROT_90" \in p.transform \/ LayerDownscale(dpy, L, p) # 0
        \/ p.transform \cap Flips = {}
    BY <1>3 DEF NeedsRotator, ForcesRotator, needToForceRotator
  <2> DEFINE n == mUseCount + 1
  <2>4. n = mUseCount + 1
    OBVIOUS
  <2>5. PICK m : m = mUseCount + 1
    OBVIOUS
  <2>6. m \in 0 .. MAX_ROT_SESS /\ Served(L, p, m)'
    BY <1>1, <1>2, <2>1, <2>3, <2>5, TakenServes
  <2> QED
    BY <1>1, <2>2, <2>5, <2>6, LayerServes
<1>4. CASE ~NeedsRotator(dpy, L, p, Head(todo))
  <2>1. shown' = PipesFor(dpy, L, p, 0)
    BY <1>4 DEF ConfigureVideo
  <2>2. "ROT_90" \notin p.transform /\ LayerDownscale(dpy, L, p) = 0
    BY <1>1, <1>4 DEF NeedsRotator
  <2> QED
    BY <1>1, <2>1, <2>2, UntakenServes, LayerServes
<1> QED
  BY <1>3, <1>4

(* and any other layer, or it is one that is known not to be,              *)
LEMMA RGBIsServed ==
  ASSUME IInv, NEW L \in LayersNow, NEW p, p = Place(dpy, L), ConfigureRGB(L, p)
  PROVE  ShownIsServed'
<1>1. /\ UNCHANGED <<dpyVars, orientation, dpy, frame, phase>> /\ ~L.yuv
      /\ shown' = PipesFor(dpy, L, p, 0)
  BY DEF ConfigureRGB
<1>2. CASE "ROT_90" \in p.transform
  <2>1. "ROT_90" \in OrientationOf(dpy)
    BY <1>1, <1>2, LayerFacts, PlacedTurn DEF OrientationOf
  <2>2. OrientationOf(dpy)' = OrientationOf(dpy)
    BY <1>1, ExtKept DEF OrientationOf
  <2>3. LeftUnturned(L, p, 0)'
    BY <1>1, <1>2, <2>1, <2>2 DEF LeftUnturned
  <2>4. 0 \in 0 .. MAX_ROT_SESS
    BY DEF MAX_ROT_SESS
  <2> QED
    BY <1>1, <2>3, <2>4, LayerServes
<1>3. CASE "ROT_90" \notin p.transform
  <2>1. LayerDownscale(dpy, L, p) = 0
    BY <1>1 DEF LayerDownscale
  <2> QED
    BY <1>1, <1>3, <2>1, UntakenServes, LayerServes
<1> QED
  BY <1>2, <1>3

(* and the framebuffer.                                                    *)
LEMMA FbIsServed ==
  ASSUME IInv, NEW L \in LayersNow, NEW fb, fb = FbLayer(dpy, FbRegion(dpy, L)),
         ConfigureFb(fb)
  PROVE  ShownIsServed'
<1>0. PICK p : p = Place(dpy, fb)
  OBVIOUS
<1>1. /\ ConfigureFbAt(fb, p) /\ UNCHANGED <<dpyVars, orientation, dpy, frame, phase>>
      /\ ~fb.yuv /\ fb.transform = {}
  BY <1>0 DEF ConfigureFb, ConfigureFbAt, FbLayer
<1>2. fb.w \in Nat /\ fb.h \in Nat
  BY SizesOfFb
<1>3. "ROT_90" \in p.transform <=> FbTurns(dpy)
  BY <1>0, <1>1, PlacedTurn DEF FbTurns
<1>4. CASE FbTurns(dpy)
  <2>1. TakeSession(dpy, WantOf(dpy, fb, p), LayerConf(dpy, fb, p))
    BY <1>1, <1>4 DEF ConfigureFbAt
  <2>2. shown' = FbPipes(dpy, fb, p, mUseCount + 1)
    BY <1>1, <1>4 DEF ConfigureFbAt
  <2>3. PICK m : m = mUseCount + 1
    OBVIOUS
  <2>4. m \in 0 .. MAX_ROT_SESS /\ Served(fb, p, m)'
    BY <1>1, <1>2, <1>3, <1>4, <2>1, <2>3, TakenServes
  <2> QED
    BY <1>0, <1>1, <2>2, <2>3, <2>4, FbServes
<1>5. CASE ~FbTurns(dpy)
  <2>1. shown' = FbPipes(dpy, fb, p, 0)
    BY <1>1, <1>5 DEF ConfigureFbAt
  <2>2. LayerDownscale(dpy, fb, p) = 0
    BY <1>1 DEF LayerDownscale
  <2> QED
    BY <1>0, <1>1, <1>3, <1>5, <2>1, <2>2, UntakenServes, FbServes
<1> QED
  BY <1>4, <1>5

(* Nothing is shown but while the displays are set up.                     *)
LEMMA NothingShown ==
  ASSUME ShownIsServed, phase # "prepare"
  PROVE  shown = {}
BY DEF ShownIsServed, LayersNow

(* A layer that is denied a session shows nothing.                         *)
LEMMA LayerIsServed ==
  ASSUME IInv, ShownIsServed, NEW L \in LayersNow, NEW p, p = Place(dpy, L),
         ConfigureLayer(L, p)
  PROVE  ShownIsServed'
<1>1. CASE VideoDenied(L, p) \/ VideoRefused(L, p)
  <2>1. shown' = {}
    BY <1>1 DEF VideoDenied, Denied, VideoRefused, SessionRefused, FallBack
  <2> QED
    BY <2>1 DEF ShownIsServed
<1> QED
  BY <1>1, VideoIsServed, RGBIsServed DEF ConfigureLayer

(* No step shows a layer that is not served.                               *)
LEMMA ServedStep == IInv /\ ShownIsServed /\ [Next]_vars => ShownIsServed'
<1> SUFFICES ASSUME IInv, ShownIsServed, [Next]_vars PROVE ShownIsServed'
  OBVIOUS
<1>0. shown' = {} => ShownIsServed'
  BY DEF ShownIsServed
<1>1. CASE \/ NextDisplay \/ ConfigDone \/ PipeRefused
           \/ FbRefused(FbLayer(dpy, Screen(Xres(dpy), Yres(dpy))))
  <2>1. shown' = {}
    BY <1>1 DEF NextDisplay, ConfigDone, PipeRefused, FbRefused, SessionRefused, FallBack
  <2> QED
    BY <1>0, <2>1
<1>2. ASSUME NEW L \in LayersNow, ConfigureLayer(L, Place(dpy, L))
      PROVE  ShownIsServed'
  BY <1>2, LayerIsServed
<1>3. ASSUME NEW L \in LayersNow, ConfigureFb(FbLayer(dpy, FbRegion(dpy, L)))
      PROVE  ShownIsServed'
  <2>1. PICK fb : fb = FbLayer(dpy, FbRegion(dpy, L))
    OBVIOUS
  <2> QED
    BY <1>3, <2>1, FbIsServed
<1>4. CASE \/ ConfigBegin \/ QueueAborts \/ DrawSecond \/ SetDone \/ Blank \/ SetOrientation
           \/ PlugIn \/ PlugOut \/ WfdOnline \/ WfdOffline
           \/ \E played \in BOOLEAN : QueueBuffer(played)
  <2>1. phase # "prepare" /\ shown' = shown
    BY <1>4 DEF ConfigBegin, QueueBuffer, QueueAborts, DrawSecond, SetDone, Blank,
                SetOrientation, PlugIn, PlugOut, WfdOnline, WfdOffline
  <2> QED
    BY <1>0, <2>1, NothingShown
<1>5. CASE UNCHANGED vars
  <2>0. UNCHANGED <<dpyVars, orientation, dpy, frame, phase, mRot, shown>>
    BY <1>5 DEF vars, roundVars, sessVars
  <2>1. CASE shown = {}
    BY <1>0, <2>0, <2>1
  <2>2. CASE shown # {}
    <3>1. PICK L \in LayersNow, rot \in 0 .. MAX_ROT_SESS :
            LET fb == FbLayer(dpy, FbRegion(dpy, L)) IN
            \/ /\ shown = PipesFor(dpy, L, Place(dpy, L), rot)
               /\ Served(L, Place(dpy, L), rot) \/ LeftUnturned(L, Place(dpy, L), rot)
            \/ shown = FbPipes(dpy, fb, Place(dpy, fb), rot) /\ Served(fb, Place(dpy, fb), rot)
      BY <2>2 DEF ShownIsServed
    <3>2. \A M, p : Served(M, p, rot) => Served(M, p, rot)'
      BY <2>0, WantKept DEF Served
    <3>3. CASE /\ shown = PipesFor(dpy, L, Place(dpy, L), rot)
               /\ Served(L, Place(dpy, L), rot) \/ LeftUnturned(L, Place(dpy, L), rot)
      <4>1. PICK p : p = Place(dpy, L)
        OBVIOUS
      <4>2. OrientationOf(dpy)' = OrientationOf(dpy)
        BY <2>0, ExtKept DEF OrientationOf
      <4>3. LeftUnturned(L, p, rot) => LeftUnturned(L, p, rot)'
        BY <2>0, <4>2 DEF LeftUnturned
      <4> QED
        BY <2>0, <3>2, <3>3, <4>1, <4>3, LayerServes
    <3>4. PICK fb : fb = FbLayer(dpy, FbRegion(dpy, L))
      OBVIOUS
    <3>5. CASE shown = FbPipes(dpy, fb, Place(dpy, fb), rot) /\ Served(fb, Place(dpy, fb), rot)
      <4>1. PICK p : p = Place(dpy, fb)
        OBVIOUS
      <4> QED
        BY <2>0, <3>2, <3>4, <3>5, <4>1, FbServes
    <3> QED
      BY <3>1, <3>3, <3>4, <3>5
  <2> QED
    BY <2>1, <2>2
<1> QED
  BY <1>1, <1>2, <1>3, <1>4, <1>5 DEF Next, DrawNext, DrawVirtual

(* Whatever pipes are set up are those of a layer of the frame or of the   *)
(* framebuffer, and are served: with a session when one is needed, that    *)
(* has been told, of this layer, its size, how it is turned and how far    *)
(* shrunk, and then with no flip left to the pipe; without one only when   *)
(* nothing has to be turned or shrunk, or when the display is turned by 90 *)
(* degrees and the layer is no video: such a layer is never given one.     *)
THEOREM PipesAreServed == Spec => []ShownIsServed
<1>1. Init => ShownIsServed
  BY DEF Init, ShownIsServed
<1> QED
  BY <1>1, ServedStep, InductiveInvariant, PTL DEF Spec

(* Whatever the panel, the layers, the orientation and the modes of the    *)
(* displays, the pipes show what the layers ask for, through cropping,     *)
(* trimming, turning, shrinking and halving, to within the few pixels of   *)
(* Tolerance, but for the four known errors, and turned as the layer or    *)
(* the display asks, but for a layer's own transform on a display that is  *)
(* turned.  The layers are taken to be well placed: where an external      *)
(* display puts them is not proved.                                        *)
THEOREM PipesShowWhatIsAsked ==
  Spec => []((\A pipe \in shown : WellPlaced(pipe)) => ShownAsAsked)
<1>1. IInv /\ ShownIsServed => ((\A pipe \in shown : WellPlaced(pipe)) => ShownAsAsked)
  BY ServedIsShown
<1> QED
  BY <1>1, InductiveInvariant, PipesAreServed, PTL

-----------------------------------------------------------------------------
(* Displays nothing is moved or scaled for.                                *)

(* The union of one frame is that frame.                                   *)
LEMMA OneFrame ==
  ASSUME NEW q, NEW screen
  PROVE  getNonWormholeRegion(<<q>>, screen) = getIntersection(q, screen)
<1>1. FoldLeft(getUnion, q, <<>>) = q
  <2> DEFINE Step(iter) == [s \in SUBSET DOMAIN <<>> |->
                              IF s = {} THEN q
                              ELSE LET x == Max(s) IN getUnion(iter[s \ {x}], <<>>[x])]
             all == CHOOSE iter : iter = Step(iter)
  <2>1. FoldLeft(getUnion, q, <<>>) = all[DOMAIN <<>>]
    BY Zenon DEF FoldLeft, MapThenFoldSet
  <2>2. DOMAIN <<>> = {}
    OBVIOUS
  <2>3. \A iter : Step(iter) = [s \in {{}} |-> q]
    BY <2>2
  <2> HIDE DEF Step
  <2>4. all = Step(all)
    <3>1. \E iter : iter = Step(iter)
      BY <2>3
    <3> QED
      BY <3>1
  <2>5. all = [s \in {{}} |-> q]
    BY <2>3, <2>4
  <2> HIDE DEF all
  <2> QED
    BY <2>1, <2>2, <2>5
<1>2. Head(<<q>>) = q /\ Tail(<<q>>) = <<>>
  OBVIOUS
<1> QED
  BY <1>1, <1>2 DEF getNonWormholeRegion

(* A display nothing is moved or scaled for: the primary, a wide one, and  *)
(* an external one that is neither turned nor scaled down and has no       *)
(* action-safe margin.                                                     *)
PlacesAsAsked(d) ==
  \/ d = 0 \/ HighRes(d)
  \/ /\ getExtOrientation(Ext) = {} /\ ~dpyAttr.downscale
     /\ mUnderscanSupported \/ (orientation.asW = 0 /\ orientation.asH = 0)

(* There a layer is placed where it asks to be.                            *)
LEMMA PlacedAsAsked ==
  ASSUME NEW d, PlacesAsAsked(d), NEW L
  PROVE  Place(d, L).dst = L.dst /\ Place(d, L).crop = L.crop
<1>1. CASE d = 0 \/ HighRes(d)
  BY <1>1 DEF Place
<1>2. CASE ~(d = 0 \/ HighRes(d))
  <2>1. /\ getExtOrientation(Ext) = {} /\ ~Ext.downscale
        /\ Ext.underscan \/ (Ext.asW = 0 /\ Ext.asH = 0)
    BY <1>2 DEF PlacesAsAsked, Ext
  <2>2. \A q : getActionSafePosition(Ext, q) = q
    <3> TAKE q
    <3> QED
      BY <2>1, Zenon DEF getActionSafePosition
  <2>3. /\ calcExtDisplayPosition(Ext, L.yuv, L.crop, L.dst, L.transform).dst = L.dst
        /\ calcExtDisplayPosition(Ext, L.yuv, L.crop, L.dst, L.transform).crop = L.crop
    <3>1. "ROT_90" \notin getExtOrientation(Ext)
      BY <2>1
    <3> QED
      BY <2>1, <2>2, <3>1 DEF calcExtDisplayPosition
  <2> QED
    BY <2>3 DEF Place
<1> QED
  BY <1>1, <1>2

(* What the framebuffer is asked to show there is on the screen.           *)
LEMMA RegionOnScreen ==
  ASSUME NEW d, PlacesAsAsked(d), NEW w \in Nat, w = Xres(d), NEW h \in Nat, h = Yres(d),
         NEW L, L.dst \in Rects, NEW q, q = FbRegion(d, L)
  PROVE  q \in Rects /\ Overlap(q, Screen(w, h)) = q
<1>1. q = getIntersection(L.dst, Screen(w, h)) \/ q = Screen(w, h)
  BY OneFrame DEF FbRegion
<1>2. PICK l, t, r, b \in Int : L.dst = Rect(l, t, r, b)
  BY RectIs
<1>3. \A x, y \in Int : Least(x, y) \in Int /\ Greatest(x, y) \in Int
  BY DEF Least, Greatest
<1>4. \A x \in Int, y \in Nat : /\ Greatest(Greatest(x, 0), 0) = Greatest(x, 0)
                               /\ Least(Least(x, y), y) = Least(x, y)
  BY DEF Least, Greatest
<1>5. Greatest(0, 0) = 0 /\ \A y \in Nat : Least(y, y) = y /\ Least(0, y) = 0
  BY DEF Least, Greatest
<1>6. CASE q = Screen(w, h) \/ q = Rect(0, 0, 0, 0)
  BY <1>5, <1>6 DEF Screen, Rect, Rects, Overlap
<1>7. CASE q = Overlap(L.dst, Screen(w, h))
  <2>1. q = Rect(Greatest(l, 0), Greatest(t, 0), Least(r, w), Least(b, h))
    BY <1>2, <1>7 DEF Screen, Rect, Overlap
  <2>2. q \in Rects
    BY <1>3, <2>1 DEF Rect, Rects
  <2>3. Overlap(q, Screen(w, h))
          = Rect(Greatest(Greatest(l, 0), 0), Greatest(Greatest(t, 0), 0),
                 Least(Least(r, w), w), Least(Least(b, h), h))
    BY <2>1 DEF Screen, Rect, Overlap
  <2> QED
    BY <1>4, <2>1, <2>2, <2>3
<1> QED
  BY <1>1, <1>6, <1>7 DEF getIntersection, Empty

(* Some of what a pipe is asked to show is on the screen.                  *)
SeenOnScreen(pipe) ==
  isValidRect(Overlap(pipe.asked.dst, Screen(Xres(pipe.d), Yres(pipe.d))))

(* What is seen in part is not empty.                                      *)
LEMMA SeenIsValid ==
  ASSUME NEW q \in Rects, NEW w \in Nat, NEW h \in Nat, isValidRect(Overlap(q, Screen(w, h)))
  PROVE  isValidRect(q)
<1>1. PICK l, t, r, b \in Int : q = Rect(l, t, r, b)
  BY RectIs
<1> QED
  BY <1>1 DEF isValidRect, Overlap, Screen, Rect, Least, Greatest

(* There what is seen in part is well placed.                              *)
LEMMA SeenIsWellPlaced ==
  ASSUME IInv, ShownIsServed, PlacesAsAsked(dpy), NEW pipe \in shown, SeenOnScreen(pipe)
  PROVE  WellPlaced(pipe)
<1>1. PICK L \in LayersNow, rot \in 0 .. MAX_ROT_SESS :
        LET fb == FbLayer(dpy, FbRegion(dpy, L)) IN
        \/ shown = PipesFor(dpy, L, Place(dpy, L), rot)
        \/ shown = FbPipes(dpy, fb, Place(dpy, fb), rot)
  BY DEF ShownIsServed
<1>2. L.crop \in Rects /\ L.dst \in Rects
  <2>1. phase = "prepare" /\ L \in Layers[frame] /\ frame \in 1 .. Len(Layers)
    BY LayerConfigAssumption DEF IInv, TypeOK, LayersNow
  <2> QED
    BY <2>1, LayerConfigAssumption
<1>3. PICK w \in Nat, h \in Nat : w = Xres(dpy) /\ h = Yres(dpy)
  BY SizeNat
<1>4. CASE shown = PipesFor(dpy, L, Place(dpy, L), rot)
  <2>1. /\ pipe.asked.crop = L.crop /\ pipe.asked.dst = L.dst /\ pipe.d = dpy
    BY <1>4, LayerPipes, PlacedAsAsked
  <2>2. pipe.kind # "fb"
    BY <1>4, KindOfLayer
  <2>3. isValidRect(Overlap(L.dst, Screen(w, h))) /\ isValidRect(L.dst)
    BY <1>2, <1>3, <2>1, SeenIsValid DEF SeenOnScreen
  <2> QED
    BY <1>2, <1>3, <2>1, <2>2, <2>3 DEF WellPlaced
<1>5. PICK q : q = FbRegion(dpy, L)
  OBVIOUS
<1>6. PICK fb : fb = FbLayer(dpy, q)
  OBVIOUS
<1>7. CASE shown = FbPipes(dpy, fb, Place(dpy, fb), rot)
  <2>1. fb.crop = q /\ fb.dst = q
    BY <1>6 DEF FbLayer
  <2>2. pipe.d = dpy /\ pipe.asked.crop = q /\ pipe.asked.dst = q
    BY <1>7, <2>1, FbPipesOf, PlacedAsAsked
  <2>3. q \in Rects /\ Overlap(q, Screen(w, h)) = q
    BY <1>2, <1>3, <1>5, RegionOnScreen
  <2>4. isValidRect(q)
    BY <1>3, <2>2, <2>3 DEF SeenOnScreen
  <2>5. ~HighRes(dpy) => Real(dpy) = Screen(w, h)
    BY <1>3 DEF PlacesAsAsked, Real
  <2> QED
    BY <1>3, <2>2, <2>3, <2>4, <2>5 DEF WellPlaced
<1> QED
  BY <1>1, <1>4, <1>5, <1>6, <1>7

(* On a display nothing is moved or scaled for, the primary among them,    *)
(* whatever is shown of a layer or of the framebuffer, of which some is on *)
(* the screen, is what was asked for: nothing else is assumed of the       *)
(* layers.                                                                 *)
THEOREM PrimaryShowsWhatIsAsked ==
  Spec => [](PlacesAsAsked(dpy) /\ (\A pipe \in shown : SeenOnScreen(pipe)) => ShownAsAsked)
<1>1. IInv /\ ShownIsServed =>
        (PlacesAsAsked(dpy) /\ (\A pipe \in shown : SeenOnScreen(pipe)) => ShownAsAsked)
  BY SeenIsWellPlaced, ServedIsShown
<1> QED
  BY <1>1, InductiveInvariant, PipesAreServed, PTL
=============================================================================
