---------------------------- MODULE LayerGeometry ----------------------------
(***************************************************************************)
(* Where a layer goes on its display, and what of its buffer shows there:  *)
(* the rectangles of hwc_utils and of overlay::utils.                      *)
(*                                                                         *)
(* A transform is a set of FLIP_H, FLIP_V and ROT_90.  Android rotates the *)
(* buffer clockwise and flips the result; the hardware, and all that has   *)
(* gone through getMdpOrient, flips the buffer first and then rotates it.  *)
(* The ratios the code keeps in floats are exact here; what it stores in   *)
(* integers is rounded as the code does.                                   *)
(***************************************************************************)
EXTENDS Integers, Sequences

LOCAL INSTANCE SequencesExt
Formats == INSTANCE GrallocFormats WITH UseTZProtection <- TRUE, CompositionTypeMDP <- FALSE

Rects == [l : Int, t : Int, r : Int, b : Int]
Rect(l, t, r, b) == [l |-> l, t |-> t, r |-> r, b |-> b]
Screen(w, h) == Rect(0, 0, w, h)
Width(q) == q.r - q.l
Height(q) == q.b - q.t
Least(a, b) == IF a <= b THEN a ELSE b
Greatest(a, b) == IF a >= b THEN a ELSE b
Empty == Rect(0, 0, 0, 0)

Flips == {"FLIP_H", "FLIP_V"}
Turns == Flips \cup {"ROT_90"}

isValidRect(q) == q.b > q.t /\ q.r > q.l

Overlap(p, q) == Rect(Greatest(p.l, q.l), Greatest(p.t, q.t),
                      Least(p.r, q.r), Least(p.b, q.b))

getIntersection(p, q) ==
  IF isValidRect(p) /\ isValidRect(q) /\ isValidRect(Overlap(p, q))
  THEN Overlap(p, q) ELSE Empty

getUnion(p, q) ==
  CASE ~isValidRect(p) -> q
    [] isValidRect(p) /\ ~isValidRect(q) -> p
    [] OTHER -> Rect(Least(p.l, q.l), Least(p.t, q.t),
                     Greatest(p.r, q.r), Greatest(p.b, q.b))

(* The part of the framebuffer that application layers cover.              *)
getNonWormholeRegion(frames, fb) ==
  getIntersection(FoldLeft(getUnion, Head(frames), Tail(frames)), fb)

-----------------------------------------------------------------------------
(* Cutting the crop by as much as the destination has been cut.            *)

(* Faulty: the sides are turned the other way.                             *)
calc_cutClockwise(cut, orient) ==
  IF "ROT_90" \in orient THEN [l |-> cut.b, t |-> cut.l, r |-> cut.t, b |-> cut.r]
  ELSE cut

(* From the sides of the destination to the sides of the buffer.           *)
calc_cut(cut, orient) ==
  LET h == IF "FLIP_H" \in orient THEN [cut EXCEPT !.l = cut.r, !.r = cut.l] ELSE cut
      v == IF "FLIP_V" \in orient THEN [h EXCEPT !.t = h.b, !.b = h.t] ELSE h IN
  IF "ROT_90" \in orient THEN [l |-> v.t, t |-> v.r, r |-> v.b, b |-> v.l] ELSE v

(* How much of a destination of so many pixels is cut off at each side.    *)
Part(n, d) == [n |-> Greatest(n, 0), d |-> d]
SidesCut(dst, scissor) ==
  [l |-> Part(scissor.l - dst.l, Width(dst)), r |-> Part(dst.r - scissor.r, Width(dst)),
   t |-> Part(scissor.t - dst.t, Height(dst)), b |-> Part(dst.b - scissor.b, Height(dst))]

CutStart(e, size, c) == (e * c.d + size * c.n) \div c.d
CutEnd(e, size, c) == (e * c.d - size * c.n) \div c.d
CutCrop(crop, cut) ==
  Rect(CutStart(crop.l, Width(crop), cut.l), CutStart(crop.t, Height(crop), cut.t),
       CutEnd(crop.r, Width(crop), cut.r), CutEnd(crop.b, Height(crop), cut.b))

calculate_crop_rects(crop, dst, scissor, orient) ==
  [crop |-> CutCrop(crop, calc_cut(SidesCut(dst, scissor), orient)),
   dst |-> Overlap(dst, scissor)]

trimLayer(screen, transform, crop, dst) ==
  IF dst.l < 0 \/ dst.t < 0 \/ dst.r > screen.r \/ dst.b > screen.b
  THEN calculate_crop_rects(crop, dst, screen, transform)
  ELSE [crop |-> crop, dst |-> dst]

needsScaling(screen, transform, crop, dst) ==
  LET c == trimLayer(screen, transform, crop, dst) IN
  Width(c.crop) # Width(c.dst) \/ Height(c.crop) # Height(c.dst)

-----------------------------------------------------------------------------
(* Turning the buffer.                                                     *)

getMdpOrient(rotation) ==
  IF "ROT_90" \in rotation /\ rotation \cap Flips \in {{"FLIP_H"}, {"FLIP_V"}}
  THEN {"ROT_90"} \cup (Flips \ rotation) ELSE rotation

preRotateSource(tr, whf, crop) ==
  LET x == IF "FLIP_H" \in tr THEN whf.w - crop.r ELSE crop.l
      y == IF "FLIP_V" \in tr THEN whf.h - crop.b ELSE crop.t
      w == Width(crop)  h == Height(crop) IN
  IF "ROT_90" \in tr
  THEN [whf |-> [whf EXCEPT !.w = whf.h, !.h = whf.w],
        crop |-> Rect(whf.h - (y + h), x, whf.h - y, x + w)]
  ELSE [whf |-> whf, crop |-> Rect(x, y, x + w, y + h)]

updateSource(orient, whf, crop) == preRotateSource(getMdpOrient(orient), whf, crop)

(* By how many halvings the rotator shrinks: the root of the ratio of the  *)
(* areas, of which 1.3 to 1.5 counts as 1.5, rounded to the nearest.       *)
getDownscaleFactor(srcW, srcH, dstW, dstH) ==
  LET src == srcW * srcH  dst == dstW * dstH IN
  CASE dst = 0 \/ src * 100 <= dst * 169 -> 0
    [] dst # 0 /\ src * 100 > dst * 169 /\ src * 4 < dst * 49 -> 1
    [] dst # 0 /\ src * 4 >= dst * 49 /\ src * 4 < dst * 225 -> 2
    [] OTHER -> 3

(* x and y are evened up, w and h down.                                    *)
normalizeCrop(xy, wh) ==
  IF xy % 2 = 1 THEN <<xy + 1, IF wh % 2 = 1 THEN wh - 1 ELSE wh - 2>>
  ELSE <<xy, wh - (wh % 2)>>

-----------------------------------------------------------------------------
(* Formats.  Several of gralloc's have no name on the side of the MDP.     *)

MdpNames == [RGBA_8888 |-> "MDP_RGBA_8888", RGB_888 |-> "MDP_RGB_888",
  RGB_565 |-> "MDP_RGB_565", YV12 |-> "MDP_Y_CR_CB_GH2V2",
  YCbCr_422_SP |-> "MDP_Y_CBCR_H2V1", YCrCb_420_SP |-> "MDP_Y_CRCB_H2V2",
  YCbCr_420_SP_TILED |-> "MDP_Y_CBCR_H2V2_TILE", YCbCr_420_SP |-> "MDP_Y_CBCR_H2V2",
  YCrCb_422_SP |-> "MDP_Y_CRCB_H2V1", YCrCb_422_I |-> "MDP_YCRYCB_H2V1"]

getMdpFormat(f) == IF f \in DOMAIN MdpNames THEN MdpNames[f] ELSE "unsupported"

getHALFormat(m) ==
  IF \E f \in DOMAIN MdpNames : MdpNames[f] = m
  THEN CHOOSE f \in DOMAIN MdpNames : MdpNames[f] = m ELSE "unsupported"

(* Rotator::calcOutputBufSize.                                             *)
calcOutputBufSize(whf) ==
  Formats!getBufferSizeAndDimensions(getHALFormat(whf.format), whf.w, whf.h).size

-----------------------------------------------------------------------------
(* The position on a display that mirrors, rotates or scales down.  e is   *)
(* what the position depends on: the size w x h of the display the layers  *)
(* are placed on, the size extW x extH it really has when it is in         *)
(* downscale mode, the orientation ext asked for or, when mirror is on,    *)
(* given by the device's (dev, in quarters), the action safe margins in    *)
(* percent; priW x priH is the primary.                                    *)

isPrimaryPortrait(e) == e.priW < e.priH
isOrientationPortrait(e) == isPrimaryPortrait(e) = (e.dev % 2 = 0)

getMirrorModeOrientation(e) ==
  LET dev == IF isPrimaryPortrait(e) THEN e.dev ELSE (e.dev + 1) % 4 IN
  CASE dev = 0 -> {"FLIP_H", "FLIP_V", "ROT_90"}
    [] dev = 1 -> {}
    [] dev = 2 -> {"ROT_90"}
    [] OTHER -> {"FLIP_H", "FLIP_V"}

getExtOrientation(e) == IF e.mirror THEN getMirrorModeOrientation(e) ELSE e.ext

getActionSafePosition(e, q) ==
  LET turned == "ROT_90" \in getExtOrientation(e)
      w == IF e.downscale THEN e.extW ELSE e.w
      h == IF e.downscale THEN e.extH ELSE e.h
      Into(x, margin, size) == (2 * x * (100 - margin) + size * margin) \div 200
      Shrunk(x, margin) == (x * (100 - margin)) \div 100
      l == Into(q.l, e.asW, IF turned THEN h ELSE w)
      t == Into(q.t, e.asH, IF turned THEN w ELSE h) IN
  IF e.underscan \/ (e.asW = 0 /\ e.asH = 0) THEN q
  ELSE Rect(l, t, l + Shrunk(Width(q), e.asW), t + Shrunk(Height(q), e.asH))

(* A source of w x h in the middle of a destination, in its proportions.   *)
FitInto(destW, destH, w, h) ==
  LET Centred(x, y, fw, fh) == Rect(x, y, x + fw, y + fh)
      Of(fw, fh) == Centred((destW - fw) \div 2, (destH - fh) \div 2, fw, fh) IN
  Of(IF w * destH < destW * h THEN Least((destH * w) \div h, destW) ELSE destW,
     IF w * destH > destW * h THEN Least((destW * h) \div w, destH) ELSE destH)

(* getAspectRatioPosition of a video at inRect: turned as the display is,  *)
(* and in the box that keeps the display's proportions.  For sidesync the  *)
(* black bands at the sides of the box are left out.                       *)
getAspectRatioPosition(e, orient, inRect) ==
  LET turned == "ROT_90" \in orient
      Within(in, box) ==
        [x |-> (in.crop.l * Width(box)) \div in.whf.w + box.l,
         y |-> (in.crop.t * Height(box)) \div in.whf.h + box.t,
         w |-> (Width(in.crop) * Width(box)) \div in.whf.w,
         h |-> (Height(in.crop) * Height(box)) \div in.whf.h]
      WithoutBands(o, box) ==
        IF turned /\ isOrientationPortrait(e)
        THEN [x |-> ((o.x - box.l) * e.w) \div Width(box), y |-> 0,
              w |-> (o.w * e.w) \div Width(box), h |-> e.h] ELSE o
      OnX(v) == IF e.downscale THEN (v * e.extW) \div e.w ELSE v
      OnY(v) == IF e.downscale THEN (v * e.extH) \div e.h ELSE v
      OnDisplay(o) == Rect(OnX(o.x), OnY(o.y), OnX(o.x) + OnX(o.w), OnY(o.y) + OnY(o.h))
      In(box) == OnDisplay(WithoutBands(
                   Within(preRotateSource(orient, [w |-> e.w, h |-> e.h], inRect), box), box)) IN
  In(IF turned THEN FitInto(e.w, e.h, e.h, e.w) ELSE Screen(e.w, e.h))

(* calcExtDisplayPosition: crop, destination and transform, for a display  *)
(* other than the primary.                                                 *)
calcExtDisplayPosition(e, yuv, crop, dst, transform) ==
  LET orient == getExtOrientation(e)
      fit == IF isPrimaryPortrait(e) THEN FitInto(e.w, e.h, e.priW, e.priH)
             ELSE FitInto(e.w, e.h, e.priH, e.priW)
      band == isOrientationPortrait(e)
      Down(q) == IF e.downscale
                 THEN Rect((q.l * e.extW) \div e.w, (q.t * e.extH) \div e.h,
                           (q.r * e.extW) \div e.w, (q.b * e.extH) \div e.h) ELSE q
      Position ==
        CASE yuv /\ (orient # {} \/ e.downscale) -> getAspectRatioPosition(e, orient, dst)
          [] yuv /\ orient = {} /\ ~e.downscale -> dst
          [] ~yuv /\ "ROT_90" \in orient -> Down(IF band THEN Screen(e.w, e.h) ELSE fit)
          [] OTHER -> Down(dst) IN
  [crop |-> IF ~yuv /\ "ROT_90" \in orient /\ band THEN fit ELSE crop,
   dst |-> getActionSafePosition(e, Position),
   transform |-> IF orient = {} THEN transform ELSE orient]
=============================================================================
