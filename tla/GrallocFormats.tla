---------------------------- MODULE GrallocFormats ----------------------------
(***************************************************************************)
(* What gralloc computes from a request: the size and the dimensions of a  *)
(* buffer, the planes it announces to the CPU, the heaps it asks for.      *)
(* Strides as without libadreno_utils.                                     *)
(***************************************************************************)
EXTENDS Integers

CONSTANTS
  UseTZProtection,       (* mUseTZProtection of the IonController          *)
  CompositionTypeMDP     (* debug.composition.type has MDP in it           *)

ASSUME FormatsAssumption == {UseTZProtection, CompositionTypeMDP} \subseteq BOOLEAN

ALIGN(x, a) == ((x + a - 1) \div a) * a
PAGE == 4096

RGB == {"RGBA_8888", "RGB_888", "RGB_565"}
YUV420SP == {"YCbCr_420_SP", "YCrCb_420_SP"}
YUV422SP == {"YCbCr_422_SP", "YCrCb_422_SP"}
Formats == RGB \cup YUV420SP \cup YUV422SP \cup
  {"YCrCb_420_SP_ADRENO", "YCbCr_420_SP_TILED", "NV12", "NV12_ENCODEABLE",
   "YV12", "YCrCb_422_I", "BLOB", "NV21_ZSL", "RAW_SENSOR"}

getGrallocInformationFromFormat(f) == IF f \in RGB THEN "UI" ELSE "VIDEO"

(* AdrenoMemInfo::getStride.                                               *)
getStride(f, w) ==
  CASE f \in RGB \cup {"YCrCb_420_SP_ADRENO", "RAW_SENSOR", "NV12"} -> ALIGN(w, 32)
    [] f = "YCbCr_420_SP_TILED" -> ALIGN(w, 128)
    [] f = "NV21_ZSL" -> ALIGN(w, 64)
    [] f = "BLOB" -> w
    [] OTHER -> ALIGN(w, 16)

Refused == [size |-> 0, w |-> 0, h |-> 0]
Sized(size, w, h) == [size |-> size, w |-> w, h |-> h]

(* Faulty: one chroma plane of YV12 is forgotten.                          *)
DimensionsOnePlane(f, w, h) ==
  LET aw == getStride(f, w) IN
  Sized(ALIGN(aw * h + ALIGN(aw \div 2, 16) * (h \div 2), PAGE), aw, h)

(* getBufferSizeAndDimensions; a size that is not positive is refused.     *)
getBufferSizeAndDimensions(f, w, h) ==
  LET aw == getStride(f, w)  ah == ALIGN(h, 32) IN
  CASE f = "RGBA_8888" -> Sized(aw * ah * 4, aw, ah)
    [] f = "RGB_888" -> Sized(aw * ah * 3, aw, ah)
    [] f \in {"RGB_565", "RAW_SENSOR"} -> Sized(aw * ah * 2, aw, ah)
    [] f = "YCrCb_420_SP_ADRENO" ->
         Sized(ALIGN(aw * ah, PAGE)
               + ALIGN(2 * ALIGN(w \div 2, 32) * ALIGN(h \div 2, 32), PAGE), aw, ah)
    [] f = "YCbCr_420_SP_TILED" ->
         Sized(ALIGN(aw * ah, 8192) + ALIGN(aw * ALIGN(h \div 2, 32), 8192), aw, ah)
    [] f = "NV12" ->
         Sized(ALIGN(ALIGN(w, 128) * ALIGN(h, 32), 8192)
               + ALIGN(ALIGN(w, 128) * ALIGN(h \div 2, 32), 8192), ALIGN(w, 16), h)
    [] f = "NV12_ENCODEABLE" ->
         Sized(ALIGN(ALIGN(aw * h, 2048)
                     + ALIGN(aw \div 2, 16) * (h \div 2) * 2, PAGE), aw, h)
    [] f = "YV12" ->
         IF w % 2 = 1 \/ h % 2 = 1 THEN Refused
         ELSE Sized(ALIGN(aw * h + ALIGN(aw \div 2, 16) * (h \div 2) * 2, PAGE), aw, h)
    [] f \in YUV420SP -> Sized(ALIGN(aw * h + (aw * h) \div 2 + 1, PAGE), aw, h)
    [] f \in YUV422SP \cup {"YCrCb_422_I"} ->
         IF w % 2 = 1 THEN Refused ELSE Sized(ALIGN(aw * h * 2, PAGE), aw, h)
    [] f = "BLOB" -> IF h # 1 THEN Refused ELSE Sized(w, w, h)
    [] OTHER -> LET zh == ALIGN(h, 64) IN
         Sized(ALIGN(aw * zh + (aw * zh) \div 2, PAGE), aw, zh)

(* getYUVPlaneInfo of a handle of stride w and height h: the offsets of    *)
(* the chroma planes and the bytes from one row to the next.               *)
getYUVPlaneInfo(f, w, h) ==
  CASE f \in {"YCbCr_420_SP", "YCbCr_422_SP", "NV12_ENCODEABLE"} ->
         [ok |-> TRUE, y |-> w, c |-> w, cb |-> w * h, cr |-> w * h + 1, step |-> 2]
    [] f \in {"YCrCb_420_SP", "YCrCb_422_SP", "YCrCb_420_SP_ADRENO", "NV21_ZSL",
              "RAW_SENSOR"} ->
         [ok |-> TRUE, y |-> w, c |-> w, cb |-> w * h + 1, cr |-> w * h, step |-> 2]
    [] f = "YV12" ->
         LET c == ALIGN(w \div 2, 16) IN
         [ok |-> TRUE, y |-> w, c |-> c, cb |-> w * h + (c * h) \div 2,
          cr |-> w * h, step |-> 1]
    [] f = "NV12" ->
         LET s == ALIGN(w, 16) IN
         [ok |-> TRUE, y |-> s, c |-> s, cb |-> s * h, cr |-> s * h + 1, step |-> 2]
    [] OTHER -> [ok |-> FALSE, y |-> 0, c |-> 0, cb |-> 0, cr |-> 0, step |-> 0]

-----------------------------------------------------------------------------
(* A usage is the set of its bits.                                         *)
UsageBits == {"PROTECTED", "MM_HEAP", "SYSTEM_HEAP", "IOMMU_HEAP", "UI_CONTIG",
              "CAMERA_HEAP", "ADSP_HEAP", "EXTERNAL_ONLY", "EXTERNAL_DISP",
              "UNCACHED", "SW_RARELY", "HW_FB"}
HEAP_MASK == {"UI_CONTIG", "SYSTEM_HEAP", "IOMMU_HEAP", "MM_HEAP", "ADSP_HEAP"}

(* Faulty: a protected buffer may come from the system heap as well.       *)
canFallbackAlways(usage) == ~CompositionTypeMDP

(* triedSystem is left out: it tests the number of the heap for its mask,  *)
(* and who has asked for the system heap may not fall back anyway.         *)
canFallback(usage) ==
  /\ ~CompositionTypeMDP
  /\ usage \cap (HEAP_MASK \cup {"PROTECTED"}) = {}
  /\ usage \cap (HEAP_MASK \cup {"EXTERNAL_ONLY"}) = {}

useUncached(usage) == usage \cap {"UNCACHED", "SW_RARELY"} # {}

Secured(usage) == {"PROTECTED", "MM_HEAP"} \subseteq usage /\ UseTZProtection

(* The heaps IonController::allocate asks for.                             *)
ionHeaps(usage) ==
  LET asked ==
        (IF "UI_CONTIG" \in usage THEN {"SF"} ELSE {})
        \cup (IF "SYSTEM_HEAP" \in usage THEN {"SYSTEM"} ELSE {})
        \cup (IF "IOMMU_HEAP" \in usage THEN {"IOMMU"} ELSE {})
        \cup (IF Secured(usage) THEN {"CP_MM"}
              ELSE IF usage \cap {"PROTECTED", "MM_HEAP"} # {} THEN {"IOMMU"} ELSE {})
        \cup (IF "CAMERA_HEAP" \in usage THEN {"CAMERA"} ELSE {})
        \cup (IF "ADSP_HEAP" \in usage THEN {"ADSP"} ELSE {}) IN
  IF asked = {} THEN {"SF", "IOMMU"} ELSE asked

(* alloc_impl: what goes to overlay is video.                              *)
bufferType(f, usage) ==
  IF usage \cap {"EXTERNAL_DISP", "PROTECTED"} # {} THEN "VIDEO"
  ELSE getGrallocInformationFromFormat(f)
=============================================================================
