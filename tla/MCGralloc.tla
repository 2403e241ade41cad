------------------------------ MODULE MCGralloc ------------------------------
EXTENDS Gralloc
MCUsages == {{}, {"SW_RARELY"}, {"PROTECTED"}, {"PROTECTED", "MM_HEAP"},
             {"SYSTEM_HEAP", "EXTERNAL_DISP"}}
Plain == <<"RGB_565", 33, 2>>
MCRequests == {Plain, <<"YV12", 34, 6>>, <<"YV12", 64, 128>>,
  <<"YCbCr_420_SP", 48, 85>>, <<"YCrCb_422_SP", 34, 120>>, <<"NV12", 65, 64>>,
  <<"YCrCb_420_SP_ADRENO", 128, 65>>, <<"YCrCb_420_SP_ADRENO", 65, 97>>, <<"NV12_ENCODEABLE", 33, 31>>,
  <<"NV21_ZSL", 65, 65>>, <<"RAW_SENSOR", 33, 64>>,
  <<"YCbCr_420_SP_TILED", 130, 33>>, <<"BLOB", 100, 1>>}

(* The hypothesis under which the slots are proved to be exclusive.        *)
ASSUME HolesFitAssumption == HolesFit

(* What becomes of a buffer does not depend on its size, and shares        *)
(* nothing with the framebuffer: one of the three varies at a time.        *)
OneAtATime ==
  /\ buf = NoBuf \/ buf.request = Plain
     \/ \A p \in Clients : hnd[p] = NoHandle /\ locks[p] = "none"
  /\ (Gone /\ \A p \in Procs : fds[p] = Nothing /\ maps[p] = Nothing)
     \/ fbMem = "none"
=============================================================================
