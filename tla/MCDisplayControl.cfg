SPECIFICATION Spec
PROPERTIES IdleScreenFallsBack DeadPanelIsReset VsyncKeepsComing
