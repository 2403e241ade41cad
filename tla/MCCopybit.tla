------------------------------ MODULE MCCopybit ------------------------------
EXTENDS Copybit
MCDevices == {<<TRUE, TRUE>>, <<FALSE, FALSE>>}
MCMaxSurfaces == [t \in Types |-> 1]
=============================================================================
