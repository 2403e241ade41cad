SPECIFICATION Spec
INVARIANT PendingIsConnected
