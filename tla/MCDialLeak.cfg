\* Whether every handshake goroutine a dial starts exits (one address, two
\* attempts, duplicating network).
SPECIFICATION Spec
CHECK_DEADLOCK FALSE
PROPERTY HandshakeGoroutineExits
