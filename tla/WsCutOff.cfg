SPECIFICATION Spec
CONSTANTS
    MaxConns = 2
    MaxFrames = 1
    Fds = {3, 4}
    Faults = {}
INVARIANT ConnectedIsServed
