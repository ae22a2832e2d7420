CONSTANTS
    w1 = w1
    w2 = w2
    Worker = {w1, w2}
    MaxFrames = 3
SPECIFICATION ReceiveSpec
INVARIANT HandlersReadTheirFrame
CHECK_DEADLOCK FALSE
