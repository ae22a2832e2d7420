CONSTANTS
    io = io
    app = app
    m1 = m1
    m2 = m2
    m3 = m3
    Thread = {io}
    IoThread = {io}
    Msg = {m1, m2, m3}
SPECIFICATION WriterSpec
INVARIANT FramesWrittenInOrder
INVARIANT QueueNeverAccessedEmpty
PROPERTY QueuedFramesWritten
CHECK_DEADLOCK FALSE
