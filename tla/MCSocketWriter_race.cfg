CONSTANTS
    io = io
    app = app
    m1 = m1
    m2 = m2
    m3 = m3
    Thread = {app, io}
    IoThread = {io}
    Msg = {m1, m2, m3}
SPECIFICATION WriterSpec
INVARIANT FramesWrittenInOrder
CHECK_DEADLOCK FALSE
