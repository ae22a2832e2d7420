CONSTANTS
    FieldValue = {0, 255}
    DataByte = {0, 171}
    MaxData = 3
    OffsetValue = {260}
    ObjectCookie = {70000}
    ObjectHandle = {0, 300}
    kInterfaceName <- MCInterfaceName
    Envelope <- MCEnvelope
    MaxFrameMsgs = 1
    CutFrames = FALSE
SPECIFICATION CodecSpec
INVARIANT CodecTypeOK
INVARIANT ServiceManagerParcelsRoundTrip
CHECK_DEADLOCK FALSE
