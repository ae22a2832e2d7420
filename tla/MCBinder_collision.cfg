CONSTANTS
    c1 = c1
    c2 = c2
    Client = {c1, c2}
    NoClient = NoClient
    MaxHandle = 1
    Script <- CallbackScript
SPECIFICATION Spec
INVARIANT CallResolvedByItsAnswer
CHECK_DEADLOCK FALSE
