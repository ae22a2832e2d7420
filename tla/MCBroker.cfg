CONSTANTS
    Client = {c1, c2}
    NoClient = NoClient
    MaxSends = 4
SPECIFICATION Spec
INVARIANT BrokerTypeOK
INVARIANT RegistryConsistent
INVARIANT RolesHeldByLiveSessions
 
CHECK_DEADLOCK FALSE
SYMMETRY Symmetry
