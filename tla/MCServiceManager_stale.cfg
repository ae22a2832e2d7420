CONSTANTS
    p1 = p1
    p2 = p2
    n1 = n1
    n2 = n2
    Proc = {p1, p2}
    Name = {n1, n2}
SPECIFICATION SMSpec
PROPERTY DeadServicesForgotten
CHECK_DEADLOCK FALSE
