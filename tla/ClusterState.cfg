SPECIFICATION Spec
CONSTANTS
    n1 = n1  n2 = n2
    g1 = g1
    Nodes = {n1, n2}
    Guests = {g1}
    Sources = {"poll", "agent"}
    MaxChanges = 2
    MaxFailures = 1
    NoNode = NoNode
    Absent = Absent
    Idle = Idle
PROPERTIES
    GuestSurvives StoreSettles
