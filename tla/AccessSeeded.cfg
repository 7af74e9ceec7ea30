SPECIFICATION Spec
CONSTANTS
    Users = {u1}
    Requests = {r1}
    None = None
    MaxFaults = 0
PROPERTIES
    SeededAdminEnters
