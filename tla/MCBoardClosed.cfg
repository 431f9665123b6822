CONSTANTS
    Drops = {d1}
    Managers = {lead, deputy}
    Drivers = {driver}
    Requests = {r1, r2}
    NoOne = NoOne
    NoTask = NoTask
    Idle = Idle
    MaxRevision = 3
SPECIFICATION Spec
SYMMETRY RequestSymmetry
PROPERTY ClosedWindowIsFinalForDrivers
