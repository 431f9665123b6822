CONSTANTS
    Drops = {d1}
    Managers = {lead, deputy}
    Drivers = {driver}
    Requests = {r1, r2}
    NoOne = NoOne
    NoTask = NoTask
    Idle = Idle
    MaxRevision = 5
SPECIFICATION Spec
SYMMETRY RequestSymmetry
INVARIANTS
    FollowUpMirrorsDrop
    ClosureMarkSound
    RevisionNamesState
