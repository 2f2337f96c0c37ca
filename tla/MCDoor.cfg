SPECIFICATION Spec
CONSTANTS
    Word = 12
    Burst = 2
    Num = 2
    Den = 3
    Unit = 4
    MaxAge = 13
    ann = ann
    bob = bob
    noClient = noClient
    Client <- Clients
    NoClient = noClient
    Buckets = 1
    ClientLimit = 2
    GlobalLimit = 3
    Window = 3
    Lockout = 3
    Guest = {1, 2}
    Rows = 1
    Seats = 2
    Socket = {1, 2, 3}
    PendingLimit = 2
    ObjectLimit = 3
    Deadline = 2
    TickLag = 1
    TickPeriod = 2
    up = up
    join = join
    leave = leave
    unset = unset
    Request <- Requests
    Unset = unset
    Capacity = 3
    MaxDropped = 2
    CoalesceDepth = 2
    StreamDropDepth = 4
    ControlCloseDepth = 2
    TrackerCapacity = 8
    MaxVersion = 3
INVARIANTS
    RateKept
    FailuresBounded
    RowReserved
    SlotsReturn
    QueuesAgree
    SnapshotsKept
PROPERTIES
    PaceHeard
    RetryIsEnough
    DeadlineKept
    ImplementsFifo
    ClosedOnlyWhenOverloaded
    NewestDelivered
