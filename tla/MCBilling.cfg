SPECIFICATION BillingSpec
CONSTANTS
    l1 = l1
    l2 = l2
    c1 = c1
    c2 = c2
    p1 = p1
    p2 = p2
    Lines = {l1, l2}
    Price <- LinePrices
    Asked <- LinesAsked
    AppliedCredits = 1
    InitialBalance = 0
    MaxNotes = 2
    Callers = {c1, c2}
    NoCaller = NoCaller
    Plans = {p1, p2}
    Length <- Lengths
    FreeTrials = {p2}
    Starts <- StartRows
    Horizon = 1
    MaxEvents = 2
    MaxErrors = 2
    MaxEventRetries = 1
    CycleWorkers = {w1}
    EventWorkers = {v1}
    Users = {u1}
    Clients = {b1, b2}
    InitialSeats = 2
    MinSeats = 1
    MaxSeats = 3
    Changes <- SeatChanges
    PeriodLength = 2
    LastMoment = 4
    MaxSeatRows = 3
    Charges = {a1, a2}
    Settlers = {s1, s2}
    NoCharge = NoCharge
    Scopes = {"PlanVersion"}
    AddOns = {x1, x2}
    Values <- Grants
    Unlimited = Unlimited
    Unset = Unset
    MaxEntitlements = 3
INVARIANTS
    TypesOK
    LinesNotOvercredited
    NumbersDistinct
    EffectsMatchNotes
    
    
    WaitsEnd
    
    EndDateRespected
    FinalInvoice
    NoEventStranded
    SeatsAddUp
    
    DeliveredOnce
    ResolvesAsDocumented
PROPERTIES
    EndedStaysEnded
    CancellationStopsRenewal
    ReductionWaits
    CompletedStays
CHECK_DEADLOCK FALSE
