SPECIFICATION SlotsSpec
CONSTANTS
    Clients = {c1}
    InitialSeats = 3
    MinSeats = 0
    MaxSeats = 3
    Changes <- SeatChanges
    PeriodLength = 3
    LastMoment = 5
    MaxSeatRows = 3
PROPERTIES DowngradesDeferred
CHECK_DEADLOCK FALSE
