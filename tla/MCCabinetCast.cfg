SPECIFICATION CabinetSpec
CONSTANTS
    Barred = 3
    Casts = 3
INVARIANT CastTried
