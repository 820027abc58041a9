CONSTANTS
    None = None
    Ints <- MC_Ints
    Strs <- MC_Strs
    EnvMaps <- MC_EnvMaps
INIT Init
NEXT Next
INVARIANTS
    TypeOK
    NoNoneOnWire
