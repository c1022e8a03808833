SPECIFICATION RegistrySpec
CONSTANTS
    None = None
    Clients = {c1, c2}
    Tenants = {ta}
    Routers = {ra, rb, rc}
    MaxAddr = 2
PROPERTIES AddressSharedOnlyByRace
CHECK_DEADLOCK FALSE
