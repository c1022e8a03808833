SPECIFICATION FairSpec
CONSTANTS
    None = None
    Me = me
    Clients = {me}
    Tenants = {ta, tb}
    Routers = {ra, rb}
    MaxAddr = 2
INVARIANTS WizardInv WizardOfOwnTenant
PROPERTIES WizardNoticesRouter
CHECK_DEADLOCK FALSE
