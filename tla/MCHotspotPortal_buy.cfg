SPECIFICATION FairSpec
CONSTANTS
    g1 = g1  c1 = c1  k1 = k1
    Guests = {g1}  Customers = {c1}  Packages = {k1}
    Typed = Typed  None = None
    MaxPayments = 2  MaxReloads = 1  MaxTabs = 1
INVARIANTS PortalInv NoPromptForgotten SecondTrialOnlyByOverlap
PROPERTIES ScreensMoveOn
CHECK_DEADLOCK FALSE
