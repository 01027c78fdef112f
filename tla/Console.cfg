SPECIFICATION Spec
CONSTANTS
    None = None
    Sec = 2
    Day = 8
    MaxTerm = 0
    Operators = {o1}
    Customers = {"c1"}
    LicenseIds = {l1, l2}
    Issued = {l1}
    Features = {"f1", "f2"}
    LaterFeatures = {"f3"}
    IssueForms <- MCForms
    RenewEnds = {2, 3}
    RenewUsers = {None}
    MaxConfirms = 2
    MaxTries = 2
    MaxInFlight = 3
    MaxEdits = 1
    LastDay = 3
    SkewTol = 1
    ReminderDays = 1
INVARIANTS TypeOK EnforcesAgreement RenewedOnce RemindedBeforeBlocked
PROPERTIES ReissueKeepsTerms
CHECK_DEADLOCK FALSE
