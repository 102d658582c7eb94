SPECIFICATION Spec
CONSTANTS
    Clients = {c1, c2}
    MaxAttempts = 2
    MaxTimeouts = 1
    MaxRestarts = 1
    Diligent = FALSE
SYMMETRY Viewers
CHECK_DEADLOCK FALSE
INVARIANTS
    AuthorisedIsVouched
    PairedIsTrusted

    
