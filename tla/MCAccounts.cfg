SPECIFICATION AccountsSpec
CONSTANTS
    p1 = p1
    p2 = p2
    Phones <- MCPhones
    MaxPasswords = 3
    MaxTokens = 3
    MaxLeft = 1
SYMMETRY Symmetry
CHECK_DEADLOCK FALSE
INVARIANTS AccountsTypeOK PasswordsAgree AccountsAgree SessionsAreSuperseded
