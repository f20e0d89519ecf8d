SPECIFICATION AccountsSpec
CONSTANTS
    People = {"ann", "bob", "cem"}
    Founder = "ann"
    Subjects = {"x"}
    Author <- ByAnn
    Roles = {"investor", "admin"}
    MaxRequests = 3
    MaxShellUses = 0
INVARIANTS SomeoneCanAdminister
CHECK_DEADLOCK FALSE
