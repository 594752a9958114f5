SPECIFICATION Spec
CONSTANTS
    User = {"a", "u"}
    AdminID = {"a"}
    DefaultRole = "viewer"
    Handler = {h1, h2}
    NoOne = NoOne
    Offer <- MCOffer
    Rules <- MCRules
    Request <- MCRequest
    MaxBindings = 2
    MaxTime = 1
SYMMETRY Symmetry
INVARIANTS
    TypeOK
    DecisionsAreMeant
PROPERTIES
    RolesMoveByRight
