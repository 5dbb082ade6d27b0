SPECIFICATION Spec
CONSTANTS
    TabA = TabA
    TabB = TabB
    Phone = Phone
    Late = Late
    Ann = Ann
    Bob = Bob
    Cid = Cid
    NoIdentity = NoIdentity
    Seats = 2
    MaxAway = 2
    Sid <- MCSid
    Secret <- MCSecret
    IdentityOf <- MCIdentityOf
SYMMETRY Interchangeable
INVARIANTS
    EveryMappingDropped
