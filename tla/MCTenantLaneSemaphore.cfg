SPECIFICATION FairSpec
CONSTANTS
    Token = {t1, t2, t3}
    Cap = 2
    LeaseTtl = 3
    MaxHold = 2
    t1 = t1
    t2 = t2
    t3 = t3
INVARIANT CapRespected
INVARIANT OwnersKeepTheirSlots
PROPERTY LeakedSlotsComeBack
