SPECIFICATION Spec
CONSTANTS
    Capacity = 4
    Modulus = 8
    MaxBlock = 3
    Sample = {s0, s1}
    Zero = s0
INVARIANTS
    TypeOK
    CopiesDisjoint
PROPERTY
    ImplementsQueue
