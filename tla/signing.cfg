SPECIFICATION Spec
CONSTANTS
    Signers = {s1, s2}
    VaultCurves <- SomeCurves
    MaxVersions = 2
    Foreign <- ForeignMessages
    None = None
SYMMETRY Symmetry
INVARIANTS SignedVerifies AcceptedIffSigned ListedKeysVerify
CHECK_DEADLOCK FALSE
