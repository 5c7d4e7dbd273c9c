CONSTANTS
    m1 = m1
    m2 = m2
    None = None
    Message = {m1, m2}
    Kind = {"telegram", "discord", "whatsapp"}
    TextLength = 4
    Char = {"x", "n", "b"}
    Texts <- MCTexts
    Files <- MCFiles
    MaxLength = 2
    MaxReconnects = 1
    MaxSockets = 3
SPECIFICATION Spec
INVARIANTS TypeOK OneConnection SplitIsFaithful
PROPERTIES ImplementsDelivery
CHECK_DEADLOCK FALSE
