CONSTANTS
    hot = hot
    cold = cold
    Jobs = {j1, j2}
    Answers <- MCAnswers
    Texts = {t1, t2}
    NoText = NoText
    MaxAttempts = 3
    MaxWork = 4
    Imports = {i1}
    NoFile = NoFile
SPECIFICATION ExchangeSpec
SYMMETRY Symmetric
INVARIANTS
    ExchangeRowsFit
    DisagreementIsRaised
CHECK_DEADLOCK FALSE
