SPECIFICATION Spec
CONSTANTS
    Accounts <- Named
    Entities <- Named
    Owner <- Self
    Outside = outside
    Transactions <- Rows
    Ingests = {i1}
    BatchSize = 5
    Seeds = {1, 2}
    MaxCases = 2
    Checks = {c1}
    Plans <- Mixtures
    BackgroundCount = 4
    BackgroundDraws <- Backgrounds
    PayDraws <- Paychecks
    DepositDraws <- Deposits
    VictimDraws <- Payments
    OutboundDraws <- Onward
    MuleVictims = 6
    MuleRetentions = {95}
    StartAmounts = {45000}
    ChainAges = {15}
    ForwardFractions = {90}
    HopDelays = {48}
    MaxHops = 4
    QueryLimit = 1
INVARIANT IngestedWhole
INVARIANT TruthIsReal
INVARIANT SeededAreCaught
INVARIANT OrdinaryStaysClear
\* Deadlock: every process may be done.
CHECK_DEADLOCK FALSE
