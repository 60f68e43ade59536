SPECIFICATION Spec
CONSTANTS
    Analysts = {"market", "social", "news", "fundamentals", "macro",
                "smart_money", "volume_price"}
    DebateRounds = 2
    RiskRounds = 1
    MaxClaims = 2
    MaxEmpty = 1
CHECK_DEADLOCK FALSE
INVARIANTS
    HeardInFull RunIsShort ClaimsAgree ShownAgrees
