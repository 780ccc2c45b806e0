SPECIFICATION Spec
CONSTANTS
    Order <- TwoCircles
    Feed <- Day
    g_Quotation_Type = "AveragePrice"
    MayFail = {"HMSET quotation", "HMSET volume", "HMGET volume"}
    Nothing = Nothing
CHECK_DEADLOCK FALSE
INVARIANTS
    QtyExact
    WithinOffer
    OffersInStep
