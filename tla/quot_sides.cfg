SPECIFICATION Spec
CONSTANTS
    Order <- OneCircle
    Feed <- Thinner
    g_Quotation_Type = "SellBuyPrice"
    MayFail = {}
    Nothing = Nothing
CHECK_DEADLOCK FALSE
INVARIANT WithinOffer
