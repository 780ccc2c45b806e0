--------------------------- MODULE MCStoreAccess ---------------------------
EXTENDS StoreAccess
CONSTANTS m1, m2, m3, m4
=============================================================================
