------------------------------ MODULE MCSzConn ------------------------------
EXTENDS SzConn
\* Two partitions that are not at the same index.
MCAsks == {<<2, 1>>}
MCKinds == {"good", "late", "early", "silent"}
=============================================================================
