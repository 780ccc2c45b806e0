---------------------------- MODULE MCThreadPool ----------------------------
(* Instances of ThreadPool for TLC.                                        *)
EXTENDS ThreadPool
CONSTANTS t1, t2, t3, p1
MCTask3 == {t1, t2, t3}
MCProducer == {p1}
=============================================================================
