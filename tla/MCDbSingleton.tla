---------------------------- MODULE MCDbSingleton ---------------------------
(* DbSingleton for TLC.                                                    *)
EXTENDS DbSingleton

CONSTANTS t1, t2, t3

ThreeThreads == {t1, t2, t3}
=============================================================================
