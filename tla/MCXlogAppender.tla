---------------------------- MODULE MCXlogAppender ----------------------------
(* Model values and symmetry for the runs of XlogAppender.                 *)
EXTENDS XlogAppender, TLC

CONSTANTS t1, t2

MCThreads    == {t1, t2}
MCOneThread  == {t1}
ThreadSym    == Permutations(MCThreads)
AsyncOnly    == {"async"}
BothModes    == {"async", "sync"}
=============================================================================
