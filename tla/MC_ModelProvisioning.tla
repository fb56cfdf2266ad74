----------------------- MODULE MC_ModelProvisioning -----------------------
EXTENDS ModelProvisioning, TLC

CONSTANTS t1, t2, kModel, kOther

\* Two HTTP worker threads; a client sends the model's key or another one.
MCThreads == {t1, t2}
MCKeys == {kModel, kOther}

\* The worker threads are interchangeable.
ThreadSymmetry == Permutations(MCThreads)
=============================================================================
