---------------------------- MODULE MCStreamRecv ----------------------------
\* Small instances of StreamRecv for TLC; the constants are in the .cfg files.
EXTENDS StreamRecv, TLC

\* Sound when all streams are of one kind; the runs that use it check safety only.
StreamSymmetry == Permutations(Streams)
=============================================================================
