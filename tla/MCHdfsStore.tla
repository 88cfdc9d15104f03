---------------------------- MODULE MCHdfsStore ----------------------------
\* Small instances of HdfsStore.
EXTENDS HdfsStore, TLC

CONSTANTS c1, c2, c3, p

OneProduct == [c \in Call |-> p]

CallSymmetry == Permutations(Call)
=============================================================================
