-------------------------- MODULE MCBatchConsumer --------------------------
\* Small instances of BatchConsumer.  The poison message is one that does
\* not deserialize.
EXTENDS BatchConsumer, TLC

CONSTANTS c1, c2, p1, p2

NonePoison == {}
OnePoison  == {<<p1, 1>>}

ConsumerSymmetry == Permutations(Consumer)
GroupSymmetry    == Permutations(Consumer) \cup Permutations(Partition)
============================================================================
