---------------------------- MODULE OffsetLedger ----------------------------
\* What a consumer group of this repository promises about a topic: the
\* position it has committed in a partition never covers a message that
\* has not been settled.  How messages get settled, by whom, how often and
\* in which order is left open, and so is how the committed position
\* moves: it may advance, stay, or fall back (a late commit of a batch
\* that another consumer has overtaken).
\*
\* Both groups implement this specification: the batch consumers, for which a
\* message is settled when it is in HDFS, does not decode or was handed over
\* (BatchConsumer), and the clients that read one message each, for which it
\* is when one of them has read it (Pipeline).
EXTENDS Naturals

CONSTANT Partition    \* the partitions of the topic

VARIABLES settled,    \* the messages <<partition, offset>> nobody has to read again
          frontier    \* frontier[p]: the offset a restarted group resumes p from

ledgerVars == <<settled, frontier>>

Position == Partition \X Nat

\* Every message of p below offset f is settled.
PrefixSettled(p, f) == \A o \in 0 .. f - 1 : <<p, o>> \in settled

LedgerInit ==
    /\ settled \in SUBSET Position
    /\ frontier = [p \in Partition |-> 0]

Settle ==
    /\ settled' \in SUBSET Position
    /\ settled \subseteq settled'
    /\ UNCHANGED frontier

Acknowledge(p) ==
    /\ frontier'[p] \in Nat
    /\ PrefixSettled(p, frontier'[p])
    /\ \A q \in Partition \ {p} : frontier'[q] = frontier[q]
    /\ DOMAIN frontier' = Partition
    /\ UNCHANGED settled

LedgerNext == Settle \/ \E p \in Partition : Acknowledge(p)

LedgerSpec == LedgerInit /\ [][LedgerNext]_ledgerVars
=============================================================================
