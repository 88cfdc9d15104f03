--------------------------- MODULE MCKafkaProducer ---------------------------
\* Small instances of KafkaProducer.
EXTENDS KafkaProducer, TLC

CONSTANTS s1, s2, s3

OneMessageEach == [s \in Sender |-> 1]
TwoAndOne      == [s \in Sender |-> IF s = s1 THEN 2 ELSE 1]
OneBatch       == [s \in Sender |-> 4]
==============================================================================
