--------------------------- MODULE MCKafkaConsumer ---------------------------
\* Values of the constants of KafkaConsumer for TLC.
EXTENDS KafkaConsumer

CONSTANTS reserve, pay

=============================================================================
