--------------------------- MODULE MCKafkaCapture ---------------------------
(* KafkaCapture with few events, starts and stops.                          *)
EXTENDS KafkaCapture
=============================================================================
