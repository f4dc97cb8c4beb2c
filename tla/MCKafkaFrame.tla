---------------------------- MODULE MCKafkaFrame ----------------------------
(* Model-checking instance of KafkaFrame.  TLC's integers are 32-bit, so   *)
(* bytes_len as i32 is checked at 16 bits, with the large body sized so    *)
(* that a request carrying it is exactly the largest length a 16-bit       *)
(* prefix holds: 4 + 14 + MCLarge = 2^15 + 3.                               *)
EXTENDS KafkaFrame

MCApiKeys == {"ProduceKey", "FindCoordinatorKey", "MetadataKey"}

MCLarge == 2^15 - 1 - (2 + 2 + 4 + 2 + 4)

MCPayloadSize == [p \in {"small", "large"} |-> IF p = "small" THEN 3 ELSE MCLarge]

=============================================================================
