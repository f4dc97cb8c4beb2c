------------------------- MODULE MCTimestampTagger -------------------------
(* Model-checking instance of TimestampTagger: keyed SET and GET, unkeyed *)
(* PING and CONFIG GET (whose reply is a two-element list), and a        *)
(* transaction.                                                           *)
EXTENDS TimestampTagger

MCCommands == {"SET", "GET", "CONFIG", "PING", "MULTI", "EXEC"}
MCKeyed == {"SET", "GET"}

=============================================================================
