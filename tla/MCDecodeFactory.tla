--------------------------- MODULE MCDecodeFactory ---------------------------
(***************************************************************************)
(* Two threads and a schema of each kind for the factory.                  *)
(***************************************************************************)
EXTENDS DecodeFactory

CONSTANTS t1, t2

MCThreads == {t1, t2}
MCIds == {"parses", "unknown", "broken"}
MCParseOf ==
  [id \in MCIds |->
     CASE id = "parses" -> "reader" [] id = "unknown" -> "none" [] id = "broken" -> "raises"]

=============================================================================
