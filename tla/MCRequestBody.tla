--------------------------- MODULE MCRequestBody ---------------------------
(* Instances of RequestBody for TLC: a document of three chunks, sent up to  *)
(* twice.                                                                    *)
EXTENDS RequestBody
=============================================================================
