--------------------------- MODULE MCAssetBuffer ---------------------------
(* A buffer of three with six assets: it can grow well beyond its size.    *)
EXTENDS BufferHistory
=============================================================================
