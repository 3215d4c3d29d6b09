------------------------------ MODULE MCSender ------------------------------
(* Two batches: requests of the first can arrive while the second is sent. *)
EXTENDS Sender
=============================================================================
