---------------------------- MODULE MCTlsSession ----------------------------
(* Two names and two connections of one address and port pair; for the     *)
(* record layer under them all data of up to eight units, and for the      *)
(* messages all chains of two certificates of two units.                   *)
EXTENDS TlsSession, TlsRecords, TlsCertificates

(* The messages that TlsSession parses come out of the record layer the    *)
(* same however TCP cut the stream (tls.go:97-123, capture.go:150-154).    *)
(* This says nothing of the variables: it is evaluated in initial states.  *)
StreamsMayBeCutAnywhere == conns = <<>> => CutsAreInvisible

(* A Certificate gives its chain or, read in the wrong form, nothing, which*)
(* is what ParseCertificate of TlsSession does with it (tls.go:326-371).   *)
(* It says nothing of the variables either.                                *)
CertificatesAreReadOrLost == conns = <<>> => ChainsAreRead
=============================================================================
