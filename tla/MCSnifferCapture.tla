-------------------------- MODULE MCSnifferCapture --------------------------
(* Two stream directions, a certificate and a cipher suite asset, and a    *)
(* buffer that the two together fill.                                      *)
EXTENDS SnifferCapture

CONSTANTS cert, suite, tls13

MCSuiteOf == [a \in Assets |-> IF a = cert THEN NoSuite ELSE tls13]
=============================================================================
