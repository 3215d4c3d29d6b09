---------------------------- MODULE MCPySniffer ----------------------------
(* Three certificates and a buffer for two of them.                        *)
EXTENDS PySniffer
=============================================================================
