----------------------------- MODULE TlsRecords -----------------------------
(***************************************************************************)
(* sniffer/tls.go, the loops over a stream's bytes: parseTLSStream cuts    *)
(* complete TLS records off the front of what a stream has buffered and    *)
(* parseHandshakeMessages cuts the messages out of one record.  What the   *)
(* loops do depends on lengths only, so a unit of the data is a small      *)
(* number that may be a type, a length or content, and a header is a type  *)
(* and a length (5 and 4 bytes in the code).                               *)
(***************************************************************************)
EXTENDS Naturals, Sequences

CONSTANTS Units,        \* a subset of Nat
          MaxRecord,    \* longest body that is not corrupt: 18432 bytes
          MaxData       \* bound: units of data that are looked at together

ASSUME RecordAssumption ==
  Units \subseteq Nat /\ MaxRecord \in Nat /\ MaxData \in Nat

Header    == 2
Handshake == 1   \* tlsHandshakeContentType

Bytes == Seq(Nat)   \* []byte

----------------------------------------------------------------------------
(* What begins with a header, a record of a stream or a message in it: it  *)
(* is complete when its whole body is there; the loops go on behind it.    *)
BodyLen(data)  == data[2]
Complete(data) == Len(data) >= Header /\ Len(data) >= Header + BodyLen(data)
Body(data)     == SubSeq(data, Header + 1, Header + BodyLen(data))
Rest(data)     == SubSeq(data, Header + BodyLen(data) + 1, Len(data))

(* A length that no record has.                                            *)
Corrupt(data) == Len(data) >= Header /\ BodyLen(data) > MaxRecord

(* parseHandshakeMessages: the messages of one record's body.  One that    *)
(* does not end in the record is given up, with what follows it.           *)
HandshakeMessages[data \in Bytes] ==
  IF ~Complete(data) THEN <<>>
  ELSE <<SubSeq(data, 1, Header + BodyLen(data))>> \o HandshakeMessages[Rest(data)]

(* Mutant: an incomplete record is not kept for the bytes to come.         *)
DropIncomplete(data) == <<>>

(* `break', and the rest is returned: buf until the next bytes come.       *)
Incomplete(data) == data

(* The messages of the first record.                                       *)
Found(data) ==
  IF data[1] = Handshake THEN HandshakeMessages[Body(data)] ELSE <<>>

(* parseTLSStream: the messages found, what is left, and whether the loop  *)
(* met a length that no record has, where it throws all that is left away. *)
ParseTLSStream[data \in Bytes] ==
  IF Corrupt(data) THEN
    [found |-> <<>>, buf |-> <<>>, corrupt |-> TRUE]
  ELSE IF ~Complete(data) THEN
    [found |-> <<>>, buf |-> Incomplete(data), corrupt |-> FALSE]
  ELSE
    [ParseTLSStream[Rest(data)] EXCEPT !.found = Found(data) \o @]

(* tlsStream.run: new bytes are appended to what is left of the old ones.  *)
Continue(parsed, bytes) == ParseTLSStream[parsed.buf \o bytes]

----------------------------------------------------------------------------
Inputs == UNION {[1 .. n -> Units] : n \in 0 .. MaxData}

(* The segments of TCP are cut anywhere, and Read of the stream goroutine  *)
(* may end anywhere too: a stream without a corrupt header gives the same  *)
(* messages, in the same order, and leaves the same bytes, as if it had    *)
(* come in one piece, and less than a record is ever kept (tls.go:97-123,  *)
(* capture.go:150-154).                                                    *)
CutsAreInvisible ==
  \A data \in Inputs :
    LET whole == ParseTLSStream[data]
    IN  /\ Len(whole.buf) < Header + MaxRecord
        /\ ~whole.corrupt =>
             \A k \in 0 .. Len(data) :
               LET one == ParseTLSStream[SubSeq(data, 1, k)]
                   two == Continue(one, SubSeq(data, k + 1, Len(data)))
               IN  /\ one.found \o two.found = whole.found
                   /\ two.buf = whole.buf
=============================================================================
