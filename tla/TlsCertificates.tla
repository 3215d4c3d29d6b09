--------------------------- MODULE TlsCertificates ---------------------------
(***************************************************************************)
(* sniffer/tls.go, parseCertificateMessage: the chain in the body of a     *)
(* Certificate message, in the form of TLS 1.2 or, when an earlier         *)
(* ServerHello has marked the session, in that of TLS 1.3.                 *)
(*                                                                         *)
(* The body is a sequence of units.  A length has two of them, the more    *)
(* significant first (three bytes in the code), the length of a context or *)
(* of extensions one (one and two bytes).                                  *)
(***************************************************************************)
EXTENDS Naturals, Sequences

CONSTANTS LenBase,     \* the values of a unit: 256
          CertUnits,   \* the units that occur inside certificates
          MaxChain     \* bound: certificates in a chain, units in one

ASSUME UnitAssumption ==
  /\ LenBase \in Nat \ {0} /\ MaxChain \in Nat
  /\ CertUnits \subseteq 0 .. LenBase - 1

----------------------------------------------------------------------------
Length(body, i) == body[i] * LenBase + body[i + 1]

(* Mutant: the extensions behind a certificate are not stepped over.       *)
NoExtensions(list, isTLS13) == list

(* Where the next entry begins when a certificate has ended: what is left  *)
(* of the list, in TLS 1.3 behind extensions that may overrun it.          *)
AfterCert(list, isTLS13) ==
  IF isTLS13 /\ list # <<>> THEN SubSeq(list, 2 + list[1], Len(list)) ELSE list

(* The blobs of a list, up to one that overruns it.  x509.ParseCertificate *)
(* then drops those that are no certificate.                               *)
Entries(isTLS13) ==
  LET from[list \in Seq(Nat)] ==
        LET end == 2 + Length(list, 1)
        IN  IF Len(list) < 2 \/ end > Len(list) THEN <<>>
            ELSE <<SubSeq(list, 3, end)>>
                   \o from[AfterCert(SubSeq(list, end + 1, Len(list)), isTLS13)]
  IN  from

(* The list begins behind the context, and must lie within the body.       *)
ParseCertificateMessage(body, isTLS13) ==
  LET start == IF isTLS13 THEN 2 + body[1] ELSE 1
      end   == start + 1 + Length(body, start)
  IN  IF Len(body) < 2 \/ start + 1 > Len(body) \/ end > Len(body)
      THEN <<>>
      ELSE Entries(isTLS13)[SubSeq(body, start + 2, end)]

----------------------------------------------------------------------------
(* The reference: what a server writes, a certificate at a time, each with *)
(* extensions in TLS 1.3.                                                  *)
WithLength(s) == <<Len(s) \div LenBase, Len(s) % LenBase>> \o s
Short(s)      == <<Len(s)>> \o s

Written(isTLS13) ==
  LET of[chain \in Seq([cert : Seq(Nat), exts : Seq(Nat)])] ==
        IF chain = <<>> THEN <<>>
        ELSE WithLength(Head(chain).cert)
               \o (IF isTLS13 THEN Short(Head(chain).exts) ELSE <<>>)
               \o of[Tail(chain)]
  IN  of

Blobs  == UNION {[1 .. n -> CertUnits] : n \in 0 .. MaxChain}
Chains == UNION {[1 .. n -> [cert : Blobs, exts : Blobs]] : n \in 0 .. MaxChain}
CertsOfChain(chain) == [k \in DOMAIN chain |-> chain[k].cert]

(* A chain is read as it was written in either version, empty blobs and    *)
(* extensions included; and the chain of TLS 1.2 that is read in the form  *)
(* of TLS 1.3, which the stale mark of an earlier connection causes, gives *)
(* no certificate and never a wrong one.  A message lies in one record, so *)
(* its list has a length whose first unit is 0 (tls.go:326-371).           *)
ChainsAreRead ==
  \A chain \in Chains :
    LET list12 == Written(FALSE)[chain]
        list13 == Written(TRUE)[chain]
    IN  /\ ParseCertificateMessage(WithLength(list12), FALSE)
             = CertsOfChain(chain)
        /\ \A context \in Blobs :
             ParseCertificateMessage(Short(context) \o WithLength(list13), TRUE)
               = CertsOfChain(chain)
        /\ Len(list12) < LenBase =>
             ParseCertificateMessage(WithLength(list12), TRUE) = <<>>
=============================================================================
