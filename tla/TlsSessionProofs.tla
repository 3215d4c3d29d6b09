-------------------------- MODULE TlsSessionProofs --------------------------
(***************************************************************************)
(* Proofs about TlsSession, for any names and any number of connections    *)
(* of the pair; about the record loops, for streams of any length; and     *)
(* about the chains of Certificate messages, for any number of them.       *)
(***************************************************************************)
EXTENDS MCTlsSession, SequenceTheorems, WellFoundedInduction, TLAPS

----------------------------------------------------------------------------
(* The inductive invariant.                                                *)

(* There are streams, messages and a name heard only in a connection, and  *)
(* then there is a session.                                                *)
ConnectedInv ==
  /\ conns = <<>> => streams = {} /\ unseen = {} /\ ~heard
  /\ streams # {} \/ heard => session # {}

(* If only the server's port is known the session names the server.        *)
HostInv ==
  known = {"server"} => \A s \in session : s.serverIP = "server"

(* A server_name that was heard is the session's name.                     *)
NameInv == heard => \A s \in session : s.sni = Current.sni

(* The session is marked TLS 1.3 only after a connection of TLS 1.3.       *)
VersionInv ==
  \A s \in session :
    s.isTLS13 => \E i \in 1 .. Len(conns) : conns[i].version = "1.3"

(* A Certificate to come is one of a TLS 1.2 connection.                   *)
CertificateInv == "Certificate" \in unseen => Current.version = "1.2"

IndInv ==
  /\ TypeOK /\ ConnectedInv /\ HostInv /\ NameInv /\ VersionInv
  /\ CertificateInv
  /\ HostIsServer /\ OwnNameOnceHeard /\ LostOnlyAfterTls13

----------------------------------------------------------------------------
(* The current connection is one of the connections.                       *)
LEMMA CurrentIsAConnection ==
  ASSUME TypeOK, conns # <<>>
  PROVE  /\ Len(conns) \in Nat \ {0}
         /\ Current \in Connections /\ Current = conns[Len(conns)]
  BY DEF TypeOK, Current

(* The invariant holds at the start.                                       *)
LEMMA InitEstablishes == Init => IndInv
<1> SUFFICES ASSUME Init PROVE IndInv
  OBVIOUS
<1>1. conns \in Seq(Connections) /\ Len(conns) = 0
  BY DEF Init
<1>2. Len(conns) <= MaxConnections
  BY <1>1, ConnectionsAssumption
<1>3. TypeOK
  BY <1>1, <1>2 DEF Init, TypeOK
<1> QED
  BY <1>3 DEF Init, IndInv, ConnectedInv, HostInv, NameInv, VersionInv,
              CertificateInv, HostIsServer, OwnNameOnceHeard,
              LostOnlyAfterTls13

----------------------------------------------------------------------------
(* The next connection: the earlier ones keep their places.                *)
LEMMA ConnectPreserves ==
  ASSUME IndInv, NEW c \in Connections, Connect(c)
  PROVE  IndInv'
<1>1. /\ conns \in Seq(Connections) /\ Len(conns) \in Nat
      /\ Len(conns) < MaxConnections /\ conns' = Append(conns, c)
  BY DEF IndInv, TypeOK, Connect
<1>2. /\ conns' \in Seq(Connections) /\ Len(conns') = Len(conns) + 1
      /\ conns'[Len(conns')] = c /\ conns' # <<>>
      /\ \A i \in 1 .. Len(conns) : conns'[i] = conns[i]
  BY <1>1
<1>3. TypeOK'
  <2>1. Len(conns') <= MaxConnections
    BY <1>1, <1>2, ConnectionsAssumption
  <2>2. 1 .. Len(conns) \subseteq 1 .. Len(conns')
    BY <1>1, <1>2
  <2>3. unseen' \subseteq Messages
    BY DEF Connect
  <2>4. /\ known' \subseteq Hosts /\ streams' \subseteq Directions
        /\ session' \subseteq Sessions /\ \A x, y \in session' : x = y
        /\ heard' \in BOOLEAN
    BY DEF IndInv, TypeOK, Connect
  <2>5. lost' \subseteq 1 .. Len(conns')
    BY <2>2 DEF IndInv, TypeOK, Connect
  <2>6. assets' \subseteq [conn : 1 .. Len(conns'), message : Messages,
                          host : Hosts, sni : Names \union {NoName},
                          heard : BOOLEAN]
    BY <2>2 DEF IndInv, TypeOK, Connect
  <2> QED
    BY <1>2, <2>1, <2>3, <2>4, <2>5, <2>6 DEF TypeOK
<1>4. ConnectedInv' /\ HostInv' /\ NameInv' /\ CertificateInv'
  BY <1>2 DEF IndInv, ConnectedInv, HostInv, NameInv, CertificateInv, Connect,
              Current
<1>5. VersionInv'
  BY <1>1, <1>2 DEF IndInv, VersionInv, Connect
<1>6. HostIsServer'
  BY DEF IndInv, HostIsServer, Connect
<1>7. OwnNameOnceHeard'
  BY <1>1, <1>2 DEF IndInv, TypeOK, OwnNameOnceHeard, Connect
<1>8. LostOnlyAfterTls13'
  BY <1>1, <1>2 DEF IndInv, TypeOK, LostOnlyAfterTls13, Connect
<1> QED
  BY <1>3, <1>4, <1>5, <1>6, <1>7, <1>8 DEF IndInv

(* A message that was missed.                                              *)
LEMMA MissPreserves == ASSUME IndInv, NEW m \in Messages, Miss(m) PROVE IndInv'
  BY DEF IndInv, TypeOK, ConnectedInv, HostInv, NameInv, VersionInv,
         CertificateInv, HostIsServer, OwnNameOnceHeard, LostOnlyAfterTls13,
         Miss, Current

(* A stream: of the session that is there, or of a fresh one.              *)
LEMMA NewPreserves == ASSUME IndInv, NEW d \in Directions, New(d) PROVE IndInv'
<1> USE DEF New
<1>1. NewSession(d) \in Sessions
  BY DEF NewSession, ServerIP, ServerToClient, Source, Destination, Sessions,
         Hosts
<1>2. TypeOK'
  BY <1>1 DEF IndInv, TypeOK, Directions
<1>3. HostInv'
  BY DEF IndInv, HostInv, NewSession, ServerIP, ServerToClient, Source,
         Destination, Directions
<1>4. ConnectedInv' /\ CertificateInv'
  BY DEF IndInv, ConnectedInv, CertificateInv, Current
<1>5. NameInv'
  BY DEF IndInv, ConnectedInv, NameInv, Current
<1>6. VersionInv'
  BY DEF IndInv, VersionInv, NewSession
<1>7. HostIsServer' /\ OwnNameOnceHeard' /\ LostOnlyAfterTls13'
  BY DEF IndInv, HostIsServer, OwnNameOnceHeard, LostOnlyAfterTls13
<1> QED
  BY <1>2, <1>3, <1>4, <1>5, <1>6, <1>7 DEF IndInv

----------------------------------------------------------------------------
(* What an asset says of the session it is labelled from.                  *)
LEMMA AssetFields ==
  ASSUME NEW m \in Messages, NEW s \in Sessions, NEW h \in BOOLEAN,
         Len(conns) \in Nat \ {0}
  PROVE  /\ Asset(m, s, h) \in [conn : 1 .. Len(conns), message : Messages,
                                host : Hosts, sni : Names \union {NoName},
                                heard : BOOLEAN]
         /\ Asset(m, s, h).conn = Len(conns)
         /\ Asset(m, s, h).host = s.serverIP
         /\ Asset(m, s, h).sni = s.sni
         /\ Asset(m, s, h).heard = h
<1>1. Len(conns) \in 1 .. Len(conns)
  OBVIOUS
<1> QED
  BY <1>1 DEF Asset, Sessions

(* A handshake message that changes the session to new and adds an asset   *)
(* for each session in labels, in a connection that is there.              *)
LEMMA ParsePreserves ==
  ASSUME IndInv, NEW m \in Messages, m \in unseen,
         NEW new \in SUBSET Sessions, \A x, y \in new : x = y,
         session # {} => new # {},
         known = {"server"} => \A s \in new : s.serverIP = "server",
         NEW h \in BOOLEAN,
         h => new # {} /\ \A s \in new : s.sni = Current.sni,
         \A s \in new :
           s.isTLS13 => \E i \in 1 .. Len(conns) : conns[i].version = "1.3",
         NEW labels \in SUBSET new,
         session' = new, heard' = h, unseen' = unseen \ {m},
         assets' = assets \union {Asset(m, s, h) : s \in labels},
         NEW none \in SUBSET 1 .. Len(conns), lost' = lost \union none,
         \A n \in none : \E i \in 1 .. n - 1 : conns[i].version = "1.3",
         UNCHANGED <<known, conns, streams>>
  PROVE  IndInv'
<1>1. conns # <<>>
  BY DEF IndInv, ConnectedInv
<1>2. Len(conns) \in Nat \ {0} /\ Current = conns[Len(conns)]
  BY <1>1, CurrentIsAConnection DEF IndInv
<1>3. \A a \in assets' : a \in assets \/ \E s \in labels : a = Asset(m, s, h)
  OBVIOUS
<1>4. TypeOK'
  <2>1. \A s \in labels :
          Asset(m, s, h) \in [conn : 1 .. Len(conns), message : Messages,
                             host : Hosts, sni : Names \union {NoName},
                             heard : BOOLEAN]
    BY <1>2, AssetFields
  <2>2. assets' \subseteq [conn : 1 .. Len(conns), message : Messages,
                          host : Hosts, sni : Names \union {NoName},
                          heard : BOOLEAN]
    BY <1>3, <2>1 DEF IndInv, TypeOK
  <2>3. lost' \subseteq 1 .. Len(conns)
    BY DEF IndInv, TypeOK
  <2> QED
    BY <2>2, <2>3 DEF IndInv, TypeOK
<1>5. ConnectedInv' /\ HostInv' /\ NameInv' /\ VersionInv' /\ CertificateInv'
  BY <1>1 DEF IndInv, ConnectedInv, HostInv, NameInv, VersionInv,
              CertificateInv, Current
<1>6. HostIsServer'
  <2> SUFFICES ASSUME known' = {"server"}, NEW a \in assets'
               PROVE  a.host = "server"
    BY DEF HostIsServer
  <2>1. CASE a \in assets
    BY <2>1 DEF IndInv, HostIsServer
  <2>2. CASE a \notin assets
    <3>1. PICK s \in labels : a = Asset(m, s, h)
      BY <1>3, <2>2
    <3>2. a.host = s.serverIP
      BY <3>1, <1>2, AssetFields
    <3> QED
      BY <3>2
  <2> QED
    BY <2>1, <2>2
<1>7. OwnNameOnceHeard'
  <2> SUFFICES ASSUME NEW a \in assets', a.heard
               PROVE  a.sni = conns[a.conn].sni
    BY DEF OwnNameOnceHeard
  <2>1. CASE a \in assets
    BY <2>1 DEF IndInv, OwnNameOnceHeard
  <2>2. CASE a \notin assets
    <3>1. PICK s \in labels : a = Asset(m, s, h)
      BY <1>3, <2>2
    <3>2. a.sni = s.sni /\ a.heard = h /\ a.conn = Len(conns)
      BY <3>1, <1>2, AssetFields
    <3>3. h
      BY <3>2
    <3> QED
      BY <3>2, <3>3, <1>2
  <2> QED
    BY <2>1, <2>2
<1>8. LostOnlyAfterTls13'
  BY DEF IndInv, LostOnlyAfterTls13
<1> QED
  BY <1>4, <1>5, <1>6, <1>7, <1>8 DEF IndInv

(* A message of a direction the parser does not read it from.              *)
LEMMA IgnorePreserves ==
  ASSUME IndInv, NEW m \in Messages, m \in unseen, unseen' = unseen \ {m},
         UNCHANGED <<known, conns, streams, session, heard, assets, lost>>
  PROVE  IndInv'
  BY DEF IndInv, TypeOK, ConnectedInv, HostInv, NameInv, VersionInv,
         CertificateInv, HostIsServer, OwnNameOnceHeard, LostOnlyAfterTls13,
         Current

----------------------------------------------------------------------------
(* A ClientHello: the session takes its name, if it has one.               *)
LEMMA ClientHelloPreserves == ASSUME IndInv, ParseClientHello PROVE IndInv'
<1> USE DEF ParseClientHello
<1>1. CASE ServerToClient("toServer")
  BY <1>1, IgnorePreserves DEF Messages
<1>2. CASE ~ServerToClient("toServer")
  <2> DEFINE new  == {WithSNI(s) : s \in session}
             h    == Current.sni # NoName
             none == {}
  <2>1. conns # <<>> /\ session # {}
    BY DEF IndInv, ConnectedInv
  <2>2. Current \in Connections
    BY <2>1, CurrentIsAConnection DEF IndInv
  <2>3. \A s \in session : /\ WithSNI(s) \in Sessions
                           /\ WithSNI(s).serverIP = s.serverIP
                           /\ WithSNI(s).isTLS13 = s.isTLS13
                           /\ h => WithSNI(s).sni = Current.sni
    BY <2>2 DEF WithSNI, Sessions, Connections, IndInv, TypeOK
  <2>4. /\ new \in SUBSET Sessions /\ new # {}
        /\ h => \A s \in new : s.sni = Current.sni
    BY <2>1, <2>3
  <2>5. \A x, y \in new : x = y
    BY DEF IndInv, TypeOK
  <2>6. known = {"server"} => \A s \in new : s.serverIP = "server"
    BY <2>3 DEF IndInv, HostInv
  <2>7. \A s \in new :
          s.isTLS13 => \E i \in 1 .. Len(conns) : conns[i].version = "1.3"
    BY <2>3 DEF IndInv, VersionInv
  <2>8. /\ session' = new /\ heard' = h /\ lost' = lost \union none
        /\ unseen' = unseen \ {"ClientHello"}
        /\ assets' = assets \union {Asset("ClientHello", s, h) : s \in new}
        /\ UNCHANGED <<known, conns, streams>>
    BY <1>2
  <2>9. "ClientHello" \in Messages /\ "ClientHello" \in unseen
    BY DEF Messages
  <2>10. /\ none \in SUBSET 1 .. Len(conns) /\ new \in SUBSET new
         /\ \A n \in none : \E i \in 1 .. n - 1 : conns[i].version = "1.3"
         /\ h \in BOOLEAN
    OBVIOUS
  <2> HIDE DEF new, h, none, ParseClientHello
  <2> QED
    BY <2>4, <2>5, <2>6, <2>7, <2>8, <2>9, <2>10, ParsePreserves
<1> QED
  BY <1>1, <1>2

(* A ServerHello: the session is marked if it selects TLS 1.3.             *)
LEMMA ServerHelloPreserves == ASSUME IndInv, ParseServerHello PROVE IndInv'
<1> USE DEF ParseServerHello
<1>1. CASE ~ServerToClient("toClient")
  BY <1>1, IgnorePreserves DEF Messages
<1>2. CASE ServerToClient("toClient")
  <2> DEFINE new  == {WithTLS13(s) : s \in session}
             none == {}
  <2>1. conns # <<>> /\ session # {}
    BY DEF IndInv, ConnectedInv
  <2>2. /\ Current = conns[Len(conns)]
        /\ Len(conns) \in 1 .. Len(conns)
    BY <2>1, CurrentIsAConnection DEF IndInv
  <2>3. \A s \in session : /\ WithTLS13(s) \in Sessions
                           /\ WithTLS13(s).serverIP = s.serverIP
                           /\ WithTLS13(s).sni = s.sni
                           /\ WithTLS13(s).isTLS13
                                => s.isTLS13 \/ Current.version = "1.3"
    BY DEF WithTLS13, Sessions, IndInv, TypeOK
  <2>4. new \in SUBSET Sessions /\ new # {}
    BY <2>1, <2>3
  <2>5. \A x, y \in new : x = y
    BY DEF IndInv, TypeOK
  <2>6. known = {"server"} => \A s \in new : s.serverIP = "server"
    BY <2>3 DEF IndInv, HostInv
  <2>7. \A s \in new :
          s.isTLS13 => \E i \in 1 .. Len(conns) : conns[i].version = "1.3"
    <3> SUFFICES ASSUME NEW s \in session, WithTLS13(s).isTLS13
                 PROVE  \E i \in 1 .. Len(conns) : conns[i].version = "1.3"
      OBVIOUS
    <3>1. CASE s.isTLS13
      BY <3>1 DEF IndInv, VersionInv
    <3>2. CASE Current.version = "1.3"
      BY <3>2, <2>2
    <3> QED
      BY <3>1, <3>2, <2>3
  <2>8. heard => new # {} /\ \A s \in new : s.sni = Current.sni
    BY <2>3, <2>4 DEF IndInv, NameInv
  <2>9. /\ session' = new /\ heard' = heard /\ lost' = lost \union none
        /\ unseen' = unseen \ {"ServerHello"}
        /\ assets' = assets \union {Asset("ServerHello", s, heard) : s \in new}
        /\ UNCHANGED <<known, conns, streams>>
    BY <1>2
  <2>10. "ServerHello" \in Messages /\ "ServerHello" \in unseen
    BY DEF Messages
  <2>11. /\ none \in SUBSET 1 .. Len(conns) /\ new \in SUBSET new
         /\ \A n \in none : \E i \in 1 .. n - 1 : conns[i].version = "1.3"
         /\ heard \in BOOLEAN
    BY DEF IndInv, TypeOK
  <2> HIDE DEF new, none, ParseServerHello
  <2> QED
    BY <2>4, <2>5, <2>6, <2>7, <2>8, <2>9, <2>10, <2>11, ParsePreserves
<1> QED
  BY <1>1, <1>2

(* A Certificate: lost if the session is marked TLS 1.3, which another     *)
(* connection than this one, of TLS 1.2, must have done.                   *)
LEMMA CertificatePreserves == ASSUME IndInv, ParseCertificate PROVE IndInv'
<1> USE DEF ParseCertificate
<1>1. CASE ~ServerToClient("toClient")
  BY <1>1, IgnorePreserves DEF Messages
<1>2. CASE ServerToClient("toClient")
  <2> DEFINE read == {s \in session : ~s.isTLS13}
             none == {Len(conns) : s \in session \ read}
  <2>1. conns # <<>> /\ session # {} /\ Current.version = "1.2"
    BY DEF IndInv, ConnectedInv, CertificateInv
  <2>2. Current = conns[Len(conns)] /\ Len(conns) \in Nat \ {0}
    BY <2>1, CurrentIsAConnection DEF IndInv
  <2>3. none \in SUBSET 1 .. Len(conns)
    BY <2>2
  <2>4. \A n \in none : \E i \in 1 .. n - 1 : conns[i].version = "1.3"
    <3> SUFFICES ASSUME NEW s \in session, s.isTLS13
                 PROVE  \E i \in 1 .. Len(conns) - 1 : conns[i].version = "1.3"
      OBVIOUS
    <3>1. PICK i \in 1 .. Len(conns) : conns[i].version = "1.3"
      BY DEF IndInv, VersionInv
    <3>2. i # Len(conns)
      BY <3>1, <2>1, <2>2
    <3> QED
      BY <3>1, <3>2, <2>2
  <2>5. /\ session' = session /\ heard' = heard /\ lost' = lost \union none
        /\ unseen' = unseen \ {"Certificate"}
        /\ assets' = assets \union {Asset("Certificate", s, heard) : s \in read}
        /\ UNCHANGED <<known, conns, streams>>
    BY <1>2
  <2>6. /\ session \in SUBSET Sessions /\ \A x, y \in session : x = y
        /\ heard \in BOOLEAN /\ read \in SUBSET session
        /\ "Certificate" \in Messages /\ "Certificate" \in unseen
    BY DEF IndInv, TypeOK, Messages
  <2>7. known = {"server"} => \A s \in session : s.serverIP = "server"
    BY DEF IndInv, HostInv
  <2>8. heard => session # {} /\ \A s \in session : s.sni = Current.sni
    BY <2>1 DEF IndInv, NameInv
  <2>9. \A s \in session :
          s.isTLS13 => \E i \in 1 .. Len(conns) : conns[i].version = "1.3"
    BY DEF IndInv, VersionInv
  <2> HIDE DEF read, none, ParseCertificate
  <2> QED
    BY <2>3, <2>4, <2>5, <2>6, <2>7, <2>8, <2>9, ParsePreserves
<1> QED
  BY <1>1, <1>2

----------------------------------------------------------------------------
(* The invariant holds in every state.                                     *)
THEOREM Invariance == Spec => []IndInv
<1>1. Init => IndInv
  BY InitEstablishes
<1>2. IndInv /\ [Next]_vars => IndInv'
  <2> SUFFICES ASSUME IndInv, [Next]_vars PROVE IndInv'
    OBVIOUS
  <2>1. CASE \E c \in Connections : Connect(c)
    BY <2>1, ConnectPreserves
  <2>2. CASE \E m \in Messages : Miss(m)
    BY <2>2, MissPreserves
  <2>3. CASE \E d \in Directions : New(d)
    BY <2>3, NewPreserves
  <2>4. CASE ParseClientHello
    BY <2>4, ClientHelloPreserves
  <2>5. CASE ParseServerHello
    BY <2>5, ServerHelloPreserves
  <2>6. CASE ParseCertificate
    BY <2>6, CertificatePreserves
  <2>7. CASE UNCHANGED vars
    BY <2>7 DEF vars, IndInv, TypeOK, ConnectedInv, HostInv, NameInv,
                VersionInv, CertificateInv, HostIsServer, OwnNameOnceHeard,
                LostOnlyAfterTls13, Current
  <2> QED
    BY <2>1, <2>2, <2>3, <2>4, <2>5, <2>6, <2>7 DEF Next
<1> QED
  BY <1>1, <1>2, PTL DEF Spec

(* Type correctness; one session at most under the key.                    *)
THEOREM TypeInvariant == Spec => []TypeOK
  BY Invariance, PTL DEF IndInv

(* Assets are attributed to the server if its port alone is known, through *)
(* any number of connections (capture.go:119-129).                         *)
THEOREM HostIsAlwaysServer == Spec => []HostIsServer
  BY Invariance, PTL DEF IndInv

(* A name that was heard in a connection labels its later assets, whatever *)
(* earlier connections left in the session (tls.go:203, 211-212).          *)
THEOREM OwnNameIsUsed == Spec => []OwnNameOnceHeard
  BY Invariance, PTL DEF IndInv

(* Certificates are lost after a TLS 1.3 connection of the pair only       *)
(* (tls.go:326-344).                                                       *)
THEOREM LostAfterTls13Only == Spec => []LostOnlyAfterTls13
  BY Invariance, PTL DEF IndInv

----------------------------------------------------------------------------
(* Induction over data. The library states it for operators; here the      *)
(* predicate is a set, and what is proved is that there is no least        *)
(* counterexample.                                                         *)

(* A set of numbers that is not empty has a least one.                     *)
LEMMA LeastNumber ==
  ASSUME NEW T \in SUBSET Nat, T # {}
  PROVE  \E x \in T : \A y \in T : x <= y
<1> DEFINE R == OpToRel(<, Nat)
<1>1. IsWellFoundedOn(R, Nat)
  BY NatLessThanWellFounded
<1>2. \A x, y \in Nat : x < y => <<x, y>> \in R
  BY DEF OpToRel
<1> HIDE DEF R
<1>3. \E x \in T : \A y \in T : ~ (<<y, x>> \in R)
  BY <1>1, WFMin
<1>4. \A x, y \in T : x \in Nat /\ y \in Nat
  OBVIOUS
<1>5. \A x, y \in T : <<y, x>> \notin R => x <= y
  BY <1>2, <1>4
<1> QED BY <1>3, <1>5

(* Induction on a size: a set T that contains each element of S if it      *)
(* contains the smaller ones contains S.                                   *)
LEMMA SizeInduction ==
  ASSUME NEW S, NEW size \in [S -> Nat], NEW T,
         \A s \in S : (\A r \in S : size[r] < size[s] => r \in T) => s \in T
  PROVE  S \subseteq T
<1> DEFINE N == {size[s] : s \in S \ T}
<1> SUFFICES ASSUME N # {} PROVE FALSE
  OBVIOUS
<1>1. N \in SUBSET Nat
  OBVIOUS
<1>2. PICK n \in N : \A m \in N : n <= m
  <2> HIDE DEF N
  <2> QED BY <1>1, LeastNumber
<1>3. PICK s \in S \ T : n = size[s]
  OBVIOUS
<1>4. \A r \in S : r \notin T => size[r] \in N /\ size[r] \in Nat
  OBVIOUS
<1>5. ASSUME NEW r \in S, size[r] < size[s] PROVE r \in T
  <2> HIDE DEF N
  <2> QED BY <1>2, <1>3, <1>4, <1>5
<1> QED BY <1>3, <1>5

(* Induction on the length of a sequence.                                  *)
LEMMA LenInduction ==
  ASSUME NEW S, NEW T,
         \A s \in Seq(S) :
           (\A r \in Seq(S) : Len(r) < Len(s) => r \in T) => s \in T
  PROVE  Seq(S) \subseteq T
<1> DEFINE Q == Seq(S)
           size == [s \in Q |-> Len(s)]
<1>1. size \in [Q -> Nat]
  BY LenProperties
<1>2. \A s \in Q : (\A r \in Q : size[r] < size[s] => r \in T) => s \in T
  OBVIOUS
<1> SUFFICES Q \subseteq T
  OBVIOUS
<1> HIDE DEF size, Q
<1> QED BY <1>1, <1>2, SizeInduction

(* A recursion over S with values in V: it stops in stop with the value    *)
(* base, and otherwise makes its value, with step, of that of the smaller  *)
(* rest.                                                                   *)
IsRecursion(S, V, stop, size, rest, base, step) ==
  /\ size \in [S -> Nat] /\ rest \in [S -> S]
  /\ base \in [S -> V] /\ step \in [S \X V -> V]
  /\ \A s \in S \ stop : size[rest[s]] < size[s]

(* f is what the recursion defines.                                        *)
IsSolution(f, S, stop, rest, base, step) ==
  \A s \in S :
    f[s] = IF s \in stop THEN base[s] ELSE step[<<s, f[rest[s]]>>]

(* There is one: it is put together of solutions up to each size. So the   *)
(* CHOOSE that a recursive function is equals its own body.                *)
LEMMA RecursionHasASolution ==
  ASSUME NEW S, NEW V, NEW stop, NEW size, NEW rest, NEW base, NEW step,
         IsRecursion(S, V, stop, size, rest, base, step)
  PROVE  \E f \in [S -> V] : IsSolution(f, S, stop, rest, base, step)
<1> USE DEF IsRecursion, IsSolution
<1> DEFINE D(n) == {s \in S : size[s] < n}
           Value(g, s) == IF s \in stop THEN base[s]
                                         ELSE step[<<s, g[rest[s]]>>]
           Solves(g, n) == /\ g \in [D(n) -> V]
                           /\ \A s \in D(n) : g[s] = Value(g, s)
<1>1. ASSUME NEW n \in Nat, NEW m \in Nat, NEW g, NEW h,
             Solves(g, n), Solves(h, m)
      PROVE  \A s \in D(n) \intersect D(m) : g[s] = h[s]
  <2> DEFINE T == {size[s] : s \in {t \in D(n) \intersect D(m) : g[t] # h[t]}}
  <2> SUFFICES ASSUME T # {} PROVE FALSE
    OBVIOUS
  <2>1. PICK x \in T : \A y \in T : x <= y
    <3> T \in SUBSET Nat
      OBVIOUS
    <3> HIDE DEF T
    <3> QED BY LeastNumber
  <2>2. PICK s \in D(n) \intersect D(m) : x = size[s] /\ g[s] # h[s]
    BY <2>1
  <2>3. s \notin stop
    BY <2>2, <1>1
  <2>4. rest[s] \in D(n) \intersect D(m) /\ size[rest[s]] < size[s]
    BY <2>3
  <2>5. size[rest[s]] \in Nat /\ size[s] \in Nat
    BY <2>4
  <2>6. g[rest[s]] = h[rest[s]]
    <3>1. g[rest[s]] # h[rest[s]] => size[rest[s]] \in T
      BY <2>4
    <3> HIDE DEF T
    <3> QED BY <2>1, <2>2, <2>4, <2>5, <3>1
  <2>7. g[s] = h[s]
    BY <2>2, <2>3, <2>6, <1>1
  <2> QED BY <2>7, <2>2
<1>2. ASSUME NEW n \in Nat PROVE \E g : Solves(g, n)
  <2> DEFINE T == {k \in Nat : ~ \E g : Solves(g, k)}
  <2> SUFFICES ASSUME T # {} PROVE FALSE
    OBVIOUS
  <2>1. PICK k \in T : \A y \in T : k <= y
    <3> T \in SUBSET Nat
      OBVIOUS
    <3> HIDE DEF T
    <3> QED BY LeastNumber
  <2>2. CASE k = 0
    <3>1. D(k) = {}
      BY <2>2
    <3>2. Solves([s \in D(k) |-> base[s]], k)
      BY <3>1
    <3> QED BY <3>2
  <2>3. CASE k # 0
    <3>1. k - 1 \in Nat /\ k - 1 \notin T
      <4>1. k \in Nat
        OBVIOUS
      <4> HIDE DEF T
      <4> QED BY <2>1, <2>3, <4>1
    <3>2. PICK g : Solves(g, k - 1)
      <4> HIDE DEF Solves
      <4> QED BY <3>1
    <3> DEFINE h == [s \in D(k) |-> Value(g, s)]
    <3>3. \A s \in D(k) \ stop : rest[s] \in D(k - 1) /\ rest[s] \in D(k)
      BY <3>1
    <3>4. \A s \in D(k - 1) : s \in D(k) /\ h[s] = g[s]
      BY <3>2, <3>1
    <3>5. \A s \in D(k) : h[s] \in V
      BY <3>2, <3>3
    <3>6. \A s \in D(k) : h[s] = Value(h, s)
      BY <3>3, <3>4
    <3>7. Solves(h, k)
      BY <3>5, <3>6
    <3> QED BY <3>7
  <2> QED BY <2>2, <2>3
<1> DEFINE sol == [n \in Nat |-> CHOOSE g : Solves(g, n)]
           f == [s \in S |-> sol[size[s] + 1][s]]
<1>3. \A n \in Nat : Solves(sol[n], n)
  BY <1>2
<1> HIDE DEF sol
<1>4. \A s \in S : /\ size[s] \in Nat /\ size[s] + 1 \in Nat
                   /\ s \in D(size[s] + 1)
  OBVIOUS
<1>5. \A s \in S : f[s] \in V
  BY <1>3, <1>4
<1>6. \A s \in S : f[s] = Value(f, s)
  <2> SUFFICES ASSUME NEW s \in S PROVE f[s] = Value(f, s)
    OBVIOUS
  <2>1. f[s] = Value(sol[size[s] + 1], s)
    BY <1>3, <1>4
  <2>2. CASE s \in stop
    BY <2>1, <2>2
  <2>3. CASE s \notin stop
    <3>1. /\ rest[s] \in S /\ size[rest[s]] < size[s]
          /\ rest[s] \in D(size[s] + 1)
      BY <2>3
    <3>2. sol[size[s] + 1][rest[s]] = f[rest[s]]
      <4> HIDE DEF D, Solves
      <4>1. sol[size[rest[s]] + 1][rest[s]] = sol[size[s] + 1][rest[s]]
        BY <1>1, <1>3, <1>4, <3>1
      <4> QED BY <3>1, <4>1
    <3> QED BY <2>1, <2>3, <3>2
  <2> QED BY <2>2, <2>3
<1> QED
  <2> HIDE DEF f
  <2>1. f \in [S -> V]
    BY <1>5 DEF f
  <2> QED BY <2>1, <1>6

----------------------------------------------------------------------------
(* The records of a stream.                                                *)

(* Lengths and units of data are numbers.                                  *)
LEMMA BytesLength ==
  ASSUME NEW data \in Bytes
  PROVE  /\ Len(data) \in Nat
         /\ \A i \in 1 .. Len(data) : data[i] \in Nat
BY LenProperties, ElementOfSeq DEF Bytes

(* Behind a complete header and body there is less data.                   *)
LEMMA CutBytes ==
  ASSUME NEW data \in Bytes, Complete(data)
  PROVE  /\ BodyLen(data) \in Nat
         /\ Body(data) \in Bytes
         /\ SubSeq(data, 1, Header + BodyLen(data)) \in Bytes
         /\ Rest(data) \in Bytes
         /\ Len(Rest(data)) = Len(data) - Header - BodyLen(data)
         /\ Len(Rest(data)) < Len(data)
<1> DEFINE h == Header + BodyLen(data)
<1>1. /\ Len(data) \in Nat /\ \A i \in 1 .. Len(data) : data[i] \in Nat
      /\ Header = 2 /\ 2 <= Len(data) /\ BodyLen(data) \in Nat
      /\ h \in Nat /\ h <= Len(data)
  BY BytesLength DEF Complete, BodyLen, Header
<1> HIDE DEF h
<1>2. /\ SubSeq(data, 1, h) \in Bytes
      /\ SubSeq(data, Header + 1, h) \in Bytes
  BY <1>1, SubSeqProperties DEF Bytes
<1>3. /\ SubSeq(data, h + 1, Len(data)) \in Bytes
      /\ Len(SubSeq(data, h + 1, Len(data))) = Len(data) - h
  <2>1. h + 1 \in Int /\ \A i \in h + 1 .. Len(data) : data[i] \in Nat
    BY <1>1
  <2>2. /\ SubSeq(data, h + 1, Len(data)) \in Seq(Nat)
        /\ Len(SubSeq(data, h + 1, Len(data))) =
             IF h + 1 <= Len(data) THEN Len(data) - (h + 1) + 1 ELSE 0
    BY <1>1, <2>1, SubSeqProperties
  <2> QED BY <1>1, <2>2 DEF Bytes
<1> QED BY <1>1, <1>2, <1>3 DEF h, Body, Rest

(* Induction on the length of data.                                        *)
LEMMA BytesInduction ==
  ASSUME NEW T,
         \A d \in Bytes :
           (\A r \in Bytes : Len(r) < Len(d) => r \in T) => d \in T
  PROVE  Bytes \subseteq T
BY LenInduction DEF Bytes

(* The loop of parseHandshakeMessages ends: HandshakeMessages has a value  *)
(* for all data, and its definition holds of it (tls.go:119-130).          *)
LEMMA HandshakeMessagesDef ==
  /\ HandshakeMessages \in [Bytes -> Seq(Bytes)]
  /\ \A data \in Bytes :
       HandshakeMessages[data] =
         IF ~Complete(data) THEN <<>>
         ELSE <<SubSeq(data, 1, Header + BodyLen(data))>>
                \o HandshakeMessages[Rest(data)]
<1> DEFINE stop == {d \in Bytes : ~Complete(d)}
           size == [d \in Bytes |-> Len(d)]
           rest == [d \in Bytes |-> IF d \in stop THEN d ELSE Rest(d)]
           base == [d \in Bytes |-> <<>>]
           step == [x \in Bytes \X Seq(Bytes) |->
                      IF x[1] \in stop THEN <<>>
                      ELSE <<SubSeq(x[1], 1, Header + BodyLen(x[1]))>> \o x[2]]
           F(g) == [d \in Bytes |->
                      IF ~Complete(d) THEN <<>>
                      ELSE <<SubSeq(d, 1, Header + BodyLen(d))>> \o g[Rest(d)]]
<1>1. size \in [Bytes -> Nat]
  BY BytesLength
<1>2. rest \in [Bytes -> Bytes]
  BY CutBytes
<1>3. base \in [Bytes -> Seq(Bytes)]
  BY EmptySeq
<1>4. step \in [Bytes \X Seq(Bytes) -> Seq(Bytes)]
  BY CutBytes, EmptySeq, ConcatProperties
<1>5. \A d \in Bytes \ stop : size[rest[d]] < size[d]
  BY CutBytes
<1>6. IsRecursion(Bytes, Seq(Bytes), stop, size, rest, base, step)
  <2> HIDE DEF stop, size, rest, base, step
  <2> QED BY <1>1, <1>2, <1>3, <1>4, <1>5 DEF IsRecursion
<1>7. PICK f \in [Bytes -> Seq(Bytes)] :
        IsSolution(f, Bytes, stop, rest, base, step)
  <2> HIDE DEF stop, size, rest, base, step
  <2> QED BY <1>6, RecursionHasASolution
<1>8. f = F(f)
  <2> SUFFICES ASSUME NEW d \in Bytes PROVE f[d] = F(f)[d]
    OBVIOUS
  <2> QED BY <1>7, CutBytes DEF IsSolution
<1>9. HandshakeMessages = CHOOSE g : g = F(g)
  BY DEF HandshakeMessages
<1> HIDE DEF F
<1>10. HandshakeMessages = F(HandshakeMessages)
  BY <1>8, <1>9
<1>11. \A d \in Bytes :
         HandshakeMessages[d] =
           IF ~Complete(d) THEN <<>>
           ELSE <<SubSeq(d, 1, Header + BodyLen(d))>>
                  \o HandshakeMessages[Rest(d)]
  <2> DEFINE h == HandshakeMessages
  <2>1. h = F(h)
    BY <1>10
  <2> HIDE DEF h
  <2>2. \A d \in Bytes : h[d] = F(h)[d]
    BY <2>1
  <2> QED BY <2>2 DEF F, h
<1>12. HandshakeMessages \in [Bytes -> Seq(Bytes)]
  <2> DEFINE T == {d \in Bytes : HandshakeMessages[d] \in Seq(Bytes)}
  <2>1. ASSUME NEW d \in Bytes, \A r \in Bytes : Len(r) < Len(d) => r \in T
        PROVE  d \in T
    <3>1. CASE ~Complete(d)
      BY <3>1, <1>11, EmptySeq
    <3>2. CASE Complete(d)
      <4> DEFINE first == <<SubSeq(d, 1, Header + BodyLen(d))>>
                 others == HandshakeMessages[Rest(d)]
      <4>1. first \in Seq(Bytes) /\ others \in Seq(Bytes)
        BY <2>1, <3>2, CutBytes
      <4>2. first \o others \in Seq(Bytes)
        BY <4>1, ConcatProperties
      <4> QED BY <3>2, <4>2, <1>11
    <3> QED BY <3>1, <3>2
  <2>2. Bytes \subseteq T
    <3> HIDE DEF T
    <3> QED BY <2>1, BytesInduction
  <2> DEFINE h == HandshakeMessages
  <2>3. \A d \in Bytes : h[d] \in Seq(Bytes)
    BY <2>2
  <2>4. h = F(h)
    BY <1>10
  <2> HIDE DEF h
  <2>5. h = [d \in Bytes |-> F(h)[d]]
    BY <2>4 DEF F
  <2>6. h \in [Bytes -> Seq(Bytes)]
    BY <2>3, <2>5
  <2> QED BY <2>6 DEF h
<1> QED BY <1>11, <1>12

(* What parseTLSStream returns.                                            *)
Parsed == [found : Seq(Bytes), buf : Bytes, corrupt : BOOLEAN]

(* The messages of a complete record.                                      *)
LEMMA FoundIsMessages ==
  ASSUME NEW data \in Bytes, Complete(data)
  PROVE  Found(data) \in Seq(Bytes)
BY CutBytes, HandshakeMessagesDef, EmptySeq DEF Found

(* The loop of parseTLSStream ends: ParseTLSStream has a value for all     *)
(* data, and its definition holds of it (tls.go:97-116).                   *)
LEMMA ParseTLSStreamDef ==
  \A data \in Bytes :
    /\ ParseTLSStream[data] \in Parsed
    /\ ParseTLSStream[data] =
         IF Corrupt(data) THEN
           [found |-> <<>>, buf |-> <<>>, corrupt |-> TRUE]
         ELSE IF ~Complete(data) THEN
           [found |-> <<>>, buf |-> data, corrupt |-> FALSE]
         ELSE
           [ParseTLSStream[Rest(data)] EXCEPT !.found = Found(data) \o @]
<1> DEFINE stop == {d \in Bytes : Corrupt(d) \/ ~Complete(d)}
           size == [d \in Bytes |-> Len(d)]
           rest == [d \in Bytes |-> IF d \in stop THEN d ELSE Rest(d)]
           base == [d \in Bytes |->
                      IF Corrupt(d)
                      THEN [found |-> <<>>, buf |-> <<>>, corrupt |-> TRUE]
                      ELSE [found |-> <<>>, buf |-> d, corrupt |-> FALSE]]
           step == [x \in Bytes \X Parsed |->
                      IF x[1] \in stop THEN x[2]
                      ELSE [x[2] EXCEPT !.found = Found(x[1]) \o @]]
           F(g) == [d \in Bytes |->
                      IF Corrupt(d) THEN
                        [found |-> <<>>, buf |-> <<>>, corrupt |-> TRUE]
                      ELSE IF ~Complete(d) THEN
                        [found |-> <<>>, buf |-> Incomplete(d), corrupt |-> FALSE]
                      ELSE [g[Rest(d)] EXCEPT !.found = Found(d) \o @]]
<1>1. size \in [Bytes -> Nat]
  BY BytesLength
<1>2. rest \in [Bytes -> Bytes]
  BY CutBytes
<1>3. base \in [Bytes -> Parsed]
  BY EmptySeq DEF Parsed, Bytes
<1>4. step \in [Bytes \X Parsed -> Parsed]
  <2>1. ASSUME NEW p \in Parsed, NEW d \in Bytes, d \notin stop
        PROVE  [p EXCEPT !.found = Found(d) \o @] \in Parsed
    <3>1. Found(d) \o p.found \in Seq(Bytes)
      BY <2>1, FoundIsMessages, ConcatProperties DEF Parsed
    <3> QED BY <3>1 DEF Parsed
  <2> HIDE DEF stop
  <2> QED BY <2>1
<1>5. \A d \in Bytes \ stop : size[rest[d]] < size[d]
  BY CutBytes
<1>6. IsRecursion(Bytes, Parsed, stop, size, rest, base, step)
  <2> HIDE DEF stop, size, rest, base, step
  <2> QED BY <1>1, <1>2, <1>3, <1>4, <1>5 DEF IsRecursion
<1>7. PICK f \in [Bytes -> Parsed] :
        IsSolution(f, Bytes, stop, rest, base, step)
  <2> HIDE DEF stop, size, rest, base, step
  <2> QED BY <1>6, RecursionHasASolution
<1>8. f = F(f)
  <2> SUFFICES ASSUME NEW d \in Bytes PROVE f[d] = F(f)[d]
    OBVIOUS
  <2> QED BY <1>7, CutBytes DEF IsSolution, Incomplete
<1> DEFINE h == ParseTLSStream
<1>9. h = CHOOSE g : g = F(g)
  BY DEF ParseTLSStream
<1> HIDE DEF F, h
<1>10. h = F(h)
  BY <1>8, <1>9
<1>11. \A d \in Bytes :
         h[d] = IF Corrupt(d) THEN
                  [found |-> <<>>, buf |-> <<>>, corrupt |-> TRUE]
                ELSE IF ~Complete(d) THEN
                  [found |-> <<>>, buf |-> d, corrupt |-> FALSE]
                ELSE [h[Rest(d)] EXCEPT !.found = Found(d) \o @]
  <2>1. \A d \in Bytes : h[d] = F(h)[d]
    BY <1>10
  <2> QED BY <2>1 DEF F, Incomplete
<1>12. \A d \in Bytes : h[d] \in Parsed
  <2> DEFINE T == {d \in Bytes : h[d] \in Parsed}
  <2>1. ASSUME NEW d \in Bytes, \A r \in Bytes : Len(r) < Len(d) => r \in T
        PROVE  d \in T
    <3>1. CASE d \in stop
      <4>1. <<>> \in Seq(Bytes) /\ <<>> \in Bytes
        BY EmptySeq DEF Bytes
      <4>2. CASE Corrupt(d)
        <5>1. h[d] = [found |-> <<>>, buf |-> <<>>, corrupt |-> TRUE]
          BY <4>2, <1>11
        <5>2. h[d] \in Parsed
          BY <4>1, <5>1 DEF Parsed
        <5> QED BY <5>2
      <4>3. CASE ~Corrupt(d) /\ ~Complete(d)
        <5>1. h[d] = [found |-> <<>>, buf |-> d, corrupt |-> FALSE]
          BY <4>3, <1>11
        <5>2. h[d] \in Parsed
          BY <4>1, <5>1 DEF Parsed
        <5> QED BY <5>2
      <4> QED BY <3>1, <4>2, <4>3
    <3>2. CASE d \notin stop
      <4>1. ~Corrupt(d) /\ Complete(d) /\ h[Rest(d)] \in Parsed
        BY <2>1, <3>2, CutBytes
      <4>2. h[d] = [h[Rest(d)] EXCEPT !.found = Found(d) \o @]
        BY <4>1, <1>11
      <4>3. Found(d) \o h[Rest(d)].found \in Seq(Bytes)
        BY <4>1, FoundIsMessages, ConcatProperties DEF Parsed
      <4>4. h[d] \in Parsed
        BY <4>1, <4>2, <4>3 DEF Parsed
      <4> QED BY <4>4
    <3> QED BY <3>1, <3>2
  <2>2. Bytes \subseteq T
    <3> HIDE DEF T
    <3> QED BY <2>1, BytesInduction
  <2> QED BY <2>2
<1> QED BY <1>11, <1>12 DEF h

(* Its definition, case by case: a length that no record has;              *)
LEMMA ParseCorrupt ==
  ASSUME NEW data \in Bytes, Corrupt(data)
  PROVE  /\ ParseTLSStream[data].buf = <<>>
         /\ ParseTLSStream[data].corrupt = TRUE
<1>1. ParseTLSStream[data] = [found |-> <<>>, buf |-> <<>>, corrupt |-> TRUE]
  BY ParseTLSStreamDef
<1> QED BY <1>1

(* the data ends before the record does;                                   *)
LEMMA ParseIncomplete ==
  ASSUME NEW data \in Bytes, ~Corrupt(data), ~Complete(data)
  PROVE  /\ ParseTLSStream[data].found = <<>>
         /\ ParseTLSStream[data].buf = data
<1>1. ParseTLSStream[data] = [found |-> <<>>, buf |-> data, corrupt |-> FALSE]
  BY ParseTLSStreamDef
<1> QED BY <1>1

(* a record is taken off the front.                                        *)
LEMMA ParseComplete ==
  ASSUME NEW data \in Bytes, ~Corrupt(data), Complete(data)
  PROVE  /\ ParseTLSStream[data].found =
              Found(data) \o ParseTLSStream[Rest(data)].found
         /\ ParseTLSStream[data].buf = ParseTLSStream[Rest(data)].buf
         /\ ParseTLSStream[data].corrupt = ParseTLSStream[Rest(data)].corrupt
<1> DEFINE h == ParseTLSStream
<1>1. h[Rest(data)] \in Parsed
  BY CutBytes, ParseTLSStreamDef
<1>2. h[data] = [h[Rest(data)] EXCEPT !.found = Found(data) \o @]
  BY ParseTLSStreamDef
<1> HIDE DEF h
<1>3. /\ h[data].found = Found(data) \o h[Rest(data)].found
      /\ h[data].buf = h[Rest(data)].buf
      /\ h[data].corrupt = h[Rest(data)].corrupt
  BY <1>1, <1>2 DEF Parsed
<1> QED BY <1>3 DEF h

(* The types of the three results.                                         *)
LEMMA ParsedFields ==
  ASSUME NEW data \in Bytes
  PROVE  /\ ParseTLSStream[data].found \in Seq(Bytes)
         /\ ParseTLSStream[data].buf \in Bytes
         /\ ParseTLSStream[data].corrupt \in BOOLEAN
BY ParseTLSStreamDef DEF Parsed

(* Data behind data.                                                       *)
LEMMA ConcatBytes ==
  ASSUME NEW data \in Bytes, NEW more \in Bytes
  PROVE  /\ data \o more \in Bytes
         /\ Len(data) \in Nat /\ Len(more) \in Nat
         /\ Len(data \o more) = Len(data) + Len(more)
         /\ \A i \in 1 .. Len(data) + Len(more) :
              (data \o more)[i] =
                IF i <= Len(data) THEN data[i] ELSE more[i - Len(data)]
         /\ \A i \in 1 .. Len(data) : (data \o more)[i] = data[i]
         /\ \A i \in 1 .. Len(more) : (data \o more)[Len(data) + i] = more[i]
<1> DEFINE all == data \o more
<1>1. Len(data) \in Nat /\ Len(more) \in Nat
  BY BytesLength
<1>2. /\ all \in Bytes /\ Len(all) = Len(data) + Len(more)
      /\ \A i \in 1 .. Len(data) + Len(more) :
           all[i] = IF i <= Len(data) THEN data[i] ELSE more[i - Len(data)]
  BY ConcatProperties DEF Bytes
<1> HIDE DEF all
<1>3. \A i \in 1 .. Len(data) :
        /\ i \in 1 .. Len(data) + Len(more) /\ i <= Len(data)
  BY <1>1
<1>4. \A i \in 1 .. Len(more) :
        /\ Len(data) + i \in 1 .. Len(data) + Len(more)
        /\ ~(Len(data) + i <= Len(data)) /\ Len(data) + i - Len(data) = i
  BY <1>1
<1>5. /\ \A i \in 1 .. Len(data) : all[i] = data[i]
      /\ \A i \in 1 .. Len(more) : all[Len(data) + i] = more[i]
  BY <1>2, <1>3, <1>4
<1> QED BY <1>1, <1>2, <1>5 DEF all

(* The elements of a rest.                                                 *)
LEMMA SuffixElements ==
  ASSUME NEW s \in Bytes, NEW k \in Nat
  PROVE  \A i \in 1 .. Len(s) - k : SubSeq(s, k + 1, Len(s))[i] = s[k + i]
<1>1. Len(s) \in Nat /\ \A i \in k + 1 .. Len(s) : s[i] \in Nat
  BY BytesLength
<1>2. k + 1 \in Int /\ Len(s) \in Int
  BY <1>1
<1>3. \A i \in 1 .. Len(s) - (k + 1) + 1 :
        SubSeq(s, k + 1, Len(s))[i] = s[k + 1 + i - 1]
  BY <1>1, <1>2, SubSeqProperties
<1> DEFINE n == Len(s)
           rest == SubSeq(s, k + 1, n)
<1> SUFFICES ASSUME NEW i \in 1 .. n - k PROVE rest[i] = s[k + i]
  OBVIOUS
<1>4. i \in 1 .. n - (k + 1) + 1 /\ k + 1 + i - 1 = k + i
  BY <1>1
<1>5. rest[i] = s[k + 1 + i - 1]
  BY <1>3, <1>4
<1> HIDE DEF rest
<1> QED BY <1>4, <1>5

(* Data that follows does not change the record at the front.              *)
LEMMA CutOfConcat ==
  ASSUME NEW data \in Bytes, NEW more \in Bytes, Complete(data)
  PROVE  /\ Complete(data \o more)
         /\ BodyLen(data \o more) = BodyLen(data)
         /\ Body(data \o more) = Body(data)
         /\ Found(data \o more) = Found(data)
         /\ Rest(data \o more) = Rest(data) \o more
<1> DEFINE all == data \o more
           h == Header + BodyLen(data)
<1>1. /\ Len(data) \in Nat /\ Len(more) \in Nat /\ Header = 2
      /\ BodyLen(data) \in Nat /\ h \in Nat /\ 2 <= h /\ h <= Len(data)
  BY BytesLength, CutBytes DEF Header, Complete
<1>2. /\ all \in Bytes /\ Len(all) = Len(data) + Len(more)
      /\ \A i \in 1 .. Len(data) : all[i] = data[i]
      /\ \A i \in 1 .. Len(more) : all[Len(data) + i] = more[i]
  BY ConcatBytes
<1>3. BodyLen(all) = BodyLen(data) /\ all[1] = data[1]
  <2> HIDE DEF all
  <2>1. all[1] = data[1] /\ all[2] = data[2]
    BY <1>1, <1>2
  <2> QED BY <2>1 DEF BodyLen
<1>4. Complete(all)
  BY <1>1, <1>2, <1>3 DEF Complete
<1> HIDE DEF h
<1>5. Body(all) = Body(data)
  <2>1. CASE Header + 1 <= h
    <3>1. Header + 1 \in 1 .. Len(data) /\ h \in 1 .. Len(data)
      BY <1>1, <2>1
    <3>2. SubSeq(all, Header + 1, h) = SubSeq(data, Header + 1, h)
      BY <3>1, SubSeqOfConcat1 DEF Bytes
    <3> QED BY <1>3, <3>2 DEF Body, h
  <2>2. CASE ~(Header + 1 <= h)
    <3>1. Header + 1 \in Int /\ h \in Int /\ h < Header + 1
      BY <1>1, <2>2
    <3>2. SubSeq(all, Header + 1, h) = <<>> /\ SubSeq(data, Header + 1, h) = <<>>
      BY <3>1, SubSeqEmpty
    <3> QED BY <1>3, <3>2 DEF Body, h
  <2> QED BY <2>1, <2>2
<1>6. Rest(all) = Rest(data) \o more
  <2>1. /\ Rest(data) \in Bytes /\ Len(Rest(data)) = Len(data) - h
        /\ Rest(all) \in Bytes /\ Len(Rest(all)) = Len(all) - h
    <3> HIDE DEF all
    <3>1. /\ Rest(data) \in Bytes
          /\ Len(Rest(data)) = Len(data) - Header - BodyLen(data)
      BY CutBytes
    <3>2. /\ Rest(all) \in Bytes
          /\ Len(Rest(all)) = Len(all) - Header - BodyLen(all)
      BY <1>2, <1>4, CutBytes
    <3> QED BY <1>1, <1>2, <1>3, <3>1, <3>2 DEF h
  <2>2. /\ Rest(data) \o more \in Bytes
        /\ Len(Rest(data) \o more) = Len(data) - h + Len(more)
        /\ \A i \in 1 .. Len(data) - h + Len(more) :
             (Rest(data) \o more)[i] =
               IF i <= Len(data) - h THEN Rest(data)[i]
                                     ELSE more[i - (Len(data) - h)]
    <3> DEFINE r == Rest(data)
    <3>1. r \in Bytes /\ Len(r) = Len(data) - h
      BY <2>1
    <3> HIDE DEF r
    <3>2. /\ r \o more \in Bytes /\ Len(r \o more) = Len(r) + Len(more)
          /\ \A i \in 1 .. Len(r) + Len(more) :
               (r \o more)[i] = IF i <= Len(r) THEN r[i] ELSE more[i - Len(r)]
      BY <3>1, ConcatBytes
    <3> QED BY <3>1, <3>2 DEF r
  <2>3. \A i \in 1 .. Len(data) - h : Rest(data)[i] = data[h + i]
    <3>1. Rest(data) = SubSeq(data, h + 1, Len(data))
      BY DEF Rest, h
    <3> QED BY <1>1, <3>1, SuffixElements
  <2>4. \A i \in 1 .. Len(all) - h : Rest(all)[i] = all[h + i]
    <3> HIDE DEF all
    <3>1. Rest(all) = SubSeq(all, h + 1, Len(all))
      BY <1>3 DEF Rest, h
    <3> QED BY <1>1, <1>2, <3>1, SuffixElements
  <2> HIDE DEF all
  <2>5. \A i \in 1 .. Len(all) - h : Rest(all)[i] = (Rest(data) \o more)[i]
    <3> SUFFICES ASSUME NEW i \in 1 .. Len(all) - h
                 PROVE  Rest(all)[i] = (Rest(data) \o more)[i]
      OBVIOUS
    <3>1. CASE i <= Len(data) - h
      <4>1. /\ i \in 1 .. Len(data) - h /\ h + i \in 1 .. Len(data)
            /\ i \in 1 .. Len(data) - h + Len(more)
        BY <1>1, <1>2, <3>1
      <4>2. Rest(all)[i] = data[h + i]
        BY <1>2, <2>4, <4>1
      <4>3. (Rest(data) \o more)[i] = data[h + i]
        BY <2>2, <2>3, <3>1, <4>1
      <4> QED BY <4>2, <4>3
    <3>2. CASE ~(i <= Len(data) - h)
      <4>1. /\ i - (Len(data) - h) \in 1 .. Len(more)
            /\ h + i = Len(data) + (i - (Len(data) - h))
            /\ i \in 1 .. Len(data) - h + Len(more)
        BY <1>1, <1>2, <3>2
      <4> QED BY <4>1, <1>2, <2>2, <2>4, <3>2
    <3> QED BY <3>1, <3>2
  <2>6. Len(Rest(all)) = Len(Rest(data) \o more)
    BY <1>1, <1>2, <2>1, <2>2
  <2> QED BY <2>1, <2>2, <2>5, <2>6, SeqEqual DEF Bytes
<1> QED BY <1>3, <1>4, <1>5, <1>6 DEF Found

(* The cuts are invisible, whatever the data and its length: if a stream   *)
(* that ends in data goes on with more, then what parseTLSStream found in  *)
(* data, followed by what it finds in the kept bytes and more, is what it  *)
(* would have found had all come at once, and it keeps the same bytes;     *)
(* this unless the whole has a corrupt header (tls.go:97-123,              *)
(* capture.go:150-154).                                                    *)
THEOREM AnyCutIsInvisible ==
  \A data \in Bytes : \A more \in Bytes :
    ~ParseTLSStream[data \o more].corrupt =>
      /\ ParseTLSStream[data \o more].found =
           ParseTLSStream[data].found
             \o ParseTLSStream[ParseTLSStream[data].buf \o more].found
      /\ ParseTLSStream[data \o more].buf =
           ParseTLSStream[ParseTLSStream[data].buf \o more].buf
<1> DEFINE P == ParseTLSStream
           Joins(d, e) ==
             ~P[d \o e].corrupt =>
               /\ P[d \o e].found = P[d].found \o P[P[d].buf \o e].found
               /\ P[d \o e].buf = P[P[d].buf \o e].buf
           T == {d \in Bytes : \A e \in Bytes : Joins(d, e)}
<1>1. ASSUME NEW d \in Bytes, \A r \in Bytes : Len(r) < Len(d) => r \in T
      PROVE  d \in T
  <2> SUFFICES ASSUME NEW e \in Bytes PROVE Joins(d, e)
    OBVIOUS
  <2>1. d \o e \in Bytes
    BY ConcatBytes
  <2>2. CASE Corrupt(d)
    <3>1. Corrupt(d \o e)
      <4>1. /\ Len(d) \in Nat /\ Len(e) \in Nat /\ Header = 2
            /\ Len(d \o e) = Len(d) + Len(e)
            /\ \A i \in 1 .. Len(d) : (d \o e)[i] = d[i]
        BY ConcatBytes DEF Header
      <4>2. 2 <= Len(d) => (d \o e)[2] = d[2]
        BY <4>1
      <4> QED BY <4>1, <4>2, <2>2 DEF Corrupt, BodyLen
    <3> QED BY <2>1, <3>1, ParseCorrupt
  <2>3. CASE ~Corrupt(d) /\ ~Complete(d)
    <3>1. P[d].found = <<>> /\ P[d].buf = d
      BY <2>3, ParseIncomplete
    <3>2. P[d \o e].found \in Seq(Bytes)
      BY <2>1, ParsedFields
    <3>3. <<>> \o P[d \o e].found = P[d \o e].found
      BY <3>2, ConcatEmptySeq
    <3> QED BY <3>1, <3>3
  <2>4. CASE ~Corrupt(d) /\ Complete(d)
    <3> DEFINE r == Rest(d)
    <3>1. /\ r \in Bytes /\ Joins(r, e) /\ r \o e \in Bytes
      BY <1>1, <2>4, CutBytes, ConcatBytes
    <3>2. /\ Complete(d \o e) /\ Found(d \o e) = Found(d)
          /\ Rest(d \o e) = r \o e /\ ~Corrupt(d \o e)
      <4>1. BodyLen(d \o e) = BodyLen(d) /\ Len(d) >= Header
        BY <2>4, CutOfConcat DEF Complete
      <4> QED BY <2>4, <4>1, CutOfConcat DEF Corrupt
    <3>3. P[d].found = Found(d) \o P[r].found /\ P[d].buf = P[r].buf
      BY <2>4, ParseComplete
    <3>4. /\ P[d \o e].found = Found(d) \o P[r \o e].found
          /\ P[d \o e].buf = P[r \o e].buf
          /\ P[d \o e].corrupt = P[r \o e].corrupt
      <4>1. /\ P[d \o e].found = Found(d \o e) \o P[Rest(d \o e)].found
            /\ P[d \o e].buf = P[Rest(d \o e)].buf
            /\ P[d \o e].corrupt = P[Rest(d \o e)].corrupt
        BY <2>1, <3>2, ParseComplete
      <4> QED BY <4>1, <3>2
    <3> DEFINE q == P[P[r].buf \o e]
    <3>5. q.found \in Seq(Bytes)
      <4>1. P[r].buf \o e \in Bytes
        BY <3>1, ParsedFields, ConcatBytes
      <4> QED BY <4>1, ParsedFields
    <3>6. Found(d) \in Seq(Bytes) /\ P[r].found \in Seq(Bytes)
      BY <2>4, <3>1, FoundIsMessages, ParsedFields
    <3>7. Found(d) \o (P[r].found \o q.found) = (Found(d) \o P[r].found) \o q.found
      <4>1. \A x, y, z \in Seq(Bytes) : x \o (y \o z) = (x \o y) \o z
        BY ConcatAssociative, SMTT(60)
      <4> QED BY <3>5, <3>6, <4>1
    <3> HIDE DEF P
    <3> QED BY <3>1, <3>3, <3>4, <3>7
  <2> QED BY <2>2, <2>3, <2>4
<1>2. Bytes \subseteq T
  <2> HIDE DEF T
  <2> QED BY <1>1, BytesInduction
<1> QED BY <1>2

(* What a stream keeps is less than a record of the longest size           *)
(* (tls.go:101-109).                                                       *)
LEMMA BufIsLessThanARecord ==
  \A data \in Bytes : Len(ParseTLSStream[data].buf) < Header + MaxRecord
<1> DEFINE P == ParseTLSStream
           T == {d \in Bytes : Len(P[d].buf) < Header + MaxRecord}
<1>1. ASSUME NEW d \in Bytes, \A r \in Bytes : Len(r) < Len(d) => r \in T
      PROVE  d \in T
  <2>1. CASE Corrupt(d)
    <3>1. P[d].buf = <<>>
      BY <2>1, ParseCorrupt
    <3> QED BY <3>1, EmptySeq, RecordAssumption DEF Header
  <2>2. CASE ~Corrupt(d) /\ ~Complete(d)
    <3>1. P[d].buf = d
      BY <2>2, ParseIncomplete
    <3>2. Len(d) \in Nat /\ (2 <= Len(d) => d[2] \in Nat)
      BY BytesLength
    <3>3. Len(d) < Header + MaxRecord
      BY <2>2, <3>2, RecordAssumption DEF Corrupt, Complete, BodyLen, Header
    <3> QED BY <3>1, <3>3
  <2>3. CASE ~Corrupt(d) /\ Complete(d)
    <3>1. Rest(d) \in T
      BY <1>1, <2>3, CutBytes
    <3>2. P[d].buf = P[Rest(d)].buf
      BY <2>3, ParseComplete
    <3> QED BY <3>1, <3>2
  <2> QED BY <2>1, <2>2, <2>3
<1>2. Bytes \subseteq T
  <2> HIDE DEF T
  <2> QED BY <1>1, BytesInduction
<1> QED BY <1>2

(* So the cuts of TCP are invisible.                                       *)
LEMMA CutsOfInputs == CutsAreInvisible
<1> SUFFICES ASSUME NEW data \in Inputs
             PROVE  LET whole == ParseTLSStream[data]
                    IN  /\ Len(whole.buf) < Header + MaxRecord
                        /\ ~whole.corrupt =>
                             \A k \in 0 .. Len(data) :
                               LET one == ParseTLSStream[SubSeq(data, 1, k)]
                                   two == Continue(one, SubSeq(data, k + 1, Len(data)))
                               IN  /\ one.found \o two.found = whole.found
                                   /\ two.buf = whole.buf
  BY DEF CutsAreInvisible
<1>1. data \in Bytes
  <2>1. PICK n \in 0 .. MaxData : data \in [1 .. n -> Units]
    BY DEF Inputs
  <2>2. n \in Nat
    BY <2>1, RecordAssumption
  <2>3. data \in [1 .. n -> Nat]
    BY <2>1, RecordAssumption
  <2>4. data \in Seq(Nat)
    BY <2>2, <2>3, SeqDef
  <2> QED BY <2>4 DEF Bytes
<1>2. ASSUME NEW k \in 0 .. Len(data)
      PROVE  /\ SubSeq(data, 1, k) \in Bytes
             /\ SubSeq(data, k + 1, Len(data)) \in Bytes
             /\ SubSeq(data, 1, k) \o SubSeq(data, k + 1, Len(data)) = data
  <2>1. Len(data) \in Nat /\ \A i \in 1 .. Len(data) : data[i] \in Nat
    BY <1>1, BytesLength
  <2>2. /\ k \in Int /\ k + 1 \in Int /\ Len(data) \in Int
        /\ \A i \in 1 .. k : data[i] \in Nat
        /\ \A i \in k + 1 .. Len(data) : data[i] \in Nat
        /\ 1 \in 1 .. Len(data) + 1 /\ k \in 1 - 1 .. Len(data)
        /\ Len(data) \in k .. Len(data)
    BY <2>1
  <2>3. SubSeq(data, 1, k) \in Bytes /\ SubSeq(data, k + 1, Len(data)) \in Bytes
    BY <2>2, SubSeqProperties DEF Bytes
  <2>4. SubSeq(data, 1, k) \o SubSeq(data, k + 1, Len(data))
          = SubSeq(data, 1, Len(data))
    BY <1>1, <2>2, ConcatAdjacentSubSeq DEF Bytes
  <2>5. SubSeq(data, 1, Len(data)) = data
    BY <1>1, SubSeqFull DEF Bytes
  <2> QED BY <2>3, <2>4, <2>5
<1>3. Len(ParseTLSStream[data].buf) < Header + MaxRecord
  BY <1>1, BufIsLessThanARecord
<1>4. ASSUME ~ParseTLSStream[data].corrupt, NEW k \in 0 .. Len(data)
      PROVE  LET one == ParseTLSStream[SubSeq(data, 1, k)]
                 two == Continue(one, SubSeq(data, k + 1, Len(data)))
             IN  /\ one.found \o two.found = ParseTLSStream[data].found
                 /\ two.buf = ParseTLSStream[data].buf
  <2> DEFINE d == SubSeq(data, 1, k)
             e == SubSeq(data, k + 1, Len(data))
  <2>1. d \in Bytes /\ e \in Bytes /\ d \o e = data
    BY <1>2
  <2> HIDE DEF d, e
  <2>2. /\ ParseTLSStream[d \o e].found =
             ParseTLSStream[d].found
               \o ParseTLSStream[ParseTLSStream[d].buf \o e].found
        /\ ParseTLSStream[d \o e].buf =
             ParseTLSStream[ParseTLSStream[d].buf \o e].buf
    BY <1>4, <2>1, AnyCutIsInvisible
  <2> QED BY <2>1, <2>2 DEF Continue, d, e
<1> QED BY <1>3, <1>4

----------------------------------------------------------------------------
(* The certificates of a message.                                          *)

(* A length that lies within the data is a number.                         *)
LEMMA LengthIsNat ==
  ASSUME NEW s \in Seq(Nat), NEW i \in 1 .. Len(s) - 1
  PROVE  Length(s, i) \in Nat
<1>1. Len(s) \in Nat /\ s[i] \in Nat /\ s[i + 1] \in Nat /\ LenBase \in Nat
  BY LenProperties, ElementOfSeq, UnitAssumption
<1> HIDE DEF Length
<1>2. s[i] * LenBase \in Nat
  BY <1>1
<1> QED BY <1>1, <1>2 DEF Length

(* Behind an entry that lies within the list there is less of it.          *)
LEMMA CutList ==
  ASSUME NEW list \in Seq(Nat), NEW isTLS13,
         ~(Len(list) < 2 \/ 2 + Length(list, 1) > Len(list))
  PROVE  LET end  == 2 + Length(list, 1)
             rest == AfterCert(SubSeq(list, end + 1, Len(list)), isTLS13)
         IN  /\ SubSeq(list, 3, end) \in Seq(Nat)
             /\ rest \in Seq(Nat)
             /\ Len(rest) < Len(list)
<1> DEFINE end == 2 + Length(list, 1)
           after == SubSeq(list, end + 1, Len(list))
<1>1. Len(list) \in Nat /\ \A i \in 1 .. Len(list) : list[i] \in Nat
  BY LenProperties, ElementOfSeq
<1>2. Length(list, 1) \in Nat
  BY <1>1, LengthIsNat
<1>3. end \in Nat /\ 2 <= end /\ end <= Len(list)
  BY <1>1, <1>2
<1> HIDE DEF end
<1>4. SubSeq(list, 3, end) \in Seq(Nat)
  BY <1>1, <1>3, SubSeqProperties
<1>5. after \in Seq(Nat) /\ Len(after) \in Nat /\ Len(after) < Len(list)
  <2>1. /\ SubSeq(list, end + 1, Len(list)) \in Seq(Nat)
        /\ Len(SubSeq(list, end + 1, Len(list))) =
             IF end + 1 <= Len(list) THEN Len(list) - (end + 1) + 1 ELSE 0
    BY <1>1, <1>3, SubSeqProperties
  <2> QED BY <1>1, <1>3, <2>1
<1> HIDE DEF after
<1>6. CASE isTLS13 /\ after # <<>>
  <2>1. 1 \in 1 .. Len(after)
    BY <1>5, <1>6, EmptySeq
  <2>2. after[1] \in Nat
    BY <1>5, <2>1, ElementOfSeq
  <2>3. \A i \in 2 + after[1] .. Len(after) : after[i] \in Nat
    <3>1. \A i \in 1 .. Len(after) : after[i] \in Nat
      BY <1>5, ElementOfSeq
    <3> QED BY <1>5, <2>2, <3>1
  <2>4. /\ SubSeq(after, 2 + after[1], Len(after)) \in Seq(Nat)
        /\ Len(SubSeq(after, 2 + after[1], Len(after))) =
             IF 2 + after[1] <= Len(after)
             THEN Len(after) - (2 + after[1]) + 1 ELSE 0
    BY <1>5, <2>2, <2>3, SubSeqProperties
  <2>5. /\ AfterCert(after, isTLS13) \in Seq(Nat)
        /\ Len(AfterCert(after, isTLS13)) < Len(list)
    <3>1. AfterCert(after, isTLS13) = SubSeq(after, 2 + after[1], Len(after))
      BY <1>6 DEF AfterCert
    <3> DEFINE n == Len(SubSeq(after, 2 + after[1], Len(after)))
               a == after[1]
    <3>2. n = IF 2 + a <= Len(after) THEN Len(after) - (2 + a) + 1 ELSE 0
      BY <2>4
    <3>3. a \in Nat
      BY <2>2
    <3> HIDE DEF n, a
    <3>4. n \in Nat /\ n <= Len(after)
      BY <1>5, <3>2, <3>3
    <3>5. n < Len(list)
      BY <1>1, <1>5, <3>4
    <3> QED BY <2>4, <3>1, <3>5 DEF n
  <2> QED BY <1>4, <2>5 DEF after, end
<1>7. CASE ~(isTLS13 /\ after # <<>>)
  BY <1>4, <1>5, <1>7 DEF AfterCert, after, end
<1> QED BY <1>6, <1>7

(* The loop over the list ends: Entries has a value for all lists, and its *)
(* definition holds of it (tls.go:347-371).                                *)
LEMMA EntriesDef ==
  ASSUME NEW isTLS13
  PROVE  \A list \in Seq(Nat) :
           LET end == 2 + Length(list, 1)
           IN  Entries(isTLS13)[list] =
                 IF Len(list) < 2 \/ end > Len(list) THEN <<>>
                 ELSE <<SubSeq(list, 3, end)>>
                        \o Entries(isTLS13)[AfterCert(
                             SubSeq(list, end + 1, Len(list)), isTLS13)]
<1> DEFINE D == Seq(Nat)
           Over(l) == Len(l) < 2 \/ 2 + Length(l, 1) > Len(l)
           First(l) == <<SubSeq(l, 3, 2 + Length(l, 1))>>
           Next1(l) == AfterCert(SubSeq(l, 2 + Length(l, 1) + 1, Len(l)), isTLS13)
           stop == {l \in D : Over(l)}
           size == [l \in D |-> Len(l)]
           rest == [l \in D |-> IF l \in stop THEN l ELSE Next1(l)]
           base == [l \in D |-> <<>>]
           step == [x \in D \X Seq(D) |->
                      IF x[1] \in stop THEN x[2] ELSE First(x[1]) \o x[2]]
           F(g) == [l \in D |-> IF Over(l) THEN <<>>
                                 ELSE First(l) \o g[Next1(l)]]
<1>1. \A l \in D \ stop : /\ First(l) \in Seq(D)
                          /\ Next1(l) \in D /\ Len(Next1(l)) < Len(l)
  <2> SUFFICES ASSUME NEW l \in D \ stop
               PROVE  /\ First(l) \in Seq(D)
                      /\ Next1(l) \in D /\ Len(Next1(l)) < Len(l)
    OBVIOUS
  <2>1. /\ SubSeq(l, 3, 2 + Length(l, 1)) \in D
        /\ Next1(l) \in D /\ Len(Next1(l)) < Len(l)
    BY CutList
  <2> HIDE DEF D
  <2> QED BY <2>1
<1>2. size \in [D -> Nat]
  BY LenProperties
<1>3. /\ rest \in [D -> D]
      /\ base \in [D -> Seq(D)]
      /\ step \in [D \X Seq(D) -> Seq(D)]
      /\ \A l \in D \ stop : size[rest[l]] < size[l]
  <2> HIDE DEF D, stop, First, Next1
  <2>1. rest \in [D -> D] /\ base \in [D -> Seq(D)]
    BY <1>1, EmptySeq
  <2>2. step \in [D \X Seq(D) -> Seq(D)]
    BY <1>1, ConcatProperties
  <2>3. \A l \in D \ stop : size[rest[l]] < size[l]
    BY <1>1
  <2> QED BY <2>1, <2>2, <2>3
<1>4. IsRecursion(D, Seq(D), stop, size, rest, base, step)
  <2> HIDE DEF D, stop, size, rest, base, step
  <2> QED BY <1>2, <1>3 DEF IsRecursion
<1>5. PICK f \in [D -> Seq(D)] : IsSolution(f, D, stop, rest, base, step)
  <2> HIDE DEF D, stop, size, rest, base, step
  <2> QED BY <1>4, RecursionHasASolution
<1>6. f = F(f)
  <2> SUFFICES ASSUME NEW l \in D PROVE f[l] = F(f)[l]
    OBVIOUS
  <2>1. CASE l \in stop
    BY <1>5, <2>1 DEF IsSolution
  <2>2. CASE l \notin stop
    <3>1. f[l] = step[<<l, f[rest[l]]>>] /\ rest[l] = Next1(l)
      BY <1>5, <2>2 DEF IsSolution
    <3>2. f[Next1(l)] \in Seq(D)
      BY <1>1, <2>2
    <3>3. f[l] = First(l) \o f[Next1(l)]
      BY <2>2, <3>1, <3>2
    <3> QED BY <2>2, <3>3
  <2> QED BY <2>1, <2>2
<1> DEFINE h == Entries(isTLS13)
<1>7. h = CHOOSE g : g = F(g)
  BY DEF Entries
<1> HIDE DEF F, h
<1>8. h = F(h)
  BY <1>6, <1>7
<1>9. \A l \in D : h[l] = F(h)[l]
  BY <1>8
<1> QED BY <1>9 DEF F, h

(* Concatenation is associative.                                           *)
LEMMA RegroupedConcat ==
  ASSUME NEW p \in Seq(Nat), NEW q \in Seq(Nat), NEW r \in Seq(Nat)
  PROVE  (p \o q) \o r = p \o (q \o r)
BY ConcatAssociative, SMTT(60)

(* What three parts put together hold, and how two of them are cut out.    *)
LEMMA SliceOfConcat ==
  ASSUME NEW s \in Seq(Nat), NEW t \in Seq(Nat), NEW u \in Seq(Nat), NEW all,
         all = s \o t \o u
  PROVE  /\ all \in Seq(Nat)
         /\ Len(s) \in Nat /\ Len(t) \in Nat /\ Len(u) \in Nat
         /\ Len(all) = Len(s) + Len(t) + Len(u)
         /\ \A i \in 1 .. Len(s) : all[i] = s[i]
         /\ \A i \in 1 .. Len(t) : all[Len(s) + i] = t[i]
         /\ \A i \in 1 .. Len(u) : all[Len(s) + Len(t) + i] = u[i]
         /\ SubSeq(all, Len(s) + 1, Len(s) + Len(t)) = t
         /\ SubSeq(all, Len(s) + Len(t) + 1, Len(s) + Len(t) + Len(u)) = u
<1> DEFINE st == s \o t
<1>1. Len(s) \in Nat /\ Len(t) \in Nat /\ Len(u) \in Nat
  BY LenProperties
<1>2. /\ st \in Seq(Nat) /\ Len(st) = Len(s) + Len(t)
      /\ \A i \in 1 .. Len(s) + Len(t) :
           st[i] = IF i <= Len(s) THEN s[i] ELSE t[i - Len(s)]
  BY ConcatProperties
<1> HIDE DEF st
<1>3. /\ all \in Seq(Nat) /\ Len(all) = Len(s) + Len(t) + Len(u)
      /\ \A i \in 1 .. Len(s) + Len(t) + Len(u) :
           all[i] = IF i <= Len(s) + Len(t) THEN st[i]
                                             ELSE u[i - (Len(s) + Len(t))]
  <2>1. /\ all \in Seq(Nat) /\ Len(all) = Len(st) + Len(u)
        /\ \A i \in 1 .. Len(st) + Len(u) :
             all[i] = IF i <= Len(st) THEN st[i] ELSE u[i - Len(st)]
    <3>1. st \in Seq(Nat)
      BY <1>2
    <3>2. all = st \o u
      BY DEF st
    <3>3. /\ st \o u \in Seq(Nat) /\ Len(st \o u) = Len(st) + Len(u)
          /\ \A i \in 1 .. Len(st) + Len(u) :
               (st \o u)[i] = IF i <= Len(st) THEN st[i] ELSE u[i - Len(st)]
      BY <3>1, ConcatProperties
    <3> QED BY <3>2, <3>3
  <2> QED BY <1>2, <2>1
<1>4. \A i \in 1 .. Len(s) : all[i] = s[i]
  BY <1>1, <1>2, <1>3
<1>5. \A i \in 1 .. Len(t) : all[Len(s) + i] = t[i]
  <2> SUFFICES ASSUME NEW i \in 1 .. Len(t) PROVE all[Len(s) + i] = t[i]
    OBVIOUS
  <2>1. /\ Len(s) + i \in 1 .. Len(s) + Len(t) + Len(u)
        /\ Len(s) + i \in 1 .. Len(s) + Len(t)
        /\ ~(Len(s) + i <= Len(s)) /\ Len(s) + i - Len(s) = i
        /\ Len(s) + i <= Len(s) + Len(t)
    BY <1>1
  <2> QED BY <1>2, <1>3, <2>1
<1>6. \A i \in 1 .. Len(u) : all[Len(s) + Len(t) + i] = u[i]
  <2> SUFFICES ASSUME NEW i \in 1 .. Len(u)
               PROVE  all[Len(s) + Len(t) + i] = u[i]
    OBVIOUS
  <2>1. /\ Len(s) + Len(t) + i \in 1 .. Len(s) + Len(t) + Len(u)
        /\ ~(Len(s) + Len(t) + i <= Len(s) + Len(t))
        /\ Len(s) + Len(t) + i - (Len(s) + Len(t)) = i
    BY <1>1
  <2> QED BY <1>3, <2>1
<1>7. SubSeq(all, Len(s) + 1, Len(s) + Len(t)) = t
  <2> DEFINE m == Len(s) + 1
             n == Len(s) + Len(t)
             v == SubSeq(all, m, n)
  <2>1. m \in Int /\ n \in Int /\ \A i \in m .. n : all[i] \in Nat
    BY <1>1, <1>3, ElementOfSeq
  <2>2. /\ v \in Seq(Nat) /\ Len(v) = (IF m <= n THEN n - m + 1 ELSE 0)
        /\ \A i \in 1 .. n - m + 1 : v[i] = all[m + i - 1]
    BY <2>1, SubSeqProperties
  <2>3. Len(v) = Len(t)
    <3>1. n - m + 1 = Len(t) /\ (m <= n <=> 1 <= Len(t))
      BY <1>1
    <3> HIDE DEF m, n, v
    <3> QED BY <1>1, <2>2, <3>1
  <2>4. \A i \in 1 .. Len(t) : v[i] = all[Len(s) + i]
    <3> HIDE DEF v
    <3> SUFFICES ASSUME NEW i \in 1 .. Len(t) PROVE v[i] = all[Len(s) + i]
      OBVIOUS
    <3>1. i \in 1 .. n - m + 1 /\ m + i - 1 = Len(s) + i
      BY <1>1
    <3> QED BY <2>2, <3>1
  <2> HIDE DEF v
  <2>5. v = t
    BY <1>5, <2>2, <2>3, <2>4, SeqEqual
  <2> QED BY <2>5 DEF v
<1>8. SubSeq(all, Len(s) + Len(t) + 1, Len(s) + Len(t) + Len(u)) = u
  <2> DEFINE m == Len(s) + Len(t) + 1
             n == Len(s) + Len(t) + Len(u)
             v == SubSeq(all, m, n)
  <2>1. m \in Int /\ n \in Int /\ \A i \in m .. n : all[i] \in Nat
    BY <1>1, <1>3, ElementOfSeq
  <2>2. /\ v \in Seq(Nat) /\ Len(v) = (IF m <= n THEN n - m + 1 ELSE 0)
        /\ \A i \in 1 .. n - m + 1 : v[i] = all[m + i - 1]
    BY <2>1, SubSeqProperties
  <2>3. Len(v) = Len(u)
    <3>1. n - m + 1 = Len(u) /\ (m <= n <=> 1 <= Len(u))
      BY <1>1
    <3> HIDE DEF m, n, v
    <3> QED BY <1>1, <2>2, <3>1
  <2>4. \A i \in 1 .. Len(u) : v[i] = all[Len(s) + Len(t) + i]
    <3> HIDE DEF v
    <3> SUFFICES ASSUME NEW i \in 1 .. Len(u)
                 PROVE  v[i] = all[Len(s) + Len(t) + i]
      OBVIOUS
    <3>1. i \in 1 .. n - m + 1 /\ m + i - 1 = Len(s) + Len(t) + i
      BY <1>1
    <3> QED BY <2>2, <3>1
  <2> HIDE DEF v
  <2>5. v = u
    BY <1>6, <2>2, <2>3, <2>4, SeqEqual
  <2> QED BY <2>5 DEF v
<1> QED BY <1>1, <1>3, <1>4, <1>5, <1>6, <1>7, <1>8

(* The two units of a length.                                              *)
Units2(n) == <<n \div LenBase, n % LenBase>>

(* They are read as the length they were written for.                      *)
LEMMA LengthIsWritten ==
  ASSUME NEW n \in Nat
  PROVE  /\ Units2(n) \in Seq(Nat) /\ Len(Units2(n)) = 2
         /\ Units2(n)[1] * LenBase + Units2(n)[2] = n
<1>1. LenBase \in Nat \ {0}
  BY UnitAssumption
<1>2. /\ n \div LenBase \in Nat /\ n % LenBase \in Nat
      /\ (n \div LenBase) * LenBase + (n % LenBase) = n
  BY <1>1
<1> QED BY <1>2 DEF Units2

(* A certificate with its extensions, of any length.                       *)
Entry == [cert : Seq(Nat), exts : Seq(Nat)]

(* What is written behind the certificate.                                 *)
ExtsOf(entry, isTLS13) == IF isTLS13 THEN Short(entry.exts) ELSE <<>>

(* What is written for an entry is data, two units of it at least.         *)
LEMMA EntryIsWritten ==
  ASSUME NEW entry \in Entry, NEW isTLS13
  PROVE  /\ WithLength(entry.cert) = Units2(Len(entry.cert)) \o entry.cert
         /\ WithLength(entry.cert) \in Seq(Nat)
         /\ Len(WithLength(entry.cert)) >= 2
         /\ ExtsOf(entry, isTLS13) \in Seq(Nat)
<1>1. /\ entry.cert \in Seq(Nat) /\ entry.exts \in Seq(Nat)
      /\ Len(entry.cert) \in Nat /\ Len(entry.exts) \in Nat
  BY LenProperties DEF Entry
<1>2. WithLength(entry.cert) = Units2(Len(entry.cert)) \o entry.cert
  BY DEF WithLength, Units2
<1>3. Units2(Len(entry.cert)) \in Seq(Nat) /\ Len(Units2(Len(entry.cert))) = 2
  BY <1>1, LengthIsWritten
<1>4. WithLength(entry.cert) \in Seq(Nat) /\ Len(WithLength(entry.cert)) >= 2
  <2> DEFINE u == Units2(Len(entry.cert))
             c == entry.cert
  <2>1. u \in Seq(Nat) /\ Len(u) = 2 /\ c \in Seq(Nat) /\ Len(c) \in Nat
    BY <1>1, <1>3
  <2> HIDE DEF u, c
  <2>2. u \o c \in Seq(Nat) /\ Len(u \o c) = Len(u) + Len(c)
    BY <2>1, ConcatProperties
  <2>3. Len(u \o c) >= 2
    BY <2>1, <2>2
  <2> QED BY <1>2, <2>2, <2>3 DEF u, c
<1>5. Short(entry.exts) \in Seq(Nat)
  BY <1>1, ConcatProperties DEF Short
<1> QED BY <1>2, <1>4, <1>5, EmptySeq DEF ExtsOf

(* Written has a value for all chains, and its definition holds of it.     *)
LEMMA WrittenDef ==
  ASSUME NEW isTLS13
  PROVE  \A chain \in Seq(Entry) :
           /\ Written(isTLS13)[chain] \in Seq(Nat)
           /\ Written(isTLS13)[chain] =
                IF chain = <<>> THEN <<>>
                ELSE WithLength(Head(chain).cert)
                       \o ExtsOf(Head(chain), isTLS13)
                       \o Written(isTLS13)[Tail(chain)]
<1> DEFINE D == Seq(Entry)
           One(c) == WithLength(Head(c).cert) \o ExtsOf(Head(c), isTLS13)
           stop == {<<>>}
           size == [c \in D |-> Len(c)]
           rest == [c \in D |-> IF c \in stop THEN c ELSE Tail(c)]
           base == [c \in D |-> <<>>]
           step == [x \in D \X Seq(Nat) |->
                      IF x[1] \in stop THEN x[2] ELSE One(x[1]) \o x[2]]
           F(g) == [c \in D |-> IF c = <<>> THEN <<>>
                                  ELSE One(c) \o g[Tail(c)]]
<1>1. \A c \in D \ stop : /\ One(c) \in Seq(Nat)
                          /\ Tail(c) \in D /\ Len(Tail(c)) < Len(c)
  <2> SUFFICES ASSUME NEW c \in D \ stop
               PROVE  /\ One(c) \in Seq(Nat)
                      /\ Tail(c) \in D /\ Len(Tail(c)) < Len(c)
    OBVIOUS
  <2>1. /\ Head(c) \in Entry /\ Tail(c) \in D
        /\ Len(c) \in Nat /\ Len(Tail(c)) = Len(c) - 1
    BY HeadTailProperties, LenProperties
  <2>2. One(c) \in Seq(Nat)
    BY <2>1, EntryIsWritten, ConcatProperties
  <2> QED BY <2>1, <2>2
<1>2. size \in [D -> Nat]
  BY LenProperties
<1>3. /\ rest \in [D -> D]
      /\ base \in [D -> Seq(Nat)]
      /\ step \in [D \X Seq(Nat) -> Seq(Nat)]
      /\ \A c \in D \ stop : size[rest[c]] < size[c]
  <2> HIDE DEF D, stop, One
  <2>1. rest \in [D -> D] /\ base \in [D -> Seq(Nat)]
    BY <1>1, EmptySeq
  <2>2. step \in [D \X Seq(Nat) -> Seq(Nat)]
    BY <1>1, ConcatProperties
  <2>3. \A c \in D \ stop : size[rest[c]] < size[c]
    BY <1>1
  <2> QED BY <2>1, <2>2, <2>3
<1>4. IsRecursion(D, Seq(Nat), stop, size, rest, base, step)
  <2> HIDE DEF D, stop, size, rest, base, step
  <2> QED BY <1>2, <1>3 DEF IsRecursion
<1>5. PICK f \in [D -> Seq(Nat)] : IsSolution(f, D, stop, rest, base, step)
  <2> HIDE DEF D, stop, size, rest, base, step
  <2> QED BY <1>4, RecursionHasASolution
<1>6. f = F(f)
  <2> SUFFICES ASSUME NEW c \in D PROVE f[c] = F(f)[c]
    OBVIOUS
  <2>1. CASE c \in stop
    BY <1>5, <2>1 DEF IsSolution
  <2>2. CASE c \notin stop
    <3>1. f[c] = step[<<c, f[rest[c]]>>] /\ rest[c] = Tail(c)
      BY <1>5, <2>2 DEF IsSolution
    <3>2. f[Tail(c)] \in Seq(Nat)
      BY <1>1, <2>2
    <3>3. f[c] = One(c) \o f[Tail(c)]
      BY <2>2, <3>1, <3>2
    <3> QED BY <2>2, <3>3
  <2> QED BY <2>1, <2>2
<1> DEFINE h == Written(isTLS13)
<1>7. h = CHOOSE g : g = F(g)
  BY DEF Written, ExtsOf, Entry
<1> HIDE DEF F, h
<1>8. h = F(h)
  BY <1>6, <1>7
<1>9. \A c \in D : h[c] = F(h)[c]
  BY <1>8
<1>10. \A c \in D : h[c] = IF c = <<>> THEN <<>> ELSE One(c) \o h[Tail(c)]
  BY <1>9 DEF F
<1>11. \A c \in D : h[c] \in Seq(Nat)
  <2> DEFINE T == {c \in D : h[c] \in Seq(Nat)}
  <2>1. ASSUME NEW c \in D, \A r \in D : Len(r) < Len(c) => r \in T
        PROVE  c \in T
    <3>1. CASE c = <<>>
      BY <3>1, <1>10, EmptySeq
    <3>2. CASE c # <<>>
      <4>1. One(c) \in Seq(Nat) /\ h[Tail(c)] \in Seq(Nat)
        BY <1>1, <2>1, <3>2
      <4>2. One(c) \o h[Tail(c)] \in Seq(Nat)
        BY <4>1, ConcatProperties
      <4> QED BY <1>10, <3>2, <4>2
    <3> QED BY <3>1, <3>2
  <2>2. D \subseteq T
    <3> HIDE DEF T
    <3> QED BY <2>1, LenInduction
  <2> QED BY <2>2
<1> QED BY <1>10, <1>11 DEF h

(* The length and the blob at the front of a list, and what is behind      *)
(* them.                                                                   *)
LEMMA ReadOne ==
  ASSUME NEW c \in Seq(Nat), NEW tail \in Seq(Nat), NEW list,
         list = WithLength(c) \o tail
  PROVE  /\ list \in Seq(Nat) /\ Len(list) = 2 + Len(c) + Len(tail)
         /\ Len(c) \in Nat /\ Len(tail) \in Nat
         /\ Length(list, 1) = Len(c)
         /\ SubSeq(list, 3, 2 + Len(c)) = c
         /\ SubSeq(list, 2 + Len(c) + 1, Len(list)) = tail
<1> DEFINE u == Units2(Len(c))
<1>1. Len(c) \in Nat /\ Len(tail) \in Nat
  BY LenProperties
<1>2. u \in Seq(Nat) /\ Len(u) = 2 /\ u[1] * LenBase + u[2] = Len(c)
  BY <1>1, LengthIsWritten
<1>3. list = u \o c \o tail
  BY DEF WithLength, Units2
<1> HIDE DEF u
<1>4. /\ list \in Seq(Nat) /\ Len(list) = Len(u) + Len(c) + Len(tail)
      /\ \A i \in 1 .. Len(u) : list[i] = u[i]
      /\ SubSeq(list, Len(u) + 1, Len(u) + Len(c)) = c
      /\ SubSeq(list, Len(u) + Len(c) + 1, Len(u) + Len(c) + Len(tail)) = tail
  <2>1. u \in Seq(Nat) /\ c \in Seq(Nat) /\ tail \in Seq(Nat)
    BY <1>2
  <2>2. list \in Seq(Nat) /\ Len(list) = Len(u) + Len(c) + Len(tail)
    BY <2>1, <1>3, SliceOfConcat
  <2>3. \A i \in 1 .. Len(u) : list[i] = u[i]
    BY <2>1, <1>3, SliceOfConcat
  <2>4. SubSeq(list, Len(u) + 1, Len(u) + Len(c)) = c
    BY <2>1, <1>3, SliceOfConcat
  <2>5. SubSeq(list, Len(u) + Len(c) + 1, Len(u) + Len(c) + Len(tail)) = tail
    BY <2>1, <1>3, SliceOfConcat
  <2> QED BY <2>2, <2>3, <2>4, <2>5
<1>5. list[1] = u[1] /\ list[2] = u[2]
  BY <1>2, <1>4
<1>6. Length(list, 1) = Len(c)
  <2>1. Length(list, 1) = list[1] * LenBase + list[2]
    BY DEF Length
  <2> QED BY <1>2, <1>5, <2>1
<1>7. list \in Seq(Nat) /\ Len(list) = 2 + Len(c) + Len(tail)
  BY <1>1, <1>2, <1>4
<1>8. SubSeq(list, 3, 2 + Len(c)) = c
  <2>1. Len(u) + 1 = 3 /\ Len(u) + Len(c) = 2 + Len(c)
    BY <1>1, <1>2
  <2>2. SubSeq(list, Len(u) + 1, Len(u) + Len(c)) = c
    BY <1>4
  <2> QED BY <2>1, <2>2
<1>9. SubSeq(list, 2 + Len(c) + 1, Len(list)) = tail
  BY <1>1, <1>2, <1>4
<1> QED BY <1>1, <1>6, <1>7, <1>8, <1>9

(* The length of such a list.                                              *)
LEMMA WrittenLength ==
  ASSUME NEW c \in Seq(Nat), NEW tail \in Seq(Nat)
  PROVE  Len(WithLength(c) \o tail) = 2 + Len(c) + Len(tail)
<1> DEFINE u == Units2(Len(c))
           all == u \o c \o tail
<1>1. Len(c) \in Nat /\ Len(tail) \in Nat
  BY LenProperties
<1>2. u \in Seq(Nat) /\ Len(u) = 2
  BY <1>1, LengthIsWritten
<1>3. WithLength(c) \o tail = all
  BY DEF WithLength, Units2
<1>4. all = u \o c \o tail
  OBVIOUS
<1> HIDE DEF u, all
<1>5. Len(all) = Len(u) + Len(c) + Len(tail)
  <2>1. u \in Seq(Nat) /\ c \in Seq(Nat) /\ tail \in Seq(Nat)
    BY <1>2
  <2>2. all \in Seq(Nat) /\ Len(all) = Len(u) + Len(c) + Len(tail)
    BY <2>1, <1>4, SliceOfConcat
  <2> QED BY <2>2
<1> QED BY <1>1, <1>2, <1>3, <1>5

(* The extensions of TLS 1.3 are stepped over, to their last unit.         *)
LEMMA ExtensionsAreSkipped ==
  ASSUME NEW e \in Seq(Nat), NEW more \in Seq(Nat), NEW tail,
         tail = Short(e) \o more
  PROVE  AfterCert(tail, TRUE) = more
<1> DEFINE l == <<Len(e)>>
<1>1. Len(e) \in Nat /\ Len(more) \in Nat
  BY LenProperties
<1>2. l \in Seq(Nat) /\ Len(l) = 1 /\ l[1] = Len(e)
  BY <1>1
<1>3. tail = l \o e \o more
  BY DEF Short
<1> HIDE DEF l
<1>4. /\ tail \in Seq(Nat) /\ Len(tail) = Len(l) + Len(e) + Len(more)
      /\ \A i \in 1 .. Len(l) : tail[i] = l[i]
      /\ SubSeq(tail, Len(l) + Len(e) + 1, Len(l) + Len(e) + Len(more)) = more
  <2>1. l \in Seq(Nat) /\ e \in Seq(Nat) /\ more \in Seq(Nat)
    BY <1>2
  <2>2. tail \in Seq(Nat) /\ Len(tail) = Len(l) + Len(e) + Len(more)
    BY <2>1, <1>3, SliceOfConcat
  <2>3. \A i \in 1 .. Len(l) : tail[i] = l[i]
    BY <2>1, <1>3, SliceOfConcat
  <2>4. SubSeq(tail, Len(l) + Len(e) + 1, Len(l) + Len(e) + Len(more)) = more
    BY <2>1, <1>3, SliceOfConcat
  <2> QED BY <2>2, <2>3, <2>4
<1>5. tail[1] = Len(e)
  BY <1>2, <1>4
<1>6. 1 + Len(e) + 1 = 2 + tail[1] /\ Len(tail) = 1 + Len(e) + Len(more)
  BY <1>1, <1>2, <1>4, <1>5
<1>7. SubSeq(tail, 2 + tail[1], Len(tail)) = more
  BY <1>2, <1>4, <1>6
<1>8. tail # <<>>
  BY <1>1, <1>6, <1>4, EmptySeq
<1> QED BY <1>7, <1>8 DEF AfterCert

(* The certificates of a chain, one by one.                                *)
LEMMA CertsOfTail ==
  ASSUME NEW chain \in Seq(Entry), chain # <<>>
  PROVE  <<Head(chain).cert>> \o CertsOfChain(Tail(chain)) = CertsOfChain(chain)
<1> DEFINE D == Seq(Nat)
           s == CertsOfChain(Tail(chain))
           t == CertsOfChain(chain)
           l == <<Head(chain).cert>>
<1>1. /\ Len(chain) \in Nat /\ 1 <= Len(chain)
      /\ DOMAIN chain = 1 .. Len(chain)
      /\ \A i \in 1 .. Len(chain) : chain[i] \in Entry
      /\ Tail(chain) \in Seq(Entry) /\ Len(Tail(chain)) = Len(chain) - 1
      /\ \A i \in 1 .. Len(Tail(chain)) : Tail(chain)[i] = chain[i + 1]
      /\ Head(chain) = chain[1]
  BY LenProperties, ElementOfSeq, HeadTailProperties, EmptySeq
<1>2. DOMAIN Tail(chain) = 1 .. Len(chain) - 1
  BY <1>1, LenProperties
<1>3. /\ t \in [1 .. Len(chain) -> D]
      /\ \A i \in 1 .. Len(chain) : t[i] = chain[i].cert
  BY <1>1 DEF CertsOfChain, Entry
<1>4. \A i \in 1 .. Len(chain) - 1 : Tail(chain)[i] = chain[i + 1]
                                    /\ i + 1 \in 1 .. Len(chain)
  BY <1>1
<1>5. /\ s \in [1 .. Len(chain) - 1 -> D]
      /\ \A i \in 1 .. Len(chain) - 1 : s[i] = chain[i + 1].cert
  BY <1>1, <1>2, <1>4 DEF CertsOfChain, Entry
<1>6. t \in Seq(D) /\ Len(t) = Len(chain)
  <2> HIDE DEF t, D
  <2>1. t \in Seq(D)
    BY <1>1, <1>3, SeqDef
  <2> QED BY <1>1, <1>3, <2>1
<1>7. s \in Seq(D) /\ Len(s) = Len(chain) - 1
  <2> HIDE DEF s, D
  <2>1. Len(chain) - 1 \in Nat
    BY <1>1
  <2>2. s \in Seq(D)
    BY <2>1, <1>5, SeqDef
  <2> QED BY <1>5, <2>1, <2>2
<1>8. l \in Seq(D) /\ Len(l) = 1 /\ l[1] = chain[1].cert
  <2>1. chain[1] \in Entry
    BY <1>1
  <2>2. chain[1].cert \in D
    BY <2>1 DEF Entry
  <2> HIDE DEF D
  <2> QED BY <1>1, <2>2
<1> HIDE DEF s, t, l, D
<1>9. /\ l \o s \in Seq(D) /\ Len(l \o s) = Len(l) + Len(s)
      /\ \A i \in 1 .. Len(l) + Len(s) :
           (l \o s)[i] = IF i <= Len(l) THEN l[i] ELSE s[i - Len(l)]
  BY <1>7, <1>8, ConcatProperties
<1>10. \A i \in 1 .. Len(chain) : (l \o s)[i] = t[i]
  <2> SUFFICES ASSUME NEW i \in 1 .. Len(chain) PROVE (l \o s)[i] = t[i]
    OBVIOUS
  <2>1. CASE i = 1
    BY <1>1, <1>3, <1>7, <1>8, <1>9, <2>1
  <2>2. CASE i # 1
    <3>1. /\ i - 1 \in 1 .. Len(chain) - 1 /\ ~(i <= 1)
          /\ i \in 1 .. Len(l) + Len(s) /\ (i - 1) + 1 = i
      BY <1>1, <1>7, <1>8, <2>2
    <3>2. s[i - 1] = chain[i].cert
      BY <1>5, <3>1
    <3> QED BY <1>3, <1>8, <1>9, <3>1, <3>2
  <2> QED BY <2>1, <2>2
<1>11. Len(l \o s) = Len(t)
  BY <1>1, <1>6, <1>7, <1>8, <1>9
<1>12. l \o s = t
  BY <1>6, <1>9, <1>10, <1>11, SeqEqual
<1> QED BY <1>12 DEF l, s, t

(* Every chain, of any number of certificates of any length, is read back  *)
(* from what a server writes, with extensions in TLS 1.3 (tls.go:347-371). *)
THEOREM ChainsAreReadBack ==
  ASSUME NEW isTLS13 \in BOOLEAN
  PROVE  \A chain \in Seq(Entry) :
           Entries(isTLS13)[Written(isTLS13)[chain]] = CertsOfChain(chain)
<1> DEFINE E == Entries(isTLS13)
           W == Written(isTLS13)
           Q == Seq(Entry)
           T == {chain \in Q : E[W[chain]] = CertsOfChain(chain)}
<1>1. ASSUME NEW chain \in Q, \A r \in Q : Len(r) < Len(chain) => r \in T
      PROVE  E[W[chain]] = CertsOfChain(chain)
  <2>1. CASE chain = <<>>
    <3>1. W[chain] = <<>>
      BY <2>1, WrittenDef
    <3>2. <<>> \in Seq(Nat) /\ Len(<<>>) < 2
      BY EmptySeq
    <3>3. E[<<>>] = <<>>
      BY <3>2, EntriesDef
    <3>4. CertsOfChain(chain) = <<>>
      BY <2>1 DEF CertsOfChain
    <3> QED BY <3>1, <3>3, <3>4
  <2>2. CASE chain # <<>>
    <3> DEFINE entry == Head(chain)
               c     == entry.cert
               x     == ExtsOf(entry, isTLS13)
               more  == W[Tail(chain)]
               tail  == x \o more
               list  == W[chain]
               end   == 2 + Length(list, 1)
    <3>1. /\ entry \in Entry /\ Tail(chain) \in Q /\ Tail(chain) \in T
      <4>1. /\ entry \in Entry /\ Tail(chain) \in Q
            /\ Len(chain) \in Nat /\ Len(Tail(chain)) = Len(chain) - 1
        BY <2>2, HeadTailProperties, LenProperties
      <4>2. Len(Tail(chain)) < Len(chain)
        BY <4>1
      <4> HIDE DEF T, Q
      <4> QED BY <4>1, <4>2, <1>1
    <3>2. /\ c \in Seq(Nat) /\ entry.exts \in Seq(Nat)
          /\ x \in Seq(Nat) /\ WithLength(c) \in Seq(Nat)
      BY <3>1, EntryIsWritten DEF Entry
    <3>3. more \in Seq(Nat) /\ E[more] = CertsOfChain(Tail(chain))
      BY <3>1, WrittenDef
    <3>4. tail \in Seq(Nat)
      <4> HIDE DEF x, more
      <4> QED BY <3>2, <3>3, ConcatProperties
    <3>5. list = WithLength(c) \o tail
      <4>1. list = WithLength(c) \o x \o more
        BY <2>2, WrittenDef
      <4>2. (WithLength(c) \o x) \o more = WithLength(c) \o (x \o more)
        <5>1. \A p, q, r \in Seq(Nat) : (p \o q) \o r = p \o (q \o r)
          BY RegroupedConcat
        <5> HIDE DEF x, more, c
        <5> QED BY <3>2, <3>3, <5>1
      <4> QED BY <4>1, <4>2
    <3>6. AfterCert(tail, isTLS13) = more
      <4>1. CASE isTLS13 = TRUE
        <5>1. tail = Short(entry.exts) \o more
          BY <4>1 DEF ExtsOf
        <5> HIDE DEF tail, more
        <5> QED BY <3>2, <3>3, <4>1, <5>1, ExtensionsAreSkipped
      <4>2. CASE isTLS13 = FALSE
        <5>1. tail = more
          <6>1. x = <<>>
            BY <4>2 DEF ExtsOf
          <6> HIDE DEF x, more
          <6> QED BY <3>3, <6>1, ConcatEmptySeq
        <5> QED BY <4>2, <5>1 DEF AfterCert
      <4> QED BY <4>1, <4>2
    <3> HIDE DEF list, tail, more, c, entry
    <3>7. /\ list \in Seq(Nat) /\ Len(list) = 2 + Len(c) + Len(tail)
          /\ Len(c) \in Nat /\ Len(tail) \in Nat
          /\ Length(list, 1) = Len(c)
          /\ SubSeq(list, 3, 2 + Len(c)) = c
          /\ SubSeq(list, 2 + Len(c) + 1, Len(list)) = tail
      <4>1. c \in Seq(Nat) /\ tail \in Seq(Nat)
        BY <3>2, <3>4
      <4>2. list \in Seq(Nat)
        BY <3>5, <4>1, ReadOne
      <4>6. Len(c) \in Nat /\ Len(tail) \in Nat
        BY <4>1, LenProperties
      <4>7. Len(list) = 2 + Len(c) + Len(tail)
        <5>1. Len(WithLength(c) \o tail) = 2 + Len(c) + Len(tail)
          BY <4>1, WrittenLength
        <5> QED BY <3>5, <5>1
      <4>3. Length(list, 1) = Len(c)
        BY <3>5, <4>1, ReadOne
      <4>4. SubSeq(list, 3, 2 + Len(c)) = c
        BY <3>5, <4>1, ReadOne
      <4>5. SubSeq(list, 2 + Len(c) + 1, Len(list)) = tail
        BY <3>5, <4>1, ReadOne
      <4> QED BY <4>2, <4>3, <4>4, <4>5, <4>6, <4>7
    <3>8. E[list] = <<c>> \o CertsOfChain(Tail(chain))
      <4>1. ~(Len(list) < 2 \/ end > Len(list))
        BY <3>7
      <4>2. E[list] = <<SubSeq(list, 3, end)>>
                       \o E[AfterCert(SubSeq(list, end + 1, Len(list)), isTLS13)]
        BY <3>7, <4>1, EntriesDef
      <4>3. SubSeq(list, 3, end) = c /\ SubSeq(list, end + 1, Len(list)) = tail
        BY <3>7
      <4> QED BY <3>3, <3>6, <4>2, <4>3
    <3>9. <<c>> \o CertsOfChain(Tail(chain)) = CertsOfChain(chain)
      BY <2>2, CertsOfTail DEF c, entry
    <3> QED BY <3>8, <3>9 DEF list
  <2> QED BY <2>1, <2>2
<1>2. Q \subseteq T
  <2>1. ASSUME NEW s \in Q, \A r \in Q : Len(r) < Len(s) => r \in T
        PROVE  s \in T
    <3>1. E[W[s]] = CertsOfChain(s)
      <4> HIDE DEF E, W, T
      <4> QED BY <2>1, <1>1
    <3> QED BY <3>1
  <2> HIDE DEF T
  <2> QED BY <2>1, LenInduction
<1> QED BY <1>2

(* The list in a message of TLS 1.2,                                       *)
LEMMA MessageOfTls12 ==
  ASSUME NEW list \in Seq(Nat)
  PROVE  ParseCertificateMessage(WithLength(list), FALSE) = Entries(FALSE)[list]
<1> DEFINE body == WithLength(list)
<1>1. Len(list) \in Nat
  BY LenProperties
<1>2. body \in Seq(Nat)
  <2>1. Units2(Len(list)) \in Seq(Nat)
    BY <1>1, LengthIsWritten
  <2>2. body = Units2(Len(list)) \o list
    BY DEF WithLength, Units2
  <2> QED BY <2>1, <2>2, ConcatProperties
<1>3. body = WithLength(list) \o <<>>
  BY <1>2, ConcatEmptySeq
<1> HIDE DEF body
<1> DEFINE e == <<>>
<1>4. e \in Seq(Nat) /\ Len(e) = 0 /\ body = WithLength(list) \o e
  BY <1>3, EmptySeq
<1> HIDE DEF e
<1>5. Len(body) = 2 + Len(list) + Len(e)
  <2>1. Len(WithLength(list) \o e) = 2 + Len(list) + Len(e)
    BY <1>4, WrittenLength
  <2> QED BY <1>4, <2>1
<1>6. Length(body, 1) = Len(list)
  BY <1>4, ReadOne
<1>7. SubSeq(body, 3, 2 + Len(list)) = list
  <2>1. e \in Seq(Nat) /\ body = WithLength(list) \o e
    BY <1>4
  <2> HIDE <1>4
  <2> QED BY <2>1, ReadOne
<1>8. ParseCertificateMessage(body, FALSE) =
        IF Len(body) < 2 \/ 1 + 1 > Len(body) \/ 1 + 1 + Length(body, 1) > Len(body)
        THEN <<>>
        ELSE Entries(FALSE)[SubSeq(body, 1 + 2, 1 + 1 + Length(body, 1))]
  BY DEF ParseCertificateMessage
<1>9. ParseCertificateMessage(body, FALSE) =
        Entries(FALSE)[SubSeq(body, 1 + 2, 1 + 1 + Length(body, 1))]
  <2>1. Len(body) = 2 + Len(list)
    BY <1>1, <1>4, <1>5
  <2>2. ~(Len(body) < 2 \/ 1 + 1 > Len(body)
           \/ 1 + 1 + Length(body, 1) > Len(body))
    BY <1>1, <1>6, <2>1
  <2> QED BY <1>8, <2>2
<1>10. 1 + 2 = 3 /\ 1 + 1 + Len(list) = 2 + Len(list)
  BY <1>1
<1> QED BY <1>6, <1>7, <1>9, <1>10 DEF body

(* and behind the context of one of TLS 1.3.                               *)
LEMMA MessageOfTls13 ==
  ASSUME NEW context \in Seq(Nat), NEW list \in Seq(Nat)
  PROVE  ParseCertificateMessage(Short(context) \o WithLength(list), TRUE)
           = Entries(TRUE)[list]
<1> DEFINE body == Short(context) \o WithLength(list)
           s == Short(context)
           u == Units2(Len(list))
           start == 2 + Len(context)
           end == start + 1 + Len(list)
<1>1. Len(context) \in Nat /\ Len(list) \in Nat
  BY LenProperties
<1>2. s \in Seq(Nat) /\ Len(s) = 1 + Len(context) /\ s[1] = Len(context)
  <2> DEFINE l == <<Len(context)>>
  <2>1. l \in Seq(Nat) /\ Len(l) = 1 /\ l[1] = Len(context)
    BY <1>1
  <2>2. s = l \o context
    BY DEF Short
  <2> HIDE DEF l
  <2>3. /\ l \o context \in Seq(Nat)
        /\ Len(l \o context) = Len(l) + Len(context)
        /\ \A i \in 1 .. Len(l) + Len(context) :
             (l \o context)[i] = IF i <= Len(l) THEN l[i] ELSE context[i - Len(l)]
    BY <2>1, ConcatProperties
  <2> HIDE DEF s
  <2> QED BY <1>1, <2>1, <2>2, <2>3
<1>3. u \in Seq(Nat) /\ Len(u) = 2 /\ u[1] * LenBase + u[2] = Len(list)
  BY <1>1, LengthIsWritten
<1> HIDE DEF s, u
<1>0. s \in Seq(Nat) /\ u \in Seq(Nat)
  BY <1>2, <1>3
<1>4. body = s \o u \o list
  <2>1. body = s \o (u \o list)
    <3>1. WithLength(list) = u \o list
      BY DEF WithLength, Units2, u
    <3>2. body = s \o WithLength(list)
      BY DEF s
    <3> QED BY <3>1, <3>2
  <2>3. (s \o u) \o list = s \o (u \o list)
    BY <1>0, RegroupedConcat
  <2> HIDE DEF body
  <2> QED BY <1>0, <2>1, <2>3
<1> HIDE DEF body
<1>5. /\ Len(body) = Len(s) + Len(u) + Len(list)
      /\ \A i \in 1 .. Len(s) : body[i] = s[i]
  <2>1. Len(body) = Len(s) + Len(u) + Len(list)
    BY <1>0, <1>4, SliceOfConcat
  <2>2. \A i \in 1 .. Len(s) : body[i] = s[i]
    BY <1>0, <1>4, SliceOfConcat
  <2> QED BY <2>1, <2>2
<1>6. \A i \in 1 .. Len(u) : body[Len(s) + i] = u[i]
  BY <1>0, <1>4, SliceOfConcat
<1>7. SubSeq(body, Len(s) + Len(u) + 1, Len(s) + Len(u) + Len(list)) = list
  BY <1>0, <1>4, SliceOfConcat
<1>8. body[1] = Len(context)
  BY <1>1, <1>2, <1>5
<1>9. body[start] = u[1] /\ body[start + 1] = u[2]
  <2>1. /\ 1 \in 1 .. Len(u) /\ 2 \in 1 .. Len(u)
        /\ Len(s) + 1 = start /\ Len(s) + 2 = start + 1
    BY <1>1, <1>2, <1>3
  <2> QED BY <1>6, <2>1
<1>10. Length(body, start) = Len(list)
  BY <1>3, <1>9 DEF Length
<1>11. Len(body) = start + 1 + Len(list)
  BY <1>1, <1>2, <1>3, <1>5
<1>12. SubSeq(body, start + 2, end) = list
  <2>1. /\ Len(s) + Len(u) + 1 = start + 2
        /\ Len(s) + Len(u) + Len(list) = end
    BY <1>1, <1>2, <1>3
  <2> QED BY <1>7, <2>1
<1>13. 2 + body[1] = start
  BY <1>8
<1> HIDE DEF start
<1>14. ParseCertificateMessage(body, TRUE) =
         IF Len(body) < 2 \/ start + 1 > Len(body)
            \/ start + 1 + Length(body, start) > Len(body)
         THEN <<>>
         ELSE Entries(TRUE)[SubSeq(body, start + 2, start + 1 + Length(body, start))]
  BY <1>13 DEF ParseCertificateMessage
<1>15. start \in Nat /\ start >= 2
  BY <1>1 DEF start
<1>16. ~(Len(body) < 2 \/ start + 1 > Len(body) \/ end > Len(body))
  BY <1>1, <1>11, <1>15
<1> QED BY <1>10, <1>12, <1>14, <1>16 DEF body

(* Read in the form of TLS 1.3 a message of TLS 1.2 gives nothing: its     *)
(* length, if its first unit is 0, is one unit late, and so exceeds the    *)
(* message.                                                                *)
LEMMA MessageReadInWrongForm ==
  ASSUME NEW list \in Seq(Nat), Len(list) < LenBase
  PROVE  ParseCertificateMessage(WithLength(list), TRUE) = <<>>
<1> DEFINE body == WithLength(list)
           n == Len(list)
<1>1. n \in Nat /\ LenBase \in Nat \ {0} /\ n < LenBase
  BY LenProperties, UnitAssumption
<1>2. n \div LenBase = 0 /\ n % LenBase = n
  <2> HIDE DEF n
  <2>1. n = LenBase * 0 + n /\ n \in 0 .. LenBase - 1 /\ 0 \in Int
    BY <1>1
  <2> QED BY <1>1, <2>1
<1> DEFINE u == <<0, n>>
<1>3. /\ body = u \o list /\ u \in Seq(Nat) /\ Len(u) = 2
      /\ u[1] = 0 /\ u[2] = n
  BY <1>1, <1>2 DEF WithLength
<1> HIDE DEF u, body
<1>4. /\ Len(body) = 2 + n
      /\ \A i \in 1 .. 2 + n : body[i] = IF i <= 2 THEN u[i] ELSE list[i - 2]
  <2>1. /\ Len(u \o list) = Len(u) + Len(list)
        /\ \A i \in 1 .. Len(u) + Len(list) :
             (u \o list)[i] = IF i <= Len(u) THEN u[i] ELSE list[i - Len(u)]
    BY <1>3, ConcatProperties
  <2> QED BY <1>3, <2>1
<1>5. body[1] = 0 /\ body[2] = n
  BY <1>1, <1>3, <1>4
<1>6. CASE n = 0
  <2>1. 2 + body[1] + 1 > Len(body)
    BY <1>4, <1>5, <1>6
  <2> QED BY <2>1 DEF ParseCertificateMessage, body
<1>7. CASE n # 0
  <2>1. body[3] = list[1] /\ list[1] \in Nat
    <3>1. 3 \in 1 .. 2 + n /\ ~(3 <= 2) /\ 3 - 2 = 1 /\ 1 \in 1 .. n
      BY <1>1, <1>7
    <3>2. list[1] \in Nat
      BY <3>1, ElementOfSeq
    <3> QED BY <1>4, <3>1, <3>2
  <2>2. Length(body, 2 + body[1]) = n * LenBase + list[1]
    <3>1. 2 + body[1] = 2
      BY <1>5
    <3>2. Length(body, 2) = body[2] * LenBase + body[3]
      BY DEF Length
    <3> QED BY <1>5, <2>1, <3>1, <3>2
  <2>3. n * LenBase >= n
    <3> HIDE DEF n
    <3> QED BY <1>1
  <2>4. 2 + body[1] + 1 + Length(body, 2 + body[1]) > Len(body)
    <3> DEFINE p == n * LenBase
    <3>1. p \in Int
      BY <1>1
    <3>2. p >= n
      BY <2>3
    <3>3. Length(body, 2 + body[1]) = p + list[1]
      BY <2>2
    <3> HIDE DEF p, n
    <3> QED BY <1>1, <1>4, <1>5, <2>1, <3>1, <3>2, <3>3
  <2> QED BY <2>4 DEF ParseCertificateMessage, body
<1> QED BY <1>6, <1>7

(* So chains are read as they were written.                                *)
LEMMA ChainsOfInputs == ChainsAreRead
<1> SUFFICES ASSUME NEW chain \in Chains
             PROVE  LET list12 == Written(FALSE)[chain]
                        list13 == Written(TRUE)[chain]
                    IN  /\ ParseCertificateMessage(WithLength(list12), FALSE)
                             = CertsOfChain(chain)
                        /\ \A context \in Blobs :
                             ParseCertificateMessage(
                               Short(context) \o WithLength(list13), TRUE)
                               = CertsOfChain(chain)
                        /\ Len(list12) < LenBase =>
                             ParseCertificateMessage(WithLength(list12), TRUE) = <<>>
  BY DEF ChainsAreRead
<1>1. Blobs \subseteq Seq(Nat)
  <2> SUFFICES ASSUME NEW b \in Blobs PROVE b \in Seq(Nat)
    OBVIOUS
  <2>1. PICK n \in 0 .. MaxChain : b \in [1 .. n -> CertUnits]
    BY DEF Blobs
  <2>2. n \in Nat
    BY <2>1, UnitAssumption
  <2>3. CertUnits \subseteq Nat
    BY UnitAssumption
  <2>4. b \in [1 .. n -> Nat]
    BY <2>1, <2>3
  <2> QED BY <2>2, <2>4, SeqDef
<1>2. chain \in Seq(Entry)
  <2>1. PICK n \in 0 .. MaxChain :
               chain \in [1 .. n -> [cert : Blobs, exts : Blobs]]
    BY DEF Chains
  <2>2. n \in Nat
    BY <2>1, UnitAssumption
  <2>3. [cert : Blobs, exts : Blobs] \subseteq Entry
    BY <1>1 DEF Entry
  <2>4. chain \in [1 .. n -> Entry]
    BY <2>1, <2>3
  <2> QED BY <2>2, <2>4, SeqDef
<1>3. Written(FALSE)[chain] \in Seq(Nat) /\ Written(TRUE)[chain] \in Seq(Nat)
  BY <1>2, WrittenDef
<1>4. /\ Entries(FALSE)[Written(FALSE)[chain]] = CertsOfChain(chain)
      /\ Entries(TRUE)[Written(TRUE)[chain]] = CertsOfChain(chain)
  BY <1>2, ChainsAreReadBack
<1>5. ParseCertificateMessage(WithLength(Written(FALSE)[chain]), FALSE)
        = CertsOfChain(chain)
  BY <1>3, <1>4, MessageOfTls12
<1>6. ASSUME NEW context \in Blobs
      PROVE  ParseCertificateMessage(
               Short(context) \o WithLength(Written(TRUE)[chain]), TRUE)
               = CertsOfChain(chain)
  BY <1>1, <1>3, <1>4, MessageOfTls13
<1>7. ASSUME Len(Written(FALSE)[chain]) < LenBase
      PROVE  ParseCertificateMessage(WithLength(Written(FALSE)[chain]), TRUE)
               = <<>>
  BY <1>3, <1>7, MessageReadInWrongForm
<1> QED BY <1>5, <1>6, <1>7

----------------------------------------------------------------------------
(* However TCP cuts a stream, in every state of the sessions the record    *)
(* layer gives them the same messages (tls.go:97-123, capture.go:150-154). *)
THEOREM CutsAreAlwaysInvisible == Spec => []StreamsMayBeCutAnywhere
<1>1. StreamsMayBeCutAnywhere
  BY CutsOfInputs DEF StreamsMayBeCutAnywhere
<1> QED BY <1>1, PTL

(* A Certificate message gives the chain it was written for or, read in    *)
(* the wrong form, nothing, in every state (tls.go:326-371).               *)
THEOREM CertificatesAreAlwaysReadOrLost == Spec => []CertificatesAreReadOrLost
<1>1. CertificatesAreReadOrLost
  BY ChainsOfInputs DEF CertificatesAreReadOrLost
<1> QED BY <1>1, PTL
=============================================================================
