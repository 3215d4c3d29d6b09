----------------------------- MODULE TlsSession -----------------------------
(***************************************************************************)
(* sniffer/tls.go and the stream factory of sniffer/capture.go: what the   *)
(* sniffer learns of the TLS connections of one address and port pair      *)
(* (connKey).  The streams of both directions share a tlsSession, which    *)
(* the first of them stores under the key and which stays there: a later   *)
(* connection of the pair loads the same one.                              *)
(*                                                                         *)
(* A handshake message is well formed and complete in one record, or the   *)
(* capture missed it.  The messages of a direction are parsed in order,    *)
(* those of the two directions in any order, one message at a time         *)
(* (LoopIsAlone of SnifferCapture).  The Certificate of TLS 1.3 is         *)
(* encrypted: the parser never sees one.                                   *)
(***************************************************************************)
EXTENDS Naturals, Sequences

CONSTANTS Names,           \* SNI hostnames
          NoName,          \* no server_name extension, or none seen yet
          MaxConnections   \* bound: connections of the pair, one after another

ASSUME NamesAssumption == NoName \notin Names
ASSUME ConnectionsAssumption == MaxConnections \in Nat

Hosts      == {"client", "server"}
Directions == {"toServer", "toClient"}
Messages   == {"ClientHello", "ServerHello", "Certificate"}

VARIABLES
  known,     \* the hosts whose port is in tlsServerPorts
  conns,     \* the connections so far: [version, sni], the last one current
  streams,   \* the stream objects of the current connection
  unseen,    \* its handshake messages not yet parsed and not missed
  session,   \* SUBSET: what sessions holds under the key, at most one
  heard,     \* history: the server_name of this connection was parsed
  assets,    \* history: the assets, with the connection they were found in
  lost       \* history: connections whose Certificate gave no asset

vars == <<known, conns, streams, unseen, session, heard, assets, lost>>

Connections == [version : {"1.2", "1.3"}, sni : Names \union {NoName}]
Sessions    == [serverIP : Hosts, sni : Names \union {NoName},
                isTLS13 : BOOLEAN]

TypeOK ==
  /\ known \subseteq Hosts
  /\ conns \in Seq(Connections) /\ Len(conns) <= MaxConnections
  /\ streams \subseteq Directions
  /\ unseen \subseteq Messages
  /\ session \subseteq Sessions
  /\ \A x, y \in session : x = y
  /\ heard \in BOOLEAN
  /\ assets \subseteq [conn : 1 .. Len(conns), message : Messages,
                       host : Hosts, sni : Names \union {NoName},
                       heard : BOOLEAN]
  /\ lost \subseteq 1 .. Len(conns)

Init ==
  /\ known \in SUBSET Hosts
  /\ conns = <<>>
  /\ streams = {} /\ unseen = {}
  /\ session = {}
  /\ heard = FALSE
  /\ assets = {} /\ lost = {}

Current == conns[Len(conns)]

----------------------------------------------------------------------------
(* The environment: the next connection of the pair.                       *)
Connect(c) ==
  /\ Len(conns) < MaxConnections
  /\ conns' = Append(conns, c)
  /\ streams' = {}
  /\ unseen' = IF c.version = "1.2" THEN Messages
                                    ELSE Messages \ {"Certificate"}
  /\ heard' = FALSE
  /\ UNCHANGED <<known, session, assets, lost>>

(* The capture does not see the message.                                   *)
Miss(m) ==
  /\ m \in unseen
  /\ unseen' = unseen \ {m}
  /\ UNCHANGED <<known, conns, streams, session, heard, assets, lost>>

----------------------------------------------------------------------------
Source(d)      == IF d = "toServer" THEN "client" ELSE "server"
Destination(d) == IF d = "toServer" THEN "server" ELSE "client"

(* The direction: a stream to a known TLS port is taken for the client's.  *)
ServerToClient(d) == Destination(d) \notin known

(* Mutant: serverIP is the destination of either direction.                *)
AlwaysDestination(d) == Destination(d)

ServerIP(d) == IF ServerToClient(d) THEN Source(d) ELSE Destination(d)

NewSession(d) == [serverIP |-> ServerIP(d), sni |-> NoName, isTLS13 |-> FALSE]

(* New: LoadOrStore keeps the session that is there.                       *)
New(d) ==
  /\ conns # <<>> /\ d \in Directions \ streams
  /\ streams' = streams \union {d}
  /\ session' = IF session = {} THEN {NewSession(d)} ELSE session
  /\ UNCHANGED <<known, conns, unseen, heard, assets, lost>>

----------------------------------------------------------------------------
(* An asset of message m, labelled from session s (hostLabel).             *)
Asset(m, s, h) == [conn |-> Len(conns), message |-> m, host |-> s.serverIP,
                   sni |-> s.sni, heard |-> h]

(* Mutant: setSNI keeps the first name.                                    *)
KeepFirstSNI(s) == IF s.sni # NoName THEN s ELSE [s EXCEPT !.sni = Current.sni]

(* setSNI, when the ClientHello has a server_name.                         *)
WithSNI(s) ==
  IF Current.sni = NoName THEN s ELSE [s EXCEPT !.sni = Current.sni]

ParseClientHello ==
  /\ "ClientHello" \in unseen /\ "toServer" \in streams
  /\ unseen' = unseen \ {"ClientHello"}
  /\ IF ServerToClient("toServer")
     THEN UNCHANGED <<session, heard, assets>>
     ELSE /\ session' = {WithSNI(s) : s \in session}
          /\ heard' = (Current.sni # NoName)
          /\ assets' = assets \union
                         {Asset("ClientHello", s, heard') : s \in session'}
  /\ UNCHANGED <<known, conns, streams, lost>>

(* Mutant: setTLS13 for either version.                                    *)
AlwaysTLS13(s) == [s EXCEPT !.isTLS13 = TRUE]

(* setTLS13, when supported_versions selects 1.3.                          *)
WithTLS13(s) ==
  IF Current.version = "1.3" THEN [s EXCEPT !.isTLS13 = TRUE] ELSE s

ParseServerHello ==
  /\ "ServerHello" \in unseen /\ "toClient" \in streams
  /\ unseen' = unseen \ {"ServerHello"}
  /\ IF ServerToClient("toClient")
     THEN /\ session' = {WithTLS13(s) : s \in session}
          /\ assets' = assets \union
                         {Asset("ServerHello", s, heard) : s \in session'}
     ELSE UNCHANGED <<session, assets>>
  /\ UNCHANGED <<known, conns, streams, heard, lost>>

(* A TLS 1.2 chain read in the form of TLS 1.3 is cut one byte too late:   *)
(* its length comes out 256 times too large and the message is dropped.    *)
ParseCertificate ==
  /\ "Certificate" \in unseen /\ "ServerHello" \notin unseen
  /\ "toClient" \in streams
  /\ unseen' = unseen \ {"Certificate"}
  /\ LET read == {s \in session : ~s.isTLS13}
     IN  IF ServerToClient("toClient")
         THEN /\ assets' = assets \union
                             {Asset("Certificate", s, heard) : s \in read}
              /\ lost' = lost \union {Len(conns) : s \in session \ read}
         ELSE UNCHANGED <<assets, lost>>
  /\ UNCHANGED <<known, conns, streams, session, heard>>

----------------------------------------------------------------------------
Next ==
  \/ \E c \in Connections : Connect(c)
  \/ \E m \in Messages : Miss(m)
  \/ \E d \in Directions : New(d)
  \/ ParseClientHello \/ ParseServerHello \/ ParseCertificate

Spec == Init /\ [][Next]_vars
----------------------------------------------------------------------------
(* If the server's port is a known TLS port and the client's is not, every *)
(* asset is attributed to the server, whichever direction came first and   *)
(* however many connections shared the session (capture.go:119-129).       *)
HostIsServer ==
  known = {"server"} => \A a \in assets : a.host = "server"

(* Once the server_name of a connection was parsed, its assets carry that  *)
(* name and not one an earlier connection left (tls.go:203, 211-212).      *)
OwnNameOnceHeard ==
  \A a \in assets : a.heard => a.sni = conns[a.conn].sni

(* A captured certificate message gives no asset only if an earlier        *)
(* connection of the pair was TLS 1.3 (tls.go:326-344).                    *)
LostOnlyAfterTls13 ==
  \A n \in lost : \E i \in 1 .. n - 1 : conns[i].version = "1.3"

(* tls.go:43-44: "tlsSession holds state shared between the two TCP stream *)
(* directions of a single TLS connection."                                 *)
SessionIsOfOneConnection ==
  known = {"server"} =>
    \A a \in assets : a.sni \in {NoName, conns[a.conn].sni}
=============================================================================
