----------------------------- MODULE CertStore ------------------------------
(***************************************************************************)
(* certstore/certstore.go: Read walks the configured paths, parses every   *)
(* file by its extension and keeps each certificate once.                  *)
(*                                                                         *)
(* A file is what the parsers can tell of it: whether it can be read, the  *)
(* password it wants, and its blocks (PEM blocks, the bags of a PKCS#12    *)
(* file, the entries keytool prints), each a certificate or something else *)
(* (a key, a block that x509 rejects).  filepath.Walk is external: it      *)
(* gives the files in an order, one under two of the paths twice.          *)
(***************************************************************************)
EXTENDS Naturals, Sequences

CONSTANTS Certificates,  \* what x509.ParseCertificate accepts
          OtherBlock,    \* any other block of a file
          StoreConfigs   \* the configurations: [files, keytool]

Formats   == {"pem", "der", "pkcs12", "jks", "other"}
Guesses   == {"", "changeit", "password", "secret"}   \* of parsePKCS12
Files     == [path : Nat, format : Formats, readable : BOOLEAN,
              password : Guesses \union {"unguessed"},
              blocks : Seq(Certificates \union {OtherBlock})]

ASSUME BlockAssumption == OtherBlock \notin Certificates
ASSUME StoreAssumption ==
  StoreConfigs \subseteq [files : Seq(Files), keytool : BOOLEAN]

VARIABLES
  store,    \* the files in the order of the walk, and whether keytool is there
  file,     \* the position in the walk
  stored    \* the assets so far

storeVars == <<store, file, stored>>

(* certToAsset: the fingerprint stands for the certificate, and the path.  *)
StoredAsset(c, path) == [fingerprint |-> c, path |-> path]

StoreTypeOK ==
  /\ store \in StoreConfigs
  /\ file \in 1 .. Len(store.files) + 1
  /\ stored \subseteq [fingerprint : Certificates, path : Nat]

StoreInit == store \in StoreConfigs /\ file = 1 /\ stored = {}

----------------------------------------------------------------------------
(* Mutant: the first block that is no certificate ends the file.           *)
CertsUntilOther(f) ==
  {c \in Certificates :
     \E i \in DOMAIN f.blocks :
       f.blocks[i] = c /\ \A j \in 1 .. i : f.blocks[j] \in Certificates}

(* The loop over the blocks: others are skipped, with a warning or without.*)
CertsOf(f) == {c \in Certificates : \E i \in DOMAIN f.blocks : f.blocks[i] = c}

(* One certificate and nothing else.                                       *)
ParseDER(f) == IF Len(f.blocks) = 1 THEN CertsOf(f) ELSE {}

(* The guesses in turn, up to one that gives a certificate.                *)
ParsePKCS12(f) == IF f.password \in Guesses THEN CertsOf(f) ELSE {}

(* keytool, which may not be installed, with two guesses.                  *)
ParseJKS(f) ==
  IF store.keytool /\ f.password \in {"", "changeit"} THEN CertsOf(f) ELSE {}

ParseCertFile(f) ==
  IF ~f.readable THEN {}
  ELSE CASE f.format = "pem"     -> CertsOf(f)
         [] f.format = "der"     -> ParseDER(f)
         [] f.format = "pkcs12"  -> ParsePKCS12(f)
         [] f.format = "jks"     -> ParseJKS(f)
         [] f.format = "other"   -> {}

(* The walk's callback: a certificate seen before is not taken again.  No  *)
(* error ends the walk.                                                    *)
VisitFile ==
  /\ file <= Len(store.files)
  /\ LET f   == store.files[file]
         new == {c \in ParseCertFile(f) :
                   \A a \in stored : a.fingerprint # c}
     IN  stored' = stored \union {StoredAsset(c, f.path) : c \in new}
  /\ file' = file + 1
  /\ UNCHANGED store

(* Read returns, and never an error.                                       *)
StoreReturns == file > Len(store.files)
----------------------------------------------------------------------------
(* The reference: the probe can read c in file f.                          *)
Gives(f, c) ==
  /\ f.readable
  /\ \E k \in DOMAIN f.blocks : f.blocks[k] = c
  /\ \/ f.format = "pem"
     \/ f.format = "der" /\ Len(f.blocks) = 1
     \/ f.format = "pkcs12" /\ f.password # "unguessed"
     \/ f.format = "jks" /\ store.keytool /\ f.password \in {"", "changeit"}

FirstWith(c, i) ==
  /\ Gives(store.files[i], c)
  /\ \A j \in 1 .. i - 1 : ~Gives(store.files[j], c)

(* Read keeps each certificate that some file gives exactly once, under the*)
(* first path that has it, and what cannot be read or opened, or is no     *)
(* certificate, costs nothing but itself (certstore.go:44-69, 99-112).     *)
StoreIsComplete ==
  StoreReturns =>
    stored = {StoredAsset(ci[1], store.files[ci[2]].path) :
                ci \in {di \in Certificates \X DOMAIN store.files :
                          FirstWith(di[1], di[2])}}
=============================================================================
