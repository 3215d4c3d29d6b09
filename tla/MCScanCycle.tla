---------------------------- MODULE MCScanCycle -----------------------------
(* Addresses of two bytes of two bits for the byte operations, and of three*)
(* bits for the scan: every block of every size alone, the largest being   *)
(* the whole space, and a list with an overlap, a block of one address, a  *)
(* string that is no network, and a network of the other family.           *)
EXTENDS ScanCycle, Addresses

CONSTANTS certA, certB

Block(first, size) == [first |-> first, last |-> first + size - 1]
Blocks == {Block(size * k, size) : k \in 0 .. 7, size \in {1, 2, 4, 8}}

Alone == {[networks |-> <<n>>, ports |-> <<443>>, concurrency |-> 2] :
            n \in Blocks \intersect Networks}
Lists == {[networks |-> <<Block(0, 4), Invalid, Block(2, 1)>>,
           ports |-> <<443, 636>>, concurrency |-> c] : c \in {0, 1}}
         \union
         {[networks |-> <<V6, Block(4, 2)>>,
           ports |-> <<443>>, concurrency |-> 3]}
NoScan == [networks |-> <<>>, ports |-> <<443>>, concurrency |-> 2]

MCScanConfigs == Alone \union Lists \union {NoScan}

(* Files that differ in one respect each.                                  *)
File(p, format, readable, password, blocks) ==
  [path |-> p, format |-> format, readable |-> readable,
   password |-> password, blocks |-> blocks]
SomeFiles ==
  {File(1, f, TRUE, "", <<certA>>) : f \in Formats}
  \union {File(2, "pem", TRUE, "", <<OtherBlock, certA, OtherBlock, certB>>),
          File(3, "pem", FALSE, "", <<certB>>),
          File(4, "der", TRUE, "", <<certA, certB>>),
          File(5, "pkcs12", TRUE, "secret", <<certB, certA>>),
          File(6, "pkcs12", TRUE, "unguessed", <<certB>>),
          File(7, "jks", TRUE, "changeit", <<OtherBlock, certB>>),
          File(8, "jks", TRUE, "secret", <<certB>>)}
FileLists == {<<>>} \union {<<f, g>> : f, g \in SomeFiles}
NoStore == [files |-> <<>>, keytool |-> FALSE]
OneFile == [files |-> <<File(1, "pem", TRUE, "", <<certA>>)>>, keytool |-> TRUE]

MCStoreConfigs ==
  {NoStore, OneFile} \union [files : FileLists, keytool : BOOLEAN]

MCCycleConfigs ==
  [scan : MCScanConfigs \ {NoScan}, store : {NoStore, OneFile},
   enabled : {[scan |-> TRUE, store |-> TRUE]}]
  \union
  [scan : {NoScan}, store : MCStoreConfigs,
   enabled : {[scan |-> FALSE, store |-> TRUE]}]
  \union
  [scan : Lists, store : {OneFile},
   enabled : {[scan |-> TRUE, store |-> FALSE]}]

(* What iterCIDR starts from: its byte operations do on numbers what       *)
(* Scanner takes them to do (scanner.go:275-325).  It says nothing of the  *)
(* variables, so it is evaluated where a scan begins.                      *)
AddressesAreNumbers ==
  (phase = "scan" /\ net = 1 /\ ip = -1) => BytesAreNumbers
=============================================================================
