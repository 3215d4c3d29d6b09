----------------------------- MODULE Addresses ------------------------------
(***************************************************************************)
(* scanner/scanner.go, the arithmetic of iterCIDR: an address is a         *)
(* sequence of bytes, most significant first, and a CIDR block is a base   *)
(* address with a number of leading ones in its mask.  The width of a byte *)
(* and the number of bytes are parameters, in the code 8 bits and 4 bytes: *)
(* no IPv6 address comes here.  Scanner works with the numbers that these  *)
(* addresses stand for.                                                    *)
(***************************************************************************)
EXTENDS Integers, Sequences

CONSTANTS ByteBits,   \* bits in a byte of an address
          AddrBytes   \* bytes in an address

ASSUME WidthAssumption == ByteBits \in Nat \ {0} /\ AddrBytes \in Nat \ {0}

(* 2 ^ n, as a function that can be reasoned about.                        *)
Pow2[n \in Nat] == IF n = 0 THEN 1 ELSE 2 * Pow2[n - 1]

Index     == 1 .. AddrBytes
Base      == Pow2[ByteBits]
AddrBits  == AddrBytes * ByteBits
IPs       == [Index -> 0 .. Base - 1]
CIDRs     == [ip : IPs, ones : 0 .. AddrBits]

----------------------------------------------------------------------------
(* What the host part of byte i can count to: ^mask[i] + 1.                *)
HostRange(ones, i) ==
  LET inByte == ones - (i - 1) * ByteBits
  IN  CASE inByte <= 0        -> Base
        [] inByte >= ByteBits -> 1
        [] OTHER              -> Pow2[ByteBits - inByte]

(* ip.Mask(ipnet.Mask).                                                    *)
Mask(ip, ones) == [i \in Index |-> ip[i] - (ip[i] % HostRange(ones, i))]

(* ipnet.Contains.                                                         *)
Contains(cidr, ip) == Mask(ip, cidr.ones) = Mask(cidr.ip, cidr.ones)

(* Mutant: a byte that wrapped to 0 does not carry.                        *)
IncWithoutCarry(ip) ==
  [ip EXCEPT ![AddrBytes] = (@ + 1) % Base]

(* incIP: the last byte that does not wrap takes the carry.                *)
IncIP(ip) ==
  [i \in Index |-> IF \A j \in i + 1 .. AddrBytes : ip[j] = Base - 1
                   THEN (ip[i] + 1) % Base
                   ELSE ip[i]]

(* incIP returns false when every byte wrapped.                            *)
Wraps(ip) == \A i \in Index : ip[i] = Base - 1

(* isLastAddr: all host bits are ones.                                     *)
IsLastAddr(ip, ones) ==
  \A i \in Index : ip[i] % HostRange(ones, i) = HostRange(ones, i) - 1

----------------------------------------------------------------------------
(* The number that the first i bytes of an address stand for.              *)
Value(ip) ==
  LET upTo[i \in 0 .. AddrBytes] ==
        IF i = 0 THEN 0 ELSE Base * upTo[i - 1] + ip[i]
  IN  upTo

ValueOf(ip) == Value(ip)[AddrBytes]

(* The reference: a block is an aligned interval of numbers.               *)
Size(cidr)  == Pow2[AddrBits - cidr.ones]
First(cidr) == Size(cidr) * (ValueOf(cidr.ip) \div Size(cidr))
Last(cidr)  == First(cidr) + Size(cidr) - 1

IncAddsOne ==
  \A ip \in IPs :
    /\ Wraps(ip) <=> ValueOf(ip) = Pow2[AddrBits] - 1
    /\ ValueOf(IncIP(ip)) = (ValueOf(ip) + 1) % Pow2[AddrBits]

BlocksAreIntervals ==
  \A cidr \in CIDRs :
    /\ ValueOf(Mask(cidr.ip, cidr.ones)) = First(cidr)
    /\ \A ip \in IPs :
         /\ Contains(cidr, ip) <=> ValueOf(ip) \in First(cidr) .. Last(cidr)
         /\ Contains(cidr, ip) =>
              (IsLastAddr(ip, cidr.ones) <=> ValueOf(ip) = Last(cidr))

(* The byte operations of iterCIDR, carries and masks that end inside a    *)
(* byte included, do on numbers what Scanner takes them to do: mask to the *)
(* first of an interval, test membership in it, recognise its last         *)
(* address, and add one with the wrap-around reported (scanner.go:275-325).*)
BytesAreNumbers == IncAddsOne /\ BlocksAreIntervals
=============================================================================
