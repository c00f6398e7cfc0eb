------------------------------ MODULE IPAddress ------------------------------
(***************************************************************************)
(* The value class IPAddress, the key of all the program's containers: the *)
(* unordered maps of the manager use Equals and GetHashCode, the sets of   *)
(* InterfaceConfig use Less.                                               *)
(*                                                                         *)
(* An address holds IPV6_ADDR_LEN bytes whatever its family, and they are  *)
(* all compared: those an IPv4 address does not use must not be left as    *)
(* they were found in memory.                                              *)
(***************************************************************************)
EXTENDS Integers, Sequences, FiniteSets

CONSTANTS
  Base,      \* a byte is a number below Base, a power of two
  V4Len,     \* IPV4_ADDR_LEN
  V6Len,     \* IPV6_ADDR_LEN, also IP_ADDR_LEN
  HashLen    \* sizeof(size_t)

Byte == 0 .. Base - 1

Data == [1 .. V6Len -> Byte]

ASSUME AddressAssumption ==
  /\ {Base, V4Len, V6Len, HashLen} \subseteq Nat \ {0}
  /\ Base > 1 /\ V4Len < V6Len /\ HashLen > 1

Addresses == [isValid : BOOLEAN, isV6 : BOOLEAN, data : Data]

-----------------------------------------------------------------------------
(***************************************************************************)
(* Constructors.                                                           *)
(***************************************************************************)
\* Mutant: the bytes are not zeroed.  memory is what the object is built in.
RawIPUncleared(source, memory) ==
  [i \in 1 .. V6Len |-> IF i <= Len(source) THEN source[i] ELSE memory[i]]

\* RawIP() and memcpy of at most IP_ADDR_LEN bytes.
RawIP(source, memory) ==
  [i \in 1 .. V6Len |-> IF i <= Len(source) THEN source[i] ELSE 0]

IsAddressLen(len) == len = V6Len \/ len = V4Len

\* From the bytes of a resource record, or of a netlink attribute.
FromRaw(source, memory) ==
  LET valid == IsAddressLen(Len(source))
  IN  [isValid |-> valid, isV6 |-> Len(source) = V6Len,
       data |-> RawIP(IF valid THEN source ELSE <<>>, memory)]

\* From a socket address, or from a string inet_pton reads as one: bytes is
\* what it holds if family is one of the two.
FromFamily(family, bytes, memory) ==
  LET valid == family \in {"inet", "inet6"}
  IN  [isValid |-> valid, isV6 |-> family = "inet6",
       data |-> RawIP(IF valid THEN bytes ELSE <<>>, memory)]

\* The default constructor.
NoAddress(memory) == [isValid |-> FALSE, isV6 |-> FALSE, data |-> RawIP(<<>>, memory)]

-----------------------------------------------------------------------------
(***************************************************************************)
(* Comparison and hashing.                                                 *)
(***************************************************************************)
Flags(a) == (IF a.isValid THEN 10 ELSE 0) + (IF a.isV6 THEN 1 ELSE 0)

\* memcmp(x, y) < 0: the first byte that differs decides.
Before(x, y) ==
  \E i \in 1 .. V6Len : x[i] < y[i] /\ \A j \in 1 .. i - 1 : x[j] = y[j]

Equals(a, b) == a.isValid = b.isValid /\ a.isV6 = b.isV6 /\ a.data = b.data

\* Mutant: an address of the lower family may still be the greater one.
LessDataFirst(a, b) == Flags(a) < Flags(b) \/ Before(a.data, b.data)

Less(a, b) ==
  Flags(a) < Flags(b) \/ (Flags(a) = Flags(b) /\ Before(a.data, b.data))

Greater(a, b) ==
  Flags(a) > Flags(b) \/ (Flags(a) = Flags(b) /\ Before(b.data, a.data))

Bit(n, k) == (n \div 2^k) % 2

\* The size_t all bytes are xor'ed into, from its highest byte down and around,
\* as the set of its bits, each a byte and a place in it.
GetHashCode(a) ==
  LET at(i) == HashLen - 1 - ((i - 1) % HashLen)
      ones(p, k) == {i \in 1 .. V6Len : at(i) = p /\ Bit(a.data[i], k) = 1}
                    \cup {i \in {0} : a.isValid /\ p = 0 /\ k = 0}
                    \cup {i \in {-1} : a.isV6 /\ p = 1 /\ k = 0}
  IN  {b \in (0 .. HashLen - 1) \X (0 .. Base - 2) :
         2^b[2] < Base /\ Cardinality(ones(b[1], b[2])) % 2 = 1}

-----------------------------------------------------------------------------
\* What a caller may hold: an address made from any bytes, in any memory.
Sources == UNION {[1 .. n -> Byte] : n \in 0 .. V6Len + 1}

Made == {FromRaw(s, m) : s \in Sources, m \in Data}
        \cup {FromFamily("inet", s, m) : s \in [1 .. V4Len -> Byte], m \in Data}
        \cup {NoAddress(m) : m \in Data}
=============================================================================
