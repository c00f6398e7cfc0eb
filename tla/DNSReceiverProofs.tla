--------------------------- MODULE DNSReceiverProofs ---------------------------
(***************************************************************************)
(* Theorems about DNSReceiver and about the addresses it makes, for every  *)
(* size of a byte and of an address, every set of payloads and any number  *)
(* of frames: however the connection is cut into pieces, the parser stays  *)
(* at a place of the stream it knows, and the addresses it hands over are  *)
(* keys as good as any.                                                    *)
(***************************************************************************)
EXTENDS DNSReceiver, FiniteSetTheorems, SequenceTheorems, WellFoundedInduction, TLAPS

Bytes == Seq(Byte)

-----------------------------------------------------------------------------
(***************************************************************************)
(* Addresses.                                                              *)
(***************************************************************************)
\* What an address is made from is copied, and the rest of it is zero.
LEMMA RawIPType ==
  ASSUME NEW s \in Bytes, NEW m
  PROVE  RawIP(s, m) \in Data
<1>1. 0 \in Byte /\ V6Len \in Nat
  BY AddressAssumption DEF Byte
<1>2. ASSUME NEW i \in 1 .. V6Len, i <= Len(s) PROVE s[i] \in Byte
  BY <1>1, <1>2, ElementOfSeq DEF Bytes
<1> QED
  BY <1>1, <1>2 DEF RawIP, Data

\* No address is made from no bytes.
LEMMA NoBytes == <<>> \in Bytes /\ Len(<<>>) = 0
  BY EmptySeq DEF Bytes

LEMMA FromRawType ==
  ASSUME NEW s \in Bytes, NEW m
  PROVE  FromRaw(s, m) \in Addresses
<1>1. RawIP(s, m) \in Data /\ RawIP(<<>>, m) \in Data
  BY RawIPType, NoBytes
<1> QED
  BY <1>1 DEF FromRaw, Addresses, IsAddressLen

LEMMA FromFamilyType ==
  ASSUME NEW s \in Bytes, NEW m, NEW family
  PROVE  FromFamily(family, s, m) \in Addresses
<1>1. RawIP(s, m) \in Data /\ RawIP(<<>>, m) \in Data
  BY RawIPType, NoBytes
<1> QED
  BY <1>1 DEF FromFamily, Addresses

LEMMA MadeType == Made \subseteq Addresses
<1>1. ASSUME NEW n \in Nat, NEW s \in [1 .. n -> Byte] PROVE s \in Bytes
  BY IsASeq DEF Bytes
<1>2. Sources \subseteq Bytes
  BY <1>1, AddressAssumption DEF Sources
<1>3. [1 .. V4Len -> Byte] \subseteq Bytes
  BY <1>1, AddressAssumption
<1>4. \A m : NoAddress(m) \in Addresses
  BY RawIPType, NoBytes DEF NoAddress, Addresses
<1> QED
  BY <1>2, <1>3, <1>4, FromRawType, FromFamilyType DEF Made

\* The first byte at which two of them differ.
LEMMA FirstDifference ==
  ASSUME NEW x \in Data, NEW y \in Data, x # y
  PROVE  \E i \in 1 .. V6Len : x[i] # y[i] /\ \A j \in 1 .. i - 1 : x[j] = y[j]
<1> DEFINE D == {i \in 1 .. V6Len : x[i] # y[i]}
<1>0. V6Len \in Nat
  BY AddressAssumption
<1>1. D \subseteq Nat /\ D # {}
  BY <1>0 DEF Data
<1>2. PICK i \in D : \A j \in D : ~ (<<j, i>> \in OpToRel(<, Nat))
  <2> HIDE DEF D
  <2> QED
    BY <1>1, NatLessThanWellFounded, WFMin
<1>3. \A j \in D : ~ (j < i)
  <2> SUFFICES ASSUME NEW j \in D, j < i PROVE FALSE
    OBVIOUS
  <2> HIDE DEF D
  <2>1. <<j, i>> \in OpToRel(<, Nat)
    BY <1>1 DEF OpToRel
  <2> QED
    BY <2>1, <1>2
<1>4. ASSUME NEW j \in 1 .. i - 1 PROVE x[j] = y[j]
  <2>1. j \in 1 .. V6Len /\ j < i
    BY <1>0
  <2> QED
    BY <2>1, <1>3
<1> QED
  BY <1>4

\* memcmp orders the data.
LEMMA BeforeTotal ==
  ASSUME NEW x \in Data, NEW y \in Data
  PROVE  x = y \/ Before(x, y) \/ Before(y, x)
<1>0. V6Len \in Nat /\ Byte \subseteq Int
  BY AddressAssumption DEF Byte
<1> SUFFICES ASSUME x # y PROVE Before(x, y) \/ Before(y, x)
  OBVIOUS
<1>1. PICK i \in 1 .. V6Len : x[i] # y[i] /\ \A j \in 1 .. i - 1 : x[j] = y[j]
  BY FirstDifference
<1>2. x[i] < y[i] \/ y[i] < x[i]
  <2>1. x[i] \in Int /\ y[i] \in Int
    BY <1>0 DEF Data
  <2> QED
    BY <1>1, <2>1
<1>3. \A j \in 1 .. i - 1 : y[j] = x[j]
  BY <1>1
<1> QED
  BY <1>1, <1>2, <1>3 DEF Before

LEMMA BeforeStrict ==
  ASSUME NEW x \in Data, NEW y \in Data, Before(x, y)
  PROVE  x # y /\ ~Before(y, x)
<1>0. V6Len \in Nat /\ Byte \subseteq Int
  BY AddressAssumption DEF Byte
<1>1. PICK i \in 1 .. V6Len : x[i] < y[i] /\ \A j \in 1 .. i - 1 : x[j] = y[j]
  BY DEF Before
<1>2. x[i] \in Int /\ y[i] \in Int
  BY <1>0 DEF Data
<1>3. x # y
  BY <1>1, <1>2
<1>4. ASSUME NEW k \in 1 .. V6Len, y[k] < x[k], \A j \in 1 .. k - 1 : y[j] = x[j]
      PROVE  FALSE
  <2>1. x[k] \in Int /\ y[k] \in Int
    BY <1>0 DEF Data
  <2>2. ~(i \in 1 .. k - 1) /\ ~(k \in 1 .. i - 1) /\ i # k
    BY <1>1, <1>2, <1>4, <2>1
  <2> QED
    BY <2>2, <1>0
<1> QED
  BY <1>3, <1>4 DEF Before

LEMMA BeforeTransitive ==
  ASSUME NEW x \in Data, NEW y \in Data, NEW z \in Data, Before(x, y), Before(y, z)
  PROVE  Before(x, z)
<1>0. V6Len \in Nat /\ Byte \subseteq Int
  BY AddressAssumption DEF Byte
<1>1. PICK i \in 1 .. V6Len : x[i] < y[i] /\ \A j \in 1 .. i - 1 : x[j] = y[j]
  BY DEF Before
<1>2. PICK k \in 1 .. V6Len : y[k] < z[k] /\ \A j \in 1 .. k - 1 : y[j] = z[j]
  BY DEF Before
<1>3. \A j \in 1 .. V6Len : x[j] \in Int /\ y[j] \in Int /\ z[j] \in Int
  BY <1>0 DEF Data
<1>4. CASE i <= k
  <2>1. x[i] < z[i]
    BY <1>0, <1>1, <1>2, <1>3, <1>4
  <2>2. \A j \in 1 .. i - 1 : x[j] = z[j]
    BY <1>0, <1>1, <1>2, <1>4
  <2> QED
    BY <2>1, <2>2 DEF Before
<1>5. CASE k < i
  <2>1. x[k] < z[k]
    BY <1>0, <1>1, <1>2, <1>3, <1>5
  <2>2. \A j \in 1 .. k - 1 : x[j] = z[j]
    BY <1>0, <1>1, <1>2, <1>5
  <2> QED
    BY <2>1, <2>2 DEF Before
<1> QED
  BY <1>0, <1>4, <1>5

\* Two addresses are equal if they are the same, and the flags are those of both.
LEMMA EqualsIsSame ==
  ASSUME NEW a \in Addresses, NEW b \in Addresses
  PROVE  /\ Equals(a, b) <=> a = b
         /\ Flags(a) \in Int /\ Flags(b) \in Int
         /\ Flags(a) = Flags(b) <=> a.isValid = b.isValid /\ a.isV6 = b.isV6
<1>1. Equals(a, b) <=> a = b
  BY DEF Equals, Addresses
<1>2. /\ a.isValid \in BOOLEAN /\ a.isV6 \in BOOLEAN
      /\ b.isValid \in BOOLEAN /\ b.isV6 \in BOOLEAN
  BY DEF Addresses
<1>3. /\ Flags(a) \in Int /\ Flags(b) \in Int
      /\ Flags(a) = Flags(b) <=> a.isValid = b.isValid /\ a.isV6 = b.isV6
  BY <1>2 DEF Flags
<1> QED
  BY <1>1, <1>3

\* Of two addresses just one holds: the first is less, they are equal, the
\* second is less.
LEMMA LessIsTotal ==
  ASSUME NEW a \in Addresses, NEW b \in Addresses
  PROVE  <<Less(a, b), Equals(a, b), Less(b, a)>>
             \in {<<TRUE, FALSE, FALSE>>, <<FALSE, TRUE, FALSE>>, <<FALSE, FALSE, TRUE>>}
<1>1. a.data \in Data /\ b.data \in Data
  BY DEF Addresses
<1>2. /\ Less(a, b) \in BOOLEAN /\ Equals(a, b) \in BOOLEAN /\ Less(b, a) \in BOOLEAN
  BY DEF Less, Equals, Before
<1>3. /\ Flags(a) \in Int /\ Flags(b) \in Int
      /\ Flags(a) = Flags(b) <=> a.isValid = b.isValid /\ a.isV6 = b.isV6
  BY EqualsIsSame
<1>4. Before(a.data, b.data) => a.data # b.data /\ ~Before(b.data, a.data)
  BY <1>1, BeforeStrict
<1>5. Before(b.data, a.data) => a.data # b.data /\ ~Before(a.data, b.data)
  BY <1>1, BeforeStrict
<1>6. a.data = b.data \/ Before(a.data, b.data) \/ Before(b.data, a.data)
  BY <1>1, BeforeTotal
<1>7. Less(a, b) \/ Equals(a, b) \/ Less(b, a)
  BY <1>3, <1>6 DEF Less, Equals
<1>8. Less(a, b) => ~Equals(a, b) /\ ~Less(b, a)
  BY <1>3, <1>4 DEF Less, Equals
<1>9. Less(b, a) => ~Equals(a, b) /\ ~Less(a, b)
  BY <1>3, <1>5 DEF Less, Equals
<1> HIDE DEF Less, Equals
<1>10. CASE Less(a, b)
  <2>1. Less(a, b) = TRUE /\ Equals(a, b) = FALSE /\ Less(b, a) = FALSE
    BY <1>2, <1>8, <1>10
  <2> QED
    BY <2>1
<1>11. CASE Less(b, a)
  <2>1. Less(a, b) = FALSE /\ Equals(a, b) = FALSE /\ Less(b, a) = TRUE
    BY <1>2, <1>9, <1>11
  <2> QED
    BY <2>1
<1>12. CASE ~Less(a, b) /\ ~Less(b, a)
  <2>1. Less(a, b) = FALSE /\ Equals(a, b) = TRUE /\ Less(b, a) = FALSE
    BY <1>2, <1>7, <1>12
  <2> QED
    BY <2>1
<1> QED
  BY <1>10, <1>11, <1>12

LEMMA LessIsTransitive ==
  ASSUME NEW a \in Addresses, NEW b \in Addresses, NEW c \in Addresses,
         Less(a, b), Less(b, c)
  PROVE  Less(a, c)
<1>1. a.data \in Data /\ b.data \in Data /\ c.data \in Data
  BY DEF Addresses
<1>2. Flags(a) \in Int /\ Flags(b) \in Int /\ Flags(c) \in Int
  BY EqualsIsSame
<1>3. Before(a.data, b.data) /\ Before(b.data, c.data) => Before(a.data, c.data)
  BY <1>1, BeforeTransitive
<1> QED
  BY <1>2, <1>3 DEF Less

LEMMA GreaterIsLess ==
  ASSUME NEW a \in Addresses, NEW b \in Addresses
  PROVE  Less(a, b) <=> Greater(b, a)
<1>1. Flags(a) \in Int /\ Flags(b) \in Int
  BY EqualsIsSame
<1> QED
  BY <1>1 DEF Less, Greater

\* What is asked of the requests: each is made from the bytes of an address.
MadeFromBytes(a) ==
  \E s \in Bytes, m \in Data : IsAddressLen(Len(s)) /\ a = FromRaw(s, m)

\* The memory an address is built in does not show.
LEMMA MemoryIsCleared ==
  ASSUME NEW s, NEW m1, NEW m2
  PROVE  FromRaw(s, m1) = FromRaw(s, m2)
BY DEF FromRaw, RawIP

\* An address tells the bytes it was made from.
LEMMA SameAddressSameBytes ==
  ASSUME NEW s \in Bytes, NEW t \in Bytes, NEW m, NEW n, IsAddressLen(Len(s)),
         FromRaw(s, m) = FromRaw(t, n)
  PROVE  t = s
<1>0. V4Len \in Nat /\ V6Len \in Nat /\ V4Len < V6Len /\ Len(s) \in Nat /\ Len(t) \in Nat
  BY AddressAssumption, LenProperties DEF Bytes
<1>1. IsAddressLen(Len(t)) /\ (Len(s) = V6Len <=> Len(t) = V6Len)
  <2>1. FromRaw(s, m).isValid = FromRaw(t, n).isValid
    OBVIOUS
  <2>2. FromRaw(s, m).isV6 = FromRaw(t, n).isV6
    OBVIOUS
  <2>3. IsAddressLen(Len(s)) = IsAddressLen(Len(t))
    BY <2>1 DEF FromRaw
  <2>4. (Len(s) = V6Len) = (Len(t) = V6Len)
    BY <2>2 DEF FromRaw
  <2> QED
    BY <2>3, <2>4
<1>2. Len(s) = Len(t) /\ Len(s) <= V6Len
  BY <1>0, <1>1 DEF IsAddressLen
<1>3. RawIP(s, m) = RawIP(t, n)
  <2>1. FromRaw(s, m).data = FromRaw(t, n).data
    OBVIOUS
  <2> QED
    BY <1>1, <2>1 DEF FromRaw
<1>4. ASSUME NEW i \in 1 .. Len(s) PROVE s[i] = t[i]
  <2>1. i \in 1 .. V6Len /\ i <= Len(s) /\ i <= Len(t)
    BY <1>0, <1>2
  <2>2. RawIP(s, m)[i] = s[i] /\ RawIP(t, n)[i] = t[i]
    BY <2>1 DEF RawIP
  <2> QED
    BY <1>3, <2>2
<1> QED
  BY <1>2, <1>4, SeqEqual DEF Bytes

\* Requests made from bytes are good keys.
LEMMA KeysAreGood ==
  ASSUME \A i \in DOMAIN outbox : MadeFromBytes(outbox[i])
  PROVE  SameBytesSameKey /\ OrderIsTotal
<1> SUFFICES ASSUME NEW i \in DOMAIN outbox
             PROVE  /\ \A m \in Data :
                         LET same == {s \in Sources : Equals(outbox[i], FromRaw(s, m))}
                         IN  /\ Cardinality(same) = 1
                             /\ \A s \in same :
                                  /\ GetHashCode(FromRaw(s, m)) = GetHashCode(outbox[i])
                                  /\ Equals(outbox[i], FromFamily(IF Len(s) = V4Len THEN "inet" ELSE "inet6", s, m))
                    /\ \A b \in Made :
                         LET a == outbox[i]
                         IN  /\ <<Less(a, b), Equals(a, b), Less(b, a)>>
                                  \in {<<TRUE, FALSE, FALSE>>, <<FALSE, TRUE, FALSE>>, <<FALSE, FALSE, TRUE>>}
                             /\ Less(a, b) <=> Greater(b, a)
                             /\ \A c \in Made : Less(a, b) /\ Less(b, c) => Less(a, c)
  BY DEF SameBytesSameKey, OrderIsTotal
<1> DEFINE a == outbox[i]
<1>1. PICK t \in Bytes, n \in Data : IsAddressLen(Len(t)) /\ a = FromRaw(t, n)
  BY DEF MadeFromBytes
<1>2. a \in Addresses
  BY <1>1, FromRawType
<1>3. t \in Sources
  <2>1. Len(t) \in 0 .. V6Len + 1
    BY <1>1, AddressAssumption DEF IsAddressLen
  <2>2. t \in [1 .. Len(t) -> Byte]
    BY LenProperties DEF Bytes
  <2> QED
    BY <2>1, <2>2 DEF Sources
<1> HIDE DEF a
<1>4. ASSUME NEW m \in Data
      PROVE  LET same == {s \in Sources : Equals(a, FromRaw(s, m))}
             IN  /\ Cardinality(same) = 1
                 /\ \A s \in same :
                      /\ GetHashCode(FromRaw(s, m)) = GetHashCode(a)
                      /\ Equals(a, FromFamily(IF Len(s) = V4Len THEN "inet" ELSE "inet6", s, m))
  <2> DEFINE same == {s \in Sources : Equals(a, FromRaw(s, m))}
  <2>1. a = FromRaw(t, m)
    BY <1>1, MemoryIsCleared
  <2>2. same \subseteq {t}
    <3> SUFFICES ASSUME NEW s \in Sources, Equals(a, FromRaw(s, m)) PROVE s = t
      OBVIOUS
    <3>1. s \in Bytes
      BY IsASeq, AddressAssumption DEF Sources, Bytes
    <3>2. FromRaw(s, m) \in Addresses
      BY <3>1, FromRawType
    <3>3. FromRaw(t, m) = FromRaw(s, m)
      BY <1>2, <2>1, <3>2, EqualsIsSame
    <3> QED
      BY <1>1, <3>1, <3>3, SameAddressSameBytes
  <2>3. t \in same
    BY <1>2, <1>3, <2>1, EqualsIsSame
  <2>4. same = {t}
    BY <2>2, <2>3
  <2>5. Cardinality(same) = 1
    BY <2>4, FS_Singleton
  <2>6. Equals(a, FromFamily(IF Len(t) = V4Len THEN "inet" ELSE "inet6", t, m))
    <3>1. V4Len # V6Len
      BY AddressAssumption
    <3>2. FromRaw(t, m) = FromFamily(IF Len(t) = V4Len THEN "inet" ELSE "inet6", t, m)
      BY <1>1, <3>1 DEF FromRaw, FromFamily, IsAddressLen
    <3> QED
      BY <2>1, <3>2 DEF Equals
  <2> QED
    BY <2>1, <2>4, <2>5, <2>6
<1>5. ASSUME NEW b \in Made
      PROVE  /\ <<Less(a, b), Equals(a, b), Less(b, a)>>
                  \in {<<TRUE, FALSE, FALSE>>, <<FALSE, TRUE, FALSE>>, <<FALSE, FALSE, TRUE>>}
             /\ Less(a, b) <=> Greater(b, a)
             /\ \A c \in Made : Less(a, b) /\ Less(b, c) => Less(a, c)
  <2>1. b \in Addresses
    BY MadeType
  <2>2. \A c \in Made : Less(a, b) /\ Less(b, c) => Less(a, c)
    BY <1>2, <2>1, MadeType, LessIsTransitive
  <2> QED
    BY <1>2, <2>1, <2>2, LessIsTotal, GreaterIsLess
<1> QED
  BY <1>4, <1>5 DEF a

-----------------------------------------------------------------------------
(***************************************************************************)
(* The headers of the frames.                                              *)
(***************************************************************************)
\* What a frame may hold.
Payload == {p \in Bytes : Len(p) < BufferSize}

\* A number below the size of the buffer is two bytes, and they are it.
LEMMA TwoBytes ==
  ASSUME NEW n \in Nat, n < BufferSize
  PROVE  /\ n \div Base \in Byte /\ n % Base \in Byte
         /\ (n \div Base) * Base + (n % Base) = n
<1>0. Base \in Nat /\ Base > 1
  BY AddressAssumption
<1>1. n \div Base \in Nat /\ n % Base \in 0 .. Base - 1 /\ n = Base * (n \div Base) + (n % Base)
  BY <1>0
<1> DEFINE q == n \div Base
<1> DEFINE r == n % Base
<1>2. q \in Nat /\ r \in 0 .. Base - 1 /\ n = Base * q + r
  BY <1>1
<1> HIDE DEF q, r
<1>3. Base * q = q * Base
  BY <1>0, <1>2
<1>4. q < Base
  <2> SUFFICES ASSUME q >= Base PROVE FALSE
    BY <1>0, <1>2
  <2>1. Base * q >= Base * Base
    BY <1>0, <1>2
  <2> QED
    BY <1>0, <1>2, <2>1 DEF BufferSize
<1>5. q \in Byte /\ r \in Byte /\ q * Base + r = n
  BY <1>0, <1>2, <1>3, <1>4 DEF Byte
<1> QED
  BY <1>5 DEF q, r

\* Two bytes are a number below the size of the buffer.
LEMMA HeaderSize ==
  ASSUME NEW x \in Byte, NEW y \in Byte
  PROVE  x * Base + y \in 0 .. BufferSize - 1
<1>0. Base \in Nat /\ Base > 1 /\ x \in 0 .. Base - 1 /\ y \in 0 .. Base - 1
  BY AddressAssumption DEF Byte
<1>1. x * Base \in Nat
  BY <1>0
<1>2. x * Base <= (Base - 1) * Base
  BY <1>0
<1>3. (Base - 1) * Base = Base * Base - Base
  BY <1>0
<1>4. Base * Base \in Nat
  BY <1>0
<1> QED
  BY <1>0, <1>1, <1>2, <1>3, <1>4 DEF BufferSize

LEMMA EncodeProperties ==
  ASSUME NEW p \in Payload
  PROVE  /\ Encode(p) \in Bytes
         /\ Len(Encode(p)) = 2 + Len(p)
         /\ Encode(p)[1] = Len(p) \div Base /\ Encode(p)[2] = Len(p) % Base
         /\ \A k \in 1 .. Len(p) : Encode(p)[2 + k] = p[k]
<1> DEFINE header == <<Len(p) \div Base, Len(p) % Base>>
<1>1. p \in Seq(Byte) /\ Len(p) \in Nat /\ Len(p) < BufferSize
  BY LenProperties DEF Payload, Bytes
<1>2. Len(p) \div Base \in Byte /\ Len(p) % Base \in Byte
  BY <1>1, TwoBytes
<1>3. header \in Seq(Byte) /\ Len(header) = 2
      /\ header[1] = Len(p) \div Base /\ header[2] = Len(p) % Base
  BY <1>2
<1>4. Encode(p) = header \o p
  BY DEF Encode
<1> HIDE DEF header
<1>5. /\ header \o p \in Seq(Byte) /\ Len(header \o p) = 2 + Len(p)
      /\ \A i \in 1 .. 2 + Len(p) :
           (header \o p)[i] = IF i <= 2 THEN header[i] ELSE p[i - 2]
  <2>1. /\ header \o p \in Seq(Byte) /\ Len(header \o p) = Len(header) + Len(p)
        /\ \A i \in 1 .. Len(header) + Len(p) :
             (header \o p)[i] = IF i <= Len(header) THEN header[i] ELSE p[i - Len(header)]
    BY <1>1, <1>3, ConcatProperties
  <2> QED
    BY <1>3, <2>1
<1>6. \A k \in 1 .. Len(p) : 2 + k \in 1 .. 2 + Len(p) /\ ~(2 + k <= 2) /\ (2 + k) - 2 = k
  BY <1>1
<1>7. 1 \in 1 .. 2 + Len(p) /\ 2 \in 1 .. 2 + Len(p)
  BY <1>1
<1> QED
  BY <1>3, <1>4, <1>5, <1>6, <1>7 DEF Bytes

-----------------------------------------------------------------------------
(***************************************************************************)
(* A stream of frames, some of it read.                                    *)
(***************************************************************************)
\* Frame i of all begins after the place at[i - 1] of the stream, ends at at[i].
Places(all, at) ==
  /\ at \in [0 .. Len(all) -> Nat]
  /\ \A i \in 1 .. Len(all) : at[i] = at[i - 1] + 2 + Len(all[i])
  /\ \A i, j \in 0 .. Len(all) : i <= j => at[i] <= at[j]

\* From the place pos on, str holds the frames of all, as far as it goes.
Holds(all, at, pos, str) ==
  \A i \in 1 .. Len(all) : \A k \in 1 .. 2 + Len(all[i]) :
    pos < at[i - 1] + k /\ at[i - 1] + k <= pos + Len(str)
      => str[at[i - 1] + k - pos] = Encode(all[i])[k]

\* h frames of all and r bytes of the next are read, str is to be read: it ends
\* within the last frame or, if whole, just before it.
Cut(all, at, h, r, str, whole) ==
  /\ Places(all, at)
  /\ h \in 0 .. Len(all) - 1
  /\ r \in 0 .. 1 + Len(all[h + 1])
  /\ at[h] + r + Len(str) \in at[Len(all) - 1] .. at[Len(all)] - 1
  /\ whole => at[h] + r + Len(str) = at[Len(all) - 1]
  /\ Holds(all, at, at[h] + r, str)

\* Nothing is sent: any payload may be the one that is not sent in full.
LEMMA NothingSent ==
  ASSUME NEW p \in Payload
  PROVE  \E at : Cut(<<p>>, at, 0, 0, <<>>, TRUE)
<1> DEFINE all == <<p>>
<1> DEFINE at == [i \in 0 .. 1 |-> IF i = 0 THEN 0 ELSE 2 + Len(p)]
<1>1. Len(all) = 1 /\ all[1] = p /\ Len(<<>>) = 0
  OBVIOUS
<1>2. Len(p) \in Nat
  BY LenProperties DEF Payload, Bytes
<1> HIDE DEF all
<1>3. at[0] = 0 /\ at[1] = 2 + Len(p) /\ at \in [0 .. 1 -> Nat]
  BY <1>2
<1> HIDE DEF at
<1>4. Places(all, at)
  <2>1. \A i \in 1 .. Len(all) : i = 1 /\ i - 1 = 0
    BY <1>1
  <2>2. \A i, j \in 0 .. Len(all) : i <= j => at[i] <= at[j]
    BY <1>1, <1>2, <1>3
  <2> QED
    BY <1>1, <1>2, <1>3, <2>1, <2>2 DEF Places
<1>5. Holds(all, at, 0, <<>>)
  <2> SUFFICES ASSUME NEW i \in 1 .. Len(all), NEW k \in 1 .. 2 + Len(all[i]),
                      0 < at[i - 1] + k, at[i - 1] + k <= 0 + 0
               PROVE  FALSE
    BY <1>1 DEF Holds
  <2>1. at[i - 1] + k \in Int
    BY <1>1, <1>2, <1>3
  <2> QED
    BY <2>1
<1>6. at[0] + 0 + 0 = 0
  BY <1>3
<1>7. Cut(all, at, 0, 0, <<>>, TRUE)
  BY <1>1, <1>2, <1>3, <1>4, <1>5, <1>6 DEF Cut
<1> QED
  BY <1>7 DEF all

\* What the numbers are.
LEMMA CutNumbers ==
  ASSUME NEW all \in Seq(Payload), NEW at, NEW h, NEW r, NEW str \in Bytes, NEW whole,
         Cut(all, at, h, r, str, whole)
  PROVE  /\ Len(str) \in Nat /\ Len(all) \in Nat
         /\ h \in Nat /\ r \in Nat /\ h \in 0 .. Len(all) /\ h + 1 \in 1 .. Len(all)
         /\ Len(all[h + 1]) \in Nat /\ at[h] \in Nat
         /\ \A i \in 1 .. Len(all) : /\ Len(all[i]) \in Nat /\ at[i] \in Nat /\ at[i - 1] \in Nat
                                    /\ at[i] = at[i - 1] + 2 + Len(all[i])
<1>1. Len(str) \in Nat /\ Len(all) \in Nat
  BY LenProperties DEF Bytes
<1>2. at \in [0 .. Len(all) -> Nat]
  BY DEF Cut, Places
<1>3. \A i \in 1 .. Len(all) : Len(all[i]) \in Nat
  BY LenProperties DEF Payload, Bytes
<1>4. h \in 0 .. Len(all) - 1
  BY DEF Cut
<1>5. h \in 0 .. Len(all) /\ h + 1 \in 1 .. Len(all)
  BY <1>1, <1>4
<1>6. r \in Nat
  <2>1. r \in 0 .. 1 + Len(all[h + 1])
    BY DEF Cut
  <2> QED
    BY <2>1, <1>3, <1>5
<1>7. \A i \in 1 .. Len(all) : at[i] \in Nat /\ at[i - 1] \in Nat
  <2>1. \A i \in 1 .. Len(all) : i \in 0 .. Len(all) /\ i - 1 \in 0 .. Len(all)
    BY <1>1
  <2> QED
    BY <1>2, <2>1
<1>8. \A i \in 1 .. Len(all) : at[i] = at[i - 1] + 2 + Len(all[i])
  BY DEF Cut, Places
<1> QED
  BY <1>1, <1>2, <1>3, <1>4, <1>5, <1>6, <1>7, <1>8

\* What is left of a stream once n bytes of it are read.
LEMMA RestHolds ==
  ASSUME NEW all \in Seq(Payload), NEW at, NEW h, NEW r, NEW str \in Bytes, NEW whole,
         Cut(all, at, h, r, str, whole), NEW n \in 0 .. Len(str)
  PROVE  LET rest == SubSeq(str, n + 1, Len(str))
         IN  /\ at[h] + (r + n) + Len(rest) = at[h] + r + Len(str)
             /\ Holds(all, at, at[h] + (r + n), rest)
<1> DEFINE rest == SubSeq(str, n + 1, Len(str))
<1>1. /\ Len(str) \in Nat /\ Len(all) \in Nat
      /\ h \in Nat /\ r \in Nat /\ h \in 0 .. Len(all) /\ h + 1 \in 1 .. Len(all)
      /\ Len(all[h + 1]) \in Nat /\ at[h] \in Nat
      /\ \A i \in 1 .. Len(all) : /\ Len(all[i]) \in Nat /\ at[i] \in Nat /\ at[i - 1] \in Nat
                                 /\ at[i] = at[i - 1] + 2 + Len(all[i])
  BY CutNumbers
<1>2. /\ Len(rest) = Len(str) - n
      /\ \A i \in 1 .. Len(str) - n : rest[i] = str[n + i]
  BY <1>1 DEF Bytes
<1> HIDE DEF rest
<1>3. n \in Nat
  BY <1>1
<1>6. at[h] + (r + n) + Len(rest) = at[h] + r + Len(str)
  BY <1>1, <1>2, <1>3
<1>7. Holds(all, at, at[h] + (r + n), rest)
  <2> SUFFICES ASSUME NEW i \in 1 .. Len(all), NEW k \in 1 .. 2 + Len(all[i]),
                      at[h] + (r + n) < at[i - 1] + k,
                      at[i - 1] + k <= at[h] + (r + n) + Len(rest)
               PROVE  rest[at[i - 1] + k - (at[h] + (r + n))] = Encode(all[i])[k]
    BY DEF Holds
  <2>1. at[i - 1] \in Nat /\ k \in Int
    BY <1>1
  <2> DEFINE a == at[i - 1]
  <2> DEFINE b == at[h]
  <2>2. /\ a \in Nat /\ b \in Nat /\ k \in Int /\ r \in Nat /\ n \in Nat /\ Len(str) \in Nat
        /\ b + (r + n) < a + k
        /\ a + k <= b + r + Len(str)
    BY <1>1, <1>3, <1>6, <2>1
  <2>3. b + r < a + k => str[a + k - (b + r)] = Encode(all[i])[k]
    BY <2>2 DEF Cut, Holds
  <2> HIDE DEF a, b
  <2>4. b + r < a + k
    BY <2>2
  <2>5. a + k - (b + (r + n)) \in 1 .. Len(str) - n
    BY <2>2
  <2>6. n + (a + k - (b + (r + n))) = a + k - (b + r)
    BY <2>2
  <2>7. rest[a + k - (b + (r + n))] = Encode(all[i])[k]
    BY <1>2, <2>3, <2>4, <2>5, <2>6
  <2> QED
    BY <2>7 DEF a, b
<1> QED
  BY <1>6, <1>7 DEF rest

\* n bytes are read, and do not complete the frame.
LEMMA PieceRead ==
  ASSUME NEW all \in Seq(Payload), NEW at, NEW h, NEW r, NEW str \in Bytes, NEW whole,
         Cut(all, at, h, r, str, whole),
         NEW n \in 0 .. Len(str), r + n < 2 + Len(all[h + 1])
  PROVE  Cut(all, at, h, r + n, SubSeq(str, n + 1, Len(str)), whole)
<1> DEFINE rest == SubSeq(str, n + 1, Len(str))
<1>1. /\ Len(str) \in Nat /\ Len(all) \in Nat
      /\ h \in Nat /\ r \in Nat /\ h \in 0 .. Len(all) /\ h + 1 \in 1 .. Len(all)
      /\ Len(all[h + 1]) \in Nat /\ at[h] \in Nat
      /\ \A i \in 1 .. Len(all) : /\ Len(all[i]) \in Nat /\ at[i] \in Nat /\ at[i - 1] \in Nat
                                 /\ at[i] = at[i - 1] + 2 + Len(all[i])
  BY CutNumbers
<1>2. /\ at[h] + (r + n) + Len(rest) = at[h] + r + Len(str)
      /\ Holds(all, at, at[h] + (r + n), rest)
  BY RestHolds
<1> HIDE DEF rest
<1>3. r + n \in 0 .. 1 + Len(all[h + 1])
  BY <1>1
<1>4. Cut(all, at, h, r + n, rest, whole)
  BY <1>2, <1>3 DEF Cut
<1> QED
  BY <1>4 DEF rest

\* The frame is read, so it is not the last: that one is not sent in full.
LEMMA FrameRead ==
  ASSUME NEW all \in Seq(Payload), NEW at, NEW h, NEW r, NEW str \in Bytes, NEW whole,
         Cut(all, at, h, r, str, whole),
         NEW n \in 0 .. Len(str), r + n = 2 + Len(all[h + 1])
  PROVE  /\ h + 1 < Len(all)
         /\ Cut(all, at, h + 1, 0, SubSeq(str, n + 1, Len(str)), whole)
<1> DEFINE rest == SubSeq(str, n + 1, Len(str))
<1>1. /\ Len(str) \in Nat /\ Len(all) \in Nat
      /\ h \in Nat /\ r \in Nat /\ h \in 0 .. Len(all) /\ h + 1 \in 1 .. Len(all)
      /\ Len(all[h + 1]) \in Nat /\ at[h] \in Nat
      /\ \A i \in 1 .. Len(all) : /\ Len(all[i]) \in Nat /\ at[i] \in Nat /\ at[i - 1] \in Nat
                                 /\ at[i] = at[i - 1] + 2 + Len(all[i])
  BY CutNumbers
<1>2. /\ at[h] + (r + n) + Len(rest) = at[h] + r + Len(str)
      /\ Holds(all, at, at[h] + (r + n), rest)
  BY RestHolds
<1>3. Len(rest) \in Nat
  BY <1>1 DEF Bytes
<1> HIDE DEF rest
<1>4. (h + 1) - 1 = h
  BY <1>1
<1>5. at[h + 1] = at[h] + (r + n)
  <2> DEFINE b == at[h]
  <2> DEFINE m == Len(all[h + 1])
  <2>1. at[h + 1] = b + 2 + m
    BY <1>1, <1>4
  <2>2. b \in Nat /\ m \in Nat /\ r \in Nat /\ n \in Nat /\ r + n = 2 + m
    BY <1>1
  <2> HIDE DEF b, m
  <2>3. b + 2 + m = b + (r + n)
    BY <2>2
  <2> QED
    BY <2>1, <2>3 DEF b
<1>6. at[h + 1] \in Nat /\ at[h + 1] + 0 = at[h + 1]
  <2>1. at[h + 1] \in Nat
    BY <1>1
  <2> QED
    BY <2>1
<1>7. at[h] + r + Len(str) < at[Len(all)]
  <2>1. at[h] + r + Len(str) \in at[Len(all) - 1] .. at[Len(all)] - 1
    BY DEF Cut
  <2>2. Len(all) \in 1 .. Len(all)
    BY <1>1
  <2>3. at[Len(all)] \in Nat /\ at[Len(all) - 1] \in Nat
    BY <1>1, <2>2
  <2> DEFINE e == at[h] + r + Len(str)
  <2> DEFINE z == at[Len(all)]
  <2>4. e \in at[Len(all) - 1] .. z - 1 /\ z \in Nat /\ at[Len(all) - 1] \in Nat
    BY <2>1, <2>3
  <2> HIDE DEF e, z
  <2>5. e < z
    BY <2>4
  <2> QED
    BY <2>5 DEF e, z
<1>8. h + 1 # Len(all)
  BY <1>1, <1>2, <1>3, <1>5, <1>6, <1>7
<1>9. h + 1 < Len(all) /\ h + 1 \in 0 .. Len(all) - 1 /\ (h + 1) + 1 \in 1 .. Len(all)
  BY <1>1, <1>8
<1>10. 0 \in 0 .. 1 + Len(all[(h + 1) + 1])
  BY <1>1, <1>9
<1>11. Cut(all, at, h + 1, 0, rest, whole)
  BY <1>2, <1>5, <1>6, <1>9, <1>10 DEF Cut
<1> QED
  BY <1>9, <1>11 DEF rest

\* The next bytes of the stream are the next of the frame.
LEMMA BytesAhead ==
  ASSUME NEW all \in Seq(Payload), NEW at, NEW h, NEW r, NEW str \in Bytes, NEW whole,
         Cut(all, at, h, r, str, whole),
         NEW k \in 1 .. Len(str), r + k <= 2 + Len(all[h + 1])
  PROVE  str[k] = Encode(all[h + 1])[r + k]
<1>1. /\ Len(str) \in Nat /\ Len(all) \in Nat
      /\ h \in Nat /\ r \in Nat /\ h \in 0 .. Len(all) /\ h + 1 \in 1 .. Len(all)
      /\ Len(all[h + 1]) \in Nat /\ at[h] \in Nat
      /\ \A i \in 1 .. Len(all) : /\ Len(all[i]) \in Nat /\ at[i] \in Nat /\ at[i - 1] \in Nat
                                 /\ at[i] = at[i - 1] + 2 + Len(all[i])
  BY CutNumbers
<1>2. k \in Nat /\ (h + 1) - 1 = h /\ r + k \in 1 .. 2 + Len(all[h + 1])
  BY <1>1
<1> DEFINE b == at[h]
<1>3. b \in Nat /\ b + r < b + (r + k) /\ b + (r + k) <= b + r + Len(str)
      /\ b + (r + k) - (b + r) = k
  <2> DEFINE l == Len(str)
  <2>1. b \in Nat /\ r \in Nat /\ l \in Nat /\ k \in 1 .. l
    BY <1>1
  <2> HIDE DEF b, l
  <2>2. b + r < b + (r + k) /\ b + (r + k) <= b + r + l /\ b + (r + k) - (b + r) = k
    BY <2>1
  <2> QED
    BY <2>1, <2>2 DEF l
<1>4. Holds(all, at, b + r, str) /\ h + 1 \in 1 .. Len(all) /\ b = at[(h + 1) - 1]
  BY <1>1, <1>2 DEF Cut
<1> HIDE DEF b
<1>5. str[b + (r + k) - (b + r)] = Encode(all[h + 1])[r + k]
  BY <1>2, <1>3, <1>4 DEF Holds
<1> QED
  BY <1>3, <1>5

\* One more frame has a place, and so do the frames but the last.
LEMMA PlacesAppend ==
  ASSUME NEW s \in Seq(Payload), NEW q \in Payload, NEW at, Places(s, at)
  PROVE  \E at2 : Places(Append(s, q), at2) /\ \A i \in 0 .. Len(s) : at2[i] = at[i]
<1> DEFINE n == Len(s)
<1> DEFINE all == Append(s, q)
<1>1. /\ n \in Nat /\ Len(all) = n + 1 /\ all[n + 1] = q
      /\ \A i \in 1 .. n : all[i] = s[i]
  BY LenProperties, AppendProperties
<1>2. Len(q) \in Nat /\ \A i \in 1 .. n : Len(s[i]) \in Nat
  BY LenProperties DEF Payload, Bytes
<1>3. /\ at \in [0 .. n -> Nat]
      /\ \A i \in 1 .. n : at[i] = at[i - 1] + 2 + Len(s[i])
      /\ \A i, j \in 0 .. n : i <= j => at[i] <= at[j]
  BY DEF Places
<1> DEFINE m == Len(q)
<1> DEFINE at2 == [i \in 0 .. n + 1 |-> IF i <= n THEN at[i] ELSE at[n] + 2 + m]
<1> HIDE DEF n, all, m
<1>4. m \in Nat /\ n \in 0 .. n /\ at[n] \in Nat
  BY <1>1, <1>2, <1>3 DEF m
<1>5. /\ at2 \in [0 .. n + 1 -> Nat]
      /\ \A i \in 0 .. n : at2[i] = at[i] /\ at2[i] \in Nat /\ at2[i] <= at[n]
      /\ at2[n + 1] = at[n] + 2 + m
  BY <1>1, <1>3, <1>4
<1> HIDE DEF at2
<1>6. ASSUME NEW i \in 1 .. n + 1 PROVE at2[i] = at2[i - 1] + 2 + Len(all[i])
  <2>1. CASE i \in 1 .. n
    <3>1. i \in 0 .. n /\ i - 1 \in 0 .. n
      BY <1>1, <2>1
    <3> QED
      BY <1>1, <1>3, <1>5, <2>1, <3>1
  <2>2. CASE i = n + 1
    <3>1. i - 1 = n
      BY <1>1, <2>2
    <3> QED
      BY <1>1, <1>4, <1>5, <2>2, <3>1 DEF m
  <2> QED
    BY <1>1, <2>1, <2>2
<1>7. ASSUME NEW i \in 0 .. n + 1, NEW j \in 0 .. n + 1, i <= j PROVE at2[i] <= at2[j]
  <2>1. CASE j \in 0 .. n
    <3>1. i \in 0 .. n
      BY <1>1, <1>7, <2>1
    <3> QED
      BY <1>3, <1>5, <1>7, <2>1, <3>1
  <2>2. CASE j = n + 1 /\ i \in 0 .. n
    <3>1. at2[i] <= at[n] /\ at2[i] \in Nat
      BY <1>5, <2>2
    <3> QED
      BY <1>4, <1>5, <2>2, <3>1
  <2>3. CASE j = n + 1 /\ i = n + 1
    BY <1>4, <1>5, <2>3
  <2> QED
    BY <1>1, <1>7, <2>1, <2>2, <2>3
<1>8. Places(all, at2)
  BY <1>1, <1>5, <1>6, <1>7 DEF Places
<1> QED
  BY <1>5, <1>8 DEF all, n

LEMMA PlacesPrefix ==
  ASSUME NEW s \in Seq(Payload), NEW p \in Payload, NEW at, Places(Append(s, p), at)
  PROVE  \E at2 : Places(s, at2) /\ \A i \in 0 .. Len(s) : at2[i] = at[i]
<1> DEFINE n == Len(s)
<1> DEFINE all == Append(s, p)
<1>1. /\ n \in Nat /\ Len(all) = n + 1
      /\ \A i \in 1 .. n : all[i] = s[i]
  BY LenProperties, AppendProperties
<1>2. /\ at \in [0 .. Len(all) -> Nat]
      /\ \A i \in 1 .. Len(all) : at[i] = at[i - 1] + 2 + Len(all[i])
      /\ \A i, j \in 0 .. Len(all) : i <= j => at[i] <= at[j]
  BY DEF Places
<1> DEFINE at2 == [i \in 0 .. n |-> at[i]]
<1> HIDE DEF n, all
<1>3. \A i \in 0 .. n : i \in 0 .. n + 1
  BY <1>1
<1>4. at2 \in [0 .. n -> Nat] /\ \A i \in 0 .. n : at2[i] = at[i]
  BY <1>1, <1>2, <1>3
<1> HIDE DEF at2
<1>5. ASSUME NEW i \in 1 .. n PROVE at2[i] = at2[i - 1] + 2 + Len(s[i])
  <2>1. i \in 0 .. n /\ i - 1 \in 0 .. n /\ i \in 1 .. n + 1
    BY <1>1
  <2> QED
    BY <1>1, <1>2, <1>4, <2>1
<1>6. \A i, j \in 0 .. n : i <= j => at2[i] <= at2[j]
  BY <1>1, <1>2, <1>3, <1>4
<1>7. Places(s, at2)
  BY <1>4, <1>5, <1>6 DEF Places, n
<1> QED
  BY <1>4, <1>7 DEF n

\* all is the frames s, then q; t is bytes q's frame begins with.
Continues(all, at2, s, at, q, t) ==
  /\ all \in Seq(Payload) /\ Len(s) + 1 <= Len(all) /\ all[Len(s) + 1] = q
  /\ \A i \in 1 .. Len(s) : all[i] = s[i]
  /\ Places(all, at2) /\ \A i \in 0 .. Len(s) : at2[i] = at[i]
  /\ t \in Bytes /\ Len(t) <= 2 + Len(q) /\ \A k \in 1 .. Len(t) : t[k] = Encode(q)[k]

\* Behind the whole frames s the bytes t are sent.
LEMMA Lengthened ==
  ASSUME NEW s \in Seq(Payload), NEW p \in Payload, NEW q \in Payload,
         NEW at, NEW h, NEW r, NEW str \in Bytes, Cut(Append(s, p), at, h, r, str, TRUE),
         NEW all, NEW at2, NEW t, Continues(all, at2, s, at, q, t)
  PROVE  /\ h \in 0 .. Len(s)
         /\ h = Len(s) => r = 0
         /\ r \in 0 .. 1 + Len(all[h + 1])
         /\ at2[h] + r + Len(str \o t) = at2[Len(s)] + Len(t)
         /\ Holds(all, at2, at2[h] + r, str \o t)
<1>0. /\ all \in Seq(Payload) /\ Len(s) + 1 <= Len(all) /\ all[Len(s) + 1] = q
      /\ \A i \in 1 .. Len(s) : all[i] = s[i]
      /\ Places(all, at2) /\ \A i \in 0 .. Len(s) : at2[i] = at[i]
      /\ t \in Bytes /\ Len(t) <= 2 + Len(q) /\ \A k \in 1 .. Len(t) : t[k] = Encode(q)[k]
  BY DEF Continues
<1> USE <1>0
<1> DEFINE n == Len(s)
<1> DEFINE old == Append(s, p)
<1>1. /\ n \in Nat /\ Len(old) = n + 1 /\ old \in Seq(Payload)
      /\ \A i \in 1 .. n : old[i] = s[i]
  BY LenProperties, AppendProperties
<1>2. /\ Len(str) \in Nat
      /\ h \in Nat /\ r \in Nat /\ h \in 0 .. Len(old) /\ h + 1 \in 1 .. Len(old)
      /\ Len(old[h + 1]) \in Nat /\ at[h] \in Nat
      /\ \A i \in 1 .. Len(old) : /\ Len(old[i]) \in Nat /\ at[i] \in Nat /\ at[i - 1] \in Nat
                                 /\ at[i] = at[i - 1] + 2 + Len(old[i])
  BY <1>1, CutNumbers
<1>3. at[h] + r + Len(str) = at[n]
  <2>1. Len(old) - 1 = n
    BY <1>1
  <2> QED
    BY <2>1 DEF Cut
<1>4. Holds(old, at, at[h] + r, str) /\ r \in 0 .. 1 + Len(old[h + 1])
  BY DEF Cut
<1>5. \A i, j \in 0 .. Len(old) : i <= j => at[i] <= at[j]
  BY DEF Cut, Places
<1>6. /\ Len(t) \in Nat /\ Len(str \o t) = Len(str) + Len(t)
      /\ \A i \in 1 .. Len(str) : (str \o t)[i] = str[i]
      /\ \A k \in 1 .. Len(t) : (str \o t)[Len(str) + k] = t[k]
  <2>1. Len(str) \in Nat /\ Len(t) \in Nat
    BY LenProperties DEF Bytes
  <2>2. /\ Len(str \o t) = Len(str) + Len(t)
        /\ \A i \in 1 .. Len(str) + Len(t) :
             (str \o t)[i] = IF i <= Len(str) THEN str[i] ELSE t[i - Len(str)]
    BY ConcatProperties DEF Bytes
  <2> DEFINE l == Len(str)
  <2> DEFINE m == Len(t)
  <2>3. l \in Nat /\ m \in Nat
    BY <2>1
  <2> HIDE DEF l, m
  <2>4. \A i \in 1 .. l : i \in 1 .. l + m /\ i <= l
    BY <2>3
  <2>5. \A k \in 1 .. m : l + k \in 1 .. l + m /\ ~(l + k <= l) /\ l + k - l = k
    BY <2>3
  <2> QED
    BY <2>1, <2>2, <2>4, <2>5 DEF l, m
<1>7. Len(q) \in Nat /\ Len(all) \in Nat
  BY LenProperties DEF Payload, Bytes
<1>8. /\ at2 \in [0 .. Len(all) -> Nat]
      /\ \A i \in 1 .. Len(all) : at2[i] = at2[i - 1] + 2 + Len(all[i])
      /\ \A i, j \in 0 .. Len(all) : i <= j => at2[i] <= at2[j]
  BY DEF Places
<1> DEFINE b == at[h]
<1> DEFINE l == Len(str)
<1> DEFINE m == Len(t)
<1>9. h \in 0 .. n
  BY <1>1, <1>2
<1>10. at2[h] = b /\ at2[n] = at[n] /\ at[n] \in Nat /\ b \in Nat /\ l \in Nat /\ m \in Nat
  <2>1. n \in 0 .. n /\ n + 1 \in 1 .. Len(old) /\ (n + 1) - 1 = n
    BY <1>1
  <2> QED
    BY <1>2, <1>6, <1>9, <2>1
<1>11. b + r + l = at[n] /\ b + r + (l + m) = at[n] + m
  <2> DEFINE e == at[n]
  <2>1. b \in Nat /\ r \in Nat /\ l \in Nat /\ m \in Nat /\ e \in Nat /\ b + r + l = e
    BY <1>2, <1>3, <1>10
  <2> HIDE DEF b, l, m, e
  <2>2. b + r + (l + m) = e + m
    BY <2>1
  <2> QED
    BY <2>1, <2>2 DEF e
<1>12. h = n => r = 0
  BY <1>2, <1>10, <1>11
<1>13. r \in 0 .. 1 + Len(all[h + 1])
  <2>1. CASE h = n
    BY <1>7, <1>12, <2>1
  <2>2. CASE h # n
    <3>1. h + 1 \in 1 .. n
      BY <1>1, <1>9, <2>2
    <3>2. all[h + 1] = old[h + 1]
      BY <1>1, <3>1
    <3> QED
      BY <1>4, <3>2
  <2> QED
    BY <2>1, <2>2
<1> DEFINE str2 == str \o t
<1>14. at2[h] + r + Len(str2) = at2[n] + m
  BY <1>6, <1>10, <1>11
<1> HIDE DEF str2
<1>15. Holds(all, at2, b + r, str2)
  <2> SUFFICES ASSUME NEW i \in 1 .. Len(all), NEW k \in 1 .. 2 + Len(all[i]),
                      b + r < at2[i - 1] + k,
                      at2[i - 1] + k <= b + r + Len(str2)
               PROVE  str2[at2[i - 1] + k - (b + r)] = Encode(all[i])[k]
    BY DEF Holds
  <2> DEFINE a == at2[i - 1]
  <2> DEFINE c == Len(all[i])
  <2> DEFINE e == at[n]
  <2>1. a \in Nat /\ c \in Nat /\ k \in Nat /\ k <= 2 + c
    <3>1. i - 1 \in 0 .. Len(all) /\ Len(all[i]) \in Nat
      <4>1. i - 1 \in 0 .. Len(all)
        BY <1>7
      <4>2. all[i] \in Seq(Byte)
        BY ElementOfSeq DEF Payload, Bytes
      <4> QED
        BY <4>1, <4>2, LenProperties
    <3>2. k \in Nat /\ k <= 2 + Len(all[i])
      BY <3>1
    <3> QED
      BY <1>8, <3>1, <3>2
  <2>2. b + r < a + k /\ a + k <= b + r + (l + m) /\ Len(str2) = l + m
    <3>1. Len(str2) = l + m
      BY <1>6 DEF str2
    <3>2. b + r + Len(str2) = b + r + (l + m)
      BY <3>1
    <3> QED
      BY <3>1, <3>2
  <2>3. n \in Nat /\ r \in Nat /\ b \in Nat /\ l \in Nat /\ m \in Nat /\ e \in Nat
    BY <1>1, <1>2, <1>10
  <2>4. b + r + l = e /\ b + r + (l + m) = e + m
    BY <1>11
  <2>5. CASE i \in 1 .. n
    <3>1. i - 1 \in 0 .. n /\ i \in 0 .. Len(old) /\ n \in 0 .. Len(old) /\ i \in 1 .. Len(old) /\ i <= n
      BY <1>1, <2>5
    <3>2. a = at[i - 1] /\ old[i] = s[i] /\ all[i] = s[i]
      BY <1>1, <2>5, <3>1
    <3>3. at[i] = a + 2 + c /\ at[i] <= e
      BY <1>2, <1>5, <3>1, <3>2
    <3>4. a + k <= b + r + l
      <4> HIDE DEF a, b, c, e, l
      <4>1. a + 2 + c <= e
        BY <3>3
      <4> QED
        BY <2>1, <2>3, <2>4, <4>1
    <3>5. str[a + k - (b + r)] = Encode(all[i])[k]
      <4>1. Holds(old, at, b + r, str) /\ k \in 1 .. 2 + Len(old[i])
        BY <1>4, <3>2
      <4>2. b + r < at[i - 1] + k /\ at[i - 1] + k <= b + r + Len(str)
        BY <2>2, <3>2, <3>4
      <4> HIDE DEF b, old
      <4>3. str[at[i - 1] + k - (b + r)] = Encode(old[i])[k]
        BY <3>1, <4>1, <4>2 DEF Holds
      <4> QED
        BY <3>2, <4>3
    <3>6. a + k - (b + r) \in 1 .. l
      <4> HIDE DEF a, b, c, e, l
      <4> QED
        BY <2>1, <2>2, <2>3, <3>4
    <3> HIDE DEF a, b
    <3>7. str2[a + k - (b + r)] = str[a + k - (b + r)]
      BY <1>6, <3>6 DEF str2
    <3> QED
      BY <3>5, <3>7 DEF a, b
  <2>6. CASE i = n + 1
    <3>1. i - 1 = n
      BY <1>1, <2>6
    <3>2. a = e /\ all[i] = q
      BY <1>10, <2>6, <3>1
    <3>3. a + k - (b + r) = l + k /\ k \in 1 .. m
      <4> HIDE DEF a, b, c, e, l, m
      <4>1. b + r + l + k = a + k /\ k <= m
        BY <2>1, <2>2, <2>3, <2>4, <3>2
      <4>2. k \in 1 .. m
        <5>1. k >= 1
          OBVIOUS
        <5> QED
          BY <2>1, <2>3, <4>1, <5>1
      <4> QED
        BY <2>1, <2>3, <4>1, <4>2
    <3>4. str2[l + k] = t[k]
      BY <1>6, <3>3 DEF str2
    <3>5. t[k] = Encode(q)[k]
      BY <3>3
    <3> HIDE DEF a, b, l
    <3>6. str2[a + k - (b + r)] = Encode(all[i])[k]
      BY <3>2, <3>3, <3>4, <3>5
    <3> QED
      BY <3>6 DEF a, b
  <2>7. CASE n + 1 < i
    <3>1. /\ n + 1 \in 1 .. Len(all) /\ n + 1 \in 0 .. Len(all) /\ (n + 1) - 1 = n
          /\ i - 1 \in 0 .. Len(all) /\ n + 1 <= i - 1
      BY <1>1, <1>7, <2>7
    <3>2. at2[n + 1] <= a
      BY <1>8, <3>1
    <3> DEFINE z == Len(q)
    <3>3. at2[n + 1] = e + 2 + z
      BY <1>8, <1>10, <3>1
    <3>4. z \in Nat /\ m <= 2 + z
      BY <1>7
    <3> HIDE DEF a, b, e, l, m, z
    <3>5. e + 2 + z <= a
      BY <3>2, <3>3
    <3>6. FALSE
      BY <2>1, <2>2, <2>3, <2>4, <3>4, <3>5
    <3> QED
      BY <3>6
  <2> QED
    BY <1>1, <1>7, <2>5, <2>6, <2>7
<1> QED
  BY <1>9, <1>10, <1>12, <1>13, <1>14, <1>15 DEF str2

\* A frame is sent.
LEMMA FrameSent ==
  ASSUME NEW s \in Seq(Payload), NEW p \in Payload, NEW q \in Payload,
         NEW at, NEW h, NEW r, NEW str \in Bytes, Cut(Append(s, p), at, h, r, str, TRUE)
  PROVE  /\ h \in 0 .. Len(s)
         /\ h = Len(s) => r = 0
         /\ \E at2 : Cut(Append(Append(s, q), <<>>), at2, h, r, str \o Encode(q), TRUE)
<1> DEFINE n == Len(s)
<1> DEFINE with == Append(s, q)
<1> DEFINE all == Append(with, <<>>)
<1>1. /\ n \in Nat /\ with \in Seq(Payload) /\ Len(with) = n + 1 /\ with[n + 1] = q
      /\ \A i \in 1 .. n : with[i] = s[i]
  BY LenProperties, AppendProperties
<1>2. <<>> \in Payload /\ Len(<<>>) = 0
  <2>1. BufferSize > 0
    <3>1. Base \in Nat /\ Base > 1
      BY AddressAssumption
    <3> QED
      BY <3>1 DEF BufferSize
  <2> QED
    BY <2>1, NoBytes DEF Payload
<1>3. /\ all \in Seq(Payload) /\ Len(all) = n + 2
      /\ \A i \in 1 .. n + 1 : all[i] = with[i]
      /\ all[n + 2] = <<>>
  <2> HIDE DEF with
  <2>1. /\ all \in Seq(Payload) /\ Len(all) = Len(with) + 1
        /\ \A i \in 1 .. Len(with) : all[i] = with[i]
        /\ all[Len(with) + 1] = <<>>
    BY <1>1, <1>2, AppendProperties
  <2> QED
    BY <1>1, <2>1
<1>4. Places(Append(s, p), at)
  BY DEF Cut
<1>5. PICK at0 : Places(s, at0) /\ \A i \in 0 .. n : at0[i] = at[i]
  BY <1>4, PlacesPrefix
<1>6. PICK at1 : Places(with, at1) /\ \A i \in 0 .. n : at1[i] = at0[i]
  BY <1>5, PlacesAppend
<1>7. PICK at2 : Places(all, at2) /\ \A i \in 0 .. Len(with) : at2[i] = at1[i]
  <2> HIDE DEF with
  <2> QED
    BY <1>1, <1>2, <1>6, PlacesAppend
<1>8. \A i \in 0 .. n : at2[i] = at[i]
  BY <1>1, <1>5, <1>6, <1>7
<1> DEFINE t == Encode(q)
<1>9. t \in Bytes /\ Len(t) = 2 + Len(q)
  BY EncodeProperties
<1>10. /\ n + 1 <= Len(all) /\ all[n + 1] = q
       /\ \A i \in 1 .. n : all[i] = s[i]
  BY <1>1, <1>3
<1>11. Len(q) \in Nat
  BY LenProperties DEF Payload, Bytes
<1> HIDE DEF all, with
<1>12. /\ h \in 0 .. n
       /\ h = n => r = 0
       /\ r \in 0 .. 1 + Len(all[h + 1])
       /\ at2[h] + r + Len(str \o t) = at2[n] + Len(t)
       /\ Holds(all, at2, at2[h] + r, str \o t)
  <2>1. Len(t) <= 2 + Len(q) /\ \A k \in 1 .. Len(t) : t[k] = Encode(q)[k]
    BY <1>9, <1>11
  <2> QED
    <3>1. Continues(all, at2, s, at, q, t)
      BY <1>3, <1>7, <1>8, <1>9, <1>10, <2>1 DEF Continues
    <3> HIDE DEF t
    <3> QED
      BY <3>1, Lengthened
<1>13. /\ at2[n + 1] = at2[n] + Len(t) /\ at2[n + 2] = at2[n + 1] + 2
       /\ at2[n + 1] \in Nat /\ at2[n] \in Nat
  <2>1. /\ at2 \in [0 .. Len(all) -> Nat]
        /\ \A i \in 1 .. Len(all) : at2[i] = at2[i - 1] + 2 + Len(all[i])
    BY <1>7 DEF Places
  <2>2. /\ n + 1 \in 1 .. Len(all) /\ n + 2 \in 1 .. Len(all) /\ (n + 1) - 1 = n /\ (n + 2) - 1 = n + 1
        /\ n \in 0 .. Len(all) /\ n + 1 \in 0 .. Len(all)
    BY <1>1, <1>3
  <2>3. at2[n] \in Nat /\ at2[n + 1] \in Nat
    BY <2>1, <2>2
  <2>4. at2[n + 1] = at2[n] + 2 + Len(q) /\ at2[n + 2] = at2[n + 1] + 2 + 0
    BY <1>2, <1>3, <1>10, <2>1, <2>2
  <2> DEFINE x == at2[n]
  <2> DEFINE y == at2[n + 1]
  <2> DEFINE m == Len(q)
  <2>5. x \in Nat /\ y \in Nat /\ m \in Nat /\ y = x + 2 + m /\ at2[n + 2] = y + 2 + 0
    BY <1>11, <2>3, <2>4
  <2> HIDE DEF x, y, m
  <2>6. y = x + (2 + m) /\ y + 2 + 0 = y + 2
    BY <2>5
  <2> QED
    BY <1>9, <2>5, <2>6 DEF x, y, m
<1>14. Len(all) - 1 = n + 1 /\ h \in 0 .. Len(all) - 1
  BY <1>1, <1>3, <1>12
<1>15. at2[h] + r + Len(str \o t) = at2[n + 1]
  BY <1>12, <1>13
<1>16. at2[h] + r + Len(str \o t) \in at2[Len(all) - 1] .. at2[Len(all)] - 1
  BY <1>3, <1>13, <1>14, <1>15
<1>17. Cut(all, at2, h, r, str \o t, TRUE)
  BY <1>7, <1>12, <1>14, <1>15, <1>16 DEF Cut
<1> QED
  BY <1>12, <1>17 DEF all, with

\* The first bytes of a frame are sent, and not all of them.
LEMMA PartSent ==
  ASSUME NEW s \in Seq(Payload), NEW p \in Payload, NEW q \in Payload,
         NEW at, NEW h, NEW r, NEW str \in Bytes, Cut(Append(s, p), at, h, r, str, TRUE),
         NEW k \in 0 .. 1 + Len(q)
  PROVE  \E at2 : Cut(Append(s, q), at2, h, r, str \o SubSeq(Encode(q), 1, k), FALSE)
<1> DEFINE n == Len(s)
<1> DEFINE all == Append(s, q)
<1>1. /\ n \in Nat /\ all \in Seq(Payload) /\ Len(all) = n + 1 /\ all[n + 1] = q
      /\ \A i \in 1 .. n : all[i] = s[i]
  BY LenProperties, AppendProperties
<1>2. Places(Append(s, p), at)
  BY DEF Cut
<1>3. PICK at0 : Places(s, at0) /\ \A i \in 0 .. n : at0[i] = at[i]
  BY <1>2, PlacesPrefix
<1>4. PICK at2 : Places(all, at2) /\ \A i \in 0 .. n : at2[i] = at0[i]
  BY <1>3, PlacesAppend
<1>5. \A i \in 0 .. n : at2[i] = at[i]
  BY <1>3, <1>4
<1>6. Len(q) \in Nat /\ Encode(q) \in Bytes /\ Len(Encode(q)) = 2 + Len(q)
  BY LenProperties, EncodeProperties DEF Payload, Bytes
<1>7. k \in Nat /\ k <= 1 + Len(q)
  BY <1>6
<1> DEFINE t == SubSeq(Encode(q), 1, k)
<1>8. t \in Bytes /\ Len(t) = k /\ \A i \in 1 .. k : t[i] = Encode(q)[i]
  <2> DEFINE f == Encode(q)
  <2> HIDE DEF f
  <2>1. f \in Seq(Byte) /\ \A i \in 1 .. k : i \in 1 .. Len(f)
    BY <1>6, <1>7 DEF f, Bytes
  <2>2. \A i \in 1 .. k : f[i] \in Byte
    BY <2>1, ElementOfSeq
  <2>3. /\ SubSeq(f, 1, k) \in Seq(Byte)
        /\ Len(SubSeq(f, 1, k)) = IF 1 <= k THEN k - 1 + 1 ELSE 0
        /\ \A i \in 1 .. k - 1 + 1 : SubSeq(f, 1, k)[i] = f[1 + i - 1]
    BY <1>7, <2>2, SubSeqProperties
  <2>4. k - 1 + 1 = k /\ \A i \in 1 .. k : 1 + i - 1 = i
    BY <1>7
  <2>5. Len(SubSeq(f, 1, k)) = k
    BY <1>7, <2>3
  <2> QED
    BY <2>3, <2>4, <2>5 DEF f, Bytes
<1> HIDE DEF all, t
<1>9. /\ h \in 0 .. n
      /\ h = n => r = 0
      /\ r \in 0 .. 1 + Len(all[h + 1])
      /\ at2[h] + r + Len(str \o t) = at2[n] + Len(t)
      /\ Holds(all, at2, at2[h] + r, str \o t)
  <2>1. Len(t) <= 2 + Len(q) /\ \A i \in 1 .. Len(t) : t[i] = Encode(q)[i]
    BY <1>6, <1>7, <1>8
  <2>2. n + 1 <= Len(all)
    BY <1>1
  <2> QED
    <3>1. Continues(all, at2, s, at, q, t)
      BY <1>1, <1>4, <1>5, <1>8, <2>1, <2>2 DEF Continues
    <3> QED
      BY <3>1, Lengthened
<1>10. at2[n + 1] = at2[n] + 2 + Len(q) /\ at2[n] \in Nat
  <2>1. /\ at2 \in [0 .. Len(all) -> Nat]
        /\ \A i \in 1 .. Len(all) : at2[i] = at2[i - 1] + 2 + Len(all[i])
    BY <1>4 DEF Places
  <2>2. n + 1 \in 1 .. Len(all) /\ (n + 1) - 1 = n /\ n \in 0 .. Len(all)
    BY <1>1
  <2> QED
    BY <1>1, <2>1, <2>2
<1>11. Len(all) - 1 = n /\ h \in 0 .. Len(all) - 1
  BY <1>1, <1>9
<1>12. at2[h] + r + Len(str \o t) = at2[n] + k
  BY <1>8, <1>9
<1>13. at2[n] + k \in at2[n] .. at2[n + 1] - 1
  BY <1>6, <1>7, <1>10
<1>14. at2[h] + r + Len(str \o t) \in at2[Len(all) - 1] .. at2[Len(all)] - 1
  BY <1>1, <1>11, <1>12, <1>13
<1>15. Cut(all, at2, h, r, str \o t, FALSE)
  BY <1>4, <1>9, <1>11, <1>14 DEF Cut
<1> QED
  BY <1>15 DEF all, t

-----------------------------------------------------------------------------
(***************************************************************************)
(* The types.                                                              *)
(***************************************************************************)
LEMMA Sizes ==
  /\ Base \in Nat /\ Base > 1 /\ V6Len \in Nat /\ BufferSize \in Nat /\ BufferSize > 2
  /\ 0 \in Byte
<1>1. Base \in Nat /\ Base > 1 /\ V6Len \in Nat
  BY AddressAssumption
<1>2. Base * Base \in Nat /\ Base * Base > 2
  <2>1. Base * Base >= Base * 2
    BY <1>1
  <2> QED
    BY <1>1, <2>1
<1> QED
  BY <1>1, <1>2 DEF BufferSize, Byte

\* The payloads fit the buffer.
LEMMA PayloadsFit == Payloads \subseteq Payload
BY ReceiverAssumption DEF Payload, Bytes

\* What is read into the buffer are bytes, and so is what is left.
LEMMA ConsumeType ==
  ASSUME TypeOK, NEW n \in Nat, Consume(n)
  PROVE  /\ n \in 0 .. Len(stream)
         /\ data' \in [1 .. BufferSize -> Byte]
         /\ stream' \in Seq(Byte)
         /\ client' = client /\ sent' = sent
<1>1. stream \in Seq(Byte) /\ Len(stream) \in Nat /\ data \in [1 .. BufferSize -> Byte]
  BY LenProperties DEF TypeOK
<1>2. n \in 0 .. Len(stream)
  BY <1>1 DEF Consume
<1>3. \A i \in n + 1 .. Len(stream) : stream[i] \in Byte
  <2>1. \A i \in n + 1 .. Len(stream) : i \in 1 .. Len(stream)
    BY <1>1
  <2> QED
    BY <1>1, <2>1, ElementOfSeq
<1>4. SubSeq(stream, n + 1, Len(stream)) \in Seq(Byte)
  BY <1>1, <1>3, SubSeqProperties
<1>5. dataSize \in 1 .. BufferSize /\ dataLeft \in 1 .. dataSize
  BY DEF TypeOK
<1> DEFINE at == dataSize - dataLeft
<1>6. at \in Nat
  BY <1>5, Sizes
<1> HIDE DEF at
<1>7. \A i \in 1 .. BufferSize :
        (IF i \in at + 1 .. at + n THEN stream[i - at] ELSE data[i]) \in Byte
  <2> SUFFICES ASSUME NEW i \in 1 .. BufferSize, i \in at + 1 .. at + n
               PROVE  stream[i - at] \in Byte
    BY <1>1
  <2>1. i - at \in 1 .. Len(stream)
    BY <1>1, <1>2, <1>6, Sizes
  <2> QED
    BY <1>1, <2>1, ElementOfSeq
<1>8. Filled(n) \in [1 .. BufferSize -> Byte]
  BY <1>7 DEF Filled, at
<1> QED
  BY <1>2, <1>4, <1>8 DEF Consume

\* The number in a header.
LEMMA HeaderType ==
  ASSUME NEW d \in [1 .. BufferSize -> Byte]
  PROVE  DecodeHeader(d) \in 0 .. BufferSize - 1
<1>1. d[1] \in Byte /\ d[2] \in Byte
  BY Sizes
<1> QED
  BY <1>1, HeaderSize DEF DecodeHeader

\* The bytes of a payload.
LEMMA PayloadType ==
  ASSUME NEW d \in [1 .. BufferSize -> Byte], NEW n \in 1 .. BufferSize
  PROVE  /\ SubSeq(d, 1, n) \in Seq(Byte) /\ Len(SubSeq(d, 1, n)) = n
         /\ \A i \in 1 .. n : SubSeq(d, 1, n)[i] = d[i]
<1>1. n \in Nat /\ 1 <= n /\ \A i \in 1 .. n : d[i] \in Byte
  BY Sizes
<1>2. /\ SubSeq(d, 1, n) \in Seq(Byte)
      /\ Len(SubSeq(d, 1, n)) = IF 1 <= n THEN n - 1 + 1 ELSE 0
      /\ \A i \in 1 .. n - 1 + 1 : SubSeq(d, 1, n)[i] = d[1 + i - 1]
  BY <1>1, SubSeqProperties
<1>3. n - 1 + 1 = n /\ \A i \in 1 .. n : 1 + i - 1 = i
  BY <1>1
<1> QED
  BY <1>1, <1>2, <1>3

\* The requests of a payload that is a message.
LEMMA RequestsType ==
  ASSUME TypeOK, NEW payload \in DOMAIN Decode
  PROVE  /\ DOMAIN Requests(payload) \subseteq Nat
         /\ \A i \in DOMAIN Requests(payload) :
              /\ Requests(payload)[i] \in Addresses /\ Requests(payload)[i].isValid
              /\ MadeFromBytes(Requests(payload)[i])
<1> DEFINE rrs == Decode[payload]
<1> DEFINE valid == {i \in DOMAIN rrs : rrs[i].type \in {1, 28} /\ Address(rrs[i]).isValid}
<1>1. rrs \in Seq([type : Nat, rdata : Seq(Byte)])
  BY ReceiverAssumption
<1>2. DOMAIN rrs = 1 .. Len(rrs) /\ Len(rrs) \in Nat
  BY <1>1, LenProperties
<1>3. Requests(payload) = [i \in valid |-> Address(rrs[i])]
  BY DEF Requests
<1>4. ASSUME NEW i \in valid
      PROVE  /\ Address(rrs[i]) \in Addresses /\ Address(rrs[i]).isValid
             /\ MadeFromBytes(Address(rrs[i]))
  <2>1. rrs[i] \in [type : Nat, rdata : Seq(Byte)]
    BY <1>1, <1>2, ElementOfSeq
  <2> DEFINE s == rrs[i].rdata
  <2> DEFINE m == [j \in 1 .. V6Len |-> data[j]]
  <2>2. s \in Bytes
    BY <2>1 DEF Bytes
  <2>3. m \in Data
    <3>1. \A j \in 1 .. V6Len : j \in 1 .. BufferSize
      BY Sizes, ReceiverAssumption
    <3> QED
      BY <3>1 DEF TypeOK, Data
  <2>4. Address(rrs[i]) = FromRaw(s, m) /\ Address(rrs[i]).isValid
    BY DEF Address
  <2> HIDE DEF rrs, s, m
  <2>5. FromRaw(s, m) \in Addresses
    BY <2>2, FromRawType
  <2>6. IsAddressLen(Len(s))
    BY <2>4 DEF FromRaw
  <2> QED
    BY <2>2, <2>3, <2>4, <2>5, <2>6 DEF MadeFromBytes
<1>5. valid \subseteq Nat
  BY <1>2
<1> HIDE DEF valid
<1> QED
  BY <1>3, <1>4, <1>5

\* What is read is a header or a payload; a request is made from an address.
Types ==
  /\ TypeOK
  /\ headerPending => dataSize = 2
  /\ \A i \in DOMAIN outbox : MadeFromBytes(outbox[i])

LEMMA TypesInit == Init => Types
<1> SUFFICES ASSUME Init PROVE Types
  OBVIOUS
<1>1. DOMAIN <<>> = {} /\ <<>> \in Seq(Byte) /\ <<>> \in Seq(Payloads) /\ <<>> \in Seq(Seq(Byte))
  OBVIOUS
<1>2. outbox = <<>>
  BY DEF Init
<1>3. 2 \in 1 .. BufferSize /\ 2 \in 1 .. 2
  BY Sizes
<1>4. data \in [1 .. BufferSize -> Byte]
  BY Sizes DEF Init
<1>5. DOMAIN outbox = {}
  BY <1>1, <1>2
<1>6. TypeOK
  BY <1>1, <1>3, <1>4, <1>5 DEF Init, TypeOK
<1> QED
  BY <1>5, <1>6 DEF Init, Types

LEMMA TypesStep ==
  ASSUME Types, [Next]_vars
  PROVE  Types'
<1>0. /\ TypeOK
      /\ headerPending => dataSize = 2
      /\ \A i \in DOMAIN outbox : MadeFromBytes(outbox[i])
  BY DEF Types
<1> DEFINE Same == UNCHANGED <<parser, outbox, stream, handled>>
<1>1. CASE UNCHANGED vars
  BY <1>0, <1>1 DEF Types, TypeOK, vars
<1>2. CASE Connect
  BY <1>0, <1>2 DEF Types, TypeOK, Connect, parser
<1>3. CASE CloseClient
  <2>1. stream' \in Seq(Byte)
    <3>1. CASE UNCHANGED stream
      BY <1>0, <3>1 DEF TypeOK
    <3>2. CASE \E p \in Payloads : \E k \in 1 .. Len(Encode(p)) - 1 :
                 stream' = stream \o SubSeq(Encode(p), 1, k)
      <4>0. PICK p \in Payloads : \E k \in 1 .. Len(Encode(p)) - 1 :
                 stream' = stream \o SubSeq(Encode(p), 1, k)
        BY <3>2
      <4>1. PICK k \in 1 .. Len(Encode(p)) - 1 : stream' = stream \o SubSeq(Encode(p), 1, k)
        BY <4>0
      <4>2. Encode(p) \in Seq(Byte) /\ Len(Encode(p)) \in Nat
        <5>1. Encode(p) \in Seq(Byte)
          BY PayloadsFit, EncodeProperties DEF Bytes
        <5> QED
          BY <5>1, LenProperties
      <4> DEFINE f == Encode(p)
      <4> HIDE DEF f
      <4>3. SubSeq(f, 1, k) \in Seq(Byte)
        <5>1. k \in Int /\ \A i \in 1 .. k : i \in 1 .. Len(f)
          BY <4>2 DEF f
        <5>2. \A i \in 1 .. k : f[i] \in Byte
          BY <4>2, <5>1, ElementOfSeq DEF f
        <5> QED
          BY <5>1, <5>2, SubSeqProperties
      <4>4. stream \in Seq(Byte)
        BY <1>0 DEF TypeOK
      <4>5. stream \o SubSeq(f, 1, k) \in Seq(Byte)
        BY <4>3, <4>4, ConcatProperties
      <4> QED
        BY <4>1, <4>5 DEF f
    <3> QED
      BY <1>3, <3>1, <3>2 DEF CloseClient
  <2> QED
    BY <1>0, <1>3, <2>1 DEF Types, TypeOK, CloseClient, parser
<1>4. CASE ResetClient
  <2>1. <<>> \in Seq(Byte)
    OBVIOUS
  <2> QED
    BY <1>0, <1>4, <2>1 DEF Types, TypeOK, ResetClient, parser
<1>5. ASSUME NEW p \in Payloads, SendFrame(p) PROVE Types'
  <2>1. stream \in Seq(Byte) /\ Encode(p) \in Seq(Byte) /\ sent \in Seq(Payloads)
    BY <1>0, PayloadsFit, EncodeProperties DEF TypeOK, Bytes
  <2> DEFINE f == Encode(p)
  <2> HIDE DEF f
  <2>2. stream \o f \in Seq(Byte) /\ Append(sent, p) \in Seq(Payloads)
    BY <2>1, ConcatProperties, AppendProperties DEF f
  <2>3. stream' = stream \o f /\ sent' = Append(sent, p)
    BY <1>5 DEF SendFrame, f
  <2> QED
    BY <1>0, <1>5, <2>2, <2>3 DEF Types, TypeOK, SendFrame, parser
<1>6. CASE LoopHead
  <2>1. /\ receiver \in {"begin", "bindHead", "acceptHead", "readHead"}
        /\ receiver' \in {"open", "bind", "accept", "read", "stopped", "closing"}
    BY <1>6 DEF LoopHead, Goto, Body, Exit
  <2> QED
    BY <1>0, <1>6, <2>1 DEF Types, TypeOK, LoopHead, Goto, parser, external
<1>7. CASE OpenSocket
  BY <1>0, <1>7 DEF Types, TypeOK, OpenSocket, Goto, parser, external
<1>8. CASE BindFails
  BY <1>0, <1>8 DEF Types, TypeOK, BindFails, Goto, parser, external
<1>9. CASE Listen
  BY <1>0, <1>9 DEF Types, TypeOK, Listen, Goto, parser, external
<1>10. CASE AcceptTimeout
  BY <1>0, <1>10 DEF Types, TypeOK, AcceptTimeout, Goto, parser, external
<1>11. CASE Accept
  <2>1. 2 \in 1 .. BufferSize /\ 2 \in 1 .. 2 /\ <<>> \in Seq(Seq(Byte))
    BY Sizes
  <2>2. data' \in [1 .. BufferSize -> Byte]
    BY <1>11, Sizes DEF Accept, ResetParser
  <2> QED
    BY <1>0, <1>11, <2>1, <2>2 DEF Types, TypeOK, Accept, ResetParser, Goto, external
<1>12. CASE ReadTimeout
  BY <1>0, <1>12 DEF Types, TypeOK, ReadTimeout, Goto, parser, external
<1>13. ASSUME NEW n \in 1 .. Len(stream), ReadPart(n) PROVE Types'
  <2>1. n \in Nat /\ n >= 1
    BY <1>0, LenProperties DEF TypeOK
  <2>2. data' \in [1 .. BufferSize -> Byte] /\ stream' \in Seq(Byte) /\ client' = client /\ sent' = sent
    BY <1>0, <1>13, <2>1, ConsumeType DEF ReadPart
  <2>3. dataSize \in 1 .. BufferSize /\ dataLeft \in 1 .. dataSize /\ n < dataLeft
    BY <1>0, <1>13 DEF TypeOK, ReadPart
  <2>4. dataLeft - n \in 1 .. dataSize
    BY <2>1, <2>3, Sizes
  <2> QED
    BY <1>0, <1>13, <2>2, <2>4 DEF Types, TypeOK, ReadPart, Consume, Goto
<1>14. CASE ReadHeader
  <2>1. dataLeft \in Nat
    BY <1>0, Sizes DEF TypeOK
  <2>2. data' \in [1 .. BufferSize -> Byte] /\ stream' \in Seq(Byte) /\ client' = client /\ sent' = sent
    BY <1>0, <1>14, <2>1, ConsumeType DEF ReadHeader
  <2> DEFINE size == DecodeHeader(data')
  <2>3. size \in 0 .. BufferSize - 1
    BY <2>2, HeaderType
  <2>4. /\ headerPending' = (size < 1) /\ dataLeft' = dataSize'
        /\ dataSize' = IF size < 1 THEN 2 ELSE size
        /\ handled' = IF size < 1 THEN Append(handled, <<>>) ELSE handled
    BY <1>14 DEF ReadHeader, NextUnit
  <2> HIDE DEF size
  <2>5. dataSize' \in 1 .. BufferSize /\ dataLeft' \in 1 .. dataSize' /\ headerPending' \in BOOLEAN
        /\ (headerPending' => dataSize' = 2)
    <3>1. CASE size < 1
      <4>1. 2 \in 1 .. BufferSize /\ 2 \in 1 .. 2
        BY Sizes
      <4> QED
        BY <2>4, <3>1, <4>1
    <3>2. CASE ~(size < 1)
      <4>1. size \in 1 .. BufferSize /\ size \in 1 .. size
        BY <2>3, <3>2, Sizes
      <4>2. headerPending' = FALSE
        <5>1. size \in Int
          BY <2>3, Sizes
        <5>2. (size < 1) = FALSE
          BY <3>2, <5>1
        <5>3. headerPending' = (size < 1)
          BY <2>4, Zenon
        <5> QED
          BY <5>2, <5>3, Zenon
      <4>3. dataSize' = size /\ dataLeft' = size
        BY <2>4, <3>2
      <4> QED
        BY <4>1, <4>2, <4>3
    <3> QED
      BY <3>1, <3>2
  <2>6. handled' \in Seq(Seq(Byte))
    <3>1. handled \in Seq(Seq(Byte)) /\ <<>> \in Seq(Byte)
      BY <1>0 DEF TypeOK
    <3>2. Append(handled, <<>>) \in Seq(Seq(Byte))
      BY <3>1, AppendProperties
    <3> QED
      BY <2>4, <3>1, <3>2
  <2> QED
    BY <1>0, <1>14, <2>2, <2>5, <2>6 DEF Types, TypeOK, ReadHeader, Consume, Goto
<1>15. CASE ReadPayload
  <2>1. dataLeft \in Nat
    BY <1>0, Sizes DEF TypeOK
  <2>2. data' \in [1 .. BufferSize -> Byte] /\ stream' \in Seq(Byte) /\ client' = client /\ sent' = sent
    BY <1>0, <1>15, <2>1, ConsumeType DEF ReadPayload
  <2> DEFINE payload == SubSeq(data', 1, dataSize)
  <2>3. payload \in Seq(Byte)
    BY <1>0, <2>2, PayloadType DEF TypeOK
  <2>4. /\ handled' = Append(handled, payload)
        /\ outbox' = IF payload \in DOMAIN Decode THEN Requests(payload) ELSE <<>>
        /\ receiver' = IF DOMAIN outbox' = {} THEN "readHead" ELSE "deliver"
        /\ headerPending' = TRUE /\ dataSize' = 2 /\ dataLeft' = 2
        /\ UNCHANGED <<shutdownPending, reported>>
    BY <1>15 DEF ReadPayload
  <2> HIDE DEF payload
  <2>5. handled' \in Seq(Seq(Byte))
    BY <1>0, <2>3, <2>4, AppendProperties DEF TypeOK
  <2>6. /\ DOMAIN outbox' \subseteq Nat
        /\ \A i \in DOMAIN outbox' : /\ outbox'[i] \in Addresses /\ outbox'[i].isValid
                                     /\ MadeFromBytes(outbox'[i])
    <3>1. CASE payload \in DOMAIN Decode
      BY <1>0, <2>4, <3>1, RequestsType
    <3>2. CASE payload \notin DOMAIN Decode
      <4>1. DOMAIN <<>> = {}
        OBVIOUS
      <4>2. outbox' = <<>>
        BY <2>4, <3>2
      <4>3. DOMAIN outbox' = {}
        BY <4>1, <4>2
      <4> QED
        BY <4>3
    <3> QED
      BY <3>1, <3>2
  <2>7. receiver' \in {"readHead", "deliver"} /\ (receiver' = "deliver" <=> DOMAIN outbox' # {})
    BY <2>4
  <2>8. 2 \in 1 .. BufferSize /\ 2 \in 1 .. 2
    BY Sizes
  <2> QED
    BY <1>0, <2>2, <2>4, <2>5, <2>6, <2>7, <2>8 DEF Types, TypeOK
<1>16. CASE Disconnected
  BY <1>0, <1>16 DEF Types, TypeOK, Disconnected, Goto, parser, external
<1>17. CASE CloseSockets
  <2>1. <<>> \in Seq(Byte) /\ <<>> \in Seq(Payloads) /\ <<>> \in Seq(Seq(Byte))
    OBVIOUS
  <2> QED
    BY <1>0, <1>17, <2>1 DEF Types, TypeOK, CloseSockets, Goto, parser
<1>18. CASE Deliver
  <2>1. PICK i \in DOMAIN outbox : outbox' = [j \in DOMAIN outbox \ {i} |-> outbox[j]]
    BY <1>18 DEF Deliver
  <2>2. DOMAIN outbox' \subseteq DOMAIN outbox /\ \A j \in DOMAIN outbox' : outbox'[j] = outbox[j]
    BY <2>1
  <2>3. receiver' \in {"readHead", "deliver"} /\ (receiver' = "deliver" <=> DOMAIN outbox' # {})
    BY <1>18 DEF Deliver
  <2>4. /\ DOMAIN outbox' \subseteq Nat
        /\ \A j \in DOMAIN outbox' : /\ outbox'[j] \in Addresses /\ outbox'[j].isValid
                                     /\ MadeFromBytes(outbox'[j])
    BY <1>0, <2>2 DEF TypeOK
  <2> QED
    BY <1>0, <1>18, <2>3, <2>4 DEF Types, TypeOK, Deliver, parser, external
<1>19. CASE Interrupted
  BY <1>0, <1>19 DEF Types, TypeOK, Interrupted, Goto, parser, external
<1>20. CASE Fails
  BY <1>0, <1>20 DEF Types, TypeOK, Fails, HandleError, parser, external
<1>21. CASE OnShutdown
  BY <1>0, <1>21 DEF Types, TypeOK, OnShutdown, parser, external
<1>22. CASE Finished
  BY <1>1, <1>22 DEF Finished
<1> QED
  BY <1>1, <1>2, <1>3, <1>4, <1>5, <1>6, <1>7, <1>8, <1>9, <1>10, <1>11, <1>12, <1>13,
     <1>14, <1>15, <1>16, <1>17, <1>18, <1>19, <1>20, <1>21, <1>22
  DEF Next, ClientStep, Run

\* The variables keep their types; above all, what is still to be read fits the
\* buffer, for every header and for every piece that read returns.
THEOREM ReceiverTypes == Spec => []TypeOK
<1>1. Types /\ [Next]_vars => Types'
  BY TypesStep
<1>2. Types => TypeOK
  BY DEF Types
<1> QED
  BY TypesInit, <1>1, <1>2, PTL DEF Spec

\* An address handed to the manager is a key as good as those made elsewhere,
\* whatever the buffer held: the same bytes make an equal one with the same hash,
\* and no other bytes do.
THEOREM RequestsAreKeys == Spec => []SameBytesSameKey
<1>1. Types /\ [Next]_vars => Types'
  BY TypesStep
<1>2. Types => SameBytesSameKey
  BY KeysAreGood DEF Types
<1> QED
  BY TypesInit, <1>1, <1>2, PTL DEF Spec

\* Less orders the addresses handed to the manager with all others, and agrees
\* with Equals: a map finds an address by either.
THEOREM RequestsAreOrdered == Spec => []OrderIsTotal
<1>1. Types /\ [Next]_vars => Types'
  BY TypesStep
<1>2. Types => OrderIsTotal
  BY KeysAreGood DEF Types
<1> QED
  BY TypesInit, <1>1, <1>2, PTL DEF Spec

-----------------------------------------------------------------------------
(***************************************************************************)
(* The place of the parser in the stream.                                  *)
(***************************************************************************)
\* The connection, or the next one, is not given up.
Alive == receiver \notin {"closing", "interrupted", "stopped", "failed"}

\* The bytes of the next frame that are read.
PartRead == IF Connected THEN (IF headerPending THEN 0 ELSE 2) + (dataSize - dataLeft) ELSE 0

\* The buffer holds what is read of the header or payload of p's frame.
Buffered(p) ==
  Connected =>
    /\ headerPending => \A k \in 1 .. dataSize - dataLeft : data[k] = Encode(p)[k]
    /\ ~headerPending =>
         /\ dataSize = Len(p)
         /\ \A k \in 1 .. dataSize - dataLeft : data[k] = p[k]

\* The frames sent, and the one of p the client has begun or may still send,
\* are where the parser takes them to be.
Framed(p, at) ==
  /\ Cut(Append(sent, p), at, Len(handled), PartRead, stream, client \in {"none", "open"})
  /\ Buffered(Append(sent, p)[Len(handled) + 1])

FramesInv ==
  /\ client = "none" => stream = <<>> /\ sent = <<>>
  /\ client = "reset" => stream = <<>>
  /\ Alive => Len(handled) <= Len(sent) /\ \A i \in 1 .. Len(handled) : handled[i] = sent[i]
  /\ Alive /\ ~Connected => handled = <<>>
  /\ Alive /\ client # "reset" => \E p \in Payload : \E at : Framed(p, at)

\* The numbers and sequences of a state.
LEMMA ParserNumbers ==
  ASSUME Types
  PROVE  /\ dataSize \in Nat /\ dataLeft \in Nat /\ dataLeft >= 1 /\ dataLeft <= dataSize
         /\ dataSize \in 1 .. BufferSize
         /\ headerPending => dataSize = 2
         /\ stream \in Bytes /\ Len(stream) \in Nat
         /\ sent \in Seq(Payload) /\ Len(sent) \in Nat
         /\ handled \in Seq(Bytes) /\ Len(handled) \in Nat
         /\ data \in [1 .. BufferSize -> Byte]
<1>1. dataSize \in 1 .. BufferSize /\ dataLeft \in 1 .. dataSize
  BY DEF Types, TypeOK
<1>2. dataSize \in Nat /\ dataLeft \in Nat /\ dataLeft >= 1 /\ dataLeft <= dataSize
  BY <1>1, Sizes
<1>3. sent \in Seq(Payload)
  BY PayloadsFit, SeqMonotonic DEF Types, TypeOK
<1> QED
  BY <1>1, <1>2, <1>3, LenProperties DEF Types, TypeOK, Bytes

\* With nothing of a frame read, any frame may be the next.
LEMMA BufferedNothing ==
  ASSUME Types, PartRead = 0, NEW p
  PROVE  Buffered(p)
<1>1. /\ dataSize \in Nat /\ dataLeft \in Nat /\ dataLeft <= dataSize
  BY ParserNumbers
<1> SUFFICES ASSUME Connected PROVE Buffered(p)
  BY DEF Buffered
<1>2. headerPending /\ dataSize - dataLeft = 0
  BY <1>1 DEF PartRead
<1> QED
  BY <1>2 DEF Buffered

\* Before anything is sent.
LEMMA FreshStream ==
  \E p \in Payload : \E at : Cut(Append(<<>>, p), at, Len(<<>>), 0, <<>>, TRUE)
<1>1. <<>> \in Payload
  BY NoBytes, Sizes DEF Payload
<1>2. Append(<<>>, <<>>) = << <<>> >> /\ Len(<<>>) = 0
  OBVIOUS
<1>3. \E at : Cut(<< <<>> >>, at, 0, 0, <<>>, TRUE)
  BY <1>1, NothingSent
<1> QED
  BY <1>1, <1>2, <1>3

LEMMA FramesInit == Init => FramesInv
<1> SUFFICES ASSUME Init PROVE FramesInv
  OBVIOUS
<1>1. /\ client = "none" /\ stream = <<>> /\ sent = <<>> /\ handled = <<>> /\ receiver = "begin"
  BY DEF Init
<1>2. ~Connected
  BY <1>1 DEF Connected
<1>3. PartRead = 0 /\ \A p : Buffered(p)
  BY <1>2 DEF PartRead, Buffered
<1>4. (client \in {"none", "open"}) = TRUE
  BY <1>1
<1>5. PICK p \in Payload : \E at : Cut(Append(<<>>, p), at, Len(<<>>), 0, <<>>, TRUE)
  BY FreshStream
<1>6. \E at : Framed(p, at)
  BY <1>1, <1>3, <1>4, <1>5 DEF Framed
<1>7. Len(handled) <= Len(sent) /\ \A i \in 1 .. Len(handled) : handled[i] = sent[i]
  BY <1>1
<1> QED
  BY <1>1, <1>6, <1>7 DEF FramesInv

\* The connection stands still.
LEMMA FramesStill ==
  ASSUME FramesInv, UNCHANGED <<parser, stream, sent, handled>>,
         client' = client \/ (client = "none" /\ client' = "open"),
         Alive' => Alive /\ Connected' = Connected
  PROVE  FramesInv'
<1>1. CASE ~Alive'
  BY <1>1 DEF FramesInv
<1>2. CASE Alive'
  <2>1. Alive /\ Connected' = Connected
    BY <1>2
  <2>2. (client \in {"none", "open"})' = (client \in {"none", "open"})
    OBVIOUS
  <2>3. /\ headerPending' = headerPending /\ dataLeft' = dataLeft /\ dataSize' = dataSize /\ data' = data
        /\ stream' = stream /\ sent' = sent /\ handled' = handled
    BY DEF parser
  <2>4. PartRead' = PartRead
    BY <2>1, <2>3 DEF PartRead
  <2>5. \A p : Buffered(p)' = Buffered(p)
    BY <2>1, <2>3 DEF Buffered
  <2>6. \A p, at : Framed(p, at) => Framed(p, at)'
    BY <2>2, <2>3, <2>4, <2>5 DEF Framed
  <2> QED
    BY <2>1, <2>3, <2>6 DEF FramesInv
<1> QED
  BY <1>1, <1>2

\* What n more bytes make of the buffer.
LEMMA BufferFilled ==
  ASSUME Types, Connected, NEW p \in Payload, NEW at, Framed(p, at),
         NEW n \in Nat, n <= dataLeft, Consume(n)
  PROVE  LET next == Append(sent, p)[Len(handled) + 1]
         IN  /\ next \in Payload /\ Len(next) \in Nat
             /\ headerPending =>
                  \A k \in 1 .. dataSize - dataLeft + n : data'[k] = Encode(next)[k]
             /\ ~headerPending =>
                  /\ dataSize = Len(next)
                  /\ \A k \in 1 .. dataSize - dataLeft + n : data'[k] = next[k]
<1> DEFINE all == Append(sent, p)
<1> DEFINE h == Len(handled)
<1> DEFINE next == all[h + 1]
<1> DEFINE z == dataSize - dataLeft
<1>1. /\ dataSize \in Nat /\ dataLeft \in Nat /\ dataLeft <= dataSize /\ dataSize \in 1 .. BufferSize
      /\ headerPending => dataSize = 2
      /\ stream \in Bytes /\ Len(stream) \in Nat
      /\ sent \in Seq(Payload) /\ data \in [1 .. BufferSize -> Byte]
  BY ParserNumbers
<1>2. all \in Seq(Payload)
  BY <1>1, AppendProperties
<1>3. Cut(all, at, h, PartRead, stream, client \in {"none", "open"}) /\ Buffered(next)
  BY DEF Framed
<1>4. PartRead = (IF headerPending THEN 0 ELSE 2) + z
  BY DEF PartRead
<1> HIDE DEF all, h
<1>5. PartRead \in Nat /\ h + 1 \in 1 .. Len(all)
  BY <1>1, <1>2, <1>3, CutNumbers
<1>6. next \in Payload
  BY <1>2, <1>5, ElementOfSeq
<1>7. Len(next) \in Nat
  BY <1>6, LenProperties DEF Payload, Bytes
<1>8. z \in Nat /\ z + n <= dataSize /\ z <= BufferSize /\ BufferSize \in Nat
  BY <1>1, Sizes
<1>9. n <= Len(stream)
  BY DEF Consume
<1>10. \A k \in 1 .. n : PartRead + k <= 2 + Len(next) => stream[k] = Encode(next)[PartRead + k]
  <2> SUFFICES ASSUME NEW k \in 1 .. n, PartRead + k <= 2 + Len(next)
               PROVE  stream[k] = Encode(next)[PartRead + k]
    OBVIOUS
  <2>1. k \in 1 .. Len(stream)
    BY <1>1, <1>9
  <2> QED
    BY <1>1, <1>2, <1>3, <2>1, BytesAhead
<1>11. \A k \in 1 .. z + n :
         /\ k \in 1 .. z => data'[k] = data[k]
         /\ k \notin 1 .. z => k - z \in 1 .. n /\ data'[k] = stream[k - z]
  <2> SUFFICES ASSUME NEW k \in 1 .. z + n
               PROVE  /\ k \in 1 .. z => data'[k] = data[k]
                      /\ k \notin 1 .. z => k - z \in 1 .. n /\ data'[k] = stream[k - z]
    OBVIOUS
  <2>1. data' = [i \in 1 .. BufferSize |-> IF i \in z + 1 .. z + n THEN stream[i - z] ELSE data[i]]
    BY DEF Consume, Filled
  <2> HIDE DEF z
  <2>2. k \in 1 .. BufferSize
    BY <1>1, <1>8
  <2>3. k \in 1 .. z => k \notin z + 1 .. z + n
    BY <1>8
  <2>4. k \notin 1 .. z => k \in z + 1 .. z + n /\ k - z \in 1 .. n
    BY <1>8
  <2> QED
    BY <2>1, <2>2, <2>3, <2>4
<1> HIDE DEF next
<1>12. ASSUME headerPending, NEW k \in 1 .. z + n PROVE data'[k] = Encode(next)[k]
  <2>1. dataSize = 2 /\ PartRead = z
    BY <1>1, <1>4, <1>8, <1>12
  <2> HIDE DEF z
  <2>2. CASE k \in 1 .. z
    <3>1. data[k] = Encode(next)[k]
      BY <1>3, <1>12, <2>2 DEF Buffered, z
    <3> QED
      BY <1>11, <2>2, <3>1
  <2>3. CASE k \notin 1 .. z
    <3>1. k - z \in 1 .. n /\ data'[k] = stream[k - z]
      BY <1>11, <2>3
    <3>2. PartRead + (k - z) = k /\ k <= 2 + Len(next)
      BY <1>7, <1>8, <2>1
    <3> QED
      BY <1>10, <3>1, <3>2
  <2> QED
    BY <2>2, <2>3
<1>13. ASSUME ~headerPending PROVE dataSize = Len(next)
  BY <1>3, <1>13 DEF Buffered
<1>14. ASSUME ~headerPending, NEW k \in 1 .. z + n PROVE data'[k] = next[k]
  <2>1. dataSize = Len(next) /\ PartRead = 2 + z
    BY <1>4, <1>13, <1>14
  <2> HIDE DEF z
  <2>2. CASE k \in 1 .. z
    <3>1. data[k] = next[k]
      BY <1>3, <1>14, <2>2 DEF Buffered, z
    <3> QED
      BY <1>11, <2>2, <3>1
  <2>3. CASE k \notin 1 .. z
    <3>1. k - z \in 1 .. n /\ data'[k] = stream[k - z]
      BY <1>11, <2>3
    <3>2. PartRead + (k - z) = 2 + k /\ 2 + k <= 2 + Len(next) /\ k \in 1 .. Len(next)
      BY <1>1, <1>7, <1>8, <2>1
    <3>3. Encode(next)[2 + k] = next[k]
      BY <1>6, <3>2, EncodeProperties
    <3> QED
      BY <1>10, <3>1, <3>2, <3>3
  <2> QED
    BY <2>2, <2>3
<1> QED
  BY <1>6, <1>7, <1>12, <1>13, <1>14 DEF next, all, h

\* The client sends a frame.
LEMMA FramesSendFrame ==
  ASSUME Types, FramesInv, NEW q \in Payloads, SendFrame(q)
  PROVE  FramesInv'
<1>1. /\ client = "open" /\ client' = "open"
      /\ stream' = stream \o Encode(q) /\ sent' = Append(sent, q)
      /\ UNCHANGED <<receiver, headerPending, dataLeft, dataSize, data, handled>>
  BY DEF SendFrame, parser
<1>2. Alive' = Alive /\ Connected' = Connected /\ PartRead' = PartRead /\ \A p : Buffered(p)' = Buffered(p)
  BY <1>1 DEF Alive, Connected, PartRead, Buffered
<1> SUFFICES ASSUME Alive PROVE FramesInv'
  BY <1>1, <1>2 DEF FramesInv
<1>3. PICK p \in Payload : \E at : Framed(p, at)
  BY <1>1 DEF FramesInv
<1>4. PICK at : Framed(p, at)
  BY <1>3
<1>5. /\ stream \in Bytes /\ sent \in Seq(Payload) /\ Len(sent) \in Nat /\ Len(handled) \in Nat
      /\ q \in Payload
  BY ParserNumbers, PayloadsFit
<1> DEFINE h == Len(handled)
<1> DEFINE n == Len(sent)
<1>6. Cut(Append(sent, p), at, h, PartRead, stream, TRUE)
  <2>1. (client \in {"none", "open"}) = TRUE
    BY <1>1
  <2> QED
    BY <1>4, <2>1 DEF Framed
<1>7. /\ h \in 0 .. n
      /\ h = n => PartRead = 0
      /\ \E at2 : Cut(Append(Append(sent, q), <<>>), at2, h, PartRead, stream \o Encode(q), TRUE)
  BY <1>5, <1>6, FrameSent
<1>8. PICK at2 : Cut(Append(Append(sent, q), <<>>), at2, h, PartRead, stream \o Encode(q), TRUE)
  BY <1>7
<1>9. Buffered(Append(Append(sent, q), <<>>)[h + 1])
  <2>1. CASE h = n
    BY <1>7, <2>1, BufferedNothing
  <2>2. CASE h # n
    <3>1. h + 1 \in 1 .. n /\ h + 1 \in 1 .. n + 1
      BY <1>5, <1>7, <2>2
    <3>2. Append(sent, p)[h + 1] = sent[h + 1]
      BY <1>5, <3>1, AppendProperties
    <3>3. Append(sent, q)[h + 1] = sent[h + 1] /\ Append(sent, q) \in Seq(Payload) /\ Len(Append(sent, q)) = n + 1
      BY <1>5, <3>1, AppendProperties
    <3> DEFINE with == Append(sent, q)
    <3> HIDE DEF with
    <3>4. Append(with, <<>>)[h + 1] = with[h + 1]
      BY <3>1, <3>3, NoBytes, Sizes, AppendProperties DEF with, Payload
    <3> QED
      BY <1>4, <3>2, <3>3, <3>4 DEF Framed, with
  <2> QED
    BY <2>1, <2>2
<1>10. <<>> \in Payload
  BY NoBytes, Sizes DEF Payload
<1>11. Framed(<<>>, at2)'
  <2>1. (client' \in {"none", "open"}) = TRUE
    BY <1>1
  <2> QED
    BY <1>1, <1>2, <1>8, <1>9, <2>1 DEF Framed
<1>12. Len(handled') <= Len(sent') /\ \A i \in 1 .. Len(handled') : handled'[i] = sent'[i]
  <2>1. h <= n /\ \A i \in 1 .. h : handled[i] = sent[i]
    BY DEF FramesInv
  <2>2. Len(Append(sent, q)) = n + 1 /\ \A i \in 1 .. n : Append(sent, q)[i] = sent[i]
    BY <1>5, AppendProperties
  <2>3. \A i \in 1 .. h : i \in 1 .. n
    BY <1>5, <2>1
  <2> QED
    BY <1>1, <1>5, <2>1, <2>2, <2>3
<1> QED
  BY <1>1, <1>2, <1>10, <1>11, <1>12 DEF FramesInv

\* The client closes, in the middle of a frame or after one.
LEMMA FramesCloseClient ==
  ASSUME Types, FramesInv, CloseClient
  PROVE  FramesInv'
<1>1. /\ client = "open" /\ client' = "closed"
      /\ UNCHANGED <<receiver, headerPending, dataLeft, dataSize, data, sent, handled>>
      /\ \/ stream' = stream
         \/ \E q \in Payloads : \E k \in 1 .. Len(Encode(q)) - 1 :
              stream' = stream \o SubSeq(Encode(q), 1, k)
  BY DEF CloseClient, parser
<1>2. Alive' = Alive /\ Connected' = Connected /\ PartRead' = PartRead /\ \A p : Buffered(p)' = Buffered(p)
  BY <1>1 DEF Alive, Connected, PartRead, Buffered
<1> SUFFICES ASSUME Alive PROVE FramesInv'
  BY <1>1, <1>2 DEF FramesInv
<1>3. PICK p \in Payload : \E at : Framed(p, at)
  BY <1>1 DEF FramesInv
<1>4. PICK at : Framed(p, at)
  BY <1>3
<1>5. /\ stream \in Bytes /\ sent \in Seq(Payload) /\ Len(sent) \in Nat /\ Len(handled) \in Nat
  BY ParserNumbers
<1> DEFINE h == Len(handled)
<1> DEFINE n == Len(sent)
<1>6. Cut(Append(sent, p), at, h, PartRead, stream, TRUE) /\ (client' \in {"none", "open"}) = FALSE
  <2>1. (client \in {"none", "open"}) = TRUE
    BY <1>1
  <2>2. (client' \in {"none", "open"}) = FALSE
    BY <1>1
  <2>3. Cut(Append(sent, p), at, h, PartRead, stream, TRUE)
    BY <1>4, <2>1 DEF Framed
  <2> QED
    BY <2>2, <2>3
<1>7. \E q \in Payload : \E at2 : Framed(q, at2)'
  <2>1. CASE stream' = stream
    <3>1. Cut(Append(sent, p), at, h, PartRead, stream, FALSE)
      BY <1>6 DEF Cut
    <3>2. Framed(p, at)'
      BY <1>1, <1>2, <1>4, <1>6, <2>1, <3>1 DEF Framed
    <3> QED
      BY <3>2
  <2>2. CASE \E q \in Payloads : \E k \in 1 .. Len(Encode(q)) - 1 :
               stream' = stream \o SubSeq(Encode(q), 1, k)
    <3>1. PICK q \in Payloads : \E k \in 1 .. Len(Encode(q)) - 1 :
                 stream' = stream \o SubSeq(Encode(q), 1, k)
      BY <2>2
    <3>2. PICK k \in 1 .. Len(Encode(q)) - 1 : stream' = stream \o SubSeq(Encode(q), 1, k)
      BY <3>1
    <3>3. q \in Payload /\ Len(Encode(q)) = 2 + Len(q) /\ Len(q) \in Nat
      BY PayloadsFit, EncodeProperties, LenProperties DEF Payload, Bytes
    <3>4. k \in 0 .. 1 + Len(q)
      BY <3>3
    <3>5. /\ h \in 0 .. n
          /\ h = n => PartRead = 0
          /\ \E at2 : Cut(Append(Append(sent, q), <<>>), at2, h, PartRead, stream \o Encode(q), TRUE)
      BY <1>5, <1>6, <3>3, FrameSent
    <3>6. \E at2 : Cut(Append(sent, q), at2, h, PartRead, stream \o SubSeq(Encode(q), 1, k), FALSE)
      BY <1>5, <1>6, <3>3, <3>4, PartSent
    <3>7. PICK at2 : Cut(Append(sent, q), at2, h, PartRead, stream \o SubSeq(Encode(q), 1, k), FALSE)
      BY <3>6
    <3>8. Buffered(Append(sent, q)[h + 1])
      <4>1. CASE h = n
        BY <3>5, <4>1, BufferedNothing
      <4>2. CASE h # n
        <5>1. h + 1 \in 1 .. n
          BY <1>5, <3>5, <4>2
        <5>2. Append(sent, p)[h + 1] = sent[h + 1] /\ Append(sent, q)[h + 1] = sent[h + 1]
          BY <1>5, <3>3, <5>1, AppendProperties
        <5> QED
          BY <1>4, <5>2 DEF Framed
      <4> QED
        BY <4>1, <4>2
    <3>9. Framed(q, at2)'
      BY <1>1, <1>2, <1>6, <3>2, <3>7, <3>8 DEF Framed
    <3> QED
      BY <3>3, <3>9
  <2> QED
    BY <1>1, <2>1, <2>2
<1> QED
  BY <1>1, <1>2, <1>7 DEF FramesInv

\* A connection is lost, with what was not read of it.
LEMMA FramesResetClient ==
  ASSUME FramesInv, ResetClient
  PROVE  FramesInv'
<1>1. /\ client' = "reset" /\ stream' = <<>>
      /\ UNCHANGED <<receiver, sent, handled>>
  BY DEF ResetClient
<1>2. Alive' = Alive /\ Connected' = Connected
  BY <1>1 DEF Alive, Connected
<1> QED
  BY <1>1, <1>2 DEF FramesInv

\* A connection is accepted: the parser begins, before the first frame.
LEMMA FramesAccept ==
  ASSUME FramesInv, Accept
  PROVE  FramesInv'
<1>1. /\ receiver = "accept" /\ receiver' = "readHead"
      /\ headerPending' = TRUE /\ dataLeft' = 2 /\ dataSize' = 2
      /\ handled' = <<>> /\ UNCHANGED <<client, stream, sent>>
      /\ client # "none"
  BY DEF Accept, Goto, ResetParser, external
<1>2. Alive /\ ~Connected /\ Connected'
  BY <1>1 DEF Alive, Connected
<1>3. PartRead = 0 /\ PartRead' = 0 /\ \A p : Buffered(p)'
  BY <1>1, <1>2 DEF PartRead, Buffered
<1>4. handled = <<>> /\ handled' = handled
  BY <1>1, <1>2 DEF FramesInv
<1>5. \A p, at : Framed(p, at) => Framed(p, at)'
  BY <1>1, <1>3, <1>4 DEF Framed
<1> QED
  BY <1>1, <1>2, <1>4, <1>5 DEF FramesInv

\* The sockets are closed: there is no connection, nothing is sent on it.
LEMMA FramesCloseSockets ==
  ASSUME CloseSockets
  PROVE  FramesInv'
<1>1. /\ receiver' = "begin" /\ client' = "none" /\ stream' = <<>> /\ sent' = <<>> /\ handled' = <<>>
  BY DEF CloseSockets, Goto
<1>2. ~Connected'
  BY <1>1 DEF Connected
<1>3. PartRead' = 0 /\ \A p : Buffered(p)'
  BY <1>2 DEF PartRead, Buffered
<1>4. (client' \in {"none", "open"}) = TRUE
  BY <1>1
<1>5. PICK p \in Payload : \E at : Cut(Append(<<>>, p), at, Len(<<>>), 0, <<>>, TRUE)
  BY FreshStream
<1>6. \E at : Framed(p, at)'
  BY <1>1, <1>3, <1>4, <1>5 DEF Framed
<1>7. Len(handled') <= Len(sent') /\ \A i \in 1 .. Len(handled') : handled'[i] = sent'[i]
  BY <1>1
<1> QED
  BY <1>1, <1>6, <1>7 DEF FramesInv

\* A piece is read that completes neither a header nor a payload.
LEMMA FramesReadPart ==
  ASSUME Types, FramesInv, NEW n \in 1 .. Len(stream), ReadPart(n)
  PROVE  FramesInv'
<1>1. /\ receiver = "read" /\ receiver' = "readHead" /\ Consume(n) /\ n < dataLeft
      /\ dataLeft' = dataLeft - n
      /\ stream' = SubSeq(stream, n + 1, Len(stream))
      /\ UNCHANGED <<headerPending, dataSize, client, sent, handled>>
  BY DEF ReadPart, Consume, Goto
<1>2. Alive /\ Connected /\ Alive' /\ Connected'
  BY <1>1 DEF Alive, Connected
<1>3. /\ dataSize \in Nat /\ dataLeft \in Nat /\ dataLeft <= dataSize
      /\ headerPending => dataSize = 2
      /\ stream \in Bytes /\ Len(stream) \in Nat /\ sent \in Seq(Payload)
  BY ParserNumbers
<1>4. n \in Nat /\ n \in 0 .. Len(stream) /\ n <= dataLeft
  BY <1>1, <1>3
<1>5. client # "none" /\ client # "reset"
  <2>1. stream # <<>>
    BY <1>3
  <2> QED
    BY <2>1 DEF FramesInv
<1>6. PICK p \in Payload : \E at : Framed(p, at)
  BY <1>2, <1>5 DEF FramesInv
<1>7. PICK at : Framed(p, at)
  BY <1>6
<1> DEFINE all == Append(sent, p)
<1>0. PICK next : next = all[Len(handled) + 1]
  OBVIOUS
<1>8. /\ next \in Payload /\ Len(next) \in Nat
      /\ headerPending =>
           \A k \in 1 .. dataSize - dataLeft + n : data'[k] = Encode(next)[k]
      /\ ~headerPending =>
           /\ dataSize = Len(next)
           /\ \A k \in 1 .. dataSize - dataLeft + n : data'[k] = next[k]
  BY <1>0, <1>1, <1>2, <1>4, <1>7, BufferFilled
<1>9. dataSize' - dataLeft' = dataSize - dataLeft + n
  BY <1>1, <1>3, <1>4
<1>10. PartRead' = PartRead + n /\ PartRead + n < 2 + Len(next)
  <2>1. /\ PartRead = (IF headerPending THEN 0 ELSE 2) + (dataSize - dataLeft)
        /\ PartRead' = (IF headerPending THEN 0 ELSE 2) + (dataSize - dataLeft + n)
    BY <1>1, <1>2, <1>9 DEF PartRead
  <2> DEFINE m == Len(next)
  <2>2. m \in Nat /\ (~headerPending => dataSize = m)
    BY <1>8
  <2> HIDE DEF m
  <2>3. CASE headerPending
    <3>1. PartRead = dataSize - dataLeft /\ PartRead' = dataSize - dataLeft + n /\ dataSize = 2
      BY <1>3, <2>1, <2>3
    <3>2. PartRead' = PartRead + n /\ PartRead + n < 2 + m
      BY <1>1, <1>3, <1>4, <2>2, <3>1
    <3> QED
      BY <3>2 DEF m
  <2>4. CASE ~headerPending
    <3>1. PartRead = 2 + (dataSize - dataLeft) /\ PartRead' = 2 + (dataSize - dataLeft + n) /\ dataSize = m
      BY <2>1, <2>2, <2>4
    <3>2. PartRead' = PartRead + n /\ PartRead + n < 2 + m
      BY <1>1, <1>3, <1>4, <2>2, <3>1
    <3> QED
      BY <3>2 DEF m
  <2> QED
    BY <2>3, <2>4
<1>11. all \in Seq(Payload)
  BY <1>3, AppendProperties
<1>12. Cut(all, at, Len(handled), PartRead + n, SubSeq(stream, n + 1, Len(stream)), client \in {"none", "open"})
  <2>1. Cut(all, at, Len(handled), PartRead, stream, client \in {"none", "open"})
    BY <1>7 DEF Framed
  <2> HIDE DEF all
  <2>2. PartRead + n < 2 + Len(all[Len(handled) + 1])
    BY <1>0, <1>10
  <2> QED
    BY <1>3, <1>4, <1>11, <2>1, <2>2, PieceRead
<1>13. Buffered(next)'
  BY <1>1, <1>8, <1>9 DEF Buffered
<1>14. Framed(p, at)'
  BY <1>0, <1>1, <1>10, <1>12, <1>13 DEF Framed
<1>15. Len(handled') <= Len(sent') /\ \A i \in 1 .. Len(handled') : handled'[i] = sent'[i]
  BY <1>1, <1>2 DEF FramesInv
<1> QED
  BY <1>1, <1>2, <1>5, <1>14, <1>15 DEF FramesInv

\* With the last byte of a header or a payload read, the buffer holds it, and the
\* stream goes on behind it.
LEMMA FrameComplete ==
  ASSUME Types, FramesInv, receiver = "read", Consume(dataLeft)
  PROVE  /\ client # "reset"
         /\ \E p, next \in Payload : \E at :
              LET all == Append(sent, p)
                  rest == SubSeq(stream, dataLeft + 1, Len(stream))
                  whole == client \in {"none", "open"}
              IN  /\ Framed(p, at) /\ next = all[Len(handled) + 1]
                  /\ headerPending =>
                       /\ DecodeHeader(data') = Len(next)
                       /\ Len(next) >= 1 => Cut(all, at, Len(handled), 2, rest, whole)
                  /\ ~headerPending => SubSeq(data', 1, dataSize) = next
                  /\ (headerPending => Len(next) = 0) =>
                       /\ Len(handled) + 1 <= Len(sent)
                       /\ next = sent[Len(handled) + 1]
                       /\ Cut(all, at, Len(handled) + 1, 0, rest, whole)
<1> DEFINE n == dataLeft
<1> DEFINE rest == SubSeq(stream, n + 1, Len(stream))
<1> DEFINE whole == client \in {"none", "open"}
<1>1. Alive /\ Connected /\ n <= Len(stream)
  BY DEF Alive, Connected, Consume
<1>2. /\ dataSize \in Nat /\ n \in Nat /\ n >= 1 /\ n <= dataSize /\ dataSize \in 1 .. BufferSize
      /\ headerPending => dataSize = 2
      /\ stream \in Bytes /\ Len(stream) \in Nat /\ sent \in Seq(Payload) /\ Len(sent) \in Nat
      /\ Len(handled) \in Nat
  BY ParserNumbers
<1>3. n \in 0 .. Len(stream) /\ n <= dataLeft
  BY <1>1, <1>2
<1>4. client # "reset"
  <2>1. stream # <<>>
    BY <1>1, <1>2
  <2> QED
    BY <2>1 DEF FramesInv
<1>5. PICK p \in Payload : \E at : Framed(p, at)
  BY <1>1, <1>4 DEF FramesInv
<1>6. PICK at : Framed(p, at)
  BY <1>5
<1> DEFINE all == Append(sent, p)
<1>7. PICK next : next = all[Len(handled) + 1]
  OBVIOUS
<1>8. /\ next \in Payload /\ Len(next) \in Nat
      /\ headerPending =>
           \A k \in 1 .. dataSize - dataLeft + n : data'[k] = Encode(next)[k]
      /\ ~headerPending =>
           /\ dataSize = Len(next)
           /\ \A k \in 1 .. dataSize - dataLeft + n : data'[k] = next[k]
  BY <1>1, <1>2, <1>3, <1>6, <1>7, BufferFilled
<1>9. dataSize - dataLeft + n = dataSize
  BY <1>2
<1>10. PartRead + n = IF headerPending THEN 2 ELSE 2 + Len(next)
  <2>1. CASE headerPending
    <3>1. PartRead = dataSize - n /\ dataSize = 2
      BY <1>1, <1>2, <2>1 DEF PartRead
    <3> QED
      BY <1>2, <2>1, <3>1
  <2>2. CASE ~headerPending
    <3>1. PartRead = 2 + (dataSize - n) /\ dataSize = Len(next)
      BY <1>1, <1>8, <2>2 DEF PartRead
    <3> QED
      BY <1>2, <2>2, <3>1
  <2> QED
    BY <2>1, <2>2
<1>11. /\ Cut(all, at, Len(handled), PartRead, stream, whole)
       /\ all \in Seq(Payload) /\ Len(all) = Len(sent) + 1
  BY <1>2, <1>6, AppendProperties DEF Framed
<1>12. data' \in [1 .. BufferSize -> Byte]
  BY <1>2, ConsumeType DEF Types
<1>13. ASSUME headerPending
       PROVE  /\ DecodeHeader(data') = Len(next)
              /\ Len(next) >= 1 => Cut(all, at, Len(handled), 2, rest, whole)
  <2>1. data'[1] = Encode(next)[1] /\ data'[2] = Encode(next)[2]
    BY <1>2, <1>8, <1>9, <1>13
  <2>2. data'[1] = Len(next) \div Base /\ data'[2] = Len(next) % Base
    BY <1>8, <2>1, EncodeProperties
  <2>3. DecodeHeader(data') = Len(next)
    BY <1>8, <2>2, TwoBytes DEF DecodeHeader, Payload
  <2>4. ASSUME Len(next) >= 1 PROVE Cut(all, at, Len(handled), 2, rest, whole)
    <3>1. PartRead + n = 2
      BY <1>10, <1>13
    <3>2. PartRead + n < 2 + Len(next)
      BY <1>8, <2>4, <3>1
    <3> HIDE DEF all, n, whole
    <3>3. PartRead + n < 2 + Len(all[Len(handled) + 1])
      BY <1>7, <3>2
    <3>4. Cut(all, at, Len(handled), PartRead + n, SubSeq(stream, n + 1, Len(stream)), whole)
      BY <1>2, <1>3, <1>11, <3>3, PieceRead
    <3> QED
      BY <3>1, <3>4
  <2> QED
    BY <2>3, <2>4
<1>14. ASSUME ~headerPending PROVE SubSeq(data', 1, dataSize) = next
  <2>1. /\ SubSeq(data', 1, dataSize) \in Seq(Byte) /\ Len(SubSeq(data', 1, dataSize)) = dataSize
        /\ \A i \in 1 .. dataSize : SubSeq(data', 1, dataSize)[i] = data'[i]
    BY <1>2, <1>12, PayloadType
  <2>2. dataSize = Len(next) /\ \A k \in 1 .. dataSize : data'[k] = next[k]
    BY <1>8, <1>9, <1>14
  <2>3. next \in Seq(Byte)
    BY <1>8 DEF Payload, Bytes
  <2> DEFINE got == SubSeq(data', 1, dataSize)
  <2>4. got \in Seq(Byte) /\ Len(got) = Len(next) /\ \A i \in 1 .. Len(got) : got[i] = next[i]
    BY <2>1, <2>2
  <2> HIDE DEF got
  <2>5. got = next
    BY <2>3, <2>4, SeqEqual
  <2> QED
    BY <2>5 DEF got
<1>15. ASSUME headerPending => Len(next) = 0
       PROVE  /\ Len(handled) + 1 <= Len(sent)
              /\ next = sent[Len(handled) + 1]
              /\ Cut(all, at, Len(handled) + 1, 0, rest, whole)
  <2>1. PartRead + n = 2 + Len(next)
    BY <1>8, <1>10, <1>15
  <2>2. /\ Len(handled) + 1 < Len(all)
        /\ Cut(all, at, Len(handled) + 1, 0, rest, whole)
    <3> HIDE DEF all, n, whole
    <3>1. PartRead + n = 2 + Len(all[Len(handled) + 1])
      BY <1>7, <2>1
    <3>2. /\ Len(handled) + 1 < Len(all)
          /\ Cut(all, at, Len(handled) + 1, 0, SubSeq(stream, n + 1, Len(stream)), whole)
      BY <1>2, <1>3, <1>11, <3>1, FrameRead
    <3> QED
      BY <3>2
  <2>3. Len(handled) + 1 <= Len(sent) /\ Len(handled) + 1 \in 1 .. Len(sent)
    BY <1>2, <1>11, <2>2
  <2>4. all[Len(handled) + 1] = sent[Len(handled) + 1]
    BY <1>2, <2>3, AppendProperties
  <2> QED
    BY <1>7, <2>2, <2>3, <2>4
<1> HIDE DEF n, rest, whole, all
<1>16. \E q, x \in Payload : \E a :
          /\ Framed(q, a) /\ x = Append(sent, q)[Len(handled) + 1]
          /\ headerPending =>
               /\ DecodeHeader(data') = Len(x)
               /\ Len(x) >= 1 => Cut(Append(sent, q), a, Len(handled), 2, rest, whole)
          /\ ~headerPending => SubSeq(data', 1, dataSize) = x
          /\ (headerPending => Len(x) = 0) =>
               /\ Len(handled) + 1 <= Len(sent)
               /\ x = sent[Len(handled) + 1]
               /\ Cut(Append(sent, q), a, Len(handled) + 1, 0, rest, whole)
  BY <1>6, <1>7, <1>8, <1>13, <1>14, <1>15 DEF all
<1> QED
  BY <1>4, <1>16 DEF rest, whole, n

\* A frame more is read, empty or not, and the parser waits for the next header.
LEMMA FramesNext ==
  ASSUME Types, FramesInv, NEW p \in Payload, NEW at, NEW next \in Payload,
         Alive, client # "reset", Len(handled) + 1 <= Len(sent), next = sent[Len(handled) + 1],
         Cut(Append(sent, p), at, Len(handled) + 1, 0, stream', client \in {"none", "open"}),
         handled' = Append(handled, next), UNCHANGED <<client, sent>>,
         headerPending' = TRUE, dataSize' = 2, dataLeft' = 2, Connected'
  PROVE  FramesInv'
<1>1. /\ handled \in Seq(Bytes) /\ Len(handled) \in Nat /\ Len(sent) \in Nat
      /\ next \in Bytes
  BY ParserNumbers DEF Payload
<1>2. /\ Len(handled') = Len(handled) + 1
      /\ \A i \in 1 .. Len(handled) : handled'[i] = handled[i]
      /\ handled'[Len(handled) + 1] = next
  BY <1>1, AppendProperties
<1>3. PartRead' = 0 /\ \A x : Buffered(x)'
  BY DEF PartRead, Buffered
<1>4. Framed(p, at)'
  BY <1>2, <1>3 DEF Framed
<1>5. Len(handled') <= Len(sent') /\ \A i \in 1 .. Len(handled') : handled'[i] = sent'[i]
  <2>1. \A i \in 1 .. Len(handled) : handled[i] = sent[i]
    BY DEF FramesInv
  <2>2. \A i \in 1 .. Len(handled) + 1 : i \in 1 .. Len(handled) \/ i = Len(handled) + 1
    BY <1>1
  <2> QED
    BY <1>1, <1>2, <2>1, <2>2
<1>6. client' # "none" \/ (stream' = <<>> /\ sent' = <<>>)
  <2>1. client = "none" => sent = <<>>
    BY DEF FramesInv
  <2>2. Len(<<>>) = 0
    OBVIOUS
  <2> QED
    BY <1>1, <2>1, <2>2
<1> QED
  BY <1>4, <1>5, <1>6 DEF FramesInv

LEMMA FramesReadPayload ==
  ASSUME Types, FramesInv, ReadPayload
  PROVE  FramesInv'
<1>1. /\ receiver = "read" /\ ~headerPending /\ Consume(dataLeft)
      /\ handled' = Append(handled, SubSeq(data', 1, dataSize))
      /\ receiver' \in {"readHead", "deliver"}
      /\ headerPending' = TRUE /\ dataSize' = 2 /\ dataLeft' = 2
      /\ stream' = SubSeq(stream, dataLeft + 1, Len(stream))
      /\ UNCHANGED <<client, sent>>
  BY DEF ReadPayload, Consume
<1>2. Alive /\ Connected'
  BY <1>1 DEF Alive, Connected
<1>3. /\ client # "reset"
      /\ \E p, next \in Payload : \E at :
           LET all == Append(sent, p)
               rest == SubSeq(stream, dataLeft + 1, Len(stream))
               whole == client \in {"none", "open"}
           IN  /\ SubSeq(data', 1, dataSize) = next
               /\ Len(handled) + 1 <= Len(sent)
               /\ next = sent[Len(handled) + 1]
               /\ Cut(all, at, Len(handled) + 1, 0, rest, whole)
  BY <1>1, FrameComplete
<1>4. PICK p \in Payload, next \in Payload :
         \E at : /\ SubSeq(data', 1, dataSize) = next
                 /\ Len(handled) + 1 <= Len(sent)
                 /\ next = sent[Len(handled) + 1]
                 /\ Cut(Append(sent, p), at, Len(handled) + 1, 0, stream', client \in {"none", "open"})
  BY <1>1, <1>3
<1>5. PICK at :
         /\ SubSeq(data', 1, dataSize) = next
         /\ Len(handled) + 1 <= Len(sent)
         /\ next = sent[Len(handled) + 1]
         /\ Cut(Append(sent, p), at, Len(handled) + 1, 0, stream', client \in {"none", "open"})
  BY <1>4
<1> QED
  BY <1>1, <1>2, <1>3, <1>5, FramesNext

LEMMA FramesReadHeader ==
  ASSUME Types, FramesInv, ReadHeader
  PROVE  FramesInv'
<1>1. /\ receiver = "read" /\ headerPending /\ Consume(dataLeft)
      /\ receiver' = "readHead"
      /\ stream' = SubSeq(stream, dataLeft + 1, Len(stream))
      /\ UNCHANGED <<client, sent>>
      /\ dataLeft' = dataSize'
      /\ dataSize' = IF DecodeHeader(data') < 1 THEN 2 ELSE DecodeHeader(data')
      /\ handled' = IF DecodeHeader(data') < 1 THEN Append(handled, <<>>) ELSE handled
  BY DEF ReadHeader, Consume, Goto, NextUnit
<1>2. headerPending' = (DecodeHeader(data') < 1)
  BY DEF ReadHeader, NextUnit
<1>3. Alive /\ Connected' /\ Alive'
  BY <1>1 DEF Alive, Connected
<1>4. /\ client # "reset"
      /\ \E p, next \in Payload : \E at :
           LET all == Append(sent, p)
               rest == SubSeq(stream, dataLeft + 1, Len(stream))
               whole == client \in {"none", "open"}
           IN  /\ DecodeHeader(data') = Len(next)
               /\ next = all[Len(handled) + 1]
               /\ Len(next) >= 1 => Cut(all, at, Len(handled), 2, rest, whole)
               /\ Len(next) = 0 =>
                    /\ Len(handled) + 1 <= Len(sent)
                    /\ next = sent[Len(handled) + 1]
                    /\ Cut(all, at, Len(handled) + 1, 0, rest, whole)
  BY <1>1, FrameComplete
<1>5. PICK p \in Payload, next \in Payload :
        \E at : /\ DecodeHeader(data') = Len(next)
                /\ next = Append(sent, p)[Len(handled) + 1]
                /\ Len(next) >= 1 =>
                     Cut(Append(sent, p), at, Len(handled), 2, stream', client \in {"none", "open"})
                /\ Len(next) = 0 =>
                     /\ Len(handled) + 1 <= Len(sent)
                     /\ next = sent[Len(handled) + 1]
                     /\ Cut(Append(sent, p), at, Len(handled) + 1, 0, stream', client \in {"none", "open"})
  BY <1>1, <1>4
<1>6. PICK at :
         /\ DecodeHeader(data') = Len(next)
         /\ next = Append(sent, p)[Len(handled) + 1]
         /\ Len(next) >= 1 =>
              Cut(Append(sent, p), at, Len(handled), 2, stream', client \in {"none", "open"})
         /\ Len(next) = 0 =>
              /\ Len(handled) + 1 <= Len(sent)
              /\ next = sent[Len(handled) + 1]
              /\ Cut(Append(sent, p), at, Len(handled) + 1, 0, stream', client \in {"none", "open"})
  BY <1>5
<1>7. Len(next) \in Nat
  BY LenProperties DEF Payload, Bytes
<1>8. CASE Len(next) = 0
  <2>1. next = <<>>
    BY <1>8, EmptySeq DEF Payload, Bytes
  <2>2. DecodeHeader(data') = 0 /\ (DecodeHeader(data') < 1) = TRUE
    BY <1>6, <1>8
  <2>3. headerPending' = TRUE
    BY <1>2, <2>2, Zenon
  <2>4. dataSize' = 2 /\ dataLeft' = 2 /\ handled' = Append(handled, next)
    BY <1>1, <2>1, <2>2
  <2> QED
    BY <1>1, <1>3, <1>4, <1>6, <1>8, <2>3, <2>4, FramesNext
<1>9. CASE Len(next) >= 1
  <2>1. (DecodeHeader(data') < 1) = FALSE
    <3> DEFINE d == DecodeHeader(data')
    <3>1. d \in Nat /\ d >= 1
      BY <1>6, <1>7, <1>9
    <3> HIDE DEF d
    <3>2. (d < 1) = FALSE
      BY <3>1
    <3> QED
      BY <3>2 DEF d
  <2>2. headerPending' = FALSE
    BY <1>2, <2>1, Zenon
  <2>3. dataSize' = Len(next) /\ dataLeft' = Len(next) /\ handled' = handled
    BY <1>1, <1>6, <2>1
  <2>4. PartRead' = 2 /\ dataSize' - dataLeft' = 0
    BY <1>3, <1>7, <2>2, <2>3 DEF PartRead
  <2>5. Buffered(next)'
    BY <2>2, <2>3, <2>4 DEF Buffered
  <2>6. Framed(p, at)'
    BY <1>1, <1>6, <1>9, <2>3, <2>4, <2>5 DEF Framed
  <2>7. Len(handled') <= Len(sent') /\ \A i \in 1 .. Len(handled') : handled'[i] = sent'[i]
    BY <1>1, <1>3, <2>3 DEF FramesInv, Alive
  <2>8. client' = "none" => stream' = <<>> /\ sent' = <<>>
    <3>1. stream \in Bytes /\ dataLeft \in Nat /\ dataLeft >= 1 /\ dataLeft <= Len(stream)
      BY <1>1, ParserNumbers DEF Consume
    <3>2. Len(<<>>) = 0
      OBVIOUS
    <3>3. stream # <<>>
      BY <3>1, <3>2
    <3> QED
      BY <1>1, <3>3 DEF FramesInv
  <2> QED
    BY <1>1, <1>3, <1>4, <2>6, <2>7, <2>8 DEF FramesInv
<1> QED
  BY <1>7, <1>8, <1>9

LEMMA FramesStep ==
  ASSUME Types, FramesInv, [Next]_vars
  PROVE  FramesInv'
<1>1. CASE UNCHANGED vars
  <2>1. UNCHANGED <<receiver, parser, client, stream, sent, handled>>
    BY <1>1 DEF vars, parser
  <2>2. Alive' = Alive /\ Connected' = Connected
    BY <2>1 DEF Alive, Connected
  <2> QED
    BY <2>1, <2>2, FramesStill
<1>2. CASE Connect
  <2>1. UNCHANGED <<receiver, parser, stream, sent, handled>> /\ client = "none" /\ client' = "open"
    BY <1>2 DEF Connect
  <2>2. Alive' = Alive /\ Connected' = Connected
    BY <2>1 DEF Alive, Connected
  <2> QED
    BY <2>1, <2>2, FramesStill
<1>3. CASE LoopHead
  <2>1. UNCHANGED <<parser, client, stream, sent, handled>>
    BY <1>3 DEF LoopHead, external
  <2>2. \/ receiver = "begin" /\ receiver' \in {"open", "stopped"}
        \/ receiver = "bindHead" /\ receiver' \in {"bind", "closing"}
        \/ receiver = "acceptHead" /\ receiver' \in {"accept", "closing"}
        \/ receiver = "readHead" /\ receiver' \in {"read", "closing"}
    BY <1>3 DEF LoopHead, Goto, Body, Exit
  <2>3. Alive' => Alive /\ Connected' = Connected
    BY <2>2 DEF Alive, Connected
  <2> QED
    BY <2>1, <2>3, FramesStill
<1>4. CASE OpenSocket \/ BindFails \/ Listen \/ AcceptTimeout \/ ReadTimeout
  <2>1. UNCHANGED <<parser, client, stream, sent, handled>>
    BY <1>4 DEF OpenSocket, BindFails, Listen, AcceptTimeout, ReadTimeout, external
  <2>2. \/ receiver \in {"open", "bind", "accept"} /\ receiver' \in {"bindHead", "acceptHead"}
        \/ receiver = "read" /\ receiver' = "readHead"
    BY <1>4 DEF OpenSocket, BindFails, Listen, AcceptTimeout, ReadTimeout, Goto
  <2>3. Alive' => Alive /\ Connected' = Connected
    BY <2>2 DEF Alive, Connected
  <2> QED
    BY <2>1, <2>3, FramesStill
<1>5. CASE Deliver
  <2>1. UNCHANGED <<parser, client, stream, sent, handled>>
    BY <1>5 DEF Deliver, external
  <2>2. receiver = "deliver" /\ receiver' \in {"readHead", "deliver"}
    BY <1>5 DEF Deliver
  <2>3. Alive' => Alive /\ Connected' = Connected
    BY <2>2 DEF Alive, Connected
  <2> QED
    BY <2>1, <2>3, FramesStill
<1>6. CASE Disconnected \/ Interrupted \/ Fails
  <2>1. UNCHANGED <<parser, client, stream, sent, handled>>
    BY <1>6 DEF Disconnected, Interrupted, Fails, HandleError, external
  <2>2. receiver' \in {"closing", "interrupted", "failed"}
    BY <1>6 DEF Disconnected, Interrupted, Fails, HandleError, Goto
  <2>3. Alive' => Alive /\ Connected' = Connected
    BY <2>2 DEF Alive
  <2> QED
    BY <2>1, <2>3, FramesStill
<1>7. CASE OnShutdown
  <2>1. UNCHANGED <<receiver, parser, client, stream, sent, handled>>
    BY <1>7 DEF OnShutdown, external
  <2>2. Alive' = Alive /\ Connected' = Connected
    BY <2>1 DEF Alive, Connected
  <2> QED
    BY <2>1, <2>2, FramesStill
<1>8. CASE CloseClient
  BY <1>8, FramesCloseClient
<1>9. CASE ResetClient
  BY <1>9, FramesResetClient
<1>10. ASSUME NEW p \in Payloads, SendFrame(p) PROVE FramesInv'
  BY <1>10, FramesSendFrame
<1>11. CASE Accept
  BY <1>11, FramesAccept
<1>12. ASSUME NEW n \in 1 .. Len(stream), ReadPart(n) PROVE FramesInv'
  BY <1>12, FramesReadPart
<1>13. CASE ReadHeader
  BY <1>13, FramesReadHeader
<1>14. CASE ReadPayload
  BY <1>14, FramesReadPayload
<1>15. CASE CloseSockets
  BY <1>15, FramesCloseSockets
<1>16. CASE Finished
  BY <1>1, <1>16 DEF Finished
<1> QED
  BY <1>1, <1>2, <1>3, <1>4, <1>5, <1>6, <1>7, <1>8, <1>9, <1>10, <1>11, <1>12, <1>13,
     <1>14, <1>15, <1>16
  DEF Next, ClientStep, Run

LEMMA FramesInvariant == Spec => [](Types /\ FramesInv)
<1>1. Types /\ FramesInv /\ [Next]_vars => Types' /\ FramesInv'
  BY TypesStep, FramesStep
<1> QED
  BY TypesInit, FramesInit, <1>1, PTL DEF Spec

-----------------------------------------------------------------------------
\* What was read is the beginning of what was sent.
LEMMA HandledIsPrefix ==
  ASSUME Types, FramesInv, Connected
  PROVE  Len(handled) <= Len(sent) /\ handled = SubSeq(sent, 1, Len(handled))
<1> DEFINE n == Len(handled)
<1>1. n \in Nat /\ handled \in Seq(Bytes) /\ sent \in Seq(Payload) /\ Len(sent) \in Nat
  BY ParserNumbers
<1>2. Alive
  BY DEF Connected, Alive
<1>3. n <= Len(sent) /\ \A i \in 1 .. n : handled[i] = sent[i]
  BY <1>2 DEF FramesInv
<1> DEFINE front == SubSeq(sent, 1, n)
<1>4. front \in Seq(Bytes) /\ Len(front) = n /\ \A i \in 1 .. n : front[i] = sent[i]
  <2> HIDE DEF n
  <2>1. \A i \in 1 .. n : sent[i] \in Bytes
    <3>1. \A i \in 1 .. n : i \in 1 .. Len(sent)
      BY <1>1, <1>3
    <3> QED
      BY <1>1, <3>1, ElementOfSeq DEF Payload
  <2>2. /\ front \in Seq(Bytes) /\ Len(front) = IF 1 <= n THEN n - 1 + 1 ELSE 0
        /\ \A i \in 1 .. n - 1 + 1 : front[i] = sent[1 + i - 1]
    BY <1>1, <2>1, SubSeqProperties
  <2> HIDE DEF front
  <2>3. n - 1 + 1 = n /\ \A i \in 1 .. n : 1 + i - 1 = i
    BY <1>1
  <2>4. Len(front) = n
    BY <1>1, <2>2
  <2> QED
    BY <2>2, <2>3, <2>4
<1> HIDE DEF front
<1>5. handled = front
  BY <1>1, <1>3, <1>4, SeqEqual
<1> QED
  BY <1>3, <1>5 DEF front

\* With the stream read to its end, no frame is left that was sent.
LEMMA AllIsHandled ==
  ASSUME Types, FramesInv, Connected, client = "open", stream = <<>>
  PROVE  handled = sent
<1> DEFINE h == Len(handled)
<1> DEFINE n == Len(sent)
<1>1. h \in Nat /\ handled \in Seq(Bytes) /\ sent \in Seq(Payload) /\ n \in Nat /\ Len(stream) = 0
      /\ stream \in Bytes
  BY ParserNumbers
<1>2. Alive
  BY DEF Connected, Alive
<1>3. PICK p \in Payload : \E at : Framed(p, at)
  BY <1>2 DEF FramesInv
<1>4. PICK at : Framed(p, at)
  BY <1>3
<1> DEFINE all == Append(sent, p)
<1> DEFINE r == PartRead
<1>5. all \in Seq(Payload) /\ Len(all) = n + 1
  BY <1>1, AppendProperties
<1>6. Cut(all, at, h, r, stream, TRUE)
  <2>1. (client \in {"none", "open"}) = TRUE
    OBVIOUS
  <2> QED
    BY <1>4, <2>1 DEF Framed
<1> HIDE DEF all, r
<1>7. /\ r \in Nat /\ h + 1 \in 1 .. Len(all) /\ Len(all[h + 1]) \in Nat /\ at[h] \in Nat
      /\ \A i \in 1 .. Len(all) : /\ at[i] \in Nat /\ at[i - 1] \in Nat
                                 /\ at[i] = at[i - 1] + 2 + Len(all[i])
  BY <1>1, <1>5, <1>6, CutNumbers
<1>8. at[h] + r = at[n] /\ at[n] \in Nat
  <2>1. Len(all) - 1 = n /\ n + 1 \in 1 .. Len(all) /\ (n + 1) - 1 = n
    BY <1>1, <1>5
  <2>2. at[h] + r + Len(stream) = at[Len(all) - 1]
    BY <1>6 DEF Cut
  <2>3. at[n] \in Nat
    BY <1>7, <2>1
  <2>4. at[h] + r + 0 = at[n]
    BY <1>1, <2>1, <2>2
  <2> QED
    BY <1>7, <2>3, <2>4
<1>9. at[n] < at[h + 1]
  <2>1. (h + 1) - 1 = h
    BY <1>1
  <2> DEFINE m == Len(all[h + 1])
  <2>2. at[h + 1] = at[h] + 2 + m /\ m \in Nat
    BY <1>7, <2>1
  <2>3. r \in 0 .. 1 + m
    BY <1>6 DEF Cut
  <2> HIDE DEF m
  <2> QED
    BY <1>7, <1>8, <2>2, <2>3
<1>10. n <= h
  <2> SUFFICES ASSUME h + 1 <= n PROVE FALSE
    BY <1>1
  <2>1. h + 1 \in 0 .. Len(all) /\ n \in 0 .. Len(all)
    BY <1>1, <1>5
  <2>2. at[h + 1] <= at[n]
    BY <1>6, <2>1 DEF Cut, Places
  <2> QED
    BY <1>7, <1>8, <1>9, <2>2
<1>11. h <= n /\ \A i \in 1 .. h : handled[i] = sent[i]
  BY <1>2 DEF FramesInv
<1>12. sent \in Seq(Bytes)
  BY <1>1, SeqMonotonic DEF Payload
<1> QED
  BY <1>1, <1>10, <1>11, <1>12, SeqEqual

\* However the stream is cut into pieces, whatever the sizes of the payloads, and
\* with any number of frames, the payloads read are those sent, in order.
THEOREM PayloadsAreSent == Spec => []PayloadsAreThoseSent
<1>1. Types /\ FramesInv => PayloadsAreThoseSent
  BY HandledIsPrefix DEF PayloadsAreThoseSent
<1> QED
  BY FramesInvariant, <1>1, PTL

\* Nothing sent in full is kept back: once the stream is read to its end, all
\* that was sent on an open connection was read.
THEOREM NothingKeptBack == Spec => []NothingIsKeptBack
<1>1. Types /\ FramesInv => NothingIsKeptBack
  BY AllIsHandled DEF NothingIsKeptBack
<1> QED
  BY FramesInvariant, <1>1, PTL
=============================================================================
