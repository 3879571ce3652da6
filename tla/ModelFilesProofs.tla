-------------------------- MODULE ModelFilesProofs --------------------------
(***************************************************************************)
(* Proofs about Safetensors and ModelFiles, for every width of the types.  *)
(***************************************************************************)
EXTENDS ModelFiles, JsonBodyProofs

-----------------------------------------------------------------------------
(***************************************************************************)
(* The bytes of the size.                                                  *)
(***************************************************************************)

SizeFields == [Bytes -> SUBSET (0 .. ByteBits - 1)]

(* What the file says: byte i counts ByteBits * i places higher.           *)
LittleEndian(bytes) ==
  UNION {{b + ByteBits * i : b \in bytes[i]} : i \in Bytes}

FitsInt(bytes) ==
  /\ \A i \in IntBytes .. SizeBytes - 1 : bytes[i] = {}
  /\ ByteBits - 1 \notin bytes[IntBytes - 1]

(* A bit of a byte that is within an int stays within it, and is the sign  *)
(* only if it is the top bit of the top byte.                              *)
LEMMA BitInInt ==
  ASSUME NEW i \in 0 .. IntBytes - 1, NEW b \in 0 .. ByteBits - 1
  PROVE  /\ b + ByteBits * i \in 0 .. SignBit
         /\ b + ByteBits * i = SignBit => i = IntBytes - 1 /\ b = ByteBits - 1
<1>1. ByteBits * (IntBytes - 1) = SignBit - (ByteBits - 1)
  BY SafetensorsAssumption DEF SignBit, IntBits
<1>2. CASE i = IntBytes - 1
  BY <1>1, <1>2, SafetensorsAssumption DEF SignBit, IntBits
<1>3. CASE i < IntBytes - 1
  <2>1. PICK d \in Nat : d > 0 /\ IntBytes - 1 = i + d
    <3>1. IntBytes - 1 - i \in Nat /\ IntBytes - 1 - i > 0
      BY <1>3, SafetensorsAssumption
    <3>. QED  BY <3>1, SafetensorsAssumption
  <2>2. ByteBits * (IntBytes - 1) = ByteBits * i + ByteBits * d
    BY <2>1, SafetensorsAssumption
  <2>3. ByteBits * d > 0 /\ ByteBits * i >= 0
        /\ ByteBits * i \in Int /\ ByteBits * d \in Int
    BY <2>1, SafetensorsAssumption
  <2>4. SignBit \in Int /\ b + ByteBits * i < SignBit
    BY <1>1, <2>2, <2>3, SafetensorsAssumption DEF SignBit, IntBits
  <2>. QED  BY <2>3, <2>4, SafetensorsAssumption
<1>. QED  BY <1>2, <1>3, SafetensorsAssumption

(* The shift of a byte within an int loses nothing and, unless it reaches  *)
(* the sign, widening adds nothing.                                        *)
LEMMA ByteInInt ==
  ASSUME NEW bytes \in SizeFields, FitsInt(bytes), NEW i \in 0 .. IntBytes - 1
  PROVE  Widened(Shifted(bytes[i], i)) = {b + ByteBits * i : b \in bytes[i]}
<1>1. i \in Bytes /\ bytes[i] \subseteq 0 .. ByteBits - 1
  BY SafetensorsAssumption DEF Bytes, SizeFields
<1>2. Shifted(bytes[i], i) = {b + ByteBits * i : b \in bytes[i]}
  BY <1>1, BitInInt DEF Shifted, Promoted
<1>3. SignBit \notin Shifted(bytes[i], i)
  BY <1>1, <1>2, BitInInt DEF FitsInt
<1>. QED  BY <1>2, <1>3 DEF Widened

LEMMA EmptyByte ==
  ASSUME NEW bytes \in SizeFields, FitsInt(bytes),
         NEW i \in IntBytes .. SizeBytes - 1, NEW k \in Nat
  PROVE  /\ Widened(Shifted(bytes[i], k)) = {}
         /\ {b + ByteBits * i : b \in bytes[i]} = {}
BY DEF FitsInt, Widened, Shifted, Promoted

(* A header of less than 2^31 bytes has the size that the file says,       *)
(* whatever the undefined shifts of the four empty bytes do.               *)
THEOREM HeaderSizeIsLittleEndian ==
  ASSUME NEW bytes \in SizeFields, FitsInt(bytes)
  PROVE  HeaderSizes(bytes) = {LittleEndian(bytes)}
<1> DEFINE low == {Widened(Shifted(bytes[i], i)) : i \in 0 .. IntBytes - 1}
           high(S) ==
             {Widened(Shifted(bytes[i], i % IntBytes)) : i \in S}
<1>1. UNION low = LittleEndian(bytes)
  <2> DEFINE place(i) == {b + ByteBits * i : b \in bytes[i]}
  <2>1. \A i \in 0 .. IntBytes - 1 : Widened(Shifted(bytes[i], i)) = place(i)
    BY ByteInInt
  <2>2. \A i \in IntBytes .. SizeBytes - 1 : place(i) = {}
    BY EmptyByte
  <2>3. \A i \in Bytes : i \in 0 .. IntBytes - 1
                       \/ i \in IntBytes .. SizeBytes - 1
    BY SafetensorsAssumption DEF Bytes
  <2>4. \A i \in 0 .. IntBytes - 1 : i \in Bytes
    BY SafetensorsAssumption DEF Bytes
  <2>5. LittleEndian(bytes) = UNION {place(i) : i \in Bytes}
    BY DEF LittleEndian
  <2> HIDE DEF place
  <2>. QED  BY <2>1, <2>2, <2>3, <2>4, <2>5
<1>2. ASSUME NEW S \in SUBSET (IntBytes .. SizeBytes - 1)
      PROVE  UNION (low \cup high(S)) = UNION low
  <2>1. ASSUME NEW i \in S  PROVE Widened(Shifted(bytes[i], i % IntBytes)) = {}
    <3>1. i % IntBytes \in Nat
      BY SafetensorsAssumption
    <3>. QED  BY <3>1, EmptyByte
  <2>2. \A t \in high(S) : t = {}
    BY <2>1
  <2> HIDE DEF low, high
  <2>. QED  BY <2>2
<1>3. {} \in SUBSET (IntBytes .. SizeBytes - 1)
  OBVIOUS
<1>4. HeaderSizes(bytes) =
        {UNION (low \cup high(S)) : S \in SUBSET (IntBytes .. SizeBytes - 1)}
  BY DEF HeaderSizes
<1> HIDE DEF low, high
<1>. QED  BY <1>1, <1>2, <1>3, <1>4

(* A header of 2^31 bytes or more, but less than 2^32, is taken for one    *)
(* that is larger than any file: the upper bytes are full.                 *)
THEOREM SignExtendedSize ==
  ASSUME NEW bytes \in SizeFields, ByteBits - 1 \in bytes[IntBytes - 1],
         NEW bits \in HeaderSizes(bytes)
  PROVE  SignBit \in bits /\ IntBits .. SizeBits - 1 \subseteq bits
<1>1. IntBytes - 1 \in Bytes /\ IntBytes - 1 \in 0 .. IntBytes - 1
  BY SafetensorsAssumption DEF Bytes
<1>2. ByteBits - 1 + ByteBits * (IntBytes - 1) = SignBit /\ SignBit \in Nat
  BY SafetensorsAssumption DEF SignBit, IntBits
<1>3. SignBit \in Shifted(bytes[IntBytes - 1], IntBytes - 1)
  BY <1>2 DEF Shifted, Promoted
<1>4. Widened(Shifted(bytes[IntBytes - 1], IntBytes - 1)) \subseteq bits
  BY <1>1 DEF HeaderSizes
<1>. QED  BY <1>3, <1>4 DEF Widened

-----------------------------------------------------------------------------
(***************************************************************************)
(* Numbers and their bits.                                                 *)
(***************************************************************************)
LEMMA Widths ==
  /\ SizeBits \in Nat /\ IntBits \in Nat /\ SignBit \in Nat
  /\ SignBit + 1 = IntBits /\ IntBits < SizeBits
<1>1. ByteBits * IntBytes \in Nat /\ ByteBits * IntBytes > 0
  BY SafetensorsAssumption
<1>2. PICK d \in Nat : SizeBytes = IntBytes + d /\ d > 0
  <2>1. SizeBytes - IntBytes \in Nat /\ SizeBytes - IntBytes > 0
    BY SafetensorsAssumption
  <2>. QED  BY <2>1, SafetensorsAssumption
<1>3. ByteBits * SizeBytes = ByteBits * IntBytes + ByteBits * d
  BY <1>2, SafetensorsAssumption
<1>4. ByteBits * d \in Nat /\ ByteBits * d > 0
  BY <1>2, SafetensorsAssumption
<1>. QED  BY <1>1, <1>3, <1>4 DEF SizeBits, IntBits, SignBit

IsHalves(n, width, half) ==
  half = [b \in 0 .. width |-> IF b = 0 THEN n ELSE half[b - 1] \div 2]

LEMMA HalvesExist ==
  ASSUME NEW n \in Nat, NEW width \in Nat
  PROVE  \E half : IsHalves(n, width, half)
<1> DEFINE bad == {w \in Nat : \A half : ~IsHalves(n, w, half)}
<1>1. SUFFICES ASSUME bad # {}  PROVE FALSE
  OBVIOUS
<1>2. PICK w \in bad : \A m \in bad : w <= m
  BY <1>1, LeastOf
<1>3. CASE w = 0
  <2> DEFINE f == [b \in 0 .. 0 |-> n]
  <2>1. IsHalves(n, 0, f)
    BY DEF IsHalves
  <2>. QED  BY <1>2, <1>3, <2>1
<1>4. CASE w > 0
  <2>1. w - 1 \in Nat /\ w - 1 \notin bad
    BY <1>2, <1>4
  <2>2. PICK g : IsHalves(n, w - 1, g)
    BY <2>1
  <2> DEFINE f == [b \in 0 .. w |-> IF b < w THEN g[b] ELSE g[w - 1] \div 2]
  <2>3. ASSUME NEW b \in 0 .. w
        PROVE  f[b] = IF b = 0 THEN n ELSE f[b - 1] \div 2
    <3>1. CASE b = w
      BY <1>4, <2>1, <3>1
    <3>2. CASE b < w
      <4>1. b \in 0 .. w - 1 /\ f[b] = g[b] /\ (b > 0 => f[b - 1] = g[b - 1])
        BY <3>2
      <4>2. g[b] = IF b = 0 THEN n ELSE g[b - 1] \div 2
        BY <2>1, <2>2, <4>1 DEF IsHalves
      <4>. HIDE DEF f
      <4>. QED  BY <4>1, <4>2
    <3>. QED  BY <3>1, <3>2
  <2>4. IsHalves(n, w, f)
    BY <2>3 DEF IsHalves
  <2>. QED  BY <1>2, <2>4
<1>. QED  BY <1>2, <1>3, <1>4

LEMMA HalvesNext ==
  ASSUME NEW n \in Nat
  PROVE  /\ Halves(n)[0] = n
         /\ \A b \in 0 .. SizeBits - 1 : Halves(n)[b + 1] = Halves(n)[b] \div 2
         /\ \A b \in 0 .. SizeBits : Halves(n)[b] \in Nat
<1> DEFINE h == CHOOSE half : IsHalves(n, SizeBits, half)
           bad == {b \in 0 .. SizeBits : h[b] \notin Nat}
<1>1. SizeBits \in Nat
  BY Widths
<1>2. IsHalves(n, SizeBits, h)
  BY <1>1, HalvesExist
<1>3. Halves(n) = h
  BY DEF Halves, IsHalves
<1>. HIDE DEF h
<1>4. ASSUME NEW b \in 0 .. SizeBits
      PROVE  h[b] = IF b = 0 THEN n ELSE h[b - 1] \div 2
  BY <1>2 DEF IsHalves
<1>5. h[0] = n
  BY <1>1, <1>4
<1>6. ASSUME NEW b \in 0 .. SizeBits - 1  PROVE h[b + 1] = h[b] \div 2
  <2>1. b + 1 \in 0 .. SizeBits /\ b + 1 # 0 /\ b + 1 - 1 = b
    BY <1>1
  <2>. QED  BY <1>4, <2>1
<1>7. bad = {}
  <2>1. SUFFICES ASSUME bad # {}  PROVE FALSE
    OBVIOUS
  <2>2. bad \in SUBSET Nat
    BY <1>1
  <2>3. PICK b \in bad : \A m \in bad : b <= m
    BY <2>1, <2>2, LeastOf
  <2>4. b # 0
    BY <1>5, <2>3
  <2>5. b - 1 \in 0 .. SizeBits - 1 /\ b - 1 \notin bad /\ b - 1 + 1 = b
    BY <1>1, <2>3, <2>4
  <2>6. h[b - 1] \in Nat /\ h[b] = h[b - 1] \div 2
    BY <1>1, <1>6, <2>5
  <2>. QED  BY <2>3, <2>6
<1>. QED  BY <1>3, <1>5, <1>6, <1>7

(* Induction over the positions of a word, as membership in a set. *)
LEMMA Upwards ==
  ASSUME NEW width \in Nat, NEW S, 0 \in S,
         \A b \in 0 .. width - 1 : b \in S => b + 1 \in S
  PROVE  \A b \in 0 .. width : b \in S
<1> DEFINE bad == {b \in 0 .. width : b \notin S}
<1>1. SUFFICES ASSUME bad # {}  PROVE FALSE
  OBVIOUS
<1>2. PICK b \in bad : \A m \in bad : b <= m
  <2>1. bad \in SUBSET Nat
    OBVIOUS
  <2>. QED  BY <1>1, <2>1, LeastOf
<1>3. b # 0
  BY <1>2
<1>4. b - 1 \in 0 .. width - 1 /\ b - 1 \notin bad /\ b - 1 + 1 = b
  BY <1>2, <1>3
<1>. QED  BY <1>2, <1>4

LEMMA Downwards ==
  ASSUME NEW width \in Nat, NEW S, width \in S,
         \A b \in 0 .. width - 1 : b + 1 \in S => b \in S
  PROVE  \A b \in 0 .. width : b \in S
<1> DEFINE bad == {d \in 0 .. width : width - d \notin S}
<1>1. SUFFICES ASSUME NEW b \in 0 .. width, b \notin S  PROVE FALSE
  OBVIOUS
<1>2. width - b \in bad
  BY <1>1
<1>3. PICK d \in bad : \A m \in bad : d <= m
  <2>1. bad \in SUBSET Nat
    OBVIOUS
  <2>. QED  BY <1>2, <2>1, LeastOf
<1>4. d # 0
  BY <1>3
<1>5. d - 1 \in 0 .. width /\ d - 1 \notin bad
  BY <1>3, <1>4
<1>6. width - d \in 0 .. width - 1 /\ width - (d - 1) = width - d + 1
  BY <1>3, <1>4
<1>7. width - d + 1 \in S
  BY <1>5, <1>6
<1>. QED  BY <1>3, <1>6, <1>7

(* Halving keeps numbers in order, and apart by at most one, and zero is   *)
(* zero from there on.                                                     *)
LEMMA HalvesClose ==
  ASSUME NEW n \in Nat, NEW m \in Nat, NEW k \in {0, 1}, m <= n + k
  PROVE  \A b \in 0 .. SizeBits : Halves(m)[b] <= Halves(n)[b] + k
<1> DEFINE S == {b \in 0 .. SizeBits : Halves(m)[b] <= Halves(n)[b] + k}
<1>1. SizeBits \in Nat
  BY Widths
<1>2. 0 \in S
  BY <1>1, HalvesNext
<1>3. ASSUME NEW b \in 0 .. SizeBits - 1, b \in S  PROVE b + 1 \in S
  <2>1. /\ Halves(m)[b] \in Nat /\ Halves(n)[b] \in Nat
        /\ Halves(m)[b + 1] = Halves(m)[b] \div 2
        /\ Halves(n)[b + 1] = Halves(n)[b] \div 2
    BY <1>1, HalvesNext
  <2>2. \A x, y \in Nat : x <= y + k => x \div 2 <= y \div 2 + k
    OBVIOUS
  <2>. QED  BY <1>1, <1>3, <2>1, <2>2
<1>. HIDE DEF S
<1>4. \A b \in 0 .. SizeBits : b \in S
  BY <1>1, <1>2, <1>3, Upwards
<1>. QED  BY <1>4 DEF S

LEMMA HalvesZero ==
  ASSUME NEW n \in Nat, NEW w \in 0 .. SizeBits, Fits(n, w)
  PROVE  \A b \in w .. SizeBits : Halves(n)[b] = 0
<1> DEFINE S == {d \in Nat : w + d \in 0 .. SizeBits /\ Halves(n)[w + d] = 0}
<1>1. SizeBits \in Nat /\ SizeBits - w \in Nat
  BY Widths
<1>2. 0 \in S
  BY <1>1 DEF Fits
<1>3. ASSUME NEW d \in 0 .. SizeBits - w - 1, d \in S  PROVE d + 1 \in S
  <2>1. w + d \in 0 .. SizeBits - 1 /\ w + d + 1 = w + (d + 1)
        /\ w + (d + 1) \in 0 .. SizeBits /\ d + 1 \in Nat
    BY <1>1
  <2>2. Halves(n)[w + d] = 0 /\ Halves(n)[w + d + 1] = Halves(n)[w + d] \div 2
    BY <1>3, <2>1, HalvesNext
  <2>3. 0 \div 2 = 0
    OBVIOUS
  <2>. QED  BY <2>1, <2>2, <2>3
<1>. HIDE DEF S
<1>4. \A d \in 0 .. SizeBits - w : d \in S
  BY <1>1, <1>2, <1>3, Upwards
<1>5. ASSUME NEW b \in w .. SizeBits  PROVE Halves(n)[b] = 0
  <2>1. b - w \in 0 .. SizeBits - w /\ w + (b - w) = b
    BY <1>1
  <2>. QED  BY <1>4, <2>1 DEF S
<1>. QED  BY <1>5

LEMMA FitsBits ==
  ASSUME NEW n \in Nat, NEW w \in 0 .. SizeBits, Fits(n, w)
  PROVE  BitsOf(n) \subseteq 0 .. w - 1
<1>1. ASSUME NEW b \in BitsOf(n), b >= w  PROVE FALSE
  <2>1. b \in w .. SizeBits /\ Halves(n)[b] % 2 = 1
    BY <1>1, Widths DEF BitsOf
  <2>. QED  BY <2>1, HalvesZero
<1>. QED  BY <1>1, Widths DEF BitsOf

Bit(bits, b) == IF b \in bits THEN 1 ELSE 0

IsValue(bits, from, value) ==
  value = [b \in from .. SizeBits |->
             IF b = SizeBits THEN 0
             ELSE 2 * value[b + 1] + (IF b \in bits THEN 1 ELSE 0)]

LEMMA ValueExists ==
  ASSUME NEW bits, NEW from \in 0 .. SizeBits
  PROVE  \E value : IsValue(bits, from, value)
<1> DEFINE S == {w \in 0 .. SizeBits : \E value : IsValue(bits, w, value)}
<1>1. SizeBits \in Nat
  BY Widths
<1>2. SizeBits \in S
  <2> DEFINE f == [b \in SizeBits .. SizeBits |-> 0]
  <2>1. IsValue(bits, SizeBits, f)
    BY <1>1 DEF IsValue
  <2>. QED  BY <1>1, <2>1
<1>3. ASSUME NEW w \in 0 .. SizeBits - 1, w + 1 \in S  PROVE w \in S
  <2>1. PICK g : IsValue(bits, w + 1, g)
    BY <1>3
  <2> DEFINE f == [b \in w .. SizeBits |->
                     IF b = w THEN 2 * g[w + 1] + (IF w \in bits THEN 1 ELSE 0)
                     ELSE g[b]]
  <2>2. ASSUME NEW b \in w .. SizeBits
        PROVE  f[b] = IF b = SizeBits THEN 0
                      ELSE 2 * f[b + 1] + (IF b \in bits THEN 1 ELSE 0)
    <3>1. CASE b = w
      <4>1. b # SizeBits /\ b + 1 \in w .. SizeBits /\ b + 1 # w
        BY <1>1, <3>1
      <4>2. /\ f[b] = 2 * g[w + 1] + (IF w \in bits THEN 1 ELSE 0)
            /\ f[b + 1] = g[b + 1]
        BY <3>1, <4>1
      <4>. HIDE DEF f
      <4>. QED  BY <3>1, <4>1, <4>2
    <3>2. CASE b # w
      <4>1. b \in w + 1 .. SizeBits
            /\ (b # SizeBits => b + 1 \in w .. SizeBits /\ b + 1 # w)
        BY <1>1, <3>2
      <4>2. f[b] = g[b] /\ (b # SizeBits => f[b + 1] = g[b + 1])
        BY <3>2, <4>1
      <4>3. g[b] = IF b = SizeBits THEN 0
                   ELSE 2 * g[b + 1] + (IF b \in bits THEN 1 ELSE 0)
        BY <2>1, <4>1 DEF IsValue
      <4>. HIDE DEF f
      <4>. QED  BY <4>2, <4>3
    <3>. QED  BY <3>1, <3>2
  <2>3. IsValue(bits, w, f)
    BY <2>2 DEF IsValue
  <2>. QED  BY <1>1, <2>3
<1>. HIDE DEF S
<1>4. \A b \in 0 .. SizeBits : b \in S
  BY <1>1, <1>2, <1>3, Downwards
<1>. QED  BY <1>4 DEF S

(* The number of the bits from position b on. *)
Upper(bits) == CHOOSE value : IsValue(bits, 0, value)

LEMMA UpperNext ==
  ASSUME NEW bits
  PROVE  /\ NumberOf(bits) = Upper(bits)[0]
         /\ Upper(bits)[SizeBits] = 0
         /\ \A b \in 0 .. SizeBits - 1 :
              Upper(bits)[b] = 2 * Upper(bits)[b + 1] + Bit(bits, b)
         /\ \A b \in 0 .. SizeBits : Upper(bits)[b] \in Nat
<1> DEFINE v == Upper(bits)
           S == {b \in 0 .. SizeBits : v[b] \in Nat}
<1>1. SizeBits \in Nat
  BY Widths
<1>2. IsValue(bits, 0, v)
  <2>1. 0 \in 0 .. SizeBits
    BY <1>1
  <2>. QED  BY <2>1, ValueExists DEF Upper
<1>3. NumberOf(bits) = v[0]
  BY DEF NumberOf, IsValue, Upper
<1>. HIDE DEF v
<1>4. ASSUME NEW b \in 0 .. SizeBits
      PROVE  v[b] = IF b = SizeBits THEN 0
                    ELSE 2 * v[b + 1] + (IF b \in bits THEN 1 ELSE 0)
  BY <1>2 DEF IsValue
<1>5. v[SizeBits] = 0
  BY <1>1, <1>4
<1>6. ASSUME NEW b \in 0 .. SizeBits - 1
      PROVE  v[b] = 2 * v[b + 1] + Bit(bits, b)
  <2>1. b \in 0 .. SizeBits /\ b # SizeBits
    BY <1>1
  <2>. QED  BY <1>4, <2>1 DEF Bit
<1>7. SizeBits \in S
  BY <1>1, <1>5
<1>8. ASSUME NEW b \in 0 .. SizeBits - 1, b + 1 \in S  PROVE b \in S
  <2>1. v[b + 1] \in Nat /\ Bit(bits, b) \in Nat /\ b \in 0 .. SizeBits
    BY <1>1, <1>8 DEF Bit
  <2>. QED  BY <1>6, <2>1
<1>9. \A b \in 0 .. SizeBits : b \in S
  <2>. HIDE DEF S
  <2>. QED  BY <1>1, <1>7, <1>8, Downwards
<1>. QED  BY <1>3, <1>5, <1>6, <1>9 DEF v

LEMMA HalvesOfNumber ==
  ASSUME NEW bits
  PROVE  /\ NumberOf(bits) \in Nat
         /\ \A b \in 0 .. SizeBits :
              Halves(NumberOf(bits))[b] = Upper(bits)[b]
<1> DEFINE n == NumberOf(bits)
           S == {b \in 0 .. SizeBits : Halves(n)[b] = Upper(bits)[b]}
<1>1. SizeBits \in Nat
  BY Widths
<1>2. n \in Nat /\ n = Upper(bits)[0]
  BY <1>1, UpperNext
<1>. HIDE DEF n
<1>3. 0 \in S
  BY <1>1, <1>2, HalvesNext
<1>4. ASSUME NEW b \in 0 .. SizeBits - 1, b \in S  PROVE b + 1 \in S
  <2>1. /\ Halves(n)[b] = Upper(bits)[b]
        /\ Halves(n)[b + 1] = Halves(n)[b] \div 2
        /\ b + 1 \in 0 .. SizeBits
    BY <1>1, <1>2, <1>4, HalvesNext
  <2>2. /\ Upper(bits)[b] = 2 * Upper(bits)[b + 1] + Bit(bits, b)
        /\ Upper(bits)[b + 1] \in Nat
    BY <2>1, UpperNext
  <2>3. Bit(bits, b) \in {0, 1}
    BY DEF Bit
  <2>4. \A x \in Nat : (2 * x + 0) \div 2 = x /\ (2 * x + 1) \div 2 = x
    OBVIOUS
  <2>. QED  BY <2>1, <2>2, <2>3, <2>4
<1>. HIDE DEF S
<1>5. \A b \in 0 .. SizeBits : b \in S
  BY <1>1, <1>3, <1>4, Upwards
<1>. QED  BY <1>2, <1>5 DEF S, n

(* The bits of a number that fits give it back. *)
LEMMA BitsGiveNumber ==
  ASSUME NEW n \in Nat, Fits(n, SizeBits)
  PROVE  NumberOf(BitsOf(n)) = n
<1> DEFINE bits == BitsOf(n)
           S == {b \in 0 .. SizeBits : Upper(bits)[b] = Halves(n)[b]}
<1>1. SizeBits \in Nat
  BY Widths
<1>2. SizeBits \in S
  BY <1>1, UpperNext DEF Fits
<1>3. ASSUME NEW b \in 0 .. SizeBits - 1, b + 1 \in S  PROVE b \in S
  <2>1. /\ Upper(bits)[b] = 2 * Upper(bits)[b + 1] + Bit(bits, b)
        /\ Upper(bits)[b + 1] = Halves(n)[b + 1]
    BY <1>3, UpperNext
  <2>2. /\ Halves(n)[b + 1] = Halves(n)[b] \div 2
        /\ Halves(n)[b] \in Nat /\ b \in 0 .. SizeBits
    BY <1>1, HalvesNext
  <2>3. Bit(bits, b) = Halves(n)[b] % 2
    <3>1. Halves(n)[b] % 2 \in {0, 1}
      BY <2>2
    <3>. QED  BY <3>1 DEF Bit, BitsOf
  <2>4. \A x \in Nat : 2 * (x \div 2) + (x % 2) = x
    OBVIOUS
  <2>. HIDE DEF bits
  <2>. QED  BY <2>1, <2>2, <2>3, <2>4
<1>. HIDE DEF S
<1>4. \A b \in 0 .. SizeBits : b \in S
  BY <1>1, <1>2, <1>3, Downwards
<1>5. Upper(bits)[0] = Halves(n)[0]
  BY <1>1, <1>4 DEF S
<1>. QED  BY <1>5, UpperNext, HalvesNext

-----------------------------------------------------------------------------
(***************************************************************************)
(* What LoadFile makes of the length of a header.                          *)
(***************************************************************************)

LEMMA Places ==
  ASSUME NEW b \in 0 .. SizeBits - 1
  PROVE  \E i \in Bytes, r \in 0 .. ByteBits - 1 : b = r + ByteBits * i
<1> DEFINE S == {p \in Nat : \E i \in Nat, r \in 0 .. ByteBits - 1 :
                               p = r + ByteBits * i}
<1>1. 0 \in S
  <2>1. 0 \in 0 .. ByteBits - 1 /\ 0 = 0 + ByteBits * 0
    BY SafetensorsAssumption
  <2>. QED  BY <2>1
<1>2. ASSUME NEW p \in 0 .. b - 1, p \in S  PROVE p + 1 \in S
  <2>1. PICK i \in Nat, r \in 0 .. ByteBits - 1 : p = r + ByteBits * i
    BY <1>2
  <2>2. CASE r + 1 \in 0 .. ByteBits - 1
    <3>1. ByteBits * i \in Nat
      BY SafetensorsAssumption
    <3>2. p + 1 = (r + 1) + ByteBits * i /\ p + 1 \in Nat
      BY <2>1, <3>1
    <3>. QED  BY <2>2, <3>2
  <2>3. CASE r + 1 \notin 0 .. ByteBits - 1
    <3>1. r + 1 = ByteBits /\ 0 \in 0 .. ByteBits - 1 /\ i + 1 \in Nat
      BY <2>3, SafetensorsAssumption
    <3>2. ByteBits * (i + 1) = ByteBits * i + ByteBits
          /\ ByteBits * i \in Nat
      BY SafetensorsAssumption
    <3>3. p + 1 = 0 + ByteBits * (i + 1) /\ p + 1 \in Nat
      BY <2>1, <3>1, <3>2
    <3>. QED  BY <3>1, <3>3
  <2>. QED  BY <2>2, <2>3
<1>3. b \in S
  <2>. HIDE DEF S
  <2>1. b \in Nat /\ b \in 0 .. b
    BY Widths
  <2>. QED  BY <1>1, <1>2, <2>1, Upwards
<1>4. PICK i \in Nat, r \in 0 .. ByteBits - 1 : b = r + ByteBits * i
  BY <1>3
<1>5. i < SizeBytes
  <2>1. SUFFICES ASSUME i >= SizeBytes  PROVE FALSE
    BY SafetensorsAssumption
  <2>2. i - SizeBytes \in Nat /\ i = SizeBytes + (i - SizeBytes)
    BY <2>1, SafetensorsAssumption
  <2>3. PICK d \in Nat : i = SizeBytes + d
    BY <2>2
  <2>4. /\ ByteBits * i = ByteBits * SizeBytes + ByteBits * d
        /\ ByteBits * SizeBytes \in Nat /\ ByteBits * d \in Nat
    BY <2>3, SafetensorsAssumption
  <2>. QED  BY <1>4, <2>4 DEF SizeBits
<1>6. i \in Bytes
  BY <1>5, SafetensorsAssumption DEF Bytes
<1>. QED  BY <1>4, <1>6

LEMMA StoredLittleEndian ==
  ASSUME NEW bits \in SUBSET (0 .. SizeBits - 1)
  PROVE  /\ Stored(bits) \in SizeFields
         /\ LittleEndian(Stored(bits)) = bits
<1>1. Stored(bits) \in SizeFields
  BY DEF Stored, SizeFields
<1>2. ASSUME NEW i \in Bytes, NEW r \in 0 .. ByteBits - 1
      PROVE  r \in Stored(bits)[i] <=> r + ByteBits * i \in bits
  BY DEF Stored
<1>3. LittleEndian(Stored(bits)) \subseteq bits
  <2>1. SUFFICES ASSUME NEW b \in LittleEndian(Stored(bits))
                 PROVE  b \in bits
    OBVIOUS
  <2>2. PICK i \in Bytes : \E r \in Stored(bits)[i] : b = r + ByteBits * i
    BY <2>1 DEF LittleEndian
  <2>3. PICK r \in Stored(bits)[i] : b = r + ByteBits * i
    BY <2>2
  <2>4. r \in 0 .. ByteBits - 1
    BY <1>1 DEF SizeFields
  <2>. QED  BY <1>2, <2>3, <2>4
<1>4. ASSUME NEW b \in bits  PROVE b \in LittleEndian(Stored(bits))
  <2>1. PICK i \in Bytes, r \in 0 .. ByteBits - 1 : b = r + ByteBits * i
    BY Places
  <2>2. r \in Stored(bits)[i]
    BY <1>2, <2>1
  <2>. QED  BY <2>1, <2>2 DEF LittleEndian
<1>. QED  BY <1>1, <1>3, <1>4

LEMMA StoredFits ==
  ASSUME NEW bits \in SUBSET (0 .. SignBit - 1)
  PROVE  FitsInt(Stored(bits))
<1>1. ASSUME NEW i \in IntBytes .. SizeBytes - 1,
             NEW r \in Stored(bits)[i]
      PROVE  FALSE
  <2>1. i \in Bytes
    BY SafetensorsAssumption DEF Bytes
  <2>2. r \in 0 .. ByteBits - 1 /\ r + ByteBits * i \in 0 .. SignBit - 1
    BY <2>1 DEF Stored
  <2>3. PICK d \in Nat : i = IntBytes + d
    <3>1. i - IntBytes \in Nat /\ i = IntBytes + (i - IntBytes)
      BY SafetensorsAssumption
    <3>. QED  BY <3>1
  <2>4. /\ ByteBits * i = ByteBits * IntBytes + ByteBits * d
        /\ ByteBits * IntBytes \in Nat /\ ByteBits * d \in Nat
    BY <2>3, SafetensorsAssumption
  <2>. QED  BY <2>2, <2>4 DEF SignBit, IntBits
<1>2. ByteBits - 1 \notin Stored(bits)[IntBytes - 1]
  <2>1. IntBytes - 1 \in Bytes
    BY SafetensorsAssumption DEF Bytes
  <2>2. ByteBits - 1 + ByteBits * (IntBytes - 1) = SignBit
    BY SafetensorsAssumption DEF SignBit, IntBits
  <2>. QED  BY <2>1, <2>2, Widths DEF Stored
<1>. QED  BY <1>1, <1>2 DEF FitsInt

(* The size of a header of less than 2^31 bytes is the length that the     *)
(* file gives.                                                             *)
LEMMA LengthIsRead ==
  ASSUME NEW n \in Nat, Fits(n, SignBit),
         NEW bits \in HeaderSizes(Stored(BitsOf(n)))
  PROVE  NumberOf(bits) = n
<1>1. SignBit \in 0 .. SizeBits /\ SizeBits \in SignBit .. SizeBits
  BY Widths
<1>2. BitsOf(n) \in SUBSET (0 .. SignBit - 1)
  BY <1>1, FitsBits
<1>3. BitsOf(n) \in SUBSET (0 .. SizeBits - 1)
  BY DEF BitsOf
<1>4. HeaderSizes(Stored(BitsOf(n))) = {LittleEndian(Stored(BitsOf(n)))}
  BY <1>2, <1>3, StoredFits, StoredLittleEndian, HeaderSizeIsLittleEndian
<1>5. bits = BitsOf(n)
  BY <1>3, <1>4, StoredLittleEndian
<1>6. Fits(n, SizeBits)
  BY <1>1, HalvesZero DEF Fits
<1>. QED  BY <1>5, <1>6, BitsGiveNumber

(* A number that an int is wide enough for, but not without the sign.      *)
LEMMA SignIsSet ==
  ASSUME NEW n \in Nat, Fits(n, IntBits), ~Fits(n, SignBit)
  PROVE  Halves(n)[SignBit] = 1 /\ SignBit \in BitsOf(n)
<1>1. /\ SignBit \in 0 .. SizeBits - 1 /\ IntBits \in 0 .. SizeBits - 1
      /\ SignBit \in 0 .. SizeBits /\ SignBit + 1 = IntBits
  BY Widths
<1>2. /\ Halves(n)[SignBit] \in Nat
      /\ Halves(n)[IntBits] = Halves(n)[SignBit] \div 2
  BY <1>1, HalvesNext
<1>3. Halves(n)[SignBit] = 1
  BY <1>2 DEF Fits
<1>. QED  BY <1>1, <1>3 DEF BitsOf

(* The size of a larger one, as long as an int is wide enough for it, is   *)
(* more than the bytes that follow.                                        *)
LEMMA LengthTooLarge ==
  ASSUME NEW n \in Nat, Fits(n, IntBits), ~Fits(n, SignBit),
         NEW bits \in HeaderSizes(Stored(BitsOf(n)))
  PROVE  NumberOf(bits) \in Nat /\ NumberOf(bits) > n + 1
<1>1. /\ SignBit \in 0 .. SizeBits - 1 /\ IntBits \in 0 .. SizeBits - 1
      /\ SignBit + 1 = IntBits
  BY Widths
<1>2. Halves(n)[SignBit] = 1 /\ SignBit \in BitsOf(n)
  BY SignIsSet
<1>4. ByteBits - 1 \in Stored(BitsOf(n))[IntBytes - 1]
  <2>1. IntBytes - 1 \in Bytes
    BY SafetensorsAssumption DEF Bytes
  <2>2. ByteBits - 1 + ByteBits * (IntBytes - 1) = SignBit
        /\ ByteBits - 1 \in 0 .. ByteBits - 1
    BY SafetensorsAssumption DEF SignBit, IntBits
  <2>. QED  BY <1>2, <2>1, <2>2 DEF Stored
<1>5. SignBit \in bits /\ IntBits \in bits
  <2>1. Stored(BitsOf(n)) \in SizeFields
    BY StoredLittleEndian DEF BitsOf
  <2>2. IntBits \in IntBits .. SizeBits - 1
    BY <1>1
  <2>. QED  BY <1>4, <2>1, <2>2, SignExtendedSize
<1>6. Upper(bits)[SignBit] >= 3 /\ Upper(bits)[SignBit] \in Nat
  <2>1. /\ Upper(bits)[SignBit] = 2 * Upper(bits)[IntBits] + 1
        /\ Upper(bits)[IntBits] = 2 * Upper(bits)[IntBits + 1] + 1
    BY <1>1, <1>5, UpperNext DEF Bit
  <2>2. IntBits + 1 \in 0 .. SizeBits
    BY <1>1, Widths
  <2>3. Upper(bits)[IntBits + 1] \in Nat
    BY <2>2, UpperNext
  <2>. QED  BY <2>1, <2>3
<1>7. NumberOf(bits) \in Nat /\ Halves(NumberOf(bits))[SignBit] >= 3
  <2>1. SignBit \in 0 .. SizeBits
    BY Widths
  <2>. QED  BY <1>6, <2>1, HalvesOfNumber
<1>8. ASSUME NumberOf(bits) <= n + 1  PROVE FALSE
  <2>1. SignBit \in 0 .. SizeBits
    BY Widths
  <2>2. Halves(NumberOf(bits))[SignBit] <= Halves(n)[SignBit] + 1
    BY <1>7, <1>8, <2>1, HalvesClose, 1 \in {0, 1}
  <2>. QED  BY <1>2, <1>6, <1>7, <2>1, <2>2, HalvesOfNumber
<1>. QED  BY <1>7, <1>8

LEMMA ZeroFits ==
  ASSUME NEW w \in 0 .. SizeBits
  PROVE  Fits(0, w)
<1> DEFINE S == {b \in 0 .. SizeBits : Halves(0)[b] = 0}
<1>1. SizeBits \in Nat
  BY Widths
<1>2. 0 \in S
  BY <1>1, HalvesNext
<1>3. ASSUME NEW b \in 0 .. SizeBits - 1, b \in S  PROVE b + 1 \in S
  <2>1. Halves(0)[b + 1] = Halves(0)[b] \div 2 /\ b + 1 \in 0 .. SizeBits
    BY <1>1, HalvesNext
  <2>2. 0 \div 2 = 0
    OBVIOUS
  <2>. QED  BY <1>3, <2>1, <2>2
<1>. HIDE DEF S
<1>4. \A b \in 0 .. SizeBits : b \in S
  BY <1>1, <1>2, <1>3, Upwards
<1>. QED  BY <1>4 DEF S, Fits

LEMMA NoBits == NumberOf({}) = 0
<1>1. 0 \in 0 .. SizeBits /\ SizeBits \in 0 .. SizeBits
  BY Widths
<1>2. BitsOf(0) = {}
  BY <1>1, ZeroFits, FitsBits
<1>. QED  BY <1>1, <1>2, ZeroFits, BitsGiveNumber

(* Bits below a position make less than the bit there.                     *)
LEMMA LowerBitsAreLess ==
  ASSUME NEW w \in 0 .. SizeBits - 1, NEW low \in SUBSET (0 .. w - 1)
  PROVE  NumberOf(low) < NumberOf({w})
<1> DEFINE S == {b \in 0 .. SizeBits : b >= w => Upper(low)[b] = 0}
<1>1. SizeBits \in Nat /\ w \in 0 .. SizeBits /\ w + 1 \in 0 .. SizeBits
  BY Widths
<1>2. SizeBits \in S
  BY <1>1, UpperNext
<1>3. ASSUME NEW b \in 0 .. SizeBits - 1, b + 1 \in S  PROVE b \in S
  <2>1. Upper(low)[b] = 2 * Upper(low)[b + 1] + Bit(low, b)
    BY UpperNext
  <2>2. b >= w => Bit(low, b) = 0 /\ Upper(low)[b + 1] = 0
    BY <1>1, <1>3 DEF Bit
  <2>. QED  BY <1>1, <2>1, <2>2
<1>. HIDE DEF S
<1>4. \A b \in 0 .. SizeBits : b \in S
  BY <1>1, <1>2, <1>3, Downwards
<1>5. Upper(low)[w] = 0
  BY <1>1, <1>4 DEF S
<1>6. Upper({w})[w] \in Nat \ {0}
  <2>1. Upper({w})[w] = 2 * Upper({w})[w + 1] + Bit({w}, w)
        /\ Upper({w})[w + 1] \in Nat
    BY <1>1, UpperNext
  <2>2. Bit({w}, w) = 1
    BY DEF Bit
  <2>. QED  BY <2>1, <2>2
<1>7. /\ NumberOf(low) \in Nat /\ NumberOf({w}) \in Nat
      /\ Halves(NumberOf(low))[w] = Upper(low)[w]
      /\ Halves(NumberOf({w}))[w] = Upper({w})[w]
  BY <1>1, HalvesOfNumber
<1>8. ASSUME NumberOf({w}) <= NumberOf(low)  PROVE FALSE
  <2>1. Halves(NumberOf({w}))[w] <= Halves(NumberOf(low))[w] + 0
    <3>1. NumberOf({w}) <= NumberOf(low) + 0 /\ 0 \in {0, 1}
      BY <1>7, <1>8
    <3>. QED  BY <1>1, <1>7, <3>1, HalvesClose
  <2>2. /\ Halves(NumberOf(low))[w] = 0
        /\ Halves(NumberOf({w}))[w] \in Nat \ {0}
    BY <1>5, <1>6, <1>7
  <2>. QED  BY <2>1, <2>2
<1>. QED  BY <1>7, <1>8

(* A size that is a positive int stays what it is, and one that sets the   *)
(* sign becomes negative.                                                  *)
LEMMA NarrowedIs ==
  ASSUME NEW n \in Nat
  PROVE  /\ Fits(n, SignBit) => Narrowed(n) = n
         /\ Fits(n, IntBits) /\ ~Fits(n, SignBit) =>
              Narrowed(n) \in Int /\ Narrowed(n) < 0
<1> DEFINE low == BitsOf(n) \cap 0 .. SignBit - 1
           sign == BitsOf(n) \cap {SignBit}
<1>1. /\ SignBit \in 0 .. SizeBits - 1 /\ SignBit \in 0 .. SizeBits
      /\ SizeBits \in SignBit .. SizeBits
  BY Widths
<1>2. ASSUME Fits(n, SignBit)  PROVE Narrowed(n) = n
  <2>1. BitsOf(n) \subseteq 0 .. SignBit - 1
    BY <1>1, <1>2, FitsBits
  <2>2. low = BitsOf(n) /\ sign = {}
    BY <1>1, <2>1
  <2>3. Fits(n, SizeBits)
    BY <1>1, <1>2, HalvesZero DEF Fits
  <2>4. NumberOf(low) = n /\ NumberOf(sign) = 0
    BY <2>2, <2>3, BitsGiveNumber, NoBits
  <2>. QED  BY <2>4 DEF Narrowed
<1>3. ASSUME Fits(n, IntBits), ~Fits(n, SignBit)
      PROVE  Narrowed(n) \in Int /\ Narrowed(n) < 0
  <2>1. sign = {SignBit}
    BY <1>3, SignIsSet
  <2>2. NumberOf(low) < NumberOf(sign)
    BY <1>1, <2>1, LowerBitsAreLess
  <2>3. NumberOf(low) \in Nat /\ NumberOf(sign) \in Nat
    BY HalvesOfNumber
  <2>. QED  BY <2>2, <2>3 DEF Narrowed
<1>. QED  BY <1>2, <1>3

-----------------------------------------------------------------------------
(***************************************************************************)
(* What Parse makes of nothing: no token, and no value.                    *)
(***************************************************************************)
LEMMA NothingToPeek ==
  ASSUME NEW s, IsScanner(s), s.size <= 0, Ok(s), s.ahead = NoToken
  PROVE  Ok(Peek(s)) => Peek(s).ahead = NoToken
<1> DEFINE q == [s EXCEPT !.tok = NoToken]
           w == SkipWhitespace(q)
           p == PeekChar(w)
<1>1. IsScanner(q) /\ q.size = s.size /\ q.tok = NoToken
  BY NoTokenIsToken, TokenMoves DEF Moves
<1>. HIDE DEF q
<1>2. IsScanner(w) /\ w.size = s.size /\ w.tok = NoToken
  BY <1>1, SkipWhitespaceMoves DEF Moves
<1>. HIDE DEF w
<1>3. IsScanner(p) /\ p.size = s.size /\ p.tok = NoToken
      /\ (p.c # Eof => p.look)
  BY <1>2, PeekCharMoves DEF Moves
<1>. HIDE DEF p
<1>4. p.c = Eof
  BY <1>3 DEF IsScanner
<1>5. Scan(s) = p
  <2> DEFINE a == Advance(p)
  <2>1. p = PeekChar(SkipWhitespace([s EXCEPT !.tok = NoToken]))
    BY DEF p, w, q
  <2>. QED  BY <1>4, <2>1, ScanDispatch
<1>6. CASE Ok(p)
  <2>1. /\ IsScanner(SkipWhitespace(p))
        /\ Peek(s) = [SkipWhitespace(p) EXCEPT !.ahead = NoToken]
    BY <1>3, <1>5, <1>6, SkipWhitespaceMoves DEF Peek, Then, Moves
  <2>. QED  BY <2>1 DEF IsScanner, Fields
<1>7. CASE ~Ok(p)
  BY <1>5, <1>7 DEF Peek, Then
<1>. QED  BY <1>6, <1>7

LEMMA NothingToParse ==
  ASSUME NEW chars \in Seq(Signs), NEW length \in Int, length <= 0
  PROVE  ~Ok(Parse(chars, length))
<1> DEFINE s == Start(chars, length)
<1>1. PICK rounds, after : Run(chars, length, rounds, after)
  BY ParseEnds
<1>2. /\ rounds \in Nat /\ ParseRounds(chars, length, rounds, after)
      /\ Ok(after[rounds]) => after[rounds].calls = <<>>
      /\ ~Ok(after[rounds]) => Parse(chars, length) = after[rounds]
  BY <1>1 DEF Run
<1>3. after[0] = s
  BY <1>2 DEF ParseRounds
<1>4. /\ HasTokens(s) /\ IsScanner(s) /\ s.size = length /\ Ok(s)
      /\ s.ahead = NoToken /\ s.calls = <<Call>>
  BY StartParses DEF IsParser, HasTokens, Start, Ok
<1>5. <<Call>> # <<>> /\ Head(<<Call>>) = Call
  OBVIOUS
<1>. HIDE DEF s
<1>6. rounds # 0
  BY <1>2, <1>3, <1>4, <1>5, Zenon
<1>7. after[1] = Round(s)
  <2>1. 1 \in 0 .. rounds
    BY <1>2, <1>6
  <2>. QED  BY <1>2, <1>3, <2>1 DEF ParseRounds
<1>8. Round(s) = Value(s)
  BY <1>4, <1>5 DEF Round, Call
<1>9. ~Ok(Value(s))
  <2>1. CASE Ok(Peek(s))
    <3>1. Peek(s).ahead = NoToken
      BY <1>4, <2>1, NothingToPeek
    <3>2. Value(s) = Fail(Peek(s), "parse")
      BY <2>1, <3>1 DEF Value, Then, NoToken
    <3>3. IsScanner(Peek(s))
      BY <1>4, PeekReads DEF Reads, HasTokens
    <3>. QED  BY <3>2, <3>3, FailMoves
  <2>2. CASE ~Ok(Peek(s))
    BY <2>2 DEF Value, Then
  <2>. QED  BY <2>1, <2>2
<1>10. after[rounds] = after[1]
  <2>1. 1 \in 0 .. rounds
    BY <1>2, <1>6
  <2>2. ~Ok(after[1])
    BY <1>7, <1>8, <1>9, Zenon
  <2>. QED  BY <1>2, <2>1, <2>2, ParseRoundsStay
<1>. QED  BY <1>2, <1>7, <1>8, <1>9, <1>10

-----------------------------------------------------------------------------
(***************************************************************************)
(* A model.                                                                *)
(***************************************************************************)
Order == Append(JsonFiles, "tensors")

LEMMA NamesInOrder ==
  /\ DOMAIN Order = 1 .. 6
  /\ Order[6] = "tensors"
  /\ \A i \in 1 .. 5 : Order[i] \in Names \ {"tensors"}
  /\ \A n \in Names : \E i \in 1 .. 6 : n = Order[i]
<1>1. Names = {"config", "gen_config", "special_tokens_map", "tok_config",
               "tok", "tensors"}
  BY DEF Names, JsonFiles, ToSet
<1>2. JsonFiles \in Seq(Names) /\ Len(JsonFiles) = 5 /\ "tensors" \in Names
  <2>1. \A i \in 1 .. 5 : JsonFiles[i] \in Names \ {"tensors"}
    BY <1>1 DEF JsonFiles
  <2>2. Len(JsonFiles) = 5 /\ JsonFiles = [i \in 1 .. 5 |-> JsonFiles[i]]
    BY DEF JsonFiles
  <2>3. [i \in 1 .. 5 |-> JsonFiles[i]] \in Seq(Names)
    BY <2>1, IsASeq, 5 \in Nat
  <2>. QED  BY <1>1, <2>2, <2>3
<1>3. /\ Order \in Seq(Names) /\ Len(Order) = 6 /\ Order[6] = "tensors"
      /\ \A i \in 1 .. 5 : Order[i] = JsonFiles[i]
  <2>1. /\ Append(JsonFiles, "tensors") \in Seq(Names)
        /\ Len(Append(JsonFiles, "tensors")) = Len(JsonFiles) + 1
        /\ Append(JsonFiles, "tensors")[Len(JsonFiles) + 1] = "tensors"
        /\ \A i \in 1 .. Len(JsonFiles) :
             Append(JsonFiles, "tensors")[i] = JsonFiles[i]
    <3>. HIDE DEF JsonFiles
    <3>1. JsonFiles \in Seq(Names) /\ "tensors" \in Names
      BY <1>2
    <3>. QED  BY <3>1, AppendProperties
  <2>. QED  BY <1>2, <2>1 DEF Order
<1>4. /\ JsonFiles[1] = "config" /\ JsonFiles[2] = "gen_config"
      /\ JsonFiles[3] = "special_tokens_map" /\ JsonFiles[4] = "tok_config"
      /\ JsonFiles[5] = "tok"
  BY DEF JsonFiles
<1>5. DOMAIN Order = 1 .. 6
  BY <1>3, LenProperties
<1>. QED  BY <1>1, <1>3, <1>4, <1>5

LEMMA OneIsSeq ==
  ASSUME NEW S, NEW x \in S
  PROVE  <<x>> \in Seq(S)
OBVIOUS

(* What can begin a file of tensors. *)
IsTensors(f) ==
  /\ f.size \in Nat /\ f.prefix \in 0 .. SizeBytes
  /\ f.text \in Seq(Characters) /\ Len(f.text) <= f.size + 1
  /\ f.prefix < SizeBytes => f.text = <<>>

LEMMA NoFileIsTensors == IsTensors(Absent) /\ IsTensors(Empty)
<1>1. <<>> \in Seq(Characters) /\ Len(<<>>) = 0
  BY EmptySeq
<1>2. ASSUME NEW f, f.size = 0, f.prefix = 0, f.text = <<>>
      PROVE  IsTensors(f)
  <2>1. f.text \in Seq(Characters) /\ Len(f.text) = 0
    BY <1>1, <1>2
  <2>. QED  BY <1>2, <2>1, SafetensorsAssumption DEF IsTensors
<1>. QED  BY <1>2 DEF Absent, Empty

LEMMA BegunIsTensors ==
  ASSUME NEW length \in Nat, NEW text \in Seq(Characters),
         Len(text) <= length + 1
  PROVE  IsTensors(Begun(length, text))
BY SafetensorsAssumption DEF IsTensors, Begun

LEMMA TensorsFileIsTensors ==
  ASSUME NEW text \in Seq(Characters)
  PROVE  IsTensors(TensorsFile(text))
<1>1. <<"}">> \in Seq(Characters) /\ Len(<<"}">>) = 1
  <2>1. "}" \in Characters
    BY DEF Characters, Punctuation
  <2>. QED  BY <2>1, OneIsSeq
<1>2. /\ text \o <<"}">> \in Seq(Characters)
      /\ Len(text \o <<"}">>) = Len(text) + 1
  BY <1>1, ConcatProperties
<1> DEFINE full == text \o <<"}">>
           length == Len(text)
<1>3. length \in Nat /\ full \in Seq(Characters) /\ Len(full) <= length + 1
  <2>1. length \in Nat
    BY LenProperties
  <2>2. full \in Seq(Characters) /\ Len(full) = length + 1
    BY <1>2
  <2>. HIDE DEF full, length
  <2>. QED  BY <2>1, <2>2
<1>4. TensorsFile(text) = Begun(length, full)
  BY DEF TensorsFile
<1>. HIDE DEF full, length
<1>. QED  BY <1>3, <1>4, BegunIsTensors

LEMMA TruncatedIsTensors ==
  ASSUME NEW text \in Seq(Characters), NEW f \in Truncated(text)
  PROVE  IsTensors(f)
<1>1. Len(text) \in Nat
  BY LenProperties
<1>2. ASSUME NEW n \in {Len(text) \div 2, Len(text) - 1} \cap Nat,
             f = Begun(Len(text), SubSeq(text, 1, n))
      PROVE  IsTensors(f)
  <2>1. n \in 0 .. Len(text)
    BY <1>1
  <2> DEFINE cut == SubSeq(text, 1, n)
             length == Len(text)
  <2>2. cut \in Seq(Characters) /\ Len(cut) = n
    BY <2>1, BeginningOf
  <2>3. length \in Nat /\ Len(cut) <= length + 1
    BY <1>1, <2>1, <2>2
  <2>4. f = Begun(length, cut)
    BY <1>2
  <2>. HIDE DEF cut, length
  <2>. QED  BY <2>2, <2>3, <2>4, BegunIsTensors
<1>3. ASSUME NEW n \in 1 .. SizeBytes - 1,
             f = [Begun(Len(text), <<>>) EXCEPT !.prefix = n]
      PROVE  IsTensors(f)
  <2>1. f.size = Len(text) /\ f.prefix = n /\ f.text = <<>>
    BY <1>3 DEF Begun
  <2>2. <<>> \in Seq(Characters) /\ Len(<<>>) = 0
    BY EmptySeq
  <2>3. n \in 0 .. SizeBytes
    BY SafetensorsAssumption
  <2>. QED  BY <1>1, <2>1, <2>2, <2>3 DEF IsTensors
<1>. QED  BY <1>2, <1>3 DEF Truncated

(* The directories that are tried hold such a file, and texts. *)
LEMMA DirectoryHasFiles ==
  ASSUME document \in Seq(Characters), NEW d \in Directories
  PROVE  /\ IsTensors(d["tensors"])
         /\ \A n \in Names \ {"tensors"} : d[n].text \in Seq(Characters)
<1>1. /\ "tensors" \in Names /\ "tensors" \notin ToSet(JsonFiles)
      /\ ToSet(JsonFiles) \subseteq Names
  BY DEF Names, JsonFiles, ToSet
<1>2. <<"t">> \in Seq(Characters)
  <2>1. "t" \in Characters
    BY DEF Characters, Alnum, Letters
  <2>. QED  BY <2>1, OneIsSeq
<1>3. IsTensors(Plain("tensors"))
  BY <1>2, TensorsFileIsTensors DEF Plain
<1>4. ASSUME NEW f \in {File(document), File(<<"t">>), Absent}
      PROVE  f.text \in Seq(Characters)
  BY <1>2, NoFileIsTensors DEF File, Empty, Absent, IsTensors
<1>5. ASSUME NEW n \in Names \ {"tensors"}
      PROVE  Plain(n).text \in Seq(Characters)
  BY <1>4 DEF Plain
<1> DEFINE plain == [n \in Names |-> Plain(n)]
<1>6. CASE \E odd \in ToSet(JsonFiles), f \in {File(document), Absent} :
             d = [plain EXCEPT ![odd] = f]
  <2>1. PICK odd \in ToSet(JsonFiles), f \in {File(document), Absent} :
          d = [plain EXCEPT ![odd] = f]
    BY <1>6
  <2>2. d["tensors"] = Plain("tensors")
    BY <1>1, <2>1
  <2>3. ASSUME NEW n \in Names \ {"tensors"}
        PROVE  d[n] = f \/ d[n] = Plain(n)
    BY <2>1
  <2>. QED  BY <1>3, <1>4, <1>5, <2>2, <2>3
<1>7. CASE \E f \in {TensorsFile(document), Absent, Empty}
                       \cup Truncated(document) :
             d = [plain EXCEPT !["tensors"] = f]
  <2>1. PICK f \in {TensorsFile(document), Absent, Empty}
                      \cup Truncated(document) :
          d = [plain EXCEPT !["tensors"] = f]
    BY <1>7
  <2>2. d["tensors"] = f
    BY <1>1, <2>1
  <2>3. ASSUME NEW n \in Names \ {"tensors"}  PROVE d[n] = Plain(n)
    BY <2>1
  <2>4. IsTensors(f)
    BY <2>1, NoFileIsTensors, TensorsFileIsTensors, TruncatedIsTensors
  <2>. QED  BY <1>5, <2>2, <2>3, <2>4
<1>. QED  BY <1>6, <1>7 DEF Directories

(* LoadConfig: a file fails, and then the first that does, or none. *)
LEMMA FirstFailure ==
  ASSUME NEW read,
         NEW failing,
         failing = {i \in DOMAIN Order : read[Order[i]].err # "none"}
  PROVE  /\ failing = {} <=> \A n \in Names : read[n].err = "none"
         /\ failing # {} => read[Order[Min(failing)]].err # "none"
         /\ failing = {6} => Order[Min(failing)] = "tensors"
<1>1. failing = {} <=> \A n \in Names : read[n].err = "none"
  <2>1. failing = {} <=> \A i \in 1 .. 6 : read[Order[i]].err = "none"
    BY NamesInOrder
  <2>2. \A i \in 1 .. 6 : Order[i] \in Names
    <3>1. "tensors" \in Names
      BY DEF Names
    <3>2. \A i \in 1 .. 6 : i = 6 \/ i \in 1 .. 5
      OBVIOUS
    <3>. QED  BY <3>1, <3>2, NamesInOrder
  <2>3. \A n \in Names : \E i \in 1 .. 6 : n = Order[i]
    BY NamesInOrder
  <2>. QED  BY <2>1, <2>2, <2>3, Zenon
<1>2. ASSUME failing # {}  PROVE Min(failing) \in failing
  <2>1. failing \in SUBSET Nat
    BY NamesInOrder
  <2>2. \E n \in failing : \A m \in failing : n <= m
    BY <1>2, <2>1, LeastOf
  <2>. QED  BY <2>2 DEF Min
<1>3. failing # {} => read[Order[Min(failing)]].err # "none"
  BY <1>2
<1>4. failing = {6} => Order[Min(failing)] = "tensors"
  BY <1>2, NamesInOrder
<1>. QED  BY <1>1, <1>3, <1>4

LEMMA LoadedIs ==
  ASSUME NEW read, NEW header_size,
         NEW config, config = Loaded(read, header_size)
  PROVE  /\ config.err = "none" <=> \A n \in Names : read[n].err = "none"
         /\ config.err = "none" =>
              /\ \A n \in Names : config.val[n] = read[n].val
              /\ config.data_offset = SizeBytes + header_size
         /\ (/\ read["tensors"].err # "none"
             /\ \A n \in Names \ {"tensors"} : read[n].err = "none")
              => config.err = read["tensors"].err
<1> DEFINE failing == {i \in DOMAIN Order : read[Order[i]].err # "none"}
<1>1. /\ failing = {} => config = [err |-> "none",
                                  val |-> [n \in Names |-> read[n].val],
                                  data_offset |-> SizeBytes + header_size]
      /\ failing # {} =>
           config = [NotLoaded EXCEPT !.err = read[Order[Min(failing)]].err]
  BY Zenon DEF Loaded, Order
<1>2. /\ failing = {} <=> \A n \in Names : read[n].err = "none"
      /\ failing # {} => read[Order[Min(failing)]].err # "none"
      /\ failing = {6} => Order[Min(failing)] = "tensors"
  BY FirstFailure
<1>3. ASSUME read["tensors"].err # "none",
             \A n \in Names \ {"tensors"} : read[n].err = "none"
      PROVE  failing = {6}
  <2>1. \A i \in 1 .. 6 : i = 6 \/ i \in 1 .. 5
    OBVIOUS
  <2>2. \A i \in 1 .. 5 : read[Order[i]].err = "none"
    BY <1>3, NamesInOrder
  <2>. QED  BY <1>3, <2>1, <2>2, NamesInOrder
<1>4. CASE failing = {}
  <2>1. /\ config.err = "none"
        /\ config.val = [n \in Names |-> read[n].val]
        /\ config.data_offset = SizeBytes + header_size
    <3> DEFINE val == [n \in Names |-> read[n].val]
               offset == SizeBytes + header_size
    <3>1. config = [err |-> "none", val |-> val, data_offset |-> offset]
      BY <1>1, <1>4
    <3>. HIDE DEF val, offset, failing
    <3>2. /\ config.err = "none"
          /\ config.val = val /\ config.data_offset = offset
      BY <3>1
    <3>. QED  BY <3>2 DEF val, offset
  <2>2. "tensors" \in Names
    BY DEF Names
  <2>. HIDE DEF failing
  <2>. QED  BY <1>2, <1>4, <2>1, <2>2
<1>5. CASE failing # {}
  <2>1. config.err = read[Order[Min(failing)]].err
    BY <1>1, <1>5 DEF NotLoaded
  <2>. HIDE DEF failing
  <2>2. config.err # "none"
    BY <1>2, <1>5, <2>1
  <2>. QED  BY <1>2, <1>3, <1>5, <2>1, <2>2
<1>. QED  BY <1>4, <1>5

LEMMA OutcomeIs ==
  ASSUME NEW s
  PROVE  Outcome(s).err = s.err /\ Outcome(s).val = s.val
BY DEF Outcome

LEMMA CharactersAreSigns ==
  ASSUME NEW text \in Seq(Characters)
  PROVE  text \in Seq(Signs)
<1>1. Characters \subseteq Signs
  BY DEF Signs, Sent
<1>. QED  BY <1>1

(* A file is read if and only if it is there and holds one document, as    *)
(* long as its size is a positive int, and never if the size turns into a  *)
(* negative one.                                                           *)
LEMMA FileIsParsed ==
  ASSUME NEW f, f.text \in Seq(Characters),
         NEW read, read = ParseFile(f),
         NEW document_of, document_of = Parse(f.text, Len(f.text))
  PROVE  /\ IsPositiveInt(Len(f.text)) =>
              /\ read.err = "none" <=> f.exists /\ Ok(document_of)
              /\ f.exists => read.val = document_of.val
         /\ IsNegativeInt(Len(f.text)) => read.err # "none"
<1>1. Len(f.text) \in Nat /\ f.text \in Seq(Signs)
  BY LenProperties, CharactersAreSigns
<1>2. ~f.exists => read.err = "system"
  BY DEF ParseFile, Failure
<1>3. f.exists =>
        LET parsed == Parse(f.text, Narrowed(Len(f.text)))
        IN read.err = parsed.err /\ read.val = parsed.val
  BY DEF ParseFile, Outcome
<1>4. IsPositiveInt(Len(f.text)) => Narrowed(Len(f.text)) = Len(f.text)
  BY <1>1, NarrowedIs DEF IsPositiveInt
<1>5. ASSUME IsNegativeInt(Len(f.text))
      PROVE  ~Ok(Parse(f.text, Narrowed(Len(f.text))))
  BY <1>1, <1>5, NarrowedIs, NothingToParse DEF IsNegativeInt
<1>. QED  BY <1>2, <1>3, <1>4, <1>5 DEF Ok

(* Tensors that do not begin completely are not read. *)
LEMMA StubIsNotRead ==
  ASSUME NEW f, IsTensors(f), f.prefix < SizeBytes,
         NEW number \in Nat, NEW beyond \in {"parse", "fault"}
  PROVE  LoadFile(f, number, beyond).err # "none"
<1> DEFINE read == LoadFile(f, number, beyond)
<1>1. f.text = <<>> /\ Len(f.text) = 0 /\ f.prefix \in Nat
  BY DEF IsTensors
<1>2. CASE ~f.exists
  BY <1>2 DEF LoadFile, Failure
<1>3. CASE f.exists /\ f.prefix = 0
  BY <1>3 DEF LoadFile, Failure
<1>4. CASE f.exists /\ f.prefix > 0 /\ number > 0
  BY <1>1, <1>4 DEF LoadFile, Failure
<1>5. CASE f.exists /\ f.prefix > 0 /\ number = 0
  <2>1. number = 0 /\ Narrowed(0) = 0
    <3>1. SignBit \in 0 .. SizeBits
      BY Widths
    <3>. QED  BY <1>5, <3>1, ZeroFits, NarrowedIs
  <2>2. SubSeq(f.text, 1, number) \in Seq(Signs)
    <3>1. number \in 0 .. Len(f.text)
      BY <1>1, <2>1
    <3>. QED  BY <3>1, BeginningOf, CharactersAreSigns DEF IsTensors
  <2>3. read = Outcome(Parse(SubSeq(f.text, 1, number), Narrowed(number)))
    BY <1>1, <1>5 DEF LoadFile
  <2> DEFINE header == SubSeq(f.text, 1, number)
             length == Narrowed(number)
  <2>4. ~Ok(Parse(header, length))
    <3>1. length \in Int /\ length <= 0 /\ header \in Seq(Signs)
      BY <2>1, <2>2
    <3>. HIDE DEF header, length
    <3>. QED  BY <3>1, NothingToParse
  <2>. QED  BY <2>3, <2>4 DEF Outcome, Ok
<1>. QED  BY <1>1, <1>2, <1>3, <1>4, <1>5

(* So it is with the header of the tensors, which has the size that the    *)
(* first bytes say.                                                        *)
HeaderOf(f) == SubSeq(f.text, 1, f.size)
HeaderValue(f) == Parse(HeaderOf(f), Len(HeaderOf(f)))
HasHeader(f) ==
  /\ f.exists /\ f.prefix = SizeBytes
  /\ f.size <= Len(f.text) /\ Ok(HeaderValue(f))

LEMMA TensorsAreLoaded ==
  ASSUME NEW f, IsTensors(f), NEW bits \in HeaderSizes(SizeField(f)),
         NEW beyond \in {"parse", "fault"}
  PROVE  LET number == NumberOf(bits)
             read == LoadFile(f, number, beyond)
         IN /\ IsPositiveInt(f.size) =>
                 /\ read.err = "none" <=> HasHeader(f)
                 /\ HasHeader(f) =>
                      read.val = HeaderValue(f).val /\ number = f.size
            /\ IsNegativeInt(f.size) => read.err # "none"
<1> DEFINE number == NumberOf(bits)
           read == LoadFile(f, number, beyond)
           header == HeaderOf(f)
           document_of == HeaderValue(f)
           whole == HasHeader(f)
<1>0. /\ number = NumberOf(bits)
      /\ read = LoadFile(f, number, beyond)
      /\ header = SubSeq(f.text, 1, f.size)
      /\ document_of = Parse(header, Len(header))
      /\ whole <=> /\ f.exists /\ f.prefix = SizeBytes
                   /\ f.size <= Len(f.text) /\ Ok(document_of)
  BY DEF HeaderOf, HeaderValue, HasHeader
<1>. HIDE DEF number, read, header, document_of, whole
<1>1. /\ IsPositiveInt(f.size) =>
           /\ read.err = "none" <=> whole
           /\ whole => read.val = document_of.val /\ number = f.size
      /\ IsNegativeInt(f.size) => read.err # "none"
  <2>. USE <1>0
  <2>1. /\ number \in Nat /\ f.size \in Nat /\ Len(f.text) \in Nat
        /\ f.prefix \in Nat /\ SizeBytes \in Nat /\ SizeBytes > 0
    BY HalvesOfNumber, LenProperties, SafetensorsAssumption DEF IsTensors
  <2>2. CASE f.prefix # SizeBytes
    <3>1. f.prefix < SizeBytes
      BY <2>1, <2>2 DEF IsTensors
    <3>. QED  BY <2>1, <2>2, <3>1, StubIsNotRead
  <2>3. CASE ~f.exists
    BY <2>3 DEF LoadFile, Failure
  <2>4. CASE f.prefix = SizeBytes /\ f.exists
    <3>1. SizeField(f) = Stored(BitsOf(f.size))
      BY <2>4, SafetensorsAssumption DEF SizeField, Stored, Bytes
    <3>2. number > Len(f.text) => read.err # "none"
      BY <2>1, <2>4 DEF LoadFile, Failure
    <3>3. ~(number > Len(f.text)) =>
            read = Outcome(Parse(SubSeq(f.text, 1, number), Narrowed(number)))
      BY <2>1, <2>4 DEF LoadFile
    <3>4. ASSUME IsPositiveInt(f.size)
          PROVE  /\ read.err = "none" <=> whole
                 /\ whole => read.val = document_of.val /\ number = f.size
      <4>1. number = f.size
        BY <2>1, <3>1, <3>4, LengthIsRead DEF IsPositiveInt
      <4>2. Narrowed(number) = number
        BY <2>1, <3>4, <4>1, NarrowedIs DEF IsPositiveInt
      <4>3. CASE number > Len(f.text)
        BY <2>1, <3>2, <4>1, <4>3
      <4>4. CASE ~(number > Len(f.text))
        <5>1. number \in 0 .. Len(f.text)
          BY <2>1, <4>4
        <5>2. Len(header) = number
          BY <4>1, <5>1, BeginningOf DEF IsTensors
        <5>3. read.err = document_of.err /\ read.val = document_of.val
          <6>1. /\ header = SubSeq(f.text, 1, number)
                /\ Len(header) = Narrowed(number)
            BY <4>1, <4>2, <5>2
          <6>2. document_of =
                  Parse(SubSeq(f.text, 1, number), Narrowed(number))
            BY <6>1
          <6>3. read = Outcome(document_of)
            BY <3>3, <4>4, <6>2, Zenon
          <6>. QED  BY <6>3, OutcomeIs, Zenon
        <5>4. f.size <= Len(f.text)
          BY <2>1, <4>1, <4>4
        <5>. QED  BY <2>4, <4>1, <5>3, <5>4 DEF Ok
      <4>. QED  BY <4>3, <4>4
    <3>5. ASSUME IsNegativeInt(f.size)  PROVE read.err # "none"
      <4>1. number > f.size + 1
        BY <2>1, <3>1, <3>5, LengthTooLarge DEF IsNegativeInt
      <4>2. number > Len(f.text)
        BY <2>1, <4>1 DEF IsTensors
      <4>. QED  BY <3>2, <4>2
    <3>. QED  BY <3>4, <3>5
  <2>. QED  BY <2>2, <2>3, <2>4
<1>. QED  BY <1>1 DEF number, read, document_of, whole

LEMMA LoadConfigReadsWhole ==
  ASSUME source \in Sources, LoadConfig
  PROVE  ModelIsReadWhole'
<1> DEFINE f == dir'["tensors"]
<1>1. document \in Seq(Characters)
  BY JsonBodyAssumption DEF document
<1>2. /\ IsTensors(f)
      /\ \A n \in Names \ {"tensors"} : dir'[n].text \in Seq(Characters)
  BY <1>1, DirectoryHasFiles DEF LoadConfig
<1>3. PICK bits \in HeaderSizes(SizeField(f)), beyond \in {"parse", "fault"} :
        loaded' = Loaded(ReadFiles(NumberOf(bits), beyond), NumberOf(bits))
  BY DEF LoadConfig
<1>4. "tensors" \in Names
  BY DEF Names
<1> DEFINE number == NumberOf(bits)
           read == ReadFiles(number, beyond)
<1>5. /\ loaded'.err = "none" <=> \A n \in Names : read[n].err = "none"
      /\ loaded'.err = "none" =>
           /\ \A n \in Names : loaded'.val[n] = read[n].val
           /\ loaded'.data_offset = SizeBytes + number
  BY <1>3, LoadedIs
<1>6. ASSUME NEW n \in Names \ {"tensors"}
      PROVE  /\ IsPositiveInt(SizeOf(n)') =>
                  /\ read[n].err = "none" <=> IsWhole(n)'
                  /\ IsWhole(n)' => read[n].val = (Contents(n).val)'
             /\ IsNegativeInt(SizeOf(n)') => read[n].err # "none"
  <2>1. read[n] = ParseFile(dir'[n])
    BY DEF ReadFiles
  <2>2. /\ (Contents(n))' = Parse(dir'[n].text, Len(dir'[n].text))
        /\ (SizeOf(n))' = Len(dir'[n].text)
    BY DEF Contents, SizeOf
  <2>3. (IsWhole(n))' <=>
          dir'[n].exists /\ Ok(Parse(dir'[n].text, Len(dir'[n].text)))
    BY <2>2 DEF IsWhole
  <2>. HIDE DEF read
  <2>. QED  BY <1>2, <2>1, <2>2, <2>3, FileIsParsed
<1>7. /\ IsPositiveInt(SizeOf("tensors")') =>
           /\ read["tensors"].err = "none" <=> IsWhole("tensors")'
           /\ IsWhole("tensors")' =>
                /\ read["tensors"].val = (Contents("tensors").val)'
                /\ number = SizeOf("tensors")'
      /\ IsNegativeInt(SizeOf("tensors")') => read["tensors"].err # "none"
  <2>1. read["tensors"] = LoadFile(f, number, beyond)
    BY <1>4 DEF ReadFiles
  <2>2. /\ (Contents("tensors"))' = HeaderValue(f)
        /\ (SizeOf("tensors"))' = f.size
    BY DEF Contents, SizeOf, HeaderValue, HeaderOf
  <2>3. (IsWhole("tensors"))' <=> HasHeader(f)
    BY <2>2 DEF IsWhole, HasHeader
  <2>4. /\ IsPositiveInt(f.size) =>
             /\ read["tensors"].err = "none" <=> HasHeader(f)
             /\ HasHeader(f) =>
                  /\ read["tensors"].val = HeaderValue(f).val
                  /\ number = f.size
        /\ IsNegativeInt(f.size) => read["tensors"].err # "none"
    <3>. HIDE DEF f, read
    <3>. QED  BY <1>2, <2>1, TensorsAreLoaded
  <2>. HIDE DEF read, f, number
  <2>. QED  BY <2>2, <2>3, <2>4
<1>. HIDE DEF read, f, number
<1>8. ASSUME \A n \in Names : IsPositiveInt(SizeOf(n)')
      PROVE  /\ loaded'.err = "none" <=> \A n \in Names : IsWhole(n)'
             /\ loaded'.err = "none" =>
                  /\ \A n \in Names : loaded'.val[n] = (Contents(n).val)'
                  /\ loaded'.data_offset = SizeBytes + SizeOf("tensors")'
  <2>1. ASSUME NEW n \in Names
        PROVE  /\ read[n].err = "none" <=> IsWhole(n)'
               /\ IsWhole(n)' => read[n].val = (Contents(n).val)'
    BY <1>6, <1>7, <1>8
  <2>. QED  BY <1>4, <1>5, <1>7, <1>8, <2>1
<1>9. ASSUME NEW n \in Names, IsNegativeInt(SizeOf(n)')
      PROVE  loaded'.err # "none"
  BY <1>5, <1>6, <1>7, <1>9
<1>. QED  BY <1>8, <1>9 DEF ModelIsReadWhole

ModelInv == source \in Sources /\ ModelIsReadWhole

(* The model is read whole or not at all, for documents of any length and  *)
(* types of any width, with files that were cut off anywhere: as long as   *)
(* the sizes are positive ints, and never if one becomes a negative int    *)
(* when parser.cc or safetensors.cc narrows it.                            *)
THEOREM ModelReadWhole == ModelSpec => []ModelIsReadWhole
<1>1. ModelInit => ModelInv
  BY DEF ModelInit, Init, ModelInv, ModelIsReadWhole
<1>2. ModelInv /\ [ModelNext]_modelVars => ModelInv'
  <2> SUFFICES ASSUME ModelInv, [ModelNext]_modelVars  PROVE ModelInv'
    OBVIOUS
  <2>1. CASE LoadConfig
    <3>1. source' = source
      BY <2>1 DEF LoadConfig, vars
    <3>2. ModelIsReadWhole'
      BY <2>1, LoadConfigReadsWhole DEF ModelInv
    <3>. QED  BY <3>1, <3>2 DEF ModelInv
  <2>2. CASE loaded = NotLoaded /\ Next /\ UNCHANGED <<dir, loaded>>
    <3>1. source' = source
      BY <2>2 DEF Next, Send, ParseBody, Answered, vars
    <3>. QED  BY <2>2, <3>1 DEF ModelInv, ModelIsReadWhole
  <2>3. CASE UNCHANGED modelVars
    <3>1. source' = source /\ dir' = dir /\ loaded' = loaded
      BY <2>3 DEF modelVars, vars
    <3>. QED
      BY <3>1 DEF ModelInv, ModelIsReadWhole, IsWhole, Contents, SizeOf
  <2>. QED  BY <2>1, <2>2, <2>3 DEF ModelNext
<1>3. ModelInv => ModelIsReadWhole
  BY DEF ModelInv
<1>. QED  BY <1>1, <1>2, <1>3, PTL DEF ModelSpec

-----------------------------------------------------------------------------
(***************************************************************************)
(* A model has its files beside the requests of JsonBody: to a client it   *)
(* makes no difference that one has been loaded.                           *)
(***************************************************************************)
LEMMA ModelImplementsBody == ModelSpec => Spec
<1>1. ModelInit => Init
  BY DEF ModelInit
<1>2. [ModelNext]_modelVars => [Next]_vars
  BY DEF ModelNext, LoadConfig, modelVars, vars
<1>. QED  BY <1>1, <1>2, PTL DEF ModelSpec, Spec

(* What holds of a body therefore holds while models are loaded.           *)
THEOREM ModelBodySafety ==
  ModelSpec => /\ []TypeOK
               /\ []TakesExactlyTheBody
               /\ []DisturbancesNeverChangeTheValue
<1>. QED
  BY ModelImplementsBody, TypeCorrect, BodyTakenExactly, ValueUndisturbed, PTL
=============================================================================
