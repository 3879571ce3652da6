---------------------------- MODULE Safetensors ----------------------------
(***************************************************************************)
(* Safetensors::LoadFile (src/inference/safetensors.cc): how the size of   *)
(* the header is put together from the first bytes of the file.            *)
(*                                                                         *)
(* A number is the set of the positions of its bits, so that `|` is union  *)
(* and the widths of the types are bounds on positions.                    *)
(***************************************************************************)
EXTENDS Integers

CONSTANTS
  ByteBits,    \* bits of a byte: 8
  IntBytes,    \* bytes of an int: 4
  SizeBytes    \* bytes of a uint64_t, and of the size in the file: 8

ASSUME SafetensorsAssumption ==
  /\ ByteBits \in Nat \ {0}
  /\ IntBytes \in Nat \ {0}
  /\ SizeBytes \in Nat /\ SizeBytes > IntBytes

Bytes == 0 .. SizeBytes - 1
IntBits == ByteBits * IntBytes
SizeBits == ByteBits * SizeBytes
SignBit == IntBits - 1

(* n >> b, for b from 0 to the width of a size. *)
Halves(n) ==
  LET half[b \in 0 .. SizeBits] == IF b = 0 THEN n ELSE half[b - 1] \div 2
  IN half
Fits(n, width) == Halves(n)[width] = 0

BitsOf(n) == {b \in 0 .. SizeBits - 1 : Halves(n)[b] % 2 = 1}
NumberOf(bits) ==
  LET value[b \in 0 .. SizeBits] ==
        IF b = SizeBits THEN 0
        ELSE 2 * value[b + 1] + (IF b \in bits THEN 1 ELSE 0)
  IN value[0]

(* A size becomes an int: it keeps the bits that fit, and the uppermost of *)
(* them is the sign.                                                       *)
Narrowed(n) ==
  NumberOf(BitsOf(n) \cap 0 .. SignBit - 1)
  - NumberOf(BitsOf(n) \cap {SignBit})

(* The bytes of a file that gives `size`: the format is little-endian.     *)
Stored(size) ==
  [i \in Bytes |-> {b \in 0 .. ByteBits - 1 : b + ByteBits * i \in size}]

SignedBytes(byte) ==                            \* Mutant of Promoted.
  byte \cup {b \in ByteBits .. SignBit : ByteBits - 1 \in byte}
(* data.get()[i] is a uint8_t and becomes an int. *)
Promoted(byte) == byte

Shifted(byte, i) == {b + ByteBits * i : b \in Promoted(byte)} \cap 0 .. SignBit

(* `|=` with a uint64_t: a negative int has all upper bits set.            *)
Widened(int) == int \cup {b \in IntBits .. SizeBits - 1 : SignBit \in int}

(* A shift past the width of int is undefined: the build may have it wrap  *)
(* around (S), as the instruction does, or leave nothing.                  *)
HeaderSizes(bytes) ==
  {UNION ({Widened(Shifted(bytes[i], i)) : i \in 0 .. IntBytes - 1}
          \cup {Widened(Shifted(bytes[i], i % IntBytes)) : i \in S}) :
     S \in SUBSET (IntBytes .. SizeBytes - 1)}
=============================================================================
