------------------------------- MODULE Words -------------------------------
(***************************************************************************)
(* Machine words at a reduced scale. A byte has ByteBits bits and the      *)
(* other sizes are the multiples RV64 gives them, so that a shift, a mask, *)
(* an extension or a carry meets the same borders as with eight.           *)
(* A word of a power of two bits has shift amounts that are bit fields.    *)
(***************************************************************************)
EXTENDS Integers

CONSTANT ByteBits   \* bits in a byte
ASSUME ByteBitsAssumption == ByteBits \in Nat \ {0} /\ \E k \in 0 .. ByteBits : ByteBits = 2^k

Byte  == ByteBits
Half  == 2 * ByteBits
Word  == 4 * ByteBits
Dword == 8 * ByteBits

(* The field of the low bits of x, and the signed number that field means. *)
U(x, bits) == x % 2^bits
SignExt(x, bits) == U(x + 2^(bits - 1), bits) - 2^(bits - 1)

(* term[1] + ... + term[n] *)
Total(n, term) ==
  LET sum[k \in 0 .. n] == IF k = 0 THEN 0 ELSE sum[k - 1] + term[k]
  IN sum[n]

(* The number in the n bytes from address a on, low byte first, and the   *)
(* memory after those bytes are replaced by the low ones of x.             *)
Gather(m, a, n) == Total(n, [k \in 1 .. n |-> 2^(Byte * (k - 1)) * m[a + k - 1]])

Scatter(m, a, n, x) ==
  [b \in DOMAIN m |-> IF b \in a .. a + n - 1 THEN U(x \div 2^(Byte * (b - a)), Byte) ELSE m[b]]

(* The operators of C on uint64_t that work bit by bit: the bit is set     *)
(* that has a pair in ones.                                                *)
Bit(x, k) == (x \div 2^k) % 2
BitByBit(x, y, ones) ==
  Total(Dword, [k \in 1 .. Dword |-> IF <<Bit(x, k - 1), Bit(y, k - 1)>> \in ones THEN 2^(k - 1) ELSE 0])
And(x, y) == BitByBit(x, y, {<<1, 1>>})
Or(x, y)  == BitByBit(x, y, {<<0, 1>>, <<1, 0>>, <<1, 1>>})
Xor(x, y) == BitByBit(x, y, {<<0, 1>>, <<1, 0>>})
=============================================================================
