----------------------------- MODULE Multibase -----------------------------
(***************************************************************************)
(* How a signature is written into a document and read back: base58btc     *)
(* behind a 'z' in a Data Integrity proof, base64url behind a 'u' in one   *)
(* of an earlier version, bare base64url in a JWT.                         *)
(*                                                                         *)
(* base58btc takes the bytes for one number, which forgets the zeros it    *)
(* begins with, and counts them apart.  base64url regroups bits.           *)
(***************************************************************************)
EXTENDS Integers, Sequences

Byte == 0..255

\* The number whose digits in the given base are s: int.from_bytes, and the loop over
\* the characters.
Number(s, base) ==
  LET value[t \in Seq(Nat)] ==
        IF t = <<>> THEN 0
        ELSE value[SubSeq(t, 1, Len(t) - 1)] * base + t[Len(t)]
  IN  value[s]

\* Its digits, as divmod yields them from the last to the first: none for 0.
Numeral(n, base) ==
  LET digits[m \in Nat] ==
        IF m = 0 THEN <<>> ELSE Append(digits[m \div base], m % base)
  IN  digits[n]

LeadingZeros(s) ==
  CHOOSE n \in 0..Len(s) : /\ \A i \in 1..n : s[i] = 0
                           /\ n < Len(s) => s[n + 1] # 0

Zeros(n) == [i \in 1..n |-> 0]

\* Digits without the leading zeros, and as many zeros in front as s begins with: '1'
\* in base58btc, where a byte is 0.
Unpadded(s, from, to) == Numeral(Number(s, from), to)
Misbased(s, from, to) == Zeros(LeadingZeros(s)) \o Unpadded(s, to, from)
Rebased(s, from, to) == Zeros(LeadingZeros(s)) \o Unpadded(s, from, to)

B58Encode(bytes) == Rebased(bytes, 256, 58)
B58Decode(chars) == Rebased(chars, 58, 256)

\* The n-th unit of s, or zeros where s has ended.
Unit(s, n) == IF n <= Len(s) THEN s[n] ELSE 0

\* base64url without padding: four characters of six bits hold three bytes.  What the
\* last character has beyond the last byte is filled up with zeros, which the decoder drops.
B64Encode(bytes) ==
  [i \in 1..((4 * Len(bytes) + 2) \div 3) |->
     LET byte(n) == Unit(bytes, 3 * ((i - 1) \div 4) + n) IN
       CASE i % 4 = 1 -> byte(1) \div 4
         [] i % 4 = 2 -> (byte(1) % 4) * 16 + byte(2) \div 16
         [] i % 4 = 3 -> (byte(2) % 16) * 4 + byte(3) \div 64
         [] i % 4 = 0 -> byte(3) % 64]

\* A single character in the last group cannot hold a byte.
B64Decodes(chars) == Len(chars) % 4 # 1
B64Decode(chars) ==
  [i \in 1..((3 * Len(chars)) \div 4) |->
     LET char(n) == Unit(chars, 4 * ((i - 1) \div 3) + n) IN
       CASE i % 3 = 1 -> char(1) * 4 + char(2) \div 16
         [] i % 3 = 2 -> (char(2) % 16) * 16 + char(3) \div 4
         [] i % 3 = 0 -> (char(3) % 4) * 64 + char(4)]

\* What the signature turns into in each form of a document.
Forms == {"proof", "legacy", "jwt"}

Encode(form, bytes) ==
  CASE form = "proof"  -> [prefix |-> "z", chars |-> B58Encode(bytes)]
    [] form = "legacy" -> [prefix |-> "u", chars |-> B64Encode(bytes)]
    [] form = "jwt"    -> [prefix |-> "",  chars |-> B64Encode(bytes)]

\* What is written: the letter that names the encoding, and characters as digits.
Value == [prefix : {"z", "u", ""}, chars : Seq(0..63)]

\* decode_multibase, and the last segment of a JWT; <<>> for None and an exception.
Decode(value) ==
  IF value.prefix = "z" THEN B58Decode(value.chars)
  ELSE IF B64Decodes(value.chars) THEN B64Decode(value.chars) ELSE <<>>
=============================================================================
