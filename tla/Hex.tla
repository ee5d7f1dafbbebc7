--------------------------------- MODULE Hex ---------------------------------
(***************************************************************************)
(* The hex conversions of include/evmc/hex.hpp, with the iterator of       *)
(* filter_iterator.hpp that skips white space.  One step of from_hex() is  *)
(* one round of its loop.  Its callers are the conversion to bytes, to     *)
(* bytes without the white space, and to a type with an array of bytes.    *)
(***************************************************************************)
EXTENDS Integers, Sequences

CONSTANTS
  HexText,         \* strings to decode, sequences of characters
  ArraySize        \* std::size(r.bytes)

ASSUME HexConstants ==
  /\ \A s \in HexText : s \in Seq(STRING)
  /\ ArraySize \in Nat

VARIABLES
  target,          \* what the text is decoded to
  hex_text, s,     \* the text, and the characters that are left of it to decode
  it,              \* the position of the iterator in s, Len(s) + 1 at its end
  i, hi_nibble, bytes,
  outcome

hexVars == <<target, hex_text, s, it, i, hi_nibble, bytes, outcome>>

Space == " "

\* The digits that the rules tell apart: the least one, and the greatest one in both cases.
DigitValue == [c \in {"0", "f", "F"} |-> IF c = "0" THEN 0 ELSE 15]
HexDigits == [v \in {0, 15} |-> IF v = 0 THEN "0" ELSE "f"]
IsHexDigit(c) == c \in DOMAIN DigitValue

\* hex(bs).
HexOf(bs) ==
  [n \in 1..(2 * Len(bs)) |-> HexDigits[IF n % 2 = 1 THEN bs[(n + 1) \div 2] \div 16
                                       ELSE bs[n \div 2] % 16]]
-----------------------------------------------------------------------------
Is0x(str) == Len(str) >= 2 /\ str[1] = "0" /\ str[2] = "x"

\* The position of an iterator that comes to p, where white space is skipped or not.
Forward(p, str, skips) ==
  CHOOSE q \in p..(Len(str) + 1) :
    /\ (q <= Len(str) /\ skips) => str[q] # Space
    /\ \A r \in p..(q - 1) : skips /\ str[r] = Space

HexInit ==
  /\ target \in {"bytes", "spaced", "array"} /\ hex_text \in HexText
  /\ s = hex_text
  /\ it = 1 /\ i = 0 /\ hi_nibble = -1 /\ bytes = <<>>
  /\ outcome = "called"

\* from_hex(std::string_view), validate_hex, from_spaced_hex.
DecodeToBytes ==
  /\ outcome = "called" /\ target # "array"
  /\ it' = Forward(1, s, target = "spaced")
  /\ outcome' = "decoding"
  /\ UNCHANGED <<target, hex_text, s, i, hi_nibble, bytes>>

\* from_hex<T>.
DecodeToArray ==
  /\ outcome = "called" /\ target = "array"
  /\ s' = IF Is0x(s) THEN SubSeq(s, 3, Len(s)) ELSE s
  /\ outcome' = IF Len(s') \div 2 > ArraySize THEN "invalid" ELSE "decoding"
  /\ UNCHANGED <<target, hex_text, it, i, hi_nibble, bytes>>

\* The loop body is left with a character of the given kind.
Round(isDigit) ==
  /\ outcome = "decoding"
  /\ it <= Len(s) /\ IsHexDigit(s[it]) = isDigit

Advance ==
  /\ it' = Forward(it + 1, s, target = "spaced")
  /\ i' = i + 1
  /\ UNCHANGED <<target, hex_text, s, outcome>>

\* Faulty variant: a prefix wherever a byte begins with 0.
IsPrefixAnywhere == i % 2 = 1 /\ hi_nibble = 0 /\ s[it] = "x"

IsPrefixHere == i = 1 /\ hi_nibble = 0 /\ s[it] = "x"

SkipPrefix ==
  /\ Round(FALSE) /\ IsPrefixHere
  /\ Advance
  /\ UNCHANGED <<hi_nibble, bytes>>

NotADigit ==
  /\ Round(FALSE) /\ ~IsPrefixHere
  /\ outcome' = "invalid"
  /\ UNCHANGED <<target, hex_text, s, it, i, hi_nibble, bytes>>

\* Faulty variant: a digit without a second one is written too.
HighNibbleWritten ==
  /\ Round(TRUE) /\ i % 2 = 0
  /\ hi_nibble' = 16 * DigitValue[s[it]]
  /\ bytes' = IF it = Len(s) THEN Append(bytes, hi_nibble') ELSE bytes
  /\ Advance

HighNibble ==
  /\ Round(TRUE) /\ i % 2 = 0
  /\ hi_nibble' = 16 * DigitValue[s[it]]
  /\ Advance
  /\ UNCHANGED bytes

LowNibble ==
  /\ Round(TRUE) /\ i % 2 = 1
  /\ bytes' = Append(bytes, hi_nibble + DigitValue[s[it]])
  /\ Advance
  /\ UNCHANGED hi_nibble

EndOfText ==
  /\ outcome = "decoding" /\ it > Len(s)
  /\ outcome' = IF i % 2 = 0 THEN "decoded" ELSE "invalid"
  /\ UNCHANGED <<target, hex_text, s, it, i, hi_nibble, bytes>>

HexStep ==
  \/ DecodeToBytes \/ DecodeToArray
  \/ SkipPrefix \/ NotADigit \/ HighNibble \/ LowNibble \/ EndOfText

HexSpec == HexInit /\ [][HexStep]_hexVars

\* The bytes of the array: what was written, from the place that from_hex<T> gave out.
Array ==
  LET first == ArraySize - Len(s) \div 2
  IN  [n \in 1..ArraySize |-> IF n - first \in DOMAIN bytes THEN bytes[n - first] ELSE 0]
-----------------------------------------------------------------------------
(* The rules of hex.hpp: an optional prefix 0x and an even number of       *)
(* digits, between which white space may be ignored.                       *)
WithoutSpace(str) ==
  LET kept[n \in 0..Len(str)] ==
        IF n = 0 THEN <<>>
        ELSE IF str[n] = Space THEN kept[n - 1] ELSE Append(kept[n - 1], str[n])
  IN  kept[Len(str)]

Characters == IF target = "spaced" THEN WithoutSpace(hex_text) ELSE hex_text
Digits == IF Is0x(Characters) THEN SubSeq(Characters, 3, Len(Characters)) ELSE Characters
IsHex == Len(Digits) % 2 = 0 /\ \A n \in DOMAIN Digits : IsHexDigit(Digits[n])
LowerCase(str) == [n \in DOMAIN str |-> HexDigits[DigitValue[str[n]]]]
Zeros(n) == [k \in 1..n |-> "0"]

(* Decoding is the inverse of encoding: a text is valid only by the rules, *)
(* and the bytes it is decoded to are encoded as its digits, on the left   *)
(* of an array as zeros.  An array from a text with two prefixes is left   *)
(* out: from_hex<T> takes the second one for a byte, and omits it.         *)
DecodesAsDocumented ==
  (target = "array" => ~Is0x(Digits)) =>
    /\ outcome = "decoded" =>
         /\ IsHex
         /\ HexOf(bytes) = LowerCase(Digits)
         /\ target = "array" =>
              HexOf(Array) = Zeros(2 * ArraySize - Len(Digits)) \o LowerCase(Digits)
    /\ outcome = "invalid" => ~IsHex \/ (target = "array" /\ Len(Digits) > 2 * ArraySize)

(* "It is guaranteed that the output will not be longer than half of the   *)
(* input length", and so it does not leave the array, even of a text that  *)
(* turns out to be invalid.                                                *)
OutputFits ==
  /\ 2 * Len(bytes) <= Len(s)
  /\ outcome = "decoding" /\ target = "array" => Len(s) \div 2 <= ArraySize
=============================================================================
