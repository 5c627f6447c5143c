---------------------------- MODULE ChainStoreBlock ----------------------------
(***************************************************************************)
(* ChainStoreBlock (graph/src/blockchain/mod.rs): the standard data of a   *)
(* block in the chain store.  Its timestamp is kept as a string: new()     *)
(* writes the decimal of an i64, rows written from a chain's JSON keep the *)
(* hexadecimal quantity ("0x..."), and timestamp() reads either back,     *)
(* picking the radix from the "0x" prefix and turning every parse error   *)
(* into 0.                                                                 *)
(*                                                                         *)
(* A string is a sequence of one-character strings.  i64 keeps its        *)
(* two's-complement range at the width I64Bits (64 in the code).          *)
(***************************************************************************)
EXTENDS Integers, Sequences, SequencesExt

CONSTANT I64Bits  \* the width of i64

ASSUME WidthAssumption == I64Bits \in Nat \ {0}

I64Min == -(2^(I64Bits - 1))
I64Max == 2^(I64Bits - 1) - 1
I64 == I64Min .. I64Max

(* The ASCII digits of radix 16, lower case, by value.                     *)
DigitChar == <<"0", "1", "2", "3", "4", "5", "6", "7", "8", "9", "a", "b", "c", "d", "e", "f">>

(* char::to_digit(radix): the value of a digit character, or -1.          *)
ToDigit(c, radix) ==
  IF \E d \in 0 .. radix - 1 : DigitChar[d + 1] = c
  THEN CHOOSE d \in 0 .. radix - 1 : DigitChar[d + 1] = c
  ELSE -1

(* The digits of n in the radix, most significant first, without leading  *)
(* zeros: what to_string writes, and the hexadecimal quantity of JSON-RPC. *)
Numeral[r \in {10, 16}, n \in 0 .. 2^I64Bits] ==
  IF n < r THEN <<DigitChar[n + 1]>> ELSE Numeral[r, n \div r] \o <<DigitChar[(n % r) + 1]>>

(* i64::to_string *)
I64ToString(t) == IF t < 0 THEN <<"-">> \o Numeral[10, -t] ELSE Numeral[10, t]

(* i64::from_str_radix: an optional sign ('+' or '-', not alone), then at *)
(* least one digit of the radix; the checked arithmetic fails exactly when *)
(* the value leaves the i64 range.  Ok(v) is <<v>>, Err is <<>>.            *)
FromStrRadix(s, radix) ==
  LET signed == Len(s) > 0 /\ s[1] \in {"+", "-"}
      digits == IF signed THEN Tail(s) ELSE s
      value  == FoldLeft(LAMBDA acc, c : acc * radix + ToDigit(c, radix), 0, digits)
      v      == IF signed /\ s[1] = "-" THEN -value ELSE value
  IN  IF \/ digits = <<>>
         \/ \E i \in DOMAIN digits : ToDigit(digits[i], radix) < 0
         \/ v \notin I64
      THEN <<>>
      ELSE <<v>>

(* A fault the properties must catch: the "0x" prefix is not skipped.     *)
TimestampNoPrefixSkip(s) ==
  LET hex == Len(s) >= 2 /\ s[1] = "0" /\ s[2] = "x"
      r   == FromStrRadix(s, IF hex THEN 16 ELSE 10)
  IN  IF r = <<>> THEN 0 ELSE r[1]

(* ChainStoreBlock::timestamp: radix 16 after a "0x" prefix, else radix   *)
(* 10 from the start; unwrap_or(0).                                         *)
Timestamp(s) ==
  LET hex == Len(s) >= 2 /\ s[1] = "0" /\ s[2] = "x"
      r   == FromStrRadix(IF hex THEN SubSeq(s, 3, Len(s)) ELSE s, IF hex THEN 16 ELSE 10)
  IN  IF r = <<>> THEN 0 ELSE r[1]

VARIABLES
  stored,  \* the timestamp string of the block's data
  origin,  \* who wrote it: "Default", "New" or "Hex"
  value    \* the i64 the writer meant (New and Hex)

vars == <<stored, origin, value>>

(* #[derive(Default)]: the empty string.                                   *)
Init == stored = <<>> /\ origin = "Default" /\ value = 0

(* ChainStoreBlock::new(unix_timestamp, data)                              *)
New(t) == stored' = I64ToString(t) /\ origin' = "New" /\ value' = t

(* A row deserialized from a chain's JSON, with a hexadecimal quantity.     *)
StoreHex(t) == stored' = <<"0", "x">> \o Numeral[16, t] /\ origin' = "Hex" /\ value' = t

Next ==
  \/ \E t \in I64 : New(t)
  \/ \E t \in 0 .. I64Max : StoreHex(t)

Spec == Init /\ [][Next]_vars

-----------------------------------------------------------------------------
(***************************************************************************)
(* timestamp() reads back every i64 that new() wrote, i64::MIN and         *)
(* negative values included, and every hexadecimal quantity of the i64     *)
(* range: the two formats the field documents.                              *)
(***************************************************************************)
TimestampRoundTrip == origin \in {"New", "Hex"} => Timestamp(stored) = value
=============================================================================
