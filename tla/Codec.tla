------------------------------- MODULE Codec -------------------------------
(***************************************************************************)
(* The positional string codec of src/application-lib/src/serializer.ts   *)
(* (encode, decode) and the conversions the query builder applies to its  *)
(* arguments (toString).                                                   *)
(*                                                                         *)
(* A wire string is a sequence of one-character strings.  The model's     *)
(* values: Bool columns hold BOOLEAN, Uint64 columns natural numbers,      *)
(* String columns wire strings themselves (encode returns them as they    *)
(* are).  Number() of a string that is not a decimal numeral is NaN.       *)
(***************************************************************************)
EXTENDS Naturals, Sequences

CONSTANT NaN   \* the JavaScript number NaN

DigitChars == << "0", "1", "2", "3", "4", "5", "6", "7", "8", "9" >>

(* The characters the model's strings are made of, in code-unit order:    *)
(* the digits, then the letters of "true", "false" and of the text values. *)
Alphabet == DigitChars \o << "a", "b", "e", "f", "l", "r", "s", "t", "u" >>

Chars == {Alphabet[i] : i \in DOMAIN Alphabet}

DigitSet == {DigitChars[i] : i \in DOMAIN DigitChars}

ASSUME NaNAssumption == NaN \notin Nat \cup BOOLEAN \cup Seq(Chars)

TrueStr  == << "t", "r", "u", "e" >>
FalseStr == << "f", "a", "l", "s", "e" >>

(* Number.prototype.toString(): the decimal numeral of n.                  *)
ToDecimal[n \in Nat] ==
  IF n < 10 THEN << DigitChars[n + 1] >>
  ELSE ToDecimal[n \div 10] \o << DigitChars[(n % 10) + 1] >>

(* The value of a digit character.                                         *)
DigitValue(ch) == CHOOSE d \in 0..9 : DigitChars[d + 1] = ch

(* Number(s): the empty string is 0, a decimal numeral its value           *)
(* (leading zeros allowed), anything else NaN.                             *)
Number(s) ==
  IF \A i \in DOMAIN s : s[i] \in DigitSet
  THEN LET v[i \in 0..Len(s)] ==
             IF i = 0 THEN 0 ELSE 10 * v[i - 1] + DigitValue(s[i])
       IN  v[Len(s)]
  ELSE NaN

(* encode(val, datatype) (serializer.ts:62-71).                            *)
Encode(val, datatype) ==
  CASE datatype = "Bool"   -> IF val = TRUE THEN TrueStr ELSE FalseStr
    [] datatype = "String" -> val
    [] datatype = "Uint64" -> ToDecimal[val]

(* decode(val, datatype) (serializer.ts:73-81).                            *)
Decode(s, datatype) ==
  CASE datatype = "Bool"   -> s = TrueStr
    [] datatype = "String" -> s
    [] datatype = "Uint64" -> Number(s)

(* The values of each column type the model's entities take.               *)
ValuesOf(datatype, nats, texts) ==
  CASE datatype = "Bool"   -> BOOLEAN
    [] datatype = "String" -> texts
    [] datatype = "Uint64" -> nats

(* The order of strings the storage host sorts TEXT columns by: code-unit  *)
(* by code-unit, a proper prefix first.                                    *)
Rank(ch) == CHOOSE i \in DOMAIN Alphabet : Alphabet[i] = ch

TextLess(s, t) ==
  \/ /\ Len(s) < Len(t)
     /\ SubSeq(t, 1, Len(s)) = s
  \/ \E i \in 1..Len(s) :
       /\ i <= Len(t)
       /\ SubSeq(s, 1, i - 1) = SubSeq(t, 1, i - 1)
       /\ Rank(s[i]) < Rank(t[i])

=============================================================================
