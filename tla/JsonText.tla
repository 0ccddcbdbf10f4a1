------------------------------ MODULE JsonText ------------------------------
(***************************************************************************)
(* The text side of DataLayer/json.hpp: its lexer, which turns bytes into  *)
(* tokens, and its serializer, which turns values into bytes.  A text is a *)
(* sequence of bytes.  A token is <<type, value, next>>, with the position *)
(* at which the scan of the next one starts.                               *)
(*                                                                         *)
(* What is left out: error messages, line counts, comments (which parse is *)
(* not asked to skip), and the buffers that the serializer writes through. *)
(***************************************************************************)
EXTENDS Integers, Sequences, SequencesExt, TLC

CONSTANTS
  Modulus,  \* 2^64 in the build: what number_unsigned_t counts modulo
  Magnitude \* 308 in the build: a double stays below ten to this power

ASSUME JsonTextAssumption ==
  /\ Modulus \in Nat \ {0} /\ (Modulus % 2) = 0
  /\ Magnitude \in Nat \ {0}

Eof == -1
Quote == 34
Backslash == 92
Minus == 45
Dot == 46
Exponents == {69, 101}
Digits == 48 .. 57
Blanks == {9, 10, 13, 32}
Punctuation ==
  [c \in {91, 93, 123, 125, 58, 44, 0, Eof} |->
     CASE c = 91 -> "begin_array"    [] c = 93 -> "end_array"
       [] c = 123 -> "begin_object"  [] c = 125 -> "end_object"
       [] c = 58 -> "name_separator" [] c = 44 -> "value_separator"
       [] OTHER -> "end_of_input"]
Literals ==
  [literal_true |-> <<116, 114, 117, 101>>, literal_null |-> <<110, 117, 108, 108>>,
   literal_false |-> <<102, 97, 108, 115, 101>>]

(* The byte at a position.                                                 *)
Byte(s, i) == IF i <= Len(s) THEN s[i] ELSE Eof

(* The bytes from i to j, as far as there are some.                        *)
Slice(s, i, j) == SubSeq(s, i, Min({j, Len(s)}))

ParseError == <<"parse_error", <<>>, 0>>

-----------------------------------------------------------------------------
(* String literals.  A piece is <<bytes it stands for, next position>>.    *)
IllFormed == <<<<>>, 0>>

Hex(c) ==
  CASE c \in Digits -> c - 48
    [] c \in 65 .. 70 -> c - 55
    [] c \in 97 .. 102 -> c - 87
    [] OTHER -> -1

(* The code unit of four hexadecimal digits.                               *)
Codepoint(s, i) ==
  LET hex == [k \in 0 .. 3 |-> Hex(Byte(s, i + k))]
  IN IF \E k \in 0 .. 3 : hex[k] = -1
       THEN -1
       ELSE ((hex[0] * 16 + hex[1]) * 16 + hex[2]) * 16 + hex[3]

Utf8(c) ==
  LET low(shift) == 128 + ((c \div shift) % 64)
  IN IF c < 128 THEN <<c>>
     ELSE IF c <= 2047 THEN <<192 + c \div 64, low(1)>>
     ELSE IF c <= 65535 THEN <<224 + c \div 4096, low(64), low(1)>>
     ELSE <<240 + c \div 262144, low(4096), low(64), low(1)>>

HighSurrogates == 55296 .. 56319
LowSurrogates == 56320 .. 57343

(* Slip: a surrogate may stand alone.                                      *)
UnicodeEscape_LoneSurrogate(s, i) ==
  LET one == Codepoint(s, i)
  IN IF one = -1 THEN IllFormed ELSE <<Utf8(one), i + 4>>

(* What follows \u: one code unit, or two that are a surrogate pair.       *)
UnicodeEscape(s, i) ==
  LET one == Codepoint(s, i)
      two == Codepoint(s, i + 6)
      paired == Byte(s, i + 4) = Backslash /\ Byte(s, i + 5) = 117
  IN IF one \in HighSurrogates /\ paired /\ two \in LowSurrogates
       THEN <<Utf8(one * 1024 + two - 56613888), i + 10>>
     ELSE IF one = -1 \/ one \in HighSurrogates \cup LowSurrogates
       THEN IllFormed
     ELSE <<Utf8(one), i + 4>>

Escapes ==
  [c \in {Quote, Backslash, 47, 98, 102, 110, 114, 116} |->
     CASE c = 98 -> 8 [] c = 102 -> 12 [] c = 110 -> 10 [] c = 114 -> 13 [] c = 116 -> 9
       [] OTHER -> c]

(* How many bytes follow a leading byte; -1 for a byte that cannot lead.   *)
Following(c) ==
  CASE c \in 32 .. 127 -> 0
    [] c \in 194 .. 223 -> 1
    [] c \in 224 .. 239 -> 2
    [] c \in 240 .. 244 -> 3
    [] OTHER -> -1

(* What next_byte_in_range asks of the bytes that follow: the first is in  *)
(* a range that depends on c.                                              *)
Tails == 128 .. 191
Second(c) ==
  CASE c = 224 -> 160 .. 191
    [] c = 237 -> 128 .. 159
    [] c = 240 -> 144 .. 191
    [] c = 244 -> 128 .. 143
    [] OTHER -> Tails

Character(s, i) ==
  LET n == Following(s[i])
  IN IF /\ n # -1
        /\ n > 0 => Byte(s, i + 1) \in Second(s[i])
        /\ \A k \in 2 .. n : Byte(s, i + k) \in Tails
       THEN <<SubSeq(s, i, i + n), i + n + 1>>
       ELSE IllFormed

Piece(s, i) ==
  IF s[i] # Backslash THEN Character(s, i)
  ELSE IF Byte(s, i + 1) = 117 THEN UnicodeEscape(s, i + 2)
  ELSE IF Byte(s, i + 1) \in DOMAIN Escapes
    THEN <<<<Escapes[Byte(s, i + 1)]>>, i + 2>>
  ELSE IllFormed

(* i is the position after the opening quote.  A scan is at a position,    *)
(* with what its buffer holds.                                             *)
ScanString(s, i) ==
  LET scan[at \in (1 .. Len(s) + 1) \X Seq(0 .. 255)] ==
        IF Byte(s, at[1]) = Eof THEN ParseError
        ELSE IF s[at[1]] = Quote THEN <<"value_string", at[2], at[1] + 1>>
        ELSE LET piece == Piece(s, at[1])
             IN IF piece = IllFormed THEN ParseError
                ELSE scan[<<piece[2], at[2] \o piece[1]>>]
  IN scan[<<i, <<>>>>]

-----------------------------------------------------------------------------
(* Numbers: the automaton of scan_number, and what becomes of a numeral.   *)
Automaton(state, c) ==
  IF state = "init" /\ c = Minus THEN "minus"
  ELSE IF state \in {"init", "minus"} /\ c = 48 THEN "zero"
  ELSE IF state \in {"init", "minus", "any1"} /\ c \in Digits THEN "any1"
  ELSE IF state \in {"zero", "any1"} /\ c = Dot THEN "decimal1"
  ELSE IF state \in {"decimal1", "decimal2"} /\ c \in Digits THEN "decimal2"
  ELSE IF state \in {"zero", "any1", "decimal2"} /\ c \in Exponents THEN "exponent"
  ELSE IF state = "exponent" /\ c \in {43, Minus} THEN "sign"
  ELSE IF state \in {"exponent", "sign", "any2"} /\ c \in Digits THEN "any2"
  ELSE IF state \in {"zero", "any1", "decimal2", "any2"} THEN "done"
  ELSE "error"

NumberStates ==
  {"init", "minus", "zero", "any1", "decimal1", "decimal2", "exponent", "sign", "any2"}

Decimal(digits) ==
  LET value[k \in 0 .. Len(digits)] ==
        IF k = 0 THEN 0 ELSE value[k - 1] * 10 + digits[k] - 48
  IN value[Len(digits)]

(* A double is the numeral it was read from.  A whole number is one too    *)
(* when strtoull or strtoll finds it out of range.                         *)
Numeral(t) ==
  LET float == \E k \in DOMAIN t : t[k] \in Exponents \cup {Dot}
  IN IF ~float /\ t[1] # Minus /\ Decimal(t) < Modulus
       THEN <<"value_unsigned", Decimal(t)>>
     ELSE IF ~float /\ t[1] = Minus /\ Decimal(Tail(t)) <= Modulus \div 2
       THEN <<"value_integer", - Decimal(Tail(t))>>
     ELSE <<"value_float", t>>

(* unget: the byte that ends a numeral is the first of the next token.  A  *)
(* scan is at a position, in a state.                                      *)
ScanNumber(s, i) ==
  LET scan[at \in Nat \X NumberStates] ==
        LET next == Automaton(at[2], Byte(s, at[1]))
        IN CASE next = "error" -> ParseError
             [] next = "done" -> Append(Numeral(SubSeq(s, i, at[1] - 1)), at[1])
             [] OTHER -> scan[<<at[1] + 1, next>>]
  IN scan[<<i, "init">>]

(* strtod: <<digits, exponent>>, such that digits times ten to exponent is *)
(* what a numeral stands for, its sign aside.                              *)
Scientific(t) ==
  LET from(C) == {k \in DOMAIN t : t[k] \in C}
      e == IF from(Exponents) = {} THEN Len(t) + 1 ELSE Min(from(Exponents))
      point == IF from({Dot}) = {} THEN e - 1 ELSE Min(from({Dot}))
      power == SelectSeq(SubSeq(t, e + 1, Len(t)), LAMBDA c : c \in Digits)
      shift == IF Byte(t, e + 1) = Minus THEN - Decimal(power) ELSE Decimal(power)
  IN <<SelectSeq(SubSeq(t, 1, e - 1), LAMBDA c : c \in Digits), shift - (e - 1 - point)>>

(* isfinite, of what strtod makes of a numeral.                            *)
IsFinite(t) ==
  LET digits == Scientific(t)[1]
      leading == {k \in DOMAIN digits : digits[k] # 48}
  IN leading = {} \/ Len(digits) - Min(leading) + 1 + Scientific(t)[2] <= Magnitude

(* A finite double without its fraction and its sign.                      *)
Truncated(t) ==
  LET n == Decimal(Scientific(t)[1])
      e == Scientific(t)[2]
  IN IF n = 0 THEN 0 ELSE IF e >= 0 THEN n * 10 ^ e ELSE n \div 10 ^ (- e)

-----------------------------------------------------------------------------
SkipBlanks(s, i) == Min({j \in i .. Len(s) + 1 : Byte(s, j) \notin Blanks} \cup {Len(s) + 1})

(* The token that starts at or after position i.                           *)
Scan(s, i) ==
  LET j == SkipBlanks(s, i)
      c == Byte(s, j)
      words == {w \in DOMAIN Literals : Slice(s, j, j + Len(Literals[w]) - 1) = Literals[w]}
  IN IF c \in DOMAIN Punctuation THEN <<Punctuation[c], <<>>, j + 1>>
     ELSE IF c = Quote THEN ScanString(s, j + 1)
     ELSE IF c \in Digits \cup {Minus} THEN ScanNumber(s, j)
     ELSE IF words # {} THEN LET w == CHOOSE w \in words : TRUE
                             IN <<w, <<>>, j + Len(Literals[w])>>
     ELSE ParseError

ByteOrderMark == <<239, 187, 191>>

(* The first scan skips a byte order mark.                                 *)
FirstToken(s) ==
  IF Byte(s, 1) # 239 THEN Scan(s, 1)
  ELSE IF Slice(s, 1, 3) = ByteOrderMark THEN Scan(s, 4)
  ELSE ParseError

-----------------------------------------------------------------------------
(* The serializer.  decode is an automaton of its own over UTF-8: classes  *)
(* of bytes, and nine states of which 0 accepts and 1 rejects.             *)
ByteClass(b) ==
  CASE b \in 0 .. 127 -> 0     [] b \in 128 .. 143 -> 1
    [] b \in 144 .. 159 -> 9   [] b \in 160 .. 191 -> 7
    [] b \in 194 .. 223 -> 2   [] b = 224 -> 10
    [] b = 237 -> 4            [] b \in 225 .. 239 \ {237} -> 3
    [] b = 240 -> 11           [] b \in 241 .. 243 -> 6
    [] b = 244 -> 5            [] OTHER -> 8

Decode(state, b) ==
  LET class == ByteClass(b)
  IN CASE state = 0 -> <<0, 1, 2, 3, 5, 8, 7, 1, 1, 1, 4, 6>>[class + 1]
       [] state = 2 /\ class \in {1, 7, 9} -> 0
       [] state = 3 /\ class \in {1, 7, 9} -> 2
       [] state = 4 /\ class = 7 -> 2
       [] state = 5 /\ class \in {1, 9} -> 2
       [] state = 6 /\ class \in {7, 9} -> 3
       [] state = 7 /\ class \in {1, 7, 9} -> 3
       [] state = 8 /\ class = 1 -> 3
       [] OTHER -> 1

HexDigit(n) == IF n < 10 THEN 48 + n ELSE 87 + n

(* What dump_escaped writes for a byte, after which decode accepts.        *)
Escaped(b) ==
  LET short == {c \in DOMAIN Escapes \ {47} : Escapes[c] = b}
  IN IF short # {} THEN <<Backslash>> \o SetToSeq(short)
     ELSE IF b <= 31 THEN <<Backslash, 117, 48, 48, HexDigit(b \div 16), HexDigit(b % 16)>>
     ELSE <<b>>

(* decode's state after each prefix of a string.                           *)
DecodeStates(s) ==
  LET state[k \in 0 .. Len(s)] == IF k = 0 THEN 0 ELSE Decode(state[k - 1], s[k])
  IN state

(* type_error 316 is not thrown: no byte is refused, and the last accepts. *)
Dumpable(s) ==
  LET state == DecodeStates(s)
  IN state[Len(s)] = 0 /\ \A k \in 0 .. Len(s) : state[k] # 1

DumpString(s) ==
  <<Quote>> \o FlattenSeq([k \in DOMAIN s |-> Escaped(s[k])]) \o <<Quote>>

DumpInteger(n) ==
  LET digits[m \in Nat] ==
        IF m < 10 THEN <<48 + m>> ELSE Append(digits[m \div 10], 48 + (m % 10))
  IN IF n < 0 THEN <<Minus>> \o digits[- n] ELSE digits[n]
=============================================================================
