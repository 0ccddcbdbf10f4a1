----------------------------- MODULE JsonTokens -----------------------------
(***************************************************************************)
(* The strings and the numerals of RFC 8259, sections 6 and 7, and the     *)
(* UTF-8 of RFC 3629, over the bytes of a text: which bytes are one, and   *)
(* what the content of a string is, and nothing of an automaton or a loop. *)
(***************************************************************************)
EXTENDS JsonText

(* RFC 3629, section 3: the bytes b are the UTF-8 of the code point c.     *)
Surrogates == HighSurrogates \cup LowSurrogates
IsUtf8(b, c) ==
  LET tail(k) == b[k] - 128
  IN /\ c \notin Surrogates /\ \A k \in 2 .. Len(b) : b[k] \in 128 .. 191
     /\ \/ Len(b) = 1 /\ c = b[1] /\ 0 <= c /\ c < 128
        \/ Len(b) = 2 /\ 128 <= c /\ c < 2048 /\ c = (b[1] - 192) * 64 + tail(2)
        \/ /\ Len(b) = 3 /\ 2048 <= c /\ c < 65536
           /\ c = ((b[1] - 224) * 64 + tail(2)) * 64 + tail(3)
        \/ /\ Len(b) = 4 /\ 65536 <= c /\ c < 1114112
           /\ c = (((b[1] - 240) * 64 + tail(2)) * 64 + tail(3)) * 64 + tail(4)

(* RFC 8259, section 7.  Four hexadecimal digits are a code unit.          *)
IsHex(b, n) == \/ n \in 0 .. 9 /\ b = 48 + n
               \/ n \in 10 .. 15 /\ (b = 55 + n \/ b = 87 + n)
IsUnit(s, i, n) ==
  /\ Byte(s, i) = 92 /\ Byte(s, i + 1) = 117
  /\ \E d \in [1 .. 4 -> 0 .. 15] :
       /\ \A k \in 1 .. 4 : IsHex(Byte(s, i + 1 + k), d[k])
       /\ n = ((d[1] * 16 + d[2]) * 16 + d[3]) * 16 + d[4]

ShortEscape(b, c) ==
  \/ b \in {34, 47, 92} /\ c = b
  \/ <<b, c>> \in {<<98, 8>>, <<102, 12>>, <<110, 10>>, <<114, 13>>, <<116, 9>>}

(* The bytes from i on, up to j, are one character of a string: itself,    *)
(* unless it is a quote, a backslash or a control character; or a short    *)
(* escape; or that of one code unit, or of two that are a surrogate pair.  *)
IsUnescaped(s, i, j, c) ==
  /\ i < j /\ j <= Len(s) + 1 /\ 32 <= c /\ c \notin {34, 92}
  /\ IsUtf8(SubSeq(s, i, j - 1), c)
IsShort(s, i, j, c) == Byte(s, i) = 92 /\ ShortEscape(Byte(s, i + 1), c) /\ j = i + 2
IsSingle(s, i, j, c) == IsUnit(s, i, c) /\ c \notin Surrogates /\ j = i + 6
IsPair(s, i, j, c) ==
  \E high \in HighSurrogates, low \in LowSurrogates :
    /\ IsUnit(s, i, high) /\ IsUnit(s, i + 6, low) /\ j = i + 12
    /\ c = 65536 + (high - 55296) * 1024 + (low - 56320)
IsCharacter(s, i, j, c) ==
  \/ IsUnescaped(s, i, j, c) \/ IsShort(s, i, j, c)
  \/ IsSingle(s, i, j, c) \/ IsPair(s, i, j, c)

(* From i on there are n characters: the first k of them are the bytes up  *)
(* to at[k], and held[k] is what they stand for, in UTF-8.                 *)
Characters(s, i, n, at, held) ==
  /\ at \in [0 .. n -> Nat] /\ held \in [0 .. n -> Seq(0 .. 255)]
  /\ at[0] = i /\ held[0] = <<>>
  /\ \A k \in 1 .. n : \E c \in Nat, b \in Seq(0 .. 255) :
       IsCharacter(s, at[k - 1], at[k], c) /\ IsUtf8(b, c) /\ held[k] = held[k - 1] \o b

Spelled(s, i, n, j, x) ==
  \E at, held : Characters(s, i, n, at, held) /\ at[n] = j /\ held[n] = x

(* A string whose first character is at i; its quote ends before j.        *)
IsString(s, i, j, x) ==
  \E n \in Nat, k \in Nat : Spelled(s, i, n, k, x) /\ Byte(s, k) = 34 /\ j = k + 1

-----------------------------------------------------------------------------
(* Section 6: [ minus ] int [ frac ] [ exp ].  Each part is the bytes from *)
(* a place on, up to another.                                              *)
AreDigits(s, i, j) == i < j /\ \A k \in i .. j - 1 : Byte(s, k) \in 48 .. 57
IsMinus(s, i, j) == i = j \/ (Byte(s, i) = 45 /\ j = i + 1)
IsInt(s, i, j) == AreDigits(s, i, j) /\ (Byte(s, i) = 48 => j = i + 1)
IsFrac(s, i, j) == i = j \/ (Byte(s, i) = 46 /\ AreDigits(s, i + 1, j))
IsSign(s, i, j) == i = j \/ (Byte(s, i) \in {43, 45} /\ j = i + 1)
IsExp(s, i, j) ==
  \/ i = j
  \/ /\ Byte(s, i) \in {69, 101}
     /\ \E e \in Nat : IsSign(s, i + 1, e) /\ AreDigits(s, e, j)
IsNumeral(s, i, j) ==
  \E a, p, q \in Nat :
    IsMinus(s, i, a) /\ IsInt(s, a, p) /\ IsFrac(s, p, q) /\ IsExp(s, q, j)
=============================================================================
