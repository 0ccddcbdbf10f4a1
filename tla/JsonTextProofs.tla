--------------------------- MODULE JsonTextProofs ---------------------------
(***************************************************************************)
(* What every token is that the lexer makes of a text, for every text.     *)
(* First, that the UTF-8 which the lexer lets through, or writes itself    *)
(* for an escape, is the UTF-8 that the serializer accepts: these are two  *)
(* automata, written apart and in different ways.  Then, that strings and  *)
(* numerals are what RFC 8259 calls so (JsonTokens), and mean the same.    *)
(* Last, that the lexer reads back every string and every integer that the *)
(* serializer writes.                                                      *)
(***************************************************************************)
EXTENDS JsonTokens, FiniteSetTheorems, SequenceTheorems, TLAPS

Bytes == Seq(0 .. 255)

(* The induction theorems of the library take a predicate as a parameter,  *)
(* and no prover can use them.  This is the principle without one.         *)
LEMMA Least ==
  ASSUME NEW T, T \subseteq Nat, T # {}
  PROVE  \E n \in T : \A m \in T : n <= m
<1> DEFINE Below(n) == 1 .. n
           Starts == {Below(n) : n \in T}
<1>1. IsWellFoundedOn(StrictSubsetOrdering(Nat), FiniteSubsetsOf(Nat))
  BY FS_StrictSubsetOrderingWellFounded
<1>2. Starts \subseteq FiniteSubsetsOf(Nat) /\ Starts # {}
  <2>1. \A n \in T : 1 \in Int /\ n \in Int
    OBVIOUS
  <2>2. \A n \in T : IsFiniteSet(Below(n))
    BY <2>1, FS_Interval
  <2>3. \A n \in T : Below(n) \in SUBSET Nat
    OBVIOUS
  <2> HIDE DEF Below
  <2> QED BY <2>2, <2>3 DEF FiniteSubsetsOf
<1>3. PICK U \in Starts : \A V \in Starts : <<V, U>> \notin StrictSubsetOrdering(Nat)
  <2> HIDE DEF Starts
  <2> QED BY <1>1, <1>2, WFMin
<1>4. PICK n \in T : U = Below(n)
  OBVIOUS
<1>5. ASSUME NEW m \in T, m < n PROVE FALSE
  <2>1. Below(m) \in Starts
    OBVIOUS
  <2>2. <<Below(m), U>> \in StrictSubsetOrdering(Nat)
    <3>1. Below(m) \subseteq Below(n) /\ n \in Below(n) /\ n \notin Below(m)
      BY <1>5
    <3>2. Below(m) \subseteq Nat /\ Below(n) \subseteq Nat
      OBVIOUS
    <3> HIDE DEF Below
    <3> QED BY <1>4, <3>1, <3>2 DEF StrictSubsetOrdering
  <2> QED BY <1>3, <2>1, <2>2
<1> QED BY <1>5

-----------------------------------------------------------------------------
(* Loops, as data: D are the states of a loop, in those of halts it ends   *)
(* with a result, from the others it goes on, and left says how often at   *)
(* most.  The value of g at a state is what the loop ends with from there. *)
Loops(g, D, halts, result, step) ==
  g = [p \in D |-> IF p \in halts THEN result[p] ELSE g[step[p]]]

LEMMA LoopEnds ==
  ASSUME NEW D, NEW halts, NEW result, NEW step, NEW N \in Nat, NEW left \in [D -> 0 .. N],
         \A p \in D \ halts : step[p] \in D /\ left[step[p]] < left[p]
  PROVE  \E g : Loops(g, D, halts, result, step)
<1> DEFINE Near(n) == {p \in D : left[p] < n}
           Partly(g, n) == Loops(g, Near(n), halts, result, step)
           Short == {n \in Nat : ~\E g : Partly(g, n)}
<1>1. \E g : Partly(g, 0)
  <2>1. Near(0) = {}
    OBVIOUS
  <2>2. Partly([p \in {} |-> 0], 0)
    BY <2>1 DEF Loops
  <2> QED BY <2>2
<1>2. ASSUME NEW n \in Nat, NEW g, Partly(g, n)
      PROVE  \E h : Partly(h, n + 1)
  <2> DEFINE h == [p \in Near(n + 1) |-> IF p \in halts THEN result[p] ELSE g[step[p]]]
  <2>1. ASSUME NEW p \in Near(n + 1), p \notin halts
        PROVE  step[p] \in Near(n) /\ step[p] \in Near(n + 1)
    BY <2>1
  <2>2. \A p \in Near(n) : p \in Near(n + 1)
    OBVIOUS
  <2> HIDE DEF Near
  <2>3. \A p \in Near(n) : g[p] = IF p \in halts THEN result[p] ELSE g[step[p]]
    BY <1>2 DEF Loops
  <2>4. \A p \in Near(n) : h[p] = g[p]
    BY <2>2, <2>3
  <2>5. \A p \in Near(n + 1) : h[p] = IF p \in halts THEN result[p] ELSE h[step[p]]
    BY <2>1, <2>4
  <2>6. h = [p \in Near(n + 1) |-> h[p]]
    OBVIOUS
  <2> HIDE DEF h
  <2>7. Partly(h, n + 1)
    BY <2>5, <2>6 DEF Loops
  <2> QED BY <2>7
<1>3. Short = {}
  <2>1. SUFFICES ASSUME Short # {} PROVE FALSE
    OBVIOUS
  <2>2. PICK n \in Short : \A m \in Short : n <= m
    <3>1. Short \subseteq Nat
      OBVIOUS
    <3> HIDE DEF Short
    <3> QED BY <2>1, <3>1, Least
  <2> HIDE DEF Partly
  <2>3. n \in Nat \ {0} /\ n - 1 \in Nat /\ (n - 1) + 1 = n
    BY <1>1, <2>2
  <2>4. \E g : Partly(g, n - 1)
    BY <2>2, <2>3
  <2>5. \E h : Partly(h, (n - 1) + 1)
    BY <1>2, <2>3, <2>4
  <2> QED BY <2>2, <2>3, <2>5
<1>4. PICK g : Partly(g, N + 1)
  <2> HIDE DEF Partly
  <2> QED BY <1>3
<1>5. Near(N + 1) = D
  OBVIOUS
<1> QED BY <1>4, <1>5

(* What holds of a state and is kept holds of that in which the loop ends. *)
LEMMA LoopKeeps ==
  ASSUME NEW D, NEW halts, NEW result, NEW step, NEW N \in Nat, NEW left \in [D -> 0 .. N],
         \A p \in D \ halts : step[p] \in D /\ left[step[p]] < left[p],
         NEW g, Loops(g, D, halts, result, step),
         NEW I \in SUBSET D, \A p \in I \ halts : step[p] \in I
  PROVE  \A p \in I : \E q \in I \cap halts : g[p] = result[q]
<1> DEFINE Ends(p) == \E q \in I \cap halts : g[p] = result[q]
           Astray == {left[p] : p \in {p \in I : ~Ends(p)}}
<1>1. SUFFICES ASSUME NEW x \in I, ~Ends(x) PROVE FALSE
  OBVIOUS
<1>2. Astray \subseteq Nat /\ Astray # {}
  BY <1>1
<1>3. PICK n \in Astray : \A m \in Astray : n <= m
  <2> HIDE DEF Astray
  <2> QED BY <1>2, Least
<1>4. PICK p \in I : ~Ends(p) /\ left[p] = n
  <2> HIDE DEF Ends
  <2> QED OBVIOUS
<1>5. p \in D /\ g[p] = IF p \in halts THEN result[p] ELSE g[step[p]]
  BY DEF Loops
<1>6. CASE p \in halts
  BY <1>4, <1>5, <1>6
<1>7. CASE p \notin halts
  <2>1. step[p] \in I /\ left[step[p]] < left[p] /\ step[p] \in D /\ g[p] = g[step[p]]
    BY <1>5, <1>7
  <2>2. ~Ends(step[p])
    BY <1>4, <2>1
  <2>3. left[step[p]] \in Astray
    <3> HIDE DEF Ends
    <3> QED BY <2>1, <2>2
  <2>4. left[step[p]] \in Nat /\ left[p] \in Nat
    BY <1>5, <2>1
  <2> HIDE DEF Astray
  <2> QED BY <1>3, <1>4, <2>1, <2>3, <2>4
<1> QED BY <1>6, <1>7

-----------------------------------------------------------------------------
(* The automaton of the serializer goes through a string, from accepting   *)
(* to accepting, and never rejects.                                        *)
Decoding(g, s) ==
  /\ g \in [0 .. Len(s) -> 0 .. 8 \ {1}]
  /\ g[0] = 0 /\ g[Len(s)] = 0
  /\ \A k \in 1 .. Len(s) : g[k] = Decode(g[k - 1], s[k])

Decoded(s) == \E g : Decoding(g, s)

LEMMA DecodedIsDumpable == ASSUME NEW s \in Bytes, Decoded(s) PROVE Dumpable(s)
<1> DEFINE Follows(g) == g = [k \in 0 .. Len(s) |-> IF k = 0 THEN 0 ELSE Decode(g[k - 1], s[k])]
<1>1. PICK g : Decoding(g, s)
  BY DEF Decoded
<1>2. Len(s) \in Nat
  BY DEF Bytes
<1>3. Follows(g)
  <2>1. \A k \in 0 .. Len(s) : g[k] = IF k = 0 THEN 0 ELSE Decode(g[k - 1], s[k])
    BY <1>1, <1>2 DEF Decoding
  <2>2. g = [k \in 0 .. Len(s) |-> g[k]]
    BY <1>1 DEF Decoding
  <2> QED BY <2>1, <2>2
<1> DEFINE f == DecodeStates(s)
<1>4. Follows(f)
  BY <1>3 DEF DecodeStates
<1>5. ASSUME NEW h, Follows(h), NEW k \in 0 .. Len(s)
      PROVE  h[k] = IF k = 0 THEN 0 ELSE Decode(h[k - 1], s[k])
  BY <1>5
<1>6. ASSUME NEW k \in 0 .. Len(s) PROVE f[k] = g[k]
  <2> DEFINE Differ == {j \in 0 .. Len(s) : f[j] # g[j]}
  <2>1. SUFFICES ASSUME Differ # {} PROVE FALSE
    OBVIOUS
  <2>2. PICK j \in Differ : \A m \in Differ : j <= m
    <3>1. Differ \subseteq Nat
      BY <1>2
    <3> HIDE DEF Differ
    <3> QED BY <2>1, <3>1, Least
  <2> HIDE DEF f, Follows
  <2>3. j \in 0 .. Len(s) /\ f[j] # g[j]
    OBVIOUS
  <2>4. f[0] = 0 /\ g[0] = 0
    BY <1>2, <1>3, <1>4, <1>5
  <2>5. j # 0 /\ j - 1 \in 0 .. Len(s) /\ j - 1 \notin Differ
    BY <1>2, <2>2, <2>3, <2>4
  <2>6. f[j - 1] = g[j - 1]
    BY <2>5
  <2>7. f[j] = Decode(f[j - 1], s[j]) /\ g[j] = Decode(g[j - 1], s[j])
    BY <1>3, <1>4, <1>5, <2>3, <2>5
  <2> QED BY <2>3, <2>6, <2>7
<1> HIDE DEF f
<1>7. f[Len(s)] = 0 /\ \A k \in 0 .. Len(s) : f[k] # 1
  BY <1>1, <1>2, <1>6 DEF Decoding
<1> QED BY <1>7 DEF Dumpable, f

LEMMA NothingDecodes == <<>> \in Bytes /\ Decoded(<<>>)
<1>1. Decoding([k \in 0 .. 0 |-> 0], <<>>)
  BY DEF Decoding
<1> QED BY <1>1 DEF Decoded, Bytes

LEMMA DecodedJoins ==
  ASSUME NEW a \in Bytes, Decoded(a), NEW b \in Bytes, Decoded(b)
  PROVE  a \o b \in Bytes /\ Decoded(a \o b)
<1>1. PICK g : Decoding(g, a)
  BY DEF Decoded
<1>2. PICK h : Decoding(h, b)
  BY DEF Decoded
<1> DEFINE m == Len(a)
           n == Len(b)
           f == [k \in 0 .. m + n |-> IF k <= m THEN g[k] ELSE h[k - m]]
<1>3. /\ a \o b \in Bytes /\ Len(a \o b) = m + n /\ m \in Nat /\ n \in Nat
      /\ \A k \in 1 .. m + n : (a \o b)[k] = IF k <= m THEN a[k] ELSE b[k - m]
  BY DEF Bytes
<1>4. f \in [0 .. m + n -> 0 .. 8 \ {1}] /\ f[0] = 0 /\ f[m + n] = 0
  <2>1. \A k \in 0 .. m : g[k] \in 0 .. 8 \ {1}
    BY <1>1 DEF Decoding
  <2>2. \A k \in 0 .. n : h[k] \in 0 .. 8 \ {1}
    BY <1>2 DEF Decoding
  <2>3. g[0] = 0 /\ g[m] = 0 /\ h[0] = 0 /\ h[n] = 0
    BY <1>1, <1>2 DEF Decoding
  <2>4. ASSUME NEW k \in 0 .. m + n PROVE f[k] \in 0 .. 8 \ {1}
    BY <1>3, <2>1, <2>2
  <2> QED BY <1>3, <2>3, <2>4
<1>5. ASSUME NEW k \in 1 .. m + n PROVE f[k] = Decode(f[k - 1], (a \o b)[k])
  <2>1. CASE k <= m
    <3>1. k \in 1 .. m /\ f[k] = g[k] /\ f[k - 1] = g[k - 1] /\ (a \o b)[k] = a[k]
      BY <1>3, <2>1
    <3> HIDE DEF f
    <3> QED BY <1>1, <3>1 DEF Decoding
  <2>2. CASE k > m
    <3>1. k - m \in 1 .. n /\ f[k] = h[k - m] /\ (a \o b)[k] = b[k - m]
      BY <1>3, <2>2
    <3>2. f[k - 1] = h[(k - m) - 1]
      <4>1. CASE k - 1 = m
        <5>1. f[k - 1] = g[m] /\ (k - m) - 1 = 0
          BY <1>3, <4>1
        <5> HIDE DEF f
        <5> QED BY <1>1, <1>2, <5>1 DEF Decoding
      <4>2. CASE k - 1 # m
        <5>1. k - 1 \in 0 .. m + n /\ ~(k - 1 <= m) /\ (k - 1) - m = (k - m) - 1
          BY <1>3, <2>2, <4>2
        <5>2. ASSUME NEW j \in 0 .. m + n, ~(j <= m) PROVE f[j] = h[j - m]
          BY <5>2
        <5> HIDE DEF f
        <5> QED BY <5>1, <5>2
      <4> QED BY <4>1, <4>2
    <3>3. h[k - m] = Decode(h[(k - m) - 1], b[k - m])
      BY <1>2, <3>1 DEF Decoding
    <3> HIDE DEF f
    <3> QED BY <3>1, <3>2, <3>3
  <2> QED BY <1>3, <2>1, <2>2
<1> HIDE DEF f
<1>6. Decoding(f, a \o b)
  BY <1>3, <1>4, <1>5 DEF Decoding
<1> QED BY <1>3, <1>6 DEF Decoded

-----------------------------------------------------------------------------
(* One code point, of one to four bytes.                                   *)
LEMMA OneDecodes ==
  ASSUME NEW w, Len(w) = 1, w[1] \in 0 .. 127
  PROVE  Decoded(w)
<1>1. Decode(0, w[1]) = 0
  BY DEF Decode, ByteClass
<1>2. Decoding([k \in 0 .. 1 |-> 0], w)
  BY <1>1 DEF Decoding
<1> QED BY <1>2 DEF Decoded

LEMMA TwoDecode ==
  ASSUME NEW w, Len(w) = 2, w[1] \in 194 .. 223, w[2] \in 128 .. 191
  PROVE  Decoded(w)
<1> DEFINE g == [k \in 0 .. 2 |-> IF k = 1 THEN 2 ELSE 0]
<1>1. Decode(0, w[1]) = 2
  BY DEF Decode, ByteClass
<1>2. Decode(2, w[2]) = 0
  BY DEF Decode, ByteClass
<1>3. Decoding(g, w)
  <2>1. \A k \in 1 .. 2 : k = 1 \/ k = 2
    OBVIOUS
  <2> QED BY <1>1, <1>2, <2>1 DEF Decoding
<1> HIDE DEF g
<1> QED BY <1>3 DEF Decoded

LEMMA ClassOfTail ==
  ASSUME NEW b \in 128 .. 191
  PROVE  ByteClass(b) = IF b <= 143 THEN 1 ELSE IF b <= 159 THEN 9 ELSE 7
  BY DEF ByteClass

LEMMA ThreeDecode ==
  ASSUME NEW w, Len(w) = 3,
         w[1] \in 224 .. 239, w[2] \in 128 .. 191, w[3] \in 128 .. 191,
         w[1] = 224 => w[2] >= 160, w[1] = 237 => w[2] <= 159
  PROVE  Decoded(w)
<1> DEFINE q == Decode(0, w[1])
           g == [k \in 0 .. 3 |-> IF k = 1 THEN q ELSE IF k = 2 THEN 2 ELSE 0]
<1>1. q \in {3, 4, 5} /\ Decode(q, w[2]) = 2
  <2>1. q = IF w[1] = 224 THEN 4 ELSE IF w[1] = 237 THEN 5 ELSE 3
    <3>1. ByteClass(w[1]) = IF w[1] = 224 THEN 10 ELSE IF w[1] = 237 THEN 4 ELSE 3
      BY DEF ByteClass
    <3> QED BY <3>1 DEF Decode
  <2> HIDE DEF q
  <2> QED BY <2>1, ClassOfTail DEF Decode
<1>2. Decode(2, w[3]) = 0
  BY DEF Decode, ByteClass
<1> HIDE DEF q
<1>3. Decoding(g, w)
  <2>1. \A k \in 1 .. 3 : k = 1 \/ k = 2 \/ k = 3
    OBVIOUS
  <2> QED BY <1>1, <1>2, <2>1 DEF Decoding, q
<1> HIDE DEF g
<1> QED BY <1>3 DEF Decoded

LEMMA FourDecode ==
  ASSUME NEW w, Len(w) = 4,
         w[1] \in 240 .. 244, w[2] \in 128 .. 191, w[3] \in 128 .. 191, w[4] \in 128 .. 191,
         w[1] = 240 => w[2] >= 144, w[1] = 244 => w[2] <= 143
  PROVE  Decoded(w)
<1> DEFINE q == Decode(0, w[1])
           g == [k \in 0 .. 4 |-> IF k = 1 THEN q ELSE IF k = 2 THEN 3 ELSE IF k = 3 THEN 2 ELSE 0]
<1>1. q \in {6, 7, 8} /\ Decode(q, w[2]) = 3
  <2>1. q = IF w[1] = 240 THEN 6 ELSE IF w[1] = 244 THEN 8 ELSE 7
    <3>1. ByteClass(w[1]) = IF w[1] = 240 THEN 11 ELSE IF w[1] = 244 THEN 5 ELSE 6
      BY DEF ByteClass
    <3> QED BY <3>1 DEF Decode
  <2> HIDE DEF q
  <2> QED BY <2>1, ClassOfTail DEF Decode
<1>2. Decode(3, w[3]) = 2 /\ Decode(2, w[4]) = 0
  BY DEF Decode, ByteClass
<1> HIDE DEF q
<1>3. Decoding(g, w)
  <2>1. \A k \in 1 .. 4 : k = 1 \/ k = 2 \/ k = 3 \/ k = 4
    OBVIOUS
  <2> QED BY <1>1, <1>2, <2>1 DEF Decoding, q
<1> HIDE DEF g
<1> QED BY <1>3 DEF Decoded

-----------------------------------------------------------------------------
(* What the lexer writes for the code unit, or the two, of an escape.      *)
LEMMA Utf8Decodes ==
  ASSUME NEW c \in Nat, c <= 1114111, c \notin HighSurrogates \cup LowSurrogates
  PROVE  Utf8(c) \in Bytes /\ Decoded(Utf8(c))
<1> DEFINE low(shift) == 128 + ((c \div shift) % 64)
<1>1. CASE c < 128
  <2>1. Utf8(c) = <<c>> /\ c \in 0 .. 127
    BY <1>1, SMT DEF Utf8
  <2> HIDE DEF low
  <2> QED BY <2>1, OneDecodes, SMT DEF Bytes
<1>2. CASE c >= 128 /\ c <= 2047
  <2>1. Utf8(c) = <<192 + c \div 64, low(1)>>
    BY <1>2, SMT DEF Utf8
  <2>2. 192 + c \div 64 \in 194 .. 223 /\ low(1) \in 128 .. 191
    BY <1>2, SMT
  <2> HIDE DEF low
  <2> QED BY <2>1, <2>2, TwoDecode, SMT DEF Bytes
<1>3. CASE c >= 2048 /\ c <= 65535
  <2>1. Utf8(c) = <<224 + c \div 4096, low(64), low(1)>>
    BY <1>3, SMT DEF Utf8
  <2>2. 224 + c \div 4096 \in 224 .. 239 /\ low(1) \in 128 .. 191 /\ low(64) \in 128 .. 191
    BY <1>3, SMT
  <2>3. 224 + c \div 4096 = 224 => low(64) >= 160
    BY <1>3, SMT
  <2>4. 224 + c \div 4096 = 237 => low(64) <= 159
    BY <1>3, SMT DEF HighSurrogates, LowSurrogates
  <2> HIDE DEF low
  <2> QED BY <2>1, <2>2, <2>3, <2>4, ThreeDecode, SMT DEF Bytes
<1>4. CASE c >= 65536
  <2>1. Utf8(c) = <<240 + c \div 262144, low(4096), low(64), low(1)>>
    BY <1>4, SMT DEF Utf8
  <2>2. /\ 240 + c \div 262144 \in 240 .. 244
        /\ low(1) \in 128 .. 191 /\ low(64) \in 128 .. 191 /\ low(4096) \in 128 .. 191
    BY <1>4, SMT
  <2>3. 240 + c \div 262144 = 240 => low(4096) >= 144
    BY <1>4, SMT
  <2>4. 240 + c \div 262144 = 244 => low(4096) <= 143
    BY <1>4, SMT
  <2> HIDE DEF low
  <2> QED BY <2>1, <2>2, <2>3, <2>4, FourDecode, SMT DEF Bytes
<1> QED BY <1>1, <1>2, <1>3, <1>4, SMT

(* Four digits are read, or the code unit is none.                         *)
LEMMA CodepointRange ==
  ASSUME NEW s \in Bytes, NEW i \in Nat, Codepoint(s, i) # -1
  PROVE  Codepoint(s, i) \in Nat /\ Codepoint(s, i) <= 65535 /\ i + 3 <= Len(s)
<1> DEFINE hex == [k \in 0 .. 3 |-> Hex(Byte(s, i + k))]
<1>1. /\ \A k \in 0 .. 3 : hex[k] # -1
      /\ Codepoint(s, i) = ((hex[0] * 16 + hex[1]) * 16 + hex[2]) * 16 + hex[3]
  BY DEF Codepoint
<1>2. \A c : Hex(c) \in -1 .. 15
  BY DEF Hex, Digits
<1>3. \A k \in 0 .. 3 : hex[k] \in -1 .. 15
  BY <1>2
<1>4. Hex(Eof) = -1
  BY DEF Hex, Digits, Eof
<1>5. Byte(s, i + 3) # Eof
  <2>1. hex[3] = Hex(Byte(s, i + 3))
    OBVIOUS
  <2> QED BY <1>1, <1>4, <2>1
<1>6. i + 3 <= Len(s)
  BY <1>5 DEF Byte
<1> HIDE DEF hex
<1>7. hex[0] \in 0 .. 15 /\ hex[1] \in 0 .. 15 /\ hex[2] \in 0 .. 15 /\ hex[3] \in 0 .. 15
  BY <1>1, <1>3
<1>8. PICK a \in 0 .. 15, b \in 0 .. 15, c \in 0 .. 15, d \in 0 .. 15 :
        hex[0] = a /\ hex[1] = b /\ hex[2] = c /\ hex[3] = d
  BY <1>7
<1>9. Codepoint(s, i) = ((a * 16 + b) * 16 + c) * 16 + d
  BY <1>1, <1>8
<1> QED BY <1>6, <1>9

(* A piece at i is UTF-8 of its own, and ends after i but inside the text. *)
Fits(piece, s, i) ==
  piece[1] \in Bytes /\ Decoded(piece[1]) /\ piece[2] \in i + 1 .. Len(s) + 1

LEMMA EscapeFits ==
  ASSUME NEW s \in Bytes, NEW i \in Nat, UnicodeEscape(s, i) # IllFormed
  PROVE  Fits(UnicodeEscape(s, i), s, i)
<1> DEFINE one == Codepoint(s, i)
           two == Codepoint(s, i + 6)
<1>0. Len(s) \in Nat
  BY DEF Bytes
<1>1. CASE /\ one \in HighSurrogates /\ two \in LowSurrogates
           /\ UnicodeEscape(s, i) = <<Utf8(one * 1024 + two - 56613888), i + 10>>
  <2>1. i + 6 \in Nat /\ two # -1
    BY <1>1 DEF LowSurrogates
  <2>2. (i + 6) + 3 <= Len(s)
    BY <2>1, CodepointRange
  <2> DEFINE c == one * 1024 + two - 56613888
  <2> HIDE DEF one, two
  <2>3. c \in Nat /\ c >= 65536 /\ c <= 1114111
    BY <1>1, SMT DEF HighSurrogates, LowSurrogates
  <2>4. UnicodeEscape(s, i) = <<Utf8(c), i + 10>>
    BY <1>1, SMT
  <2> HIDE DEF c
  <2>5. c \notin HighSurrogates \cup LowSurrogates
    BY <2>3, SMT DEF HighSurrogates, LowSurrogates
  <2>6. Utf8(c) \in Bytes /\ Decoded(Utf8(c))
    BY <2>3, <2>5, Utf8Decodes, SMT
  <2>7. i + 10 \in i + 1 .. Len(s) + 1
    BY <1>0, <2>2, SMT
  <2> QED BY <2>4, <2>6, <2>7, SMT DEF Fits
<1>2. CASE /\ one # -1 /\ one \notin HighSurrogates \cup LowSurrogates
           /\ UnicodeEscape(s, i) = <<Utf8(one), i + 4>>
  <2>1. one \in Nat /\ one <= 65535 /\ i + 3 <= Len(s)
    BY <1>2, CodepointRange
  <2> HIDE DEF one, two
  <2>2. Utf8(one) \in Bytes /\ Decoded(Utf8(one))
    BY <1>2, <2>1, Utf8Decodes, SMT
  <2>3. i + 4 \in i + 1 .. Len(s) + 1
    BY <1>0, <2>1, SMT
  <2> QED BY <1>2, <2>2, <2>3, SMT DEF Fits
<1> QED BY <1>1, <1>2, SMT DEF UnicodeEscape

-----------------------------------------------------------------------------
LEMMA ByteThere ==
  ASSUME NEW s \in Bytes, NEW i \in 1 .. Len(s)
  PROVE  s[i] \in 0 .. 255 /\ i \in Nat /\ Len(s) \in Nat
<1>1. ASSUME NEW S, NEW t \in Seq(S), NEW k \in 1 .. Len(t)
      PROVE  t[k] \in S /\ k \in Nat /\ Len(t) \in Nat
  BY <1>1
<1> QED BY <1>1 DEF Bytes

LEMMA BytesFrom ==
  ASSUME NEW s \in Bytes, NEW i \in 1 .. Len(s), NEW n \in Nat, i + n <= Len(s)
  PROVE  /\ SubSeq(s, i, i + n) \in Bytes /\ Len(SubSeq(s, i, i + n)) = n + 1
         /\ \A k \in 1 .. n + 1 : SubSeq(s, i, i + n)[k] = s[i + k - 1]
<1>1. SubSeq(s, i, i + n) \in Bytes
  <2>1. ASSUME NEW S, NEW t \in Seq(S), NEW j \in 1 .. Len(t), NEW m \in Nat, j + m <= Len(t)
        PROVE  SubSeq(t, j, j + m) \in Seq(S)
    BY <2>1
  <2> QED BY <2>1 DEF Bytes
<1>2. Len(SubSeq(s, i, i + n)) = n + 1
  <2>1. ASSUME NEW S, NEW t \in Seq(S), NEW j \in 1 .. Len(t), NEW m \in Nat, j + m <= Len(t)
        PROVE  Len(SubSeq(t, j, j + m)) = m + 1
    BY <2>1
  <2> QED BY <2>1 DEF Bytes
<1>3. ASSUME NEW k \in 1 .. n + 1 PROVE SubSeq(s, i, i + n)[k] = s[i + k - 1]
  <2>1. ASSUME NEW S, NEW t \in Seq(S), NEW j \in 1 .. Len(t), NEW m \in Nat, j + m <= Len(t),
               NEW l \in 1 .. m + 1
        PROVE  SubSeq(t, j, j + m)[l] = t[j + l - 1]
    BY <2>1
  <2> QED BY <2>1 DEF Bytes
<1> QED BY <1>1, <1>2, <1>3

LEMMA FollowingCases ==
  ASSUME NEW c, Following(c) # -1
  PROVE  /\ Following(c) \in 0 .. 3
         /\ Following(c) = 0 => c \in 32 .. 127
         /\ Following(c) = 1 => c \in 194 .. 223
         /\ Following(c) = 2 => c \in 224 .. 239
         /\ Following(c) = 3 => c \in 240 .. 244
  BY DEF Following

LEMMA SecondCases ==
  ASSUME NEW c, NEW b \in Second(c)
  PROVE  /\ b \in 128 .. 191
         /\ c = 224 => b >= 160
         /\ c = 237 => b <= 159
         /\ c = 240 => b >= 144
         /\ c = 244 => b <= 143
  BY DEF Second, Tails

(* The two automata agree on a character.                                  *)
Led(w, c, n) ==
  /\ n # -1 /\ Len(w) = n + 1 /\ w[1] = c
  /\ n > 0 => w[2] \in Second(c)
  /\ \A k \in 2 .. n : w[k + 1] \in Tails

LEMMA LedDecodes ==
  ASSUME NEW w, NEW c, Led(w, c, Following(c))
  PROVE  Decoded(w)
<1>1. Following(c) # -1
  BY DEF Led
<1>2. CASE Following(c) = 0
  <2>1. Len(w) = 1 /\ w[1] = c
    BY <1>2 DEF Led
  <2> QED BY <1>1, <1>2, <2>1, FollowingCases, OneDecodes
<1>3. CASE Following(c) = 1
  <2>1. Len(w) = 2 /\ w[1] = c /\ w[2] \in Second(c)
    BY <1>3 DEF Led
  <2>2. c \in 194 .. 223 /\ w[2] \in 128 .. 191
    BY <1>1, <1>3, <2>1, FollowingCases, SecondCases
  <2> QED BY <2>1, <2>2, TwoDecode
<1>4. CASE Following(c) = 2
  <2>1. Len(w) = 3 /\ w[1] = c /\ w[2] \in Second(c) /\ w[3] \in 128 .. 191
    BY <1>4 DEF Led, Tails
  <2>2. /\ c \in 224 .. 239 /\ w[2] \in 128 .. 191
        /\ c = 224 => w[2] >= 160
        /\ c = 237 => w[2] <= 159
    BY <1>1, <1>4, <2>1, FollowingCases, SecondCases
  <2> QED BY <2>1, <2>2, ThreeDecode
<1>5. CASE Following(c) = 3
  <2>1. /\ Len(w) = 4 /\ w[1] = c /\ w[2] \in Second(c)
        /\ w[3] \in 128 .. 191 /\ w[4] \in 128 .. 191
    BY <1>5 DEF Led, Tails
  <2>2. /\ c \in 240 .. 244 /\ w[2] \in 128 .. 191
        /\ c = 240 => w[2] >= 144
        /\ c = 244 => w[2] <= 143
    BY <1>1, <1>5, <2>1, FollowingCases, SecondCases
  <2> QED BY <2>1, <2>2, FourDecode
<1> QED BY <1>1, <1>2, <1>3, <1>4, <1>5, FollowingCases

(* A character that stands for itself.                                     *)
LEMMA CharacterIsLed ==
  ASSUME NEW s \in Bytes, NEW i \in 1 .. Len(s), Character(s, i) # IllFormed
  PROVE  \E n \in 0 .. 3, w \in Bytes :
           /\ Character(s, i) = <<w, i + n + 1>> /\ w = SubSeq(s, i, i + n) /\ i + n <= Len(s)
           /\ n = Following(s[i]) /\ w[1] = s[i] /\ Led(w, s[i], n)
<1> DEFINE n == Following(s[i])
           w == SubSeq(s, i, i + n)
<1>1. Len(s) \in Nat /\ i \in Nat
  BY ByteThere
<1>2. /\ n # -1
      /\ n > 0 => Byte(s, i + 1) \in Second(s[i])
      /\ \A k \in 2 .. n : Byte(s, i + k) \in Tails
      /\ Character(s, i) = <<w, i + n + 1>>
  BY DEF Character
<1>3. n \in 0 .. 3
  BY <1>2, FollowingCases
<1>4. Eof \notin Tails /\ \A c : Eof \notin Second(c)
  <2>1. Eof = -1 /\ Eof \notin 128 .. 191
    BY DEF Eof
  <2>2. ASSUME NEW c, Eof \in Second(c) PROVE FALSE
    BY <2>1, <2>2, SecondCases
  <2>3. Eof \notin Tails
    BY <2>1 DEF Tails
  <2> QED BY <2>2, <2>3
<1> HIDE DEF n
<1>5. \A k \in 1 .. n : i + k <= Len(s) /\ Byte(s, i + k) = s[i + k]
  <2>1. ASSUME NEW k \in 1 .. n PROVE k \in Nat /\ Byte(s, i + k) # Eof
    <3>1. (k = 1 /\ n > 0) \/ k \in 2 .. n
      BY <1>3
    <3> QED BY <1>2, <1>4, <3>1
  <2> QED BY <1>1, <2>1 DEF Byte
<1>6. i + n <= Len(s)
  <2>1. n = 0 \/ n \in 1 .. n
    BY <1>3
  <2> QED BY <1>1, <1>5, <2>1
<1>7. w \in Bytes /\ Len(w) = n + 1 /\ \A k \in 1 .. n + 1 : w[k] = s[i + k - 1]
  <2>1. n \in Nat
    BY <1>3
  <2> QED BY <1>6, <2>1, BytesFrom
<1> HIDE DEF w
<1>8. w[1] = s[i] /\ \A k \in 1 .. n : w[k + 1] = Byte(s, i + k)
  <2>1. 1 \in 1 .. n + 1 /\ \A k \in 1 .. n : k + 1 \in 1 .. n + 1
    BY <1>3
  <2>2. i + 1 - 1 = i /\ \A k \in 1 .. n : i + (k + 1) - 1 = i + k
    BY <1>1, <1>3
  <2> QED BY <1>5, <1>7, <2>1, <2>2
<1>9. Led(w, s[i], n)
  <2>1. n > 0 => w[2] = Byte(s, i + 1)
    BY <1>3, <1>8
  <2>2. \A k \in 2 .. n : k \in 1 .. n
    BY <1>3
  <2> QED BY <1>2, <1>7, <1>8, <2>1, <2>2 DEF Led
<1> QED BY <1>2, <1>3, <1>6, <1>7, <1>8, <1>9 DEF n, w

LEMMA CharacterFits ==
  ASSUME NEW s \in Bytes, NEW i \in 1 .. Len(s), Character(s, i) # IllFormed
  PROVE  Fits(Character(s, i), s, i)
<1>1. PICK n \in 0 .. 3, w \in Bytes :
        /\ Character(s, i) = <<w, i + n + 1>> /\ i + n <= Len(s)
        /\ n = Following(s[i]) /\ Led(w, s[i], n)
  BY CharacterIsLed
<1>2. Decoded(w)
  BY <1>1, LedDecodes
<1>3. i + n + 1 \in i + 1 .. Len(s) + 1
  BY <1>1, ByteThere
<1> QED BY <1>1, <1>2, <1>3 DEF Fits

(* What stands between the quotes of a string, a piece at a time.          *)
LEMMA PieceFits ==
  ASSUME NEW s \in Bytes, NEW i \in 1 .. Len(s), Piece(s, i) # IllFormed
  PROVE  Fits(Piece(s, i), s, i)
<1>1. Len(s) \in Nat /\ i \in Nat
  BY ByteThere
<1>2. CASE s[i] # Backslash
  BY <1>2, CharacterFits DEF Piece
<1>3. CASE s[i] = Backslash /\ Byte(s, i + 1) = 117
  <2>1. UnicodeEscape(s, i + 2) # IllFormed /\ Piece(s, i) = UnicodeEscape(s, i + 2)
    BY <1>3 DEF Piece
  <2>2. Fits(Piece(s, i), s, i + 2)
    BY <1>1, <2>1, EscapeFits
  <2>3. \A k \in (i + 2) + 1 .. Len(s) + 1 : k \in i + 1 .. Len(s) + 1
    BY <1>1
  <2> QED BY <2>2, <2>3 DEF Fits
<1>4. CASE s[i] = Backslash /\ Byte(s, i + 1) # 117
  <2> DEFINE b == Byte(s, i + 1)
  <2>1. b \in DOMAIN Escapes /\ Piece(s, i) = <<<<Escapes[b]>>, i + 2>>
    BY <1>4 DEF Piece
  <2>2. Escapes[b] \in 0 .. 127 /\ b # Eof
    <3> HIDE DEF b
    <3> QED BY <2>1 DEF Escapes, Quote, Backslash, Eof
  <2>3. <<Escapes[b]>> \in Bytes /\ Decoded(<<Escapes[b]>>)
    BY <2>2, OneDecodes DEF Bytes
  <2>4. i + 2 \in i + 1 .. Len(s) + 1
    BY <1>1, <2>2 DEF Byte
  <2> QED BY <2>1, <2>3, <2>4 DEF Fits
<1> QED BY <1>2, <1>3, <1>4

(* The loop of scan_string, as data: it is at a position, with what has    *)
(* been read so far.                                                       *)
StringStates(s) == (1 .. Len(s) + 1) \X Bytes
StringHalts(s) ==
  {p \in StringStates(s) :
     Byte(s, p[1]) = Eof \/ s[p[1]] = Quote \/ Piece(s, p[1]) = IllFormed}
StringResult(s) ==
  [p \in StringStates(s) |->
     IF Byte(s, p[1]) = Eof THEN ParseError
     ELSE IF s[p[1]] = Quote THEN <<"value_string", p[2], p[1] + 1>>
     ELSE ParseError]
StringStep(s) ==
  [p \in StringStates(s) |-> <<Piece(s, p[1])[2], p[2] \o Piece(s, p[1])[1]>>]
StringLeft(s) == [p \in StringStates(s) |-> Len(s) + 1 - p[1]]

LEMMA StringStepFits ==
  ASSUME NEW s \in Bytes, NEW p \in StringStates(s) \ StringHalts(s)
  PROVE  /\ p[1] \in 1 .. Len(s) /\ p[2] \in Bytes
         /\ s[p[1]] # Quote /\ Piece(s, p[1]) # IllFormed /\ Fits(Piece(s, p[1]), s, p[1])
         /\ StringStep(s)[p] = <<Piece(s, p[1])[2], p[2] \o Piece(s, p[1])[1]>>
         /\ StringStep(s)[p] \in StringStates(s)
         /\ StringLeft(s)[StringStep(s)[p]] < StringLeft(s)[p]
<1> DEFINE q == Piece(s, p[1])
<1>1. /\ Len(s) \in Nat /\ p[1] \in 1 .. Len(s) + 1 /\ p[2] \in Bytes
      /\ Byte(s, p[1]) # Eof /\ s[p[1]] # Quote /\ q # IllFormed
  BY DEF StringStates, StringHalts, Bytes
<1>2. p[1] \in 1 .. Len(s)
  BY <1>1 DEF Byte
<1>3. Fits(q, s, p[1])
  BY <1>1, <1>2, PieceFits
<1>4. StringStep(s)[p] = <<q[2], p[2] \o q[1]>>
  BY DEF StringStep
<1>5. q[1] \in Bytes /\ q[2] \in p[1] + 1 .. Len(s) + 1
  BY <1>3 DEF Fits
<1>6. p[2] \o q[1] \in Bytes
  BY <1>1, <1>5 DEF Bytes
<1> HIDE DEF q
<1>7. q[2] \in 1 .. Len(s) + 1 /\ q[2] > p[1] /\ p[1] \in Nat /\ q[2] \in Nat
  BY <1>1, <1>2, <1>5
<1>8. <<q[2], p[2] \o q[1]>> \in StringStates(s)
  BY <1>6, <1>7 DEF StringStates
<1>9. StringLeft(s)[p] = Len(s) + 1 - p[1] /\ StringLeft(s)[StringStep(s)[p]] = Len(s) + 1 - q[2]
  BY <1>4, <1>8 DEF StringLeft
<1>10. StringLeft(s)[StringStep(s)[p]] < StringLeft(s)[p]
  BY <1>1, <1>7, <1>9
<1> QED BY <1>1, <1>2, <1>3, <1>4, <1>8, <1>10 DEF q

LEMMA StringLeftIsNatural ==
  ASSUME NEW s \in Bytes
  PROVE  Len(s) \in Nat /\ StringLeft(s) \in [StringStates(s) -> 0 .. Len(s)]
<1>1. Len(s) \in Nat
  BY DEF Bytes
<1>2. ASSUME NEW p \in StringStates(s) PROVE Len(s) + 1 - p[1] \in 0 .. Len(s)
  <2>1. p[1] \in 1 .. Len(s) + 1
    BY DEF StringStates
  <2> QED BY <1>1, <2>1
<1> QED BY <1>1, <1>2 DEF StringLeft

LEMMA ScanStringLoops ==
  ASSUME NEW s \in Bytes, NEW i \in 1 .. Len(s) + 1
  PROVE  \E g : /\ Loops(g, StringStates(s), StringHalts(s), StringResult(s), StringStep(s))
                /\ ScanString(s, i) = g[<<i, <<>>>>]
<1> DEFINE D == StringStates(s)
           Ending(g, at) == IF Byte(s, at[1]) = Eof THEN ParseError
                            ELSE IF s[at[1]] = Quote THEN <<"value_string", at[2], at[1] + 1>>
                            ELSE LET piece == Piece(s, at[1])
                                 IN IF piece = IllFormed THEN ParseError
                                    ELSE g[<<piece[2], at[2] \o piece[1]>>]
           Scanning(g) == g = [at \in (1 .. Len(s) + 1) \X Seq(0 .. 255) |-> Ending(g, at)]
<1>1. ASSUME NEW g
      PROVE  Scanning(g) <=> Loops(g, D, StringHalts(s), StringResult(s), StringStep(s))
  <2> DEFINE Next(p) == IF p \in StringHalts(s) THEN StringResult(s)[p] ELSE g[StringStep(s)[p]]
  <2>1. \A p \in D : Ending(g, p) = Next(p)
    BY DEF StringHalts, StringResult, StringStep
  <2>2. D = (1 .. Len(s) + 1) \X Seq(0 .. 255)
    BY DEF Bytes, StringStates
  <2>3. Loops(g, D, StringHalts(s), StringResult(s), StringStep(s)) <=> g = [p \in D |-> Next(p)]
    BY DEF Loops
  <2> HIDE DEF Next, Ending, D
  <2>4. [p \in D |-> Ending(g, p)] = [p \in D |-> Next(p)]
    BY <2>1
  <2> QED BY <2>2, <2>3, <2>4
<1>2. \E g : Scanning(g)
  <2>1. \A p \in D \ StringHalts(s) :
          StringStep(s)[p] \in D /\ StringLeft(s)[StringStep(s)[p]] < StringLeft(s)[p]
    BY StringStepFits
  <2> HIDE DEF D, Scanning
  <2>2. Len(s) \in Nat /\ StringLeft(s) \in [D -> 0 .. Len(s)]
    BY StringLeftIsNatural DEF D
  <2> QED BY <1>1, <2>1, <2>2, LoopEnds
<1>3. PICK g : Scanning(g) /\ ScanString(s, i) = g[<<i, <<>>>>]
  BY <1>2 DEF ScanString
<1> HIDE DEF Scanning
<1> QED BY <1>1, <1>3

(* Whatever holds of the state in which the loop begins, and is kept by a  *)
(* step, holds of the one in which it ends.                                *)
LEMMA ScanStringEnds ==
  ASSUME NEW s \in Bytes, NEW i \in 1 .. Len(s) + 1, NEW I \in SUBSET StringStates(s),
         <<i, <<>>>> \in I, \A p \in I \ StringHalts(s) : StringStep(s)[p] \in I
  PROVE  \E q \in I \cap StringHalts(s) : ScanString(s, i) = StringResult(s)[q]
<1> DEFINE D == StringStates(s)
           H == StringHalts(s)
           R == StringResult(s)
           S == StringStep(s)
           L == StringLeft(s)
<1>1. PICK g : /\ Loops(g, StringStates(s), StringHalts(s), StringResult(s), StringStep(s))
               /\ ScanString(s, i) = g[<<i, <<>>>>]
  BY ScanStringLoops
<1>2. /\ Len(s) \in Nat /\ StringLeft(s) \in [StringStates(s) -> 0 .. Len(s)]
      /\ \A p \in StringStates(s) \ StringHalts(s) :
           /\ StringStep(s)[p] \in StringStates(s)
           /\ StringLeft(s)[StringStep(s)[p]] < StringLeft(s)[p]
  BY StringLeftIsNatural, StringStepFits
<1>3. \A p \in I : \E q \in I \cap StringHalts(s) : g[p] = StringResult(s)[q]
  <2> DEFINE N == Len(s)
  <2>1. Loops(g, D, H, R, S) /\ N \in Nat /\ L \in [D -> 0 .. N]
    BY <1>1, <1>2
  <2>2. \A p \in D \ H : S[p] \in D /\ L[S[p]] < L[p]
    BY <1>2
  <2>3. I \in SUBSET D /\ \A p \in I \ H : S[p] \in I
    OBVIOUS
  <2> HIDE DEF D, H, R, S, L, N
  <2>4. \A p \in I : \E q \in I \cap H : g[p] = R[q]
    BY <2>1, <2>2, <2>3, LoopKeeps
  <2> QED BY <2>4 DEF H, R
<1> QED BY <1>1, <1>3

(* A string token holds UTF-8, and the next token starts after it.         *)
LEMMA ScanStringFits ==
  ASSUME NEW s \in Bytes, NEW i \in 1 .. Len(s) + 1, NEW t, t = ScanString(s, i)
  PROVE  \/ t = ParseError
         \/ \E b \in Bytes, e \in Nat \ {0} : Decoded(b) /\ t = <<"value_string", b, e>>
<1> DEFINE I == {p \in StringStates(s) : Decoded(p[2])}
<1>1. <<i, <<>>>> \in I
  BY NothingDecodes DEF StringStates
<1>2. ASSUME NEW p \in I \ StringHalts(s) PROVE StringStep(s)[p] \in I
  <2> DEFINE q == Piece(s, p[1])
  <2>1. /\ p[2] \in Bytes /\ Decoded(p[2]) /\ Fits(q, s, p[1])
        /\ StringStep(s)[p] = <<q[2], p[2] \o q[1]>> /\ StringStep(s)[p] \in StringStates(s)
    BY StringStepFits
  <2>2. Decoded(p[2] \o q[1])
    BY <2>1, DecodedJoins DEF Fits
  <2>3. StringStep(s)[p][2] = p[2] \o q[1]
    <3>1. \A x, y : <<x, y>>[2] = y
      OBVIOUS
    <3> HIDE DEF q
    <3> QED BY <2>1, <3>1
  <2> HIDE DEF q
  <2> QED BY <2>1, <2>2, <2>3
<1>3. PICK q \in I \cap StringHalts(s) : t = StringResult(s)[q]
  <2> HIDE DEF I
  <2>1. I \in SUBSET StringStates(s)
    BY DEF I
  <2> QED BY <1>1, <1>2, <2>1, ScanStringEnds
<1>4. q[2] \in Bytes /\ Decoded(q[2]) /\ q[1] + 1 \in Nat \ {0}
  <2>1. q[1] \in 1 .. Len(s) + 1 /\ Len(s) \in Nat
    BY DEF StringStates, Bytes
  <2>2. q[2] \in Bytes /\ Decoded(q[2])
    BY DEF StringStates
  <2> QED BY <2>1, <2>2
<1>5. t \in {ParseError, <<"value_string", q[2], q[1] + 1>>}
  BY <1>3 DEF StringResult
<1> QED BY <1>4, <1>5

-----------------------------------------------------------------------------
Sums(g, t) == g[0] = 0 /\ \A k \in 1 .. Len(t) : g[k] = g[k - 1] * 10 + t[k] - 48

LEMMA DecimalIsSum ==
  ASSUME NEW t, Len(t) \in Nat
  PROVE  \E g : Sums(g, t) /\ Decimal(t) = g[Len(t)]
<1> DEFINE L == Len(t)
           Value(g, k) == IF k = 0 THEN 0 ELSE g[k - 1] * 10 + t[k] - 48
           Partly(g, n) == g = [k \in 0 .. n |-> Value(g, k)]
           Short == {n \in 0 .. L : ~\E g : Partly(g, n)}
<1>1. \E g : Partly(g, 0)
  <2>1. Partly([k \in 0 .. 0 |-> 0], 0)
    OBVIOUS
  <2> QED BY <2>1
<1>2. ASSUME NEW n \in Nat, NEW g, Partly(g, n)
      PROVE  \E h : Partly(h, n + 1)
  <2> DEFINE h == [k \in 0 .. n + 1 |-> Value(g, k)]
  <2>1. \A k \in 0 .. n : g[k] = Value(g, k)
    <3> HIDE DEF Value
    <3> QED BY <1>2
  <2>2. \A k \in 0 .. n : h[k] = g[k]
    <3> HIDE DEF Value
    <3> QED BY <2>1
  <2>3. \A k \in 0 .. n + 1 : Value(h, k) = Value(g, k)
    <3> HIDE DEF h
    <3> QED BY <2>2
  <2>4. h = [k \in 0 .. n + 1 |-> Value(h, k)]
    <3>1. \A k \in 0 .. n + 1 : h[k] = Value(h, k)
      <4> HIDE DEF Value
      <4> QED BY <2>3
    <3>2. h = [k \in 0 .. n + 1 |-> h[k]]
      OBVIOUS
    <3> HIDE DEF h, Value
    <3> QED BY <3>1, <3>2
  <2> HIDE DEF h
  <2> QED BY <2>4
<1>3. Short = {}
  <2>1. SUFFICES ASSUME Short # {} PROVE FALSE
    OBVIOUS
  <2>2. PICK n \in Short : \A m \in Short : n <= m
    <3>1. Short \subseteq Nat
      OBVIOUS
    <3> HIDE DEF Short
    <3> QED BY <2>1, <3>1, Least
  <2> HIDE DEF Partly
  <2>3. n \in 0 .. L /\ n # 0
    BY <1>1
  <2>4. n - 1 \in Nat /\ n - 1 \in 0 .. L /\ (n - 1) + 1 = n /\ n - 1 < n
    BY <2>3
  <2>5. \E g : Partly(g, n - 1)
    BY <2>2, <2>4
  <2> QED BY <1>2, <2>2, <2>4, <2>5
<1>4. \E g : Partly(g, L)
  <2>1. L \in 0 .. L
    OBVIOUS
  <2> HIDE DEF Partly
  <2> QED BY <1>3, <2>1
<1>5. PICK g : Partly(g, L) /\ Decimal(t) = g[L]
  BY <1>4 DEF Decimal
<1>6. \A k \in 0 .. L : g[k] = Value(g, k)
  <2> HIDE DEF Value
  <2> QED BY <1>5
<1>7. g[0] = 0 /\ \A k \in 1 .. L : g[k] = g[k - 1] * 10 + t[k] - 48
  <2>1. 0 \in 0 .. L /\ \A k \in 1 .. L : k \in 0 .. L /\ k # 0
    OBVIOUS
  <2> QED BY <1>6, <2>1
<1>8. Sums(g, t)
  BY <1>7 DEF Sums
<1> QED BY <1>5, <1>8

LEMMA DecimalIsNatural ==
  ASSUME NEW t, Len(t) \in Nat, \A k \in 1 .. Len(t) : t[k] \in Digits
  PROVE  Decimal(t) \in Nat
<1> DEFINE L == Len(t)
<1>1. PICK g : Sums(g, t) /\ Decimal(t) = g[L]
  BY DecimalIsSum
<1> DEFINE Odd == {k \in 0 .. L : g[k] \notin Nat}
<1>2. Odd = {}
  <2>1. SUFFICES ASSUME Odd # {} PROVE FALSE
    OBVIOUS
  <2>2. PICK k \in Odd : \A m \in Odd : k <= m
    <3>1. Odd \subseteq Nat
      OBVIOUS
    <3> HIDE DEF Odd
    <3> QED BY <2>1, <3>1, Least
  <2>3. k \in 0 .. L /\ g[k] \notin Nat
    OBVIOUS
  <2>4. k # 0
    BY <1>1, <2>3 DEF Sums
  <2>5. k - 1 \in 0 .. L /\ k - 1 < k /\ k \in 1 .. L
    BY <2>3, <2>4
  <2>6. g[k - 1] \in Nat
    <3>1. k - 1 \notin Odd
      BY <2>2, <2>5
    <3> QED BY <2>5, <3>1
  <2>7. g[k] = g[k - 1] * 10 + t[k] - 48 /\ t[k] \in Nat /\ t[k] >= 48
    <3>1. g[k] = g[k - 1] * 10 + t[k] - 48
      BY <1>1, <2>5 DEF Sums
    <3>2. t[k] \in 48 .. 57
      BY <2>5 DEF Digits
    <3> QED BY <3>1, <3>2
  <2>8. ASSUME NEW a \in Nat, NEW b \in Nat, b >= 48 PROVE a * 10 + b - 48 \in Nat
    BY <2>8
  <2> HIDE DEF Odd
  <2> QED BY <2>3, <2>6, <2>7, <2>8
<1>3. L \in 0 .. L
  OBVIOUS
<1> QED BY <1>1, <1>2, <1>3

-----------------------------------------------------------------------------
(* At the end of the text the automaton of the numbers stops.              *)
LEMMA AutomatonStops == ASSUME NEW state PROVE Automaton(state, Eof) \in {"done", "error"}
  BY DEF Automaton, Eof, Minus, Dot, Digits, Exponents

LEMMA AutomatonStates ==
  ASSUME NEW state, NEW c
  PROVE  Automaton(state, c) \in NumberStates \cup {"done", "error"}
  BY DEF Automaton, NumberStates

(* What of the text the automaton has seen: digits only, after a sign at   *)
(* most, or something that makes the numeral a double.                     *)
Whole(s, i, j) == \A k \in i .. j - 1 : s[k] \in Digits \/ (k = i /\ s[k] = Minus)
Floating(s, i, j) == \E k \in i .. j - 1 : s[k] \in Exponents \cup {Dot}
WholeStates == {"init", "minus", "zero", "any1"}

Seen(s, i, j, state) ==
  /\ state = "init" <=> j = i
  /\ IF state \in WholeStates THEN Whole(s, i, j) ELSE Floating(s, i, j)

LEMMA SeenGoesOn ==
  ASSUME NEW s, NEW i \in Nat, NEW j \in Nat, i <= j,
         NEW state \in NumberStates, Seen(s, i, j, state),
         NEW then, then = Automaton(state, s[j]), then \notin {"done", "error"}
  PROVE  Seen(s, i, j + 1, then)
<1>1. then # "init" /\ j + 1 # i
  BY DEF Automaton
<1>2. \A k \in i .. (j + 1) - 1 : k \in i .. j - 1 \/ k = j
  OBVIOUS
<1>3. CASE then \in WholeStates
  <2>1. state \in WholeStates /\ (s[j] \in Digits \/ (s[j] = Minus /\ state = "init"))
    BY <1>3 DEF Automaton, WholeStates, Digits
  <2>2. Whole(s, i, j + 1)
    BY <1>2, <2>1 DEF Seen, Whole
  <2> QED BY <1>1, <1>3, <2>2 DEF Seen
<1>4. CASE then \notin WholeStates
  <2>1. state \notin WholeStates \/ s[j] \in Exponents \cup {Dot}
    BY <1>4 DEF Automaton, WholeStates, NumberStates
  <2>2. j \in i .. (j + 1) - 1 /\ \A k \in i .. j - 1 : k \in i .. (j + 1) - 1
    OBVIOUS
  <2>3. Floating(s, i, j + 1)
    BY <2>1, <2>2 DEF Seen, Floating
  <2> QED BY <1>1, <1>4, <2>3 DEF Seen
<1> QED BY <1>3, <1>4

(* A number token: an integer fits into the type that it is kept in.       *)
NumberFits(x, y) ==
  /\ x \in {"value_unsigned", "value_integer", "value_float"}
  /\ x = "value_unsigned" => y \in 0 .. Modulus - 1
  /\ x = "value_integer" => y \in - (Modulus \div 2) .. 0

LEMMA NumeralFits ==
  ASSUME NEW s \in Bytes, NEW i \in 1 .. Len(s), NEW j \in i + 1 .. Len(s) + 1,
         Whole(s, i, j) \/ Floating(s, i, j)
  PROVE  \E x, y : Numeral(SubSeq(s, i, j - 1)) = <<x, y>> /\ NumberFits(x, y)
<1> DEFINE n == j - 1 - i
           w == SubSeq(s, i, i + n)
           float == \E k \in DOMAIN w : w[k] \in Exponents \cup {Dot}
<1>1. Len(s) \in Nat /\ i \in Nat /\ n \in Nat /\ i + n <= Len(s) /\ i + n = j - 1
  BY ByteThere
<1> HIDE DEF n
<1>2. w \in Bytes /\ Len(w) = n + 1 /\ \A k \in 1 .. n + 1 : w[k] = s[i + k - 1]
  BY <1>1, BytesFrom
<1>3. DOMAIN w = 1 .. n + 1
  <2> HIDE DEF w
  <2> QED BY <1>2 DEF Bytes
<1>4. \A k \in i .. j - 1 : s[k] = w[k - i + 1] /\ k - i + 1 \in 1 .. n + 1
  <2>1. \A k \in i .. j - 1 : k - i + 1 \in 1 .. n + 1 /\ i + (k - i + 1) - 1 = k
    BY <1>1
  <2> HIDE DEF w
  <2> QED BY <1>2, <2>1
<1>5. Floating(s, i, j) => float
  <2> HIDE DEF w
  <2> QED BY <1>3, <1>4 DEF Floating
<1>6. ASSUME Whole(s, i, j), NEW k \in 1 .. n + 1
      PROVE  w[k] \in Digits \/ (k = 1 /\ w[k] = Minus)
  <2>1. i + k - 1 \in i .. j - 1 /\ (i + k - 1 = i => k = 1)
    BY <1>1
  <2> HIDE DEF w
  <2> QED BY <1>2, <1>6, <2>1 DEF Whole
<1>7. w = SubSeq(s, i, j - 1)
  BY <1>1
<1> HIDE DEF w
<1>8. Minus \notin Digits
  BY DEF Minus, Digits
<1>9. CASE ~float /\ w[1] # Minus /\ Decimal(w) < Modulus
  <2>1. \A k \in 1 .. Len(w) : w[k] \in Digits
    BY <1>2, <1>5, <1>6, <1>9
  <2>2. Decimal(w) \in Nat
    BY <1>1, <1>2, <2>1, DecimalIsNatural
  <2>3. Numeral(w) = <<"value_unsigned", Decimal(w)>>
    BY <1>9 DEF Numeral
  <2>4. Decimal(w) \in 0 .. Modulus - 1
    BY <1>9, <2>2, JsonTextAssumption
  <2> QED BY <1>7, <2>3, <2>4 DEF NumberFits
<1>10. CASE ~float /\ w[1] = Minus /\ Decimal(Tail(w)) <= Modulus \div 2
  <2>1. Len(Tail(w)) = n /\ \A k \in 1 .. n : Tail(w)[k] = w[k + 1]
    BY <1>1, <1>2 DEF Bytes
  <2>2. \A k \in 1 .. n : w[k + 1] \in Digits
    <3>1. \A k \in 1 .. n : k + 1 \in 1 .. n + 1 /\ k + 1 # 1
      BY <1>1
    <3> QED BY <1>5, <1>6, <1>10, <3>1
  <2>3. Decimal(Tail(w)) \in Nat
    BY <1>1, <2>1, <2>2, DecimalIsNatural
  <2>4. Numeral(w) = <<"value_integer", - Decimal(Tail(w))>>
    BY <1>10 DEF Numeral
  <2>5. - Decimal(Tail(w)) \in - (Modulus \div 2) .. 0
    BY <1>10, <2>3, JsonTextAssumption
  <2> QED BY <1>7, <2>4, <2>5 DEF NumberFits
<1>11. CASE Numeral(w) = <<"value_float", w>>
  BY <1>7, <1>11 DEF NumberFits
<1> QED BY <1>9, <1>10, <1>11 DEF Numeral

LEMMA NumberToken ==
  ASSUME NEW s \in Bytes, NEW i \in 1 .. Len(s), NEW j \in i + 1 .. Len(s) + 1,
         Whole(s, i, j) \/ Floating(s, i, j), NEW t, NEW e,
         t = Append(Numeral(SubSeq(s, i, j - 1)), e)
  PROVE  NumberFits(t[1], t[2]) /\ t[3] = e
<1>1. PICK x, y : Numeral(SubSeq(s, i, j - 1)) = <<x, y>> /\ NumberFits(x, y)
  BY NumeralFits
<1>2. t = Append(<<x, y>>, e)
  BY <1>1
<1>3. ASSUME NEW u, u = Append(<<x, y>>, e) PROVE u[1] = x /\ u[2] = y /\ u[3] = e
  BY <1>3
<1> QED BY <1>1, <1>2, <1>3

(* The loop of scan_number, as data: it is at a position, in a state.      *)
NumberScans == Nat \X NumberStates
NumberNext(s, p) == Automaton(p[2], Byte(s, p[1]))
NumberHalts(s) == {p \in NumberScans : NumberNext(s, p) \in {"done", "error"}}
NumberResult(s, i) ==
  [p \in NumberScans |-> IF NumberNext(s, p) = "error" THEN ParseError
                         ELSE Append(Numeral(SubSeq(s, i, p[1] - 1)), p[1])]
NumberStep(s) == [p \in NumberScans |-> <<p[1] + 1, NumberNext(s, p)>>]
NumberLeft(s) == [p \in NumberScans |-> IF p[1] <= Len(s) THEN Len(s) + 1 - p[1] ELSE 0]

LEMMA NumberStepGoesOn ==
  ASSUME NEW s \in Bytes, NEW p \in NumberScans \ NumberHalts(s)
  PROVE  /\ p[1] \in Nat /\ p[1] <= Len(s) /\ p[2] \in NumberStates
         /\ NumberNext(s, p) \in NumberStates
         /\ NumberStep(s)[p] = <<p[1] + 1, NumberNext(s, p)>>
         /\ NumberStep(s)[p] \in NumberScans
         /\ NumberLeft(s)[NumberStep(s)[p]] < NumberLeft(s)[p]
<1> DEFINE n == NumberNext(s, p)
           q == NumberStep(s)[p]
<1>1. p[1] \in Nat /\ p[2] \in NumberStates /\ Len(s) \in Nat
  BY DEF NumberScans, Bytes
<1>2. n \in NumberStates
  BY AutomatonStates DEF NumberHalts, NumberNext
<1>3. p[1] <= Len(s)
  <2>1. Byte(s, p[1]) # Eof
    BY AutomatonStops DEF NumberHalts, NumberNext
  <2> QED BY <1>1, <2>1 DEF Byte
<1>4. q = <<p[1] + 1, n>>
  BY DEF NumberStep
<1> HIDE DEF n, q
<1>5. q \in NumberScans /\ q[1] = p[1] + 1
  BY <1>1, <1>2, <1>4 DEF NumberScans
<1>6. /\ NumberLeft(s)[p] = Len(s) + 1 - p[1]
      /\ NumberLeft(s)[q] = IF p[1] + 1 <= Len(s) THEN Len(s) + 1 - (p[1] + 1) ELSE 0
  BY <1>3, <1>5 DEF NumberLeft
<1>7. NumberLeft(s)[q] < NumberLeft(s)[p]
  BY <1>1, <1>3, <1>6
<1> QED BY <1>1, <1>2, <1>3, <1>4, <1>5, <1>7 DEF n, q

LEMMA NumberLeftIsNatural ==
  ASSUME NEW s \in Bytes
  PROVE  Len(s) + 1 \in Nat /\ NumberLeft(s) \in [NumberScans -> 0 .. Len(s) + 1]
<1>1. Len(s) \in Nat /\ \A p \in NumberScans : p[1] \in Nat
  BY DEF Bytes, NumberScans
<1>2. ASSUME NEW p \in NumberScans
      PROVE  (IF p[1] <= Len(s) THEN Len(s) + 1 - p[1] ELSE 0) \in 0 .. Len(s) + 1
  BY <1>1
<1> QED BY <1>1, <1>2 DEF NumberLeft

LEMMA ScanNumberLoops ==
  ASSUME NEW s \in Bytes, NEW i
  PROVE  \E g : /\ Loops(g, NumberScans, NumberHalts(s), NumberResult(s, i), NumberStep(s))
                /\ ScanNumber(s, i) = g[<<i, "init">>]
<1> DEFINE D == NumberScans
           H == NumberHalts(s)
           R == NumberResult(s, i)
           S == NumberStep(s)
           Ending(g, at) == LET next == Automaton(at[2], Byte(s, at[1]))
                            IN CASE next = "error" -> ParseError
                                 [] next = "done" -> Append(Numeral(SubSeq(s, i, at[1] - 1)), at[1])
                                 [] OTHER -> g[<<at[1] + 1, next>>]
           Scanning(g) == g = [at \in Nat \X NumberStates |-> Ending(g, at)]
<1>1. ASSUME NEW g PROVE Scanning(g) <=> Loops(g, D, H, R, S)
  <2> DEFINE Next(p) == IF p \in H THEN R[p] ELSE g[S[p]]
  <2>1. \A p \in D : Ending(g, p) = Next(p)
    BY DEF NumberHalts, NumberResult, NumberStep, NumberNext
  <2>2. Loops(g, D, H, R, S) <=> g = [p \in D |-> Next(p)]
    BY DEF Loops
  <2>3. D = Nat \X NumberStates
    BY DEF NumberScans
  <2> HIDE DEF Next, Ending, D
  <2>4. [p \in D |-> Ending(g, p)] = [p \in D |-> Next(p)]
    BY <2>1
  <2> QED BY <2>2, <2>3, <2>4
<1>2. \E g : Scanning(g)
  <2>1. \A p \in D \ H : S[p] \in D /\ NumberLeft(s)[S[p]] < NumberLeft(s)[p]
    BY NumberStepGoesOn
  <2>2. Len(s) + 1 \in Nat /\ NumberLeft(s) \in [D -> 0 .. Len(s) + 1]
    BY NumberLeftIsNatural
  <2> HIDE DEF D, Scanning, H, R, S
  <2> QED BY <1>1, <2>1, <2>2, LoopEnds
<1>3. PICK g : Scanning(g) /\ ScanNumber(s, i) = g[<<i, "init">>]
  BY <1>2 DEF ScanNumber
<1> HIDE DEF Scanning
<1> QED BY <1>1, <1>3

(* Whatever holds in the middle of the loop and is kept by a step, holds   *)
(* where it ends.                                                          *)
LEMMA ScanNumberEnds ==
  ASSUME NEW s \in Bytes, NEW i, NEW I \in SUBSET NumberScans,
         \A p \in I \ NumberHalts(s) : NumberStep(s)[p] \in I,
         NEW g, Loops(g, NumberScans, NumberHalts(s), NumberResult(s, i), NumberStep(s)),
         NEW p \in I
  PROVE  \E q \in NumberHalts(s) : q \in I /\ g[p] = NumberResult(s, i)[q]
<1> DEFINE D == NumberScans
           H == NumberHalts(s)
           R == NumberResult(s, i)
           S == NumberStep(s)
           L == NumberLeft(s)
           N == Len(s) + 1
<1>1. Loops(g, D, H, R, S) /\ N \in Nat /\ L \in [D -> 0 .. N]
  BY NumberLeftIsNatural
<1>2. \A x \in D \ H : S[x] \in D /\ L[S[x]] < L[x]
  BY NumberStepGoesOn
<1>3. I \in SUBSET D /\ \A x \in I \ H : S[x] \in I
  OBVIOUS
<1> HIDE DEF D, H, R, S, L, N
<1>4. \A x \in I : \E q \in I \cap H : g[x] = R[q]
  BY <1>1, <1>2, <1>3, LoopKeeps
<1> QED BY <1>4 DEF H, R

(* A number token is one, and the next token starts in the text or after.  *)
LEMMA ScanNumberFits ==
  ASSUME NEW s \in Bytes, NEW i \in 1 .. Len(s), NEW t, t = ScanNumber(s, i)
  PROVE  \/ t = ParseError
         \/ NumberFits(t[1], t[2]) /\ t[3] \in Nat \ {0}
<1> DEFINE L == Len(s)
           D == NumberScans
           halts == NumberHalts(s)
           Then(p) == NumberNext(s, p)
           End(p) == Append(Numeral(SubSeq(s, i, p[1] - 1)), p[1])
           I == {p \in D : p[1] \in i .. L + 1 /\ Seen(s, i, p[1], p[2])}
<1>1. L \in Nat /\ i \in Nat
  BY ByteThere
<1>2. ASSUME NEW p \in I \ halts PROVE NumberStep(s)[p] \in I
  <2> DEFINE n == Then(p)
             q == NumberStep(s)[p]
  <2>1. /\ p[1] \in Nat /\ p[1] <= L /\ p[2] \in NumberStates
        /\ q = <<p[1] + 1, n>> /\ q \in D /\ n \notin {"done", "error"}
    BY NumberStepGoesOn DEF NumberHalts
  <2>2. Seen(s, i, p[1], p[2]) /\ i <= p[1]
    BY <1>1
  <2>3. n = Automaton(p[2], s[p[1]])
    BY <2>1 DEF Byte, NumberNext
  <2>4. Seen(s, i, p[1] + 1, n)
    <3> HIDE DEF n, q
    <3> QED BY <1>1, <2>1, <2>2, <2>3, SeenGoesOn
  <2> HIDE DEF n, q
  <2>5. q[1] = p[1] + 1 /\ q[2] = n
    BY <2>1
  <2>6. p[1] + 1 \in i .. L + 1
    BY <1>1, <2>1, <2>2
  <2>7. q \in I
    BY <2>1, <2>4, <2>5, <2>6
  <2> QED BY <2>7 DEF q
<1>3. PICK g : /\ Loops(g, NumberScans, NumberHalts(s), NumberResult(s, i), NumberStep(s))
               /\ t = g[<<i, "init">>]
  BY ScanNumberLoops
<1>4. <<i, "init">> \in I
  <2>1. Seen(s, i, i, "init") /\ "init" \in NumberStates
    BY <1>1 DEF NumberStates, Seen, WholeStates, Whole
  <2> QED BY <1>1, <2>1 DEF NumberScans
<1>5. PICK q \in I \cap halts : t = NumberResult(s, i)[q]
  <2> DEFINE x == <<i, "init">>
  <2>1. I \in SUBSET NumberScans /\ x \in I
    BY <1>4
  <2>2. \A p \in I \ NumberHalts(s) : NumberStep(s)[p] \in I
    BY <1>2
  <2> HIDE DEF I, x
  <2>3. \E q \in NumberHalts(s) : q \in I /\ g[x] = NumberResult(s, i)[q]
    BY <1>3, <2>1, <2>2, ScanNumberEnds
  <2> QED BY <1>3, <2>3 DEF x
<1> DEFINE j == q[1]
<1>6. /\ q \in D /\ j \in i .. L + 1 /\ Seen(s, i, j, q[2])
      /\ t = IF Then(q) = "error" THEN ParseError ELSE End(q)
      /\ Then(q) \in {"done", "error"}
  BY <1>5 DEF NumberResult, NumberHalts
<1>7. CASE Then(q) # "error"
  <2>1. q[2] # "init"
    BY <1>6, <1>7 DEF Automaton, NumberNext
  <2>2. j \in i + 1 .. L + 1 /\ j \in Nat \ {0} /\ (Whole(s, i, j) \/ Floating(s, i, j))
    BY <1>1, <1>6, <2>1 DEF Seen
  <2>3. t = Append(Numeral(SubSeq(s, i, j - 1)), j)
    BY <1>6, <1>7
  <2>4. NumberFits(t[1], t[2]) /\ t[3] = j
    <3> HIDE DEF j, I, halts
    <3>1. ASSUME NEW m \in i + 1 .. Len(s) + 1, Whole(s, i, m) \/ Floating(s, i, m),
                 t = Append(Numeral(SubSeq(s, i, m - 1)), m)
          PROVE  NumberFits(t[1], t[2]) /\ t[3] = m
      BY <3>1, NumberToken
    <3> QED BY <2>2, <2>3, <3>1
  <2> QED BY <2>2, <2>4
<1> QED BY <1>6, <1>7

-----------------------------------------------------------------------------
LEMMA MinIsLeast ==
  ASSUME NEW S, S \subseteq Nat, S # {}
  PROVE  Min(S) \in S /\ \A n \in S : Min(S) <= n
  BY Least DEF Min

(* What a token is that is no error: where the next one starts is known,   *)
(* the bytes of a string are such that the serializer can write them, and  *)
(* an integer fits into the type that it is kept in.                       *)
WellFormed(t) ==
  t[1] # "parse_error" =>
    /\ t[3] \in Nat \ {0}
    /\ t[1] = "value_string" => t[2] \in Bytes /\ Dumpable(t[2])
    /\ t[1] = "value_unsigned" => t[2] \in 0 .. Modulus - 1
    /\ t[1] = "value_integer" => t[2] \in - (Modulus \div 2) .. 0

LEMMA ScanGivesToken ==
  ASSUME NEW s \in Bytes, NEW i \in Nat \ {0}, NEW t, t = Scan(s, i)
  PROVE  WellFormed(t)
<1> DEFINE j == SkipBlanks(s, i)
           c == Byte(s, j)
           words == {w \in DOMAIN Literals : Slice(s, j, j + Len(Literals[w]) - 1) = Literals[w]}
<1>1. Len(s) \in Nat
  BY DEF Bytes
<1>2. j \in 1 .. Len(s) + 1
  <2> DEFINE S == {k \in i .. Len(s) + 1 : Byte(s, k) \notin Blanks} \cup {Len(s) + 1}
  <2>1. S \subseteq Nat /\ S # {} /\ S \subseteq 1 .. Len(s) + 1
    BY <1>1
  <2>2. j = Min(S)
    BY DEF SkipBlanks
  <2> HIDE DEF S, j
  <2> QED BY <2>1, <2>2, MinIsLeast
<1> HIDE DEF j
<1>3. ParseError = <<"parse_error", <<>>, 0>>
  BY DEF ParseError
<1>4. CASE t = ScanString(s, j + 1) /\ c # Eof
  <2>1. j + 1 \in 1 .. Len(s) + 1
    BY <1>1, <1>2, <1>4 DEF Byte
  <2>2. \/ t = ParseError
        \/ \E b \in Bytes, e \in Nat \ {0} : Decoded(b) /\ t = <<"value_string", b, e>>
    BY <1>4, <2>1, ScanStringFits
  <2>3. CASE t = ParseError
    BY <1>3, <2>3 DEF WellFormed
  <2>4. ASSUME NEW b \in Bytes, NEW e \in Nat \ {0}, Decoded(b), t = <<"value_string", b, e>>
        PROVE  WellFormed(t)
    BY <2>4, DecodedIsDumpable DEF WellFormed
  <2> QED BY <2>2, <2>3, <2>4
<1>5. CASE t = ScanNumber(s, j) /\ c # Eof
  <2>1. j \in 1 .. Len(s)
    BY <1>1, <1>2, <1>5 DEF Byte
  <2>2. t = ParseError \/ (NumberFits(t[1], t[2]) /\ t[3] \in Nat \ {0})
    BY <1>5, <2>1, ScanNumberFits
  <2>3. CASE t = ParseError
    BY <1>3, <2>3 DEF WellFormed
  <2>4. CASE NumberFits(t[1], t[2]) /\ t[3] \in Nat \ {0}
    BY <2>4 DEF WellFormed, NumberFits
  <2> QED BY <2>2, <2>3, <2>4
<1>6. CASE c \in DOMAIN Punctuation /\ t = <<Punctuation[c], <<>>, j + 1>>
  <2>1. Punctuation[c] \notin {"value_string", "value_unsigned", "value_integer"}
    BY <1>6 DEF Punctuation
  <2>2. t[1] = Punctuation[c] /\ t[3] = j + 1 /\ j + 1 \in Nat \ {0}
    BY <1>1, <1>2, <1>6
  <2> QED BY <2>1, <2>2 DEF WellFormed
<1>7. ASSUME NEW w \in DOMAIN Literals, t = <<w, <<>>, j + Len(Literals[w])>>
      PROVE  WellFormed(t)
  <2>1. w \notin {"value_string", "value_unsigned", "value_integer"} /\ Len(Literals[w]) \in Nat
    BY DEF Literals
  <2> QED BY <1>1, <1>2, <1>7, <2>1 DEF WellFormed
<1>8. CASE t = ParseError
  BY <1>3, <1>8 DEF WellFormed
<1>9. Quote # Eof /\ Eof \notin Digits \cup {Minus}
  BY DEF Quote, Eof, Digits, Minus
<1> QED BY <1>4, <1>5, <1>6, <1>7, <1>8, <1>9 DEF Scan, j

LEMMA FirstTokenIsToken == ASSUME NEW s \in Bytes PROVE WellFormed(FirstToken(s))
<1>1. WellFormed(ParseError)
  BY DEF WellFormed, ParseError
<1> QED BY <1>1, ScanGivesToken DEF FirstToken

(*-------------------------------------------------------------------------*)
(* The strings of the lexer, and those of JsonTokens.                      *)
(*-------------------------------------------------------------------------*)

(* What the lexer writes for an escape (Utf8) is the UTF-8 of the code     *)
(* point.                                                                  *)
LEMMA Utf8IsUtf8 ==
  ASSUME NEW c \in Nat, c < 1114112, c \notin Surrogates
  PROVE  Utf8(c) \in Bytes /\ IsUtf8(Utf8(c), c)
<1> DEFINE low(shift) == 128 + ((c \div shift) % 64)
<1>0. c \in Nat /\ c <= 1114111 /\ c \notin HighSurrogates \cup LowSurrogates
  BY SMT DEF Surrogates, HighSurrogates, LowSurrogates
<1>1. Utf8(c) \in Bytes
  BY <1>0, Utf8Decodes, SMT
<1>2. CASE c < 128
  <2>1. Utf8(c) = <<c>> /\ c \in 0 .. 127
    BY <1>2, SMT DEF Utf8
  <2> QED BY <1>1, <2>1, SMT DEF IsUtf8
<1>3. CASE c >= 128 /\ c <= 2047
  <2>1. Utf8(c) = <<192 + c \div 64, low(1)>>
    BY <1>3, SMT DEF Utf8
  <2>2. low(1) \in 128 .. 191 /\ c = (c \div 64) * 64 + (low(1) - 128) /\ c \div 64 \in Int
    BY <1>3, SMT
  <2> DEFINE a == c \div 64
             z == low(1)
  <2> HIDE DEF a, z
  <2>3. IsUtf8(<<192 + a, z>>, c)
    BY <1>3, <2>2, SMT DEF IsUtf8, a, z
  <2> QED BY <1>1, <2>1, <2>3, SMT DEF a, z
<1>4. CASE c >= 2048 /\ c <= 65535
  <2> DEFINE a == c \div 4096
             y == low(64)
             z == low(1)
  <2>1. Utf8(c) = <<224 + a, y, z>>
    BY <1>4, SMT DEF Utf8
  <2>2. y \in 128 .. 191 /\ z \in 128 .. 191 /\ a \in Int /\ c = (a * 64 + (y - 128)) * 64 + (z - 128)
    BY <1>4, SMT
  <2> HIDE DEF a, y, z
  <2>3. IsUtf8(<<224 + a, y, z>>, c)
    BY <1>4, <2>2, SMT DEF IsUtf8
  <2> QED BY <1>1, <2>1, <2>3, SMT
<1>5. CASE c >= 65536
  <2> DEFINE a == c \div 262144
             x == low(4096)
             y == low(64)
             z == low(1)
  <2>1. Utf8(c) = <<240 + a, x, y, z>>
    BY <1>5, SMT DEF Utf8
  <2>2. /\ x \in 128 .. 191 /\ y \in 128 .. 191 /\ z \in 128 .. 191 /\ a \in Int
        /\ c = ((a * 64 + (x - 128)) * 64 + (y - 128)) * 64 + (z - 128)
    BY <1>5, SMT
  <2> HIDE DEF a, x, y, z
  <2>3. IsUtf8(<<240 + a, x, y, z>>, c)
    BY <1>5, <2>2, SMT DEF IsUtf8
  <2> QED BY <1>1, <2>1, <2>3, SMT
<1> QED BY <1>2, <1>3, <1>4, <1>5, SMT

(* What a sequence of bytes holds.                                         *)
LEMMA ByteOfBytes ==
  ASSUME NEW b \in Bytes, NEW k \in 1 .. Len(b)
  PROVE  b[k] \in 0 .. 255
<1>1. ASSUME NEW S, NEW t \in Seq(S), NEW n \in 1 .. Len(t)
      PROVE  t[n] \in S
  BY <1>1
<1> QED BY <1>1 DEF Bytes

(* A code point has one UTF-8.                                             *)
LEMMA Utf8IsUnique ==
  ASSUME NEW c \in Nat, NEW b \in Bytes, IsUtf8(b, c), NEW d \in Bytes, IsUtf8(d, c)
  PROVE  d = b
<1>1. Len(b) = Len(d) /\ Len(b) \in {1, 2, 3, 4}
  BY SMT DEF IsUtf8
<1>2. ASSUME NEW k \in 1 .. Len(b)
      PROVE  /\ b[k] \in 0 .. 255 /\ d[k] \in 0 .. 255
             /\ k # 1 => b[k] \in 128 .. 191 /\ d[k] \in 128 .. 191
  <2>1. b[k] \in 0 .. 255 /\ d[k] \in 0 .. 255
    <3>1. k \in 1 .. Len(d)
      BY <1>1
    <3> QED BY <3>1, ByteOfBytes
  <2>2. k # 1 => k \in 2 .. Len(b) /\ k \in 2 .. Len(d)
    BY <1>1, SMT
  <2> QED BY <2>1, <2>2, SMT DEF IsUtf8
<1>3. ASSUME Len(b) = 1 PROVE \A k \in 1 .. Len(b) : b[k] = d[k]
  <2>1. b[1] = d[1]
    BY <1>1, <1>3, SMT DEF IsUtf8
  <2> QED BY <1>3, <2>1, SMT
<1>4. ASSUME Len(b) = 2 PROVE \A k \in 1 .. Len(b) : b[k] = d[k]
  <2> DEFINE p == b[1]
             q == b[2]
             v == d[1]
             w == d[2]
  <2>1. 1 \in 1 .. Len(b) /\ 2 \in 1 .. Len(b)
    BY <1>4
  <2>2. /\ p \in 0 .. 255 /\ v \in 0 .. 255
        /\ q \in 128 .. 191 /\ w \in 128 .. 191
    BY <1>2, <2>1
  <2>3. c = (p - 192) * 64 + (q - 128) /\ c = (v - 192) * 64 + (w - 128)
    BY <1>1, <1>4, SMT DEF IsUtf8
  <2>4. p = v /\ q = w
    <3> HIDE DEF p, q, v, w
    <3> QED BY <2>2, <2>3
  <2> QED BY <1>4, <2>4
<1>5. ASSUME Len(b) = 3 PROVE \A k \in 1 .. Len(b) : b[k] = d[k]
  <2> DEFINE p == b[1]
             q == b[2]
             r == b[3]
             v == d[1]
             w == d[2]
             x == d[3]
  <2>1. 1 \in 1 .. Len(b) /\ 2 \in 1 .. Len(b) /\ 3 \in 1 .. Len(b)
    BY <1>5
  <2>2. /\ p \in 0 .. 255 /\ v \in 0 .. 255
        /\ q \in 128 .. 191 /\ w \in 128 .. 191
        /\ r \in 128 .. 191 /\ x \in 128 .. 191
    BY <1>2, <2>1
  <2>3. /\ c = ((p - 224) * 64 + (q - 128)) * 64 + (r - 128)
        /\ c = ((v - 224) * 64 + (w - 128)) * 64 + (x - 128)
    BY <1>1, <1>5, SMT DEF IsUtf8
  <2>4. p = v /\ q = w /\ r = x
    <3> HIDE DEF p, q, r, v, w, x
    <3> QED BY <2>2, <2>3
  <2> QED BY <1>5, <2>4
<1>6. ASSUME Len(b) = 4 PROVE \A k \in 1 .. Len(b) : b[k] = d[k]
  <2> DEFINE p == b[1]
             q == b[2]
             r == b[3]
             t == b[4]
             v == d[1]
             w == d[2]
             x == d[3]
             y == d[4]
  <2>1. 1 \in 1 .. Len(b) /\ 2 \in 1 .. Len(b) /\ 3 \in 1 .. Len(b) /\ 4 \in 1 .. Len(b)
    BY <1>6
  <2>2. /\ p \in 0 .. 255 /\ v \in 0 .. 255
        /\ q \in 128 .. 191 /\ w \in 128 .. 191
        /\ r \in 128 .. 191 /\ x \in 128 .. 191
        /\ t \in 128 .. 191 /\ y \in 128 .. 191
    BY <1>2, <2>1
  <2>3. /\ c = (((p - 240) * 64 + (q - 128)) * 64 + (r - 128)) * 64 + (t - 128)
        /\ c = (((v - 240) * 64 + (w - 128)) * 64 + (x - 128)) * 64 + (y - 128)
    BY <1>1, <1>6, SMT DEF IsUtf8
  <2>4. p = v /\ q = w /\ r = x /\ t = y
    <3> HIDE DEF p, q, r, t, v, w, x, y
    <3> QED BY <2>2, <2>3
  <2> QED BY <1>6, <2>4
<1>7. \A k \in 1 .. Len(b) : b[k] = d[k]
  BY <1>1, <1>3, <1>4, <1>5, <1>6, SMT
<1> QED BY <1>1, <1>7, SeqEqual, SMT DEF Bytes

(* The digits of a code unit, by the lexer and by the RFC.                 *)
LEMMA HexIsHex ==
  ASSUME NEW b \in Int, NEW n \in 0 .. 15
  PROVE  IsHex(b, n) <=> Hex(b) = n
<1>1. /\ b \in 48 .. 57 => Hex(b) = b - 48
      /\ b \in 65 .. 70 => Hex(b) = b - 55
      /\ b \in 97 .. 102 => Hex(b) = b - 87
      /\ b \notin (48 .. 57) \cup (65 .. 70) \cup (97 .. 102) => Hex(b) = -1
  BY SMT DEF Hex, Digits
<1> QED BY <1>1, SMT DEF IsHex

(* What the lexer looks at, which may be the end of the text.              *)
LEMMA ByteIsInt ==
  ASSUME NEW s \in Bytes, NEW i \in Nat \ {0}
  PROVE  Byte(s, i) \in Int
<1>1. CASE i <= Len(s)
  <2>1. i \in 1 .. Len(s)
    BY <1>1 DEF Bytes
  <2>2. s[i] \in 0 .. 255
    BY <2>1, ByteThere
  <2>3. Byte(s, i) = s[i]
    BY <1>1 DEF Byte
  <2> QED BY <2>2, <2>3
<1>2. CASE ~(i <= Len(s))
  BY <1>2 DEF Byte, Eof
<1> QED BY <1>1, <1>2

(* get_codepoint reads four digits as the RFC does, and fails on anything  *)
(* else.                                                                   *)
LEMMA CodepointIsUnit ==
  ASSUME NEW s \in Bytes, NEW i \in Nat \ {0}, Byte(s, i) = 92, Byte(s, i + 1) = 117, NEW n \in Nat
  PROVE  IsUnit(s, i, n) <=> Codepoint(s, i + 2) = n
<1> DEFINE hex == [k \in 0 .. 3 |-> Hex(Byte(s, (i + 2) + k))]
           Value(a, b, c, d) == ((a * 16 + b) * 16 + c) * 16 + d
<1>1. \A k \in 0 .. 3 : /\ hex[k] = Hex(Byte(s, i + 2 + k)) /\ hex[k] \in -1 .. 15
                        /\ \A m \in 0 .. 15 : IsHex(Byte(s, i + 2 + k), m) <=> hex[k] = m
  <2>1. ASSUME NEW k \in 0 .. 3
        PROVE  /\ hex[k] = Hex(Byte(s, i + 2 + k)) /\ hex[k] \in -1 .. 15
               /\ \A m \in 0 .. 15 : IsHex(Byte(s, i + 2 + k), m) <=> hex[k] = m
    <3>1. Byte(s, i + 2 + k) \in Int
      <4>1. i + 2 + k \in Nat \ {0}
        OBVIOUS
      <4> QED BY <4>1, ByteIsInt
    <3>2. \A c : Hex(c) \in -1 .. 15
      BY DEF Hex, Digits
    <3> QED BY <3>1, <3>2, HexIsHex
  <2> QED BY <2>1
<1>2. Codepoint(s, i + 2) = IF \E k \in 0 .. 3 : hex[k] = -1 THEN -1
                            ELSE Value(hex[0], hex[1], hex[2], hex[3])
  BY DEF Codepoint
<1> HIDE DEF hex
<1>3. ASSUME IsUnit(s, i, n) PROVE Codepoint(s, i + 2) = n
  <2>1. PICK d \in [1 .. 4 -> 0 .. 15] :
          /\ \A k \in 1 .. 4 : IsHex(Byte(s, i + 1 + k), d[k])
          /\ n = Value(d[1], d[2], d[3], d[4])
    BY <1>3 DEF IsUnit
  <2>2. ASSUME NEW k \in 0 .. 3 PROVE hex[k] = d[k + 1] /\ hex[k] # -1
    <3>1. k + 1 \in 1 .. 4 /\ i + 1 + (k + 1) = i + 2 + k
      OBVIOUS
    <3>2. d[k + 1] \in 0 .. 15
      BY <3>1
    <3>3. IsHex(Byte(s, i + 2 + k), d[k + 1])
      BY <2>1, <3>1
    <3>4. hex[k] = d[k + 1]
      BY <1>1, <3>2, <3>3
    <3> QED BY <3>2, <3>4
  <2>3. hex[0] = d[1] /\ hex[1] = d[2] /\ hex[2] = d[3] /\ hex[3] = d[4]
    BY <2>2
  <2> HIDE DEF Value
  <2> QED BY <1>2, <2>1, <2>2, <2>3
<1>4. ASSUME Codepoint(s, i + 2) = n PROVE IsUnit(s, i, n)
  <2> DEFINE d == [k \in 1 .. 4 |-> hex[k - 1]]
  <2>1. (\A k \in 0 .. 3 : hex[k] # -1) /\ n = Value(hex[0], hex[1], hex[2], hex[3])
    BY <1>2, <1>4
  <2>2. ASSUME NEW k \in 1 .. 4 PROVE d[k] \in 0 .. 15 /\ IsHex(Byte(s, i + 1 + k), d[k])
    <3>1. k - 1 \in 0 .. 3 /\ i + 2 + (k - 1) = i + 1 + k /\ d[k] = hex[k - 1]
      OBVIOUS
    <3>2. d[k] \in 0 .. 15
      <4>1. hex[k - 1] \in -1 .. 15 /\ hex[k - 1] # -1
        BY <1>1, <2>1, <3>1
      <4> QED BY <3>1, <4>1
    <3> HIDE DEF d
    <3>3. IsHex(Byte(s, i + 2 + (k - 1)), d[k])
      BY <1>1, <3>1, <3>2
    <3> QED BY <3>1, <3>2, <3>3
  <2>3. d \in [1 .. 4 -> 0 .. 15] /\ d[1] = hex[0] /\ d[2] = hex[1] /\ d[3] = hex[2] /\ d[4] = hex[3]
    <3>1. \A k \in 1 .. 4 : d[k] \in 0 .. 15
      BY <2>2
    <3> QED BY <3>1
  <2> HIDE DEF d
  <2>4. n = ((d[1] * 16 + d[2]) * 16 + d[3]) * 16 + d[4]
    BY <2>1, <2>3
  <2> QED BY <2>2, <2>3, <2>4 DEF IsUnit
<1> QED BY <1>3, <1>4

(* What the ranges of the lexer let through is the UTF-8 of one code point *)
(* that is no control character, and nothing else is.                      *)
LEMMA LedIsUtf8 ==
  ASSUME NEW w \in Bytes, w # <<>>, Led(w, w[1], Following(w[1]))
  PROVE  \E c \in Nat : 32 <= c /\ IsUtf8(w, c) /\ (Len(w) = 1 => c = w[1])
<1> DEFINE p == w[1]
           n == Following(p)
           q == w[2]
           r == w[3]
           t == w[4]
<1>1. n # -1 /\ Len(w) = n + 1
  BY DEF Led
<1>2. CASE n = 0
  <2>1. Len(w) = 1 /\ p \in 32 .. 127
    <3>1. Len(w) = 1
      BY <1>1, <1>2
    <3>2. p \in 32 .. 127
      <4> HIDE DEF p
      <4> QED BY <1>1, <1>2, FollowingCases
    <3> QED BY <3>1, <3>2
  <2>2. IsUtf8(w, w[1]) /\ w[1] \in Nat /\ 32 <= w[1]
    <3>1. p \in Nat /\ 32 <= p /\ p < 128 /\ p \notin Surrogates
      <4> HIDE DEF p
      <4> QED BY <2>1, SMT DEF Surrogates, HighSurrogates, LowSurrogates
    <3>2. Len(w) = 1 /\ \A k \in 2 .. Len(w) : FALSE
      BY <2>1
    <3> QED BY <3>1, <3>2, SMT DEF IsUtf8
  <2> QED BY <2>2
<1>3. CASE n = 1
  <2>1. Len(w) = 2 /\ p \in 194 .. 223 /\ q \in 128 .. 191
    BY <1>1, <1>3, FollowingCases, SecondCases DEF Led
  <2> DEFINE c == (p - 192) * 64 + (q - 128)
  <2>2. c \in Nat /\ 128 <= c /\ c < 2048 /\ c \notin Surrogates
    <3> HIDE DEF p, q
    <3> QED BY <2>1, SMT DEF Surrogates, HighSurrogates, LowSurrogates
  <2>3. \A k \in 2 .. Len(w) : w[k] \in 128 .. 191
    BY <2>1
  <2> HIDE DEF c
  <2>4. c = (w[1] - 192) * 64 + (w[2] - 128)
    BY DEF c
  <2>5. IsUtf8(w, c)
    BY <2>1, <2>2, <2>3, <2>4, SMT DEF IsUtf8
  <2> QED BY <2>1, <2>2, <2>5, SMT
<1>4. CASE n = 2
  <2>1. Len(w) = 3 /\ p \in 224 .. 239 /\ w[2] \in Second(p) /\ r \in 128 .. 191
    <3>1. 2 \in 2 .. n
      BY <1>4
    <3> HIDE DEF n
    <3> QED BY <1>1, <1>4, <3>1, FollowingCases DEF Led, Tails, n
  <2>2. q \in 128 .. 191 /\ (p = 224 => q >= 160) /\ (p = 237 => q <= 159)
    BY <2>1, SecondCases
  <2> DEFINE c == ((p - 224) * 64 + (q - 128)) * 64 + (r - 128)
  <2>3. c \in Nat /\ 2048 <= c /\ c < 65536 /\ c \notin Surrogates
    <3> HIDE DEF p, q, r
    <3>1. c \in Nat /\ c < 65536
      BY <2>1, <2>2, SMT
    <3>2. 2048 <= c
      BY <2>1, <2>2, SMT
    <3>3. p <= 236 \/ p = 237 \/ p >= 238
      BY <2>1, SMT
    <3>4. c < 55296 \/ c > 57343
      <4>1. CASE p <= 236
        BY <2>1, <2>2, <4>1, SMT
      <4>2. CASE p = 237
        BY <2>1, <2>2, <4>2, SMT
      <4>3. CASE p >= 238
        BY <2>1, <2>2, <4>3, SMT
      <4> QED BY <3>3, <4>1, <4>2, <4>3
    <3> HIDE DEF c
    <3> QED BY <3>1, <3>2, <3>4, SMT DEF Surrogates, HighSurrogates, LowSurrogates
  <2>4. \A k \in 2 .. Len(w) : w[k] \in 128 .. 191
    <3>1. w[2] \in Tails /\ w[3] \in Tails
      BY <2>1, <2>2 DEF Tails
    <3>2. ASSUME NEW k \in 2 .. 3 PROVE w[k] \in Tails
      <4>1. k = 2 \/ k = 3
        OBVIOUS
      <4> QED BY <3>1, <4>1
    <3>3. Len(w) = 3
      BY <2>1
    <3>4. \A k \in 2 .. Len(w) : w[k] \in Tails
      BY <3>2, <3>3
    <3> QED BY <3>4 DEF Tails
  <2> HIDE DEF c
  <2>5. c = ((w[1] - 224) * 64 + (w[2] - 128)) * 64 + (w[3] - 128)
    BY DEF c
  <2>6. IsUtf8(w, c)
    BY <2>1, <2>3, <2>4, <2>5, SMT DEF IsUtf8
  <2> QED BY <2>1, <2>3, <2>6, SMT
<1>5. CASE n = 3
  <2>1. Len(w) = 4 /\ p \in 240 .. 244 /\ w[2] \in Second(p) /\ r \in 128 .. 191 /\ t \in 128 .. 191
    <3>1. 2 \in 2 .. n /\ 3 \in 2 .. n
      BY <1>5
    <3> HIDE DEF n
    <3> QED BY <1>1, <1>5, <3>1, FollowingCases DEF Led, Tails, n
  <2>2. q \in 128 .. 191 /\ (p = 240 => q >= 144) /\ (p = 244 => q <= 143)
    BY <2>1, SecondCases
  <2> DEFINE c == (((p - 240) * 64 + (q - 128)) * 64 + (r - 128)) * 64 + (t - 128)
  <2>3. c \in Nat /\ 65536 <= c /\ c < 1114112 /\ c \notin Surrogates
    <3> HIDE DEF p, q, r, t
    <3>1. c \in Nat
      BY <2>1, <2>2, SMT
    <3>2. 65536 <= c
      BY <2>1, <2>2, SMT
    <3>3. c < 1114112
      BY <2>1, <2>2, SMT
    <3> HIDE DEF c
    <3> QED BY <3>1, <3>2, <3>3, SMT DEF Surrogates, HighSurrogates, LowSurrogates
  <2>4. \A k \in 2 .. Len(w) : w[k] \in 128 .. 191
    <3>1. w[2] \in Tails /\ w[3] \in Tails /\ w[4] \in Tails
      BY <2>1, <2>2 DEF Tails
    <3>2. ASSUME NEW k \in 2 .. 4 PROVE w[k] \in Tails
      <4>1. k = 2 \/ k = 3 \/ k = 4
        OBVIOUS
      <4> QED BY <3>1, <4>1
    <3>3. Len(w) = 4
      BY <2>1
    <3>4. \A k \in 2 .. Len(w) : w[k] \in Tails
      BY <3>2, <3>3
    <3> QED BY <3>4 DEF Tails
  <2> HIDE DEF c
  <2>5. c = (((w[1] - 240) * 64 + (w[2] - 128)) * 64 + (w[3] - 128)) * 64 + (w[4] - 128)
    BY DEF c
  <2>6. IsUtf8(w, c)
    BY <2>1, <2>3, <2>4, <2>5, SMT DEF IsUtf8
  <2> QED BY <2>1, <2>3, <2>6, SMT
<1> QED BY <1>1, <1>2, <1>3, <1>4, <1>5, FollowingCases, SMT

(* All UTF-8 of no control character, quote or backslash is let through.   *)
LEMMA Utf8IsLed ==
  ASSUME NEW w \in Bytes, NEW c \in Nat, 32 <= c, IsUtf8(w, c)
  PROVE  Led(w, w[1], Following(w[1])) /\ (c < 128 => w = <<c>>)
<1> DEFINE p == w[1]
           q == w[2]
           r == w[3]
           t == w[4]
<1>1. /\ Len(w) \in {1, 2, 3, 4}
      /\ \A k \in 2 .. Len(w) : w[k] \in 128 .. 191
  BY SMT DEF IsUtf8
<1>2. p \in 0 .. 255
  <2>1. 1 \in 1 .. Len(w)
    BY <1>1
  <2> QED BY <2>1, ByteOfBytes
<1>3. CASE Len(w) = 1
  <2>1. Len(w) = 1 /\ c = w[1] /\ c \in 32 .. 127
    <3>1. Len(w) = 1
      BY <1>1, <1>3
    <3>2. c = w[1] /\ c < 128
      BY <3>1, SMT DEF IsUtf8
    <3> QED BY <3>1, <3>2
  <2>2. Following(w[1]) = 0
    BY <2>1 DEF Following
  <2>3. w = <<c>>
    BY <2>1 DEF Bytes
  <2> QED BY <2>1, <2>2, <2>3 DEF Led
<1>4. CASE Len(w) = 2
  <2>1. /\ Len(w) = 2 /\ q \in 128 .. 191 /\ 128 <= c /\ c < 2048
        /\ c = (p - 192) * 64 + (q - 128)
    <3>1. Len(w) = 2
      BY <1>1, <1>4
    <3>2. q \in 128 .. 191
      BY <1>1, <3>1
    <3>3. 128 <= c /\ c < 2048 /\ c = (p - 192) * 64 + (q - 128)
      BY <3>1, SMT DEF IsUtf8
    <3> HIDE DEF p, q
    <3> QED BY <3>1, <3>2, <3>3, SMT
  <2> HIDE DEF p, q
  <2>2. p \in 194 .. 223
    BY <1>2, <2>1
  <2>3. Following(p) = 1 /\ Second(p) = Tails
    BY <2>2 DEF Following, Second
  <2> QED BY <2>1, <2>3, SMT DEF Led, Tails, p, q
<1>5. CASE Len(w) = 3
  <2>1. /\ Len(w) = 3 /\ q \in 128 .. 191 /\ r \in 128 .. 191 /\ 2048 <= c /\ c < 65536
        /\ c = ((p - 224) * 64 + (q - 128)) * 64 + (r - 128)
    <3>1. Len(w) = 3
      BY <1>1, <1>5
    <3>2. q \in 128 .. 191 /\ r \in 128 .. 191
      BY <1>1, <3>1
    <3>3. 2048 <= c /\ c < 65536 /\ c = ((p - 224) * 64 + (q - 128)) * 64 + (r - 128)
      BY <3>1, SMT DEF IsUtf8
    <3> HIDE DEF p, q, r
    <3> QED BY <3>1, <3>2, <3>3, SMT
  <2>2. c \notin Surrogates
    BY SMT DEF IsUtf8
  <2> HIDE DEF p, q, r
  <2>3. p \in 224 .. 239 /\ (p = 224 => q >= 160) /\ (p = 237 => q <= 159)
    <3>1. p \in Int
      BY <1>2, SMT
    <3>2. c < 55296 \/ c > 57343
      BY <2>1, <2>2, SMTT(30) DEF Surrogates, HighSurrogates, LowSurrogates
    <3>3. p \in 224 .. 239
      BY <2>1, <3>1, SMT
    <3>4. p = 224 => q >= 160
      BY <2>1, SMT
    <3>5. p = 237 => q <= 159
      BY <2>1, <3>2, SMT
    <3> QED BY <3>3, <3>4, <3>5
  <2>4. Following(p) = 2 /\ q \in Second(p)
    BY <2>1, <2>3 DEF Following, Second, Tails
  <2> QED BY <2>1, <2>4, SMT DEF Led, Tails, p, q, r
<1>6. CASE Len(w) = 4
  <2>1. /\ Len(w) = 4 /\ q \in 128 .. 191 /\ r \in 128 .. 191 /\ t \in 128 .. 191
        /\ 65536 <= c /\ c < 1114112
        /\ c = (((p - 240) * 64 + (q - 128)) * 64 + (r - 128)) * 64 + (t - 128)
    <3>1. Len(w) = 4
      BY <1>1, <1>6
    <3>2. q \in 128 .. 191 /\ r \in 128 .. 191 /\ t \in 128 .. 191
      BY <1>1, <3>1
    <3>3. 65536 <= c /\ c < 1114112 /\ c = (((p - 240) * 64 + (q - 128)) * 64 + (r - 128)) * 64 + (t - 128)
      BY <3>1, SMT DEF IsUtf8
    <3> HIDE DEF p, q, r, t
    <3> QED BY <3>1, <3>2, <3>3, SMT
  <2> HIDE DEF p, q, r, t
  <2>2. p \in 240 .. 244 /\ (p = 240 => q >= 144) /\ (p = 244 => q <= 143)
    BY <1>2, <2>1, SMT
  <2>3. Following(p) = 3 /\ q \in Second(p)
    BY <2>1, <2>2, SMT DEF Following, Second, Tails
  <2> QED BY <2>1, <2>3, SMT DEF Led, Tails, p, q, r, t
<1> QED BY <1>1, <1>3, <1>4, <1>5, <1>6

(* The first disjunct of IsCharacter, and Character.                       *)
LEMMA CharacterIsCharacter ==
  ASSUME NEW s \in Bytes, NEW i \in 1 .. Len(s), s[i] \notin {34, 92},
         Character(s, i) # IllFormed
  PROVE  \E c \in Nat : /\ IsCharacter(s, i, Character(s, i)[2], c)
                        /\ IsUtf8(Character(s, i)[1], c)
<1>1. PICK n \in 0 .. 3, w \in Bytes :
        /\ Character(s, i) = <<w, i + n + 1>> /\ w = SubSeq(s, i, i + n) /\ i + n <= Len(s)
        /\ n = Following(s[i]) /\ w[1] = s[i] /\ Led(w, s[i], n)
  BY CharacterIsLed
<1>2. Len(w) = n + 1 /\ w # <<>>
  <2>1. Len(w) = n + 1
    <3>1. Led(w, s[i], n)
      BY <1>1
    <3> QED BY <3>1 DEF Led
  <2>2. w = <<>> => Len(w) = 0
    OBVIOUS
  <2> QED BY <2>1, <2>2
<1>3. PICK c \in Nat : 32 <= c /\ IsUtf8(w, c) /\ (Len(w) = 1 => c = w[1])
  BY <1>1, <1>2, LedIsUtf8
<1>4. c \notin {34, 92}
  <2>1. CASE Len(w) = 1
    BY <1>1, <1>3, <2>1
  <2>2. CASE Len(w) # 1
    <3>1. 128 <= c
      BY <1>3, <2>2, SMT DEF IsUtf8
    <3> QED BY <3>1
  <2> QED BY <2>1, <2>2
<1> DEFINE j == i + n + 1
<1>5. i < j /\ j <= Len(s) + 1 /\ j - 1 = i + n
  <2>1. i \in Nat /\ Len(s) \in Nat
    BY ByteThere
  <2>2. i + n <= Len(s)
    BY <1>1
  <2> QED BY <2>1, <2>2
<1>6. Character(s, i)[1] = w /\ Character(s, i)[2] = j
  <2>1. \A x, y : <<x, y>>[1] = x /\ <<x, y>>[2] = y
    OBVIOUS
  <2>2. Character(s, i) = <<w, j>>
    BY <1>1
  <2> QED BY <2>1, <2>2
<1> HIDE DEF j
<1>7. IsUtf8(SubSeq(s, i, j - 1), c)
  BY <1>1, <1>3, <1>5
<1>8. IsCharacter(s, i, j, c)
  BY <1>3, <1>4, <1>5, <1>7 DEF IsCharacter, IsUnescaped
<1> QED BY <1>3, <1>6, <1>8

(* And scan_string takes every such character, and all of it.              *)
LEMMA UnescapedIsCharacter ==
  ASSUME NEW s \in Bytes, NEW i \in Nat \ {0}, NEW j \in Nat, NEW c \in Nat,
         IsUnescaped(s, i, j, c)
  PROVE  i <= Len(s) /\ s[i] \notin {34, 92} /\ Character(s, i) = <<SubSeq(s, i, j - 1), j>>
<1> DEFINE n == j - i - 1
           w == SubSeq(s, i, j - 1)
<1>0. i < j /\ j <= Len(s) + 1 /\ 32 <= c /\ c \notin {34, 92} /\ IsUtf8(w, c)
  BY DEF IsUnescaped
<1>1. /\ n \in Nat /\ i + n = j - 1 /\ i + n <= Len(s) /\ i \in 1 .. Len(s) /\ j = i + n + 1
      /\ Len(s) \in Nat
  <2> HIDE DEF w
  <2> QED BY <1>0 DEF Bytes
<1>2. w \in Bytes /\ Len(w) = n + 1 /\ \A k \in 1 .. n + 1 : w[k] = s[i + k - 1]
  <2> HIDE DEF n
  <2>1. w = SubSeq(s, i, i + n)
    BY <1>1
  <2> HIDE DEF w
  <2> QED BY <1>1, <2>1, BytesFrom
<1>3. Led(w, w[1], Following(w[1])) /\ (c < 128 => w = <<c>>)
  <2> HIDE DEF w
  <2> QED BY <1>0, <1>2, Utf8IsLed
<1> HIDE DEF n, w
<1>4. w[1] = s[i]
  <2>1. 1 \in 1 .. n + 1 /\ i + 1 - 1 = i
    BY <1>1
  <2> QED BY <1>2, <2>1
<1>5. Following(s[i]) = n /\ n # -1
  <2>1. Following(w[1]) # -1 /\ Len(w) = Following(w[1]) + 1
    BY <1>3 DEF Led
  <2>2. Following(w[1]) \in 0 .. 3
    BY <2>1, FollowingCases
  <2>3. Following(w[1]) = n
    <3> DEFINE f == Following(w[1])
    <3>1. f \in 0 .. 3 /\ f + 1 = n + 1
      BY <1>2, <2>1, <2>2
    <3> HIDE DEF f
    <3>2. f = n
      BY <1>1, <3>1
    <3> QED BY <3>2 DEF f
  <2> QED BY <1>4, <2>1, <2>3
<1>6. \A k \in 1 .. n : Byte(s, i + k) = w[k + 1]
  <2>1. ASSUME NEW k \in 1 .. n PROVE Byte(s, i + k) = w[k + 1]
    <3>1. k + 1 \in 1 .. n + 1 /\ i + (k + 1) - 1 = i + k /\ i + k <= Len(s)
      BY <1>1
    <3>2. Byte(s, i + k) = s[i + k]
      BY <3>1 DEF Byte
    <3> QED BY <1>2, <3>1, <3>2
  <2> QED BY <2>1
<1>7. Character(s, i) = <<w, j>>
  <2>1. n > 0 => Byte(s, i + 1) \in Second(s[i])
    <3>1. n > 0 => w[2] \in Second(s[i])
      BY <1>3, <1>4, <1>5 DEF Led
    <3>2. n > 0 => 1 \in 1 .. n /\ 1 + 1 = 2
      BY <1>1
    <3> QED BY <1>6, <3>1, <3>2
  <2>2. \A k \in 2 .. n : Byte(s, i + k) \in Tails
    <3>1. \A k \in 2 .. n : k \in 1 .. n
      BY <1>1
    <3> QED BY <1>3, <1>4, <1>5, <1>6, <3>1 DEF Led
  <2>3. Character(s, i) = <<SubSeq(s, i, i + n), i + n + 1>>
    BY <1>5, <2>1, <2>2 DEF Character
  <2> QED BY <1>1, <2>3 DEF w
<1>8. s[i] \notin {34, 92}
  <2>1. CASE c < 128
    <3>1. w[1] = c
      BY <1>3, <2>1
    <3> QED BY <1>0, <1>4, <3>1
  <2>2. CASE ~(c < 128)
    <3>1. Len(w) # 1
      BY <1>0, <2>2, SMT DEF IsUtf8
    <3>2. Following(s[i]) # 0
      BY <1>1, <1>2, <1>5, <3>1
    <3>3. Following(34) = 0 /\ Following(92) = 0
      BY DEF Following
    <3> QED BY <3>2, <3>3
  <2> QED BY <2>1, <2>2
<1> QED BY <1>1, <1>7, <1>8 DEF w

(* The escapes of code units.                                              *)
LEMMA EscapeIsCharacter ==
  ASSUME NEW s \in Bytes, NEW i \in Nat \ {0}, Byte(s, i) = 92, Byte(s, i + 1) = 117,
         UnicodeEscape(s, i + 2) # IllFormed
  PROVE  \E c \in Nat : /\ IsCharacter(s, i, UnicodeEscape(s, i + 2)[2], c)
                        /\ UnicodeEscape(s, i + 2)[1] \in Bytes
                        /\ IsUtf8(UnicodeEscape(s, i + 2)[1], c)
<1> DEFINE one == Codepoint(s, i + 2)
           two == Codepoint(s, i + 8)
           code == one * 1024 + two - 56613888
<1>0. /\ i + 2 + 4 = i + 6 /\ i + 2 + 5 = i + 7 /\ i + 2 + 6 = i + 8 /\ i + 2 + 10 = i + 12
      /\ i + 6 + 1 = i + 7 /\ i + 6 + 2 = i + 8 /\ i + 6 \in Nat \ {0} /\ i + 2 \in Nat
  OBVIOUS
<1>1. \/ /\ one \in HighSurrogates /\ two \in LowSurrogates
         /\ Byte(s, i + 6) = 92 /\ Byte(s, i + 7) = 117
         /\ UnicodeEscape(s, i + 2) = <<Utf8(code), i + 12>>
      \/ /\ one # -1 /\ one \notin HighSurrogates \cup LowSurrogates
         /\ UnicodeEscape(s, i + 2) = <<Utf8(one), i + 6>>
  <2> HIDE DEF one, two
  <2> QED BY <1>0 DEF UnicodeEscape, Backslash, one, two
<1>2. CASE /\ one \in HighSurrogates /\ two \in LowSurrogates
           /\ Byte(s, i + 6) = 92 /\ Byte(s, i + 7) = 117
           /\ UnicodeEscape(s, i + 2) = <<Utf8(code), i + 12>>
  <2>1. IsUnit(s, i, one) /\ IsUnit(s, i + 6, two)
    <3>1. one \in Nat /\ two \in Nat
      <4> HIDE DEF one, two
      <4> QED BY <1>2, SMT DEF HighSurrogates, LowSurrogates
    <3>2. IsUnit(s, i, one) <=> Codepoint(s, i + 2) = one
      <4> HIDE DEF one
      <4> QED BY <3>1, CodepointIsUnit
    <3>3. IsUnit(s, i + 6, two) <=> Codepoint(s, i + 8) = two
      <4>1. Byte(s, i + 6) = 92 /\ Byte(s, i + 6 + 1) = 117
        BY <1>0, <1>2
      <4> HIDE DEF two
      <4>2. IsUnit(s, i + 6, two) <=> Codepoint(s, i + 6 + 2) = two
        BY <1>0, <3>1, <4>1, CodepointIsUnit
      <4> QED BY <1>0, <4>2
    <3> QED BY <3>2, <3>3
  <2> HIDE DEF one, two
  <2>2. /\ code \in Nat /\ code < 1114112 /\ code \notin Surrogates
        /\ code = 65536 + (one - 55296) * 1024 + (two - 56320)
        /\ one \in HighSurrogates /\ two \in LowSurrogates
    BY <1>2, SMTT(30) DEF HighSurrogates, LowSurrogates, Surrogates
  <2> HIDE DEF code
  <2>3. Utf8(code) \in Bytes /\ IsUtf8(Utf8(code), code)
    BY <2>2, Utf8IsUtf8, SMT
  <2>4. IsPair(s, i, i + 12, code)
    BY <1>2, <2>1, <2>2 DEF IsPair
  <2>5. UnicodeEscape(s, i + 2)[1] = Utf8(code) /\ UnicodeEscape(s, i + 2)[2] = i + 12
    <3>1. \A x, y : <<x, y>>[1] = x /\ <<x, y>>[2] = y
      OBVIOUS
    <3>2. UnicodeEscape(s, i + 2) = <<Utf8(code), i + 12>>
      BY <1>2 DEF code
    <3> QED BY <3>1, <3>2
  <2>6. code \in Nat
    BY <2>2, SMT
  <2>7. IsCharacter(s, i, i + 12, code)
    BY <2>4 DEF IsCharacter
  <2> QED BY ONLY <2>3, <2>5, <2>6, <2>7
<1>3. CASE /\ one # -1 /\ one \notin HighSurrogates \cup LowSurrogates
           /\ UnicodeEscape(s, i + 2) = <<Utf8(one), i + 6>>
  <2>1. one \in Nat /\ one <= 65535
    BY <1>0, <1>3, CodepointRange
  <2>2. IsUnit(s, i, one)
    <3>1. IsUnit(s, i, one) <=> Codepoint(s, i + 2) = one
      <4> HIDE DEF one
      <4> QED BY <2>1, CodepointIsUnit
    <3> QED BY <3>1
  <2> HIDE DEF one
  <2>3. one < 1114112 /\ one \notin Surrogates
    BY <1>3, <2>1, SMT DEF HighSurrogates, LowSurrogates, Surrogates
  <2>4. Utf8(one) \in Bytes /\ IsUtf8(Utf8(one), one)
    BY <2>1, <2>3, Utf8IsUtf8, SMT
  <2>5. IsCharacter(s, i, i + 6, one)
    BY <2>2, <2>3, SMT DEF IsSingle, IsCharacter
  <2>6. UnicodeEscape(s, i + 2)[1] = Utf8(one) /\ UnicodeEscape(s, i + 2)[2] = i + 6
    <3>1. \A x, y : <<x, y>>[1] = x /\ <<x, y>>[2] = y
      OBVIOUS
    <3> QED BY <1>3, <3>1
  <2>7. one \in Nat
    BY <2>1
  <2> QED BY ONLY <2>4, <2>5, <2>6, <2>7
<1> QED BY ONLY <1>1, <1>2, <1>3

(* The escape of one code unit is read.                                    *)
LEMMA SingleIsEscape ==
  ASSUME NEW s \in Bytes, NEW i \in Nat \ {0}, NEW j \in Nat, NEW c \in Nat, IsSingle(s, i, j, c)
  PROVE  /\ Byte(s, i) = 92 /\ Byte(s, i + 1) = 117
         /\ UnicodeEscape(s, i + 2) = <<Utf8(c), j>>
<1>1. Byte(s, i) = 92 /\ Byte(s, i + 1) = 117 /\ IsUnit(s, i, c) /\ c \notin Surrogates /\ j = i + 6
  BY SMT DEF IsSingle, IsUnit
<1>2. Codepoint(s, i + 2) = c
  BY <1>1, CodepointIsUnit
<1>3. c \notin HighSurrogates /\ c \notin LowSurrogates /\ c # -1
  BY <1>1, SMT DEF HighSurrogates, LowSurrogates, Surrogates
<1>4. i + 2 + 4 = i + 6
  OBVIOUS
<1>5. UnicodeEscape(s, i + 2) = <<Utf8(c), i + 2 + 4>>
  BY <1>2, <1>3 DEF UnicodeEscape
<1> QED BY <1>1, <1>4, <1>5

(* And so is that of a surrogate pair, as one code point.                  *)
LEMMA PairIsEscape ==
  ASSUME NEW s \in Bytes, NEW i \in Nat \ {0}, NEW j \in Nat, NEW c \in Nat, IsPair(s, i, j, c)
  PROVE  /\ Byte(s, i) = 92 /\ Byte(s, i + 1) = 117
         /\ UnicodeEscape(s, i + 2) = <<Utf8(c), j>>
<1>1. PICK high \in HighSurrogates, low \in LowSurrogates :
        /\ IsUnit(s, i, high) /\ IsUnit(s, i + 6, low) /\ j = i + 12
        /\ c = 65536 + (high - 55296) * 1024 + (low - 56320)
  BY DEF IsPair
<1>2. /\ Byte(s, i) = 92 /\ Byte(s, i + 1) = 117
      /\ Byte(s, i + 6) = 92 /\ Byte(s, i + 6 + 1) = 117
  BY <1>1, SMT DEF IsUnit
<1>3. high \in Nat /\ low \in Nat /\ c = high * 1024 + low - 56613888
  BY <1>1, SMT DEF HighSurrogates, LowSurrogates
<1>4. /\ i + 2 + 4 = i + 6 /\ i + 2 + 5 = i + 6 + 1 /\ i + 2 + 6 = i + 6 + 2 /\ i + 2 + 10 = i + 12
      /\ i + 6 \in Nat \ {0}
  OBVIOUS
<1>5. Codepoint(s, i + 2) = high /\ Codepoint(s, i + 2 + 6) = low
  <2>1. Codepoint(s, i + 2) = high
    BY <1>1, <1>2, <1>3, CodepointIsUnit
  <2>2. Codepoint(s, i + 6 + 2) = low
    BY <1>1, <1>2, <1>3, <1>4, CodepointIsUnit
  <2> QED BY <1>4, <2>1, <2>2
<1>6. UnicodeEscape(s, i + 2) = <<Utf8(high * 1024 + low - 56613888), i + 2 + 10>>
  <2>1. Byte(s, i + 2 + 4) = Backslash /\ Byte(s, i + 2 + 5) = 117
    BY <1>2, <1>4 DEF Backslash
  <2> QED BY <1>1, <1>5, <2>1, SMT DEF UnicodeEscape
<1> QED BY <1>1, <1>2, <1>3, <1>4, <1>6, SMT

(* The short escapes of the lexer are those of the RFC.                    *)
LEMMA EscapesAreShort ==
  /\ \A b \in DOMAIN Escapes : Escapes[b] \in 0 .. 127 /\ ShortEscape(b, Escapes[b])
  /\ \A b, c : ShortEscape(b, c) => b \in DOMAIN Escapes /\ Escapes[b] = c /\ c \in 0 .. 127
<1>1. ASSUME NEW b \in DOMAIN Escapes PROVE Escapes[b] \in 0 .. 127 /\ ShortEscape(b, Escapes[b])
  <2>1. b \in {34, 92, 47, 98, 102, 110, 114, 116}
    BY DEF Escapes, Quote, Backslash
  <2>2. Escapes[b] = CASE b = 98 -> 8 [] b = 102 -> 12 [] b = 110 -> 10 [] b = 114 -> 13
                       [] b = 116 -> 9 [] OTHER -> b
    BY DEF Escapes
  <2> QED BY <2>1, <2>2, SMT DEF ShortEscape
<1>2. ASSUME NEW b, NEW c, ShortEscape(b, c)
      PROVE  b \in DOMAIN Escapes /\ Escapes[b] = c /\ c \in 0 .. 127
  <2>1. /\ b \in {34, 92, 47, 98, 102, 110, 114, 116} /\ c \in 0 .. 127
        /\ c = CASE b = 98 -> 8 [] b = 102 -> 12 [] b = 110 -> 10 [] b = 114 -> 13
                 [] b = 116 -> 9 [] OTHER -> b
    BY <1>2, SMT DEF ShortEscape
  <2>2. b \in DOMAIN Escapes
    BY <2>1 DEF Escapes, Quote, Backslash
  <2>3. Escapes[b] = CASE b = 98 -> 8 [] b = 102 -> 12 [] b = 110 -> 10 [] b = 114 -> 13
                       [] b = 116 -> 9 [] OTHER -> b
    BY <2>2 DEF Escapes
  <2> QED BY <2>1, <2>2, <2>3
<1> QED BY <1>1, <1>2

(* A byte below 128 is the UTF-8 of itself.                                *)
LEMMA AsciiIsUtf8 ==
  ASSUME NEW c \in 0 .. 127
  PROVE  <<c>> \in Bytes /\ IsUtf8(<<c>>, c)
<1>1. <<c>> \in Bytes
  BY DEF Bytes
<1>2. c \in Nat /\ c < 128 /\ c \notin Surrogates
  BY SMT DEF Surrogates, HighSurrogates, LowSurrogates
<1>3. Len(<<c>>) = 1 /\ <<c>>[1] = c /\ \A k \in 2 .. 1 : FALSE
  OBVIOUS
<1>4. IsUtf8(<<c>>, c)
  BY <1>2, <1>3, SMT DEF IsUtf8
<1> QED BY <1>1, <1>4

(* scan_string takes what the RFC calls a character, and nothing else, and *)
(* what it appends to the token is the UTF-8 of the code point.            *)
LEMMA PieceIsCharacter ==
  ASSUME NEW s \in Bytes, NEW i \in 1 .. Len(s), s[i] # Quote, Piece(s, i) # IllFormed
  PROVE  \E c \in Nat : IsCharacter(s, i, Piece(s, i)[2], c) /\ IsUtf8(Piece(s, i)[1], c)
<1>1. i \in Nat \ {0} /\ Byte(s, i) = s[i]
  BY ByteThere DEF Byte
<1>2. CASE s[i] # Backslash
  <2>1. Piece(s, i) = Character(s, i) /\ s[i] \notin {34, 92}
    BY <1>2 DEF Piece, Quote, Backslash
  <2> QED BY <2>1, CharacterIsCharacter
<1>3. CASE s[i] = Backslash /\ Byte(s, i + 1) = 117
  <2>1. Piece(s, i) = UnicodeEscape(s, i + 2)
    BY <1>3 DEF Piece
  <2>2. Byte(s, i) = 92
    BY <1>1, <1>3 DEF Backslash
  <2>3. UnicodeEscape(s, i + 2) # IllFormed
    BY <2>1
  <2>4. \E c \in Nat : /\ IsCharacter(s, i, UnicodeEscape(s, i + 2)[2], c)
                       /\ IsUtf8(UnicodeEscape(s, i + 2)[1], c)
    BY <1>1, <1>3, <2>2, <2>3, EscapeIsCharacter
  <2> QED BY <2>1, <2>4
<1>4. CASE s[i] = Backslash /\ Byte(s, i + 1) # 117
  <2> DEFINE b == Byte(s, i + 1)
  <2>1. b \in DOMAIN Escapes /\ Piece(s, i) = <<<<Escapes[b]>>, i + 2>>
    BY <1>4 DEF Piece
  <2>2. Escapes[b] \in 0 .. 127 /\ ShortEscape(b, Escapes[b])
    BY <2>1, EscapesAreShort
  <2>3. Byte(s, i) = 92
    BY <1>1, <1>4 DEF Backslash
  <2>4. Piece(s, i)[1] = <<Escapes[b]>> /\ Piece(s, i)[2] = i + 2
    <3>1. \A x, y : <<x, y>>[1] = x /\ <<x, y>>[2] = y
      OBVIOUS
    <3> QED BY <2>1, <3>1
  <2>5. IsCharacter(s, i, i + 2, Escapes[b])
    BY <2>2, <2>3 DEF IsCharacter, IsShort
  <2> HIDE DEF b
  <2>6. IsUtf8(<<Escapes[b]>>, Escapes[b]) /\ Escapes[b] \in Nat
    <3> DEFINE e == Escapes[b]
    <3>1. e \in 0 .. 127
      BY <2>2
    <3> HIDE DEF e
    <3>2. e \in Nat
      BY <3>1
    <3>3. IsUtf8(<<e>>, e)
      BY <3>1, AsciiIsUtf8
    <3> QED BY <3>2, <3>3 DEF e
  <2> QED BY <2>4, <2>5, <2>6
<1> QED BY <1>2, <1>3, <1>4

(* A character ends after it began, within the text.                       *)
LEMMA CharacterGoesOn ==
  ASSUME NEW s, NEW i \in Nat, NEW j \in Nat, NEW c, IsCharacter(s, i, j, c)
  PROVE  i < j
<1>1. IsUnescaped(s, i, j, c) => i < j
  BY DEF IsUnescaped
<1>2. IsShort(s, i, j, c) => j = i + 2
  BY DEF IsShort
<1>3. IsSingle(s, i, j, c) => j = i + 6
  BY DEF IsSingle
<1>4. IsPair(s, i, j, c) => j = i + 12
  BY DEF IsPair
<1>5. IsUnescaped(s, i, j, c) \/ j = i + 2 \/ j = i + 6 \/ j = i + 12
  BY <1>2, <1>3, <1>4 DEF IsCharacter
<1> QED BY <1>1, <1>5

(* Of any character, scan_string takes all and appends what it stands      *)
(* for.                                                                    *)
LEMMA CharacterIsPiece ==
  ASSUME NEW s \in Bytes, NEW i \in Nat \ {0}, NEW j \in Nat, NEW c \in Nat,
         IsCharacter(s, i, j, c), NEW b \in Bytes, IsUtf8(b, c)
  PROVE  i \in 1 .. Len(s) /\ s[i] # Quote /\ Piece(s, i) = <<b, j>>
<1>1. CASE IsUnescaped(s, i, j, c)
  <2>1. i <= Len(s) /\ s[i] \notin {34, 92} /\ Character(s, i) = <<SubSeq(s, i, j - 1), j>>
    BY <1>1, UnescapedIsCharacter
  <2>2. i \in 1 .. Len(s) /\ Len(s) \in Nat
    BY <2>1 DEF Bytes
  <2>3. SubSeq(s, i, j - 1) \in Bytes
    <3>1. i < j /\ j <= Len(s) + 1
      BY <1>1 DEF IsUnescaped
    <3>2. j - 1 - i \in Nat /\ i + (j - 1 - i) = j - 1 /\ i + (j - 1 - i) <= Len(s)
      BY <2>2, <3>1
    <3>3. SubSeq(s, i, i + (j - 1 - i)) \in Bytes
      <4> DEFINE n == j - 1 - i
      <4> HIDE DEF n
      <4>1. n \in Nat /\ i + n <= Len(s)
        BY <3>2 DEF n
      <4>2. SubSeq(s, i, i + n) \in Bytes
        BY <2>2, <4>1, BytesFrom
      <4> QED BY <4>2 DEF n
    <3> QED BY <3>2, <3>3
  <2>4. IsUtf8(SubSeq(s, i, j - 1), c)
    BY <1>1 DEF IsUnescaped
  <2>5. SubSeq(s, i, j - 1) = b
    BY <2>3, <2>4, Utf8IsUnique
  <2>6. s[i] # Quote /\ s[i] # Backslash
    BY <2>1 DEF Quote, Backslash
  <2>7. Piece(s, i) = Character(s, i)
    BY <2>6 DEF Piece
  <2> QED BY <2>1, <2>2, <2>5, <2>6, <2>7
<1>2. ASSUME Byte(s, i) = 92
      PROVE  i \in 1 .. Len(s) /\ s[i] # Quote /\ s[i] = Backslash
  <2>1. i <= Len(s) /\ s[i] = 92
    BY <1>2 DEF Byte, Eof
  <2>2. i \in 1 .. Len(s)
    BY <2>1 DEF Bytes
  <2> QED BY <2>1, <2>2 DEF Quote, Backslash
<1>3. CASE IsShort(s, i, j, c)
  <2> DEFINE a == Byte(s, i + 1)
  <2>1. Byte(s, i) = 92 /\ ShortEscape(a, c) /\ j = i + 2
    BY <1>3 DEF IsShort
  <2>2. a \in DOMAIN Escapes /\ Escapes[a] = c /\ c \in 0 .. 127
    BY <2>1, EscapesAreShort
  <2>3. b = <<c>>
    BY <2>2, AsciiIsUtf8, Utf8IsUnique
  <2>4. a # 117
    <3> HIDE DEF a
    <3> QED BY <2>2 DEF Escapes, Quote, Backslash
  <2>5. Piece(s, i) = <<<<Escapes[a]>>, i + 2>>
    BY <1>2, <2>1, <2>2, <2>4 DEF Piece
  <2> QED BY <1>2, <2>1, <2>2, <2>3, <2>5
<1>4. ASSUME Byte(s, i) = 92, Byte(s, i + 1) = 117, UnicodeEscape(s, i + 2) = <<Utf8(c), j>>
      PROVE  i \in 1 .. Len(s) /\ s[i] # Quote /\ Piece(s, i) = <<b, j>>
  <2>1. c < 1114112 /\ c \notin Surrogates
    BY SMT DEF IsUtf8
  <2>2. Utf8(c) \in Bytes /\ IsUtf8(Utf8(c), c)
    BY <2>1, Utf8IsUtf8, SMT
  <2>3. Utf8(c) = b
    BY ONLY <2>2, Utf8IsUnique, c \in Nat, b \in Bytes, IsUtf8(b, c)
  <2>4. Piece(s, i) = UnicodeEscape(s, i + 2)
    BY ONLY <1>2, <1>4 DEF Piece
  <2> QED BY ONLY <1>2, <1>4, <2>3, <2>4
<1>5. CASE IsSingle(s, i, j, c)
  BY <1>4, <1>5, SingleIsEscape
<1>6. CASE IsPair(s, i, j, c)
  BY <1>4, <1>6, PairIsEscape
<1> QED BY <1>1, <1>3, <1>5, <1>6 DEF IsCharacter

(* A character more.                                                       *)
LEMMA StringChain ==
  ASSUME NEW s \in Bytes, NEW i \in 1 .. Len(s) + 1,
         NEW n \in Nat, NEW u \in Nat, NEW x, Spelled(s, i, n, u, x),
         NEW c \in Nat, NEW b \in Bytes, NEW j \in Nat, IsCharacter(s, u, j, c), IsUtf8(b, c)
  PROVE  Spelled(s, i, n + 1, j, x \o b)
<1>0. PICK at, held : Characters(s, i, n, at, held) /\ at[n] = u /\ held[n] = x
  BY DEF Spelled
<1> DEFINE up == [k \in 0 .. n + 1 |-> IF k = n + 1 THEN j ELSE at[k]]
           more == [k \in 0 .. n + 1 |-> IF k = n + 1 THEN held[n] \o b ELSE held[k]]
           Char(a, h, k) == \E d \in Nat, e \in Bytes :
             IsCharacter(s, a[k - 1], a[k], d) /\ IsUtf8(e, d) /\ h[k] = h[k - 1] \o e
<1>1. /\ at \in [0 .. n -> Nat] /\ held \in [0 .. n -> Bytes] /\ at[0] = i /\ held[0] = <<>>
      /\ \A k \in 1 .. n : Char(at, held, k)
  BY <1>0 DEF Characters, Bytes
<1>2. held[n] \o b \in Bytes
  BY <1>1 DEF Bytes
<1>3. up \in [0 .. n + 1 -> Nat] /\ more \in [0 .. n + 1 -> Bytes]
  BY <1>1, <1>2
<1>4. /\ \A k \in 0 .. n : up[k] = at[k] /\ more[k] = held[k]
      /\ up[n + 1] = j /\ more[n + 1] = held[n] \o b
  <2>1. n + 1 \in 0 .. n + 1 /\ \A k \in 0 .. n : k \in 0 .. n + 1 /\ k # n + 1
    OBVIOUS
  <2> QED BY <2>1
<1> HIDE DEF up, more
<1>5. up[0] = i /\ more[0] = <<>>
  BY <1>1, <1>4
<1>6. ASSUME NEW m \in 1 .. n + 1 PROVE Char(up, more, m)
  <2>1. CASE m = n + 1
    <3>1. m - 1 = n /\ n \in 0 .. n
      BY <2>1
    <3>2. up[m] = j /\ up[m - 1] = at[n] /\ more[m] = held[n] \o b /\ more[m - 1] = held[n]
      BY <1>4, <2>1, <3>1
    <3>3. IsCharacter(s, up[m - 1], up[m], c) /\ IsUtf8(b, c) /\ more[m] = more[m - 1] \o b
      BY <1>0, <3>2
    <3> QED BY <3>3
  <2>2. CASE m # n + 1
    <3>1. m \in 1 .. n /\ m \in 0 .. n /\ m - 1 \in 0 .. n
      BY <2>2
    <3>2. up[m] = at[m] /\ up[m - 1] = at[m - 1] /\ more[m] = held[m] /\ more[m - 1] = held[m - 1]
      BY <1>4, <3>1
    <3>3. Char(at, held, m)
      BY <1>1, <3>1
    <3> QED BY <3>2, <3>3
  <2> QED BY <2>1, <2>2
<1>7. Characters(s, i, n + 1, up, more)
  BY <1>3, <1>5, <1>6 DEF Characters, Bytes
<1> QED BY <1>0, <1>4, <1>7 DEF Spelled

(* What the lexer reads is a string.                                       *)
LEMMA ScanIsString ==
  ASSUME NEW s \in Bytes, NEW i \in 1 .. Len(s) + 1, ScanString(s, i) # ParseError
  PROVE  \E j \in Nat, x \in Bytes :
           ScanString(s, i) = <<"value_string", x, j>> /\ IsString(s, i, j, x)
<1> DEFINE Held(p) == \E n \in Nat : Spelled(s, i, n, p[1], p[2])
           I == {p \in StringStates(s) : Held(p)}
<1>1. <<i, <<>>>> \in I
  <2> DEFINE at == [k \in 0 .. 0 |-> i]
             held == [k \in 0 .. 0 |-> <<>>]
  <2>1. Characters(s, i, 0, at, held)
    BY DEF Characters
  <2>2. <<i, <<>>>> \in StringStates(s)
    BY NothingDecodes DEF StringStates
  <2>3. at[0] = i /\ held[0] = <<>>
    OBVIOUS
  <2> HIDE DEF at, held
  <2>4. Held(<<i, <<>>>>)
    BY <2>1, <2>3 DEF Spelled
  <2> QED BY <2>2, <2>4
<1>2. ASSUME NEW p \in I \ StringHalts(s) PROVE StringStep(s)[p] \in I
  <2> DEFINE q == Piece(s, p[1])
  <2>1. /\ p[1] \in 1 .. Len(s) /\ s[p[1]] # Quote /\ q # IllFormed /\ Fits(q, s, p[1])
        /\ StringStep(s)[p] = <<q[2], p[2] \o q[1]>> /\ StringStep(s)[p] \in StringStates(s)
    BY StringStepFits
  <2>2. PICK n \in Nat : Spelled(s, i, n, p[1], p[2])
    OBVIOUS
  <2>3. PICK c \in Nat : IsCharacter(s, p[1], q[2], c) /\ IsUtf8(q[1], c)
    BY <2>1, PieceIsCharacter
  <2>4. q[1] \in Bytes /\ q[2] \in Nat /\ p[1] \in Nat
    <3>1. q[1] \in Bytes /\ q[2] \in p[1] + 1 .. Len(s) + 1 /\ p[1] \in Nat
      BY <2>1, ByteThere DEF Fits
    <3> HIDE DEF q
    <3> QED BY <3>1
  <2> DEFINE e == q[2]
             y == p[2] \o q[1]
  <2> HIDE DEF q
  <2>5. Spelled(s, i, n + 1, q[2], p[2] \o q[1])
    BY <2>2, <2>3, <2>4, StringChain
  <2>6. StringStep(s)[p][1] = q[2] /\ StringStep(s)[p][2] = p[2] \o q[1]
    <3>1. \A v, w : <<v, w>>[1] = v /\ <<v, w>>[2] = w
      OBVIOUS
    <3>2. StringStep(s)[p] = <<e, y>>
      BY <2>1
    <3> HIDE DEF e, y
    <3>3. StringStep(s)[p][1] = e /\ StringStep(s)[p][2] = y
      BY <3>1, <3>2
    <3> QED BY <3>3 DEF e, y
  <2>7. n + 1 \in Nat
    OBVIOUS
  <2>8. Held(StringStep(s)[p])
    BY <2>5, <2>6, <2>7
  <2> QED BY <2>1, <2>8
<1>3. PICK q \in I \cap StringHalts(s) : ScanString(s, i) = StringResult(s)[q]
  <2>1. I \in SUBSET StringStates(s)
    OBVIOUS
  <2> HIDE DEF I
  <2> QED BY <1>1, <1>2, <2>1, ScanStringEnds
<1>4. /\ q \in StringStates(s) /\ Held(q)
  OBVIOUS
<1>5. /\ Byte(s, q[1]) # Eof /\ s[q[1]] = Quote
      /\ ScanString(s, i) = <<"value_string", q[2], q[1] + 1>>
  BY <1>3, <1>4 DEF StringResult
<1>6. q[2] \in Bytes /\ q[1] \in Nat /\ q[1] + 1 \in Nat
  <2>1. q[2] \in Bytes /\ q[1] \in 1 .. Len(s) + 1 /\ Len(s) \in Nat
    BY <1>4 DEF StringStates, Bytes
  <2> QED BY <2>1
<1>7. Byte(s, q[1]) = 34
  BY <1>5 DEF Byte, Quote
<1>8. IsString(s, i, q[1] + 1, q[2])
  <2>1. PICK n \in Nat : Spelled(s, i, n, q[1], q[2])
    BY <1>4
  <2> QED BY <1>6, <1>7, <2>1 DEF IsString
<1> QED BY <1>5, <1>6, <1>8

(* And a string is read to its end.                                        *)
LEMMA StringIsScanned ==
  ASSUME NEW s \in Bytes, NEW i \in 1 .. Len(s) + 1, NEW j \in Nat, NEW x \in Bytes,
         IsString(s, i, j, x)
  PROVE  ScanString(s, i) = <<"value_string", x, j>>
<1>1. PICK n \in Nat, u \in Nat : Spelled(s, i, n, u, x) /\ Byte(s, u) = 34 /\ j = u + 1
  BY DEF IsString
<1>2. PICK at, held :
        Characters(s, i, n, at, held) /\ Byte(s, at[n]) = 34 /\ j = at[n] + 1 /\ x = held[n]
  BY <1>1 DEF Spelled
<1>3. PICK g : /\ Loops(g, StringStates(s), StringHalts(s), StringResult(s), StringStep(s))
               /\ ScanString(s, i) = g[<<i, <<>>>>]
  BY ScanStringLoops
<1> DEFINE Goes(k) == /\ <<at[k], held[k]>> \in StringStates(s)
                      /\ ScanString(s, i) = g[<<at[k], held[k]>>]
<1>4. /\ at \in [0 .. n -> Nat] /\ held \in [0 .. n -> Bytes] /\ at[0] = i /\ held[0] = <<>>
      /\ \A k \in 1 .. n : \E c \in Nat, b \in Bytes :
           IsCharacter(s, at[k - 1], at[k], c) /\ IsUtf8(b, c) /\ held[k] = held[k - 1] \o b
  BY <1>2 DEF Characters, Bytes
<1>5. Goes(0)
  BY <1>3, <1>4 DEF StringStates, Bytes
<1>6. ASSUME NEW m \in 1 .. n, Goes(m - 1) PROVE Goes(m)
  <2> DEFINE p == <<at[m - 1], held[m - 1]>>
  <2>1. PICK c \in Nat, b \in Bytes :
          IsCharacter(s, at[m - 1], at[m], c) /\ IsUtf8(b, c) /\ held[m] = held[m - 1] \o b
    BY <1>4
  <2>2. /\ at[m - 1] \in 1 .. Len(s) + 1 /\ at[m - 1] \in Nat \ {0} /\ at[m] \in Nat
        /\ held[m - 1] \in Bytes /\ p[1] = at[m - 1] /\ p[2] = held[m - 1]
    <3>1. m - 1 \in 0 .. n /\ m \in 0 .. n
      OBVIOUS
    <3> QED BY <1>4, <1>6, <3>1 DEF StringStates
  <2>3. /\ at[m - 1] \in 1 .. Len(s) /\ s[at[m - 1]] # Quote
        /\ Piece(s, at[m - 1]) = <<b, at[m]>> /\ at[m] # 0
    BY <2>1, <2>2, CharacterIsPiece, CharacterGoesOn
  <2>4. p \in StringStates(s) \ StringHalts(s)
    <3>1. Byte(s, at[m - 1]) # Eof
      <4> DEFINE a == at[m - 1]
      <4>1. a \in 1 .. Len(s)
        BY <2>3
      <4> HIDE DEF a
      <4>2. s[a] \in 0 .. 255 /\ Byte(s, a) = s[a]
        BY <4>1, ByteThere DEF Byte
      <4>3. Byte(s, a) # Eof
        <5>1. \A y \in 0 .. 255 : y # -1
          OBVIOUS
        <5> QED BY <4>2, <5>1 DEF Eof
      <4> QED BY <4>3 DEF a
    <3>2. Piece(s, at[m - 1]) # IllFormed
      <4>1. at[m] # 0
        BY <2>3
      <4>2. <<b, at[m]>>[2] = at[m] /\ IllFormed[2] = 0
        BY DEF IllFormed
      <4> QED BY <2>3, <4>1, <4>2
    <3>3. p \in StringStates(s)
      BY <1>6
    <3> HIDE DEF p
    <3> QED BY <2>2, <2>3, <3>1, <3>2, <3>3 DEF StringHalts
  <2>5. StringStep(s)[p] = <<at[m], held[m]>> /\ StringStep(s)[p] \in StringStates(s)
    <3>1. StringStep(s)[p] = <<Piece(s, p[1])[2], p[2] \o Piece(s, p[1])[1]>>
          /\ StringStep(s)[p] \in StringStates(s)
      BY <2>4, StringStepFits
    <3>2. Piece(s, p[1])[2] = at[m] /\ Piece(s, p[1])[1] = b
      <4>1. \A y, z : <<y, z>>[1] = y /\ <<y, z>>[2] = z
        OBVIOUS
      <4> HIDE DEF p
      <4> QED BY <2>2, <2>3, <4>1
    <3> HIDE DEF p
    <3> QED BY <2>1, <2>2, <3>1, <3>2
  <2>6. g[p] = g[StringStep(s)[p]]
    <3> HIDE DEF p
    <3> QED BY <1>3, <2>4 DEF Loops
  <2>7. ScanString(s, i) = g[p]
    BY <1>6
  <2> QED BY <2>5, <2>6, <2>7
<1>7. Goes(n)
  <2> DEFINE Stuck == {k \in 0 .. n : ~Goes(k)}
  <2>1. SUFFICES ASSUME Stuck # {} PROVE FALSE
    <3> HIDE DEF Goes
    <3> QED OBVIOUS
  <2>2. PICK m \in Stuck : \A h \in Stuck : m <= h
    <3>1. Stuck \subseteq Nat
      OBVIOUS
    <3> HIDE DEF Stuck
    <3> QED BY <2>1, <3>1, Least
  <2> HIDE DEF Goes
  <2>3. m \in 0 .. n /\ ~Goes(m) /\ m # 0
    BY <1>5
  <2>4. m \in 1 .. n /\ m - 1 \in 0 .. n /\ m - 1 \notin Stuck
    BY <2>2, <2>3
  <2>5. Goes(m - 1)
    BY <2>4
  <2> QED BY <1>6, <2>3, <2>4, <2>5
<1> DEFINE p == <<at[n], held[n]>>
<1>8. p \in StringStates(s) /\ p[1] = at[n] /\ p[2] = held[n] /\ ScanString(s, i) = g[p]
  BY <1>7
<1>9. Byte(s, p[1]) # Eof /\ s[p[1]] = Quote
  BY <1>2 DEF Byte, Eof, Quote
<1> HIDE DEF p
<1>10. p \in StringHalts(s) /\ StringResult(s)[p] = <<"value_string", p[2], p[1] + 1>>
  BY <1>8, <1>9 DEF StringHalts, StringResult
<1>11. g[p] = StringResult(s)[p]
  BY <1>3, <1>8, <1>10 DEF Loops
<1> QED BY <1>2, <1>8, <1>10, <1>11

(* The strings of the lexer are those of RFC 8259, and their content is    *)
(* the UTF-8 of their characters (json.hpp, scan_string): what is one is   *)
(* read, up to its end, and anything else is reported.                     *)
THEOREM StringsAreRead ==
  ASSUME NEW s \in Bytes, NEW i \in 1 .. Len(s) + 1
  PROVE  /\ \A j \in Nat, x \in Bytes :
              ScanString(s, i) = <<"value_string", x, j>> <=> IsString(s, i, j, x)
         /\ ScanString(s, i) = ParseError <=> ~\E j \in Nat, x \in Bytes : IsString(s, i, j, x)
<1>1. ASSUME NEW j \in Nat, NEW x \in Bytes
      PROVE  ScanString(s, i) = <<"value_string", x, j>> <=> IsString(s, i, j, x)
  <2>1. ASSUME ScanString(s, i) = <<"value_string", x, j>> PROVE IsString(s, i, j, x)
    <3>1. ScanString(s, i) # ParseError
      BY <2>1 DEF ParseError
    <3>2. PICK e \in Nat, b \in Bytes :
            ScanString(s, i) = <<"value_string", b, e>> /\ IsString(s, i, e, b)
      BY <3>1, ScanIsString
    <3>3. e = j /\ b = x
      BY <2>1, <3>2
    <3> QED BY <3>2, <3>3
  <2> QED BY <2>1, StringIsScanned
<1>2. \A j, x : <<"value_string", x, j>> # ParseError
  BY DEF ParseError
<1>3. ScanString(s, i) # ParseError => \E j \in Nat, x \in Bytes : IsString(s, i, j, x)
  BY ScanIsString
<1> QED BY <1>1, <1>2, <1>3

(*-------------------------------------------------------------------------*)
(* The numerals of the lexer, and those of JsonTokens.                     *)
(*-------------------------------------------------------------------------*)

LEMMA ADigitMore ==
  ASSUME NEW s, NEW i \in Nat, NEW j \in Nat, Byte(s, j) \in Digits, i = j \/ AreDigits(s, i, j)
  PROVE  AreDigits(s, i, j + 1)
<1>1. \A k \in i .. (j + 1) - 1 : k \in i .. j - 1 \/ k = j
  OBVIOUS
<1> QED BY <1>1 DEF AreDigits, Digits

(* What the automaton has seen from i on, up to j, in each of its states.  *)
Shape(s, i, j, state) ==
  /\ state = "init" => i = j
  /\ state = "minus" => Byte(s, i) = 45 /\ j = i + 1
  /\ state = "zero" => \E a \in Nat : IsMinus(s, i, a) /\ Byte(s, a) = 48 /\ j = a + 1
  /\ state = "any1" => \E a \in Nat : IsMinus(s, i, a) /\ Byte(s, a) # 48 /\ AreDigits(s, a, j)
  /\ state \in {"decimal1", "decimal2"} =>
       \E a, p \in Nat :
         /\ IsMinus(s, i, a) /\ IsInt(s, a, p) /\ Byte(s, p) = 46
         /\ IF state = "decimal1" THEN j = p + 1 ELSE AreDigits(s, p + 1, j)
  /\ state \in {"exponent", "sign", "any2"} =>
       \E a, p, q \in Nat :
         /\ IsMinus(s, i, a) /\ IsInt(s, a, p) /\ IsFrac(s, p, q) /\ Byte(s, q) \in {69, 101}
         /\ state = "exponent" => j = q + 1
         /\ state = "sign" => Byte(s, q + 1) \in {43, 45} /\ j = q + 2
         /\ state = "any2" => \E e \in Nat : IsSign(s, q + 1, e) /\ AreDigits(s, e, j)

NumeralStates == {"zero", "any1", "decimal2", "any2"}

(* Where the automaton may stop there is a numeral.                        *)
LEMMA ShapeIsNumeral ==
  ASSUME NEW s, NEW i \in Nat, NEW j \in Nat, NEW state \in NumeralStates, Shape(s, i, j, state)
  PROVE  IsNumeral(s, i, j) /\ i < j
<1>1. CASE state \in {"zero", "any1"}
  <2>1. PICK a \in Nat : IsMinus(s, i, a) /\ IsInt(s, a, j) /\ a < j
    BY <1>1 DEF Shape, IsInt, AreDigits
  <2>2. IsFrac(s, j, j) /\ IsExp(s, j, j) /\ i <= a
    BY <2>1 DEF IsFrac, IsExp, IsMinus
  <2> QED BY <2>1, <2>2 DEF IsNumeral
<1>2. CASE state = "decimal2"
  <2>1. PICK a \in Nat, p \in Nat : /\ IsMinus(s, i, a) /\ IsInt(s, a, p) /\ Byte(s, p) = 46
                                    /\ AreDigits(s, p + 1, j)
    BY <1>2 DEF Shape
  <2>2. IsFrac(s, p, j) /\ IsExp(s, j, j)
    BY <2>1 DEF IsFrac, IsExp
  <2>3. i <= a /\ a < p /\ p < j
    BY <2>1 DEF IsMinus, IsInt, AreDigits
  <2>4. IsNumeral(s, i, j)
    BY <2>1, <2>2 DEF IsNumeral
  <2> QED BY <2>3, <2>4
<1>3. CASE state = "any2"
  <2>1. PICK a \in Nat, p \in Nat, q \in Nat :
          /\ IsMinus(s, i, a) /\ IsInt(s, a, p) /\ IsFrac(s, p, q) /\ Byte(s, q) \in {69, 101}
          /\ \E e \in Nat : IsSign(s, q + 1, e) /\ AreDigits(s, e, j)
    BY <1>3 DEF Shape
  <2>2. IsExp(s, q, j)
    BY <2>1 DEF IsExp
  <2>3. i <= a /\ a < p /\ p <= q /\ q < j
    BY <2>1 DEF IsMinus, IsInt, AreDigits, IsFrac, IsSign
  <2>4. IsNumeral(s, i, j)
    BY <2>1, <2>2 DEF IsNumeral
  <2> QED BY <2>3, <2>4
<1> QED BY <1>1, <1>2, <1>3 DEF NumeralStates

LEMMA ShapeGoesOn ==
  ASSUME NEW s, NEW i \in Nat, NEW j \in Nat, NEW state \in NumberStates, Shape(s, i, j, state),
         NEW c, c = Byte(s, j), NEW then, then = Automaton(state, c), then \notin {"done", "error"}
  PROVE  Shape(s, i, j + 1, then)
<1>1. CASE state = "init" /\ c = Minus
  <2>1. then = "minus" /\ i = j
    BY <1>1 DEF Automaton, Shape
  <2> QED BY <1>1, <2>1 DEF Shape, Minus, IsMinus
<1>2. CASE state \in {"init", "minus"} /\ c \in Digits
  <2>1. IsMinus(s, i, j) /\ j \in Nat
    BY <1>2 DEF Shape, IsMinus
  <2>2. AreDigits(s, j, j + 1)
    BY <1>2, ADigitMore
  <2>3. c = 48 => then = "zero"
    BY <1>2 DEF Automaton, Minus
  <2>4. c # 48 => then = "any1"
    BY <1>2 DEF Automaton, Minus, Digits
  <2> QED BY <2>1, <2>2, <2>3, <2>4 DEF Shape
<1>3. CASE state = "any1" /\ c \in Digits
  <2>1. then = "any1"
    BY <1>3 DEF Automaton
  <2>2. PICK a \in Nat : IsMinus(s, i, a) /\ Byte(s, a) # 48 /\ AreDigits(s, a, j)
    BY <1>3 DEF Shape
  <2>3. AreDigits(s, a, j + 1)
    BY <1>3, <2>2, ADigitMore
  <2> QED BY <2>1, <2>2, <2>3 DEF Shape
<1>4. state \in {"zero", "any1"} => \E a \in Nat : IsMinus(s, i, a) /\ IsInt(s, a, j)
  <2>1. CASE state = "zero"
    <3>1. PICK a \in Nat : IsMinus(s, i, a) /\ Byte(s, a) = 48 /\ j = a + 1
      BY <2>1 DEF Shape
    <3>2. AreDigits(s, a, j)
      BY <3>1, ADigitMore DEF Digits
    <3> QED BY <3>1, <3>2 DEF IsInt
  <2>2. CASE state = "any1"
    BY <2>2 DEF Shape, IsInt
  <2> QED BY <2>1, <2>2
<1>5. CASE state \in {"zero", "any1"} /\ c = Dot
  <2>1. then = "decimal1"
    BY <1>5 DEF Automaton, Dot, Digits, Minus
  <2>2. \E a, p \in Nat : IsMinus(s, i, a) /\ IsInt(s, a, p) /\ Byte(s, p) = 46 /\ j + 1 = p + 1
    BY <1>4, <1>5 DEF Dot
  <2> QED BY <2>1, <2>2 DEF Shape
<1>6. CASE state \in {"decimal1", "decimal2"} /\ c \in Digits
  <2>1. then = "decimal2"
    BY <1>6 DEF Automaton
  <2>2. PICK a \in Nat, p \in Nat :
          /\ IsMinus(s, i, a) /\ IsInt(s, a, p) /\ Byte(s, p) = 46
          /\ j = p + 1 \/ AreDigits(s, p + 1, j)
    BY <1>6 DEF Shape
  <2>3. AreDigits(s, p + 1, j + 1)
    BY <1>6, <2>2, ADigitMore
  <2> QED BY <2>1, <2>2, <2>3 DEF Shape
<1>7. CASE state \in {"zero", "any1", "decimal2"} /\ c \in Exponents
  <2>1. then = "exponent"
    BY <1>7 DEF Automaton, Exponents, Digits, Dot, Minus
  <2>2. \E a, p \in Nat : IsMinus(s, i, a) /\ IsInt(s, a, p) /\ IsFrac(s, p, j)
    <3>1. CASE state # "decimal2"
      BY <1>4, <1>7, <3>1 DEF IsFrac
    <3>2. CASE state = "decimal2"
      BY <3>2 DEF Shape, IsFrac
    <3> QED BY <3>1, <3>2
  <2> QED BY <1>7, <2>1, <2>2 DEF Shape, Exponents
<1>8. CASE state = "exponent" /\ c \in {43, Minus}
  <2>1. then = "sign"
    BY <1>8 DEF Automaton
  <2>2. PICK a \in Nat, p \in Nat, q \in Nat :
          /\ IsMinus(s, i, a) /\ IsInt(s, a, p) /\ IsFrac(s, p, q) /\ Byte(s, q) \in {69, 101}
          /\ j = q + 1
    BY <1>8 DEF Shape
  <2>3. Byte(s, q + 1) \in {43, 45} /\ j + 1 = q + 2
    BY <1>8, <2>2 DEF Minus
  <2> QED BY <2>1, <2>2, <2>3 DEF Shape
<1>9. CASE state \in {"exponent", "sign", "any2"} /\ c \in Digits
  <2>1. then = "any2"
    BY <1>9 DEF Automaton, Digits, Minus
  <2>2. PICK a \in Nat, p \in Nat, q \in Nat :
          /\ IsMinus(s, i, a) /\ IsInt(s, a, p) /\ IsFrac(s, p, q) /\ Byte(s, q) \in {69, 101}
          /\ state = "exponent" => j = q + 1
          /\ state = "sign" => Byte(s, q + 1) \in {43, 45} /\ j = q + 2
          /\ state = "any2" => \E e \in Nat : IsSign(s, q + 1, e) /\ AreDigits(s, e, j)
    BY <1>9 DEF Shape
  <2>3. \E e \in Nat : IsSign(s, q + 1, e) /\ (e = j \/ AreDigits(s, e, j))
    BY <1>9, <2>2 DEF IsSign
  <2>4. \E e \in Nat : IsSign(s, q + 1, e) /\ AreDigits(s, e, j + 1)
    BY <1>9, <2>3, ADigitMore
  <2> QED BY <2>1, <2>2, <2>4 DEF Shape
<1> QED BY <1>1, <1>2, <1>3, <1>5, <1>6, <1>7, <1>8, <1>9 DEF Automaton, NumberStates, Digits

(* The automaton gets to state at j, and what it ends with from there is   *)
(* the token.                                                              *)
Gets(s, i, g, j, state) ==
  <<j, state>> \in NumberScans /\ ScanNumber(s, i) = g[<<j, state>>]

LEMMA GetsFurther ==
  ASSUME NEW s \in Bytes, NEW i,
         NEW g, Loops(g, NumberScans, NumberHalts(s), NumberResult(s, i), NumberStep(s)),
         NEW j \in Nat, NEW state, Gets(s, i, g, j, state),
         NEW then \in NumberStates, Automaton(state, Byte(s, j)) = then
  PROVE  Gets(s, i, g, j + 1, then)
<1> DEFINE p == <<j, state>>
           q == <<j + 1, then>>
<1>1. p \in NumberScans /\ p[1] = j /\ p[2] = state /\ q \in NumberScans
  BY DEF Gets, NumberScans
<1>2. NumberNext(s, p) = then /\ then \notin {"done", "error"}
  BY <1>1 DEF NumberNext, NumberStates
<1>3. p \notin NumberHalts(s) /\ NumberStep(s)[p] = q
  BY <1>1, <1>2 DEF NumberHalts, NumberStep
<1>4. g[p] = g[q]
  <2> HIDE DEF p, q
  <2> QED BY <1>1, <1>3 DEF Loops
<1> QED BY <1>1, <1>4 DEF Gets

(* Over digits, in a state that digits do not change.                      *)
LEMMA GetsOverDigits ==
  ASSUME NEW s \in Bytes, NEW i,
         NEW g, Loops(g, NumberScans, NumberHalts(s), NumberResult(s, i), NumberStep(s)),
         NEW j \in Nat, NEW e \in Nat, AreDigits(s, j, e),
         NEW state, Gets(s, i, g, j, state),
         NEW then \in {"any1", "decimal2", "any2"}, Automaton(state, Byte(s, j)) = then
  PROVE  Gets(s, i, g, e, then)
<1> DEFINE T == {n \in Nat : n > j /\ n <= e /\ ~Gets(s, i, g, n, then)}
<1>1. then \in NumberStates /\ \A c \in Digits : Automaton(then, c) = then
  BY DEF NumberStates, Automaton, Digits, Minus, Dot, Exponents
<1>2. Gets(s, i, g, j + 1, then)
  BY <1>1, GetsFurther
<1>3. CASE T # {}
  <2>1. PICK n \in T : \A m \in T : n <= m
    <3>1. T \subseteq Nat
      OBVIOUS
    <3> HIDE DEF T
    <3> QED BY <1>3, <3>1, Least
  <2>2. n # j + 1
    BY <1>2, <2>1
  <2>3. n - 1 \in Nat /\ n - 1 > j /\ n - 1 <= e /\ n - 1 \in j .. e - 1 /\ n - 1 \notin T
    BY <2>1, <2>2
  <2>4. Gets(s, i, g, n - 1, then) /\ Byte(s, n - 1) \in Digits
    BY <2>3 DEF AreDigits, Digits
  <2>5. Gets(s, i, g, (n - 1) + 1, then)
    BY <1>1, <2>3, <2>4, GetsFurther
  <2>6. (n - 1) + 1 = n
    BY <2>1
  <2> QED BY <2>1, <2>5, <2>6
<1>4. CASE T = {}
  <2>1. e > j /\ e <= e
    BY DEF AreDigits
  <2> QED BY <1>4, <2>1
<1> QED BY <1>3, <1>4

(* So the automaton gets to the end of every numeral.                      *)
LEMMA GetsToTheEnd ==
  ASSUME NEW s \in Bytes, NEW i \in Nat,
         NEW g, Loops(g, NumberScans, NumberHalts(s), NumberResult(s, i), NumberStep(s)),
         ScanNumber(s, i) = g[<<i, "init">>],
         NEW j \in Nat, IsNumeral(s, i, j)
  PROVE  \E state \in NumeralStates : Gets(s, i, g, j, state)
<1>1. PICK a \in Nat, p \in Nat, q \in Nat :
        IsMinus(s, i, a) /\ IsInt(s, a, p) /\ IsFrac(s, p, q) /\ IsExp(s, q, j)
  BY DEF IsNumeral
<1>2. Gets(s, i, g, i, "init")
  BY DEF Gets, NumberScans, NumberStates
<1>3. \E state \in {"init", "minus"} : Gets(s, i, g, a, state)
  <2>1. CASE i = a
    BY <1>2, <2>1
  <2>2. CASE Byte(s, i) = 45 /\ a = i + 1
    <3>1. Automaton("init", Byte(s, i)) = "minus" /\ "minus" \in NumberStates
      BY <2>2 DEF Automaton, Minus, NumberStates
    <3> QED BY <1>2, <2>2, <3>1, GetsFurther
  <2> QED BY <1>1, <2>1, <2>2 DEF IsMinus
<1>4. \E state \in {"zero", "any1"} : Gets(s, i, g, p, state)
  <2>1. PICK state \in {"init", "minus"} : Gets(s, i, g, a, state)
    BY <1>3
  <2>2. AreDigits(s, a, p) /\ Byte(s, a) \in Digits
    BY <1>1 DEF IsInt, AreDigits, Digits
  <2>3. CASE Byte(s, a) = 48
    <3>1. Automaton(state, Byte(s, a)) = "zero" /\ "zero" \in NumberStates
      BY <2>3 DEF Automaton, Minus, NumberStates
    <3>2. p = a + 1
      BY <1>1, <2>3 DEF IsInt
    <3> QED BY <2>1, <3>1, <3>2, GetsFurther
  <2>4. CASE Byte(s, a) # 48
    <3>1. Automaton(state, Byte(s, a)) = "any1"
      BY <2>2, <2>4 DEF Automaton, Minus, Digits
    <3> QED BY <2>1, <2>2, <3>1, GetsOverDigits
  <2> QED BY <2>3, <2>4
<1>5. \E state \in {"zero", "any1", "decimal2"} : Gets(s, i, g, q, state)
  <2>1. PICK state \in {"zero", "any1"} : Gets(s, i, g, p, state)
    BY <1>4
  <2>2. CASE p = q
    BY <2>1, <2>2
  <2>3. CASE Byte(s, p) = 46 /\ AreDigits(s, p + 1, q)
    <3>1. Automaton(state, Byte(s, p)) = "decimal1" /\ "decimal1" \in NumberStates
      BY <2>3 DEF Automaton, Minus, Dot, Digits, NumberStates
    <3>2. Gets(s, i, g, p + 1, "decimal1") /\ p + 1 \in Nat
      BY <2>1, <3>1, GetsFurther
    <3>3. Byte(s, p + 1) \in Digits
      BY <2>3 DEF AreDigits, Digits
    <3>4. Automaton("decimal1", Byte(s, p + 1)) = "decimal2"
      BY <3>3 DEF Automaton
    <3> QED BY <2>3, <3>2, <3>4, GetsOverDigits
  <2> QED BY <1>1, <2>2, <2>3 DEF IsFrac
<1>6. PICK state \in {"zero", "any1", "decimal2"} : Gets(s, i, g, q, state)
  BY <1>5
<1>7. CASE q = j
  BY <1>6, <1>7 DEF NumeralStates
<1>8. CASE Byte(s, q) \in {69, 101} /\ \E e \in Nat : IsSign(s, q + 1, e) /\ AreDigits(s, e, j)
  <2>1. Automaton(state, Byte(s, q)) = "exponent" /\ "exponent" \in NumberStates
    BY <1>8 DEF Automaton, Minus, Dot, Digits, Exponents, NumberStates
  <2>2. Gets(s, i, g, q + 1, "exponent") /\ q + 1 \in Nat
    BY <1>6, <2>1, GetsFurther
  <2>3. PICK e \in Nat : IsSign(s, q + 1, e) /\ AreDigits(s, e, j)
    BY <1>8
  <2>4. \E sign \in {"exponent", "sign"} : Gets(s, i, g, e, sign)
    <3>1. CASE q + 1 = e
      BY <2>2, <3>1
    <3>2. CASE Byte(s, q + 1) \in {43, 45} /\ e = (q + 1) + 1
      <4>1. Automaton("exponent", Byte(s, q + 1)) = "sign" /\ "sign" \in NumberStates
        BY <3>2 DEF Automaton, Minus, NumberStates
      <4> QED BY <2>2, <3>2, <4>1, GetsFurther
    <3> QED BY <2>3, <3>1, <3>2 DEF IsSign
  <2>5. PICK sign \in {"exponent", "sign"} : Gets(s, i, g, e, sign)
    BY <2>4
  <2>6. Byte(s, e) \in Digits
    BY <2>3 DEF AreDigits, Digits
  <2>7. Automaton(sign, Byte(s, e)) = "any2"
    BY <2>6 DEF Automaton, Digits, Minus
  <2> QED BY <2>3, <2>5, <2>7, GetsOverDigits DEF NumeralStates
<1> QED BY <1>1, <1>7, <1>8 DEF IsExp

(* A token of a numeral says where it ends.                                *)
LEMMA SameEnd ==
  ASSUME NEW v, NEW w, NEW j, NEW k, Append(Numeral(v), j) = Append(Numeral(w), k)
  PROVE  j = k
<1>1. ASSUME NEW t PROVE \E x, y : Numeral(t) = <<x, y>>
  BY DEF Numeral
<1>2. PICK a, b : Numeral(v) = <<a, b>>
  BY <1>1
<1>3. PICK c, d : Numeral(w) = <<c, d>>
  BY <1>1
<1>4. Append(<<a, b>>, j) = Append(<<c, d>>, k)
  BY <1>2, <1>3
<1>5. \A x, y, z : Append(<<x, y>>, z)[3] = z
  OBVIOUS
<1> QED BY <1>4, <1>5

(* What scan_number reads is a numeral of RFC 8259, and none that begins   *)
(* there is longer; and every numeral that is not followed by a byte which *)
(* could belong to one is read (json.hpp, scan_number).  Of the others it  *)
(* reads a longer one or reports an error, as of the 1 in 1.x, which is no *)
(* JSON.                                                                   *)
THEOREM NumeralsAreRead ==
  ASSUME NEW s \in Bytes, NEW i \in 1 .. Len(s)
  PROVE  /\ ScanNumber(s, i) # ParseError =>
              \E j \in i + 1 .. Len(s) + 1 :
                /\ IsNumeral(s, i, j) /\ \A n \in Nat : IsNumeral(s, i, n) => n <= j
                /\ ScanNumber(s, i) = Append(Numeral(SubSeq(s, i, j - 1)), j)
         /\ \A j \in Nat :
              IsNumeral(s, i, j) /\ Byte(s, j) \notin Digits \cup {Dot} \cup Exponents =>
                ScanNumber(s, i) = Append(Numeral(SubSeq(s, i, j - 1)), j)
<1> DEFINE L == Len(s)
           R == NumberResult(s, i)
<1>1. L \in Nat /\ i \in Nat
  BY ByteThere
<1>2. PICK g : /\ Loops(g, NumberScans, NumberHalts(s), NumberResult(s, i), NumberStep(s))
               /\ ScanNumber(s, i) = g[<<i, "init">>]
  BY ScanNumberLoops
<1>3. ASSUME NEW j \in Nat, IsNumeral(s, i, j),
             Byte(s, j) \notin Digits \cup {Dot} \cup Exponents
      PROVE  ScanNumber(s, i) = Append(Numeral(SubSeq(s, i, j - 1)), j)
  <2>1. PICK state \in NumeralStates : Gets(s, i, g, j, state)
    BY <1>1, <1>2, <1>3, GetsToTheEnd
  <2> DEFINE p == <<j, state>>
  <2>2. p \in NumberScans /\ p[1] = j /\ p[2] = state /\ ScanNumber(s, i) = g[p]
    BY <2>1 DEF Gets
  <2>3. NumberNext(s, p) = "done"
    BY <1>3, <2>2 DEF NumberNext, NumeralStates, Automaton
  <2>4. p \in NumberHalts(s) /\ R[p] = Append(Numeral(SubSeq(s, i, j - 1)), j)
    BY <2>2, <2>3 DEF NumberHalts, NumberResult
  <2>5. g[p] = R[p]
    <3> HIDE DEF p
    <3> QED BY <1>2, <2>2, <2>4 DEF Loops
  <2> QED BY <2>2, <2>4, <2>5
<1>4. ASSUME ScanNumber(s, i) # ParseError
      PROVE  \E j \in i + 1 .. Len(s) + 1 :
               /\ IsNumeral(s, i, j) /\ \A n \in Nat : IsNumeral(s, i, n) => n <= j
               /\ ScanNumber(s, i) = Append(Numeral(SubSeq(s, i, j - 1)), j)
  <2> DEFINE I == {p \in NumberScans : p[1] \in i .. L + 1 /\ Shape(s, i, p[1], p[2])}
             x == <<i, "init">>
  <2>1. x \in I
    BY <1>1 DEF NumberScans, NumberStates, Shape
  <2>2. ASSUME NEW p \in I \ NumberHalts(s) PROVE NumberStep(s)[p] \in I
    <3> DEFINE n == NumberNext(s, p)
               q == NumberStep(s)[p]
    <3>1. /\ p[1] \in Nat /\ p[1] <= L /\ p[2] \in NumberStates
          /\ q = <<p[1] + 1, n>> /\ q \in NumberScans /\ n \notin {"done", "error"}
      BY NumberStepGoesOn DEF NumberHalts
    <3>2. Shape(s, i, p[1], p[2]) /\ i <= p[1] /\ n = Automaton(p[2], Byte(s, p[1]))
      BY <1>1 DEF NumberNext
    <3> HIDE DEF n, q
    <3>3. Shape(s, i, p[1] + 1, n)
      BY <1>1, <3>1, <3>2, ShapeGoesOn
    <3>4. q[1] = p[1] + 1 /\ q[2] = n
      BY <3>1
    <3>5. p[1] + 1 \in i .. L + 1
      BY <1>1, <3>1, <3>2
    <3>6. q \in I
      BY <3>1, <3>3, <3>4, <3>5
    <3> QED BY <3>6 DEF q
  <2>3. PICK q \in I \cap NumberHalts(s) : ScanNumber(s, i) = R[q]
    <3>1. I \in SUBSET NumberScans /\ \A p \in I \ NumberHalts(s) : NumberStep(s)[p] \in I
      BY <2>2
    <3> HIDE DEF I, x
    <3>2. \E q \in NumberHalts(s) : q \in I /\ g[x] = NumberResult(s, i)[q]
      BY <1>2, <2>1, <3>1, ScanNumberEnds
    <3> QED BY <1>2, <3>2 DEF x
  <2> DEFINE j == q[1]
             state == q[2]
  <2>4. /\ q \in NumberScans /\ j \in i .. L + 1 /\ j \in Nat /\ state \in NumberStates
        /\ Shape(s, i, j, state)
    BY <1>1 DEF NumberScans
  <2>5. NumberNext(s, q) = "done" /\ R[q] = Append(Numeral(SubSeq(s, i, j - 1)), j)
    BY <1>4, <2>3, <2>4 DEF NumberHalts, NumberResult
  <2>6. state \in NumeralStates
    BY <2>5 DEF NumberNext, Automaton, NumeralStates
  <2> HIDE DEF j, state, I, R
  <2>7. IsNumeral(s, i, j) /\ j \in i + 1 .. L + 1
    BY <1>1, <2>4, <2>6, ShapeIsNumeral
  <2>8. ASSUME NEW n \in Nat, IsNumeral(s, i, n), ~(n <= j) PROVE FALSE
    <3>1. PICK last \in NumeralStates : Gets(s, i, g, n, last)
      BY <1>1, <1>2, <2>8, GetsToTheEnd
    <3> DEFINE y == <<n, last>>
               J == {p \in NumberScans : n <= p[1]}
    <3>2. y \in J /\ ScanNumber(s, i) = g[y] /\ J \in SUBSET NumberScans
      BY <3>1 DEF Gets
    <3>3. ASSUME NEW p \in J \ NumberHalts(s) PROVE NumberStep(s)[p] \in J
      <4> DEFINE z == NumberStep(s)[p]
      <4>1. p[1] \in Nat /\ n <= p[1] /\ z = <<p[1] + 1, NumberNext(s, p)>> /\ z \in NumberScans
        BY NumberStepGoesOn
      <4> HIDE DEF z
      <4>2. z[1] = p[1] + 1
        BY <4>1
      <4>3. z \in J
        BY <4>1, <4>2
      <4> QED BY <4>3 DEF z
    <3>4. PICK z \in NumberHalts(s) : z \in J /\ g[y] = NumberResult(s, i)[z]
      <4>1. /\ J \in SUBSET NumberScans /\ y \in J
            /\ \A p \in J \ NumberHalts(s) : NumberStep(s)[p] \in J
        BY <3>2, <3>3
      <4> HIDE DEF y, J, L
      <4> QED BY ONLY <1>2, <4>1, ScanNumberEnds, s \in Bytes
    <3> HIDE DEF y, J
    <3>5. z \in NumberScans /\ n <= z[1] /\ z[1] \in Nat
      BY <3>4 DEF J, NumberScans
    <3>6. ScanNumber(s, i) = Append(Numeral(SubSeq(s, i, z[1] - 1)), z[1])
      BY <1>4, <3>2, <3>4, <3>5 DEF NumberResult
    <3>7. ScanNumber(s, i) = Append(Numeral(SubSeq(s, i, j - 1)), j)
      BY <2>3, <2>5
    <3>8. z[1] = j
      BY <3>6, <3>7, SameEnd
    <3> QED BY <2>4, <2>8, <3>5, <3>8
  <2> QED BY <2>3, <2>5, <2>7, <2>8
<1> QED BY <1>3, <1>4

(*-------------------------------------------------------------------------*)
(* What the serializer writes for a string is a string that holds it.      *)
(*-------------------------------------------------------------------------*)

(* A recursion over 0 .. N, in which next is a step, has a solution.       *)
Folds(f, N, S, z, next) ==
  /\ f \in [0 .. N -> S] /\ f[0] = z
  /\ \A k \in 1 .. N : f[k] = next[<<f[k - 1], k>>]

LEMMA FoldExists ==
  ASSUME NEW N \in Nat, NEW S, NEW z \in S,
         NEW next \in [S \X Nat -> S]
  PROVE  \E f : Folds(f, N, S, z, next)
<1> DEFINE Partly(f, n) == /\ f \in [0 .. n -> S] /\ f[0] = z
                           /\ \A k \in 1 .. n : f[k] = next[<<f[k - 1], k>>]
           Not == {n \in 0 .. N : ~\E f : Partly(f, n)}
<1>1. \E f : Partly(f, 0)
  <2>1. Partly([k \in 0 .. 0 |-> z], 0)
    OBVIOUS
  <2> QED BY <2>1
<1>2. ASSUME NEW n \in 0 .. N, n + 1 <= N, NEW f, Partly(f, n)
      PROVE  \E h : Partly(h, n + 1)
  <2> DEFINE h == [k \in 0 .. n + 1 |-> IF k = n + 1 THEN next[<<f[n], n + 1>>] ELSE f[k]]
  <2>1. n \in Nat /\ n + 1 \in 1 .. N /\ f[n] \in S /\ \A k \in 0 .. n : f[k] \in S
    BY <1>2
  <2>2. next[<<f[n], n + 1>>] \in S
    <3>1. <<f[n], n + 1>> \in S \X Nat
      BY <2>1
    <3> QED BY <3>1
  <2>3. h \in [0 .. n + 1 -> S]
    <3>1. \A k \in 0 .. n + 1 : k = n + 1 \/ k \in 0 .. n
      BY <2>1
    <3> QED BY <2>1, <2>2, <3>1
  <2>4. h[n + 1] = next[<<f[n], n + 1>>] /\ \A k \in 0 .. n : h[k] = f[k]
    <3>1. n + 1 \in 0 .. n + 1 /\ \A k \in 0 .. n : k \in 0 .. n + 1 /\ k # n + 1
      BY <2>1
    <3> QED BY <3>1
  <2> HIDE DEF h
  <2>5. ASSUME NEW k \in 1 .. n + 1 PROVE h[k] = next[<<h[k - 1], k>>]
    <3>1. CASE k = n + 1
      <4>1. k - 1 = n /\ n \in 0 .. n
        BY <2>1, <3>1
      <4> QED BY <2>4, <3>1, <4>1
    <3>2. CASE k # n + 1
      <4>1. k \in 1 .. n /\ k \in 0 .. n /\ k - 1 \in 0 .. n
        BY <2>1, <3>2
      <4>2. f[k] = next[<<f[k - 1], k>>]
        BY <1>2, <4>1
      <4> QED BY <2>4, <4>1, <4>2
    <3> QED BY <3>1, <3>2
  <2>6. h[0] = z
    <3>1. 0 \in 0 .. n /\ f[0] = z
      BY <1>2, <2>1
    <3> QED BY <2>4, <3>1
  <2>7. Partly(h, n + 1)
    BY <2>3, <2>5, <2>6
  <2> HIDE DEF Partly
  <2> QED BY <2>7
<1>3. Not = {}
  <2>1. SUFFICES ASSUME Not # {} PROVE FALSE
    OBVIOUS
  <2>2. PICK n \in Not : \A m \in Not : n <= m
    <3>1. Not \subseteq Nat
      OBVIOUS
    <3> HIDE DEF Not
    <3> QED BY <2>1, <3>1, Least
  <2> HIDE DEF Partly
  <2>3. n \in 0 .. N /\ n # 0
    BY <1>1
  <2>4. n - 1 \in 0 .. N /\ (n - 1) + 1 = n /\ n - 1 < n /\ n <= N
    BY <2>3
  <2>5. \E f : Partly(f, n - 1)
    BY <2>2, <2>4
  <2> QED BY <1>2, <2>2, <2>4, <2>5
<1>4. PICK f : Partly(f, N)
  <2>1. N \in 0 .. N
    OBVIOUS
  <2> HIDE DEF Partly
  <2> QED BY <1>3, <2>1
<1> QED BY <1>4 DEF Folds

LEMMA DecodeRange ==
  ASSUME NEW state, NEW b
  PROVE  Decode(state, b) \in 0 .. 8
<1>1. ByteClass(b) \in 0 .. 11
  BY DEF ByteClass
<1>2. \A c \in 0 .. 11 : <<0, 1, 2, 3, 5, 8, 7, 1, 1, 1, 4, 6>>[c + 1] \in 0 .. 8
  <2>1. \A c \in 0 .. 11 : \/ c = 0 \/ c = 1 \/ c = 2 \/ c = 3 \/ c = 4 \/ c = 5
                           \/ c = 6 \/ c = 7 \/ c = 8 \/ c = 9 \/ c = 10 \/ c = 11
    OBVIOUS
  <2> QED BY <2>1
<1>3. state = 0 => Decode(state, b) \in 0 .. 8
  BY <1>1, <1>2 DEF Decode
<1>4. state # 0 => Decode(state, b) \in 0 .. 8
  BY DEF Decode
<1> QED BY <1>3, <1>4

(* A string that dump does not refuse is one that the automaton accepts.   *)
LEMMA DumpableIsDecoded == ASSUME NEW x \in Bytes, Dumpable(x) PROVE Decoded(x)
<1> DEFINE N == Len(x)
           next == [p \in (0 .. 8) \X Nat |-> Decode(p[1], x[p[2]])]
           f == DecodeStates(x)
           Follows(g) == g = [k \in 0 .. N |-> IF k = 0 THEN 0 ELSE Decode(g[k - 1], x[k])]
<1>1. N \in Nat
  BY DEF Bytes
<1>2. PICK g \in [0 .. N -> 0 .. 8] : g[0] = 0 /\ \A k \in 1 .. N : g[k] = next[<<g[k - 1], k>>]
  <2> DEFINE S == 0 .. 8
             z == 0
  <2>1. next \in [S \X Nat -> S]
    <3>1. \A p \in S \X Nat : Decode(p[1], x[p[2]]) \in S
      BY DecodeRange
    <3> QED BY <3>1
  <2>2. z \in S
    OBVIOUS
  <2> HIDE DEF next, N, S, z
  <2>3. \E g : Folds(g, N, S, z, next)
    BY <1>1, <2>1, <2>2, FoldExists
  <2> QED BY <2>3 DEF Folds, S, z
<1>3. Follows(g)
  <2>1. ASSUME NEW k \in 1 .. N PROVE g[k] = Decode(g[k - 1], x[k])
    <3>1. k - 1 \in 0 .. N
      BY <1>1
    <3>2. g[k - 1] \in 0 .. 8 /\ k \in Nat
      BY <3>1
    <3>3. next[<<g[k - 1], k>>] = Decode(g[k - 1], x[k])
      BY <3>2
    <3> HIDE DEF next
    <3> QED BY <1>2, <3>3
  <2>2. \A k \in 0 .. N : k = 0 \/ k \in 1 .. N
    OBVIOUS
  <2>3. \A k \in 0 .. N : g[k] = IF k = 0 THEN 0 ELSE Decode(g[k - 1], x[k])
    BY <1>2, <2>1, <2>2
  <2>4. g = [k \in 0 .. N |-> g[k]]
    OBVIOUS
  <2> QED BY <2>3, <2>4
<1>4. Follows(f)
  BY <1>3 DEF DecodeStates
<1>5. ASSUME NEW h, Follows(h), NEW k \in 0 .. N
      PROVE  h[k] = IF k = 0 THEN 0 ELSE Decode(h[k - 1], x[k])
  BY <1>5
<1>6. DOMAIN f = 0 .. N /\ f = [k \in 0 .. N |-> f[k]]
  <2>1. ASSUME NEW h, Follows(h) PROVE DOMAIN h = 0 .. N /\ h = [k \in 0 .. N |-> h[k]]
    BY <2>1
  <2> HIDE DEF f, Follows
  <2> QED BY <1>4, <2>1
<1>7. f[N] = 0 /\ \A k \in 0 .. N : f[k] # 1
  BY DEF Dumpable
<1>8. \A k \in 0 .. N : f[k] = IF k = 0 THEN 0 ELSE Decode(f[k - 1], x[k])
  <2> HIDE DEF f, Follows
  <2> QED BY <1>4, <1>5
<1> HIDE DEF f
<1>9. f[0] = 0 /\ \A k \in 1 .. N : f[k] = Decode(f[k - 1], x[k])
  BY <1>1, <1>8
<1>10. \A k \in 0 .. N : f[k] \in 0 .. 8 \ {1}
  <2>1. \A k \in 0 .. N : k = 0 \/ k \in 1 .. N
    OBVIOUS
  <2> QED BY <1>7, <1>9, <2>1, DecodeRange
<1>11. Decoding(f, x)
  BY <1>6, <1>7, <1>9, <1>10 DEF Decoding
<1> QED BY <1>11 DEF Decoded

(* How the automaton gets to where it is: from what state, with what byte. *)
CameFrom(state, b, next) ==
  /\ state \in 0 .. 8 \ {1} /\ b \in 0 .. 255
  /\ next = 0 => \/ state = 0 /\ b <= 127
                 \/ state = 2 /\ b \in 128 .. 191
  /\ next = 2 => \/ state = 0 /\ b \in 194 .. 223
                 \/ state = 3 /\ b \in 128 .. 191
                 \/ state = 4 /\ b \in 160 .. 191
                 \/ state = 5 /\ b \in 128 .. 159
  /\ next = 3 => \/ state = 0 /\ b \in 225 .. 239 \ {237}
                 \/ state = 6 /\ b \in 144 .. 191
                 \/ state = 7 /\ b \in 128 .. 191
                 \/ state = 8 /\ b \in 128 .. 143
  /\ next = 4 => state = 0 /\ b = 224
  /\ next = 5 => state = 0 /\ b = 237
  /\ next = 6 => state = 0 /\ b = 240
  /\ next = 7 => state = 0 /\ b \in 241 .. 243
  /\ next = 8 => state = 0 /\ b = 244

LEMMA DecodeInto ==
  ASSUME NEW state \in 0 .. 8 \ {1}, NEW b \in 0 .. 255
  PROVE  CameFrom(state, b, Decode(state, b))
<1> DEFINE c == ByteClass(b)
<1>1. /\ c \in 0 .. 11
      /\ c = 0 => b <= 127
      /\ c = 1 => b \in 128 .. 143
      /\ c = 9 => b \in 144 .. 159
      /\ c = 7 => b \in 160 .. 191
      /\ c = 2 => b \in 194 .. 223
      /\ c = 10 => b = 224
      /\ c = 4 => b = 237
      /\ c = 3 => b \in 225 .. 239 \ {237}
      /\ c = 11 => b = 240
      /\ c = 6 => b \in 241 .. 243
      /\ c = 5 => b = 244
  <2>1. (b <= 127 => c = 0) /\ (b \in 128 .. 143 => c = 1) /\ (b \in 144 .. 159 => c = 9)
    BY DEF ByteClass
  <2>2. (b \in 160 .. 191 => c = 7) /\ (b \in 192 .. 193 => c = 8) /\ (b \in 194 .. 223 => c = 2)
    BY DEF ByteClass
  <2>3. (b = 224 => c = 10) /\ (b = 237 => c = 4) /\ (b \in 225 .. 239 \ {237} => c = 3)
    BY DEF ByteClass
  <2>4. b \in 240 .. 244 => c = IF b = 240 THEN 11 ELSE IF b = 244 THEN 5 ELSE 6
    BY DEF ByteClass
  <2>5. b >= 245 => c = 8
    BY DEF ByteClass
  <2> HIDE DEF c
  <2> QED BY <2>1, <2>2, <2>3, <2>4, <2>5
<1> HIDE DEF c
<1>2. CASE state = 0
  <2>1. Decode(state, b) = <<0, 1, 2, 3, 5, 8, 7, 1, 1, 1, 4, 6>>[c + 1]
    BY <1>2 DEF Decode, c
  <2>2. \/ c = 0 \/ c = 1 \/ c = 2 \/ c = 3 \/ c = 4 \/ c = 5
        \/ c = 6 \/ c = 7 \/ c = 8 \/ c = 9 \/ c = 10 \/ c = 11
    BY <1>1
  <2> QED BY <1>1, <1>2, <2>1, <2>2 DEF CameFrom
<1>3. CASE state # 0
  <2>1. Decode(state, b) =
          CASE state = 2 /\ c \in {1, 7, 9} -> 0
            [] state = 3 /\ c \in {1, 7, 9} -> 2
            [] state = 4 /\ c = 7 -> 2
            [] state = 5 /\ c \in {1, 9} -> 2
            [] state = 6 /\ c \in {7, 9} -> 3
            [] state = 7 /\ c \in {1, 7, 9} -> 3
            [] state = 8 /\ c = 1 -> 3
            [] OTHER -> 1
    BY <1>3 DEF Decode, c
  <2> QED BY <1>1, <1>3, <2>1 DEF CameFrom
<1> QED BY <1>2, <1>3

LEMMA SetToSeqOfOne == ASSUME NEW c PROVE SetToSeq({c}) = <<c>>
<1> DEFINE IsSeqOf(f) == f \in [1 .. 1 -> {c}] /\ IsInjective(f)
<1>1. Cardinality({c}) = 1
  BY FS_Singleton
<1>2. SetToSeq({c}) = CHOOSE f \in [1 .. 1 -> {c}] : IsInjective(f)
  BY <1>1 DEF SetToSeq
<1>3. <<c>> \in [1 .. 1 -> {c}] /\ IsInjective(<<c>>)
  BY DEF IsInjective
<1>4. SetToSeq({c}) \in [1 .. 1 -> {c}]
  BY <1>2, <1>3
<1>5. ASSUME NEW f \in [1 .. 1 -> {c}] PROVE f = <<c>>
  <2>1. f[1] = c
    OBVIOUS
  <2> QED BY <2>1
<1> QED BY <1>4, <1>5

(* How a byte is written: by a short escape, by that of a code unit, or as *)
(* it is.                                                                  *)
LEMMA EscapedCases ==
  ASSUME NEW b \in 0 .. 255
  PROVE  \/ \E c \in DOMAIN Escapes \ {117} : Escapes[c] = b /\ Escaped(b) = <<92, c>>
         \/ /\ b <= 31
            /\ Escaped(b) = <<92, 117, 48, 48, HexDigit(b \div 16), HexDigit(b % 16)>>
         \/ b >= 32 /\ b # 34 /\ b # 92 /\ Escaped(b) = <<b>>
<1> DEFINE short == {c \in DOMAIN Escapes \ {47} : Escapes[c] = b}
<1>1. CASE short # {}
  <2>1. PICK c \in short : TRUE
    BY <1>1
  <2>2. \A d \in short : d = c
    BY DEF Escapes, Quote, Backslash
  <2>3. short = {c}
    <3> HIDE DEF short
    <3> QED BY <2>2
  <2>4. Escaped(b) = <<92>> \o SetToSeq(short)
    BY <1>1 DEF Escaped, Backslash
  <2>5. Escaped(b) = <<92>> \o <<c>>
    <3> HIDE DEF short
    <3> QED BY <2>3, <2>4, SetToSeqOfOne
  <2>6. c \in DOMAIN Escapes \ {117} /\ Escapes[c] = b
    BY DEF Escapes, Quote, Backslash
  <2>7. <<92>> \o <<c>> = <<92, c>>
    <3>1. c \in Nat
      BY <2>6 DEF Escapes, Quote, Backslash
    <3>2. <<92>> \in Seq(Nat) /\ <<c>> \in Seq(Nat) /\ Len(<<92>>) = 1 /\ Len(<<c>>) = 1
      BY <3>1
    <3> DEFINE w == <<92>> \o <<c>>
    <3>3. w \in Seq(Nat) /\ Len(w) = 2 /\ w[1] = 92 /\ w[2] = c
      BY <3>2
    <3> HIDE DEF w
    <3>4. w = <<92, c>>
      BY <3>3
    <3> QED BY <3>4 DEF w
  <2>8. Escapes[c] = b /\ Escaped(b) = <<92, c>>
    BY <2>5, <2>6, <2>7
  <2> HIDE DEF short
  <2> QED BY <2>6, <2>8
<1>2. CASE short = {}
  <2>1. Escaped(b) = IF b <= 31
                       THEN <<92, 117, 48, 48, HexDigit(b \div 16), HexDigit(b % 16)>>
                       ELSE <<b>>
    BY <1>2 DEF Escaped, Backslash
  <2>2. b # 34 /\ b # 92
    <3>1. /\ 34 \in DOMAIN Escapes \ {47} /\ Escapes[34] = 34
          /\ 92 \in DOMAIN Escapes \ {47} /\ Escapes[92] = 92
      BY DEF Escapes, Quote, Backslash
    <3> QED BY <1>2, <3>1
  <2> QED BY <2>1, <2>2
<1> QED BY <1>1, <1>2

(* The bytes w are in the text s, from i on.                               *)
HasAt(s, i, w) == \A m \in 1 .. Len(w) : i + m - 1 <= Len(s) /\ s[i + m - 1] = w[m]

(* What is written for a byte of ASCII is read as this byte.               *)
LEMMA AsciiIsRead ==
  ASSUME NEW s \in Bytes, NEW i \in Nat \ {0}, NEW b \in 0 .. 127, HasAt(s, i, Escaped(b))
  PROVE  /\ i \in 1 .. Len(s) /\ s[i] # Quote
         /\ Piece(s, i) = <<<<b>>, i + Len(Escaped(b))>>
<1> DEFINE e == Escaped(b)
<1>0. Len(s) \in Nat
  BY DEF Bytes
<1>1. ASSUME NEW c \in DOMAIN Escapes \ {117}, Escapes[c] = b, e = <<92, c>>
      PROVE  i \in 1 .. Len(s) /\ s[i] # Quote /\ Piece(s, i) = <<<<b>>, i + Len(e)>>
  <2>1. Len(e) = 2 /\ e[1] = 92 /\ e[2] = c
    BY <1>1
  <2>2. i <= Len(s) /\ s[i] = 92 /\ i + 1 <= Len(s) /\ s[i + 1] = c
    <3>1. 1 \in 1 .. Len(e) /\ 2 \in 1 .. Len(e) /\ i + 1 - 1 = i /\ i + 2 - 1 = i + 1
      BY <2>1
    <3> HIDE DEF e
    <3> QED BY <2>1, <3>1 DEF HasAt, e
  <2>3. Byte(s, i + 1) = c /\ c # 117
    BY <2>2 DEF Byte
  <2>4. Piece(s, i) = <<<<b>>, i + 2>>
    BY <1>1, <2>2, <2>3 DEF Piece, Backslash
  <2> QED BY <1>0, <2>1, <2>2, <2>4 DEF Quote
<1>2. ASSUME b <= 31, e = <<92, 117, 48, 48, HexDigit(b \div 16), HexDigit(b % 16)>>
      PROVE  i \in 1 .. Len(s) /\ s[i] # Quote /\ Piece(s, i) = <<<<b>>, i + Len(e)>>
  <2> DEFINE h == HexDigit(b \div 16)
             l == HexDigit(b % 16)
  <2>1. /\ Len(e) = 6 /\ e[1] = 92 /\ e[2] = 117
        /\ e[3] = 48 /\ e[4] = 48 /\ e[5] = h /\ e[6] = l
    BY <1>2
  <2>2. ASSUME NEW m \in 1 .. 6 PROVE i + m - 1 <= Len(s) /\ Byte(s, i + m - 1) = e[m]
    <3> HIDE DEF e
    <3> QED BY <2>1 DEF HasAt, e, Byte
  <2>3. /\ Byte(s, i) = 92 /\ Byte(s, i + 1) = 117 /\ Byte(s, i + 2) = 48 /\ Byte(s, i + 3) = 48
        /\ Byte(s, i + 4) = h /\ Byte(s, i + 5) = l /\ i <= Len(s)
    <3>1. \A m \in 1 .. 6 : i + m - 1 <= Len(s) /\ Byte(s, i + m - 1) = e[m]
      BY <2>2
    <3>2. /\ i + 1 - 1 = i /\ i + 2 - 1 = i + 1 /\ i + 3 - 1 = i + 2
          /\ i + 4 - 1 = i + 3 /\ i + 5 - 1 = i + 4 /\ i + 6 - 1 = i + 5
      OBVIOUS
    <3> HIDE DEF e, h, l
    <3> QED BY <2>1, <3>1, <3>2
  <2> DEFINE p == b \div 16
             q == b % 16
  <2>4. p \in 0 .. 15 /\ q \in 0 .. 15 /\ b = p * 16 + q
    BY <1>2, SMT
  <2>5. IsHex(48, 0) /\ IsHex(h, p) /\ IsHex(l, q)
    <3>1. ASSUME NEW n \in 0 .. 15 PROVE IsHex(HexDigit(n), n)
      BY DEF IsHex, HexDigit
    <3>2. IsHex(48, 0)
      BY DEF IsHex
    <3> HIDE DEF p, q
    <3>3. h = HexDigit(p) /\ l = HexDigit(q)
      BY DEF p, q
    <3> HIDE DEF h, l
    <3> QED BY <2>4, <3>1, <3>2, <3>3
  <2> HIDE DEF p, q, h, l
  <2>6. IsUnit(s, i, b)
    <3> DEFINE d == [k \in 1 .. 4 |-> IF k = 3 THEN p ELSE IF k = 4 THEN q ELSE 0]
    <3>1. d \in [1 .. 4 -> 0 .. 15] /\ d[1] = 0 /\ d[2] = 0 /\ d[3] = p /\ d[4] = q
      BY <2>4
    <3> HIDE DEF d
    <3>2. \A k \in 1 .. 4 : IsHex(Byte(s, i + 1 + k), d[k])
      <4>1. i + 1 + 1 = i + 2 /\ i + 1 + 2 = i + 3 /\ i + 1 + 3 = i + 4 /\ i + 1 + 4 = i + 5
        OBVIOUS
      <4>2. \A k \in 1 .. 4 : k = 1 \/ k = 2 \/ k = 3 \/ k = 4
        OBVIOUS
      <4> QED BY <2>3, <2>5, <3>1, <4>1, <4>2
    <3>3. b = ((d[1] * 16 + d[2]) * 16 + d[3]) * 16 + d[4]
      BY <2>4, <3>1
    <3> QED BY <2>3, <3>1, <3>2, <3>3 DEF IsUnit
  <2>7. IsSingle(s, i, i + 6, b) /\ b \in Nat
    BY <2>6 DEF IsSingle, Surrogates, HighSurrogates, LowSurrogates
  <2>8. UnicodeEscape(s, i + 2) = <<Utf8(b), i + 6>>
    BY <2>7, SingleIsEscape
  <2>9. s[i] = 92 /\ Utf8(b) = <<b>>
    BY <2>3, SMTT(30) DEF Byte, Utf8
  <2>10. Piece(s, i) = <<<<b>>, i + 6>>
    BY <2>3, <2>8, <2>9 DEF Piece, Backslash
  <2> QED BY <1>0, <2>1, <2>3, <2>9, <2>10 DEF Quote
<1>3. ASSUME b >= 32, b # 34, b # 92, e = <<b>>
      PROVE  i \in 1 .. Len(s) /\ s[i] # Quote /\ Piece(s, i) = <<<<b>>, i + Len(e)>>
  <2>1. Len(e) = 1 /\ e[1] = b
    BY <1>3
  <2>2. i <= Len(s) /\ s[i] = b
    <3>1. 1 \in 1 .. Len(e) /\ i + 1 - 1 = i
      BY <2>1
    <3> HIDE DEF e
    <3> QED BY <2>1, <3>1 DEF HasAt, e
  <2>3. Following(s[i]) = 0
    <3>1. s[i] \in 32 .. 127
      BY <1>3, <2>2
    <3> QED BY <3>1 DEF Following
  <2>4. Character(s, i) = <<SubSeq(s, i, i + 0), i + 0 + 1>>
    BY <2>3 DEF Character
  <2>5. SubSeq(s, i, i + 0) = <<b>>
    <3> DEFINE w == SubSeq(s, i, i + 0)
    <3>1. i \in 1 .. Len(s) /\ 0 \in Nat /\ i + 0 <= Len(s)
      BY <1>0, <2>2
    <3>2. w \in Bytes /\ Len(w) = 0 + 1 /\ \A k \in 1 .. 0 + 1 : w[k] = s[i + k - 1]
      BY <3>1, BytesFrom
    <3> HIDE DEF w
    <3>3. Len(w) = 1 /\ w[1] = b
      <4>1. 1 \in 1 .. 0 + 1 /\ i + 1 - 1 = i
        OBVIOUS
      <4> QED BY <2>2, <3>2, <4>1
    <3>4. w = <<b>>
      BY <3>2, <3>3 DEF Bytes
    <3> QED BY <3>4 DEF w
  <2>6. Piece(s, i) = <<<<b>>, i + 1>>
    BY <1>3, <2>2, <2>4, <2>5 DEF Piece, Backslash
  <2> QED BY <1>0, <1>3, <2>1, <2>2, <2>6 DEF Quote
<1>4. b \in 0 .. 255
  OBVIOUS
<1> QED BY <1>1, <1>2, <1>3, <1>4, EscapedCases

(* Other bytes are written as they are.                                    *)
LEMMA NoAsciiIsEscaped ==
  ASSUME NEW b \in 128 .. 255
  PROVE  Escaped(b) = <<b>> /\ Len(Escaped(b)) = 1 /\ Escaped(b)[1] = b
<1>1. \A c \in DOMAIN Escapes : Escapes[c] # b
  BY DEF Escapes, Quote, Backslash
<1>2. b \in 0 .. 255 /\ ~(b <= 31)
  OBVIOUS
<1>3. Escaped(b) = <<b>>
  BY <1>1, <1>2, EscapedCases
<1> QED BY <1>3

LEMMA EscapedIsBytes == ASSUME NEW b \in 0 .. 255 PROVE Escaped(b) \in Bytes /\ Len(Escaped(b)) \in Nat
<1>1. ASSUME NEW c \in DOMAIN Escapes PROVE <<92, c>> \in Bytes
  <2>1. c \in 0 .. 255
    BY DEF Escapes, Quote, Backslash
  <2> QED BY <2>1 DEF Bytes
<1>2. <<92, 117, 48, 48, HexDigit(b \div 16), HexDigit(b % 16)>> \in Bytes
  <2>1. b \div 16 \in 0 .. 15 /\ b % 16 \in 0 .. 15
    BY SMT
  <2>2. \A n \in 0 .. 15 : HexDigit(n) \in 0 .. 255
    BY DEF HexDigit
  <2> DEFINE h == HexDigit(b \div 16)
             l == HexDigit(b % 16)
  <2>3. h \in 0 .. 255 /\ l \in 0 .. 255
    BY <2>1, <2>2
  <2> HIDE DEF h, l
  <2>4. <<92, 117, 48, 48, h, l>> \in Bytes
    BY <2>3 DEF Bytes
  <2> QED BY <2>4 DEF h, l
<1>3. <<b>> \in Bytes
  BY DEF Bytes
<1>4. Escaped(b) \in Bytes
  <2>1. CASE \E c \in DOMAIN Escapes \ {117} : Escapes[c] = b /\ Escaped(b) = <<92, c>>
    <3>1. PICK c \in DOMAIN Escapes : Escaped(b) = <<92, c>>
      BY <2>1
    <3> QED BY <1>1, <3>1
  <2>2. CASE Escaped(b) = <<92, 117, 48, 48, HexDigit(b \div 16), HexDigit(b % 16)>>
    BY <1>2, <2>2
  <2>3. CASE Escaped(b) = <<b>>
    BY <1>3, <2>3
  <2> QED BY <2>1, <2>2, <2>3, EscapedCases
<1> QED BY <1>4 DEF Bytes

(* y is the first of n + 1 bytes, and z may be the second.                 *)
Leads(y, z, n) == Following(y) = n /\ z \in Second(y) /\ y >= 128 /\ z >= 128

LEMMA LeadCases ==
  ASSUME NEW y \in 0 .. 255, NEW z \in 128 .. 191
  PROVE  /\ y \in 194 .. 223 => Leads(y, z, 1)
         /\ y \in 225 .. 239 \ {237} => Leads(y, z, 2)
         /\ y = 224 /\ z >= 160 => Leads(y, z, 2)
         /\ y = 237 /\ z <= 159 => Leads(y, z, 2)
         /\ y \in 241 .. 243 => Leads(y, z, 3)
         /\ y = 240 /\ z >= 144 => Leads(y, z, 3)
         /\ y = 244 /\ z <= 143 => Leads(y, z, 3)
<1>1. y \in 194 .. 223 => Leads(y, z, 1)
  BY DEF Leads, Following, Second, Tails
<1>2. y \in 225 .. 239 \ {237} => Leads(y, z, 2)
  BY DEF Leads, Following, Second, Tails
<1>3. y = 224 /\ z >= 160 => Leads(y, z, 2)
  BY DEF Leads, Following, Second, Tails
<1>4. y = 237 /\ z <= 159 => Leads(y, z, 2)
  BY DEF Leads, Following, Second, Tails
<1>5. y \in 241 .. 243 => Leads(y, z, 3)
  BY DEF Leads, Following, Second, Tails
<1>6. y = 240 /\ z >= 144 => Leads(y, z, 3)
  BY DEF Leads, Following, Second, Tails
<1>7. y = 244 /\ z <= 143 => Leads(y, z, 3)
  BY DEF Leads, Following, Second, Tails
<1> QED BY <1>1, <1>2, <1>3, <1>4, <1>5, <1>6, <1>7

(* In x, the bytes from k - n to k are a character.                        *)
EndsAt(x, k, n) ==
  /\ n \in 0 .. 3 /\ k - n \in 1 .. k
  /\ n = 0 => x[k] <= 127
  /\ n > 0 => /\ Following(x[k - n]) = n /\ x[k - n + 1] \in Second(x[k - n])
              /\ \A m \in 2 .. n : x[k - n + m] \in Tails
              /\ \A m \in 0 .. n : x[k - n + m] >= 128

(* Where the automaton has read a character, it is one of those that the   *)
(* lexer reads, and the automaton had read all that comes before it.       *)
LEMMA CharacterBefore ==
  ASSUME NEW x \in Bytes, NEW g, Decoding(g, x), NEW k \in 1 .. Len(x), g[k] = 0
  PROVE  \E n \in 0 .. 3 : EndsAt(x, k, n) /\ g[k - n - 1] = 0
<1> DEFINE a == x[k]
           b == x[k - 1]
           c == x[k - 2]
           d == x[k - 3]
           p == g[k - 1]
           q == g[k - 2]
           r == g[k - 3]
           u == g[k - 4]
<1>1. ASSUME NEW j \in 1 .. k PROVE CameFrom(g[j - 1], x[j], g[j])
  <2>1. j \in 1 .. Len(x) /\ j - 1 \in 0 .. Len(x)
    BY ByteThere
  <2>2. x[j] \in 0 .. 255 /\ g[j - 1] \in 0 .. 8 \ {1} /\ g[j] = Decode(g[j - 1], x[j])
    BY <2>1, ByteThere DEF Decoding
  <2> QED BY <2>2, DecodeInto
<1>2. g[0] = 0 /\ k \in Nat /\ k >= 1
  BY ByteThere DEF Decoding
<1>3. CameFrom(p, a, 0)
  <2>1. k \in 1 .. k
    BY <1>2
  <2> QED BY <1>1, <2>1
<1>4. ASSUME p # 0 PROVE k >= 2 /\ CameFrom(q, b, p)
  <2>1. k # 1
    BY <1>2, <1>4
  <2>2. k - 1 \in 1 .. k /\ k - 1 - 1 = k - 2
    BY <1>2, <2>1
  <2> QED BY <1>1, <1>2, <2>1, <2>2
<1>5. ASSUME p # 0, q # 0 PROVE k >= 3 /\ CameFrom(r, c, q)
  <2>1. k >= 2
    BY <1>4, <1>5
  <2>2. k # 2
    BY <1>2, <1>5
  <2>3. k - 2 \in 1 .. k /\ k - 2 - 1 = k - 3
    BY <1>2, <2>1, <2>2
  <2> QED BY <1>1, <1>2, <2>1, <2>2, <2>3
<1>6. ASSUME p # 0, q # 0, r # 0 PROVE k >= 4 /\ CameFrom(u, d, r)
  <2>1. k >= 3
    BY <1>5, <1>6
  <2>2. k # 3
    BY <1>2, <1>6
  <2>3. k - 3 \in 1 .. k /\ k - 3 - 1 = k - 4
    BY <1>2, <2>1, <2>2
  <2> QED BY <1>1, <1>2, <2>1, <2>2, <2>3
<1>7. ASSUME a <= 127 PROVE EndsAt(x, k, 0)
  BY <1>2, <1>7 DEF EndsAt
<1>8. ASSUME k >= 2, Leads(b, a, 1)
      PROVE  EndsAt(x, k, 1)
  <2>1. /\ k - 1 + 1 = k /\ k - 1 + 0 = k - 1 /\ k - 1 \in 1 .. k
        /\ \A m \in 0 .. 1 : m = 0 \/ m = 1
        /\ 2 .. 1 = {}
    BY <1>2, <1>8
  <2>2. \A m \in 0 .. 1 : x[k - 1 + m] >= 128
    BY <1>8, <2>1 DEF Leads
  <2>3. \A m \in 2 .. 1 : x[k - 1 + m] \in Tails
    BY <2>1
  <2> QED BY <1>8, <2>1, <2>2, <2>3 DEF EndsAt, Leads
<1>9. ASSUME k >= 3, Leads(c, b, 2), a \in 128 .. 191, a >= 128
      PROVE  EndsAt(x, k, 2)
  <2>1. /\ k - 2 + 1 = k - 1 /\ k - 2 + 2 = k /\ k - 2 + 0 = k - 2 /\ k - 2 \in 1 .. k
        /\ \A m \in 0 .. 2 : m = 0 \/ m = 1 \/ m = 2
        /\ \A m \in 2 .. 2 : m = 2
    BY <1>2, <1>9
  <2>2. \A m \in 0 .. 2 : x[k - 2 + m] >= 128
    BY <1>9, <2>1 DEF Leads
  <2>3. \A m \in 2 .. 2 : x[k - 2 + m] \in Tails
    BY <1>9, <2>1 DEF Tails
  <2> QED BY <1>9, <2>1, <2>2, <2>3 DEF EndsAt, Leads
<1>10. ASSUME k >= 4, Leads(d, c, 3), b \in 128 .. 191, a \in 128 .. 191, b >= 128, a >= 128
       PROVE  EndsAt(x, k, 3)
  <2>1. /\ k - 3 + 1 = k - 2 /\ k - 3 + 2 = k - 1 /\ k - 3 + 3 = k
        /\ k - 3 + 0 = k - 3 /\ k - 3 \in 1 .. k
        /\ \A m \in 0 .. 3 : m = 0 \/ m = 1 \/ m = 2 \/ m = 3
        /\ \A m \in 2 .. 3 : m = 2 \/ m = 3
    BY <1>2, <1>10
  <2>2. \A m \in 0 .. 3 : x[k - 3 + m] >= 128
    BY <1>10, <2>1 DEF Leads
  <2>3. \A m \in 2 .. 3 : x[k - 3 + m] \in Tails
    BY <1>10, <2>1, ZenonT(30) DEF Tails
  <2> QED BY <1>10, <2>1, <2>2, <2>3 DEF EndsAt, Leads
<1> DEFINE Found(n) == EndsAt(x, k, n) /\ g[k - n - 1] = 0
<1>13. /\ k - 0 - 1 = k - 1 /\ k - 1 - 1 = k - 2
       /\ k - 2 - 1 = k - 3 /\ k - 3 - 1 = k - 4
  BY <1>2
<1>14. /\ p = 0 /\ EndsAt(x, k, 0) => Found(0)
       /\ q = 0 /\ EndsAt(x, k, 1) => Found(1)
       /\ r = 0 /\ EndsAt(x, k, 2) => Found(2)
       /\ u = 0 /\ EndsAt(x, k, 3) => Found(3)
  BY <1>13
<1> HIDE DEF p, q, r, u, a, b, c, d, Found
<1>15. Found(0) \/ Found(1) \/ Found(2) \/ Found(3)
  <2>1. \/ p = 0 /\ a <= 127
        \/ p = 2 /\ a \in 128 .. 191
    BY <1>3 DEF CameFrom
  <2>2. CASE p = 0 /\ a <= 127
    BY <1>7, <1>14, <2>2
  <2>3. CASE p = 2 /\ a \in 128 .. 191
    <3>0. a >= 128
      BY <2>3
    <3>1. /\ k >= 2 /\ b \in 0 .. 255
          /\ \/ q = 0 /\ b \in 194 .. 223
             \/ q = 3 /\ b \in 128 .. 191
             \/ q = 4 /\ b \in 160 .. 191
             \/ q = 5 /\ b \in 128 .. 159
      BY <1>4, <2>3 DEF CameFrom
    <3>2. CASE q = 0 /\ b \in 194 .. 223
      <4>1. Leads(b, a, 1)
        BY <2>3, <3>1, <3>2, LeadCases
      <4> QED BY <1>8, <1>14, <3>1, <3>2, <4>1
    <3>3. CASE q = 4 /\ b \in 160 .. 191
      <4>1. k >= 3 /\ r = 0 /\ c = 224
        BY <1>5, <2>3, <3>3 DEF CameFrom
      <4>2. b \in 128 .. 191 /\ b >= 160 /\ 224 \in 0 .. 255
        BY <3>3
      <4>3. Leads(224, b, 2)
        BY <4>2, LeadCases, ZenonT(30)
      <4>4. Leads(c, b, 2)
        BY <4>1, <4>3
      <4> QED BY <1>9, <1>14, <2>3, <3>0, <4>1, <4>4
    <3>4. CASE q = 5 /\ b \in 128 .. 159
      <4>1. k >= 3 /\ r = 0 /\ c = 237
        BY <1>5, <2>3, <3>4 DEF CameFrom
      <4>2. b \in 128 .. 191 /\ b <= 159 /\ 237 \in 0 .. 255
        BY <3>4
      <4>3. Leads(237, b, 2)
        BY <4>2, LeadCases, ZenonT(30)
      <4>4. Leads(c, b, 2)
        BY <4>1, <4>3
      <4> QED BY <1>9, <1>14, <2>3, <3>0, <4>1, <4>4
    <3>5. CASE q = 3 /\ b \in 128 .. 191
      <4>0. b >= 128
        BY <3>5
      <4>1. /\ k >= 3 /\ c \in 0 .. 255
            /\ \/ r = 0 /\ c \in 225 .. 239 \ {237}
               \/ r = 6 /\ c \in 144 .. 191
               \/ r = 7 /\ c \in 128 .. 191
               \/ r = 8 /\ c \in 128 .. 143
        BY <1>5, <2>3, <3>5 DEF CameFrom
      <4>2. CASE r = 0 /\ c \in 225 .. 239 \ {237}
        <5>1. Leads(c, b, 2)
          BY <3>5, <4>1, <4>2, LeadCases, ZenonT(30)
        <5> QED BY <1>9, <1>14, <2>3, <3>0, <4>1, <4>2, <5>1
      <4>3. CASE r = 6 /\ c \in 144 .. 191
        <5>1. k >= 4 /\ u = 0 /\ d = 240
          BY <1>6, <2>3, <3>5, <4>3 DEF CameFrom
        <5>2. c \in 128 .. 191 /\ c >= 144 /\ 240 \in 0 .. 255
          BY <4>3
        <5>3. Leads(240, c, 3)
          BY <5>2, LeadCases, ZenonT(30)
        <5> QED BY <1>10, <1>14, <2>3, <3>0, <3>5, <4>0, <5>1, <5>3
      <4>4. CASE r = 7 /\ c \in 128 .. 191
        <5>1. k >= 4 /\ u = 0 /\ d \in 241 .. 243 /\ d \in 0 .. 255
          BY <1>6, <2>3, <3>5, <4>4 DEF CameFrom
        <5>2. Leads(d, c, 3)
          BY <4>4, <5>1, LeadCases
        <5> QED BY <1>10, <1>14, <2>3, <3>0, <3>5, <4>0, <5>1, <5>2
      <4>5. CASE r = 8 /\ c \in 128 .. 143
        <5>1. k >= 4 /\ u = 0 /\ d = 244
          BY <1>6, <2>3, <3>5, <4>5 DEF CameFrom
        <5>2. c \in 128 .. 191 /\ c <= 143 /\ 244 \in 0 .. 255
          BY <4>5
        <5>3. Leads(244, c, 3)
          BY <5>2, LeadCases, ZenonT(30)
        <5> QED BY <1>10, <1>14, <2>3, <3>0, <3>5, <4>0, <5>1, <5>3
      <4> QED BY <4>1, <4>2, <4>3, <4>4, <4>5
    <3> QED BY <3>1, <3>2, <3>3, <3>4, <3>5
  <2> QED BY <2>1, <2>2, <2>3
<1> QED BY <1>15 DEF Found

(* What is written for the bytes of x is in the text s, from i on: that    *)
(* for the k-th from at[k - 1] up to at[k].                                *)
Spread(s, i, x, at) ==
  /\ at \in [0 .. Len(x) -> Nat \ {0}] /\ at[0] = i
  /\ \A k \in 1 .. Len(x) : /\ HasAt(s, at[k - 1], Escaped(x[k]))
                            /\ at[k] = at[k - 1] + Len(Escaped(x[k]))

LEMMA AsciiIsDumped ==
  ASSUME NEW s \in Bytes, NEW x \in Bytes, NEW i \in Nat, NEW at, Spread(s, i, x, at),
         NEW k \in 1 .. Len(x), x[k] <= 127
  PROVE  /\ at[k - 1] \in 1 .. Len(s) /\ s[at[k - 1]] # Quote
         /\ Piece(s, at[k - 1]) = <<SubSeq(x, k, k), at[k]>>
<1> DEFINE b == x[k]
           j == at[k - 1]
<1>1. b \in 0 .. 127 /\ k - 1 \in 0 .. Len(x) /\ k \in 0 .. Len(x)
  <2>1. b \in 0 .. 255 /\ k \in Nat /\ Len(x) \in Nat /\ b <= 127
    BY ByteThere
  <2> HIDE DEF b
  <2> QED BY <2>1
<1>2. j \in Nat \ {0} /\ HasAt(s, j, Escaped(b)) /\ at[k] = j + Len(Escaped(b))
  BY <1>1 DEF Spread
<1>3. SubSeq(x, k, k) = <<b>>
  <2> DEFINE w == SubSeq(x, k, k + 0)
  <2>1. k + 0 = k /\ k + 0 <= Len(x) /\ 0 \in Nat
    BY ByteThere
  <2>2. w \in Bytes /\ Len(w) = 0 + 1 /\ \A m \in 1 .. 0 + 1 : w[m] = x[k + m - 1]
    BY <2>1, BytesFrom
  <2> HIDE DEF w
  <2>3. Len(w) = 1 /\ w[1] = b
    <3>1. 1 \in 1 .. 0 + 1 /\ k + 1 - 1 = k
      BY ByteThere
    <3> QED BY <2>2, <3>1
  <2>4. w = <<b>>
    BY <2>2, <2>3 DEF Bytes
  <2> QED BY <2>1, <2>4 DEF w
<1> HIDE DEF b, j
<1>4. j \in 1 .. Len(s) /\ s[j] # Quote /\ Piece(s, j) = <<<<b>>, j + Len(Escaped(b))>>
  BY <1>1, <1>2, AsciiIsRead
<1>5. Piece(s, j) = <<SubSeq(x, k, k), at[k]>>
  BY <1>2, <1>3, <1>4
<1> QED BY <1>4, <1>5 DEF j

(* A piece is read, from where the bytes k - n to k of x are, to their end. *)
IsPieceOf(s, x, at, k, n) ==
  /\ at[k - n - 1] \in 1 .. Len(s) /\ s[at[k - n - 1]] # Quote
  /\ Piece(s, at[k - n - 1]) = <<SubSeq(x, k - n, k), at[k]>>

LEMMA OthersAreDumped ==
  ASSUME NEW s \in Bytes, NEW x \in Bytes, NEW i \in Nat, NEW at, Spread(s, i, x, at),
         NEW k \in 1 .. Len(x), NEW n \in 1 .. 3, EndsAt(x, k, n)
  PROVE  IsPieceOf(s, x, at, k, n)
<1> DEFINE l == k - n - 1
           j == at[l]
<1>1. /\ k \in Nat /\ Len(x) \in Nat /\ k <= Len(x) /\ l \in Nat /\ l + n + 1 = k
      /\ k - n = l + 1 /\ n \in 1 .. 3 /\ Len(s) \in Nat
  BY ByteThere DEF EndsAt, Bytes
<1>2. /\ Following(x[l + 1]) = n /\ x[l + 2] \in Second(x[l + 1])
      /\ \A m \in 2 .. n : x[l + 1 + m] \in Tails
      /\ \A m \in 0 .. n : x[l + 1 + m] >= 128
  <2>1. k - n + 1 = l + 2
    BY <1>1
  <2> QED BY <1>1, <2>1 DEF EndsAt
<1> HIDE DEF l
<1>3. ASSUME NEW m \in 0 .. n
      PROVE  /\ at[l + m] \in 1 .. Len(s) /\ s[at[l + m]] = x[l + 1 + m]
             /\ at[l + m + 1] = at[l + m] + 1
  <2> DEFINE p == l + m + 1
             b == x[p]
             a == at[p - 1]
  <2>1. p \in 1 .. Len(x) /\ p - 1 = l + m /\ p = l + 1 + m /\ p - 1 \in 0 .. Len(x)
    BY <1>1
  <2>2. b \in 128 .. 255
    <3>1. b >= 128
      BY <1>2, <2>1
    <3>2. b \in 0 .. 255
      BY <2>1, ByteThere
    <3> HIDE DEF b
    <3> QED BY <3>1, <3>2
  <2>3. HasAt(s, a, Escaped(b)) /\ at[p] = a + Len(Escaped(b)) /\ a \in Nat \ {0}
    BY <2>1 DEF Spread
  <2> DEFINE e == Escaped(b)
  <2>4. Len(e) = 1 /\ e[1] = b
    <3> HIDE DEF b
    <3> QED BY <2>2, NoAsciiIsEscaped
  <2>5. a <= Len(s) /\ s[a] = b
    <3>1. 1 \in 1 .. Len(e) /\ a + 1 - 1 = a
      BY <2>3, <2>4
    <3> HIDE DEF e, a, b
    <3>2. HasAt(s, a, e)
      BY <2>3 DEF e
    <3> QED BY <2>4, <3>1, <3>2 DEF HasAt
  <2>6. a \in 1 .. Len(s) /\ at[p] = a + 1
    BY <1>1, <2>3, <2>4, <2>5
  <2>7. a = at[l + m] /\ b = x[l + 1 + m] /\ at[p] = at[l + m + 1]
    BY <2>1
  <2> HIDE DEF a, b
  <2> QED BY <2>5, <2>6, <2>7
<1>4. \A m \in 0 .. n : at[l + m] = j + m
  <2>1. at[l + 0] = j /\ j \in 1 .. Len(s) /\ 0 \in 0 .. n
    <3>1. l + 0 = l /\ 0 \in 0 .. n
      BY <1>1
    <3> QED BY <1>3, <3>1
  <2>2. /\ at[l + 1] = j + 1
        /\ 2 <= n => at[l + 2] = j + 2
        /\ 3 <= n => at[l + 3] = j + 3
    <3> HIDE DEF j
    <3>1. at[l + 1] = j + 1
      <4>1. l + 0 + 1 = l + 1 /\ 0 \in 0 .. n
        BY <1>1
      <4> QED BY <1>3, <2>1, <4>1
    <3>2. 2 <= n => at[l + 2] = j + 2
      <4>1. l + 1 + 1 = l + 2 /\ 1 \in 0 .. n
        BY <1>1
      <4> QED BY <1>3, <2>1, <3>1, <4>1
    <3>3. 3 <= n => at[l + 3] = j + 3
      <4>1. l + 2 + 1 = l + 3 /\ (3 <= n => 2 \in 0 .. n /\ 2 <= n)
        BY <1>1
      <4> QED BY <1>3, <2>1, <3>2, <4>1
    <3> QED BY <3>1, <3>2, <3>3
  <2>3. ASSUME NEW m \in 0 .. n PROVE at[l + m] = j + m
    <3>1. m = 0 \/ m = 1 \/ (m = 2 /\ 2 <= n) \/ (m = 3 /\ 3 <= n)
      BY <1>1
    <3>2. j + 0 = j
      BY <2>1
    <3> HIDE DEF j
    <3> QED BY <2>1, <2>2, <3>1, <3>2
  <2> QED BY <2>3
<1>5. j \in 1 .. Len(s) /\ at[k] = j + n + 1 /\ j + n <= Len(s)
  <2>1. 0 \in 0 .. n /\ n \in 0 .. n /\ l + 0 = l
    BY <1>1
  <2>2. at[l + n] = j + n /\ at[l + n + 1] = at[l + n] + 1 /\ at[l + n] \in 1 .. Len(s)
    BY <1>3, <1>4, <2>1
  <2>3. j \in 1 .. Len(s)
    BY <1>3, <2>1
  <2>4. l + n + 1 = k
    BY <1>1
  <2> HIDE DEF j
  <2> QED BY <2>2, <2>3, <2>4
<1>6. \A m \in 0 .. n : s[j + m] = x[l + 1 + m] /\ j + m <= Len(s)
  BY <1>3, <1>4
<1> HIDE DEF j
<1>7. Following(s[j]) = n /\ s[j] >= 128 /\ s[j] # Quote /\ s[j] # Backslash
  <2>1. j + 0 = j /\ l + 1 + 0 = l + 1 /\ 0 \in 0 .. n
    BY <1>1, <1>5
  <2>2. s[j] = x[l + 1] /\ x[l + 1] >= 128
    BY <1>2, <1>6, <2>1
  <2>3. Quote = 34 /\ Backslash = 92 /\ s[j] \in 0 .. 255
    BY <1>5, ByteThere DEF Quote, Backslash
  <2> QED BY <1>2, <2>2, <2>3
<1>8. Character(s, j) = <<SubSeq(s, j, j + n), j + n + 1>>
  <2>1. n # -1
    BY <1>1
  <2>2. Byte(s, j + 1) \in Second(s[j])
    <3>1. 0 \in 0 .. n /\ 1 \in 0 .. n /\ j + 0 = j /\ l + 1 + 0 = l + 1 /\ l + 1 + 1 = l + 2
      BY <1>1, <1>5
    <3>2. s[j] = x[l + 1] /\ s[j + 1] = x[l + 2] /\ j + 1 <= Len(s)
      BY <1>6, <3>1
    <3> QED BY <1>2, <3>2 DEF Byte
  <2>3. \A m \in 2 .. n : Byte(s, j + m) \in Tails
    <3>1. \A m \in 2 .. n : m \in 0 .. n
      OBVIOUS
    <3> QED BY <1>2, <1>6, <3>1 DEF Byte
  <2> QED BY <1>7, <2>1, <2>2, <2>3 DEF Character
<1>9. SubSeq(s, j, j + n) = SubSeq(x, k - n, k)
  <2> DEFINE v == SubSeq(s, j, j + n)
             w == SubSeq(x, l + 1, l + 1 + n)
  <2>1. v \in Bytes /\ Len(v) = n + 1 /\ \A m \in 1 .. n + 1 : v[m] = s[j + m - 1]
    <3>1. n \in Nat
      BY <1>1
    <3> QED BY <1>5, <3>1, BytesFrom
  <2>2. w \in Bytes /\ Len(w) = n + 1 /\ \A m \in 1 .. n + 1 : w[m] = x[l + 1 + m - 1]
    <3>1. n \in Nat /\ l + 1 \in 1 .. Len(x) /\ l + 1 + n <= Len(x)
      BY <1>1
    <3> QED BY <3>1, BytesFrom
  <2>3. ASSUME NEW m \in 1 .. n + 1 PROVE s[j + m - 1] = x[l + 1 + m - 1]
    <3>1. m - 1 \in 0 .. n /\ j + (m - 1) = j + m - 1 /\ l + 1 + (m - 1) = l + 1 + m - 1
      BY <1>1, <1>5
    <3> QED BY <1>6, <3>1
  <2>4. k - n = l + 1 /\ k = l + 1 + n
    BY <1>1
  <2> HIDE DEF v, w
  <2>5. \A m \in 1 .. Len(v) : v[m] = w[m]
    BY <2>1, <2>2, <2>3
  <2>6. v = w
    BY <2>1, <2>2, <2>5, SeqEqual DEF Bytes
  <2> QED BY <2>4, <2>6 DEF v, w
<1>10. Piece(s, j) = <<SubSeq(x, k - n, k), at[k]>>
  BY <1>5, <1>7, <1>8, <1>9 DEF Piece
<1>11. at[k - n - 1] = j
  BY DEF j, l
<1> QED BY <1>5, <1>7, <1>10, <1>11 DEF IsPieceOf

(* f is the loop of scan_string over s, and goes from one state to another. *)
Scans(f, s) == Loops(f, StringStates(s), StringHalts(s), StringResult(s), StringStep(s))
Comes(f, s, i, h, j, w) == <<j, w>> \in StringStates(s) /\ f[<<i, h>>] = f[<<j, w>>]

(* The scan goes on over a piece that it can read, and stops at a quote.   *)
LEMMA ScanGoesOn ==
  ASSUME NEW s \in Bytes, NEW f, Scans(f, s),
         NEW i \in 1 .. Len(s), NEW h \in Bytes, NEW b, NEW j \in Nat \ {0},
         s[i] # Quote, Piece(s, i) = <<b, j>>
  PROVE  Comes(f, s, i, h, j, h \o b)
<1> DEFINE p == <<i, h>>
<1>1. p \in StringStates(s) /\ p[1] = i /\ p[2] = h
  BY ByteThere DEF StringStates
<1>2. Byte(s, i) # Eof
  <2>1. s[i] \in 0 .. 255 /\ Byte(s, i) = s[i]
    BY ByteThere DEF Byte
  <2>2. \A y \in 0 .. 255 : y # -1
    OBVIOUS
  <2> QED BY <2>1, <2>2 DEF Eof
<1>3. Piece(s, i) # IllFormed /\ Piece(s, i)[1] = b /\ Piece(s, i)[2] = j
  <2>1. <<b, j>>[1] = b /\ <<b, j>>[2] = j /\ IllFormed[2] = 0
    BY DEF IllFormed
  <2> QED BY <2>1
<1> HIDE DEF p
<1>4. p \in StringStates(s) \ StringHalts(s)
  BY <1>1, <1>2, <1>3 DEF StringHalts
<1>5. StringStep(s)[p] = <<j, h \o b>> /\ StringStep(s)[p] \in StringStates(s)
  <2>1. /\ StringStep(s)[p] = <<Piece(s, p[1])[2], p[2] \o Piece(s, p[1])[1]>>
        /\ StringStep(s)[p] \in StringStates(s)
    BY <1>4, StringStepFits
  <2> QED BY <1>1, <1>3, <2>1
<1>6. f[p] = f[StringStep(s)[p]]
  BY <1>4 DEF Loops, Scans
<1> QED BY <1>5, <1>6 DEF Comes, p

LEMMA ScanStops ==
  ASSUME NEW s \in Bytes, NEW f, Scans(f, s),
         NEW i, NEW h, <<i, h>> \in StringStates(s), Byte(s, i) = Quote
  PROVE  f[<<i, h>>] = <<"value_string", h, i + 1>>
<1> DEFINE p == <<i, h>>
<1>1. p \in StringStates(s) /\ p[1] = i /\ p[2] = h
  OBVIOUS
<1>2. Byte(s, p[1]) # Eof /\ s[p[1]] = Quote
  BY <1>1 DEF Byte, Eof, Quote
<1> HIDE DEF p
<1>3. p \in StringHalts(s) /\ StringResult(s)[p] = <<"value_string", p[2], p[1] + 1>>
  BY <1>1, <1>2 DEF StringHalts, StringResult
<1>4. f[p] = StringResult(s)[p]
  BY <1>1, <1>3 DEF Loops, Scans
<1> QED BY <1>1, <1>3, <1>4 DEF p

LEMMA CharacterIsDumped ==
  ASSUME NEW s \in Bytes, NEW x \in Bytes, NEW i \in Nat, NEW at, Spread(s, i, x, at),
         NEW k \in 1 .. Len(x), NEW n \in 0 .. 3, EndsAt(x, k, n)
  PROVE  IsPieceOf(s, x, at, k, n)
<1>1. CASE n = 0
  <2>1. x[k] <= 127
    BY <1>1 DEF EndsAt
  <2>2. k - 0 - 1 = k - 1 /\ k - 0 = k
    OBVIOUS
  <2>3. /\ at[k - 1] \in 1 .. Len(s) /\ s[at[k - 1]] # Quote
        /\ Piece(s, at[k - 1]) = <<SubSeq(x, k, k), at[k]>>
    BY <2>1, AsciiIsDumped
  <2> QED BY <1>1, <2>2, <2>3 DEF IsPieceOf
<1>2. CASE n # 0
  <2>1. n \in 1 .. 3
    BY <1>2
  <2> QED BY <2>1, OthersAreDumped
<1> QED BY <1>1, <1>2

LEMMA DumpedIsScanned ==
  ASSUME NEW s \in Bytes, NEW x \in Bytes, NEW i \in 1 .. Len(s) + 1, NEW at,
         Spread(s, i, x, at), Decoded(x), Byte(s, at[Len(x)]) = Quote
  PROVE  ScanString(s, i) = <<"value_string", x, at[Len(x)] + 1>>
<1>1. PICK g : Decoding(g, x)
  BY DEF Decoded
<1>2. PICK f : Scans(f, s) /\ ScanString(s, i) = f[<<i, <<>>>>]
  BY ScanStringLoops DEF Scans
<1> DEFINE N == Len(x)
           held(k) == SubSeq(x, 1, k)
           Goes(k) == /\ <<at[k], held(k)>> \in StringStates(s)
                      /\ ScanString(s, i) = f[<<at[k], held(k)>>]
           Stuck == {k \in 0 .. N : g[k] = 0 /\ ~Goes(k)}
<1>3. N \in Nat /\ g[N] = 0 /\ at \in [0 .. N -> Nat \ {0}] /\ at[0] = i
  BY <1>1 DEF Bytes, Decoding, Spread
<1>4. Goes(0)
  <2>1. held(0) = <<>> /\ <<>> \in Bytes
    <3>1. 1 \in Int /\ 0 \in Int /\ 0 < 1
      OBVIOUS
    <3>2. SubSeq(x, 1, 0) = <<>>
      BY <3>1, SubSeqEmpty
    <3> QED BY <3>2 DEF Bytes
  <2>2. <<i, <<>>>> \in StringStates(s)
    BY <2>1 DEF StringStates
  <2> HIDE DEF held
  <2> QED BY <1>2, <1>3, <2>1, <2>2
<1>5. ASSUME NEW k \in 1 .. N, NEW n \in 0 .. 3, EndsAt(x, k, n), Goes(k - n - 1)
      PROVE  Goes(k)
  <2> DEFINE l == k - n - 1
             b == SubSeq(x, k - n, k)
  <2>1. l \in 0 .. N /\ l + 1 = k - n /\ k \in l .. N /\ l \in Nat /\ k \in 0 .. N
    BY <1>3, <1>5 DEF EndsAt
  <2>2. at[l] \in 1 .. Len(s) /\ s[at[l]] # Quote /\ Piece(s, at[l]) = <<b, at[k]>>
    <3>1. i \in Nat
      BY DEF Bytes
    <3>2. IsPieceOf(s, x, at, k, n)
      BY <1>5, <3>1, CharacterIsDumped
    <3> QED BY <3>2 DEF IsPieceOf
  <2>3. held(l) \in Bytes
    BY <1>5 DEF StringStates
  <2>4. held(l) \o b = held(k)
    <3>1. 1 \in 1 .. Len(x) + 1 /\ l \in 1 - 1 .. Len(x) /\ k \in l .. Len(x)
      BY <1>3, <2>1
    <3>2. SubSeq(x, 1, l) \o SubSeq(x, l + 1, k) = SubSeq(x, 1, k)
      BY <3>1, ConcatAdjacentSubSeq DEF Bytes
    <3> QED BY <2>1, <3>2
  <2>5. at[k] \in Nat \ {0}
    BY <1>3, <2>1
  <2>6. Goes(l)
    BY <1>5
  <2> DEFINE a == at[l]
             j == at[k]
             h == held(l)
  <2> HIDE DEF l, b, held, a, j, h
  <2>7. Comes(f, s, a, h, j, h \o b)
    <3>1. a \in 1 .. Len(s) /\ h \in Bytes /\ j \in Nat \ {0} /\ s[a] # Quote
      BY <2>2, <2>3, <2>5 DEF a, h, j
    <3>2. Piece(s, a) = <<b, j>>
      BY <2>2 DEF a, j
    <3> QED BY <1>2, <3>1, <3>2, ScanGoesOn
  <2> QED BY <2>4, <2>6, <2>7 DEF Comes, a, h, j
<1>6. Goes(N)
  <2>1. SUFFICES ASSUME Stuck # {} PROVE FALSE
    <3>1. N \in 0 .. N
      BY <1>3
    <3> HIDE DEF Goes
    <3> QED BY <1>3, <3>1
  <2>2. PICK k \in Stuck : \A h \in Stuck : k <= h
    <3>1. Stuck \subseteq Nat
      OBVIOUS
    <3> HIDE DEF Stuck
    <3> QED BY <2>1, <3>1, Least
  <2> HIDE DEF Goes
  <2>3. k \in 0 .. N /\ ~Goes(k) /\ k # 0 /\ g[k] = 0
    BY <1>4
  <2>4. k \in 1 .. N
    BY <1>3, <2>3
  <2>5. PICK n \in 0 .. 3 : EndsAt(x, k, n) /\ g[k - n - 1] = 0
    BY <1>1, <2>3, <2>4, CharacterBefore
  <2>6. k - n - 1 \in 0 .. N /\ k - n - 1 < k
    BY <1>3, <2>4, <2>5 DEF EndsAt
  <2>7. k - n - 1 \notin Stuck
    <3> DEFINE l == k - n - 1
    <3>1. l < k /\ l \in Nat /\ k \in Nat
      BY <1>3, <2>4, <2>6
    <3> HIDE DEF l, Stuck
    <3>2. l \notin Stuck
      BY <2>2, <3>1
    <3> QED BY <3>2 DEF l
  <2>8. Goes(k - n - 1)
    BY <2>5, <2>6, <2>7
  <2> QED BY <1>5, <2>3, <2>4, <2>5, <2>8
<1>7. held(N) = x
  BY SubSeqFull DEF Bytes
<1>8. f[<<at[N], held(N)>>] = <<"value_string", held(N), at[N] + 1>>
  <2> HIDE DEF held
  <2> QED BY <1>2, <1>6, ScanStops
<1> QED BY <1>6, <1>7, <1>8

(* c[k] is what is written for the first k bytes of x.                     *)
Written(c, x) ==
  /\ c \in [0 .. Len(x) -> Bytes] /\ c[0] = <<>>
  /\ \A k \in 1 .. Len(x) : c[k] = c[k - 1] \o Escaped(x[k])

LEMMA WrittenExists == ASSUME NEW x \in Bytes PROVE \E c : Written(c, x)
<1> DEFINE N == Len(x)
           z == <<>>
           next == [p \in Bytes \X Nat |-> IF p[2] \in 1 .. N THEN p[1] \o Escaped(x[p[2]]) ELSE p[1]]
<1>1. N \in Nat
  BY DEF Bytes
<1>2. ASSUME NEW k \in 1 .. N PROVE Escaped(x[k]) \in Bytes
  BY ByteThere, EscapedIsBytes
<1>3. next \in [Bytes \X Nat -> Bytes]
  <2>1. ASSUME NEW p \in Bytes \X Nat
        PROVE  (IF p[2] \in 1 .. N THEN p[1] \o Escaped(x[p[2]]) ELSE p[1]) \in Bytes
    <3> DEFINE v == p[1]
               w == Escaped(x[p[2]])
    <3>1. v \in Bytes /\ (p[2] \in 1 .. N => w \in Bytes)
      BY <1>2
    <3> HIDE DEF v, w
    <3>2. p[2] \in 1 .. N => v \o w \in Bytes
      BY <3>1, ConcatProperties DEF Bytes
    <3> QED BY <3>1, <3>2 DEF v, w
  <2> QED BY <2>1
<1>4. z \in Bytes
  BY DEF Bytes
<1> HIDE DEF N, next, z
<1>5. PICK c : Folds(c, N, Bytes, z, next)
  BY <1>1, <1>3, <1>4, FoldExists
<1>6. c \in [0 .. N -> Bytes] /\ c[0] = <<>> /\ \A k \in 1 .. N : c[k] = next[<<c[k - 1], k>>]
  BY <1>5 DEF Folds, z
<1>7. ASSUME NEW k \in 1 .. N PROVE c[k] = c[k - 1] \o Escaped(x[k])
  <2>1. k - 1 \in 0 .. N /\ k \in Nat
    BY <1>1
  <2>2. c[k - 1] \in Bytes
    BY <1>6, <2>1
  <2> DEFINE p == <<c[k - 1], k>>
  <2>3. p \in Bytes \X Nat /\ p[1] = c[k - 1] /\ p[2] = k
    BY <2>1, <2>2
  <2> HIDE DEF p
  <2>4. next[p] = p[1] \o Escaped(x[p[2]])
    BY <2>3 DEF next
  <2>5. c[k] = next[p]
    BY <1>6 DEF p
  <2> QED BY <2>3, <2>4, <2>5
<1> QED BY <1>6, <1>7 DEF Written, N

LEMMA FlattenIsWritten ==
  ASSUME NEW x \in Bytes, NEW c, Written(c, x)
  PROVE  FlattenSeq([k \in DOMAIN x |-> Escaped(x[k])]) = c[Len(x)]
<1> DEFINE N == Len(x)
           W == [k \in DOMAIN x |-> Escaped(x[k])]
           Flattens(f) == f = [k \in 1 .. N |-> IF k = 1 THEN W[k] ELSE f[k - 1] \o W[k]]
<1>1. N \in Nat /\ DOMAIN x = 1 .. N
  BY DEF Bytes
<1>2. W = [k \in 1 .. N |-> Escaped(x[k])] /\ Len(W) = N
  BY <1>1
<1>3. \A k \in 1 .. N : W[k] = Escaped(x[k])
  BY <1>2
<1>4. c[0] = <<>> /\ c \in [0 .. N -> Bytes] /\ \A k \in 1 .. N : c[k] = c[k - 1] \o W[k]
  BY <1>3 DEF Written
<1>5. ASSUME NEW k \in 1 .. N PROVE W[k] \in Bytes
  <2>1. x[k] \in 0 .. 255
    BY ByteThere
  <2> HIDE DEF W
  <2> QED BY <1>3, <2>1, EscapedIsBytes
<1>6. CASE N = 0
  <2>1. W = <<>>
    BY <1>2, <1>6
  <2>2. FlattenSeq(W) = W
    BY <1>2, <1>6 DEF FlattenSeq
  <2> QED BY <1>4, <1>6, <2>1, <2>2
<1>7. CASE N # 0
  <2>0. 1 \in 1 .. N /\ N \in 1 .. N
    BY <1>1, <1>7
  <2> DEFINE F == CHOOSE f : Flattens(f)
  <2>1. FlattenSeq(W) = F[N]
    BY <1>2, <1>7 DEF FlattenSeq
  <2> HIDE DEF W
  <2>2. c[1] = W[1]
    <3>1. c[1] = c[1 - 1] \o W[1] /\ 1 - 1 = 0
      BY <1>4, <2>0
    <3>2. W[1] \in Seq(0 .. 255)
      BY <1>5, <2>0 DEF Bytes
    <3>3. <<>> \o W[1] = W[1]
      BY <3>2, ConcatEmptySeq
    <3> QED BY <1>4, <3>1, <3>3
  <2>3. Flattens([k \in 1 .. N |-> c[k]])
    <3> DEFINE f == [k \in 1 .. N |-> c[k]]
    <3>1. ASSUME NEW k \in 1 .. N PROVE c[k] = IF k = 1 THEN W[k] ELSE f[k - 1] \o W[k]
      <4>1. CASE k = 1
        BY <2>2, <4>1
      <4>2. CASE k # 1
        <5>1. k - 1 \in 1 .. N
          BY <1>1, <4>2
        <5>2. f[k - 1] = c[k - 1]
          BY <5>1
        <5> QED BY <1>4, <4>2, <5>2
      <4> QED BY <4>1, <4>2
    <3> QED BY <3>1
  <2>4. Flattens(F)
    <3> HIDE DEF Flattens
    <3> QED BY <2>3
  <2>5. \A k \in 1 .. N : F[k] = IF k = 1 THEN W[k] ELSE F[k - 1] \o W[k]
    <3>1. ASSUME NEW f, Flattens(f), NEW k \in 1 .. N
          PROVE  f[k] = IF k = 1 THEN W[k] ELSE f[k - 1] \o W[k]
      BY <3>1
    <3> HIDE DEF F, Flattens
    <3> QED BY <2>4, <3>1
  <2> HIDE DEF F
  <2> DEFINE Other == {k \in 1 .. N : F[k] # c[k]}
  <2>6. Other = {}
    <3>1. SUFFICES ASSUME Other # {} PROVE FALSE
      OBVIOUS
    <3>2. PICK k \in Other : \A h \in Other : k <= h
      <4>1. Other \subseteq Nat
        OBVIOUS
      <4> HIDE DEF Other
      <4> QED BY <3>1, <4>1, Least
    <3>3. k \in 1 .. N /\ F[k] # c[k]
      OBVIOUS
    <3>4. k # 1
      BY <2>2, <2>5, <3>3
    <3>5. k - 1 \in 1 .. N /\ k - 1 < k
      BY <1>1, <3>3, <3>4
    <3>6. F[k - 1] = c[k - 1]
      BY <1>1, <3>2, <3>5
    <3> HIDE DEF Other
    <3> QED BY <1>4, <2>5, <3>3, <3>4, <3>6
  <2>7. F[N] = c[N]
    <3>1. F[N] # c[N] => N \in Other
      BY <2>0
    <3> HIDE DEF Other
    <3> QED BY <2>6, <3>1
  <2> QED BY <2>1, <2>7 DEF W
<1> QED BY <1>6, <1>7

(* What is written for a prefix is a prefix of what is written.            *)
LEMMA WrittenBegins ==
  ASSUME NEW x \in Bytes, NEW c, Written(c, x), NEW k \in 0 .. Len(x)
  PROVE  /\ Len(c[k]) <= Len(c[Len(x)])
         /\ \A m \in 1 .. Len(c[k]) : c[Len(x)][m] = c[k][m]
<1> DEFINE N == Len(x)
           Begins(j) == Len(c[j]) <= Len(c[N]) /\ \A m \in 1 .. Len(c[j]) : c[N][m] = c[j][m]
           Not == {n \in 0 .. N : ~Begins(N - n)}
<1>1. N \in Nat /\ \A j \in 0 .. N : c[j] \in Seq(0 .. 255) /\ Len(c[j]) \in Nat
  BY DEF Bytes, Written
<1>2. Begins(N)
  <2>1. N \in 0 .. N
    BY <1>1
  <2> HIDE DEF N
  <2> QED BY <1>1, <2>1
<1>3. ASSUME NEW j \in 1 .. N, Begins(j) PROVE Begins(j - 1)
  <2> DEFINE a == c[j - 1]
             e == Escaped(x[j])
  <2>1. j - 1 \in 0 .. N /\ j \in 0 .. N
    BY <1>1
  <2>2. e \in Seq(0 .. 255) /\ Len(e) \in Nat
    BY ByteThere, EscapedIsBytes DEF Bytes
  <2>3. a \in Seq(0 .. 255) /\ Len(a) \in Nat
    BY <1>1, <2>1
  <2>4. c[j] = a \o e
    BY DEF Written
  <2> HIDE DEF a, e
  <2>5. Len(c[j]) = Len(a) + Len(e) /\ \A m \in 1 .. Len(a) : c[j][m] = a[m]
    <3>1. /\ Len(a \o e) = Len(a) + Len(e)
          /\ \A m \in 1 .. Len(a) + Len(e) : (a \o e)[m] = IF m <= Len(a) THEN a[m] ELSE e[m - Len(a)]
      BY <2>2, <2>3, ConcatProperties
    <3>2. \A m \in 1 .. Len(a) : m \in 1 .. Len(a) + Len(e) /\ m <= Len(a)
      BY <2>2, <2>3
    <3> QED BY <2>4, <3>1, <3>2
  <2>6. Len(a) <= Len(c[N]) /\ \A m \in 1 .. Len(a) : m \in 1 .. Len(c[j])
    <3>1. N \in 0 .. N
      BY <1>1
    <3>2. Len(c[N]) \in Nat
      BY <1>1, <3>1
    <3> HIDE DEF N
    <3> QED BY <1>3, <2>2, <2>3, <2>5, <3>2
  <2> HIDE DEF N
  <2>7. \A m \in 1 .. Len(a) : c[N][m] = a[m]
    BY <1>3, <2>5, <2>6
  <2> QED BY <2>6, <2>7 DEF a
<1>4. Not = {}
  <2>1. SUFFICES ASSUME Not # {} PROVE FALSE
    OBVIOUS
  <2>2. PICK n \in Not : \A h \in Not : n <= h
    <3>1. Not \subseteq Nat
      OBVIOUS
    <3> HIDE DEF Not
    <3> QED BY <2>1, <3>1, Least
  <2> HIDE DEF Begins
  <2>3. n \in 0 .. N /\ ~Begins(N - n)
    OBVIOUS
  <2>4. n # 0
    <3>1. N - 0 = N
      BY <1>1
    <3> QED BY <1>2, <2>3, <3>1
  <2>5. n - 1 \in 0 .. N /\ n - 1 < n /\ N - (n - 1) \in 1 .. N /\ N - (n - 1) - 1 = N - n
    BY <1>1, <2>3, <2>4
  <2>6. Begins(N - (n - 1))
    BY <2>2, <2>3, <2>5
  <2> HIDE DEF N
  <2>7. Begins(N - (n - 1) - 1)
    BY <1>3, <2>5, <2>6
  <2> QED BY <2>3, <2>5, <2>7
<1>5. Begins(k)
  <2>1. N - k \in 0 .. N /\ N - (N - k) = k
    BY <1>1
  <2> HIDE DEF Begins
  <2>2. N - k \notin Not
    BY <1>4
  <2> QED BY <2>1, <2>2
<1> QED BY <1>5

(* v is a and then b; and it is a text with w in it, after a.              *)
Concatenates(a, b, v) ==
  /\ v \in Seq(0 .. 255) /\ Len(v) = Len(a) + Len(b)
  /\ \A m \in 1 .. Len(a) + Len(b) : v[m] = IF m <= Len(a) THEN a[m] ELSE b[m - Len(a)]
Encloses(a, w, b, v) ==
  /\ v \in Bytes /\ Len(v) = Len(a) + Len(w) + Len(b)
  /\ \A m \in 1 .. Len(w) : v[Len(a) + m] = w[m]
  /\ \A m \in 1 .. Len(b) : v[Len(a) + Len(w) + m] = b[m]

LEMMA BytesJoin == ASSUME NEW a \in Bytes, NEW b \in Bytes PROVE Concatenates(a, b, a \o b)
<1>1. a \in Seq(0 .. 255) /\ b \in Seq(0 .. 255)
  BY DEF Bytes
<1> QED BY <1>1, ConcatProperties DEF Concatenates

LEMMA BytesEnclose ==
  ASSUME NEW a \in Bytes, NEW w \in Bytes, NEW b \in Bytes
  PROVE  Encloses(a, w, b, (a \o w) \o b)
<1> DEFINE v == a \o w
<1>1. /\ a \in Seq(0 .. 255) /\ w \in Seq(0 .. 255) /\ b \in Seq(0 .. 255)
      /\ Len(a) \in Nat /\ Len(w) \in Nat /\ Len(b) \in Nat
  BY DEF Bytes
<1>2. /\ v \in Seq(0 .. 255) /\ Len(v) = Len(a) + Len(w)
      /\ \A m \in 1 .. Len(a) + Len(w) : v[m] = IF m <= Len(a) THEN a[m] ELSE w[m - Len(a)]
  BY BytesJoin DEF Concatenates
<1> HIDE DEF v
<1>3. /\ v \o b \in Seq(0 .. 255) /\ Len(v \o b) = Len(v) + Len(b)
      /\ \A m \in 1 .. Len(v) + Len(b) : (v \o b)[m] = IF m <= Len(v) THEN v[m] ELSE b[m - Len(v)]
  BY <1>2, BytesJoin DEF Concatenates, Bytes
<1>4. ASSUME NEW m \in 1 .. Len(w) PROVE (v \o b)[Len(a) + m] = w[m]
  <2> DEFINE n == Len(a) + m
  <2>1. /\ n \in 1 .. Len(a) + Len(w) /\ n \in 1 .. Len(v) + Len(b) /\ n <= Len(v)
        /\ ~(n <= Len(a)) /\ n - Len(a) = m
    BY <1>1, <1>2
  <2> HIDE DEF n
  <2> QED BY <1>2, <1>3, <2>1 DEF n
<1>5. v \o b \in Bytes /\ Len(v \o b) = Len(a) + Len(w) + Len(b)
  BY <1>2, <1>3 DEF Bytes
<1>6. ASSUME NEW m \in 1 .. Len(b) PROVE (v \o b)[Len(a) + Len(w) + m] = b[m]
  <2> DEFINE n == Len(a) + Len(w) + m
  <2>1. n \in 1 .. Len(v) + Len(b) /\ ~(n <= Len(v)) /\ n - Len(v) = m
    BY <1>1, <1>2
  <2> HIDE DEF n
  <2> QED BY <1>3, <2>1 DEF n
<1> QED BY <1>4, <1>5, <1>6 DEF Encloses, v

(* In a text with what the serializer writes for x, from the quote at i up *)
(* to the one at e, the bytes of x are spread between them.                *)
DumpedIn(s, x, i, e) ==
  /\ s \in Bytes /\ i + 1 \in 1 .. Len(s) + 1 /\ Byte(s, i) = Quote
  /\ \E at : Spread(s, i + 1, x, at) /\ Byte(s, at[Len(x)]) = Quote /\ at[Len(x)] = e

LEMMA DumpIsSpread ==
  ASSUME NEW x \in Bytes, NEW a \in Bytes, NEW b \in Bytes,
         NEW s, s = (a \o DumpString(x)) \o b
  PROVE  DumpedIn(s, x, Len(a) + 1, Len(a) + Len(DumpString(x)))
<1>1. PICK c : Written(c, x)
  BY WrittenExists
<1> DEFINE N == Len(x)
           w == c[N]
           d == DumpString(x)
           i == Len(a) + 2
           at == [k \in 0 .. N |-> i + Len(c[k])]
<1>2. /\ N \in Nat /\ Len(a) \in Nat /\ i \in Nat
      /\ c \in [0 .. N -> Bytes] /\ c[0] = <<>> /\ \A k \in 1 .. N : c[k] = c[k - 1] \o Escaped(x[k])
      /\ \A k \in 0 .. N : Len(c[k]) \in Nat
  BY <1>1 DEF Bytes, Written
<1>3. w \in Bytes /\ Len(w) \in Nat
  BY <1>2
<1>4. \A k \in 0 .. N : Len(c[k]) <= Len(w) /\ \A m \in 1 .. Len(c[k]) : w[m] = c[k][m]
  BY <1>1, WrittenBegins
<1>5. d = (<<34>> \o w) \o <<34>>
  BY <1>1, FlattenIsWritten DEF DumpString, Quote
<1> HIDE DEF w, d, N
<1>6. /\ d \in Bytes /\ Len(d) = Len(w) + 2 /\ d[1] = 34 /\ d[Len(w) + 2] = 34
      /\ \A m \in 1 .. Len(w) : d[1 + m] = w[m]
  <2> DEFINE q == <<34>>
             z == <<>>
             qw == q \o w
  <2>1. q \in Seq(0 .. 255) /\ Len(q) = 1 /\ q[1] = 34 /\ w \in Seq(0 .. 255)
    BY <1>3 DEF Bytes
  <2> HIDE DEF q
  <2>2. /\ qw \in Seq(0 .. 255) /\ Len(qw) = 1 + Len(w)
        /\ \A m \in 1 .. 1 + Len(w) : qw[m] = IF m <= 1 THEN q[m] ELSE w[m - 1]
    <3>1. q \in Bytes
      BY <2>1 DEF Bytes
    <3>2. Concatenates(q, w, qw)
      BY <1>3, <3>1, BytesJoin
    <3> HIDE DEF qw
    <3> QED BY <2>1, <3>2 DEF Concatenates
  <2> HIDE DEF qw
  <2>3. /\ d \in Seq(0 .. 255) /\ Len(d) = Len(qw) + 1
        /\ \A m \in 1 .. Len(qw) + 1 : d[m] = IF m <= Len(qw) THEN qw[m] ELSE q[m - Len(qw)]
    <3>1. d = qw \o q
      BY <1>5 DEF qw, q
    <3>2. q \in Bytes /\ qw \in Bytes
      BY <2>1, <2>2 DEF Bytes
    <3>3. Concatenates(qw, q, d)
      BY <3>1, <3>2, BytesJoin
    <3> HIDE DEF d
    <3> QED BY <2>1, <3>3 DEF Concatenates
  <2>4. d[1] = 34
    <3>1. 1 \in 1 .. Len(qw) + 1 /\ 1 <= Len(qw) /\ 1 \in 1 .. 1 + Len(w) /\ 1 <= 1
      BY <1>3, <2>2
    <3> QED BY <2>1, <2>2, <2>3, <3>1
  <2>5. d[Len(w) + 2] = 34
    <3> DEFINE m == Len(w) + 2
    <3>1. m \in 1 .. Len(qw) + 1 /\ ~(m <= Len(qw)) /\ m - Len(qw) = 1
      BY <1>3, <2>2
    <3> HIDE DEF m
    <3> QED BY <2>1, <2>3, <3>1 DEF m
  <2>6. ASSUME NEW m \in 1 .. Len(w) PROVE d[1 + m] = w[m]
    <3> DEFINE n == 1 + m
    <3>1. n \in 1 .. Len(qw) + 1 /\ n <= Len(qw) /\ n \in 1 .. 1 + Len(w) /\ ~(n <= 1) /\ n - 1 = m
      BY <1>3, <2>2
    <3> HIDE DEF n
    <3> QED BY <2>2, <2>3, <3>1 DEF n
  <2> QED BY <1>3, <2>2, <2>3, <2>4, <2>5, <2>6 DEF Bytes
<1>7. /\ s \in Bytes /\ Len(s) = Len(a) + Len(d) + Len(b) /\ Len(b) \in Nat
      /\ \A m \in 1 .. Len(d) : s[Len(a) + m] = d[m]
  <2>1. s = (a \o d) \o b /\ Len(b) \in Nat
    BY DEF d, Bytes
  <2>2. Encloses(a, d, b, s)
    BY <1>6, <2>1, BytesEnclose
  <2> QED BY <2>1, <2>2 DEF Encloses
<1>8. Len(s) \in Nat /\ i \in 1 .. Len(s) + 1 /\ Byte(s, Len(a) + 1) = Quote
  <2>1. 1 \in 1 .. Len(d) /\ Len(a) + 1 <= Len(s) /\ Len(s) \in Nat /\ i \in 1 .. Len(s) + 1
    BY <1>2, <1>3, <1>6, <1>7
  <2> QED BY <1>6, <1>7, <2>1 DEF Byte, Quote
<1>9. ASSUME NEW m \in 1 .. Len(w) PROVE i + m - 1 <= Len(s) /\ s[i + m - 1] = w[m]
  <2> DEFINE n == 1 + m
  <2>1. n \in 1 .. Len(d) /\ Len(a) + n = i + m - 1 /\ i + m - 1 <= Len(s)
    BY <1>2, <1>3, <1>6, <1>7
  <2>2. s[Len(a) + n] = d[n]
    <3> HIDE DEF n
    <3> QED BY <1>7, <2>1
  <2> HIDE DEF i
  <2> QED BY <1>6, <2>1, <2>2
<1>10. /\ at \in [0 .. N -> Nat \ {0}] /\ at[0] = i /\ at[N] = i + Len(w)
       /\ \A k \in 0 .. N : at[k] = i + Len(c[k])
  <2>1. 0 \in 0 .. N /\ N \in 0 .. N /\ Len(c[0]) = 0
    BY <1>2
  <2>2. \A k \in 0 .. N : at[k] = i + Len(c[k])
    OBVIOUS
  <2>3. \A k \in 0 .. N : i + Len(c[k]) \in Nat \ {0}
    BY <1>2
  <2> QED BY <1>2, <2>1, <2>2, <2>3 DEF w
<1> HIDE DEF at, i
<1>11. ASSUME NEW k \in 1 .. N
       PROVE  HasAt(s, at[k - 1], Escaped(x[k])) /\ at[k] = at[k - 1] + Len(Escaped(x[k]))
  <2> DEFINE h == c[k - 1]
             e == Escaped(x[k])
  <2>1. k - 1 \in 0 .. N /\ k \in 0 .. N /\ k \in 1 .. Len(x)
    BY <1>2 DEF N
  <2>2. h \in Seq(0 .. 255) /\ e \in Seq(0 .. 255) /\ Len(h) \in Nat /\ Len(e) \in Nat
    <3>1. x[k] \in 0 .. 255
      BY <2>1, ByteThere
    <3>2. e \in Bytes /\ Len(e) \in Nat
      BY <3>1, EscapedIsBytes
    <3> QED BY <1>2, <2>1, <3>2 DEF Bytes
  <2>3. c[k] = h \o e /\ at[k - 1] = i + Len(h) /\ at[k] = i + Len(c[k])
    BY <1>2, <1>10, <2>1
  <2> HIDE DEF h, e
  <2>4. /\ Len(c[k]) = Len(h) + Len(e)
        /\ \A m \in 1 .. Len(h) + Len(e) : c[k][m] = IF m <= Len(h) THEN h[m] ELSE e[m - Len(h)]
    BY <2>2, <2>3, ConcatProperties
  <2>5. ASSUME NEW m \in 1 .. Len(e)
        PROVE  at[k - 1] + m - 1 <= Len(s) /\ s[at[k - 1] + m - 1] = e[m]
    <3> DEFINE n == Len(h) + m
    <3>1. /\ n \in 1 .. Len(c[k]) /\ n \in 1 .. Len(h) + Len(e) /\ ~(n <= Len(h)) /\ n - Len(h) = m
          /\ at[k - 1] + m - 1 = i + n - 1
      BY <1>2, <2>2, <2>3, <2>4 DEF i
    <3>2. n \in 1 .. Len(w) /\ w[n] = c[k][n]
      <4>1. Len(c[k]) <= Len(w) /\ Len(c[k]) \in Nat
        BY <1>2, <1>4, <2>1
      <4>2. \A l \in 1 .. Len(c[k]) : w[l] = c[k][l]
        BY <1>4, <2>1
      <4> HIDE DEF n
      <4> QED BY <1>3, <3>1, <4>1, <4>2, SMTT(30)
    <3> HIDE DEF n
    <3>3. i + n - 1 <= Len(s) /\ s[i + n - 1] = w[n]
      BY <1>9, <3>2
    <3> QED BY <2>4, <3>1, <3>2, <3>3
  <2>6. at[k] = at[k - 1] + Len(e)
    BY <1>2, <2>2, <2>3, <2>4 DEF i
  <2> QED BY <2>5, <2>6 DEF HasAt, e
<1>12. Spread(s, i, x, at)
  BY <1>10, <1>11 DEF Spread, N
<1>13. at[N] = Len(a) + Len(d) /\ Byte(s, at[N]) = Quote
  <2> DEFINE n == Len(w) + 2
  <2>1. at[N] = Len(a) + n /\ n = Len(d) /\ n \in 1 .. Len(d) /\ Len(a) + n <= Len(s)
    BY <1>2, <1>3, <1>6, <1>7, <1>10 DEF i
  <2>2. d[n] = 34
    BY <1>6
  <2> HIDE DEF n
  <2>3. s[Len(a) + n] = 34
    BY <1>7, <2>1, <2>2
  <2> QED BY <2>1, <2>3 DEF Byte, Quote
<1>14. i = Len(a) + 1 + 1
  BY <1>2 DEF i
<1> QED BY <1>7, <1>8, <1>12, <1>13, <1>14 DEF DumpedIn, N, d

LEMMA BlanksEnd ==
  ASSUME NEW s, Len(s) \in Nat, NEW i \in 1 .. Len(s) + 1, Byte(s, i) \notin Blanks
  PROVE  SkipBlanks(s, i) = i
<1> DEFINE S == {k \in i .. Len(s) + 1 : Byte(s, k) \notin Blanks} \cup {Len(s) + 1}
<1>1. i \in Nat /\ S \subseteq Nat /\ S # {} /\ i \in S /\ \A k \in S : i <= k
  <2>1. i \in i .. Len(s) + 1
    OBVIOUS
  <2> QED BY <2>1
<1>2. SkipBlanks(s, i) = Min(S)
  BY DEF SkipBlanks
<1> HIDE DEF S
<1>3. Min(S) \in S /\ \A n \in S : Min(S) <= n
  BY <1>1, MinIsLeast
<1>4. Min(S) \in Nat /\ i <= Min(S) /\ Min(S) <= i
  BY <1>1, <1>3
<1> QED BY <1>1, <1>2, <1>4

(* What the serializer writes for a string that it does not refuse, in any *)
(* text, is read as this string, with nothing left of it                   *)
(* (json.hpp, dump_escaped and scan_string).                               *)
THEOREM StringsReadBack ==
  ASSUME NEW x \in Bytes, Dumpable(x), NEW a \in Bytes, NEW b \in Bytes
  PROVE  LET s == (a \o DumpString(x)) \o b
         IN Scan(s, Len(a) + 1) = <<"value_string", x, Len(a) + Len(DumpString(x)) + 1>>
<1> DEFINE s == (a \o DumpString(x)) \o b
           i == Len(a) + 1
           e == Len(a) + Len(DumpString(x))
<1>1. /\ s \in Bytes /\ i + 1 \in 1 .. Len(s) + 1 /\ Byte(s, i) = Quote
      /\ \E at : Spread(s, i + 1, x, at) /\ Byte(s, at[Len(x)]) = Quote /\ at[Len(x)] = e
  <2>1. DumpedIn(s, x, i, e)
    BY DumpIsSpread
  <2> QED BY <2>1 DEF DumpedIn
<1>2. Len(s) \in Nat /\ i \in Nat \ {0}
  <2>1. \A w \in Bytes : Len(w) \in Nat
    BY DEF Bytes
  <2> HIDE DEF s
  <2> QED BY <1>1, <2>1
<1> HIDE DEF s, i, e
<1>3. ScanString(s, i + 1) = <<"value_string", x, e + 1>>
  <2>1. Decoded(x)
    BY DumpableIsDecoded
  <2> QED BY <1>1, <2>1, DumpedIsScanned
<1>4. SkipBlanks(s, i) = i
  <2>1. Quote \notin Blanks
    BY DEF Quote, Blanks
  <2>2. i \in 1 .. Len(s) + 1
    BY <1>1, <1>2
  <2> QED BY <1>1, <1>2, <2>1, <2>2, BlanksEnd
<1>5. Quote \notin DOMAIN Punctuation
  BY DEF Quote, Punctuation, Eof
<1>6. Scan(s, i) = ScanString(s, i + 1)
  BY <1>1, <1>4, <1>5 DEF Scan
<1> QED BY <1>3, <1>6 DEF s, i, e

(*-------------------------------------------------------------------------*)
(* What the serializer writes for an integer is a numeral that stands for  *)
(* it.                                                                     *)
(*-------------------------------------------------------------------------*)

LEMMA DivTen ==
  ASSUME NEW m \in Nat
  PROVE  /\ m \div 10 \in Nat /\ m % 10 \in 0 .. 9 /\ m = ((m \div 10) * 10) + (m % 10)
         /\ m >= 10 => m \div 10 >= 1 /\ m \div 10 < m
  BY SMT

(* The recursion of dump_integer, as far as n.                             *)
DigitsOf(f, m) == IF m < 10 THEN <<48 + m>> ELSE Append(f[m \div 10], 48 + (m % 10))
DigitsUpTo(f, n) == DOMAIN f = 0 .. n /\ \A m \in 0 .. n : f[m] = DigitsOf(f, m)

LEMMA DigitsAgree ==
  ASSUME NEW n \in Nat, NEW o \in Nat, NEW f, NEW h, DigitsUpTo(f, n), DigitsUpTo(h, o),
         NEW k \in Nat, k <= n, k <= o
  PROVE  f[k] = h[k]
<1> DEFINE Other == {m \in Nat : m <= n /\ m <= o /\ f[m] # h[m]}
<1>1. Other = {}
  <2>1. SUFFICES ASSUME Other # {} PROVE FALSE
    OBVIOUS
  <2>2. PICK m \in Other : \A l \in Other : m <= l
    <3>1. Other \subseteq Nat
      OBVIOUS
    <3> HIDE DEF Other
    <3> QED BY <2>1, <3>1, Least
  <2>3. m \in Nat /\ m <= n /\ m <= o /\ f[m] # h[m]
    OBVIOUS
  <2>4. f[m] = DigitsOf(f, m) /\ h[m] = DigitsOf(h, m)
    BY <2>3 DEF DigitsUpTo
  <2>5. m >= 10
    BY <2>3, <2>4 DEF DigitsOf
  <2> DEFINE q == m \div 10
  <2>6. q \in Nat /\ q < m
    BY <2>3, <2>5, DivTen
  <2> HIDE DEF q
  <2>7. q <= n /\ q <= o
    BY <2>3, <2>6
  <2>8. q \notin Other
    <3> HIDE DEF Other
    <3>1. q < m => ~(m <= q)
      BY <2>3, <2>6
    <3> QED BY <2>2, <2>6, <3>1
  <2>9. f[q] = h[q]
    BY <2>6, <2>7, <2>8
  <2> QED BY <2>3, <2>4, <2>9 DEF DigitsOf, q
<1> QED BY <1>1

LEMMA DigitsExist == ASSUME NEW n \in Nat PROVE \E f : DigitsUpTo(f, n)
<1> DEFINE Not == {m \in Nat : ~\E f : DigitsUpTo(f, m)}
<1>1. \E f : DigitsUpTo(f, 0)
  <2> DEFINE f == [m \in 0 .. 0 |-> <<48 + m>>]
  <2>1. \A m \in 0 .. 0 : m < 10 /\ f[m] = <<48 + m>>
    OBVIOUS
  <2>2. DOMAIN f = 0 .. 0
    OBVIOUS
  <2> HIDE DEF f
  <2>3. DigitsUpTo(f, 0)
    BY <2>1, <2>2 DEF DigitsUpTo, DigitsOf
  <2> QED BY <2>3
<1>2. ASSUME NEW m \in Nat, m # 0, NEW f, DigitsUpTo(f, m - 1)
      PROVE  \E h : DigitsUpTo(h, m)
  <2> DEFINE h == [k \in 0 .. m |-> IF k = m THEN DigitsOf(f, m) ELSE f[k]]
  <2>1. m \in 0 .. m /\ \A k \in 0 .. m - 1 : k \in 0 .. m /\ k # m
    BY <1>2
  <2>2. DOMAIN h = 0 .. m /\ h[m] = DigitsOf(f, m) /\ \A k \in 0 .. m - 1 : h[k] = f[k]
    BY <2>1
  <2> HIDE DEF h
  <2>3. ASSUME NEW k \in 0 .. m PROVE h[k] = DigitsOf(f, k)
    <3>1. k = m \/ k \in 0 .. m - 1
      BY <1>2
    <3> QED BY <1>2, <2>2, <3>1 DEF DigitsUpTo
  <2>4. ASSUME NEW k \in 0 .. m PROVE DigitsOf(f, k) = DigitsOf(h, k)
    <3> DEFINE q == k \div 10
    <3>1. k >= 10 => q \in 0 .. m - 1
      <4>1. k \in Nat /\ k <= m
        OBVIOUS
      <4>2. k >= 10 => q \in Nat /\ q < k
        BY <4>1, DivTen
      <4> HIDE DEF q
      <4> QED BY <4>1, <4>2
    <3>2. k >= 10 => h[q] = f[q]
      BY <2>2, <3>1
    <3>3. k \in Int /\ ~(k < 10) => k >= 10
      OBVIOUS
    <3> QED BY <3>2, <3>3 DEF DigitsOf
  <2>5. DigitsUpTo(h, m)
    BY <2>2, <2>3, <2>4 DEF DigitsUpTo
  <2> QED BY <2>5
<1>3. Not = {}
  <2>1. SUFFICES ASSUME Not # {} PROVE FALSE
    OBVIOUS
  <2>2. PICK m \in Not : \A l \in Not : m <= l
    <3>1. Not \subseteq Nat
      OBVIOUS
    <3> HIDE DEF Not
    <3> QED BY <2>1, <3>1, Least
  <2>3. m \in Nat /\ (~\E f : DigitsUpTo(f, m)) /\ m # 0
    BY <1>1
  <2>4. m - 1 \in Nat /\ m - 1 < m
    BY <2>3
  <2>5. m - 1 \notin Not
    <3> HIDE DEF Not
    <3>1. ~(m <= m - 1)
      BY <2>3
    <3> QED BY <2>2, <3>1
  <2>6. \E f : DigitsUpTo(f, m - 1)
    BY <2>4, <2>5
  <2> QED BY <1>2, <2>3, <2>6
<1> QED BY <1>3

(* The digits that dump_integer writes.                                    *)
LEMMA DigitsAreDumped ==
  \E d : /\ \A m \in Nat : d[m] = DigitsOf(d, m)
         /\ \A n \in Nat : DumpInteger(n) = d[n]
         /\ \A n \in Int : n < 0 => DumpInteger(n) = <<45>> \o d[- n]
<1> DEFINE Solves(d) == d = [m \in Nat |-> IF m < 10 THEN <<48 + m>>
                                          ELSE Append(d[m \div 10], 48 + (m % 10))]
           F(n) == CHOOSE f : DigitsUpTo(f, n)
           e == [m \in Nat |-> F(m)[m]]
           d == CHOOSE d : Solves(d)
<1>1. \A n \in Nat : DigitsUpTo(F(n), n)
  BY DigitsExist
<1>2. \A m \in Nat : e[m] = F(m)[m]
  OBVIOUS
<1>3. e = [m \in Nat |-> e[m]]
  OBVIOUS
<1> HIDE DEF F, e
<1>4. ASSUME NEW m \in Nat PROVE e[m] = DigitsOf(e, m)
  <2> DEFINE q == m \div 10
  <2>1. m \in 0 .. m
    OBVIOUS
  <2>2. F(m)[m] = DigitsOf(F(m), m)
    BY <1>1, <2>1 DEF DigitsUpTo
  <2>3. m >= 10 => F(m)[q] = e[q]
    <3>1. m >= 10 => q \in Nat /\ q < m
      BY DivTen
    <3> HIDE DEF q
    <3>2. m >= 10 => q <= m /\ q <= q
      BY <3>1
    <3>3. ASSUME m >= 10 PROVE F(m)[q] = F(q)[q]
      <4>1. DigitsUpTo(F(m), m) /\ DigitsUpTo(F(q), q)
        BY <1>1, <3>1, <3>3
      <4> QED BY <3>1, <3>2, <3>3, <4>1, DigitsAgree
    <3> QED BY <1>2, <3>1, <3>3
  <2>4. ~(m < 10) => m >= 10
    OBVIOUS
  <2> QED BY <1>2, <2>2, <2>3, <2>4 DEF DigitsOf
<1>5. Solves(e)
  <2>1. \A m \in Nat : e[m] = IF m < 10 THEN <<48 + m>> ELSE Append(e[m \div 10], 48 + (m % 10))
    BY <1>4 DEF DigitsOf
  <2> QED BY <1>3, <2>1
<1>6. Solves(d)
  <2> HIDE DEF Solves
  <2> QED BY <1>5
<1>7. ASSUME NEW f, Solves(f), NEW m \in Nat PROVE f[m] = DigitsOf(f, m)
  BY <1>7 DEF DigitsOf
<1>8. /\ \A n \in Nat : DumpInteger(n) = d[n]
      /\ \A n \in Int : n < 0 => DumpInteger(n) = <<45>> \o d[- n]
  <2>1. \A n : DumpInteger(n) = IF n < 0 THEN <<45>> \o d[- n] ELSE d[n]
    BY DEF DumpInteger, Minus
  <2> HIDE DEF d
  <2> QED BY <2>1
<1>9. \A m \in Nat : d[m] = DigitsOf(d, m)
  <2> HIDE DEF d, Solves
  <2> QED BY <1>6, <1>7
<1> QED BY <1>8, <1>9

LEMMA DecimalOfAppend ==
  ASSUME NEW t \in Bytes, \A k \in 1 .. Len(t) : t[k] \in Digits, NEW c \in Digits
  PROVE  Decimal(Append(t, c)) = Decimal(t) * 10 + c - 48
<1> DEFINE L == Len(t)
           w == Append(t, c)
<1>1. L \in Nat /\ Len(w) = L + 1 /\ w[L + 1] = c /\ \A k \in 1 .. L : w[k] = t[k]
  <2>1. t \in Seq(0 .. 255) /\ c \in 0 .. 255
    BY DEF Bytes, Digits
  <2> QED BY <2>1
<1>2. PICK f : Sums(f, t) /\ Decimal(t) = f[L]
  BY <1>1, DecimalIsSum
<1> HIDE DEF w
<1>3. Len(w) \in Nat
  BY <1>1
<1>4. PICK h : Sums(h, w) /\ Decimal(w) = h[Len(w)]
  BY <1>3, DecimalIsSum
<1> DEFINE Other == {k \in 0 .. L : f[k] # h[k]}
<1>5. Other = {}
  <2>1. SUFFICES ASSUME Other # {} PROVE FALSE
    OBVIOUS
  <2>2. PICK k \in Other : \A m \in Other : k <= m
    <3>1. Other \subseteq Nat
      BY <1>1
    <3> HIDE DEF Other
    <3> QED BY <2>1, <3>1, Least
  <2>3. k \in 0 .. L /\ f[k] # h[k]
    OBVIOUS
  <2>4. k # 0
    BY <1>2, <1>4, <2>3 DEF Sums
  <2>5. k - 1 \in 0 .. L /\ k - 1 < k /\ k \in 1 .. L /\ k \in 1 .. Len(w)
    BY <1>1, <2>3, <2>4
  <2>6. f[k - 1] = h[k - 1]
    <3>1. ~(k <= k - 1)
      BY <2>5
    <3>2. k - 1 \notin Other
      <4> HIDE DEF Other
      <4> QED BY <2>2, <3>1
    <3> QED BY <2>5, <3>2
  <2>7. f[k] = f[k - 1] * 10 + t[k] - 48 /\ h[k] = h[k - 1] * 10 + w[k] - 48
    BY <1>2, <1>4, <2>5 DEF Sums
  <2>8. w[k] = t[k]
    BY <1>1, <2>5
  <2> HIDE DEF Other
  <2> QED BY <2>3, <2>6, <2>7, <2>8
<1>6. h[L] = f[L]
  <2>1. L \in 0 .. L
    BY <1>1
  <2>2. f[L] # h[L] => L \in Other
    BY <2>1
  <2> HIDE DEF Other
  <2> QED BY <1>5, <2>2
<1>7. h[L + 1] = h[L] * 10 + w[L + 1] - 48
  <2> DEFINE n == L + 1
  <2>1. n \in 1 .. Len(w) /\ n - 1 = L
    BY <1>1
  <2> HIDE DEF n
  <2>2. h[n] = h[n - 1] * 10 + w[n] - 48
    BY <1>4, <2>1 DEF Sums
  <2> QED BY <2>1, <2>2 DEF n
<1> QED BY <1>1, <1>2, <1>4, <1>6, <1>7 DEF w

LEMMA DecimalOfOne == ASSUME NEW c \in Digits PROVE Decimal(<<c>>) = c - 48
<1> DEFINE t == <<c>>
<1>1. Len(t) = 1 /\ t[1] = c
  OBVIOUS
<1> HIDE DEF t
<1>2. PICK g : Sums(g, t) /\ Decimal(t) = g[1]
  <2>1. Len(t) \in Nat
    BY <1>1
  <2>2. PICK g : Sums(g, t) /\ Decimal(t) = g[Len(t)]
    BY <2>1, DecimalIsSum
  <2> QED BY <1>1, <2>2
<1>3. g[1] = g[1 - 1] * 10 + t[1] - 48 /\ 1 - 1 = 0 /\ g[0] = 0
  BY <1>1, <1>2 DEF Sums
<1>4. g[1] = 0 * 10 + c - 48
  BY <1>1, <1>3
<1>5. c \in Int
  BY DEF Digits
<1> QED BY <1>2, <1>4, <1>5 DEF t

(* t is the digits of n, without a leading zero.                           *)
IsDecimalOf(t, n) ==
  /\ t \in Bytes /\ Len(t) \in Nat \ {0} /\ \A k \in 1 .. Len(t) : t[k] \in Digits
  /\ Decimal(t) = n /\ (t[1] = 48 => n = 0 /\ Len(t) = 1)

LEMMA DigitsAreDecimal ==
  ASSUME NEW d, \A m \in Nat : d[m] = DigitsOf(d, m), NEW n \in Nat
  PROVE  IsDecimalOf(d[n], n)
<1> DEFINE Not == {m \in Nat : ~IsDecimalOf(d[m], m)}
<1>1. ASSUME NEW m \in 0 .. 9 PROVE IsDecimalOf(<<48 + m>>, m)
  <2> DEFINE c == 48 + m
             t == <<c>>
  <2>1. c \in Digits /\ c \in 0 .. 255 /\ c - 48 = m /\ (c = 48 => m = 0)
    BY DEF Digits
  <2> HIDE DEF c
  <2>2. t \in Bytes /\ Len(t) = 1 /\ t[1] = c
    BY <2>1 DEF Bytes
  <2>3. Decimal(t) = m
    BY <2>1, DecimalOfOne
  <2> HIDE DEF t
  <2>4. \A k \in 1 .. Len(t) : t[k] \in Digits
    BY <2>1, <2>2
  <2> QED BY <2>1, <2>2, <2>3, <2>4 DEF IsDecimalOf, t, c
<1>2. ASSUME NEW t, NEW q \in Nat \ {0}, NEW r \in 0 .. 9, IsDecimalOf(t, q)
      PROVE  IsDecimalOf(Append(t, 48 + r), q * 10 + r)
  <2> DEFINE c == 48 + r
             w == Append(t, c)
             L == Len(t)
  <2>1. c \in Digits /\ c \in 0 .. 255 /\ c - 48 = r /\ c \in Int
    BY DEF Digits
  <2>2. t \in Seq(0 .. 255) /\ L \in Nat \ {0} /\ \A k \in 1 .. L : t[k] \in Digits
    BY <1>2 DEF IsDecimalOf, Bytes
  <2> HIDE DEF c
  <2>3. w \in Seq(0 .. 255) /\ Len(w) = L + 1 /\ w[L + 1] = c /\ \A k \in 1 .. L : w[k] = t[k]
    BY <2>1, <2>2
  <2>4. Decimal(w) = Decimal(t) * 10 + c - 48
    BY <2>1, <2>2, DecimalOfAppend DEF Bytes
  <2> HIDE DEF w, L
  <2>5. Decimal(w) = q * 10 + r
    <3>1. Decimal(t) = q
      BY <1>2 DEF IsDecimalOf
    <3> QED BY <2>1, <2>4, <3>1
  <2>6. \A k \in 1 .. Len(w) : w[k] \in Digits
    <3>1. \A k \in 1 .. L + 1 : k \in 1 .. L \/ k = L + 1
      BY <2>2
    <3> QED BY <2>1, <2>2, <2>3, <3>1
  <2>7. w[1] # 48
    <3>1. 1 \in 1 .. L
      BY <2>2
    <3>2. t[1] # 48
      BY <1>2 DEF IsDecimalOf
    <3> QED BY <2>3, <3>1, <3>2
  <2>8. IsDecimalOf(w, q * 10 + r)
    BY <2>2, <2>3, <2>5, <2>6, <2>7 DEF IsDecimalOf, Bytes
  <2> QED BY <2>8 DEF w, c
<1>3. Not = {}
  <2>1. SUFFICES ASSUME Not # {} PROVE FALSE
    OBVIOUS
  <2>2. PICK m \in Not : \A l \in Not : m <= l
    <3>1. Not \subseteq Nat
      OBVIOUS
    <3> HIDE DEF Not
    <3> QED BY <2>1, <3>1, Least
  <2>3. m \in Nat /\ ~IsDecimalOf(d[m], m) /\ d[m] = DigitsOf(d, m)
    OBVIOUS
  <2> HIDE DEF Not
  <2>4. ~(m < 10)
    <3>1. ASSUME m < 10 PROVE FALSE
      <4>1. m \in 0 .. 9 /\ d[m] = <<48 + m>>
        BY <2>3, <3>1 DEF DigitsOf
      <4> QED BY <1>1, <2>3, <4>1
    <3> QED BY <3>1
  <2> DEFINE q == m \div 10
             r == m % 10
  <2>5. q \in Nat \ {0} /\ r \in 0 .. 9 /\ m = q * 10 + r /\ q < m
    <3>1. m >= 10
      BY <2>3, <2>4
    <3>2. q \in Nat /\ q >= 1 /\ r \in 0 .. 9 /\ m = (q * 10) + r /\ q < m
      BY <2>3, <3>1, DivTen
    <3> HIDE DEF q, r
    <3> QED BY <3>2
  <2>6. d[m] = Append(d[q], 48 + r)
    BY <2>3, <2>4 DEF DigitsOf
  <2> HIDE DEF q, r
  <2>7. IsDecimalOf(d[q], q)
    <3>1. ~(m <= q)
      BY <2>3, <2>5
    <3>2. q \notin Not
      BY <2>2, <3>1
    <3> QED BY <2>5, <3>2 DEF Not
  <2>8. IsDecimalOf(d[m], q * 10 + r)
    BY <1>2, <2>5, <2>6, <2>7
  <2> QED BY <2>3, <2>5, <2>8
<1> QED BY <1>3

LEMMA DumpedIntegers ==
  /\ \A n \in Nat : IsDecimalOf(DumpInteger(n), n)
  /\ \A n \in Int : n < 0 => \E t : IsDecimalOf(t, - n) /\ DumpInteger(n) = <<45>> \o t
<1>1. PICK d : /\ \A m \in Nat : d[m] = DigitsOf(d, m)
               /\ \A n \in Nat : DumpInteger(n) = d[n]
               /\ \A n \in Int : n < 0 => DumpInteger(n) = <<45>> \o d[- n]
  BY DigitsAreDumped
<1>2. \A n \in Nat : IsDecimalOf(d[n], n)
  BY <1>1, DigitsAreDecimal
<1>3. ASSUME NEW n \in Int, n < 0
      PROVE  \E t : IsDecimalOf(t, - n) /\ DumpInteger(n) = <<45>> \o t
  <2>1. - n \in Nat
    BY <1>3
  <2>2. IsDecimalOf(d[- n], - n) /\ DumpInteger(n) = <<45>> \o d[- n]
    BY <1>1, <1>2, <1>3, <2>1
  <2> QED BY <2>2
<1> QED BY <1>1, <1>2, <1>3

LEMMA MinusFirst ==
  ASSUME NEW t \in Bytes, NEW w, w = << 45 >> \o t
  PROVE  /\ w \in Bytes /\ Len(t) \in Nat /\ Len(w) = Len(t) + 1
         /\ w[1] = 45 /\ \A k \in 2 .. Len(w) : w[k] = t[k - 1]
<1> DEFINE m == <<45>>
<1>1. m \in Seq(0 .. 255) /\ Len(m) = 1 /\ m[1] = 45 /\ Len(t) \in Nat
  BY DEF Bytes
<1>2. w = m \o t
  OBVIOUS
<1> HIDE DEF m
<1>3. Concatenates(m, t, w)
  BY <1>1, <1>2, BytesJoin DEF Bytes
<1>4. w \in Seq(0 .. 255) /\ Len(w) = Len(t) + 1
  BY <1>1, <1>3 DEF Concatenates
<1>5. \A k \in 1 .. Len(t) + 1 : w[k] = IF k <= 1 THEN m[k] ELSE t[k - 1]
  BY <1>1, <1>3 DEF Concatenates
<1>6. 1 \in 1 .. Len(t) + 1 /\ \A k \in 2 .. Len(w) : k \in 1 .. Len(t) + 1 /\ ~(k <= 1)
  BY <1>1, <1>4
<1> QED BY <1>1, <1>4, <1>5, <1>6 DEF Bytes

(* What becomes of the numeral, once it is read.                           *)
LEMMA DumpedIsMeant ==
  ASSUME NEW n \in - (Modulus \div 2) .. Modulus - 1
  PROVE  Numeral(DumpInteger(n)) = <<IF n >= 0 THEN "value_unsigned" ELSE "value_integer", n>>
<1> DEFINE w == DumpInteger(n)
<1>1. Modulus \in Nat \ {0} /\ Modulus \div 2 \in Nat
  BY JsonTextAssumption, SMT
<1>2. \A c \in Digits : c \notin Exponents \cup {Dot} /\ c # Minus
  BY DEF Digits, Exponents, Dot, Minus
<1>3. Minus \notin Exponents \cup {Dot}
  BY DEF Exponents, Dot, Minus
<1>4. CASE n >= 0
  <2>1. IsDecimalOf(w, n) /\ n \in Nat /\ n < Modulus
    BY <1>1, <1>4, DumpedIntegers
  <2> HIDE DEF w
  <2>2. DOMAIN w = 1 .. Len(w) /\ 1 \in 1 .. Len(w)
    BY <2>1 DEF IsDecimalOf, Bytes
  <2>3. \A k \in DOMAIN w : w[k] \notin Exponents \cup {Dot}
    BY <1>2, <2>1, <2>2 DEF IsDecimalOf
  <2>4. w[1] # Minus /\ Decimal(w) = n
    BY <1>2, <2>1, <2>2 DEF IsDecimalOf
  <2>5. Numeral(w) = <<"value_unsigned", n>>
    BY <2>1, <2>3, <2>4 DEF Numeral
  <2> QED BY <1>4, <2>5 DEF w
<1>5. CASE n < 0
  <2>1. - n \in Nat /\ - n <= Modulus \div 2 /\ - (- n) = n /\ ~(n >= 0) /\ n \in Int
    BY <1>1, <1>5
  <2>2. PICK t : IsDecimalOf(t, - n) /\ w = <<45>> \o t
    BY <1>5, <2>1, DumpedIntegers
  <2>3. t \in Seq(0 .. 255) /\ Len(t) \in Nat
    BY <2>2 DEF IsDecimalOf, Bytes
  <2> HIDE DEF w
  <2>5. /\ w \in Seq(0 .. 255) /\ Len(w) = Len(t) + 1
        /\ w[1] = 45 /\ \A k \in 2 .. Len(w) : w[k] = t[k - 1]
    BY <2>2, <2>3, MinusFirst DEF Bytes
  <2>6. \A k \in DOMAIN w : w[k] \notin Exponents \cup {Dot}
    <3>1. \A k \in DOMAIN w : k = 1 \/ (k \in 2 .. Len(w) /\ k - 1 \in 1 .. Len(t))
      BY <2>3, <2>5
    <3>2. \A k \in 1 .. Len(t) : t[k] \in Digits
      BY <2>2 DEF IsDecimalOf
    <3>3. Minus = 45
      BY DEF Minus
    <3> QED BY <1>2, <1>3, <2>5, <3>1, <3>2, <3>3
  <2>7. Tail(w) = t
    <3>1. Len(w) \in Nat /\ w # <<>>
      BY <2>3, <2>5
    <3>2. /\ Tail(w) \in Seq(0 .. 255) /\ Len(Tail(w)) = Len(w) - 1
          /\ \A k \in 1 .. Len(Tail(w)) : Tail(w)[k] = w[k + 1]
      BY <2>5, <3>1
    <3>3. Len(Tail(w)) = Len(t)
      BY <2>3, <2>5, <3>2
    <3>4. ASSUME NEW k \in 1 .. Len(t) PROVE Tail(w)[k] = t[k]
      <4> DEFINE l == k + 1
      <4>1. l \in 2 .. Len(w) /\ l - 1 = k
        BY <2>3, <2>5
      <4> HIDE DEF l
      <4>2. w[l] = t[k]
        BY <2>5, <4>1
      <4> QED BY <3>2, <3>3, <4>2 DEF l
    <3> QED BY <2>3, <3>2, <3>3, <3>4, SeqEqual
  <2>8. Decimal(Tail(w)) = - n /\ w[1] = Minus
    BY <2>2, <2>5, <2>7 DEF IsDecimalOf, Minus
  <2>9. Numeral(w) = <<"value_integer", n>>
    BY <2>1, <2>6, <2>8 DEF Numeral
  <2> QED BY <2>1, <2>9 DEF w
<1> QED BY <1>4, <1>5

LEMMA AppendOfTwo == ASSUME NEW x, NEW y, NEW z PROVE Append(<<x, y>>, z) = <<x, y, z>>
<1> DEFINE S == {x, y, z}
           t == <<x, y>>
           u == Append(t, z)
           v == <<x, y, z>>
<1>1. t \in Seq(S) /\ Len(t) = 2 /\ t[1] = x /\ t[2] = y /\ z \in S
  OBVIOUS
<1>2. v \in Seq(S) /\ Len(v) = 3 /\ v[1] = x /\ v[2] = y /\ v[3] = z
  OBVIOUS
<1> HIDE DEF S, t, v
<1>3. u \in Seq(S) /\ Len(u) = 3 /\ u[1] = x /\ u[2] = y /\ u[3] = z
  <2>1. /\ u \in Seq(S) /\ Len(u) = Len(t) + 1
        /\ (\A k \in 1 .. Len(t) : u[k] = t[k]) /\ u[Len(t) + 1] = z
    <3>1. u = Append(t, z)
      OBVIOUS
    <3>2. ASSUME NEW T, NEW r \in Seq(T), NEW c \in T, NEW w, w = Append(r, c)
          PROVE  /\ w \in Seq(T) /\ Len(w) = Len(r) + 1
                 /\ (\A k \in 1 .. Len(r) : w[k] = r[k]) /\ w[Len(r) + 1] = c
      BY <3>2
    <3> HIDE DEF u
    <3> QED BY <1>1, <3>1, <3>2
  <2> HIDE DEF u
  <2>2. Len(t) + 1 = 3 /\ 1 \in 1 .. Len(t) /\ 2 \in 1 .. Len(t)
    BY <1>1
  <2> QED BY <1>1, <2>1, <2>2
<1> HIDE DEF u
<1>4. \A k \in 1 .. Len(u) : u[k] = v[k]
  <2>1. \A k \in 1 .. 3 : k = 1 \/ k = 2 \/ k = 3
    OBVIOUS
  <2> QED BY <1>2, <1>3, <2>1
<1>5. u = v
  BY <1>2, <1>3, <1>4, SeqEqual
<1> QED BY <1>5 DEF u, v, t

(* Digits from z + 1 on, and a minus sign if z is 1.                       *)
WholeNumber(w, z) ==
  /\ w \in Bytes /\ z \in 0 .. 1 /\ Len(w) \in Nat /\ z + 1 <= Len(w)
  /\ z = 1 => w[1] = 45
  /\ \A k \in z + 1 .. Len(w) : w[k] \in Digits
  /\ w[z + 1] = 48 => Len(w) = z + 1

LEMMA DumpedIsWhole == ASSUME NEW n \in Int PROVE \E z : WholeNumber(DumpInteger(n), z)
<1> DEFINE w == DumpInteger(n)
<1>1. CASE n >= 0
  <2>1. IsDecimalOf(w, n)
    BY <1>1, DumpedIntegers
  <2> HIDE DEF w
  <2>2. WholeNumber(w, 0)
    BY <2>1 DEF IsDecimalOf, WholeNumber
  <2> QED BY <2>2 DEF w
<1>2. CASE n < 0
  <2>1. PICK t : IsDecimalOf(t, - n) /\ w = <<45>> \o t
    BY <1>2, DumpedIntegers
  <2>2. t \in Bytes /\ Len(t) \in Nat \ {0} /\ \A k \in 1 .. Len(t) : t[k] \in Digits
    BY <2>1 DEF IsDecimalOf
  <2>3. t[1] # 48
    BY <1>2, <2>1 DEF IsDecimalOf
  <2> HIDE DEF w
  <2>4. /\ w \in Bytes /\ Len(w) = Len(t) + 1
        /\ w[1] = 45 /\ \A k \in 2 .. Len(w) : w[k] = t[k - 1]
    BY <2>1, <2>2, MinusFirst, ZenonT(30)
  <2>5. \A k \in 2 .. Len(w) : k - 1 \in 1 .. Len(t)
    BY <2>2, <2>4
  <2>6. w[2] # 48
    <3>1. 2 \in 2 .. Len(w) /\ 2 - 1 = 1
      BY <2>2, <2>4
    <3> QED BY <2>3, <2>4, <3>1
  <2>7. WholeNumber(w, 1)
    <3>1. 1 + 1 = 2 /\ 2 <= Len(w) /\ Len(w) \in Nat
      BY <2>2, <2>4
    <3> QED BY <2>2, <2>4, <2>5, <2>6, <3>1 DEF WholeNumber
  <2> QED BY <2>7 DEF w
<1> QED BY <1>1, <1>2

LEMMA WholeIsNumeral ==
  ASSUME NEW s, NEW a \in Bytes, NEW w, NEW b \in Bytes, Encloses(a, w, b, s),
         NEW z, WholeNumber(w, z)
  PROVE  IsNumeral(s, Len(a) + 1, Len(a) + Len(w) + 1)
<1> DEFINE i == Len(a) + 1
           j == Len(a) + Len(w) + 1
           p == i + z
<1>1. /\ Len(a) \in Nat /\ Len(w) \in Nat /\ Len(b) \in Nat /\ z \in 0 .. 1 /\ z + 1 <= Len(w)
      /\ Len(s) = Len(a) + Len(w) + Len(b)
  BY DEF WholeNumber, Encloses, Bytes
<1>2. i \in Nat /\ p \in Nat /\ j \in Nat /\ p < j /\ j <= Len(s) + 1
  BY <1>1
<1>3. ASSUME NEW k \in i .. j - 1
      PROVE  k - Len(a) \in 1 .. Len(w) /\ Byte(s, k) = w[k - Len(a)]
  <2> DEFINE m == k - Len(a)
  <2>1. m \in 1 .. Len(w) /\ Len(a) + m = k /\ k <= Len(s)
    BY <1>1
  <2> HIDE DEF m
  <2>2. s[k] = w[m]
    BY <2>1 DEF Encloses
  <2> QED BY <2>1, <2>2 DEF Byte, m
<1>4. IsMinus(s, i, p)
  <2>1. z = 1 => Byte(s, i) = 45
    <3>1. i \in i .. j - 1 /\ i - Len(a) = 1
      BY <1>1
    <3> QED BY <1>3, <3>1 DEF WholeNumber
  <2>2. z = 0 => i = p
    BY <1>2
  <2>3. z = 0 \/ z = 1
    BY <1>1
  <2> QED BY <2>1, <2>2, <2>3 DEF IsMinus
<1>5. AreDigits(s, p, j)
  <2>1. ASSUME NEW k \in p .. j - 1 PROVE Byte(s, k) \in 48 .. 57
    <3>1. k \in i .. j - 1 /\ k - Len(a) \in z + 1 .. Len(w)
      BY <1>1
    <3>2. w[k - Len(a)] \in Digits
      BY <3>1 DEF WholeNumber
    <3>3. Byte(s, k) = w[k - Len(a)]
      BY <1>3, <3>1
    <3> QED BY <3>2, <3>3 DEF Digits
  <2> HIDE DEF p, j
  <2> QED BY <1>2, <2>1 DEF AreDigits
<1>6. Byte(s, p) = 48 => j = p + 1
  <2>1. p \in i .. j - 1 /\ p - Len(a) = z + 1
    BY <1>1
  <2>2. Byte(s, p) = w[z + 1]
    <3>1. Byte(s, p) = w[p - Len(a)]
      BY <1>3, <2>1
    <3> QED BY <2>1, <3>1
  <2>3. w[z + 1] = 48 => Len(w) = z + 1
    BY DEF WholeNumber
  <2>4. Len(w) = z + 1 => j = p + 1
    BY <1>1
  <2> QED BY <2>2, <2>3, <2>4
<1>7. IsInt(s, p, j) /\ IsFrac(s, j, j) /\ IsExp(s, j, j)
  BY <1>5, <1>6 DEF IsInt, IsFrac, IsExp
<1> HIDE DEF p, i, j
<1>8. IsNumeral(s, i, j)
  BY <1>2, <1>4, <1>7 DEF IsNumeral
<1> QED BY <1>8 DEF i, j

(* What the serializer writes for an integer that one of the two types of  *)
(* whole numbers can hold, in any text in which no more of a numeral       *)
(* follows it, is read as this integer (json.hpp, dump_integer and         *)
(* scan_number).                                                           *)
THEOREM IntegersReadBack ==
  ASSUME NEW n \in - (Modulus \div 2) .. Modulus - 1, NEW a \in Bytes, NEW b \in Bytes,
         Byte(b, 1) \notin Digits \cup {Dot} \cup Exponents
  PROVE  LET s == (a \o DumpInteger(n)) \o b
         IN Scan(s, Len(a) + 1) = <<IF n >= 0 THEN "value_unsigned" ELSE "value_integer", n,
                                    Len(a) + Len(DumpInteger(n)) + 1>>
<1> DEFINE w == DumpInteger(n)
           s == (a \o w) \o b
           i == Len(a) + 1
           j == Len(a) + Len(w) + 1
           type == IF n >= 0 THEN "value_unsigned" ELSE "value_integer"
<1>1. PICK z : WholeNumber(w, z)
  <2>1. n \in Int
    BY JsonTextAssumption, SMT
  <2> QED BY <2>1, DumpedIsWhole
<1>2. Numeral(w) = <<type, n>>
  BY DumpedIsMeant
<1> HIDE DEF w, type
<1>3. Encloses(a, w, b, s)
  BY <1>1, BytesEnclose DEF WholeNumber
<1> HIDE DEF s
<1>4. /\ Len(a) \in Nat /\ Len(w) \in Nat \ {0} /\ Len(b) \in Nat /\ s \in Bytes
      /\ Len(s) = Len(a) + Len(w) + Len(b) /\ w \in Bytes
  <2>1. Len(w) \in Nat /\ Len(w) # 0 /\ w \in Bytes
    BY <1>1 DEF WholeNumber
  <2> QED BY <1>3, <2>1 DEF Encloses, Bytes
<1>5. i \in 1 .. Len(s) /\ j \in Nat /\ i \in Nat /\ Len(s) \in Nat
  BY <1>4
<1>6. IsNumeral(s, i, j)
  BY <1>1, <1>3, WholeIsNumeral
<1>7. Byte(s, j) = Byte(b, 1)
  <2>1. CASE Len(b) = 0
    BY <1>4, <2>1 DEF Byte
  <2>2. CASE Len(b) # 0
    <3>1. 1 \in 1 .. Len(b) /\ j <= Len(s) /\ 1 <= Len(b)
      BY <1>4, <2>2
    <3>2. s[Len(a) + Len(w) + 1] = b[1]
      BY <1>3, <3>1 DEF Encloses
    <3> QED BY <3>1, <3>2 DEF Byte
  <2> QED BY <2>1, <2>2
<1>8. SubSeq(s, i, j - 1) = w
  <2> DEFINE m == Len(w) - 1
             v == SubSeq(s, i, i + m)
  <2>1. m \in Nat /\ i + m <= Len(s) /\ i + m = j - 1 /\ m + 1 = Len(w)
    BY <1>4
  <2>2. v \in Bytes /\ Len(v) = m + 1 /\ \A k \in 1 .. m + 1 : v[k] = s[i + k - 1]
    <3> HIDE DEF m, i
    <3> QED BY <1>4, <1>5, <2>1, BytesFrom
  <2> HIDE DEF v, m
  <2>3. \A k \in 1 .. Len(v) : v[k] = w[k]
    <3>1. \A k \in 1 .. Len(w) : i + k - 1 = Len(a) + k
      BY <1>4
    <3>2. \A k \in 1 .. Len(w) : s[Len(a) + k] = w[k]
      BY <1>3 DEF Encloses
    <3> HIDE DEF i
    <3> QED BY <2>1, <2>2, <3>1, <3>2
  <2>4. v = w
    <3>1. v \in Seq(0 .. 255) /\ w \in Seq(0 .. 255) /\ Len(v) = Len(w)
      BY <1>4, <2>1, <2>2 DEF Bytes
    <3> QED BY <2>3, <3>1, SeqEqual
  <2> QED BY <2>1, <2>4 DEF v
<1>9. s[i] = w[1]
  <2>1. 1 \in 1 .. Len(w)
    BY <1>4
  <2> QED BY <1>3, <2>1 DEF Encloses
<1>10. w[1] \in Digits \cup {Minus}
  <2>1. z = 0 \/ z = 1
    BY <1>1 DEF WholeNumber
  <2>2. z = 0 => w[1] \in Digits
    <3>1. z = 0 => 1 \in z + 1 .. Len(w)
      BY <1>4
    <3> QED BY <1>1, <3>1 DEF WholeNumber
  <2> QED BY <1>1, <2>1, <2>2 DEF WholeNumber, Minus
<1>11. ScanNumber(s, i) = Append(<<type, n>>, j)
  <2>1. ScanNumber(s, i) = Append(Numeral(SubSeq(s, i, j - 1)), j)
    <3> HIDE DEF i, j
    <3> QED BY <1>4, <1>5, <1>6, <1>7, NumeralsAreRead
  <2> QED BY <1>2, <1>8, <2>1
<1>12. Append(<<type, n>>, j) = <<type, n, j>>
  BY AppendOfTwo
<1> HIDE DEF i, j
<1>13. Scan(s, i) = ScanNumber(s, i)
  <2> DEFINE c == s[i]
  <2>1. Byte(s, i) = c /\ c \in Digits \cup {Minus}
    BY <1>5, <1>9, <1>10 DEF Byte
  <2> HIDE DEF c
  <2>2. c \notin Blanks /\ c \notin DOMAIN Punctuation /\ c # Quote
    BY <2>1 DEF Digits, Minus, Blanks, Punctuation, Quote, Eof
  <2>3. SkipBlanks(s, i) = i
    BY <1>5, <2>1, <2>2, BlanksEnd
  <2> QED BY <2>1, <2>2, <2>3 DEF Scan
<1> QED BY <1>11, <1>12, <1>13 DEF s, w, i, j, type
=============================================================================
