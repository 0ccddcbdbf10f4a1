-------------------------- MODULE JsonGrammarProofs --------------------------
(***************************************************************************)
(* The parser of DataLayer/json.hpp against the grammar: the loop with its *)
(* stack of BOOLEANs accepts the texts that the rules derive, and no other *)
(* ones; the builder with its stack of pointers makes the value that is    *)
(* written there; and so every job gets what its texts say.                *)
(*                                                                         *)
(* Both are shown for texts of any length and any depth.  The rules have   *)
(* one right-hand side for every kind of token, so that what is derivable  *)
(* is known without an induction over derivations.                         *)
(***************************************************************************)
EXTENDS JsonParserProofs, JsonGrammar

-----------------------------------------------------------------------------
(* The rules: what more facts lead to, and why derivability is a fixed     *)
(* point of them, though it is defined as the least set that is closed.    *)
LEMMA FollowsMore ==
  ASSUME NEW s, NEW x, NEW R, NEW Q, R \subseteq Q, Follows(R, s, x)
  PROVE  Follows(Q, s, x)
  <1>1. IsValue(R, s, x[2], x[3]) => IsValue(Q, s, x[2], x[3])
    BY DEF IsValue
  <1>2. AreElements(R, s, x[2], x[3]) => AreElements(Q, s, x[2], x[3])
    BY DEF AreElements
  <1>3. AreMembers(R, s, x[2], x[3]) => AreMembers(Q, s, x[2], x[3])
    BY DEF AreMembers
  <1> QED
    BY <1>1, <1>2, <1>3 DEF Follows

(* What is derivable is what a rule leads to from what is derivable.       *)
LEMMA DerivedByRule ==
  ASSUME NEW s, NEW x \in Facts(s)
  PROVE  x \in Derivable(s) <=> Follows(Derivable(s), s, x)
  <1> DEFINE D == Derivable(s)
             E == {y \in Facts(s) : Follows(D, s, y)}
  <1>1. D \subseteq Facts(s) /\ \A R \in SUBSET Facts(s) : ClosedUnder(R, s) => D \subseteq R
    BY DEF Derivable
  <1>2. \A y \in Facts(s) :
          (\A R \in SUBSET Facts(s) : ClosedUnder(R, s) => y \in R) => y \in D
    BY DEF Derivable
  <1> HIDE DEF D
  <1>3. ASSUME NEW y \in Facts(s), Follows(D, s, y)
        PROVE  y \in D
    <2>1. ASSUME NEW R \in SUBSET Facts(s), ClosedUnder(R, s)
          PROVE  y \in R
      <3>1. Follows(R, s, y)
        BY <1>1, <1>3, <2>1, FollowsMore
      <3> QED
        BY <2>1, <3>1 DEF ClosedUnder
    <2> QED
      BY <1>2, <2>1
  <1>4. ClosedUnder(E, s)
    <2>1. ASSUME NEW y \in Facts(s), Follows(E, s, y)
          PROVE  y \in E
      <3>1. E \subseteq D
        BY <1>3
      <3> HIDE DEF E
      <3>2. Follows(D, s, y)
        BY <2>1, <3>1, FollowsMore
      <3> USE DEF E
      <3> QED
        BY <3>2
    <2> HIDE DEF E
    <2> QED
      BY <2>1 DEF ClosedUnder
  <1>5. D \subseteq E
    BY <1>1, <1>4
  <1> QED
    BY <1>3, <1>5 DEF D

LEMMA ValueByRule ==
  ASSUME NEW s, NEW t \in Tokens(s), NEW j \in Nat
  PROVE  <<"value", t, j>> \in Derivable(s) <=> IsValue(Derivable(s), s, t, j)
  <1>1. <<"value", t, j>> \in Facts(s)
    BY DEF Facts
  <1>2. Follows(Derivable(s), s, <<"value", t, j>>) <=> IsValue(Derivable(s), s, t, j)
    BY DEF Follows
  <1> QED
    BY <1>1, <1>2, DerivedByRule

LEMMA ElementsByRule ==
  ASSUME NEW s, NEW t \in Tokens(s), NEW j \in Nat
  PROVE  <<"array", t, j>> \in Derivable(s) <=> AreElements(Derivable(s), s, t, j)
  <1>1. <<"array", t, j>> \in Facts(s)
    BY DEF Facts
  <1>2. Follows(Derivable(s), s, <<"array", t, j>>) <=> AreElements(Derivable(s), s, t, j)
    BY DEF Follows
  <1> QED
    BY <1>1, <1>2, DerivedByRule

LEMMA MembersByRule ==
  ASSUME NEW s, NEW t \in Tokens(s), NEW j \in Nat
  PROVE  <<"object", t, j>> \in Derivable(s) <=> AreMembers(Derivable(s), s, t, j)
  <1>1. <<"object", t, j>> \in Facts(s)
    BY DEF Facts
  <1>2. Follows(Derivable(s), s, <<"object", t, j>>) <=> AreMembers(Derivable(s), s, t, j)
    BY DEF Follows
  <1> QED
    BY <1>1, <1>2, DerivedByRule

LEMMA TokenAt == ASSUME NEW s, NEW i \in Nat PROVE Scan(s, i) \in Tokens(s)
  BY DEF Tokens

-----------------------------------------------------------------------------
(* The symbol of the items that a structure is read for.                   *)
Symbol(array) == IF array THEN "array" ELSE "object"
Fact(s, symbol, t, j) == <<symbol, t, j>> \in Derivable(s)

(* The first token of the text, and for every open structure that of the   *)
(* value in it that is being read: a structure ends where its items do.    *)
Begun(s, open, c) ==
  /\ c \in Seq(Tokens(s)) /\ Len(c) = Len(open) + 1
  /\ c[1] = FirstToken(s)
  /\ \A k \in 1 .. Len(open) : \A j \in Nat :
       Fact(s, "value", c[k], j) <=> Fact(s, Symbol(open[k]), c[k + 1], j)
  /\ \A k \in 1 .. Len(c) :
       (\E j \in Nat : ValueEnds(s, j)) => \E j \in Nat : Fact(s, "value", c[k], j)

(* The inductive invariant.  At a value, the text is JSON if and where the *)
(* values that are begun are; past a value, the innermost of them ends     *)
(* where the lexer stands, and nowhere else.                               *)
Deriving ==
  /\ phase = "value" => \E c : Begun(text, states, c) /\ Last(c) = last_token
  /\ phase = "after" =>
       \E c : Begun(text, states, c) /\ \A j \in Nat : Fact(text, "value", Last(c), j) <=> j = next
  /\ phase = "done" => next \in Nat /\ \A j \in Nat : ValueEnds(text, j) <=> j = next
  /\ phase = "thrown" => \A j \in Nat : ~ValueEnds(text, j)

LEMMA ItemsBegin ==
  ASSUME NEW s, NEW array \in BOOLEAN, NEW t \in Tokens(s), NEW j \in Nat, Fact(s, Symbol(array), t, j)
  PROVE  \E m \in Nat : Fact(s, "value", t, m)
  <1>1. CASE array
    BY <1>1, ElementsByRule DEF Fact, Symbol, AreElements
  <1>2. CASE ~array
    BY <1>2, MembersByRule DEF Fact, Symbol, AreMembers
  <1> QED
    BY <1>1, <1>2

LEMMA BegunDeeper ==
  ASSUME NEW s, NEW open \in Seq(BOOLEAN), NEW c, Begun(s, open, c), NEW array \in BOOLEAN, NEW t \in Tokens(s),
         \A j \in Nat : Fact(s, "value", Last(c), j) <=> Fact(s, Symbol(array), t, j)
  PROVE  Begun(s, Append(open, array), Append(c, t)) /\ Last(Append(c, t)) = t
  <1> DEFINE b == Append(c, t)
             more == Append(open, array)
             n == Len(open)
  <1>1. n \in Nat /\ c \in Seq(Tokens(s)) /\ Len(c) = n + 1 /\ Last(c) = c[n + 1]
    BY DEF Begun, Last
  <1>2. /\ b \in Seq(Tokens(s)) /\ Len(b) = n + 2 /\ b[n + 2] = t
        /\ \A k \in 1 .. n + 1 : b[k] = c[k]
    BY <1>1
  <1>3. /\ Len(more) = n + 1 /\ more[n + 1] = array
        /\ \A k \in 1 .. n : more[k] = open[k]
    BY <1>1
  <1> HIDE DEF b, more
  <1>4. \A k \in 1 .. n + 1 : \A j \in Nat :
          Fact(s, "value", b[k], j) <=> Fact(s, Symbol(more[k]), b[k + 1], j)
    <2>1. ASSUME NEW k \in 1 .. n, NEW j \in Nat
          PROVE  Fact(s, "value", b[k], j) <=> Fact(s, Symbol(more[k]), b[k + 1], j)
      <3>1. b[k] = c[k] /\ b[k + 1] = c[k + 1] /\ more[k] = open[k]
        BY <1>1, <1>2, <1>3
      <3> QED
        BY <3>1 DEF Begun
    <2>2. ASSUME NEW j \in Nat
          PROVE  Fact(s, "value", b[n + 1], j) <=> Fact(s, Symbol(more[n + 1]), b[n + 2], j)
      BY <1>1, <1>2, <1>3
    <2> QED
      BY <1>1, <2>1, <2>2
  <1>5. ASSUME NEW k \in 1 .. n + 2, \E j \in Nat : ValueEnds(s, j)
        PROVE  \E j \in Nat : Fact(s, "value", b[k], j)
    <2>1. \A i \in 1 .. n + 1 : \E j \in Nat : Fact(s, "value", c[i], j)
      BY <1>1, <1>5 DEF Begun
    <2>2. CASE k \in 1 .. n + 1
      BY <1>2, <2>1, <2>2
    <2>3. CASE k = n + 2
      <3>1. PICK j \in Nat : Fact(s, "value", c[n + 1], j)
        BY <1>1, <2>1
      <3>2. Fact(s, Symbol(array), t, j)
        BY <1>1, <3>1
      <3> QED
        BY <1>2, <2>3, <3>2, ItemsBegin
    <2> QED
      BY <1>1, <2>2, <2>3
  <1>6. b[1] = FirstToken(s)
    BY <1>1, <1>2 DEF Begun
  <1>7. Begun(s, more, b)
    BY <1>2, <1>3, <1>4, <1>5, <1>6 DEF Begun, Fact
  <1>8. Last(b) = t
    BY <1>1, <1>2 DEF Last
  <1> QED
    BY <1>7, <1>8 DEF b, more

LEMMA BegunOnward ==
  ASSUME NEW s, NEW open \in Seq(BOOLEAN), NEW c, Begun(s, open, c), open # <<>>, NEW t \in Tokens(s),
         
         \A j \in Nat : Fact(s, Symbol(Last(open)), Last(c), j) <=> Fact(s, Symbol(Last(open)), t, j)
  PROVE  \E b : Begun(s, open, b) /\ Last(b) = t
  <1> DEFINE n == Len(open)
  <1>1. /\ n \in Nat \ {0} /\ c \in Seq(Tokens(s)) /\ Len(c) = n + 1 /\ Last(c) = c[n + 1]
        /\ Last(open) = open[n] /\ open[n] \in BOOLEAN
    BY DEF Begun, Last
  <1>2. PICK b : /\ b \in Seq(Tokens(s)) /\ Len(b) = n + 1 /\ b[n + 1] = t
                 /\ \A k \in 1 .. n : b[k] = c[k]
    <2> DEFINE d == [c EXCEPT ![n + 1] = t]
    <2>1. /\ d \in Seq(Tokens(s)) /\ Len(d) = n + 1 /\ d[n + 1] = t
          /\ \A k \in 1 .. n : d[k] = c[k]
      BY <1>1
    <2> QED
      BY <2>1
  <1>3. ASSUME NEW k \in 1 .. n, NEW j \in Nat
        PROVE  Fact(s, "value", b[k], j) <=> Fact(s, Symbol(open[k]), b[k + 1], j)
    <2>1. Fact(s, "value", c[k], j) <=> Fact(s, Symbol(open[k]), c[k + 1], j)
      BY DEF Begun
    <2>2. CASE k = n
      BY <1>1, <1>2, <2>1, <2>2
    <2>3. CASE k # n
      <3>1. k + 1 \in 1 .. n
        BY <1>1, <2>3
      <3> QED
        BY <1>2, <2>1, <3>1
    <2> QED
      BY <2>2, <2>3
  <1>4. ASSUME NEW k \in 1 .. n + 1, \E j \in Nat : ValueEnds(s, j)
        PROVE  \E j \in Nat : Fact(s, "value", b[k], j)
    <2>1. \A i \in 1 .. n + 1 : \E j \in Nat : Fact(s, "value", c[i], j)
      BY <1>1, <1>4 DEF Begun
    <2>2. CASE k \in 1 .. n
      BY <1>1, <1>2, <2>1, <2>2
    <2>3. CASE k = n + 1
      <3>1. PICK j \in Nat : Fact(s, "value", c[n], j)
        BY <1>1, <2>1
      <3>2. Fact(s, Symbol(Last(open)), t, j)
        BY <1>1, <3>1 DEF Begun
      <3> QED
        BY <1>1, <1>2, <2>3, <3>2, ItemsBegin
    <2> QED
      BY <1>1, <2>2, <2>3
  <1>5. b[1] = FirstToken(s)
    BY <1>1, <1>2 DEF Begun
  <1>6. Begun(s, open, b)
    BY <1>2, <1>3, <1>4, <1>5 DEF Begun, Fact
  <1>7. Last(b) = t
    BY <1>1, <1>2 DEF Last
  <1> QED
    BY <1>6, <1>7

LEMMA FrontOf ==
  ASSUME NEW S, NEW q \in Seq(S), q # <<>>, NEW f, f = Front(q)
  PROVE  /\ f \in Seq(S) /\ Len(f) = Len(q) - 1
         /\ \A k \in 1 .. Len(q) - 1 : f[k] = q[k]
  <1> DEFINE m == Len(q)
  <1>1. m \in Nat \ {0} /\ f = SubSeq(q, 1, m - 1)
    BY DEF Front
  <1>2. \A k \in 1 .. m - 1 : q[k] \in S
    BY <1>1
  <1> HIDE DEF m
  <1>3. /\ f \in Seq(S) /\ Len(f) = IF 1 <= m - 1 THEN m - 1 - 1 + 1 ELSE 0
        /\ \A k \in 1 .. m - 1 - 1 + 1 : f[k] = q[1 + k - 1]
    BY <1>1, <1>2, SubSeqProperties
  <1>4. Len(f) = m - 1 /\ \A k \in 1 .. m - 1 : f[k] = q[k]
    <2>1. m - 1 - 1 + 1 = m - 1 /\ \A k \in 1 .. m - 1 : 1 + k - 1 = k
      BY <1>1
    <2> QED
      BY <1>1, <1>3, <2>1
  <1> QED
    BY <1>3, <1>4 DEF m

LEMMA BegunOutward ==
  ASSUME NEW s, NEW open \in Seq(BOOLEAN), NEW c, Begun(s, open, c), open # <<>>,
         NEW fewer, fewer = Front(open)
  PROVE  \E b : /\ Begun(s, fewer, b)
                /\ \A j \in Nat : Fact(s, "value", Last(b), j) <=> Fact(s, Symbol(Last(open)), Last(c), j)
  <1> DEFINE n == Len(open)
  <1>1. /\ n \in Nat \ {0} /\ c \in Seq(Tokens(s)) /\ Len(c) = n + 1 /\ Last(c) = c[n + 1]
        /\ Last(open) = open[n] /\ open[n] \in BOOLEAN
    BY DEF Begun, Last
  <1>2. PICK b : /\ b \in Seq(Tokens(s)) /\ Len(b) = n
                 /\ \A k \in 1 .. n : b[k] = c[k]
    <2>1. c # <<>> /\ n + 1 - 1 = n
      BY <1>1
    <2>2. /\ Front(c) \in Seq(Tokens(s)) /\ Len(Front(c)) = Len(c) - 1
          /\ \A k \in 1 .. Len(c) - 1 : Front(c)[k] = c[k]
      <3>1. c \in Seq(Tokens(s))
        BY <1>1
      <3> QED
        BY <2>1, <3>1, FrontOf
    <2> QED
      BY <1>1, <2>1, <2>2
  <1>3. /\ fewer \in Seq(BOOLEAN) /\ Len(fewer) = n - 1
        /\ \A k \in 1 .. n - 1 : fewer[k] = open[k]
    BY FrontOf
  <1>4. ASSUME NEW k \in 1 .. n - 1, NEW j \in Nat
        PROVE  Fact(s, "value", b[k], j) <=> Fact(s, Symbol(fewer[k]), b[k + 1], j)
    <2>1. b[k] = c[k] /\ b[k + 1] = c[k + 1] /\ fewer[k] = open[k] /\ k \in 1 .. n
      BY <1>1, <1>2, <1>3
    <2> QED
      BY <2>1 DEF Begun
  <1>5. ASSUME NEW k \in 1 .. n, \E j \in Nat : ValueEnds(s, j)
        PROVE  \E j \in Nat : Fact(s, "value", b[k], j)
    BY <1>1, <1>2, <1>5 DEF Begun
  <1>6. b[1] = FirstToken(s)
    BY <1>1, <1>2 DEF Begun
  <1>7. Begun(s, fewer, b)
    <2>1. Len(b) = Len(fewer) + 1 /\ 1 .. Len(fewer) = 1 .. n - 1 /\ 1 .. Len(b) = 1 .. n
      BY <1>1, <1>2, <1>3
    <2>2. \A k \in 1 .. Len(fewer) : \A j \in Nat :
            Fact(s, "value", b[k], j) <=> Fact(s, Symbol(fewer[k]), b[k + 1], j)
      BY <1>4, <2>1 DEF Fact
    <2>3. \A k \in 1 .. Len(b) :
            (\E j \in Nat : ValueEnds(s, j)) => \E j \in Nat : Fact(s, "value", b[k], j)
      BY <1>5, <2>1 DEF Fact
    <2> QED
      BY <1>2, <1>6, <2>1, <2>2, <2>3 DEF Begun
  <1>8. Last(b) = c[n]
    BY <1>1, <1>2 DEF Last
  <1>9. \A j \in Nat : Fact(s, "value", c[n], j) <=> Fact(s, Symbol(open[n]), c[n + 1], j)
    BY <1>1 DEF Begun
  <1> QED
    BY <1>1, <1>7, <1>8, <1>9

-----------------------------------------------------------------------------
(* What the rules come to for a token of each kind.                        *)
LEMMA ScalarEnds ==
  ASSUME NEW s, NEW t \in Tokens(s), IsScalar(t), NEW j \in Nat
  PROVE  Fact(s, "value", t, j) <=> j = t[3]
  <1>1. t[1] \notin {"begin_array", "begin_object"}
    BY DEF IsScalar
  <1> QED
    BY <1>1, ValueByRule DEF IsValue, Fact

LEMMA NothingEnds ==
  ASSUME NEW s, NEW t \in Tokens(s), ~IsScalar(t), NEW j \in Nat,
         t[1] \notin {"begin_array", "begin_object"}
  PROVE  ~Fact(s, "value", t, j)
  BY ValueByRule DEF IsValue, Fact

LEMMA ItemEnds ==
  ASSUME NEW s, NEW array \in BOOLEAN, NEW t \in Tokens(s), NEW m \in Nat,
         \A j \in Nat : Fact(s, "value", t, j) <=> j = m,
         NEW u, u = Scan(s, m), NEW j \in Nat
  PROVE  Fact(s, Symbol(array), t, j) <=>
           \/ u[1] = (IF array THEN "end_array" ELSE "end_object") /\ j = u[3]
           \/ u[1] = "value_separator" /\
                IF array THEN Fact(s, "array", After(s, u), j)
                ELSE Named(s, After(s, u)) /\ Fact(s, "object", MemberValue(s, After(s, u)), j)
  <1>1. CASE array
    <2>1. Fact(s, Symbol(array), t, j) <=>
            \E k \in Nat : LET v == Scan(s, k) IN
              /\ Fact(s, "value", t, k)
              /\ \/ v[1] = "end_array" /\ j = v[3]
                 \/ v[1] = "value_separator" /\ Fact(s, "array", After(s, v), j)
      BY <1>1, ElementsByRule DEF AreElements, Fact, Symbol
    <2> QED
      BY <1>1, <2>1
  <1>2. CASE ~array
    <2>1. Fact(s, Symbol(array), t, j) <=>
            \E k \in Nat : LET v == Scan(s, k) IN
              /\ Fact(s, "value", t, k)
              /\ \/ v[1] = "end_object" /\ j = v[3]
                 \/ /\ v[1] = "value_separator" /\ Named(s, After(s, v))
                    /\ Fact(s, "object", MemberValue(s, After(s, v)), j)
      BY <1>2, MembersByRule DEF AreMembers, Fact, Symbol
    <2> QED
      BY <1>2, <2>1
  <1> QED
    BY <1>1, <1>2

LEMMA ArrayEnds ==
  ASSUME NEW s, NEW t \in Tokens(s), t[1] = "begin_array", t[3] \in Nat, NEW j \in Nat
  PROVE  Fact(s, "value", t, j) <=>
           IF After(s, t)[1] = "end_array" THEN j = After(s, t)[3] ELSE Fact(s, "array", After(s, t), j)
  <1> DEFINE u == After(s, t)
  <1>1. u \in Tokens(s)
    BY TokenAt DEF After
  <1>2. ~IsScalar(t)
    BY DEF IsScalar
  <1>3. ASSUME u[1] = "end_array" PROVE ~Fact(s, "array", u, j)
    <2>1. ~IsScalar(u) /\ u[1] \notin {"begin_array", "begin_object"}
      BY <1>3 DEF IsScalar
    <2>2. \A m \in Nat : ~Fact(s, "value", u, m)
      BY <1>1, <2>1, NothingEnds
    <2> QED
      BY <1>1, <2>2, ElementsByRule DEF AreElements, Fact
  <1> QED
    BY <1>2, <1>3, ValueByRule DEF IsValue, Fact

LEMMA ObjectEnds ==
  ASSUME NEW s, NEW t \in Tokens(s), t[1] = "begin_object", NEW j \in Nat
  PROVE  Fact(s, "value", t, j) <=>
           IF After(s, t)[1] = "end_object" THEN j = After(s, t)[3]
           ELSE Named(s, After(s, t)) /\ Fact(s, "object", MemberValue(s, After(s, t)), j)
  <1>1. ~IsScalar(t)
    BY DEF IsScalar
  <1>2. After(s, t)[1] = "end_object" => ~Named(s, After(s, t))
    BY DEF Named
  <1> QED
    BY <1>1, <1>2, ValueByRule DEF IsValue, Fact

LEMMA KeyIsNamed ==
  ASSUME NEW i
  PROVE  /\ KeyAt(i) <=> Named(text, Token(i))
         /\ Token(ValueAt(i)) = MemberValue(text, Token(i))
  BY DEF KeyAt, Named, ValueAt, MemberValue, Token, After

-----------------------------------------------------------------------------
(* A step of the parser is a step along the rules.                         *)
LEMMA CompleteKeepsDeriving ==
  ASSUME NEW c, Begun(text, states, c), phase' = "after", UNCHANGED <<text, states>>,
         \A j \in Nat : Fact(text, "value", Last(c), j) <=> j = next'
  PROVE  Deriving'
  BY DEF Deriving

LEMMA BeginKeepsDeriving ==
  ASSUME NEW c, Begun(text, states', c), phase' = "value", UNCHANGED text, Last(c) = last_token'
  PROVE  Deriving'
  BY DEF Deriving

LEMMA ReadEmptyKeepsDeriving ==
  ASSUME Stacks, Reading, Deriving, ReadEmptyObject \/ ReadEmptyArray
  PROVE  Deriving'
  <1>1. /\ phase = "value" /\ phase' = "after" /\ next' = Token(next)[3] /\ UNCHANGED <<text, states>>
        /\ last_token[1] # "parse_error"
        /\ \/ last_token[1] = "begin_object" /\ Token(next)[1] = "end_object"
           \/ last_token[1] = "begin_array" /\ Token(next)[1] = "end_array"
    BY DEF ReadEmptyObject, ReadEmptyArray, ReadEmpty, Reads
  <1>2. PICK c : Begun(text, states, c) /\ Last(c) = last_token
    BY <1>1 DEF Deriving
  <1>3. next = last_token[3] /\ next \in Nat /\ Token(next) = After(text, last_token)
    BY <1>1, GoesOn DEF Reading, Token, After
  <1>4. last_token \in Tokens(text)
    BY <1>2, <1>1 DEF Begun, Stacks, Last
  <1>5. \A j \in Nat : Fact(text, "value", last_token, j) <=> j = next'
    BY <1>1, <1>3, <1>4, ArrayEnds, ObjectEnds
  <1> QED
    BY <1>1, <1>2, <1>5, CompleteKeepsDeriving

LEMMA ReadScalarKeepsDeriving ==
  ASSUME Stacks, Reading, Deriving, ReadScalar
  PROVE  Deriving'
  <1>1. /\ phase = "value" /\ phase' = "after" /\ UNCHANGED <<text, next, states>>
        /\ last_token[1] \in DOMAIN Scalars /\ ~Overflows
    BY DEF ReadScalar, Reads
  <1>2. PICK c : Begun(text, states, c) /\ Last(c) = last_token
    BY <1>1 DEF Deriving
  <1>3. IsScalar(last_token)
    BY <1>1 DEF Scalars, Overflows, IsScalar
  <1>4. last_token \in Tokens(text)
    BY <1>2, <1>1 DEF Begun, Stacks, Last
  <1>5. \A j \in Nat : Fact(text, "value", last_token, j) <=> j = next'
    BY <1>1, <1>3, <1>4, ScalarEnds DEF Reading
  <1> QED
    BY <1>1, <1>2, <1>5, CompleteKeepsDeriving

LEMMA OpenKeepsDeriving ==
  ASSUME Stacks, Reading, Deriving, OpenObject \/ OpenArray
  PROVE  Deriving'
  <1>1. PICK array \in BOOLEAN :
          /\ phase = "value" /\ phase' = "value" /\ states' = Append(states, array) /\ text' = text
          /\ IF array THEN /\ last_token[1] = "begin_array" /\ Token(next)[1] # "end_array"
                           /\ last_token' = Token(next)
             ELSE /\ last_token[1] = "begin_object" /\ KeyAt(next)
                  /\ last_token' = Token(ValueAt(next))
    BY DEF OpenObject, OpenArray, Reads, Open, Get
  <1>2. PICK c : Begun(text, states, c) /\ Last(c) = last_token
    BY <1>1 DEF Deriving
  <1>3. /\ text \in Bytes /\ next \in Nat \ {0}
        /\ next = last_token[3] /\ Token(next) = After(text, last_token)
    BY <1>1, GoesOn DEF Reading, Token, After
  <1>4. last_token \in Tokens(text) /\ states \in Seq(BOOLEAN)
    BY <1>2, <1>1 DEF Begun, Stacks, Last
  <1>5. /\ last_token' \in Tokens(text)
        /\ \A j \in Nat : Fact(text, "value", last_token, j) <=> Fact(text, Symbol(array), last_token', j)
    <2>1. CASE array
      BY <1>1, <1>3, <1>4, <2>1, ArrayEnds, TokenAt DEF Symbol, After
    <2>2. CASE ~array
      <3>1. /\ Named(text, After(text, last_token)) /\ last_token' = MemberValue(text, After(text, last_token))
            /\ ValueAt(next) \in Nat /\ After(text, last_token)[1] # "end_object"
        BY <1>1, <1>3, <2>2, KeyIsNamed, KeyIs DEF Named
      <3>2. last_token' \in Tokens(text)
        BY <1>1, <2>2, <3>1, TokenAt DEF Token
      <3> QED
        BY <1>1, <1>4, <2>2, <3>1, <3>2, ObjectEnds DEF Symbol
    <2> QED
      BY <2>1, <2>2
  <1>6. PICK b : Begun(text, states', b) /\ Last(b) = last_token'
    <2>1. \A j \in Nat : Fact(text, "value", Last(c), j) <=> Fact(text, Symbol(array), last_token', j)
      BY <1>2, <1>5
    <2>2. states' = Append(states, array) /\ Begun(text, states, c)
      BY <1>1, <1>2
    <2> DEFINE t == last_token'
    <2>3. t \in Tokens(text) /\ \A j \in Nat : Fact(text, "value", Last(c), j) <=> Fact(text, Symbol(array), t, j)
      BY <1>5, <2>1
    <2> HIDE DEF t
    <2>4. Begun(text, Append(states, array), Append(c, t)) /\ Last(Append(c, t)) = t
      BY <1>4, <2>2, <2>3, BegunDeeper
    <2> QED
      BY <2>2, <2>4 DEF t
  <1> QED
    BY <1>1, <1>6, BeginKeepsDeriving

(* Where the loop is, after a value inside of a structure.                 *)
LEMMA InsideOf ==
  ASSUME Stacks, Reading, Deriving, phase = "after", states # <<>>
  PROVE  \E c : /\ Begun(text, states, c) /\ Last(c) \in Tokens(text)
                /\ \A j \in Nat : Fact(text, "value", Last(c), j) <=> j = next
                /\ next \in Nat \ {0} /\ text \in Bytes /\ Last(states) = states[Len(states)]
                /\ states \in Seq(BOOLEAN) /\ Last(states) \in BOOLEAN
  <1>1. PICK c : Begun(text, states, c) /\ \A j \in Nat : Fact(text, "value", Last(c), j) <=> j = next
    BY DEF Deriving
  <1>2. states \in Seq(BOOLEAN) /\ Last(states) = states[Len(states)] /\ Last(states) \in BOOLEAN
    BY Innermost DEF Stacks
  <1>3. Last(c) \in Tokens(text)
    BY <1>1, <1>2 DEF Begun, Last
  <1> QED
    BY <1>1, <1>2, <1>3, GoesOn

LEMMA NextItemKeepsDeriving ==
  ASSUME Stacks, Reading, Deriving, NextElement \/ NextMember
  PROVE  Deriving'
  <1>1. /\ phase = "after" /\ phase' = "value" /\ states # <<>> /\ UNCHANGED <<text, states>>
        /\ Token(next)[1] = "value_separator"
        /\ \/ states[Len(states)] = TRUE /\ last_token' = Token(Token(next)[3])
           \/ /\ states[Len(states)] = FALSE /\ KeyAt(Token(next)[3])
              /\ last_token' = Token(ValueAt(Token(next)[3]))
    BY DEF NextElement, NextMember, Inside, Get
  <1>2. PICK c : /\ Begun(text, states, c) /\ Last(c) \in Tokens(text)
                 /\ \A j \in Nat : Fact(text, "value", Last(c), j) <=> j = next
                 /\ next \in Nat \ {0} /\ text \in Bytes /\ Last(states) = states[Len(states)]
                 /\ states \in Seq(BOOLEAN) /\ Last(states) \in BOOLEAN
    BY <1>1, InsideOf
  <1> DEFINE u == Token(next)
  <1>3. u = Scan(text, next) /\ u[3] \in Nat \ {0} /\ Token(u[3]) = After(text, u)
    BY <1>1, <1>2, TokenIs DEF Token, After, WellFormed
  <1> HIDE DEF u
  <1>4. u[1] = "value_separator"
    BY <1>1 DEF u
  <1>5. /\ last_token' \in Tokens(text)
        /\ \A j \in Nat : Fact(text, Symbol(Last(states)), Last(c), j)
                            <=> Fact(text, Symbol(Last(states)), last_token', j)
    <2>1. CASE Last(states)
      <3>1. last_token' = After(text, u)
        BY <1>1, <1>2, <1>3, <2>1 DEF u
      <3>2. last_token' \in Tokens(text)
        BY <1>3, <3>1, TokenAt DEF After
      <3>3. ASSUME NEW j \in Nat
            PROVE  Fact(text, "array", Last(c), j) <=> Fact(text, "array", last_token', j)
        <4>1. PICK t \in Tokens(text), m \in Nat, array \in BOOLEAN :
                t = Last(c) /\ m = next /\ array = TRUE
          BY <1>2
        <4>2. u = Scan(text, m) /\ \A k \in Nat : Fact(text, "value", t, k) <=> k = m
          BY <1>2, <1>3, <4>1
        <4>3. Fact(text, Symbol(array), t, j) <=>
                \/ u[1] = (IF array THEN "end_array" ELSE "end_object") /\ j = u[3]
                \/ u[1] = "value_separator" /\
                     IF array THEN Fact(text, "array", After(text, u), j)
                     ELSE /\ Named(text, After(text, u))
                          /\ Fact(text, "object", MemberValue(text, After(text, u)), j)
          BY <4>2, ItemEnds
        <4> QED
          BY <1>4, <3>1, <4>1, <4>3 DEF Symbol
      <3>4. Symbol(Last(states)) = "array"
        BY <2>1 DEF Symbol
      <3> QED
        BY <3>2, <3>3, <3>4
    <2>2. CASE ~Last(states)
      <3>1. KeyAt(u[3]) /\ last_token' = Token(ValueAt(u[3]))
        BY <1>1, <1>2, <2>2 DEF u
      <3>2. Named(text, After(text, u)) /\ last_token' = MemberValue(text, After(text, u))
        BY <1>3, <3>1, KeyIsNamed
      <3>3. last_token' \in Tokens(text)
        BY <1>2, <1>3, <3>1, KeyIs, TokenAt DEF Token
      <3> QED
        BY <1>2, <1>3, <1>4, <2>2, <3>2, <3>3, ItemEnds DEF Symbol
    <2> QED
      BY <1>2, <2>1, <2>2
  <1>6. PICK b : Begun(text, states, b) /\ Last(b) = last_token'
    BY <1>1, <1>2, <1>5, BegunOnward
  <1> QED
    BY <1>1, <1>6, BeginKeepsDeriving

LEMMA CloseKeepsDeriving ==
  ASSUME Stacks, Reading, Deriving, Close
  PROVE  Deriving'
  <1>1. /\ phase = "after" /\ phase' = "after" /\ states # <<>> /\ text' = text
        /\ states' = Front(states) /\ next' = Token(next)[3]
        /\ \/ states[Len(states)] = TRUE /\ Token(next)[1] = "end_array"
           \/ states[Len(states)] = FALSE /\ Token(next)[1] = "end_object"
    BY DEF Close, Inside, Leave
  <1>2. PICK c : /\ Begun(text, states, c) /\ Last(c) \in Tokens(text)
                 /\ \A j \in Nat : Fact(text, "value", Last(c), j) <=> j = next
                 /\ next \in Nat \ {0} /\ text \in Bytes /\ Last(states) = states[Len(states)]
                 /\ states \in Seq(BOOLEAN) /\ Last(states) \in BOOLEAN
    BY <1>1, InsideOf
  <1> DEFINE u == Scan(text, next)
  <1>3. u = Token(next)
    BY DEF Token
  <1> HIDE DEF u
  <1>4. /\ u[1] = (IF Last(states) THEN "end_array" ELSE "end_object")
        /\ u[1] # "value_separator" /\ next' = u[3]
    BY <1>1, <1>2, <1>3
  <1>5. \A j \in Nat : Fact(text, Symbol(Last(states)), Last(c), j) <=> j = next'
    BY <1>2, <1>4, ItemEnds DEF u
  <1>6. PICK b : /\ Begun(text, states', b)
                 /\ \A j \in Nat : Fact(text, "value", Last(b), j)
                                     <=> Fact(text, Symbol(Last(states)), Last(c), j)
    BY <1>1, <1>2, BegunOutward
  <1>7. \A j \in Nat : Fact(text, "value", Last(b), j) <=> j = next'
    BY <1>5, <1>6
  <1> QED
    BY <1>1, <1>6, <1>7 DEF Deriving

LEMMA FinishKeepsDeriving ==
  ASSUME Stacks, Reading, Deriving, Finish
  PROVE  Deriving'
  <1>1. phase = "after" /\ phase' = "done" /\ states = <<>> /\ UNCHANGED <<text, next>>
    BY DEF Finish
  <1>2. PICK c : Begun(text, states, c) /\ \A j \in Nat : Fact(text, "value", Last(c), j) <=> j = next
    BY <1>1 DEF Deriving
  <1>3. Last(c) = FirstToken(text)
    BY <1>1, <1>2 DEF Begun, Last
  <1>4. \A j \in Nat : ValueEnds(text, j) <=> j = next
    BY <1>2, <1>3 DEF ValueEnds, Fact
  <1>5. next \in Nat
    BY <1>1 DEF Reading
  <1> QED
    BY <1>1, <1>4, <1>5 DEF Deriving

LEMMA NoWayOn ==
  ASSUME NEW c, NEW k \in 1 .. Len(c), Begun(text, states, c),
         \A j \in Nat : ~Fact(text, "value", c[k], j)
  PROVE  \A j \in Nat : ~ValueEnds(text, j)
  BY DEF Begun

LEMMA ThrowKeepsDeriving ==
  ASSUME Stacks, Reading, Deriving, Throw
  PROVE  Deriving'
  <1>1. Unexpected /\ phase' = "thrown" /\ text' = text
    BY DEF Throw
  <1>2. SUFFICES \A j \in Nat : ~ValueEnds(text, j)
    BY <1>1 DEF Deriving
  <1>3. CASE phase = "value"
    <2>1. PICK c : Begun(text, states, c) /\ Last(c) = last_token
      BY <1>3 DEF Deriving
    <2>2. /\ last_token = c[Len(c)] /\ Len(c) \in 1 .. Len(c) /\ last_token \in Tokens(text)
      BY <2>1, <1>3 DEF Begun, Stacks, Last
    <2>3. ASSUME last_token[1] \notin {"begin_object", "begin_array"},
                 last_token[1] \notin DOMAIN Scalars \/ Overflows
          PROVE  \A j \in Nat : ~Fact(text, "value", last_token, j)
      <3>1. ~IsScalar(last_token)
        BY <2>3 DEF IsScalar, Scalars, Overflows
      <3> QED
        BY <2>2, <2>3, <3>1, NothingEnds
    <2>4. ASSUME last_token[1] = "begin_object", Token(next)[1] # "end_object", ~KeyAt(next)
          PROVE  \A j \in Nat : ~Fact(text, "value", last_token, j)
      <3>1. Token(next) = After(text, last_token)
        BY <1>3 DEF Reading, Token, After
      <3> QED
        BY <2>2, <2>4, <3>1, ObjectEnds, KeyIsNamed
    <2>5. \A j \in Nat : ~Fact(text, "value", last_token, j)
      BY <1>1, <1>3, <2>3, <2>4 DEF Unexpected, Reads, Inside, Overflows
    <2> QED
      BY <2>1, <2>2, <2>5, NoWayOn
  <1>4. CASE phase = "after"
    <2>1. /\ states # <<>>
          /\ \/ states[Len(states)] = TRUE /\ Token(next)[1] \notin {"value_separator", "end_array"}
             \/ /\ states[Len(states)] = FALSE /\ Token(next)[1] # "end_object"
                /\ ~(Token(next)[1] = "value_separator" /\ KeyAt(Token(next)[3]))
      BY <1>1, <1>4 DEF Unexpected, Reads, Inside
    <2>2. PICK c : /\ Begun(text, states, c) /\ Last(c) \in Tokens(text)
                   /\ \A j \in Nat : Fact(text, "value", Last(c), j) <=> j = next
                   /\ next \in Nat \ {0} /\ text \in Bytes /\ Last(states) = states[Len(states)]
                   /\ states \in Seq(BOOLEAN) /\ Last(states) \in BOOLEAN
      BY <1>4, <2>1, InsideOf
    <2> DEFINE u == Scan(text, next)
    <2>3. u = Token(next) /\ Token(u[3]) = After(text, u)
      BY DEF Token, After
    <2> HIDE DEF u
    <2>4. \A j \in Nat : ~Fact(text, Symbol(Last(states)), Last(c), j)
      <3>1. CASE Last(states)
        <4>1. u[1] \notin {"value_separator", "end_array"}
          BY <2>1, <2>2, <2>3, <3>1
        <4> QED
          BY <2>2, <3>1, <4>1, ItemEnds DEF u
      <3>2. CASE ~Last(states)
        <4>1. u[1] # "end_object" /\ ~(u[1] = "value_separator" /\ Named(text, After(text, u)))
          BY <2>1, <2>2, <2>3, <3>2, KeyIsNamed
        <4> QED
          BY <2>2, <3>2, <4>1, ItemEnds DEF u
      <3> QED
        BY <2>2, <3>1, <3>2
    <2> DEFINE n == Len(states)
    <2>5. n \in Nat \ {0} /\ n \in 1 .. Len(c) /\ Last(c) = c[n + 1]
      BY <2>1, <2>2 DEF Begun, Last
    <2>6. \A j \in Nat : ~Fact(text, "value", c[n], j)
      BY <2>2, <2>4, <2>5 DEF Begun
    <2> QED
      BY <2>2, <2>5, <2>6, NoWayOn
  <1> QED
    BY <1>1, <1>3, <1>4 DEF Unexpected, Reads, Inside

LEMMA StartParseKeepsDeriving ==
  ASSUME StartParse
  PROVE  Deriving'
  <1>1. PICK t : /\ phase' = "value" /\ text' = t /\ states' = <<>>
                 /\ last_token' = FirstToken(t)
    BY DEF StartParse, Parse
  <1> DEFINE c == <<FirstToken(t)>>
  <1>2. /\ c \in Seq(Tokens(t)) /\ Len(c) = 1 /\ c[1] = FirstToken(t)
    BY DEF Tokens
  <1> HIDE DEF c
  <1>3. Last(c) = FirstToken(t)
    BY <1>2 DEF Last
  <1>4. /\ 1 .. Len(<<>>) = {} /\ Len(<<>>) + 1 = 1 /\ 1 .. Len(c) = {1}
    BY <1>2
  <1>5. Begun(t, <<>>, c)
    BY <1>2, <1>4 DEF Begun, ValueEnds, Fact
  <1>6. Begun(text', states', c) /\ Last(c) = last_token'
    BY <1>1, <1>3, <1>5
  <1> QED
    BY <1>1, <1>6 DEF Deriving

LEMMA ParserKeepsDeriving ==
  ASSUME Stacks, Reading, Deriving, ParserNext
  PROVE  Deriving'
  <1>1. CASE ReadEmptyObject \/ ReadEmptyArray
    BY <1>1, ReadEmptyKeepsDeriving
  <1>2. CASE OpenObject \/ OpenArray
    BY <1>2, OpenKeepsDeriving
  <1>3. CASE ReadScalar
    BY <1>3, ReadScalarKeepsDeriving
  <1>4. CASE NextElement \/ NextMember
    BY <1>4, NextItemKeepsDeriving
  <1>5. CASE Close
    BY <1>5, CloseKeepsDeriving
  <1>6. CASE Finish
    BY <1>6, FinishKeepsDeriving
  <1>7. CASE Throw
    BY <1>7, ThrowKeepsDeriving
  <1> QED
    BY <1>1, <1>2, <1>3, <1>4, <1>5, <1>6, <1>7 DEF ParserNext

LEMMA NextKeepsDeriving ==
  ASSUME Stacks, Reading, Deriving, [Next]_vars
  PROVE  Deriving'
  <1>1. CASE StartParse
    BY <1>1, StartParseKeepsDeriving
  <1>2. CASE ParserStep
    BY <1>2, ParserKeepsDeriving DEF ParserStep
  <1>3. CASE ReadAmounts
    <2>1. phase' = "idle"
      BY <1>3 DEF ReadAmounts
    <2> QED
      BY <2>1 DEF Deriving
  <1>4. CASE UNCHANGED parser
    BY <1>4 DEF parser, Deriving
  <1>5. CASE \/ ParseThrows \/ RefuseRest \/ InvalidParams \/ CallService \/ LackParameter
             \/ Load \/ LoadFails \/ UNCHANGED vars
    <2>1. UNCHANGED parser
      BY <1>5 DEF ParseThrows, RefuseRest, InvalidParams, CallService, LackParameter, Load, LoadFails,
                  Becomes, vars
    <2> QED
      BY <1>4, <2>1
  <1> QED
    BY <1>1, <1>2, <1>3, <1>5 DEF Next, Ended

(* What sax_parse_internal makes of a text: it returns true if the text    *)
(* begins with a value, and stands just after it, where alone that value   *)
(* can end; and it reports an error only if no value begins there.         *)
ParsedByGrammar ==
  /\ phase = "done" => next \in Nat /\ \A j \in Nat : ValueEnds(text, j) <=> j = next
  /\ phase = "thrown" => \A j \in Nat : ~ValueEnds(text, j)

(* The loop and its stack of BOOLEANs decide the grammar, for texts of any *)
(* length and depth: nothing that is JSON is rejected, nothing else taken. *)
THEOREM ParserDecidesGrammar == Spec => []ParsedByGrammar
  <1>1. Init => Stacks /\ Reading /\ Deriving
    BY DEF Init, ParserInit, Stacks, Reading, Deriving
  <1>2. Stacks /\ Reading /\ Deriving /\ [Next]_vars => (Stacks /\ Reading /\ Deriving)'
    BY NextKeepsStacks, NextKeepsReading, NextKeepsDeriving
  <1>3. Deriving => ParsedByGrammar
    BY DEF Deriving, ParsedByGrammar
  <1> QED
    BY <1>1, <1>2, <1>3, PTL DEF Spec

-----------------------------------------------------------------------------
(* A value as nodes, and how they are written.  First, what becomes of a   *)
(* node when others change.                                                *)
LEMMA PlaceStays ==
  ASSUME NEW s, NEW w, NEW v, NEW n, NEW k, v.first[n] = w.first[n],
         k # 1 => /\ v.items[n][k - 1] = w.items[n][k - 1]
                  /\ v.end[v.items[n][k - 1]] = w.end[w.items[n][k - 1]]
  PROVE  /\ Place(s, v, n, k) = Place(s, w, n, k)
         /\ \A array, u : ItemBegins(s, array, v, n, k, u) <=> ItemBegins(s, array, w, n, k, u)
  <1>1. Place(s, v, n, k) = Place(s, w, n, k)
    BY DEF Place
  <1>2. k # 1 => Scan(s, v.end[v.items[n][k - 1]]) = Scan(s, w.end[w.items[n][k - 1]])
    OBVIOUS
  <1> QED
    BY <1>1, <1>2 DEF ItemBegins

(* A structure depends on the tokens that its items begin with, and on     *)
(* where all but the last of them end.                                     *)
SameItems(d, e, w, v, n) ==
  /\ Len(w.items[n]) \in Nat
  /\ e[n] = d[n] /\ v.first[n] = w.first[n] /\ v.items[n] = w.items[n]
  /\ \A k \in 1 .. Len(w.items[n]) : v.first[w.items[n][k]] = w.first[w.items[n][k]]
  /\ \A k \in 1 .. Len(w.items[n]) - 1 : v.end[w.items[n][k]] = w.end[w.items[n][k]]

SameEnds(w, v, n) ==
  /\ w.items[n] = <<>> <=> Len(w.items[n]) = 0
  /\ v.end[n] = w.end[n]
  /\ \A k \in 1 .. Len(w.items[n]) : v.end[w.items[n][k]] = w.end[w.items[n][k]]

LEMMA ArrangedStays ==
  ASSUME NEW s, NEW d, NEW e, NEW w, NEW v, NEW n, NEW but, SameItems(d, e, w, v, n),
         Arranged(s, d, w, n, but)
  PROVE  Arranged(s, e, v, n, but)
  <1> DEFINE m == Len(w.items[n])
  <1>0. /\ m \in Nat /\ e[n] = d[n] /\ v.first[n] = w.first[n] /\ v.items[n] = w.items[n]
        /\ \A k \in 1 .. m : v.first[w.items[n][k]] = w.first[w.items[n][k]]
        /\ \A k \in 1 .. m - 1 : v.end[w.items[n][k]] = w.end[w.items[n][k]]
    BY DEF SameItems
  <1>1. ASSUME NEW k \in 1 .. m
        PROVE  /\ Place(s, v, n, k) = Place(s, w, n, k)
               /\ \A array, u : ItemBegins(s, array, v, n, k, u) <=> ItemBegins(s, array, w, n, k, u)
    <2>1. k # 1 => k - 1 \in 1 .. m - 1
      BY <1>0
    <2>2. k # 1 => /\ v.items[n][k - 1] = w.items[n][k - 1]
                   /\ v.end[v.items[n][k - 1]] = w.end[w.items[n][k - 1]]
      BY <1>0, <2>1
    <2> QED
      BY <1>0, <2>2, PlaceStays
  <1>2. {Place(s, v, n, k)[2] : k \in 1 .. m} = {Place(s, w, n, k)[2] : k \in 1 .. m}
    BY <1>1
  <1>3. \A k \in 1 .. m : \A i \in k + 1 .. m : i \in 1 .. m
    BY <1>0
  <1>4. Lists(s, d[n][2], w, n, but) => Lists(s, e[n][2], v, n, but)
    BY <1>0, <1>1, <1>2, <1>3 DEF Lists
  <1>5. \A k \in 1 .. m : ItemBegins(s, e[n][1] = "array", v, n, k, v.first[v.items[n][k]])
    BY <1>0, <1>1 DEF Arranged
  <1> QED
    BY <1>0, <1>4, <1>5 DEF Arranged

LEMMA WrittenStays ==
  ASSUME NEW s, NEW d, NEW e, NEW w, NEW v, NEW n, SameItems(d, e, w, v, n), SameEnds(w, v, n),
         IsWritten(s, d, w, n)
  PROVE  IsWritten(s, e, v, n)
  <1>0. e[n] = d[n] /\ v.first[n] = w.first[n] /\ v.items[n] = w.items[n] /\ v.end[n] = w.end[n]
    BY DEF SameItems, SameEnds
  <1>1. CASE Arranged(s, d, w, n, {}) /\ Closes(s, d[n][1] = "array", w, n)
    <2>1. Arranged(s, e, v, n, {})
      BY <1>1, ArrangedStays
    <2>2. w.items[n] # <<>> => v.end[w.items[n][Len(w.items[n])]] = w.end[w.items[n][Len(w.items[n])]]
      BY DEF SameItems, SameEnds
    <2>3. Closes(s, e[n][1] = "array", v, n)
      BY <1>0, <1>1, <2>2 DEF Closes
    <2> QED
      BY <2>1, <2>3 DEF IsWritten
  <1>2. CASE ~(Arranged(s, d, w, n, {}) /\ Closes(s, d[n][1] = "array", w, n))
    BY <1>0, <1>2 DEF IsWritten
  <1> QED
    BY <1>1, <1>2

(* An item more, which the members have under its name.                    *)
Joins(s, d, e, w, v, n, u, N) ==
  LET m == Len(w.items[n])
      p == Place(s, w, n, m + 1)
  IN
  /\ m \in Nat
  /\ e[n][1] = d[n][1] /\ v.first[n] = w.first[n] /\ v.first[N] = u
  /\ Len(v.items[n]) = m + 1 /\ v.items[n][m + 1] = N /\ v.items[n] = Append(w.items[n], N)
  /\ \A k \in 1 .. m : /\ v.items[n][k] = w.items[n][k]
                       /\ v.first[w.items[n][k]] = w.first[w.items[n][k]]
                       /\ v.end[w.items[n][k]] = w.end[w.items[n][k]]
  /\ ItemBegins(s, d[n][1] = "array", w, n, m + 1, u)
  /\ d[n][1] = "array" => e[n][2] = Append(d[n][2], N)
  /\ d[n][1] # "array" =>
       /\ DOMAIN e[n][2] = DOMAIN d[n][2]
       /\ \A x \in DOMAIN d[n][2] : e[n][2][x] = IF x = p[2] THEN N ELSE d[n][2][x]

LEMMA ArrangedMore ==
  ASSUME NEW s, NEW d, NEW e, NEW w, NEW v, NEW n, NEW but, NEW u, NEW N,
         Joins(s, d, e, w, v, n, u, N), Arranged(s, d, w, n, but),
         d[n][1] # "array" => but = {Place(s, w, n, Len(w.items[n]) + 1)[2]}
  PROVE  Arranged(s, e, v, n, {})
  <1>0. PICK m \in Nat :
          /\ m = Len(w.items[n])
          /\ e[n][1] = d[n][1] /\ v.first[n] = w.first[n] /\ v.first[N] = u
          /\ Len(v.items[n]) = m + 1 /\ v.items[n][m + 1] = N /\ v.items[n] = Append(w.items[n], N)
          /\ \A k \in 1 .. m : /\ v.items[n][k] = w.items[n][k]
                               /\ v.first[w.items[n][k]] = w.first[w.items[n][k]]
                               /\ v.end[w.items[n][k]] = w.end[w.items[n][k]]
          /\ ItemBegins(s, d[n][1] = "array", w, n, m + 1, u)
          /\ d[n][1] = "array" => e[n][2] = Append(d[n][2], N)
          /\ d[n][1] # "array" =>
               /\ DOMAIN e[n][2] = DOMAIN d[n][2]
               /\ \A x \in DOMAIN d[n][2] :
                    e[n][2][x] = IF x = Place(s, w, n, m + 1)[2] THEN N ELSE d[n][2][x]
    BY DEF Joins
  <1>1. ASSUME NEW k \in 1 .. m + 1
        PROVE  /\ Place(s, v, n, k) = Place(s, w, n, k)
               /\ \A array, x : ItemBegins(s, array, v, n, k, x) <=> ItemBegins(s, array, w, n, k, x)
    <2>1. k # 1 => k - 1 \in 1 .. m
      BY <1>0
    <2>2. k # 1 => /\ v.items[n][k - 1] = w.items[n][k - 1]
                   /\ v.end[v.items[n][k - 1]] = w.end[w.items[n][k - 1]]
      BY <1>0, <2>1
    <2> QED
      BY <1>0, <2>2, PlaceStays
  <1>2. \A k \in 1 .. m + 1 : ItemBegins(s, e[n][1] = "array", v, n, k, v.first[v.items[n][k]])
    <2>1. ASSUME NEW k \in 1 .. m
          PROVE  ItemBegins(s, e[n][1] = "array", v, n, k, v.first[v.items[n][k]])
      <3>1. ItemBegins(s, d[n][1] = "array", w, n, k, w.first[w.items[n][k]])
        BY <1>0 DEF Arranged
      <3>2. v.first[v.items[n][k]] = w.first[w.items[n][k]] /\ e[n][1] = d[n][1] /\ k \in 1 .. m + 1
        BY <1>0
      <3>3. ItemBegins(s, e[n][1] = "array", v, n, k, v.first[v.items[n][k]])
            <=> ItemBegins(s, e[n][1] = "array", w, n, k, v.first[v.items[n][k]])
        BY <1>1, <3>2
      <3> QED
        BY <3>1, <3>2, <3>3
    <2>2. ItemBegins(s, e[n][1] = "array", v, n, m + 1, v.first[v.items[n][m + 1]])
      BY <1>0, <1>1
    <2> QED
      BY <1>0, <2>1, <2>2
  <1>3. CASE d[n][1] = "array"
    <2>1. e[n][1] = "array" /\ v.first[n][1] = "begin_array" /\ e[n][2] = v.items[n]
      BY <1>0, <1>3 DEF Arranged
    <2> QED
      BY <1>0, <1>2, <2>1 DEF Arranged
  <1>4. CASE d[n][1] # "array"
    <2> DEFINE name(k) == Place(s, w, n, k)[2]
               a == d[n][2]
               b == e[n][2]
    <2>1. /\ e[n][1] = "object" /\ v.first[n][1] = "begin_object"
          /\ Lists(s, a, w, n, {name(m + 1)})
      BY <1>0, <1>4 DEF Arranged
    <2>2. /\ DOMAIN a = {name(k) : k \in 1 .. m} \cup {name(m + 1)}
          /\ \A k \in 1 .. m :
               name(k) # name(m + 1) /\ (\A i \in k + 1 .. m : name(i) # name(k))
                 => a[name(k)] = w.items[n][k]
      BY <1>0, <2>1 DEF Lists
    <2>3. /\ DOMAIN b = DOMAIN a
          /\ \A x \in DOMAIN a : b[x] = IF x = name(m + 1) THEN N ELSE a[x]
      BY <1>0, <1>4
    <2>4. \A k \in 1 .. m + 1 : Place(s, v, n, k)[2] = name(k)
      BY <1>0, <1>1
    <2> HIDE DEF name, a, b
    <2>5. DOMAIN b = {name(k) : k \in 1 .. m + 1}
      BY <1>0, <2>2, <2>3
    <2>6. ASSUME NEW k \in 1 .. m + 1, \A i \in k + 1 .. m + 1 : name(i) # name(k)
          PROVE  b[name(k)] = v.items[n][k]
      <3>1. CASE k = m + 1
        BY <1>0, <2>2, <2>3, <3>1
      <3>2. CASE k # m + 1
        <4>1. k \in 1 .. m /\ m + 1 \in k + 1 .. m + 1 /\ k + 1 .. m \subseteq k + 1 .. m + 1
          BY <1>0, <3>2
        <4>2. name(k) # name(m + 1) /\ (\A i \in k + 1 .. m : name(i) # name(k)) /\ name(k) \in DOMAIN a
          BY <1>0, <2>2, <2>6, <4>1
        <4>3. b[name(k)] = w.items[n][k]
          BY <1>0, <2>2, <2>3, <4>1, <4>2
        <4> QED
          BY <1>0, <4>1, <4>3
      <3> QED
        BY <1>0, <3>1, <3>2
    <2>7. \A k \in 1 .. m + 1 : \A i \in k + 1 .. m + 1 : i \in 1 .. m + 1
      BY <1>0
    <2>8. {Place(s, v, n, k)[2] : k \in 1 .. m + 1} = {name(k) : k \in 1 .. m + 1}
      BY <1>0, <2>4
    <2>9. Lists(s, b, v, n, {})
      <3> DEFINE M == Len(v.items[n])
      <3>1. M = m + 1
        BY <1>0
      <3>2. DOMAIN b = {Place(s, v, n, k)[2] : k \in 1 .. M}
        BY <1>0, <2>5, <2>8, <3>1
      <3>3. ASSUME NEW k \in 1 .. M, \A i \in k + 1 .. M : Place(s, v, n, i)[2] # Place(s, v, n, k)[2]
            PROVE  b[Place(s, v, n, k)[2]] = v.items[n][k]
        <4>1. k \in 1 .. m + 1 /\ \A i \in k + 1 .. m + 1 : i \in k + 1 .. M /\ i \in 1 .. m + 1
          BY <1>0, <2>7, <3>1
        <4>2. \A i \in k + 1 .. m + 1 : name(i) # name(k)
          BY <1>0, <2>4, <3>3, <4>1
        <4>3. b[name(k)] = v.items[n][k]
          BY <1>0, <2>6, <4>1, <4>2
        <4> QED
          BY <1>0, <2>4, <4>1, <4>3
      <3> QED
        BY <1>0, <3>2, <3>3 DEF Lists
    <2> QED
      BY <1>0, <1>2, <2>1, <2>9 DEF Arranged, b
  <1> QED
    BY <1>0, <1>3, <1>4

(* A key that is inserted, and stands for an item to come.                 *)
LEMMA ArrangedKeyed ==
  ASSUME NEW s, NEW d, NEW e, NEW w, NEW n, NEW k, Arranged(s, d, w, n, {}),
         d[n][1] = "object", e[n][1] = "object",
         DOMAIN e[n][2] = DOMAIN d[n][2] \cup {k},
         \A x \in DOMAIN d[n][2] : x # k => e[n][2][x] = d[n][2][x]
  PROVE  Arranged(s, e, w, n, {k})
  <1> DEFINE name(i) == Place(s, w, n, i)[2]
             a == d[n][2]
             b == e[n][2]
             m == Len(w.items[n])
  <1>1. Lists(s, a, w, n, {})
    BY DEF Arranged
  <1>2. /\ DOMAIN a = {name(i) : i \in 1 .. m}
        /\ \A i \in 1 .. m : (\A l \in i + 1 .. m : name(l) # name(i)) => a[name(i)] = w.items[n][i]
    BY <1>1 DEF Lists
  <1>3. DOMAIN b = DOMAIN a \cup {k} /\ \A x \in DOMAIN a : x # k => b[x] = a[x]
    OBVIOUS
  <1> HIDE DEF a, b
  <1>4. Lists(s, b, w, n, {k})
    BY <1>2, <1>3 DEF Lists
  <1> QED
    BY <1>4 DEF Arranged, b

-----------------------------------------------------------------------------
(* The nodes d, as far as they are read: those in O are open, and only the *)
(* last item of a node that is open can be open itself.                    *)
But(hole, n) == IF n = hole[1] THEN {hole[2]} ELSE {}

NodeFits(s, d, w, O, hole, n) ==
  /\ \A k \in 1 .. Len(w.items[n]) :
       /\ w.items[n][k] > n
       /\ w.items[n][k] \in O => n \in O /\ k = Len(w.items[n])
  /\ n \notin O => IsWritten(s, d, w, n)
  /\ n \in O => Arranged(s, d, w, n, But(hole, n))

Drafted(s, d, w, O, hole) ==
  w \in Writing(s, d) /\ \A n \in 1 .. Len(d) : NodeFits(s, d, w, O, hole, n)

(* One node more, which is an item of the node top.                        *)
Grown(w, N, u, j, top) ==
  [first |-> [n \in 1 .. N |-> IF n = N THEN u ELSE w.first[n]],
   end |-> [n \in 1 .. N |-> IF n = N THEN j ELSE w.end[n]],
   items |-> [n \in 1 .. N |-> IF n = N THEN <<>>
                               ELSE IF n = top THEN Append(w.items[n], N) ELSE w.items[n]]]

LEMMA WritingIs ==
  ASSUME NEW s, NEW d, Len(d) \in Nat, NEW w \in Writing(s, d), NEW n \in 1 .. Len(d)
  PROVE  /\ w.first[n] \in Tokens(s) /\ w.end[n] \in Nat
         /\ w.items[n] \in Seq(1 .. Len(d)) /\ Len(w.items[n]) \in Nat
         /\ w.items[n] = <<>> <=> Len(w.items[n]) = 0
         /\ \A k \in 1 .. Len(w.items[n]) : w.items[n][k] \in 1 .. Len(d)
  <1>1. w.first[n] \in Tokens(s) /\ w.end[n] \in Nat /\ w.items[n] \in Seq(1 .. Len(d))
    BY DEF Writing
  <1> DEFINE q == w.items[n]
             S == 1 .. Len(d)
  <1>2. q \in Seq(S)
    BY <1>1
  <1> HIDE DEF q, S
  <1>3. Len(q) \in Nat /\ (q = <<>> <=> Len(q) = 0) /\ \A k \in 1 .. Len(q) : q[k] \in S
    BY <1>2
  <1> QED
    BY <1>1, <1>3 DEF q, S

IsGrown(s, d, e, w, v, N, u, j, top) ==
  /\ v \in Writing(s, e)
  /\ v.first[N] = u /\ v.end[N] = j /\ v.items[N] = <<>>
  /\ \A n \in 1 .. Len(d) :
       /\ v.first[n] = w.first[n] /\ v.end[n] = w.end[n]
       /\ n # top => v.items[n] = w.items[n]
       /\ n = top => /\ v.items[n] = Append(w.items[n], N)
                     /\ Len(v.items[n]) = Len(w.items[n]) + 1
                     /\ v.items[n][Len(w.items[n]) + 1] = N
                     /\ \A k \in 1 .. Len(w.items[n]) : v.items[n][k] = w.items[n][k]

LEMMA GrownIs ==
  ASSUME NEW s, NEW d, NEW e, NEW N, Len(d) \in Nat, N = Len(d) + 1, Len(e) = N,
         NEW w \in Writing(s, d), NEW u \in Tokens(s), NEW j \in Nat, NEW top
  PROVE  IsGrown(s, d, e, w, Grown(w, N, u, j, top), N, u, j, top)
  <1> DEFINE v == Grown(w, N, u, j, top)
  <1>1. /\ DOMAIN v.items = 1 .. N
        /\ v.first = [n \in 1 .. N |-> IF n = N THEN u ELSE w.first[n]]
        /\ v.end = [n \in 1 .. N |-> IF n = N THEN j ELSE w.end[n]]
        /\ v.items = [n \in 1 .. N |-> IF n = N THEN <<>>
                                       ELSE IF n = top THEN Append(w.items[n], N) ELSE w.items[n]]
    BY DEF Grown
  <1>2. N \in 1 .. N /\ \A n \in 1 .. N : n # N => n \in 1 .. Len(d)
    OBVIOUS
  <1>3. \A n \in 1 .. Len(d) : n \in 1 .. N /\ n # N
    OBVIOUS
  <1>4. v.first[N] = u /\ v.end[N] = j /\ v.items[N] = <<>>
    BY <1>1, <1>2
  <1>5. ASSUME NEW n \in 1 .. Len(d)
        PROVE  /\ v.first[n] = w.first[n] /\ v.end[n] = w.end[n]
               /\ v.items[n] = IF n = top THEN Append(w.items[n], N) ELSE w.items[n]
    BY <1>1, <1>3
  <1>6. ASSUME NEW n \in 1 .. Len(d)
        PROVE  /\ w.items[n] \in Seq(1 .. N)
               /\ Append(w.items[n], N) \in Seq(1 .. N)
               /\ Len(Append(w.items[n], N)) = Len(w.items[n]) + 1
               /\ Append(w.items[n], N)[Len(w.items[n]) + 1] = N
               /\ \A k \in 1 .. Len(w.items[n]) : Append(w.items[n], N)[k] = w.items[n][k]
    <2> DEFINE q == w.items[n]
    <2>1. q \in Seq(1 .. Len(d))
      BY WritingIs
    <2>2. 1 .. Len(d) \subseteq 1 .. N
      OBVIOUS
    <2>3. ASSUME NEW S, NEW T, S \subseteq T, NEW x \in Seq(S), NEW y \in T
          PROVE  /\ x \in Seq(T) /\ Append(x, y) \in Seq(T) /\ Len(Append(x, y)) = Len(x) + 1
                 /\ Append(x, y)[Len(x) + 1] = y
                 /\ \A k \in 1 .. Len(x) : Append(x, y)[k] = x[k]
      <3>1. x \in Seq(T)
        BY <2>3
      <3> QED
        BY <2>3, <3>1
    <2> QED
      BY <1>2, <2>1, <2>2, <2>3
  <1>7. v \in Writing(s, e)
    <2>1. \A n \in 1 .. N : v.first[n] \in Tokens(s) /\ v.end[n] \in Nat
      BY <1>2, <1>4, <1>5, WritingIs
    <2>2. \A n \in 1 .. N : v.items[n] \in Seq(1 .. N)
      <3>1. <<>> \in Seq(1 .. N)
        OBVIOUS
      <3> QED
        BY <1>2, <1>4, <1>5, <1>6, <3>1
    <2>3. v.first \in [1 .. N -> Tokens(s)] /\ v.end \in [1 .. N -> Nat] /\ v.items \in [1 .. N -> Seq(1 .. N)]
      BY <1>1, <2>1, <2>2
    <2>4. v = [first |-> v.first, end |-> v.end, items |-> v.items]
      BY DEF Grown
    <2> QED
      BY <2>3, <2>4 DEF Writing
  <1> HIDE DEF v
  <1>8. IsGrown(s, d, e, w, v, N, u, j, top)
    BY <1>4, <1>5, <1>6, <1>7 DEF IsGrown
  <1> QED
    BY <1>8 DEF v

(* The node top of which the value d is a draft, or none if d is nothing.  *)
Top(d, O, top) ==
  \/ top = 0 /\ Len(d) = 0 /\ O = {}
  \/ top \in 1 .. Len(d) /\ top \in O /\ \A x \in O : x <= top

(* e is d with the node N, whose value begins with u, as an item of top.   *)
Takes(s, d, e, w, hole, N, u, top) ==
  /\ \A n \in 1 .. Len(d) : n # top => e[n] = d[n] /\ n # hole[1]
  /\ top # 0 =>
       LET m == Len(w.items[top]) IN
       /\ e[top][1] = d[top][1]
       /\ ItemBegins(s, d[top][1] = "array", w, top, m + 1, u)
       /\ d[top][1] = "array" => e[top][2] = Append(d[top][2], N)
       /\ d[top][1] # "array" =>
            /\ hole[1] = top /\ hole[2] = Place(s, w, top, m + 1)[2]
            /\ DOMAIN e[top][2] = DOMAIN d[top][2]
            /\ \A x \in DOMAIN d[top][2] :
                 e[top][2][x] = IF x = Place(s, w, top, m + 1)[2] THEN N ELSE d[top][2][x]

Grows(s, d, e, w, v, O, hole, u, j, top) ==
  /\ Len(d) \in Nat /\ Len(e) = Len(d) + 1 /\ O \in SUBSET (1 .. Len(d))
  /\ Drafted(s, d, w, O, hole)
  /\ Top(d, O, top)
  /\ Takes(s, d, e, w, hole, Len(d) + 1, u, top)
  /\ IsGrown(s, d, e, w, v, Len(d) + 1, u, j, top)

LEMMA DraftGrows ==
  ASSUME NEW s, NEW d, NEW e, NEW w, NEW v, NEW O, NEW hole, NEW u, NEW j, NEW top,
         Grows(s, d, e, w, v, O, hole, u, j, top), NEW N, N = Len(d) + 1
  PROVE  /\ IsWritten(s, e, v, N) => Drafted(s, e, v, O, NoHole)
         /\ Arranged(s, e, v, N, {}) => Drafted(s, e, v, O \cup {N}, NoHole)
  <1> SUFFICES ASSUME NEW P \in {O, O \cup {N}},
                      N \notin P => IsWritten(s, e, v, N),
                      N \in P => Arranged(s, e, v, N, {})
               PROVE  Drafted(s, e, v, P, NoHole)
    BY DEF Grows
  <1>0. /\ Len(d) \in Nat /\ Len(e) = N /\ O \in SUBSET (1 .. Len(d))
        /\ Drafted(s, d, w, O, hole)
        /\ Top(d, O, top)
        /\ Takes(s, d, e, w, hole, N, u, top)
        /\ IsGrown(s, d, e, w, v, N, u, j, top)
    BY DEF Grows
  <1>1. /\ v \in Writing(s, e)
        /\ v.first[N] = u /\ v.end[N] = j /\ v.items[N] = <<>>
        /\ \A n \in 1 .. Len(d) :
             /\ v.first[n] = w.first[n] /\ v.end[n] = w.end[n]
             /\ n # top => v.items[n] = w.items[n]
             /\ n = top => /\ v.items[n] = Append(w.items[n], N)
                           /\ Len(v.items[n]) = Len(w.items[n]) + 1
                           /\ v.items[n][Len(w.items[n]) + 1] = N
                           /\ \A k \in 1 .. Len(w.items[n]) : v.items[n][k] = w.items[n][k]
    BY <1>0 DEF IsGrown
  <1>2. But(NoHole, N) = {} /\ \A n \in 1 .. Len(d) : But(NoHole, n) = {}
    BY <1>0 DEF But, NoHole
  <1>3. \A n \in 1 .. Len(d) : (n \in P <=> n \in O) /\ n # N
    BY <1>0
  <1>4. ASSUME NEW n \in 1 .. Len(d)
        PROVE  /\ Len(w.items[n]) \in Nat /\ (w.items[n] = <<>> <=> Len(w.items[n]) = 0)
               /\ \A k \in 1 .. Len(w.items[n]) : w.items[n][k] \in 1 .. Len(d)
    BY <1>0, WritingIs DEF Drafted
  <1>5. ASSUME NEW n \in 1 .. Len(d)
        PROVE  /\ \A k \in 1 .. Len(w.items[n]) :
                    /\ w.items[n][k] > n
                    /\ w.items[n][k] \in O => n \in O /\ k = Len(w.items[n])
               /\ n \notin O => IsWritten(s, d, w, n)
               /\ n \in O => Arranged(s, d, w, n, But(hole, n))
    BY <1>0 DEF Drafted, NodeFits
  <1>6. NodeFits(s, e, v, P, NoHole, N)
    <2>1. Len(v.items[N]) = 0
      BY <1>0, <1>1
    <2>2. \A k : k \notin 1 .. Len(v.items[N])
      BY <1>0, <2>1
    <2> QED
      BY <1>0, <1>2, <2>2 DEF NodeFits
  <1>7. ASSUME NEW n \in 1 .. Len(d), n # top
        PROVE  NodeFits(s, e, v, P, NoHole, n)
    <2> DEFINE m == Len(w.items[n])
    <2>1. /\ m \in Nat /\ (w.items[n] = <<>> <=> m = 0) /\ e[n] = d[n]
          /\ v.first[n] = w.first[n] /\ v.end[n] = w.end[n] /\ v.items[n] = w.items[n]
      BY <1>0, <1>1, <1>4, <1>7 DEF Takes
    <2>2. /\ \A k \in 1 .. m : v.first[w.items[n][k]] = w.first[w.items[n][k]]
          /\ \A k \in 1 .. m : v.end[w.items[n][k]] = w.end[w.items[n][k]]
      BY <1>0, <1>1, <1>4
    <2>3. n \notin O => IsWritten(s, e, v, n)
      <3>1. SameItems(d, e, w, v, n) /\ SameEnds(w, v, n)
        BY <1>0, <2>1, <2>2 DEF SameItems, SameEnds
      <3> QED
        BY <1>0, <1>5, <3>1, WrittenStays
    <2>4. n \in O => Arranged(s, e, v, n, But(NoHole, n))
      <3>1. SUFFICES ASSUME n \in O PROVE Arranged(s, e, v, n, {})
        BY <1>0, <1>2, <1>3
      <3>2. But(hole, n) = {}
        BY <1>0, <1>7 DEF But, Takes
      <3>3. Arranged(s, d, w, n, {})
        BY <1>0, <1>5, <3>1, <3>2
      <3>4. SameItems(d, e, w, v, n)
        BY <1>0, <2>1, <2>2 DEF SameItems
      <3> QED
        BY <1>0, <3>3, <3>4, ArrangedStays
    <2>5. \A k \in 1 .. Len(v.items[n]) :
            /\ v.items[n][k] > n
            /\ v.items[n][k] \in P => n \in P /\ k = Len(v.items[n])
      BY <1>0, <1>3, <1>4, <1>5, <2>1
    <2> QED
      BY <1>0, <1>3, <2>3, <2>4, <2>5 DEF NodeFits
  <1>8. ASSUME NEW n \in 1 .. Len(d), n = top
        PROVE  NodeFits(s, e, v, P, NoHole, n)
    <2> DEFINE m == Len(w.items[n])
    <2>1. n \in O /\ n # 0 /\ \A x \in O : x <= n
      BY <1>0, <1>8 DEF Top
    <2>2. /\ m \in Nat /\ v.first[n] = w.first[n] /\ v.items[n] = Append(w.items[n], N)
          /\ Len(v.items[n]) = m + 1 /\ v.items[n][m + 1] = N
          /\ \A k \in 1 .. m : v.items[n][k] = w.items[n][k]
      BY <1>0, <1>1, <1>4, <1>8
    <2>3. /\ \A k \in 1 .. m : v.first[w.items[n][k]] = w.first[w.items[n][k]]
          /\ \A k \in 1 .. m : v.end[w.items[n][k]] = w.end[w.items[n][k]]
      BY <1>0, <1>1, <1>4
    <2>4. Arranged(s, e, v, n, {})
      <3> DEFINE but == But(hole, n)
      <3>1. Arranged(s, d, w, n, but)
        BY <1>0, <1>5, <2>1
      <3>2. d[n][1] # "array" => but = {Place(s, w, n, m + 1)[2]}
        BY <1>0, <1>8, <2>1 DEF Takes, But
      <3>5. d[n][1] # "array" =>
              /\ DOMAIN e[n][2] = DOMAIN d[n][2]
              /\ \A x \in DOMAIN d[n][2] :
                   e[n][2][x] = IF x = Place(s, w, n, m + 1)[2] THEN N ELSE d[n][2][x]
        BY <1>0, <1>8, <2>1 DEF Takes, But
      <3>3. /\ e[n][1] = d[n][1] /\ ItemBegins(s, d[n][1] = "array", w, n, m + 1, u)
            /\ d[n][1] = "array" => e[n][2] = Append(d[n][2], N)
        BY <1>0, <1>8, <2>1 DEF Takes
      <3>4. v.first[N] = u
        BY <1>0, <1>1
      <3>6. Joins(s, d, e, w, v, n, u, N)
        BY <1>0, <2>2, <2>3, <3>3, <3>4, <3>5 DEF Joins
      <3> HIDE DEF but
      <3> QED
        BY <1>0, <3>1, <3>2, <3>6, ArrangedMore
    <2>5. ASSUME NEW k \in 1 .. m + 1
          PROVE  v.items[n][k] > n /\ (v.items[n][k] \in P => k = m + 1)
      <3>1. CASE k = m + 1
        BY <1>0, <2>2, <3>1
      <3>2. CASE k # m + 1
        <4>1. k \in 1 .. m /\ v.items[n][k] = w.items[n][k]
          BY <1>0, <2>2, <3>2
        <4>2. w.items[n][k] > n /\ w.items[n][k] \in 1 .. Len(d)
          BY <1>0, <1>4, <1>5, <4>1
        <4>3. w.items[n][k] \notin O
          BY <1>0, <2>1, <4>2
        <4> QED
          BY <1>0, <1>3, <4>1, <4>2, <4>3
      <3> QED
        BY <1>0, <3>1, <3>2
    <2> QED
      BY <1>0, <1>2, <1>3, <2>1, <2>2, <2>4, <2>5 DEF NodeFits
  <1>9. \A n \in 1 .. Len(e) : n = N \/ n \in 1 .. Len(d)
    BY <1>0
  <1> QED
    BY <1>0, <1>1, <1>6, <1>7, <1>8, <1>9 DEF Drafted

(* The innermost structure is closed: it is known where it ends.           *)
LEMMA DraftCloses ==
  ASSUME NEW s, NEW d, Len(d) \in Nat, NEW w, NEW O \in SUBSET (1 .. Len(d)), Drafted(s, d, w, O, NoHole),
         NEW top \in O, \A x \in O : x <= top, NEW j \in Nat,
         NEW v, v = [w EXCEPT !.end = [w.end EXCEPT ![top] = j]],
         Closes(s, d[top][1] = "array", v, top)
  PROVE  Drafted(s, d, v, O \ {top}, NoHole)
  <1>1. /\ v.first = w.first /\ v.items = w.items /\ v.end[top] = j
        /\ \A n \in 1 .. Len(d) : n # top => v.end[n] = w.end[n]
        /\ v \in Writing(s, d)
    BY DEF Drafted, Writing
  <1>2. \A n \in 1 .. Len(d) : But(NoHole, n) = {}
    BY DEF But, NoHole
  <1>3. ASSUME NEW n \in 1 .. Len(d)
        PROVE  NodeFits(s, d, v, O \ {top}, NoHole, n)
    <2> DEFINE m == Len(w.items[n])
    <2>1. /\ m \in Nat /\ (w.items[n] = <<>> <=> m = 0)
          /\ \A k \in 1 .. m : w.items[n][k] \in 1 .. Len(d)
      BY WritingIs DEF Drafted
    <2>2. /\ \A k \in 1 .. m :
               /\ w.items[n][k] > n
               /\ w.items[n][k] \in O => n \in O /\ k = m
          /\ n \notin O => IsWritten(s, d, w, n)
          /\ n \in O => Arranged(s, d, w, n, {})
      <3>1. NodeFits(s, d, w, O, NoHole, n) /\ But(NoHole, n) = {}
        BY <1>2 DEF Drafted
      <3> QED
        BY <3>1 DEF NodeFits
    <2>3. \A k \in 1 .. m - 1 : v.end[w.items[n][k]] = w.end[w.items[n][k]]
      <3>1. ASSUME NEW k \in 1 .. m - 1
            PROVE  w.items[n][k] # top /\ w.items[n][k] \in 1 .. Len(d)
        <4>1. k \in 1 .. m /\ k # m
          BY <2>1
        <4> QED
          BY <2>1, <2>2, <4>1
      <3> QED
        BY <1>1, <3>1
    <2>4. n \in O => Arranged(s, d, v, n, {})
      <3>1. SameItems(d, d, w, v, n)
        BY <1>1, <2>1, <2>3 DEF SameItems
      <3> QED
        BY <2>2, <3>1, ArrangedStays
    <2>5. n \notin O => IsWritten(s, d, v, n)
      <3>1. SUFFICES ASSUME n \notin O PROVE IsWritten(s, d, v, n)
        OBVIOUS
      <3>2. \A k \in 1 .. m : v.end[w.items[n][k]] = w.end[w.items[n][k]]
        BY <1>1, <2>1, <2>2, <3>1
      <3>3. v.end[n] = w.end[n]
        BY <1>1, <3>1
      <3> QED
        <4>1. SameItems(d, d, w, v, n) /\ SameEnds(w, v, n)
          BY <1>1, <2>1, <2>3, <3>2, <3>3 DEF SameItems, SameEnds
        <4> QED
          BY <2>2, <3>1, <4>1, WrittenStays
    <2>6. n = top => IsWritten(s, d, v, n)
      BY <2>4 DEF IsWritten
    <2>7. \A k \in 1 .. m :
            /\ w.items[n][k] > n
            /\ w.items[n][k] \in O \ {top} => n \in O \ {top} /\ k = m
      BY <2>1, <2>2
    <2> QED
      BY <1>1, <1>2, <2>4, <2>5, <2>6, <2>7 DEF NodeFits
  <1> QED
    BY <1>1, <1>3 DEF Drafted

(* A key is inserted, and its item is to come.                             *)
LEMMA DraftKeyed ==
  ASSUME NEW s, NEW d, NEW e, Len(d) \in Nat, Len(e) = Len(d), NEW w,
         NEW O \in SUBSET (1 .. Len(d)), Drafted(s, d, w, O, NoHole),
         NEW top \in O, d[top][1] = "object", e[top][1] = "object", NEW k,
         \A n \in 1 .. Len(d) : n # top => e[n] = d[n],
         DOMAIN e[top][2] = DOMAIN d[top][2] \cup {k},
         \A x \in DOMAIN d[top][2] : x # k => e[top][2][x] = d[top][2][x]
  PROVE  Drafted(s, e, w, O, <<top, k>>)
  <1>1. w \in Writing(s, e)
    BY DEF Drafted, Writing
  <1>2. ASSUME NEW n \in 1 .. Len(d)
        PROVE  NodeFits(s, e, w, O, <<top, k>>, n)
    <2> DEFINE m == Len(w.items[n])
    <2>1. /\ m \in Nat /\ (w.items[n] = <<>> <=> m = 0)
      BY WritingIs DEF Drafted
    <2>2. /\ \A i \in 1 .. m :
               /\ w.items[n][i] > n
               /\ w.items[n][i] \in O => n \in O /\ i = m
          /\ n \notin O => IsWritten(s, d, w, n)
          /\ n \in O => Arranged(s, d, w, n, {})
      BY DEF Drafted, NodeFits, But, NoHole
    <2>3. CASE n = top
      <3>1. Arranged(s, e, w, n, {k})
        BY <2>2, <2>3, ArrangedKeyed
      <3> QED
        BY <2>2, <2>3, <3>1 DEF NodeFits, But
    <2>4. CASE n # top
      <3>1. But(<<top, k>>, n) = {}
        BY <2>4 DEF But
      <3>2. e[n] = d[n]
        BY <2>4
      <3>3. n \notin O => IsWritten(s, e, w, n)
        <4>1. SameItems(d, e, w, w, n) /\ SameEnds(w, w, n)
          BY <2>1, <3>2 DEF SameItems, SameEnds
        <4> QED
          BY <2>2, <4>1, WrittenStays
      <3>4. n \in O => Arranged(s, e, w, n, {})
        <4>1. SameItems(d, e, w, w, n)
          BY <2>1, <3>2 DEF SameItems
        <4> QED
          BY <2>2, <4>1, ArrangedStays
      <3> QED
        BY <2>2, <3>1, <3>3, <3>4 DEF NodeFits
    <2> QED
      BY <2>3, <2>4
  <1> QED
    BY <1>1, <1>2 DEF Drafted

-----------------------------------------------------------------------------
(* Where the builder is in a draft w: its stack is a way down through last *)
(* items, the lexer stands after the last item of the innermost structure, *)
(* or at the value of its next item.                                       *)
OpenNodes == {ref_stack[k] : k \in 1 .. Len(ref_stack)}
TopNode == IF ref_stack = <<>> THEN 0 ELSE Last(ref_stack)
LastItem(w, n) == w.items[n][Len(w.items[n])]

Chained(w, r) ==
  /\ r # <<>> => r[1] = 1
  /\ \A i \in 1 .. Len(r) : \A k \in i + 1 .. Len(r) : r[i] < r[k]
  /\ \A i \in 1 .. Len(r) - 1 : w.items[r[i]] # <<>> /\ LastItem(w, r[i]) = r[i + 1]

Stands(w) ==
  /\ phase = "value" =>
       /\ last_token \in Tokens(text)
       /\ states = <<>> => last_token = FirstToken(text)
       /\ states # <<>> =>
            ItemBegins(text, Last(states), w, TopNode, Len(w.items[TopNode]) + 1, last_token)
       /\ states # <<>> /\ ~Last(states) =>
            object_element[2] = Place(text, w, TopNode, Len(w.items[TopNode]) + 1)[2]
  /\ phase = "after" =>
       /\ ref_stack = <<>> => next = w.end[1]
       /\ ref_stack # <<>> => w.items[TopNode] # <<>> /\ next = w.end[LastItem(w, TopNode)]
  /\ phase = "done" => ref_stack = <<>> /\ next = w.end[1]

Builds(w) ==
  /\ Drafted(text, dom, w, OpenNodes, Hole)
  /\ dom # <<>> => w.first[1] = FirstToken(text)
  /\ Chained(w, ref_stack)
  /\ Stands(w)

(* The inductive invariant.                                                *)
Building == phase \in {"value", "after", "done"} => \E w : Builds(w)

LEMMA StartParseKeepsBuilding ==
  ASSUME StartParse
  PROVE  Building'
  <1>1. PICK t : /\ phase' = "value" /\ text' = t /\ last_token' = FirstToken(t)
                 /\ states' = <<>> /\ dom' = <<>> /\ ref_stack' = <<>>
    BY DEF StartParse, Parse
  <1> DEFINE w == [first |-> <<>>, end |-> <<>>, items |-> <<>>]
  <1>2. /\ <<>> \in [1 .. 0 -> Tokens(t)] /\ <<>> \in [1 .. 0 -> Nat]
        /\ <<>> \in [1 .. 0 -> Seq(1 .. 0)] /\ Len(<<>>) = 0
    OBVIOUS
  <1>3. w \in Writing(t, <<>>)
    BY <1>2 DEF Writing
  <1> HIDE DEF w
  <1>4. \A O, hole : Drafted(t, <<>>, w, O, hole)
    <2>1. \A n : n \notin 1 .. Len(<<>>)
      BY <1>2
    <2> QED
      BY <1>3, <2>1 DEF Drafted
  <1>5. Chained(w, <<>>)
    BY <1>2 DEF Chained
  <1>6. last_token' \in Tokens(t)
    BY <1>1 DEF Tokens
  <1>7. Stands(w)'
    BY <1>1, <1>6 DEF Stands
  <1>8. Builds(w)'
    BY <1>1, <1>4, <1>5, <1>7 DEF Builds
  <1> QED
    BY <1>8 DEF Building

(* The nodes after handle_value.                                           *)
LEMMA HandledNodes ==
  ASSUME Stacks, phase = "value", NEW t, NEW c, NEW e, e = HandleValue(<<t, c>>)
  PROVE  /\ Len(dom) \in Nat /\ IsDom(e) /\ Len(e) = Len(dom) + 1 /\ e[Len(dom) + 1] = <<t, c>>
         /\ \A n \in 1 .. Len(dom) : n # TopNode => e[n] = dom[n]
         /\ TopNode = 0 => dom = <<>> /\ ref_stack = <<>> /\ states = <<>>
         /\ TopNode # 0 =>
              /\ TopNode \in 1 .. Len(dom) /\ ref_stack # <<>> /\ states # <<>> /\ Last(states) \in BOOLEAN
              /\ TopNode = ref_stack[Len(ref_stack)]
              /\ dom[TopNode][1] = (IF Last(states) THEN "array" ELSE "object")
              /\ e[TopNode][1] = dom[TopNode][1]
              /\ Last(states) => e[TopNode][2] = Append(dom[TopNode][2], Len(dom) + 1)
              /\ ~Last(states) =>
                   /\ object_element[1] = TopNode
                   /\ e[TopNode][2] = [dom[TopNode][2] EXCEPT ![object_element[2]] = Len(dom) + 1]
  <1>1. Len(dom) \in Nat /\ IsDom(e) /\ Len(e) = Len(dom) + 1 /\ e[Len(dom) + 1] = <<t, c>>
    BY Handled, Grow DEF Stacks, Extends
  <1>2. CASE ref_stack = <<>>
    <2>1. dom = <<>> /\ states = <<>>
      BY <1>2 DEF Stacks
    <2> QED
      BY <1>1, <1>2, <2>1 DEF TopNode
  <1>3. CASE ref_stack # <<>>
    <2> DEFINE n == TopNode
    <2>1. /\ IsDom(dom) /\ n = Last(ref_stack) /\ n \in 1 .. Len(dom) /\ n = ref_stack[Len(ref_stack)]
          /\ states # <<>> /\ Last(states) \in BOOLEAN
          /\ dom[n][1] = IF Last(states) THEN "array" ELSE "object"
      BY <1>3 DEF Stacks, Last, TopNode
    <2>2. PICK content :
            /\ e = Append(Refilled(dom, n, content), <<t, c>>)
            /\ Last(states) => content = Append(dom[n][2], Len(dom) + 1)
            /\ ~Last(states) =>
                 /\ object_element[1] = n
                 /\ content = [dom[n][2] EXCEPT ![object_element[2]] = Len(dom) + 1]
      <3>1. CASE Last(states)
        <4>1. e = Append([dom EXCEPT ![n][2] = Append(@, Len(dom) + 1)], <<t, c>>)
          BY <1>3, <2>1, <3>1 DEF HandleValue
        <4>2. e = Append(Refilled(dom, n, Append(dom[n][2], Len(dom) + 1)), <<t, c>>)
          BY <4>1 DEF Refilled
        <4> QED
          BY <3>1, <4>2
      <3>2. CASE ~Last(states)
        <4>1. object_element[1] = n
          BY <2>1, <3>2 DEF Stacks
        <4>2. e = Append([dom EXCEPT ![n][2][object_element[2]] = Len(dom) + 1], <<t, c>>)
          BY <1>3, <2>1, <3>2, <4>1 DEF HandleValue
        <4>3. e = Append(Refilled(dom, n, [dom[n][2] EXCEPT ![object_element[2]] = Len(dom) + 1]), <<t, c>>)
          BY <4>2 DEF Refilled
        <4> QED
          BY <3>2, <4>1, <4>3
      <3> QED
        BY <3>1, <3>2
    <2> DEFINE r == Refilled(dom, n, content)
    <2> HIDE DEF n
    <2>3. /\ IsDom(r) /\ Len(r) = Len(dom) /\ r[n][1] = dom[n][1] /\ r[n][2] = content
          /\ \A k \in 1 .. Len(dom) : k # n => r[k] = dom[k]
      BY <2>1, Refill
    <2> HIDE DEF r
    <2>4. \A k \in 1 .. Len(r) : e[k] = r[k]
      <3>1. e = Append(r, <<t, c>>)
        BY <2>2 DEF r
      <3>2. ASSUME NEW q, IsDom(q), NEW f, f = Append(q, <<t, c>>)
            PROVE  \A k \in 1 .. Len(q) : f[k] = q[k]
        BY <3>2, Grow
      <3> QED
        BY <2>3, <3>1, <3>2
    <2>5. \A k \in 1 .. Len(dom) : k # n => e[k] = dom[k]
      BY <2>3, <2>4
    <2>6. e[n][1] = dom[n][1] /\ e[n][2] = content
      BY <2>1, <2>3, <2>4
    <2>7. n # 0
      BY <2>1
    <2> QED
      BY <1>1, <1>3, <2>1, <2>2, <2>5, <2>6, <2>7 DEF n
  <1> QED
    BY <1>2, <1>3

LEMMA StackIs ==
  ASSUME Stacks, phase # "idle", NEW w, Chained(w, ref_stack)
  PROVE  /\ Len(dom) \in Nat /\ Len(ref_stack) \in Nat /\ OpenNodes \in SUBSET (1 .. Len(dom))
         /\ Top(dom, OpenNodes, TopNode) \/ (ref_stack = <<>> /\ OpenNodes = {} /\ TopNode = 0)
         /\ ref_stack # <<>> => TopNode \in OpenNodes /\ \A x \in OpenNodes : x <= TopNode
  <1>1. /\ IsDom(dom) /\ ref_stack \in Seq(Nat) /\ Len(ref_stack) \in Nat
        /\ \A k \in 1 .. Len(ref_stack) : ref_stack[k] \in 1 .. Len(dom)
    BY DEF Stacks
  <1>2. Len(dom) \in Nat
    BY <1>1, Grow
  <1>3. OpenNodes \in SUBSET (1 .. Len(dom))
    BY <1>1 DEF OpenNodes
  <1>4. CASE ref_stack = <<>>
    BY <1>1, <1>2, <1>3, <1>4 DEF OpenNodes, TopNode
  <1>5. CASE ref_stack # <<>>
    <2> DEFINE m == Len(ref_stack)
    <2>1. m \in 1 .. m /\ TopNode = ref_stack[m]
      BY <1>1, <1>5 DEF TopNode, Last
    <2>2. \A i \in 1 .. m : i = m \/ m \in i + 1 .. m
      BY <1>1
    <2>3. \A i \in 1 .. m : ref_stack[i] <= ref_stack[m]
      <3>1. \A i \in 1 .. m : \A k \in i + 1 .. m : ref_stack[i] < ref_stack[k]
        BY DEF Chained
      <3>2. \A i \in 1 .. m : ref_stack[i] \in Nat
        BY <1>1
      <3> QED
        BY <2>1, <2>2, <3>1, <3>2
    <2>4. TopNode \in OpenNodes /\ \A x \in OpenNodes : x <= TopNode
      BY <2>1, <2>3 DEF OpenNodes
    <2> QED
      BY <1>1, <1>2, <1>3, <1>5, <2>4 DEF Top
  <1> QED
    BY <1>4, <1>5

(* handle_value makes a node an item of the innermost structure.           *)
LEMMA HandledTakes ==
  ASSUME Stacks, phase = "value", NEW w, Builds(w), NEW t, NEW c, NEW e, e = HandleValue(<<t, c>>)
  PROVE  /\ Takes(text, dom, e, w, Hole, Len(dom) + 1, last_token, TopNode)
         /\ Top(dom, OpenNodes, TopNode)
  <1> DEFINE N == Len(dom) + 1
             n == TopNode
             m == Len(w.items[n])
  <1>1. /\ Len(dom) \in Nat /\ IsDom(e) /\ Len(e) = N /\ e[N] = <<t, c>>
        /\ \A i \in 1 .. Len(dom) : i # n => e[i] = dom[i]
        /\ n = 0 => dom = <<>> /\ ref_stack = <<>> /\ states = <<>>
        /\ n # 0 =>
              /\ n \in 1 .. Len(dom) /\ ref_stack # <<>> /\ states # <<>> /\ Last(states) \in BOOLEAN
              /\ n = ref_stack[Len(ref_stack)]
              /\ dom[n][1] = (IF Last(states) THEN "array" ELSE "object")
              /\ e[n][1] = dom[n][1]
              /\ Last(states) => e[n][2] = Append(dom[n][2], N)
              /\ ~Last(states) =>
                   /\ object_element[1] = n
                   /\ e[n][2] = [dom[n][2] EXCEPT ![object_element[2]] = N]
    BY HandledNodes
  <1>2. Stands(w) /\ Chained(w, ref_stack) /\ Drafted(text, dom, w, OpenNodes, Hole)
    BY DEF Builds
  <1>3. Top(dom, OpenNodes, n)
    <2>1. CASE n = 0
      <3>1. dom = <<>> /\ ref_stack = <<>>
        BY <1>1, <2>1
      <3> QED
        BY <2>1, <3>1 DEF Top, OpenNodes
    <2>2. CASE n # 0
      BY <1>1, <1>2, <2>2, StackIs
    <2> QED
      BY <2>1, <2>2
  <1> HIDE DEF n
  <1>4. \A i \in 1 .. Len(dom) : i # n => i # Hole[1]
    <2>1. CASE Hole = NoHole
      BY <1>1, <2>1 DEF NoHole
    <2>2. CASE Hole # NoHole
      <3>1. Hole = object_element /\ states # <<>> /\ ~Last(states)
        BY <2>2 DEF Hole
      <3>2. Hole[1] = n
        BY <1>1, <3>1
      <3> QED
        BY <3>2
    <2> QED
      BY <2>1, <2>2
  <1>5. ASSUME n # 0
        PROVE  /\ e[n][1] = dom[n][1]
               /\ ItemBegins(text, dom[n][1] = "array", w, n, m + 1, last_token)
               /\ dom[n][1] = "array" => e[n][2] = Append(dom[n][2], N)
               /\ dom[n][1] # "array" =>
                    /\ Hole[1] = n /\ Hole[2] = Place(text, w, n, m + 1)[2]
                    /\ DOMAIN e[n][2] = DOMAIN dom[n][2]
                    /\ \A x \in DOMAIN dom[n][2] :
                         e[n][2][x] = IF x = Place(text, w, n, m + 1)[2] THEN N ELSE dom[n][2][x]
    <2>1. /\ states # <<>> /\ Last(states) \in BOOLEAN
          /\ dom[n][1] = (IF Last(states) THEN "array" ELSE "object")
          /\ (dom[n][1] = "array") = Last(states)
      BY <1>1, <1>5
    <2>2. /\ ItemBegins(text, Last(states), w, n, m + 1, last_token)
          /\ ~Last(states) => object_element[2] = Place(text, w, n, m + 1)[2]
      BY <1>2, <2>1 DEF Stands, n
    <2>3. ItemBegins(text, dom[n][1] = "array", w, n, m + 1, last_token)
      BY <2>1, <2>2
    <2>4. CASE Last(states)
      BY <1>1, <1>5, <2>1, <2>3, <2>4
    <2>5. CASE ~Last(states)
      <3> DEFINE p == Place(text, w, n, m + 1)[2]
      <3>1. object_element[1] = n /\ object_element[2] = p
        BY <1>1, <1>5, <2>2, <2>5
      <3>2. Hole = object_element
        BY <2>1, <2>5 DEF Hole
      <3>3. e[n][2] = [dom[n][2] EXCEPT ![p] = N]
        BY <1>1, <1>5, <2>5, <3>1
      <3> HIDE DEF p
      <3>4. /\ DOMAIN e[n][2] = DOMAIN dom[n][2]
            /\ \A x \in DOMAIN dom[n][2] : e[n][2][x] = IF x = p THEN N ELSE dom[n][2][x]
        BY <3>3
      <3> QED
        BY <1>1, <1>5, <2>1, <2>3, <2>5, <3>1, <3>2, <3>4 DEF p
    <2> QED
      BY <2>1, <2>4, <2>5
  <1>6. Takes(text, dom, e, w, Hole, N, last_token, n)
    BY <1>1, <1>4, <1>5 DEF Takes
  <1> QED
    BY <1>3, <1>6 DEF n

-----------------------------------------------------------------------------
(* The node N, when it is new.                                             *)
LEMMA ScalarWritten ==
  ASSUME NEW s, NEW e, NEW v, NEW N, v.items[N] = <<>>, IsScalar(v.first[N]),
         e[N] = <<Scalars[v.first[N][1]], v.first[N][2]>>, v.end[N] = v.first[N][3]
  PROVE  IsWritten(s, e, v, N)
  <1>1. Scalars = Kind
    BY DEF Scalars, Kind
  <1> QED
    BY <1>1 DEF IsWritten

LEMMA EmptyArranged ==
  ASSUME NEW s, NEW e, NEW v, NEW N, v.items[N] = <<>>, NEW array \in BOOLEAN,
         e[N] = EmptyNode(IF array THEN "array" ELSE "object"),
         v.first[N][1] = IF array THEN "begin_array" ELSE "begin_object"
  PROVE  Arranged(s, e, v, N, {})
  <1>1. Len(v.items[N]) = 0 /\ 1 .. Len(v.items[N]) = {}
    OBVIOUS
  <1>2. CASE array
    <2>1. e[N][1] = "array" /\ e[N][2] = v.items[N]
      BY <1>2 DEF EmptyNode
    <2> QED
      BY <1>1, <1>2, <2>1 DEF Arranged
  <1>3. CASE ~array
    <2>1. e[N][1] = "object" /\ DOMAIN e[N][2] = {}
      BY <1>3 DEF EmptyNode
    <2>2. Lists(s, e[N][2], v, N, {})
      BY <1>1, <2>1 DEF Lists
    <2> QED
      BY <1>1, <1>3, <2>1, <2>2 DEF Arranged
  <1> QED
    BY <1>2, <1>3

LEMMA EmptyWritten ==
  ASSUME NEW s, NEW e, NEW v, NEW N, v.items[N] = <<>>, NEW array \in BOOLEAN,
         e[N] = EmptyNode(IF array THEN "array" ELSE "object"),
         v.first[N][1] = IF array THEN "begin_array" ELSE "begin_object",
         Scan(s, v.first[N][3])[1] = IF array THEN "end_array" ELSE "end_object",
         v.end[N] = Scan(s, v.first[N][3])[3]
  PROVE  IsWritten(s, e, v, N)
  <1>1. Arranged(s, e, v, N, {})
    BY EmptyArranged
  <1>2. (e[N][1] = "array") = array
    BY DEF EmptyNode
  <1>3. Closes(s, e[N][1] = "array", v, N)
    BY <1>2 DEF Closes
  <1> QED
    BY <1>1, <1>3 DEF IsWritten

(* The draft with one node more.                                           *)
Adds(w, v, t, c, e, N, j) ==
  /\ Stacks /\ phase = "value" /\ Builds(w)
  /\ e = HandleValue(<<t, c>>) /\ N = Len(dom) + 1 /\ j \in Nat
  /\ v = Grown(w, N, last_token, j, TopNode)

Added(w, v, e, N, j) ==
  /\ IsGrown(text, dom, e, w, v, N, last_token, j, TopNode)
  /\ v.first[N] = last_token /\ v.end[N] = j /\ v.items[N] = <<>>
  /\ IsWritten(text, e, v, N) => Drafted(text, e, v, OpenNodes, NoHole)
  /\ Arranged(text, e, v, N, {}) => Drafted(text, e, v, OpenNodes \cup {N}, NoHole)
  /\ v.first[1] = FirstToken(text)
  /\ Chained(v, ref_stack) /\ Chained(v, Append(ref_stack, N))

LEMMA NodeAdded ==
  ASSUME NEW w, NEW v, NEW t, NEW c, NEW e, NEW N, NEW j, Adds(w, v, t, c, e, N, j)
  PROVE  Added(w, v, e, N, j)
  <1>0. /\ Stacks /\ phase = "value" /\ Builds(w)
        /\ e = HandleValue(<<t, c>>) /\ N = Len(dom) + 1 /\ j \in Nat
        /\ v = Grown(w, N, last_token, j, TopNode)
    BY DEF Adds
  <1>1. /\ Len(dom) \in Nat /\ IsDom(e) /\ Len(e) = N /\ e[N] = <<t, c>>
        /\ TopNode = 0 => dom = <<>> /\ ref_stack = <<>> /\ states = <<>>
        /\ TopNode # 0 => TopNode \in 1 .. Len(dom) /\ ref_stack # <<>> /\ TopNode = ref_stack[Len(ref_stack)]
    BY <1>0, HandledNodes
  <1>2. /\ Drafted(text, dom, w, OpenNodes, Hole) /\ w \in Writing(text, dom)
        /\ Chained(w, ref_stack) /\ Stands(w) /\ last_token \in Tokens(text)
        /\ dom # <<>> => w.first[1] = FirstToken(text)
    BY <1>0 DEF Builds, Drafted, Stands
  <1>3. IsGrown(text, dom, e, w, v, N, last_token, j, TopNode)
    BY <1>0, <1>1, <1>2, GrownIs
  <1>4. v.first[N] = last_token /\ v.end[N] = j /\ v.items[N] = <<>>
    BY <1>3 DEF IsGrown
  <1>5. Takes(text, dom, e, w, Hole, N, last_token, TopNode) /\ Top(dom, OpenNodes, TopNode)
    BY <1>0, HandledTakes
  <1>6. OpenNodes \in SUBSET (1 .. Len(dom)) /\ Len(ref_stack) \in Nat
    BY <1>0, <1>2, StackIs
  <1>7. /\ IsWritten(text, e, v, N) => Drafted(text, e, v, OpenNodes, NoHole)
        /\ Arranged(text, e, v, N, {}) => Drafted(text, e, v, OpenNodes \cup {N}, NoHole)
    <2>1. Grows(text, dom, e, w, v, OpenNodes, Hole, last_token, j, TopNode)
      BY <1>1, <1>2, <1>3, <1>5, <1>6, <1>0 DEF Grows
    <2> QED
      BY <1>0, <2>1, DraftGrows
  <1>8. v.first[1] = FirstToken(text)
    <2>1. CASE TopNode = 0
      <3>1. states = <<>> /\ N = 1
        BY <1>0, <1>1, <2>1
      <3> QED
        BY <1>0, <1>2, <1>4, <3>1 DEF Stands
    <2>2. CASE TopNode # 0
      <3>1. 1 \in 1 .. Len(dom) /\ dom # <<>>
        BY <1>1, <2>2
      <3> QED
        BY <1>2, <1>3, <3>1 DEF IsGrown
    <2> QED
      BY <2>1, <2>2
  <1> DEFINE r == ref_stack
             m == Len(ref_stack)
  <1>9. /\ \A i \in 1 .. m : r[i] \in 1 .. Len(dom)
        /\ r \in Seq(Nat)
    BY <1>0 DEF Stacks
  <1>10. /\ r # <<>> => r[1] = 1
         /\ \A i \in 1 .. m : \A k \in i + 1 .. m : r[i] < r[k]
         /\ \A i \in 1 .. m - 1 : w.items[r[i]] # <<>> /\ LastItem(w, r[i]) = r[i + 1]
    BY <1>2 DEF Chained
  <1>11. ASSUME NEW i \in 1 .. m - 1
         PROVE  v.items[r[i]] # <<>> /\ LastItem(v, r[i]) = r[i + 1]
    <2>1. i \in 1 .. m /\ m \in i + 1 .. m /\ r # <<>>
      BY <1>6, <1>9
    <2>2. r[i] < r[m] /\ r[i] \in 1 .. Len(dom) /\ TopNode = r[m]
      BY <1>9, <1>10, <2>1 DEF TopNode, Last
    <2>3. v.items[r[i]] = w.items[r[i]]
      BY <1>3, <2>2 DEF IsGrown
    <2> QED
      BY <1>10, <2>3 DEF LastItem
  <1>12. Chained(v, r)
    BY <1>10, <1>11 DEF Chained
  <1>13. Chained(v, Append(r, N))
    <2> DEFINE q == Append(r, N)
    <2>1. Len(q) = m + 1 /\ q[m + 1] = N /\ \A i \in 1 .. m : q[i] = r[i]
      BY <1>9
    <2> HIDE DEF q
    <2>2. q[1] = 1
      <3>1. CASE r = <<>>
        <4>1. m = 0 /\ TopNode = 0
          BY <3>1 DEF TopNode
        <4> QED
          BY <1>0, <1>1, <2>1, <4>1
      <3>2. CASE r # <<>>
        <4>1. 1 \in 1 .. m
          BY <1>6, <1>9, <3>2
        <4> QED
          BY <1>10, <2>1, <3>2, <4>1
      <3> QED
        BY <3>1, <3>2
    <2>3. ASSUME NEW i \in 1 .. m + 1, NEW k \in i + 1 .. m + 1
          PROVE  q[i] < q[k]
      <3>1. i \in 1 .. m /\ r[i] \in 1 .. Len(dom)
        BY <1>6, <1>9
      <3>2. CASE k = m + 1
        BY <1>0, <1>1, <2>1, <3>1, <3>2
      <3>3. CASE k # m + 1
        <4>1. k \in i + 1 .. m /\ k \in 1 .. m
          BY <1>6, <3>1, <3>3
        <4> QED
          BY <1>10, <2>1, <3>1, <4>1
      <3> QED
        BY <3>2, <3>3
    <2>4. ASSUME NEW i \in 1 .. m
          PROVE  v.items[q[i]] # <<>> /\ LastItem(v, q[i]) = q[i + 1]
      <3>1. CASE i = m
        <4>1. r # <<>> /\ q[m] = r[m] /\ TopNode = r[m] /\ TopNode \in 1 .. Len(dom)
          BY <1>6, <1>9, <2>1, <3>1 DEF TopNode, Last
        <4>2. /\ Len(v.items[TopNode]) = Len(w.items[TopNode]) + 1
              /\ v.items[TopNode][Len(w.items[TopNode]) + 1] = N
          BY <1>3, <4>1 DEF IsGrown
        <4>3. Len(w.items[TopNode]) \in Nat
          BY <1>1, <1>2, <4>1, WritingIs
        <4>4. v.items[TopNode] # <<>>
          BY <4>2, <4>3
        <4> QED
          BY <2>1, <3>1, <4>1, <4>2, <4>4 DEF LastItem
      <3>2. CASE i # m
        <4>1. i \in 1 .. m - 1 /\ i + 1 \in 1 .. m
          BY <1>6, <3>2
        <4> QED
          BY <1>11, <2>1, <4>1
      <3> QED
        BY <3>1, <3>2
    <2>5. \A i \in 1 .. Len(q) - 1 : i \in 1 .. m
      BY <1>6, <2>1
    <2>6. Chained(v, q)
      BY <2>1, <2>2, <2>3, <2>4, <2>5 DEF Chained
    <2> QED
      BY <2>6 DEF q
  <1> QED
    BY <1>3, <1>4, <1>7, <1>8, <1>12, <1>13 DEF Added

-----------------------------------------------------------------------------
(* A value is complete: it is the last item of the innermost structure, or *)
(* the root.                                                               *)
LEMMA ValueCompleted ==
  ASSUME Stacks, phase = "value", NEW w, Builds(w), NEW t, NEW c, dom' = HandleValue(<<t, c>>),
         phase' = "after", UNCHANGED <<text, states, ref_stack>>, next' \in Nat,
         \A v : /\ v.first[Len(dom) + 1] = last_token /\ v.end[Len(dom) + 1] = next'
                /\ v.items[Len(dom) + 1] = <<>>
                => IsWritten(text, dom', v, Len(dom) + 1)
  PROVE  Building'
  <1>a. PICK N : N = Len(dom) + 1
    OBVIOUS
  <1>b. PICK e : e = dom'
    OBVIOUS
  <1>c. PICK j \in Nat : j = next'
    OBVIOUS
  <1>d. PICK v : v = Grown(w, N, last_token, j, TopNode)
    OBVIOUS
  <1>0. e = HandleValue(<<t, c>>)
    BY <1>b
  <1>1. /\ IsGrown(text, dom, e, w, v, N, last_token, j, TopNode)
        /\ v.first[N] = last_token /\ v.end[N] = j /\ v.items[N] = <<>>
        /\ IsWritten(text, e, v, N) => Drafted(text, e, v, OpenNodes, NoHole)
        /\ v.first[1] = FirstToken(text)
        /\ Chained(v, ref_stack)
    <2>1. Adds(w, v, t, c, e, N, j)
      BY <1>a, <1>d, <1>0 DEF Adds
    <2>2. Added(w, v, e, N, j)
      BY <2>1, NodeAdded
    <2> QED
      BY <2>2 DEF Added
  <1>2. Drafted(text, e, v, OpenNodes, NoHole)
    BY <1>a, <1>b, <1>c, <1>1
  <1>3. /\ TopNode = 0 => dom = <<>> /\ ref_stack = <<>>
        /\ TopNode # 0 => TopNode \in 1 .. Len(dom) /\ ref_stack # <<>>
        /\ Len(dom) \in Nat
    BY HandledNodes
  <1>4. Hole' = NoHole /\ OpenNodes' = OpenNodes /\ TopNode' = TopNode
    BY DEF Hole, OpenNodes, TopNode
  <1>5. ref_stack = <<>> => next' = v.end[1]
    <2>1. SUFFICES ASSUME ref_stack = <<>> PROVE next' = v.end[1]
      OBVIOUS
    <2>2. N = 1
      BY <1>3, <1>a, <2>1
    <2> QED
      BY <1>1, <1>c, <2>2
  <1>6. ref_stack # <<>> => v.items[TopNode] # <<>> /\ next' = v.end[LastItem(v, TopNode)]
    <2>1. SUFFICES ASSUME ref_stack # <<>>
                   PROVE  v.items[TopNode] # <<>> /\ next' = v.end[LastItem(v, TopNode)]
      OBVIOUS
    <2>2. TopNode \in 1 .. Len(dom)
      BY <1>3, <2>1
    <2>3. /\ Len(v.items[TopNode]) = Len(w.items[TopNode]) + 1
          /\ v.items[TopNode][Len(w.items[TopNode]) + 1] = N
      BY <1>1, <2>2 DEF IsGrown
    <2>4. Len(w.items[TopNode]) \in Nat
      BY <1>3, <2>2, WritingIs DEF Builds, Drafted
    <2>5. v.items[TopNode] # <<>>
      BY <2>3, <2>4
    <2> QED
      BY <1>1, <1>c, <2>3, <2>5 DEF LastItem
  <1>7. Stands(v)'
    BY <1>4, <1>5, <1>6 DEF Stands
  <1>8. Builds(v)'
    <2>1. Drafted(text', dom', v, OpenNodes', Hole')
      BY <1>2, <1>4, <1>b
    <2>2. (dom' # <<>> => v.first[1] = FirstToken(text')) /\ Chained(v, ref_stack')
      BY <1>1, <1>b
    <2> QED
      BY <1>7, <2>1, <2>2 DEF Builds
  <1> QED
    BY <1>8 DEF Building

LEMMA ReadEmptyKeepsBuilding ==
  ASSUME Stacks, Reading, Building, ReadEmptyObject \/ ReadEmptyArray
  PROVE  Building'
  <1>1. PICK array \in BOOLEAN :
          /\ phase = "value" /\ phase' = "after" /\ UNCHANGED <<text, states, ref_stack>>
          /\ dom' = HandleValue(EmptyNode(IF array THEN "array" ELSE "object"))
          /\ next' = Token(next)[3]
          /\ last_token[1] = IF array THEN "begin_array" ELSE "begin_object"
          /\ Token(next)[1] = IF array THEN "end_array" ELSE "end_object"
    BY DEF ReadEmptyObject, ReadEmptyArray, ReadEmpty, Reads
  <1> DEFINE type == IF array THEN "array" ELSE "object"
  <1>2. PICK w : Builds(w)
    BY <1>1 DEF Building
  <1>3. PICK c : EmptyNode(type) = <<type, c>>
    BY DEF EmptyNode
  <1>4. next = last_token[3] /\ next \in Nat /\ next' \in Nat
    BY <1>1, GoesOn DEF Reading, WellFormed
  <1> DEFINE N == Len(dom) + 1
  <1>5. dom'[N] = EmptyNode(type)
    <2> DEFINE e == dom'
    <2>1. e = HandleValue(<<type, c>>)
      BY <1>1, <1>3
    <2> HIDE DEF e
    <2>2. e[N] = <<type, c>>
      BY <1>1, <2>1, HandledNodes
    <2> QED
      BY <1>3, <2>2 DEF e
  <1>6. ASSUME NEW v, v.first[N] = last_token, v.end[N] = next', v.items[N] = <<>>
        PROVE  IsWritten(text, dom', v, N)
    <2>1. /\ v.first[N][1] = IF array THEN "begin_array" ELSE "begin_object"
          /\ Scan(text, v.first[N][3])[1] = IF array THEN "end_array" ELSE "end_object"
          /\ v.end[N] = Scan(text, v.first[N][3])[3]
      BY <1>1, <1>4, <1>6 DEF Token
    <2> QED
      BY <1>5, <1>6, <2>1, EmptyWritten
  <1> HIDE DEF type
  <1>7. dom' = HandleValue(<<type, c>>)
    BY <1>1, <1>3 DEF type
  <1> QED
    BY <1>1, <1>2, <1>4, <1>6, <1>7, ValueCompleted

LEMMA ReadScalarKeepsBuilding ==
  ASSUME Stacks, Reading, Building, ReadScalar
  PROVE  Building'
  <1>1. PICK type \in DOMAIN Scalars :
          /\ phase = "value" /\ phase' = "after" /\ UNCHANGED <<text, next, states, ref_stack>>
          /\ last_token[1] = type /\ ~Overflows
          /\ dom' = HandleValue(<<Scalars[type], last_token[2]>>)
    BY DEF ReadScalar, Reads
  <1>2. PICK w : Builds(w)
    BY <1>1 DEF Building
  <1>3. IsScalar(last_token)
    BY <1>1 DEF Scalars, Overflows, IsScalar
  <1>4. next' = last_token[3] /\ next' \in Nat
    <2>1. last_token[1] # "parse_error"
      BY <1>1 DEF Scalars
    <2> QED
      BY <1>1, <2>1, GoesOn DEF Reading, WellFormed
  <1> DEFINE N == Len(dom) + 1
             scalar == Scalars[type]
  <1>5. dom'[N] = <<scalar, last_token[2]>>
    <2> DEFINE e == dom'
    <2>1. e = HandleValue(<<scalar, last_token[2]>>)
      BY <1>1
    <2> HIDE DEF e, scalar
    <2>2. e[N] = <<scalar, last_token[2]>>
      BY <1>1, <2>1, HandledNodes
    <2> QED
      BY <2>2 DEF e
  <1>6. ASSUME NEW v, v.first[N] = last_token, v.end[N] = next', v.items[N] = <<>>
        PROVE  IsWritten(text, dom', v, N)
    <2>1. dom'[N] = <<Scalars[v.first[N][1]], v.first[N][2]>>
      BY <1>1, <1>5, <1>6
    <2>2. IsScalar(v.first[N]) /\ v.end[N] = v.first[N][3]
      BY <1>3, <1>4, <1>6
    <2> QED
      BY <1>6, <2>1, <2>2, ScalarWritten
  <1> HIDE DEF scalar
  <1>7. dom' = HandleValue(<<scalar, last_token[2]>>)
    BY <1>1 DEF scalar
  <1> QED
    BY <1>1, <1>2, <1>4, <1>6, <1>7, ValueCompleted

-----------------------------------------------------------------------------
(* The nodes after key: the member is there.                               *)
LEMMA KeyedNodes ==
  ASSUME NEW d, IsDom(d), NEW n \in 1 .. Len(d), NEW k, Key(d, n, k)
  PROVE  /\ Len(dom') = Len(d) /\ dom'[n][1] = d[n][1]
         /\ \A i \in 1 .. Len(d) : i # n => dom'[i] = d[i]
         /\ DOMAIN dom'[n][2] = DOMAIN d[n][2] \cup {k}
         /\ \A x \in DOMAIN d[n][2] : x # k => dom'[n][2][x] = d[n][2][x]
         /\ object_element' = <<n, k>>
  <1>1. object_element' = <<n, k>>
    BY DEF Key
  <1>2. CASE k \in DOMAIN d[n][2]
    <2>1. dom' = d
      BY <1>2 DEF Key
    <2> QED
      BY <1>1, <1>2, <2>1
  <1>3. CASE k \notin DOMAIN d[n][2]
    <2> DEFINE inserted == [m \in {k} \cup DOMAIN d[n][2] |-> IF m = k THEN 0 ELSE d[n][2][m]]
    <2>1. /\ DOMAIN inserted = DOMAIN d[n][2] \cup {k}
          /\ \A x \in DOMAIN d[n][2] : x # k => inserted[x] = d[n][2][x]
      OBVIOUS
    <2>2. dom' = Refilled(d, n, inserted)
      BY <1>3 DEF Key, Refilled
    <2> HIDE DEF inserted
    <2>3. /\ Len(dom') = Len(d) /\ dom'[n][1] = d[n][1] /\ dom'[n][2] = inserted
          /\ \A i \in 1 .. Len(d) : i # n => dom'[i] = d[i]
      BY <2>2, Refill
    <2> QED
      BY <1>1, <2>1, <2>3
  <1> QED
    BY <1>2, <1>3

(* A structure is opened: what the draft is then, before its first key.    *)
Opens(w, v, d, N, array) ==
  /\ Stacks /\ phase = "value" /\ Builds(w) /\ array \in BOOLEAN
  /\ last_token[1] = IF array THEN "begin_array" ELSE "begin_object"
  /\ d = HandleValue(EmptyNode(IF array THEN "array" ELSE "object"))
  /\ N = Len(dom) + 1 /\ v = Grown(w, N, last_token, 0, TopNode)

HasNew(v, d, N, array) ==
  /\ IsDom(d) /\ Len(d) = N /\ N \in Nat \ {0}
  /\ d[N] = EmptyNode(IF array THEN "array" ELSE "object")
  /\ Drafted(text, d, v, OpenNodes \cup {N}, NoHole)
  /\ OpenNodes \cup {N} \subseteq 1 .. Len(d)
  /\ v.first[1] = FirstToken(text) /\ v.first[N] = last_token /\ v.items[N] = <<>>
  /\ Chained(v, Append(ref_stack, N))

LEMMA StructureOpened ==
  ASSUME NEW w, NEW v, NEW d, NEW N, NEW array, Opens(w, v, d, N, array)
  PROVE  HasNew(v, d, N, array)
  <1>0. /\ Stacks /\ phase = "value" /\ Builds(w) /\ array \in BOOLEAN
        /\ last_token[1] = IF array THEN "begin_array" ELSE "begin_object"
    BY DEF Opens
  <1> DEFINE type == IF array THEN "array" ELSE "object"
  <1>1. PICK c : EmptyNode(type) = <<type, c>>
    BY DEF EmptyNode
  <1>2. d = HandleValue(<<type, c>>) /\ d = HandleValue(EmptyNode(type)) /\ N = Len(dom) + 1
    BY <1>1 DEF Opens
  <1> HIDE DEF type
  <1>3. Len(dom) \in Nat /\ IsDom(d) /\ Len(d) = N /\ d[N] = <<type, c>>
    <2>1. Stacks /\ phase = "value" /\ d = HandleValue(<<type, c>>)
      BY <1>0, <1>2
    <2>2. Len(dom) \in Nat /\ IsDom(d) /\ Len(d) = Len(dom) + 1 /\ d[Len(dom) + 1] = <<type, c>>
      BY <2>1, HandledNodes
    <2> QED
      BY <1>2, <2>2
  <1>4. Adds(w, v, type, c, d, N, 0)
    BY <1>0, <1>2 DEF Adds, Opens
  <1>5. Added(w, v, d, N, 0)
    BY <1>4, NodeAdded
  <1>6. v.first[N] = last_token /\ v.items[N] = <<>> /\ d[N] = EmptyNode(IF array THEN "array" ELSE "object")
    BY <1>1, <1>3, <1>5 DEF Added, type
  <1>7. Arranged(text, d, v, N, {})
    BY <1>0, <1>6, EmptyArranged
  <1>8. OpenNodes \subseteq 1 .. Len(dom)
    BY <1>0, StackIs DEF Builds
  <1>9. N \in Nat \ {0} /\ OpenNodes \cup {N} \subseteq 1 .. Len(d)
    <2>1. N \in Nat \ {0} /\ N \in 1 .. N /\ \A i \in 1 .. Len(dom) : i \in 1 .. N
      BY <1>2, <1>3
    <2> QED
      BY <1>3, <1>8, <2>1
  <1> QED
    BY <1>3, <1>5, <1>6, <1>7, <1>9 DEF Added, HasNew

LEMMA OpenedStack ==
  ASSUME Stacks, phase = "value", NEW N \in Nat, N = Len(dom) + 1, NEW array \in BOOLEAN, Open(array)
  PROVE  /\ phase' = "value" /\ text' = text
         /\ states' # <<>> /\ Last(states') = array
         /\ ref_stack' = Append(ref_stack, N) /\ ref_stack' # <<>>
         /\ TopNode' = N /\ OpenNodes' = OpenNodes \cup {N}
         /\ Hole' = IF array THEN NoHole ELSE object_element'
  <1>1. /\ states \in Seq(BOOLEAN) /\ states' = Append(states, array)
        /\ ref_stack \in Seq(Nat) /\ ref_stack' = Append(ref_stack, N)
    BY DEF Stacks, Open
  <1>2. states' # <<>> /\ Last(states') = array
    BY <1>1 DEF Last
  <1>3. ref_stack' # <<>> /\ Last(ref_stack') = N
    BY <1>1 DEF Last
  <1> DEFINE m == Len(ref_stack)
  <1>4. /\ m \in Nat /\ Len(ref_stack') = m + 1 /\ ref_stack'[m + 1] = N
        /\ \A k \in 1 .. m : ref_stack'[k] = ref_stack[k]
    BY <1>1
  <1>5. OpenNodes' = OpenNodes \cup {N}
    <2>1. 1 .. m + 1 = (1 .. m) \cup {m + 1}
      BY <1>4
    <2> QED
      BY <1>4, <2>1 DEF OpenNodes
  <1> QED
    BY <1>1, <1>2, <1>3, <1>5, OpenedHole DEF TopNode, Open

LEMMA OpenArrayKeepsBuilding ==
  ASSUME Stacks, Reading, Building, OpenArray
  PROVE  Building'
  <1>1. /\ phase = "value" /\ last_token[1] = "begin_array" /\ Open(TRUE)
        /\ dom' = HandleValue(EmptyNode("array"))
        /\ last_token' = Token(next)
    BY DEF OpenArray, Reads, Get
  <1>2. PICK w : Builds(w)
    BY <1>1 DEF Building
  <1>3. next = last_token[3] /\ next \in Nat
    BY <1>1, GoesOn DEF Reading
  <1>4. PICK d : d = dom'
    OBVIOUS
  <1>5. PICK N : N = Len(dom) + 1
    OBVIOUS
  <1>6. PICK v : v = Grown(w, N, last_token, 0, TopNode)
    OBVIOUS
  <1>7. HasNew(v, d, N, TRUE)
    <2>1. Opens(w, v, d, N, TRUE)
      BY <1>1, <1>2, <1>4, <1>5, <1>6 DEF Opens
    <2> QED
      BY <2>1, StructureOpened
  <1>8. /\ Len(d) = N /\ N \in Nat \ {0}
        /\ Drafted(text, d, v, OpenNodes \cup {N}, NoHole)
        /\ v.first[1] = FirstToken(text) /\ v.first[N] = last_token /\ v.items[N] = <<>>
        /\ Chained(v, Append(ref_stack, N))
    BY <1>7 DEF HasNew
  <1>9. /\ phase' = "value" /\ text' = text /\ states' # <<>> /\ Last(states') = TRUE
        /\ ref_stack' = Append(ref_stack, N)
        /\ TopNode' = N /\ OpenNodes' = OpenNodes \cup {N} /\ Hole' = NoHole
    BY <1>1, <1>5, <1>8, OpenedStack
  <1>10. Place(text, v, N, 1) = last_token'
    BY <1>1, <1>3, <1>8 DEF Place, After, Token
  <1>11. Stands(v)'
    <2>1. last_token' \in Tokens(text)
      BY <1>1, <1>3 DEF Tokens, Token
    <2>2. Len(v.items[N]) + 1 = 1
      BY <1>8
    <2>3. ItemBegins(text, TRUE, v, N, 1, last_token')
      BY <1>10 DEF ItemBegins
    <2>4. ItemBegins(text', Last(states'), v, TopNode', Len(v.items[TopNode']) + 1, last_token')
      BY <1>9, <2>2, <2>3
    <2> QED
      BY <1>9, <2>1, <2>4 DEF Stands
  <1>12. Builds(v)'
    <2>1. Drafted(text', dom', v, OpenNodes', Hole')
      BY <1>4, <1>8, <1>9
    <2>2. v.first[1] = FirstToken(text') /\ Chained(v, ref_stack')
      BY <1>8, <1>9
    <2> QED
      BY <1>11, <2>1, <2>2 DEF Builds
  <1> QED
    BY <1>12 DEF Building

(* A key, and the value after it.                                          *)
LEMMA MemberIs ==
  ASSUME NEW i, KeyAt(i)
  PROVE  Named(text, Token(i)) /\ MemberValue(text, Token(i)) = Token(ValueAt(i))
  BY DEF KeyAt, Named, MemberValue, After, ValueAt, Token

LEMMA OpenObjectKeepsBuilding ==
  ASSUME Stacks, Reading, Building, OpenObject
  PROVE  Building'
  <1>1. /\ phase = "value" /\ last_token[1] = "begin_object" /\ Open(FALSE) /\ KeyAt(next)
        /\ Key(HandleValue(EmptyNode("object")), Len(dom) + 1, Token(next)[2])
        /\ last_token' = Token(ValueAt(next))
    BY DEF OpenObject, Reads, Get
  <1>2. PICK w : Builds(w)
    BY <1>1 DEF Building
  <1>3. next = last_token[3] /\ next \in Nat /\ ValueAt(next) \in Nat
    <2>1. text \in Bytes /\ next \in Nat \ {0}
      BY <1>1, GoesOn
    <2> QED
      BY <1>1, <2>1, KeyIs DEF Reading
  <1>4. PICK d : d = HandleValue(EmptyNode("object"))
    OBVIOUS
  <1>5. PICK N : N = Len(dom) + 1
    OBVIOUS
  <1>6. PICK v : v = Grown(w, N, last_token, 0, TopNode)
    OBVIOUS
  <1>a. PICK k : k = Token(next)[2]
    OBVIOUS
  <1>b. PICK e : e = dom'
    OBVIOUS
  <1>7. HasNew(v, d, N, FALSE)
    <2>1. Opens(w, v, d, N, FALSE)
      BY <1>1, <1>2, <1>4, <1>5, <1>6 DEF Opens
    <2> QED
      BY <2>1, StructureOpened
  <1>8. /\ IsDom(d) /\ Len(d) = N /\ N \in Nat \ {0} /\ d[N] = EmptyNode("object")
        /\ Drafted(text, d, v, OpenNodes \cup {N}, NoHole)
        /\ OpenNodes \cup {N} \subseteq 1 .. Len(d)
        /\ v.first[1] = FirstToken(text) /\ v.first[N] = last_token /\ v.items[N] = <<>>
        /\ Chained(v, Append(ref_stack, N))
    BY <1>7 DEF HasNew
  <1>9. /\ phase' = "value" /\ text' = text /\ states' # <<>> /\ Last(states') = FALSE
        /\ ref_stack' = Append(ref_stack, N)
        /\ TopNode' = N /\ OpenNodes' = OpenNodes \cup {N} /\ Hole' = object_element'
    BY <1>1, <1>5, <1>8, OpenedStack
  <1>10. /\ Len(e) = Len(d) /\ e[N][1] = d[N][1]
         /\ \A i \in 1 .. Len(d) : i # N => e[i] = d[i]
         /\ DOMAIN e[N][2] = DOMAIN d[N][2] \cup {k}
         /\ \A x \in DOMAIN d[N][2] : x # k => e[N][2][x] = d[N][2][x]
         /\ object_element' = <<N, k>>
    <2>1. Key(d, N, k) /\ N \in 1 .. Len(d)
      BY <1>1, <1>4, <1>5, <1>8, <1>a
    <2> QED
      BY <1>8, <1>b, <2>1, KeyedNodes
  <1>11. d[N][1] = "object"
    BY <1>8 DEF EmptyNode
  <1>12. Drafted(text, e, v, OpenNodes \cup {N}, <<N, k>>)
    <2> DEFINE O == OpenNodes \cup {N}
    <2>1. O \in SUBSET (1 .. Len(d)) /\ N \in O /\ Drafted(text, d, v, O, NoHole)
      BY <1>8
    <2> HIDE DEF O
    <2>2. Len(d) \in Nat /\ e[N][1] = "object"
      BY <1>8, <1>10, <1>11
    <2>3. Drafted(text, e, v, O, <<N, k>>)
      BY <1>10, <1>11, <2>1, <2>2, DraftKeyed
    <2> QED
      BY <2>3 DEF O
  <1>13. Place(text, v, N, 1) = Token(next)
    BY <1>3, <1>8 DEF Place, After, Token
  <1>14. Stands(v)'
    <2>1. last_token' \in Tokens(text)
      BY <1>1, <1>3 DEF Tokens, Token
    <2>2. Len(v.items[N]) + 1 = 1
      BY <1>8
    <2>3. ItemBegins(text, FALSE, v, N, 1, last_token')
      BY <1>1, <1>13, MemberIs DEF ItemBegins
    <2>4. ItemBegins(text', Last(states'), v, TopNode', Len(v.items[TopNode']) + 1, last_token')
      BY <1>9, <2>2, <2>3
    <2>5. object_element'[2] = Place(text', v, TopNode', Len(v.items[TopNode']) + 1)[2]
      BY <1>9, <1>10, <1>13, <1>a, <2>2
    <2> QED
      BY <1>9, <2>1, <2>4, <2>5 DEF Stands
  <1>15. Builds(v)'
    <2>1. Drafted(text', dom', v, OpenNodes', Hole')
      BY <1>9, <1>10, <1>12, <1>b
    <2>2. v.first[1] = FirstToken(text') /\ Chained(v, ref_stack')
      BY <1>8, <1>9
    <2> QED
      BY <1>14, <2>1, <2>2 DEF Builds
  <1> QED
    BY <1>15 DEF Building

-----------------------------------------------------------------------------
LEMMA FrontIs ==
  ASSUME NEW r \in Seq(Nat), r # <<>>
  PROVE  /\ Len(Front(r)) = Len(r) - 1 /\ \A i \in 1 .. Len(r) - 1 : Front(r)[i] = r[i]
         /\ Front(r) = <<>> <=> Len(r) = 1
  <1>1. PICK f : f = Front(r)
    OBVIOUS
  <1>2. f \in Seq(Nat) /\ Len(f) = Len(r) - 1 /\ \A i \in 1 .. Len(r) - 1 : f[i] = r[i]
    BY <1>1, FrontOf
  <1>3. Len(r) \in Nat /\ (f = <<>> <=> Len(f) = 0)
    BY <1>2
  <1> QED
    BY <1>1, <1>2, <1>3

(* Past a value inside of a structure.                                     *)
LEMMA InsideStructure ==
  ASSUME Stacks, Reading, phase = "after", states # <<>>, NEW w, Builds(w)
  PROVE  /\ text \in Bytes /\ next \in Nat \ {0} /\ Token(next) = Scan(text, next)
         /\ ref_stack # <<>> /\ Last(states) \in BOOLEAN
         /\ Len(ref_stack) \in Nat \ {0} /\ TopNode = ref_stack[Len(ref_stack)]
         /\ TopNode \in 1 .. Len(dom) /\ TopNode \in OpenNodes
         /\ OpenNodes \in SUBSET (1 .. Len(dom)) /\ \A x \in OpenNodes : x <= TopNode
         /\ dom[TopNode][1] = (IF Last(states) THEN "array" ELSE "object")
         /\ Drafted(text, dom, w, OpenNodes, NoHole)
         /\ Chained(w, ref_stack) /\ w.first[1] = FirstToken(text)
         /\ Len(w.items[TopNode]) \in Nat \ {0} /\ w.items[TopNode] # <<>>
         /\ next = w.end[LastItem(w, TopNode)]
         /\ LastItem(w, TopNode) \in 1 .. Len(dom) /\ LastItem(w, TopNode) # TopNode
         /\ Len(dom) \in Nat /\ IsDom(dom)
         /\ states[Len(states)] = Last(states)
  <1>1. /\ ref_stack # <<>> /\ Len(ref_stack) \in Nat \ {0} /\ Last(states) \in BOOLEAN
        /\ TopNode = ref_stack[Len(ref_stack)] /\ TopNode \in 1 .. Len(dom)
        /\ dom[TopNode][1] = (IF Last(states) THEN "array" ELSE "object")
        /\ states[Len(states)] = Last(states) /\ IsDom(dom)
    BY DEF Stacks, TopNode, Last
  <1>2. /\ Drafted(text, dom, w, OpenNodes, NoHole) /\ Chained(w, ref_stack) /\ Stands(w)
        /\ dom # <<>> => w.first[1] = FirstToken(text)
    BY DEF Builds, Hole
  <1>3. /\ Len(dom) \in Nat /\ OpenNodes \in SUBSET (1 .. Len(dom))
        /\ TopNode \in OpenNodes /\ \A x \in OpenNodes : x <= TopNode
    BY <1>1, <1>2, StackIs
  <1>4. w.items[TopNode] # <<>> /\ next = w.end[LastItem(w, TopNode)]
    BY <1>1, <1>2 DEF Stands
  <1>5. text \in Bytes /\ next \in Nat \ {0} /\ Token(next) = Scan(text, next)
    BY GoesOn DEF Token
  <1>6. w \in Writing(text, dom) /\ NodeFits(text, dom, w, OpenNodes, NoHole, TopNode)
    BY <1>1, <1>2 DEF Drafted
  <1> DEFINE m == Len(w.items[TopNode])
  <1>7. /\ m \in Nat /\ (w.items[TopNode] = <<>> <=> m = 0)
        /\ \A k \in 1 .. m : w.items[TopNode][k] \in 1 .. Len(dom)
    <2>1. PICK n \in 1 .. Len(dom) : n = TopNode
      BY <1>1
    <2> DEFINE q == w.items[n]
    <2>2. Len(q) \in Nat /\ (q = <<>> <=> Len(q) = 0) /\ \A k \in 1 .. Len(q) : q[k] \in 1 .. Len(dom)
      BY <1>3, <1>6, WritingIs
    <2> QED
      BY <2>1, <2>2
  <1>8. m \in Nat \ {0} /\ m \in 1 .. m
    BY <1>4, <1>7
  <1>9. w.items[TopNode][m] > TopNode /\ w.items[TopNode][m] \in 1 .. Len(dom)
    BY <1>6, <1>7, <1>8 DEF NodeFits
  <1>10. LastItem(w, TopNode) \in 1 .. Len(dom) /\ LastItem(w, TopNode) # TopNode
    BY <1>1, <1>3, <1>9 DEF LastItem
  <1> QED
    BY <1>1, <1>2, <1>3, <1>4, <1>5, <1>8, <1>10 DEF Reading

LEMMA NextItemKeepsBuilding ==
  ASSUME Stacks, Reading, Building, NextElement \/ NextMember
  PROVE  Building'
  <1> DEFINE at == Token(next)[3]
  <1>1. PICK array \in BOOLEAN :
          /\ phase = "after" /\ phase' = "value" /\ states # <<>> /\ states[Len(states)] = array
          /\ Token(next)[1] = "value_separator"
          /\ UNCHANGED <<text, states, ref_stack>>
          /\ array => dom' = dom /\ last_token' = Token(at)
          /\ ~array => /\ KeyAt(at) /\ Key(dom, Last(ref_stack), Token(at)[2])
                       /\ last_token' = Token(ValueAt(at))
    BY DEF NextElement, NextMember, Inside, Get
  <1>2. PICK w : Builds(w)
    BY <1>1 DEF Building
  <1>3. /\ text \in Bytes /\ next \in Nat \ {0} /\ Token(next) = Scan(text, next)
        /\ ref_stack # <<>> /\ Last(states) = array
        /\ TopNode \in 1 .. Len(dom) /\ TopNode \in OpenNodes
        /\ OpenNodes \in SUBSET (1 .. Len(dom))
        /\ dom[TopNode][1] = (IF array THEN "array" ELSE "object")
        /\ Drafted(text, dom, w, OpenNodes, NoHole)
        /\ Chained(w, ref_stack) /\ w.first[1] = FirstToken(text)
        /\ Len(w.items[TopNode]) \in Nat \ {0}
        /\ next = w.end[LastItem(w, TopNode)]
        /\ Len(dom) \in Nat /\ IsDom(dom)
    BY <1>1, <1>2, InsideStructure
  <1> DEFINE n == TopNode
             m == Len(w.items[n])
  <1>4. /\ TopNode' = n /\ OpenNodes' = OpenNodes /\ n = Last(ref_stack)
        /\ Hole' = IF array THEN NoHole ELSE object_element'
    BY <1>1, <1>3 DEF TopNode, OpenNodes, Hole
  <1>5. at \in Nat \ {0} /\ (~array => ValueAt(at) \in Nat)
    <2>1. WellFormed(Token(next))
      BY <1>3, TokenIs
    <2>2. at \in Nat \ {0}
      BY <1>1, <2>1 DEF WellFormed
    <2> HIDE DEF at
    <2> QED
      BY <1>1, <1>3, <2>2, KeyIs
  <1>6. /\ Scan(text, w.end[w.items[n][(m + 1) - 1]]) = Token(next) /\ m + 1 # 1
        /\ Place(text, w, n, m + 1) = Token(at)
    <2>1. (m + 1) - 1 = m /\ m + 1 # 1
      BY <1>3
    <2>2. Scan(text, w.end[w.items[n][(m + 1) - 1]]) = Token(next)
      BY <1>3, <2>1 DEF LastItem
    <2> QED
      BY <2>1, <2>2 DEF Place, After, Token
  <1>7. last_token' \in Tokens(text)
    BY <1>1, <1>5 DEF Tokens, Token
  <1>8. ItemBegins(text, array, w, n, m + 1, last_token')
    <2> HIDE DEF n, m, at
    <2> QED
      BY <1>1, <1>6, MemberIs DEF ItemBegins
  <1>9. ~array => object_element'[2] = Place(text, w, n, m + 1)[2]
    BY <1>1, <1>6 DEF Key
  <1>10. Stands(w)'
    BY <1>1, <1>3, <1>4, <1>7, <1>8, <1>9 DEF Stands
  <1>11. Drafted(text, dom', w, OpenNodes, Hole')
    <2>1. CASE array
      BY <1>1, <1>3, <1>4, <2>1
    <2>2. CASE ~array
      <3>1. PICK e : e = dom'
        OBVIOUS
      <3>2. PICK k : k = Token(at)[2]
        OBVIOUS
      <3>3. PICK p : p = n
        OBVIOUS
      <3>4. p \in 1 .. Len(dom) /\ p \in OpenNodes /\ dom[p][1] = "object"
        BY <1>3, <2>2, <3>3
      <3>5. /\ Len(e) = Len(dom) /\ e[p][1] = dom[p][1]
            /\ \A i \in 1 .. Len(dom) : i # p => e[i] = dom[i]
            /\ DOMAIN e[p][2] = DOMAIN dom[p][2] \cup {k}
            /\ \A x \in DOMAIN dom[p][2] : x # k => e[p][2][x] = dom[p][2][x]
            /\ object_element' = <<p, k>>
        <4>1. Key(dom, p, k)
          BY <1>1, <1>4, <2>2, <3>2, <3>3
        <4>2. IsDom(dom) /\ p \in 1 .. Len(dom)
          BY <1>3, <3>4
        <4> QED
          BY <3>1, <4>1, <4>2, KeyedNodes
      <3>6. Drafted(text, e, w, OpenNodes, <<p, k>>)
        BY <1>3, <3>4, <3>5, DraftKeyed
      <3> QED
        BY <1>4, <2>2, <3>1, <3>5, <3>6
    <2> QED
      BY <2>1, <2>2
  <1>12. Builds(w)'
    BY <1>1, <1>3, <1>4, <1>10, <1>11 DEF Builds
  <1> QED
    BY <1>12 DEF Building

LEMMA CloseKeepsBuilding ==
  ASSUME Stacks, Reading, Building, Close
  PROVE  Building'
  <1>1. /\ phase = "after" /\ phase' = "after" /\ states # <<>>
        /\ Token(next)[1] = (IF states[Len(states)] THEN "end_array" ELSE "end_object")
        /\ next' = Token(next)[3] /\ ref_stack' = Front(ref_stack) /\ UNCHANGED <<text, dom>>
    BY DEF Close, Inside, Leave
  <1>2. PICK w : Builds(w)
    BY <1>1 DEF Building
  <1>3. /\ text \in Bytes /\ next \in Nat \ {0} /\ Token(next) = Scan(text, next)
        /\ ref_stack # <<>> /\ Last(states) = states[Len(states)] /\ Last(states) \in BOOLEAN
        /\ Len(ref_stack) \in Nat \ {0} /\ TopNode = ref_stack[Len(ref_stack)]
        /\ TopNode \in 1 .. Len(dom) /\ TopNode \in OpenNodes
        /\ OpenNodes \in SUBSET (1 .. Len(dom)) /\ \A x \in OpenNodes : x <= TopNode
        /\ dom[TopNode][1] = (IF Last(states) THEN "array" ELSE "object")
        /\ Drafted(text, dom, w, OpenNodes, NoHole)
        /\ Chained(w, ref_stack) /\ w.first[1] = FirstToken(text)
        /\ Len(w.items[TopNode]) \in Nat \ {0} /\ w.items[TopNode] # <<>>
        /\ next = w.end[LastItem(w, TopNode)]
        /\ LastItem(w, TopNode) \in 1 .. Len(dom) /\ LastItem(w, TopNode) # TopNode
        /\ Len(dom) \in Nat
    BY <1>1, <1>2, InsideStructure
  <1>4. PICK top \in OpenNodes : top = TopNode /\ top \in 1 .. Len(dom) /\ \A x \in OpenNodes : x <= top
    BY <1>3
  <1>5. PICK j \in Nat : j = next'
    <2>1. WellFormed(Token(next))
      BY <1>3, TokenIs
    <2> QED
      BY <1>1, <2>1 DEF WellFormed
  <1>6. PICK v : v = [w EXCEPT !.end = [w.end EXCEPT ![top] = j]]
    OBVIOUS
  <1>7. /\ v.first = w.first /\ v.items = w.items /\ v.end[top] = j
        /\ \A n \in 1 .. Len(dom) : n # top => v.end[n] = w.end[n]
    <2>1. w \in Writing(text, dom)
      BY <1>3 DEF Drafted
    <2>2. w.end \in [1 .. Len(dom) -> Nat]
      BY <2>1 DEF Writing
    <2>3. v.first = w.first /\ v.items = w.items /\ v.end = [w.end EXCEPT ![top] = j]
      BY <1>6, <2>1 DEF Writing
    <2> QED
      BY <1>4, <2>2, <2>3
  <1>8. Closes(text, dom[top][1] = "array", v, top)
    <2>1. /\ v.items[top] # <<>>
          /\ v.end[v.items[top][Len(v.items[top])]] = next
      BY <1>3, <1>4, <1>7 DEF LastItem
    <2>2. (dom[top][1] = "array") = Last(states)
      BY <1>3, <1>4
    <2> QED
      BY <1>1, <1>3, <1>5, <1>7, <2>1, <2>2 DEF Closes
  <1>9. Drafted(text, dom, v, OpenNodes \ {top}, NoHole)
    BY <1>3, <1>4, <1>6, <1>8, DraftCloses
  <1> DEFINE m == Len(ref_stack)
             r == ref_stack
  <1>10. PICK q : q = Front(r)
    OBVIOUS
  <1>11. Len(q) = m - 1 /\ (\A i \in 1 .. m - 1 : q[i] = r[i]) /\ (q = <<>> <=> m = 1)
    <2>1. r \in Seq(Nat)
      BY <1>1 DEF Stacks
    <2> QED
      BY <1>3, <1>10, <2>1, FrontIs
  <1>12. /\ r[1] = 1
         /\ \A i \in 1 .. m : \A k \in i + 1 .. m : r[i] < r[k]
         /\ \A i \in 1 .. m - 1 : w.items[r[i]] # <<>> /\ LastItem(w, r[i]) = r[i + 1]
    BY <1>3 DEF Chained
  <1>13. \A i \in 1 .. m : r[i] \in 1 .. Len(dom)
    BY <1>1 DEF Stacks
  <1>14. /\ \A i \in 1 .. m - 1 : r[i] # top
         /\ top = r[m] /\ m \in Nat \ {0}
    <2>1. \A i \in 1 .. m - 1 : i \in 1 .. m /\ m \in i + 1 .. m
      BY <1>3
    <2>2. top = r[m]
      BY <1>3, <1>4
    <2>3. \A i \in 1 .. m - 1 : r[i] < r[m]
      BY <1>12, <2>1
    <2>4. m \in Nat \ {0} /\ r[m] \in Nat
      BY <1>3, <1>4, <2>2
    <2>5. r[m] # top \/ \A i \in 1 .. m - 1 : r[i] # top
      BY <2>3, <2>4
    <2> QED
      BY <2>2, <2>4, <2>5
  <1>15. Chained(v, q)
    <2>1. q # <<>> => q[1] = 1
      <3>1. SUFFICES ASSUME q # <<>> PROVE q[1] = 1
        OBVIOUS
      <3>2. m - 1 # 0
        BY <1>11, <1>14, <3>1
      <3>3. 1 \in 1 .. m - 1
        BY <1>14, <3>2
      <3> QED
        BY <1>11, <1>12, <3>3
    <2>2. \A i \in 1 .. Len(q) : \A k \in i + 1 .. Len(q) : q[i] < q[k]
      <3>1. \A i \in 1 .. m - 1 : /\ i \in 1 .. m
                                  /\ \A k \in i + 1 .. m - 1 : k \in i + 1 .. m /\ k \in 1 .. m - 1
        BY <1>14
      <3> QED
        BY <1>11, <1>12, <3>1
    <2>3. \A i \in 1 .. Len(q) - 1 : v.items[q[i]] # <<>> /\ LastItem(v, q[i]) = q[i + 1]
      <3>1. \A i \in 1 .. (m - 1) - 1 : i \in 1 .. m - 1 /\ i + 1 \in 1 .. m - 1
        BY <1>14
      <3> QED
        BY <1>7, <1>11, <1>12, <3>1 DEF LastItem
    <2> QED
      BY <2>1, <2>2, <2>3 DEF Chained
  <1>16. ref_stack' = q /\ OpenNodes' = OpenNodes \ {top} /\ Hole' = NoHole
    <2>1. ref_stack' = q /\ Hole' = NoHole
      BY <1>1, <1>10 DEF Hole
    <2>2. OpenNodes' = {r[k] : k \in 1 .. m - 1}
      BY <1>11, <2>1 DEF OpenNodes
    <2>3. 1 .. m = (1 .. m - 1) \cup {m}
      BY <1>14
    <2>4. OpenNodes = {r[k] : k \in 1 .. m - 1} \cup {top}
      BY <1>14, <2>3 DEF OpenNodes
    <2> QED
      BY <1>14, <2>1, <2>2, <2>4
  <1>17. q = <<>> => next' = v.end[1]
    <2>1. SUFFICES ASSUME q = <<>> PROVE next' = v.end[1]
      OBVIOUS
    <2>2. m = 1
      BY <1>11, <1>14, <2>1
    <2> QED
      BY <1>5, <1>7, <1>12, <1>14, <2>2
  <1>18. q # <<>> =>
           LET n == TopNode' IN v.items[n] # <<>> /\ next' = v.end[LastItem(v, n)]
    <2>1. SUFFICES ASSUME q # <<>>
                   PROVE  v.items[Last(q)] # <<>> /\ next' = v.end[LastItem(v, Last(q))]
      BY <1>16 DEF TopNode
    <2>2. m - 1 \in 1 .. m - 1 /\ (m - 1) + 1 = m
      BY <1>11, <1>14, <2>1
    <2>3. Last(q) = r[m - 1]
      BY <1>11, <2>2 DEF Last
    <2>4. w.items[r[m - 1]] # <<>> /\ LastItem(w, r[m - 1]) = top
      BY <1>12, <1>14, <2>2
    <2> QED
      BY <1>5, <1>7, <2>3, <2>4 DEF LastItem
  <1>19. Stands(v)'
    BY <1>1, <1>16, <1>17, <1>18 DEF Stands
  <1>20. Builds(v)'
    <2>1. Drafted(text', dom', v, OpenNodes', Hole')
      BY <1>1, <1>9, <1>16
    <2>2. v.first[1] = FirstToken(text') /\ Chained(v, ref_stack')
      BY <1>1, <1>3, <1>7, <1>15, <1>16
    <2> QED
      BY <1>19, <2>1, <2>2 DEF Builds
  <1> QED
    BY <1>20 DEF Building

LEMMA FinishKeepsBuilding ==
  ASSUME Stacks, Building, Finish
  PROVE  Building'
  <1>1. /\ phase = "after" /\ phase' = "done" /\ states = <<>>
        /\ UNCHANGED <<text, next, dom, ref_stack>>
    BY DEF Finish
  <1>2. PICK w : Builds(w)
    BY <1>1 DEF Building
  <1>3. ref_stack = <<>>
    BY <1>1 DEF Stacks
  <1>4. Builds(w)'
    BY <1>1, <1>2, <1>3 DEF Builds, Stands, Hole, OpenNodes
  <1> QED
    BY <1>4 DEF Building

LEMMA ParserKeepsBuilding ==
  ASSUME Stacks, Reading, Building, ParserNext
  PROVE  Building'
  <1>1. CASE ReadEmptyObject \/ ReadEmptyArray
    BY <1>1, ReadEmptyKeepsBuilding
  <1>2. CASE OpenObject
    BY <1>2, OpenObjectKeepsBuilding
  <1>3. CASE OpenArray
    BY <1>3, OpenArrayKeepsBuilding
  <1>4. CASE ReadScalar
    BY <1>4, ReadScalarKeepsBuilding
  <1>5. CASE NextElement \/ NextMember
    BY <1>5, NextItemKeepsBuilding
  <1>6. CASE Close
    BY <1>6, CloseKeepsBuilding
  <1>7. CASE Finish
    BY <1>7, FinishKeepsBuilding
  <1>8. CASE Throw
    BY <1>8 DEF Throw, Building
  <1> QED
    BY <1>1, <1>2, <1>3, <1>4, <1>5, <1>6, <1>7, <1>8 DEF ParserNext

LEMMA NextKeepsBuilding ==
  ASSUME Stacks, Reading, Building, [Next]_vars
  PROVE  Building'
  <1>1. CASE StartParse
    BY <1>1, StartParseKeepsBuilding
  <1>2. CASE ParserStep
    BY <1>2, ParserKeepsBuilding DEF ParserStep
  <1>3. CASE ReadAmounts
    <2>1. phase' = "idle"
      BY <1>3 DEF ReadAmounts
    <2> QED
      BY <2>1 DEF Building
  <1>4. CASE UNCHANGED parser
    BY <1>4 DEF parser, Building, Builds, Stands, Hole, OpenNodes, TopNode
  <1>5. CASE \/ ParseThrows \/ RefuseRest \/ InvalidParams \/ CallService \/ LackParameter
             \/ Load \/ LoadFails \/ UNCHANGED vars
    <2>1. UNCHANGED parser
      BY <1>5 DEF ParseThrows, RefuseRest, InvalidParams, CallService, LackParameter, Load, LoadFails,
                  Becomes, vars
    <2> QED
      BY <1>4, <2>1
  <1> QED
    BY <1>1, <1>2, <1>3, <1>5 DEF Next, Ended

(* What json_sax_dom_parser has made when sax_parse_internal returns: the  *)
(* value that the text begins with, node by node.  Strings, numbers and    *)
(* literals are those of their tokens; an array has its elements in their  *)
(* order; an object has for every name the last value with that name; and  *)
(* the lexer stands where the root ends.                                   *)
ValueIsAsWritten == phase = "done" => BeginsWith(text, dom, next)

LEMMA BuildingSuffices ==
  ASSUME Reading, Building
  PROVE  ValueIsAsWritten
  <1>1. SUFFICES ASSUME phase = "done"
                 PROVE  BeginsWith(text, dom, next)
    BY DEF ValueIsAsWritten
  <1>2. PICK w : Builds(w)
    BY <1>1 DEF Building
  <1>3. dom # <<>>
    BY <1>1 DEF Reading
  <1>4. /\ Drafted(text, dom, w, OpenNodes, Hole)
        /\ w.first[1] = FirstToken(text) /\ ref_stack = <<>> /\ w.end[1] = next
    BY <1>1, <1>2, <1>3 DEF Builds, Stands
  <1>5. \A n : n \notin OpenNodes
    BY <1>4 DEF OpenNodes
  <1>6. /\ w \in Writing(text, dom)
        /\ \A n \in 1 .. Len(dom) :
             /\ IsWritten(text, dom, w, n)
             /\ \A k \in 1 .. Len(w.items[n]) : w.items[n][k] > n
    BY <1>4, <1>5 DEF Drafted, NodeFits
  <1> QED
    BY <1>3, <1>4, <1>6 DEF BeginsWith

(* The builder keeps step with the loop, however deep the text is nested:  *)
(* no value goes to the wrong structure or under the wrong name.           *)
THEOREM ParserReadsWhatIsWritten == Spec => []ValueIsAsWritten
  <1>1. Init => Stacks /\ Reading /\ Building
    BY DEF Init, ParserInit, Stacks, Reading, Building
  <1>2. Stacks /\ Reading /\ Building /\ [Next]_vars => (Stacks /\ Reading /\ Building)'
    BY NextKeepsStacks, NextKeepsReading, NextKeepsBuilding
  <1>3. Reading /\ Building => ValueIsAsWritten
    BY BuildingSuffices
  <1> QED
    BY <1>1, <1>2, <1>3, PTL DEF Spec

-----------------------------------------------------------------------------
(* What becomes of the texts of a job.  The first of two files is read     *)
(* already when the parser gets the second one.                            *)
BeginsWithValue(i) == \E j \in Nat : ValueEnds(job.texts[i], j)
IsValueOf(d, i) == \E j : BeginsWith(job.texts[i], d, j)
Lacks == \E i \in DOMAIN Parameters : ~Has(dom, 1, Parameters[i])


(* What the operation is called with, and the tables of the ItemHolder.    *)
Arguments == [i \in DOMAIN Parameters |-> Member(dom, 1, Parameters[i])[2]]
HasTables ==
  \E undefined \in SizeT :
    /\ outcome[2] = Insert(parsed, <<Cost, CookingTime>>, undefined)
    /\ outcome[3] = Insert(dom, <<Amount>>, undefined)

(* The inductive invariant: why a job has the outcome that it has.         *)
Judged ==
  /\ parsed # <<>> => BeginsWithValue(1) /\ IsValueOf(parsed, 1)
  /\ phase # "idle" => text = job.texts[IF parsed = <<>> THEN 1 ELSE 2]
  /\ outcome[1] \in {"none", "called", "invalid", "thrown", "loaded"}
  /\ outcome[1] \in {"called", "invalid"} => phase = "done" /\ job.task # "load" /\ AtEnd
  /\ outcome[1] = "called" => outcome[2] = Arguments
  /\ outcome[1] = "loaded" => phase = "done" /\ parsed # <<>> /\ HasTables
  /\ outcome[1] = "thrown" =>
       \/ phase = "thrown"
       \/ phase = "done" /\ job.task # "load" /\ (~AtEnd \/ Lacks)
       \/ phase = "done" /\ parsed # <<>> /\ ~Acceptable

LEMMA ParserStepKeepsJudged ==
  ASSUME Judged, ParserStep
  PROVE  Judged'
  <1>1. /\ phase \in {"value", "after"} /\ phase' # "idle" /\ text' = text
        /\ UNCHANGED <<job, parsed, outcome>>
    BY DEF ParserStep, ParserNext, ReadEmptyObject, ReadEmptyArray, ReadEmpty, OpenObject, OpenArray, Open,
           ReadScalar, NextElement, NextMember, Close, Finish, Throw, Unexpected, Reads, Inside
  <1>2. outcome[1] = "none" /\ outcome'[1] = "none"
    BY <1>1 DEF Judged
  <1> QED
    BY <1>1, <1>2 DEF Judged, BeginsWithValue, IsValueOf

LEMMA NextKeepsJudged ==
  ASSUME Reading, Deriving, ValueIsAsWritten, Judged, [Next]_vars
  PROVE  Judged'
  <1>1. CASE StartParse
    <2>1. /\ phase = "idle" /\ phase' = "value" /\ UNCHANGED <<job, parsed, outcome>>
          /\ text' = job.texts[IF parsed = <<>> THEN 1 ELSE 2]
      BY <1>1 DEF StartParse, Parse
    <2>2. outcome'[1] = "none"
      BY <2>1 DEF Judged
    <2> QED
      BY <2>1, <2>2 DEF Judged, BeginsWithValue, IsValueOf
  <1>2. CASE ParserStep
    BY <1>2, ParserStepKeepsJudged
  <1>3. CASE ReadAmounts
    <2>1. /\ phase = "done" /\ job.task = "load" /\ parsed = <<>> /\ phase' = "idle"
          /\ UNCHANGED <<job, outcome>>
      BY <1>3 DEF ReadAmounts
    <2>2. outcome[1] = "none"
      BY <2>1 DEF Judged
    <2>3. BeginsWithValue(1)
      BY <2>1 DEF Judged, Deriving, BeginsWithValue
    <2>4. IsValueOf(dom, 1) /\ parsed' = dom
      BY <1>3, <2>1 DEF Judged, ReadAmounts, ValueIsAsWritten, IsValueOf
    <2> QED
      BY <2>1, <2>2, <2>3, <2>4 DEF Judged, BeginsWithValue, IsValueOf
  <1> DEFINE w == outcome'[1]
  <1>4. ASSUME UNCHANGED <<parser, job, parsed>>,
               w \in {"called", "invalid", "thrown", "loaded"},
               w \in {"called", "invalid"} => phase = "done" /\ job.task # "load" /\ AtEnd,
               w = "called" => outcome'[2] = Arguments,
               w = "loaded" => phase = "done" /\ parsed # <<>> /\ HasTables',
               w = "thrown" =>
                 \/ phase = "thrown"
                 \/ phase = "done" /\ job.task # "load" /\ (~AtEnd \/ Lacks)
                 \/ phase = "done" /\ parsed # <<>> /\ ~Acceptable
        PROVE  Judged'
    BY <1>4 DEF Judged, parser, BeginsWithValue, IsValueOf, AtEnd, Token, Lacks, Arguments,
                Parameters, Has, Member, Acceptable
  <1>5. CASE ParseThrows
    BY <1>4, <1>5 DEF ParseThrows, Becomes
  <1>6. CASE RefuseRest
    BY <1>4, <1>6 DEF RefuseRest, IsRead, Becomes
  <1>7. CASE InvalidParams
    BY <1>4, <1>7 DEF InvalidParams, IsRead, Becomes
  <1>8. CASE CallService
    BY <1>4, <1>8 DEF CallService, IsRead, Becomes, Arguments
  <1>9. CASE LackParameter
    BY <1>4, <1>9 DEF LackParameter, IsRead, Becomes, Lacks
  <1>10. CASE Load
    BY <1>4, <1>10 DEF Load, BothRead, Becomes, HasTables, parser
  <1>11. CASE LoadFails
    BY <1>4, <1>11 DEF LoadFails, BothRead, Becomes
  <1>12. CASE UNCHANGED vars
    BY <1>12 DEF vars, parser, Judged, BeginsWithValue, IsValueOf, AtEnd, Token, Lacks, Arguments,
                 HasTables, Parameters, Has, Member, Acceptable
  <1> QED
    BY <1>1, <1>2, <1>3, <1>5, <1>6, <1>7, <1>8, <1>9, <1>10, <1>11, <1>12 DEF Next, Ended

JobInv == Stacks /\ Reading /\ Deriving /\ Building /\ Judged

LEMMA InitJob == Init => JobInv
  BY DEF Init, ParserInit, JobInv, Stacks, Reading, Deriving, Building, Judged

LEMMA NextKeepsJob == JobInv /\ [Next]_vars => JobInv'
  <1> SUFFICES ASSUME JobInv, [Next]_vars
               PROVE  JobInv'
    OBVIOUS
  <1>1. Stacks /\ Reading /\ Deriving /\ Building /\ Judged
    BY DEF JobInv
  <1>2. ValueIsAsWritten
    BY <1>1, BuildingSuffices
  <1>3. Stacks' /\ Reading' /\ Deriving' /\ Building'
    BY <1>1, NextKeepsStacks, NextKeepsReading, NextKeepsDeriving, NextKeepsBuilding
  <1>4. Judged'
    BY <1>1, <1>2, NextKeepsJudged
  <1> QED
    BY <1>3, <1>4 DEF JobInv

(* Which texts the program takes.  An operation is called, or a parameter  *)
(* found invalid, only if the body is JSON; a body that is JSON makes the  *)
(* job throw only for want of a parameter; and the constructor of          *)
(* ItemHolder, whose operator>> asks for no end, throws on two files that  *)
(* begin with a value each only if these are not what it can read.         *)
JudgedByGrammar ==
  /\ outcome[1] \in {"called", "invalid"} => IsJson(job.texts[1])
  /\ outcome[1] = "loaded" => BeginsWithValue(1) /\ BeginsWithValue(2)
  /\ (outcome[1] = "thrown" /\ job.task # "load" /\ IsJson(job.texts[1])) => Lacks
  /\ (outcome[1] = "thrown" /\ job.task = "load" /\ BeginsWithValue(1) /\ BeginsWithValue(2)) =>
       ~Acceptable

(* Every throw of parse, of operator>> and of the operations is for a      *)
(* reason that the texts give, whatever they are.                          *)
THEOREM JobsAreJudgedByGrammar == Spec => []JudgedByGrammar
  <1>1. Init => JobInv
    BY InitJob
  <1>2. JobInv /\ [Next]_vars => JobInv'
    BY NextKeepsJob
  <1>3. ASSUME JobInv
        PROVE  JudgedByGrammar
    <2>0. Reading /\ Deriving /\ Judged
      BY <1>3 DEF JobInv
    <2>1. parsed # <<>> => job.task = "load"
      BY <2>0 DEF Reading
    <2>2. phase = "done" => next \in Nat /\ \A j \in Nat : ValueEnds(text, j) <=> j = next
      BY <2>0 DEF Deriving
    <2>3. outcome[1] \in {"called", "invalid"} => IsJson(job.texts[1])
      <3>1. SUFFICES ASSUME outcome[1] \in {"called", "invalid"}
                     PROVE  IsJson(job.texts[1])
        OBVIOUS
      <3>2. phase = "done" /\ AtEnd /\ text = job.texts[1]
        BY <2>0, <2>1, <3>1 DEF Judged
      <3> QED
        BY <2>2, <3>2 DEF IsJson, AtEnd, Token
    <2>4. outcome[1] = "loaded" => BeginsWithValue(1) /\ BeginsWithValue(2)
      <3>1. SUFFICES ASSUME outcome[1] = "loaded"
                     PROVE  BeginsWithValue(1) /\ BeginsWithValue(2)
        OBVIOUS
      <3>2. phase = "done" /\ BeginsWithValue(1) /\ text = job.texts[2]
        BY <2>0, <3>1 DEF Judged
      <3> QED
        BY <2>2, <3>2 DEF BeginsWithValue
    <2>5. (outcome[1] = "thrown" /\ job.task # "load" /\ IsJson(job.texts[1])) => Lacks
      <3>1. SUFFICES ASSUME outcome[1] = "thrown", job.task # "load", IsJson(job.texts[1])
                     PROVE  Lacks
        OBVIOUS
      <3>2. phase # "idle" /\ parsed = <<>>
        BY <2>0, <2>1, <3>1 DEF Judged
      <3>3. text = job.texts[1]
        BY <2>0, <3>2 DEF Judged
      <3>4. PICK j \in Nat : ValueEnds(text, j) /\ Scan(text, j)[1] = "end_of_input"
        BY <3>1, <3>3 DEF IsJson
      <3>5. phase = "done"
        BY <2>0, <3>1, <3>4 DEF Judged, Deriving
      <3>6. AtEnd
        BY <2>2, <3>4, <3>5 DEF AtEnd, Token
      <3> QED
        BY <2>0, <3>1, <3>2, <3>5, <3>6 DEF Judged
    <2>6. (outcome[1] = "thrown" /\ job.task = "load" /\ BeginsWithValue(1) /\ BeginsWithValue(2)) =>
            ~Acceptable
      <3>1. SUFFICES ASSUME outcome[1] = "thrown", job.task = "load", BeginsWithValue(1), BeginsWithValue(2)
                     PROVE  ~Acceptable
        OBVIOUS
      <3>2. phase # "idle" /\ text = job.texts[IF parsed = <<>> THEN 1 ELSE 2]
        BY <2>0, <3>1 DEF Judged
      <3>3. \E j \in Nat : ValueEnds(text, j)
        BY <3>1, <3>2 DEF BeginsWithValue
      <3> QED
        BY <2>0, <3>1, <3>3 DEF Judged, Deriving
    <2> QED
      BY <2>3, <2>4, <2>5, <2>6 DEF JudgedByGrammar
  <1> QED
    BY <1>1, <1>2, <1>3, PTL DEF Spec

(* What the program takes from the texts.  An operation gets the numbers   *)
(* that its body has under the names of its parameters; the ItemHolder has *)
(* the tables that Insert makes of the values that its two files begin     *)
(* with, and has not taken the one for the other (ItemHolder.cpp:24, 39).  *)
TakenAsWritten ==
  /\ outcome[1] = "called" => IsValueOf(dom, 1) /\ outcome[2] = Arguments
  /\ outcome[1] = "loaded" => IsValueOf(parsed, 1) /\ IsValueOf(dom, 2) /\ HasTables

(* From bytes to what the services and the data layer are given, no value  *)
(* is mixed up, for texts of any size.                                     *)
THEOREM JobsTakeWhatIsWritten == Spec => []TakenAsWritten
  <1>1. Init => JobInv
    BY InitJob
  <1>2. JobInv /\ [Next]_vars => JobInv'
    BY NextKeepsJob
  <1>3. ASSUME JobInv
        PROVE  TakenAsWritten
    <2>1. Reading /\ Judged /\ ValueIsAsWritten
      BY <1>3, BuildingSuffices DEF JobInv
    <2>2. outcome[1] = "called" => IsValueOf(dom, 1) /\ outcome[2] = Arguments
      BY <2>1 DEF Reading, Judged, ValueIsAsWritten, IsValueOf
    <2>3. outcome[1] = "loaded" => IsValueOf(parsed, 1) /\ IsValueOf(dom, 2) /\ HasTables
      BY <2>1 DEF Judged, ValueIsAsWritten, IsValueOf
    <2> QED
      BY <2>2, <2>3 DEF TakenAsWritten
  <1> QED
    BY <1>1, <1>2, <1>3, PTL DEF Spec
=============================================================================
