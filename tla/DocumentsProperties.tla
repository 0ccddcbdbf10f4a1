------------------------- MODULE DocumentsProperties -------------------------
(***************************************************************************)
(* What the documents mean, by RFC 8259 and RFC 3629, and what the program *)
(* is to make of them.  The grammar is written as in the RFC, as the set   *)
(* of pairs <<value, position>> such that the bytes from i up to that      *)
(* position spell the value; strings are sequences of code points here.    *)
(***************************************************************************)
EXTENDS Documents

(* A byte sequence that is the UTF-8 of one code point, and this.          *)
Lead == <<0, 192, 224, 240>>
Least == <<0, 128, 2048, 65536>>
Greatest == <<127, 2047, 65535, 1114111>>

CodePoint(b) == FoldLeft(LAMBDA c, t : c * 64 + t - 128, b[1] - Lead[Len(b)], Tail(b))

IsUtf8(b) ==
  /\ b[1] >= Lead[Len(b)]
  /\ \A k \in 2 .. Len(b) : b[k] \in 128 .. 191
  /\ Least[Len(b)] <= CodePoint(b) /\ CodePoint(b) <= Greatest[Len(b)]
  /\ CodePoint(b) \notin 55296 .. 57343

RECURSIVE CodePoints(_)
CodePoints(b) ==
  LET n == {k \in 1 .. 4 : k <= Len(b) /\ IsUtf8(SubSeq(b, 1, k))}
  IN IF b = <<>> THEN <<>>
     ELSE IF n = {} THEN <<-1>>
     ELSE <<CodePoint(SubSeq(b, 1, Min(n)))>> \o CodePoints(SubSeq(b, Min(n) + 1, Len(b)))

-----------------------------------------------------------------------------
(* RFC 8259, section 7: one character of a string.                         *)
Unit(s, i) ==
  LET value(c) == IF c <= 57 THEN c - 48 ELSE (c % 32) + 9
      digits == Slice(s, i + 2, i + 5)
  IN IF /\ Slice(s, i, i + 1) = <<92, 117>> /\ Len(digits) = 4
        /\ \A k \in 1 .. 4 : digits[k] \in (48 .. 57) \cup (65 .. 70) \cup (97 .. 102)
       THEN {FoldLeft(LAMBDA n, c : n * 16 + value(c), 0, digits)} ELSE {}

Surrogates == 55296 .. 57343
Short == 34 :> 34 @@ 92 :> 92 @@ 47 :> 47 @@ 98 :> 8 @@ 102 :> 12 @@ 110 :> 10 @@ 114 :> 13 @@ 116 :> 9

Chars(s, i) ==
  LET plain == {j \in i + 1 .. i + 4 : j <= Len(s) + 1 /\ IsUtf8(SubSeq(s, i, j - 1))}
      pairs == {p \in Unit(s, i) \X Unit(s, i + 6) : p[1] \in 55296 .. 56319 /\ p[2] \in 56320 .. 57343}
  IN {<<CodePoint(SubSeq(s, i, j - 1)), j>> :
         j \in {j \in plain : s[i] >= 32 /\ s[i] \notin {34, 92}}}
     \cup {<<Short[c], i + 2>> : c \in {c \in DOMAIN Short : Slice(s, i, i + 1) = <<92, c>>}}
     \cup {<<c, i + 6>> : c \in Unit(s, i) \ Surrogates}
     \cup {<<65536 + (p[1] - 55296) * 1024 + p[2] - 56320, i + 12>> : p \in pairs}

RECURSIVE RestOfString(_, _)
RestOfString(s, i) ==
  IF i > Len(s) THEN {}
  ELSE IF s[i] = 34 THEN {<<<<>>, i + 1>>}
  ELSE UNION {{<<<<c[1]>> \o r[1], r[2]>> : r \in RestOfString(s, c[2])} : c \in Chars(s, i)}

Strings(s, i) == IF i <= Len(s) /\ s[i] = 34 THEN RestOfString(s, i + 1) ELSE {}

(* Section 6: a numeral is [minus] int [frac] [exp].                       *)
IsDigits(t) == t # <<>> /\ \A k \in DOMAIN t : t[k] \in 48 .. 57
IsInt(t) == IsDigits(t) /\ (t[1] = 48 => Len(t) = 1)
IsFrac(t) == t = <<>> \/ (t[1] = 46 /\ IsDigits(Tail(t)))
IsExp(t) ==
  \/ t = <<>>
  \/ t[1] \in {69, 101} /\ (IsDigits(Tail(t)) \/ (Len(t) > 1 /\ t[2] \in {43, 45} /\ IsDigits(SubSeq(t, 3, Len(t)))))

NumberOf(t) ==
  LET negative == t # <<>> /\ t[1] = 45
      u == IF negative THEN Tail(t) ELSE t
      splits == {<<i, j>> \in (1 .. Len(u)) \X (1 .. Len(u)) :
                   /\ i <= j
                   /\ IsInt(SubSeq(u, 1, i)) /\ IsFrac(SubSeq(u, i + 1, j)) /\ IsExp(SubSeq(u, j + 1, Len(u)))}
  IN IF splits = {} THEN {}
     ELSE IF IsInt(u) /\ ~negative /\ Decimal(u) < Modulus THEN {<<"unsigned", Decimal(u)>>}
     ELSE IF IsInt(u) /\ negative /\ 2 * Decimal(u) <= Modulus THEN {<<"integer", -Decimal(u)>>}
     ELSE IF IsFinite(t) THEN {<<"float", t>>} ELSE {}

NumeralBytes == (48 .. 57) \cup {43, 45, 46, 69, 101}

Numbers(s, i) ==
  LET run == {j \in i .. Len(s) : \A k \in i .. j : s[k] \in NumeralBytes}
  IN UNION {{<<v, j + 1>> : v \in NumberOf(SubSeq(s, i, j))} : j \in run}

Words(s, i) ==
  {<<<<w, <<>>>>, i + Len(Spelling)>> : <<w, Spelling>> \in
      {p \in {<<"true", <<116, 114, 117, 101>>>>, <<"null", <<110, 117, 108, 108>>>>,
              <<"false", <<102, 97, 108, 115, 101>>>>} : Slice(s, i, i + Len(p[2]) - 1) = p[2]}}

-----------------------------------------------------------------------------
(* Sections 2 to 5.  Of members with the same name the last one counts.    *)
Ws(s, i) == {j \in i .. Len(s) + 1 : \A k \in i .. j - 1 : s[k] \in {9, 10, 13, 32}}
Is(s, i, c) == i <= Len(s) /\ s[i] = c

ObjectOf(members) ==
  [k \in {members[i][1] : i \in DOMAIN members} |->
     members[Max({i \in DOMAIN members : members[i][1] = k})][2]]

RECURSIVE Values(_, _), Items(_, _, _)
Padded(s, i) ==
  UNION {UNION {{<<v[1], k>> : k \in Ws(s, v[2])} : v \in Values(s, j)} : j \in Ws(s, i)}

(* A member: ws string ws : ws value ws.                                   *)
MembersAt(s, i) ==
  LET names == UNION {UNION {{<<n[1], k + 1>> : k \in {k \in Ws(s, n[2]) : Is(s, k, 58)}}
                                : n \in Strings(s, j)} : j \in Ws(s, i)}
  IN UNION {{<<<<n[1], v[1]>>, v[2]>> : v \in Padded(s, n[2])} : n \in names}

(* One item or more, with commas between them: values, or members.         *)
Items(s, i, named) ==
  LET one == IF named THEN MembersAt(s, i) ELSE Padded(s, i)
  IN {<<<<x[1]>>, x[2]>> : x \in one}
     \cup UNION {{<<<<x[1]>> \o r[1], r[2]>> : r \in Items(s, x[2] + 1, named)}
                   : x \in {x \in one : Is(s, x[2], 44)}}

Values(s, i) ==
  LET closed(items, c) == {<<x[1], x[2] + 1>> : x \in {x \in items : Is(s, x[2], c)}}
      empty == {<<<<>>, j>> : j \in Ws(s, i + 1)}
  IN Words(s, i) \cup Numbers(s, i)
     \cup {<<<<"string", x[1]>>, x[2]>> : x \in Strings(s, i)}
     \cup (IF ~Is(s, i, 91) THEN {}
           ELSE {<<<<"array", x[1]>>, x[2]>> : x \in closed(empty \cup Items(s, i + 1, FALSE), 93)})
     \cup (IF ~Is(s, i, 123) THEN {}
           ELSE {<<<<"object", ObjectOf(x[1])>>, x[2]>> : x \in closed(empty \cup Items(s, i + 1, TRUE), 125)})

(* The one value that a text spells, or none.                              *)
Denotes(s) == {p[1] : p \in {p \in Padded(s, 1) : p[2] = Len(s) + 1}}

(* A byte order mark is no part of the JSON, and a NUL ends it.            *)
Significant(t) ==
  LET u == IF Slice(t, 1, 3) = ByteOrderMark THEN SubSeq(t, 4, Len(t)) ELSE t
      nul == {k \in DOMAIN u : u[k] = 0}
  IN IF nul = {} THEN u ELSE SubSeq(u, 1, Min(nul) - 1)

(* The value that nodes hold, in the same form.                            *)
Meaning(d) ==
  LET value[n \in DOMAIN d] ==
        LET type == d[n][1]
            content == d[n][2]
        IN CASE type = "array" -> <<"array", [i \in DOMAIN content |-> value[content[i]]]>>
             [] type = "object" ->
                  <<"object", [k \in {CodePoints(c) : c \in DOMAIN content} |->
                                 value[content[CHOOSE c \in DOMAIN content : CodePoints(c) = k]]]>>
             [] type = "string" -> <<"string", CodePoints(content)>>
             [] OTHER -> <<type, content>>
  IN value[1]

-----------------------------------------------------------------------------
(* What the parser reads is what RFC 8259 says that the text spells; and   *)
(* it throws at every other text.  Where the value is not followed by the  *)
(* end, it is spelled by what precedes: so operator>> reads it.            *)
ReadsJson ==
  LET strict == phase = "done" /\ AtEnd
  IN /\ phase \in {"done", "thrown"} =>
          Denotes(Significant(text)) = IF strict THEN {Meaning(dom)} ELSE {}
     /\ phase = "done" =>
          Meaning(dom) \in {p[1] : p \in Padded(Significant(text), 1)}

(* The automaton of the serializer accepts every string that the lexer     *)
(* does, so that dump never throws, and whoever parses what it writes gets *)
(* the value that was read, if no double is in it, whose digits are not    *)
(* modelled.  The clients get the item descriptions so.                    *)
DumpReadsBack ==
  LET positive(v) == IF v = <<"integer", 0>> THEN <<"unsigned", 0>> ELSE v
      RECURSIVE Plain(_)
      Plain(v) ==
        IF v[1] \in {"array", "object"} THEN <<v[1], [k \in DOMAIN v[2] |-> Plain(v[2][k])]>>
        ELSE IF v[1] = "integer" THEN positive(v) ELSE v
      doubles == \E n \in Nodes(dom) : dom[n][1] = "float"
  IN phase = "done" =>
       CanDump(dom) /\ (doubles \/ Denotes(Dump(dom)) = {Plain(Meaning(dom))})

(* An operation is called if and only if the body spells an object that    *)
(* has its parameters, and then with the numbers that stand there; a body  *)
(* is refused as invalid if and only if one of the four parameters, needed *)
(* or not, is something else than a natural number below 2^64 that is      *)
(* written without fraction, exponent and sign (RequestHandler.h:121).     *)
BodyServedAsMeant ==
  job.task # "load" /\ outcome # <<"none">> =>
    LET objects == {v \in Denotes(Significant(job.texts[1])) : v[1] = "object"}
        numbers == {k \in {Id, Count, SessionId, OrderSum} :
                      \A v \in objects : k \in DOMAIN v[2] => v[2][k][1] = "unsigned"}
        mistyped == objects # {} /\ numbers # {Id, Count, SessionId, OrderSum}
        complete == \E v \in objects : \A i \in DOMAIN Parameters : Parameters[i] \in DOMAIN v[2]
    IN /\ (outcome[1] = "invalid") <=> mistyped
       /\ (outcome[1] = "called") <=> (complete /\ ~mistyped)
       /\ outcome[1] = "called" =>
            \A v \in objects : \A i \in DOMAIN Parameters : outcome[2][i] = v[2][Parameters[i]][2]

(* The size_t that a double is just above of, or is; any, if there is none.*)
SizesOfDouble(t) ==
  LET n == Decimal(Scientific(t)[1])
      e == Scientific(t)[2]
      k == IF e < 0 THEN 10 ^ (- e) ELSE 1
      floor == (IF e < 0 THEN n ELSE n * 10 ^ e) \div k
  IN IF floor \notin SizeT \/ (t[1] = Minus /\ floor # 0) THEN SizeT ELSE {floor}

(* What get<size_t> may make of a number.                                  *)
SizesOf(v) ==
  CASE v[1] = "unsigned" -> {v[2]}
    [] v[1] = "integer"  -> {v[2] % Modulus}
    [] v[1] = "float"    -> SizesOfDouble(v[2])

(* The constructor of ItemHolder succeeds on every two files that list     *)
(* complete entries with natural numbers, and on no list that has an entry *)
(* that lacks a member it reads or has another thing there than a number   *)
(* or a string.  What it keeps is what the files say: for every id the     *)
(* entry that comes first, also when others have the same id, and no id    *)
(* that no entry has (ItemHolder.cpp:24, 39); a negative number is taken   *)
(* modulo 2^64, and of a double what is before its point.                  *)
LoadedAsWritten ==
  LET lists(t) == {v \in Denotes(Significant(t)) : v[1] = "array"}
      numeric(v) == v[1] \in {"unsigned", "integer", "float"}
      named(t, numbers, strings) ==
        \A v \in lists(t) : \A i \in DOMAIN v[2] :
          /\ v[2][i][1] = "object"
          /\ numbers \cup strings \subseteq DOMAIN v[2][i][2]
          /\ \A k \in numbers : numeric(v[2][i][2][k])
          /\ \A k \in strings : v[2][i][2][k][1] = "string"
      keeps(map, t, fields) ==
        \A v \in lists(t) :
          LET entry(i) == v[2][i][2]
              ids(i) == SizesOf(entry(i)[Id])
          IN (\A i \in DOMAIN v[2] : Cardinality(ids(i)) = 1) =>
               /\ DOMAIN map = UNION {ids(i) : i \in DOMAIN v[2]}
               /\ \A i \in DOMAIN v[2] : \A x \in ids(i) :
                    \/ \E j \in 1 .. i - 1 : x \in ids(j)
                    \/ \A f \in DOMAIN fields :
                         map[x][f] \in SizesOf(entry(i)[fields[f]])
      complete(t, numbers, strings) ==
        \E v \in lists(t) : \A i \in DOMAIN v[2] :
          /\ v[2][i][1] = "object"
          /\ numbers \cup strings \subseteq DOMAIN v[2][i][2]
          /\ \A k \in numbers : v[2][i][2][k][1] = "unsigned"
          /\ \A k \in strings : v[2][i][2][k][1] = "string"
  IN job.task = "load" =>
       /\ outcome[1] = "loaded" => /\ named(job.texts[1], {Id, Cost, CookingTime}, {Name, PicUrl})
                                   /\ named(job.texts[2], {Id, Amount}, {})
                                   /\ keeps(outcome[2], job.texts[1], <<Cost, CookingTime>>)
                                   /\ keeps(outcome[3], job.texts[2], <<Amount>>)
       /\ outcome[1] = "thrown" => ~(/\ complete(job.texts[1], {Id, Cost, CookingTime}, {Name, PicUrl})
                                     /\ complete(job.texts[2], {Id, Amount}, {}))
=============================================================================
