----------------------------- MODULE JsonGrammar -----------------------------
(***************************************************************************)
(* The grammar of RFC 8259, sections 2 to 5, over the tokens of a text: it *)
(* says which texts are JSON, and where a value in them ends, and nothing  *)
(* of a loop or a stack.                                                   *)
(*                                                                         *)
(* A fact <<symbol, t, j>> says that the tokens from t on, up to where the *)
(* scan goes on at j, are a value; or the items of an array, or of an      *)
(* object, from the one on whose value begins with t, and the bracket that *)
(* closes it.                                                              *)
(***************************************************************************)
EXTENDS JsonText

After(s, t) == Scan(s, t[3])

(* The value of a member whose name is the token t.                         *)
Named(s, t) == t[1] = "value_string" /\ After(s, t)[1] = "name_separator"
MemberValue(s, t) == After(s, After(s, t))

IsScalar(t) ==
  \/ t[1] \in {"value_string", "value_unsigned", "value_integer",
               "literal_null", "literal_true", "literal_false"}
  \/ t[1] = "value_float" /\ IsFinite(t[2])

Tokens(s) == {Scan(s, i) : i \in Nat} \cup {FirstToken(s)}
Facts(s) == {"value", "array", "object"} \X Tokens(s) \X Nat

(* value = scalar / [ ] / { } / [ items ] / { members }                    *)
IsValue(R, s, t, j) ==
  \/ IsScalar(t) /\ j = t[3]
  \/ /\ t[1] = "begin_array" /\ After(s, t)[1] = "end_array"
     /\ j = After(s, t)[3]
  \/ /\ t[1] = "begin_object" /\ After(s, t)[1] = "end_object"
     /\ j = After(s, t)[3]
  \/ t[1] = "begin_array" /\ <<"array", After(s, t), j>> \in R
  \/ /\ t[1] = "begin_object" /\ Named(s, After(s, t))
     /\ <<"object", MemberValue(s, After(s, t)), j>> \in R

(* items = value ] / value , items                                         *)
AreElements(R, s, t, j) ==
  \E m \in Nat : LET u == Scan(s, m) IN
    /\ <<"value", t, m>> \in R
    /\ \/ u[1] = "end_array" /\ j = u[3]
       \/ u[1] = "value_separator" /\ <<"array", After(s, u), j>> \in R

(* members = value } / value , name : members                              *)
AreMembers(R, s, t, j) ==
  \E m \in Nat : LET u == Scan(s, m) IN
    /\ <<"value", t, m>> \in R
    /\ \/ u[1] = "end_object" /\ j = u[3]
       \/ /\ u[1] = "value_separator" /\ Named(s, After(s, u))
          /\ <<"object", MemberValue(s, After(s, u)), j>> \in R

Follows(R, s, x) ==
  \/ x[1] = "value" /\ IsValue(R, s, x[2], x[3])
  \/ x[1] = "array" /\ AreElements(R, s, x[2], x[3])
  \/ x[1] = "object" /\ AreMembers(R, s, x[2], x[3])

(* What the rules lead to: all that is in every set that they do not lead  *)
(* out of.                                                                 *)
ClosedUnder(R, s) == \A x \in Facts(s) : Follows(R, s, x) => x \in R
Derivable(s) ==
  {x \in Facts(s) : \A R \in SUBSET Facts(s) : ClosedUnder(R, s) => x \in R}

(* The value that a text begins with ends at j; and a text that is JSON    *)
(* goes on with nothing.                                                   *)
ValueEnds(s, j) == <<"value", FirstToken(s), j>> \in Derivable(s)
IsJson(s) == \E j \in Nat : ValueEnds(s, j) /\ Scan(s, j)[1] = "end_of_input"

-----------------------------------------------------------------------------
(* A value as nodes, like that of the builder, and how it is written: node *)
(* n begins with the token w.first[n], ends where the scan goes on at      *)
(* w.end[n], and is a structure of the items w.items[n], in this order.    *)
Kind ==
  [value_string |-> "string", value_unsigned |-> "unsigned",
   value_integer |-> "integer", value_float |-> "float",
   literal_null |-> "null", literal_true |-> "true", literal_false |-> "false"]

(* The first token of item k: after the bracket, or the comma before it.   *)
Place(s, w, n, k) ==
  After(s, IF k = 1 THEN w.first[n] ELSE Scan(s, w.end[w.items[n][k - 1]]))

(* The value of item k begins with the token u.                            *)
ItemBegins(s, array, w, n, k, u) ==
  /\ k # 1 => Scan(s, w.end[w.items[n][k - 1]])[1] = "value_separator"
  /\ IF array THEN u = Place(s, w, n, k)
     ELSE Named(s, Place(s, w, n, k)) /\ u = MemberValue(s, Place(s, w, n, k))

(* A table of the items by name, of which the last one with a name counts, *)
(* save that it may have anything under the names of but.                  *)
Lists(s, members, w, n, but) ==
  LET item == w.items[n]
      name(k) == Place(s, w, n, k)[2]
  IN
  /\ DOMAIN members = {name(k) : k \in 1 .. Len(item)} \cup but
  /\ \A k \in 1 .. Len(item) :
       name(k) \notin but /\ (\A i \in k + 1 .. Len(item) : name(i) # name(k))
         => members[name(k)] = item[k]

Arranged(s, d, w, n, but) ==
  /\ \/ /\ d[n][1] = "array" /\ w.first[n][1] = "begin_array"
        /\ d[n][2] = w.items[n]
     \/ /\ d[n][1] = "object" /\ w.first[n][1] = "begin_object"
        /\ Lists(s, d[n][2], w, n, but)
  /\ \A k \in 1 .. Len(w.items[n]) :
       ItemBegins(s, d[n][1] = "array", w, n, k, w.first[w.items[n][k]])

Closes(s, array, w, n) ==
  LET item == w.items[n]
      u == Scan(s, IF item = <<>> THEN w.first[n][3] ELSE w.end[item[Len(item)]])
  IN u[1] = (IF array THEN "end_array" ELSE "end_object") /\ w.end[n] = u[3]

IsWritten(s, d, w, n) ==
  \/ /\ IsScalar(w.first[n]) /\ w.items[n] = <<>>
     /\ d[n] = <<Kind[w.first[n][1]], w.first[n][2]>> /\ w.end[n] = w.first[n][3]
  \/ Arranged(s, d, w, n, {}) /\ Closes(s, d[n][1] = "array", w, n)

(* The nodes d are the value that the text begins with, up to j.           *)
Writing(s, d) ==
  [first : [1 .. Len(d) -> Tokens(s)], end : [1 .. Len(d) -> Nat],
   items : [1 .. Len(d) -> Seq(1 .. Len(d))]]
BeginsWith(s, d, j) ==
  \E w \in Writing(s, d) :
    /\ d # <<>> /\ w.first[1] = FirstToken(s) /\ w.end[1] = j
    /\ \A n \in 1 .. Len(d) :
         /\ IsWritten(s, d, w, n)
         /\ \A k \in 1 .. Len(w.items[n]) : w.items[n][k] > n
=============================================================================
