------------------------------ MODULE Documents ------------------------------
(***************************************************************************)
(* What the program does with JSON: handle_request reads the body of a     *)
(* POST or a DELETE, and the constructor of ItemHolder reads the files of  *)
(* the item descriptions and of the initial amounts.                       *)
(***************************************************************************)
EXTENDS JsonParser

CONSTANTS
  Jobs \* what is read: [task, texts], a body or the contents of both files

ASSUME DocumentsAssumption ==
  \A j \in Jobs : /\ j.texts \in Seq(Seq(0 .. 255))
                 /\ Len(j.texts) = IF j.task = "load" THEN 2 ELSE 1

Id == <<105, 100>>
Count == <<99, 111, 117, 110, 116>>
SessionId == <<115, 101, 115, 115, 105, 111, 110, 73, 100>>
OrderSum == <<111, 114, 100, 101, 114, 95, 115, 117, 109>>
Cost == <<99, 111, 115, 116>>
CookingTime == <<99, 111, 111, 107, 105, 110, 103, 95, 116, 105, 109, 101>>
Name == <<101, 110, 95, 110, 97, 109, 101>> \* locale + "_name", for "en"
PicUrl == <<112, 105, 99, 95, 117, 114, 108>>
Amount == <<97, 109, 111, 117, 110, 116>>

VARIABLES
  job,
  parsed, \* the value of the descriptions, once it is read
  outcome \* of the request, or of the constructor

vars == <<parser, job, parsed, outcome>>

Init ==
  /\ ParserInit
  /\ job \in Jobs
  /\ parsed = <<>>
  /\ outcome = <<"none">>

-----------------------------------------------------------------------------
(* Access to a value.  contains is false, and operator[] throws or inserts *)
(* a null, when the value is no object or has no such member.              *)
Has(d, n, k) == d[n][1] = "object" /\ k \in DOMAIN d[n][2]
Member(d, n, k) == d[d[n][2][k]]

SizeT == 0 .. Modulus - 1
IsNumber(node) == node[1] \in {"unsigned", "integer", "float"}

(* get<size_t> of a number: modulo 2^64, or without its fraction; a double *)
(* that is out of range becomes anything.                                  *)
GetSize(node, undefined) ==
  IF node[1] # "float" THEN node[2] % Modulus
  ELSE IF Truncated(node[2]) \in SizeT /\ (node[2][1] = Minus => Truncated(node[2]) = 0)
    THEN Truncated(node[2])
  ELSE undefined

-----------------------------------------------------------------------------
(* The body of a request.                                                  *)
Parameters ==
  IF job.task = "make_order" THEN <<OrderSum, SessionId>> ELSE <<Id, Count, SessionId>>

(* Slip: only the parameters of the target are checked, and must be there. *)
CheckParams_Required(d) ==
  \A i \in DOMAIN Parameters :
    Has(d, 1, Parameters[i]) /\ Member(d, 1, Parameters[i])[1] = "unsigned"

CheckParams(d) ==
  \A k \in {Id, Count, SessionId, OrderSum} :
    Has(d, 1, k) => Member(d, 1, k)[1] = "unsigned"

(* parse is strict: nothing may follow the value.                          *)
IsRead == phase = "done" /\ job.task # "load" /\ outcome = <<"none">>
AtEnd == Token(next)[1] = "end_of_input"

Becomes(result) == outcome' = result /\ UNCHANGED <<parser, job, parsed>>

RefuseRest == IsRead /\ ~AtEnd /\ Becomes(<<"thrown">>)

InvalidParams == IsRead /\ AtEnd /\ ~CheckParams(dom) /\ Becomes(<<"invalid">>)

CallService ==
  /\ IsRead /\ AtEnd /\ CheckParams(dom)
  /\ \A i \in DOMAIN Parameters : Has(dom, 1, Parameters[i])
  /\ Becomes(<<"called", [i \in DOMAIN Parameters |-> Member(dom, 1, Parameters[i])[2]]>>)

(* get<size_t> of the null that operator[] has inserted, or operator[] of  *)
(* what is neither an object nor null.                                     *)
LackParameter ==
  /\ IsRead /\ AtEnd /\ CheckParams(dom)
  /\ \E i \in DOMAIN Parameters : ~Has(dom, 1, Parameters[i])
  /\ Becomes(<<"thrown">>)

-----------------------------------------------------------------------------
(* The files of an ItemHolder.  The order of keys in an object is that of  *)
(* std::map; a loop over a value that is no structure visits the value.    *)
Before(a, b) ==
  LET same == {n \in 0 .. Len(a) : n <= Len(b) /\ SubSeq(a, 1, n) = SubSeq(b, 1, n)}
  IN Max(same) < Len(b) /\ (Max(same) = Len(a) \/ a[Max(same) + 1] < b[Max(same) + 1])

Keys(members) ==
  LET names == DOMAIN members
  IN [i \in 1 .. Cardinality(names) |->
        CHOOSE k \in names : Cardinality({j \in names : Before(j, k)}) = i - 1]

Entries(d) ==
  LET root == d[1]
  IN CASE root[1] = "array" -> root[2]
       [] root[1] = "object" -> [i \in DOMAIN Keys(root[2]) |-> root[2][Keys(root[2])[i]]]
       [] root[1] = "null" -> <<>>
       [] OTHER -> <<1>>

(* Every entry is an object, for operator[] would throw, has the members,  *)
(* for an assertion of json.hpp would fail, and they convert.              *)
Readable(d, numbers, strings) ==
  \A i \in DOMAIN Entries(d) :
    /\ \A k \in numbers : Has(d, Entries(d)[i], k) /\ IsNumber(Member(d, Entries(d)[i], k))
    /\ \A k \in strings : Has(d, Entries(d)[i], k) /\ Member(d, Entries(d)[i], k)[1] = "string"

(* Slip: an entry takes the place of an earlier one with its id.           *)
Insert_Replaces(d, fields, undefined) ==
  LET size(i, k) == GetSize(Member(d, Entries(d)[i], k), undefined)
      ids == {size(i, Id) : i \in DOMAIN Entries(d)}
      last(x) == Max({i \in DOMAIN Entries(d) : size(i, Id) = x})
  IN [x \in ids |-> [f \in DOMAIN fields |-> size(last(x), fields[f])]]

(* The map that the loop fills: insert leaves an id that is there alone.   *)
Insert(d, fields, undefined) ==
  LET size(i, k) == GetSize(Member(d, Entries(d)[i], k), undefined)
      ids == {size(i, Id) : i \in DOMAIN Entries(d)}
      first(x) == Min({i \in DOMAIN Entries(d) : size(i, Id) = x})
  IN [x \in ids |-> [f \in DOMAIN fields |-> size(first(x), fields[f])]]

Join(parts) ==
  FlattenSeq([i \in DOMAIN parts |-> IF i = 1 THEN parts[i] ELSE <<44>> \o parts[i]])

(* dump.  A double is written as the numeral that stands for it.           *)
Dump(d) ==
  LET dumped[n \in DOMAIN d] ==
        LET type == d[n][1]
            value == d[n][2]
            keys == Keys(value)
            member(k) == DumpString(k) \o <<58>> \o dumped[value[k]]
        IN CASE type = "object" ->
                  <<123>> \o Join([i \in DOMAIN keys |-> member(keys[i])]) \o <<125>>
             [] type = "array" ->
                  <<91>> \o Join([i \in DOMAIN value |-> dumped[value[i]]]) \o <<93>>
             [] type = "string" -> DumpString(value)
             [] type \in {"unsigned", "integer"} -> DumpInteger(value)
             [] type = "float" -> value
             [] OTHER -> CHOOSE word \in {Literals[w] : w \in {x \in DOMAIN Literals : Scalars[x] = type}} : TRUE
  IN dumped[1]

(* The nodes of a value, without those that a later member took over from. *)
Nodes(d) ==
  LET below[n \in DOMAIN d] ==
        {n} \cup (IF d[n][1] \in {"array", "object"}
                   THEN UNION {below[d[n][2][k]] : k \in DOMAIN d[n][2]}
                   ELSE {})
  IN below[1]

(* No string of the value makes dump throw.                                *)
CanDump(d) ==
  \A n \in Nodes(d) :
    /\ d[n][1] = "string" => Dumpable(d[n][2])
    /\ d[n][1] = "object" => \A k \in DOMAIN d[n][2] : Dumpable(k)

ReadAmounts ==
  /\ phase = "done" /\ job.task = "load" /\ parsed = <<>>
  /\ parsed' = dom /\ phase' = "idle"
  /\ UNCHANGED <<text, next, last_token, states, dom, ref_stack, object_element, job, outcome>>

BothRead == phase = "done" /\ job.task = "load" /\ parsed # <<>> /\ outcome = <<"none">>

Acceptable ==
  /\ Readable(parsed, {Id, Cost, CookingTime}, {Name, PicUrl})
  /\ Readable(dom, {Id, Amount}, {})
  /\ CanDump(parsed)

Load ==
  /\ BothRead /\ Acceptable
  /\ \E undefined \in SizeT :
       Becomes(<<"loaded", Insert(parsed, <<Cost, CookingTime>>, undefined),
                 Insert(dom, <<Amount>>, undefined), Dump(parsed)>>)

LoadFails == BothRead /\ ~Acceptable /\ Becomes(<<"thrown">>)

-----------------------------------------------------------------------------
(* A text that the job reads next.                                         *)
StartParse ==
  /\ Parse(job.texts[IF parsed = <<>> THEN 1 ELSE 2])
  /\ UNCHANGED <<job, parsed, outcome>>

ParserStep == ParserNext /\ UNCHANGED <<job, parsed, outcome>>

(* parse and operator>> pass the exception on.                             *)
ParseThrows == phase = "thrown" /\ outcome = <<"none">> /\ Becomes(<<"thrown">>)

(* Nothing is left to do; every other state has a next step.               *)
Ended == outcome # <<"none">> /\ UNCHANGED vars

Next ==
  \/ StartParse \/ ParserStep \/ ParseThrows
  \/ RefuseRest \/ InvalidParams \/ CallService \/ LackParameter
  \/ ReadAmounts \/ Load \/ LoadFails
  \/ Ended

Spec == Init /\ [][Next]_vars
=============================================================================
