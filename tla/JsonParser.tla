----------------------------- MODULE JsonParser -----------------------------
(***************************************************************************)
(* The parser of DataLayer/json.hpp and the builder of the value it reads. *)
(* sax_parse_internal is a loop that knows where it is from a stack of     *)
(* BOOLEANs; json_sax_dom_parser keeps a stack of pointers into the value  *)
(* and one pointer to the member whose value is read next.  Nothing but    *)
(* the order of the events keeps the two stacks in step.                   *)
(*                                                                         *)
(* The value is a sequence of nodes, of which the first is the root; an    *)
(* array is a sequence of indices into it and an object a function from    *)
(* keys to them, in which 0 is the null that a new key has.                *)
(***************************************************************************)
EXTENDS JsonText

VARIABLES
  text,           \* the input
  next,           \* where the lexer goes on
  last_token,
  states,         \* for every structure that is open, whether it is an array
  dom,            \* the value, as far as it is read
  ref_stack,      \* the nodes that are open
  object_element, \* <<node, key>> of the member that is read next
  phase           \* idle, at the top of the loop ("value"), past a value
                  \* ("after"), done or thrown

parser == <<text, next, last_token, states, dom, ref_stack, object_element, phase>>

ParserInit ==
  /\ text = <<>> /\ next = 1 /\ last_token = <<"uninitialized", <<>>, 1>>
  /\ states = <<>> /\ dom = <<>> /\ ref_stack = <<>>
  /\ object_element = <<0, <<>>>> /\ phase = "idle"

(* A parser is made for a text, and gets the first token.                  *)
Parse(t) ==
  /\ phase = "idle" /\ phase' = "value"
  /\ text' = t
  /\ last_token' = FirstToken(t) /\ next' = FirstToken(t)[3]
  /\ states' = <<>> /\ dom' = <<>> /\ ref_stack' = <<>>
  /\ object_element' = <<0, <<>>>>

-----------------------------------------------------------------------------
(* The builder.                                                            *)
Scalars ==
  [value_string |-> "string", value_unsigned |-> "unsigned",
   value_integer |-> "integer", value_float |-> "float",
   literal_null |-> "null", literal_true |-> "true", literal_false |-> "false"]

EmptyNode(type) == <<type, IF type = "array" THEN <<>> ELSE [k \in {} |-> 0]>>

(* Slip: a value goes to the latest key, though an array is open inside.   *)
HandleValue_ByKey(node) ==
  IF ref_stack = <<>> THEN <<node>>
  ELSE IF object_element[1] = 0
    THEN Append([dom EXCEPT ![Last(ref_stack)][2] = Append(@, Len(dom) + 1)], node)
  ELSE Append([dom EXCEPT ![object_element[1]][2][object_element[2]] = Len(dom) + 1], node)

(* The value with a node more: as root, element, or value of a member.     *)
HandleValue(node) ==
  IF ref_stack = <<>> THEN <<node>>
  ELSE IF dom[Last(ref_stack)][1] = "array"
    THEN Append([dom EXCEPT ![Last(ref_stack)][2] = Append(@, Len(dom) + 1)], node)
  ELSE Append([dom EXCEPT ![object_element[1]][2][object_element[2]] = Len(dom) + 1], node)

(* operator[] inserts null when the key is new.                            *)
Key(d, n, k) ==
  LET members == d[n][2]
      inserted == [m \in {k} \cup DOMAIN members |-> IF m = k THEN 0 ELSE members[m]]
  IN
  /\ dom' = IF k \in DOMAIN members THEN d ELSE [d EXCEPT ![n][2] = inserted]
  /\ object_element' = <<n, k>>

-----------------------------------------------------------------------------
(* The loop.                                                               *)
Token(i) == Scan(text, i)

Get(i) == /\ last_token' = Token(i)
          /\ next' = Token(i)[3]

(* A key and its separator start at i; then, where its value starts.       *)
KeyAt(i) == Token(i)[1] = "value_string" /\ Token(Token(i)[3])[1] = "name_separator"
ValueAt(i) == Token(Token(i)[3])[3]

Reads(type) == phase = "value" /\ last_token[1] = type

Inside(array) == phase = "after" /\ states # <<>> /\ states[Len(states)] = array

(* A structure that is closed at once.                                     *)
ReadEmpty(begin, end, type) ==
  /\ Reads(begin) /\ Token(next)[1] = end
  /\ dom' = HandleValue(EmptyNode(type))
  /\ next' = Token(next)[3]
  /\ phase' = "after"
  /\ UNCHANGED <<text, last_token, states, ref_stack, object_element>>

ReadEmptyObject == ReadEmpty("begin_object", "end_object", "object")
ReadEmptyArray == ReadEmpty("begin_array", "end_array", "array")

Open(array) ==
  /\ states' = Append(states, array)
  /\ ref_stack' = Append(ref_stack, Len(dom) + 1)
  /\ UNCHANGED <<text, phase>>

OpenObject ==
  /\ Reads("begin_object") /\ KeyAt(next)
  /\ Key(HandleValue(EmptyNode("object")), Len(dom) + 1, Token(next)[2])
  /\ Get(ValueAt(next))
  /\ Open(FALSE)

OpenArray ==
  /\ Reads("begin_array") /\ Token(next)[1] # "end_array"
  /\ dom' = HandleValue(EmptyNode("array"))
  /\ Get(next)
  /\ Open(TRUE)
  /\ UNCHANGED object_element

Overflows == last_token[1] = "value_float" /\ ~IsFinite(last_token[2])

ReadScalar ==
  /\ \E type \in DOMAIN Scalars :
       /\ Reads(type) /\ ~Overflows
       /\ dom' = HandleValue(<<Scalars[type], last_token[2]>>)
  /\ phase' = "after"
  /\ UNCHANGED <<text, next, last_token, states, ref_stack, object_element>>

NextElement ==
  /\ Inside(TRUE) /\ Token(next)[1] = "value_separator"
  /\ Get(Token(next)[3])
  /\ phase' = "value"
  /\ UNCHANGED <<text, states, dom, ref_stack, object_element>>

NextMember ==
  /\ Inside(FALSE) /\ Token(next)[1] = "value_separator" /\ KeyAt(Token(next)[3])
  /\ Key(dom, Last(ref_stack), Token(Token(next)[3])[2])
  /\ Get(ValueAt(Token(next)[3]))
  /\ phase' = "value"
  /\ UNCHANGED <<text, states, ref_stack>>

(* Slip: the structure stays on the builder's stack.                       *)
Leave_NoPop == /\ states' = Front(states)
               /\ UNCHANGED ref_stack

Leave == /\ states' = Front(states)
         /\ ref_stack' = Front(ref_stack)

(* The structure is a value itself: the loop goes on past it.              *)
Close ==
  /\ \/ Inside(TRUE) /\ Token(next)[1] = "end_array"
     \/ Inside(FALSE) /\ Token(next)[1] = "end_object"
  /\ Leave
  /\ next' = Token(next)[3]
  /\ UNCHANGED <<text, last_token, dom, object_element, phase>>

Finish ==
  /\ phase = "after" /\ states = <<>>
  /\ phase' = "done"
  /\ UNCHANGED <<text, next, last_token, states, dom, ref_stack, object_element>>

(* The tokens that make the loop give up, and a double without bounds.     *)
Unexpected ==
  \/ phase = "value" /\ last_token[1] \notin DOMAIN Scalars \cup {"begin_object", "begin_array"}
  \/ phase = "value" /\ Overflows
  \/ Reads("begin_object") /\ Token(next)[1] # "end_object" /\ ~KeyAt(next)
  \/ Inside(TRUE) /\ Token(next)[1] \notin {"value_separator", "end_array"}
  \/ Inside(FALSE) /\ Token(next)[1] # "end_object"
       /\ ~(Token(next)[1] = "value_separator" /\ KeyAt(Token(next)[3]))

Throw ==
  /\ Unexpected
  /\ phase' = "thrown"
  /\ UNCHANGED <<text, next, last_token, states, dom, ref_stack, object_element>>

ParserNext ==
  \/ ReadEmptyObject \/ ReadEmptyArray \/ OpenObject \/ OpenArray \/ ReadScalar
  \/ NextElement \/ NextMember \/ Close \/ Finish \/ Throw

-----------------------------------------------------------------------------
(* The two stacks of the parser agree: the nodes that are open are of the  *)
(* kinds that the loop believes it is inside of, and the member that is    *)
(* read next belongs to the innermost one.  It is what the assertions of   *)
(* key, end_object, end_array and handle_value, and every pointer that     *)
(* they follow, rely on (json.hpp:8895, 8905, 8944, 9069, 9083).           *)
StacksAgree ==
  phase # "idle" =>
    /\ Len(states) = Len(ref_stack)
    /\ \A k \in DOMAIN ref_stack :
         /\ ref_stack[k] \in DOMAIN dom
         /\ dom[ref_stack[k]][1] = IF states[k] THEN "array" ELSE "object"
    /\ (phase = "value" /\ states # <<>> /\ ~Last(states)) =>
         /\ object_element[1] = Last(ref_stack)
         /\ object_element[2] \in DOMAIN dom[Last(ref_stack)][2]
=============================================================================
