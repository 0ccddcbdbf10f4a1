-------------------------- MODULE JsonParserProofs --------------------------
(***************************************************************************)
(* That the two stacks of the parser agree, for every text and every       *)
(* sequence of documents.                                                  *)
(***************************************************************************)
EXTENDS Documents, JsonTextProofs

(* A value is a sequence of pairs <<type, content>>.                       *)
Pairs(S) == \A x \in S : \E t, c : x = <<t, c>>
IsDom(d) == \E S : d \in Seq(S) /\ Pairs(S)

-----------------------------------------------------------------------------
(* Another content for one node.                                           *)
Refilled(d, n, c) == [d EXCEPT ![n][2] = c]

LEMMA Refill ==
  ASSUME NEW d, IsDom(d), NEW n \in 1 .. Len(d), NEW c
  PROVE  /\ IsDom(Refilled(d, n, c))
         /\ Len(Refilled(d, n, c)) = Len(d)
         /\ \A k \in 1 .. Len(d) : Refilled(d, n, c)[k][1] = d[k][1]
         /\ \A k \in 1 .. Len(d) : k # n => Refilled(d, n, c)[k] = d[k]
         /\ Refilled(d, n, c)[n][2] = c
  <1> DEFINE e == Refilled(d, n, c)
  <1>1. PICK S : d \in Seq(S) /\ Pairs(S)
    BY DEF IsDom
  <1>2. PICK t, b : d[n] = <<t, b>>
    BY <1>1 DEF Pairs
  <1>3. [d[n] EXCEPT ![2] = c] = <<t, c>>
    BY <1>2
  <1>4. e = [k \in 1 .. Len(d) |-> IF k = n THEN <<t, c>> ELSE d[k]]
    <2>1. d = [k \in 1 .. Len(d) |-> d[k]] /\ DOMAIN d = 1 .. Len(d)
      BY <1>1
    <2>2. e = [k \in DOMAIN d |-> IF k = n THEN [d[n] EXCEPT ![2] = c] ELSE d[k]]
      BY <2>1 DEF Refilled
    <2> QED
      BY <1>3, <2>1, <2>2
  <1> HIDE DEF e
  <1>5. e \in Seq(S \cup {<<t, c>>}) /\ Len(e) = Len(d)
    BY <1>1, <1>4
  <1>6. Pairs(S \cup {<<t, c>>})
    BY <1>1 DEF Pairs
  <1>7. \A k \in 1 .. Len(d) : e[k][1] = d[k][1]
    BY <1>2, <1>4
  <1>8. e[n][2] = c /\ \A k \in 1 .. Len(d) : k # n => e[k] = d[k]
    BY <1>4
  <1> QED
    BY <1>5, <1>6, <1>7, <1>8 DEF IsDom, e

(* One node more.                                                          *)
LEMMA Grow ==
  ASSUME NEW d, IsDom(d), NEW t, NEW c
  PROVE  /\ IsDom(Append(d, <<t, c>>))
         /\ Len(Append(d, <<t, c>>)) = Len(d) + 1
         /\ \A k \in 1 .. Len(d) : Append(d, <<t, c>>)[k] = d[k]
         /\ Append(d, <<t, c>>)[Len(d) + 1] = <<t, c>>
         /\ Len(d) \in Nat
  <1>1. PICK S : d \in Seq(S) /\ Pairs(S)
    BY DEF IsDom
  <1>2. d \in Seq(S \cup {<<t, c>>}) /\ <<t, c>> \in S \cup {<<t, c>>}
    BY <1>1
  <1>3. Pairs(S \cup {<<t, c>>})
    BY <1>1 DEF Pairs
  <1>4. Append(d, <<t, c>>) \in Seq(S \cup {<<t, c>>})
    BY <1>2
  <1> QED
    BY <1>2, <1>3, <1>4 DEF IsDom
-----------------------------------------------------------------------------
(* StacksAgree with what makes it inductive: that the stacks and the value *)
(* are what they are called, and that nothing is read yet when the root is *)
(* about to be.                                                            *)
Stacks ==
  phase # "idle" =>
    /\ states \in Seq(BOOLEAN) /\ ref_stack \in Seq(Nat) /\ IsDom(dom)
    /\ Len(states) = Len(ref_stack)
    /\ \A k \in 1 .. Len(ref_stack) :
         /\ ref_stack[k] \in 1 .. Len(dom)
         /\ dom[ref_stack[k]][1] = IF states[k] THEN "array" ELSE "object"
    /\ (phase = "value" /\ states = <<>>) => dom = <<>>
    /\ (phase = "value" /\ states # <<>> /\ ~Last(states)) =>
         /\ object_element[1] = Last(ref_stack)
         /\ object_element[2] \in DOMAIN dom[Last(ref_stack)][2]

(* The value after handle_value: one node more, and the others as before   *)
(* but for their contents.                                                 *)
Extends(d, t, c) ==
  /\ IsDom(d)
  /\ Len(d) = Len(dom) + 1
  /\ \A k \in 1 .. Len(dom) : d[k][1] = dom[k][1]
  /\ d[Len(dom) + 1] = <<t, c>>

LEMMA Handled ==
  ASSUME Stacks, phase = "value", NEW t, NEW c
  PROVE  Extends(HandleValue(<<t, c>>), t, c)
  <1> DEFINE d == HandleValue(<<t, c>>)
             n == Last(ref_stack)
  <1> SUFFICES Extends(d, t, c)
    OBVIOUS
  <1> HIDE DEF d
  <1>1. CASE ref_stack = <<>>
    <2>1. dom = <<>>
      BY <1>1 DEF Stacks
    <2>2. IsDom(dom) /\ d = Append(dom, <<t, c>>)
      BY <1>1, <2>1 DEF Stacks, HandleValue, d
    <2> QED
      BY <2>2, Grow DEF Extends
  <1>2. CASE ref_stack # <<>>
    <2>1. /\ IsDom(dom) /\ n \in 1 .. Len(dom) /\ Len(ref_stack) \in 1 .. Len(ref_stack)
          /\ n = ref_stack[Len(ref_stack)] /\ Last(states) = states[Len(ref_stack)]
          /\ states # <<>> /\ Last(states) \in BOOLEAN
          /\ dom[n][1] = IF Last(states) THEN "array" ELSE "object"
      BY <1>2 DEF Stacks, Last
    <2>2. PICK content : d = Append(Refilled(dom, n, content), <<t, c>>)
      <3>1. CASE dom[n][1] = "array"
        BY <1>2, <3>1 DEF HandleValue, d, Refilled
      <3>2. CASE dom[n][1] # "array"
        <4>1. object_element[1] = n
          BY <2>1, <3>2 DEF Stacks
        <4>2. d = Append([dom EXCEPT ![n][2][object_element[2]] = Len(dom) + 1], <<t, c>>)
          BY <1>2, <3>2, <4>1 DEF HandleValue, d
        <4> QED
          BY <4>2 DEF Refilled
      <3> QED
        BY <3>1, <3>2
    <2> DEFINE e == Refilled(dom, n, content)
    <2> HIDE DEF n
    <2>3. /\ IsDom(e) /\ Len(e) = Len(dom)
          /\ \A k \in 1 .. Len(dom) : e[k][1] = dom[k][1]
      BY <2>1, Refill
    <2> HIDE DEF e
    <2>4. d = Append(e, <<t, c>>)
      BY <2>2 DEF e
    <2>5. /\ IsDom(d) /\ Len(d) = Len(e) + 1 /\ d[Len(e) + 1] = <<t, c>>
          /\ \A k \in 1 .. Len(e) : d[k] = e[k]
      <3>1. ASSUME NEW q, IsDom(q), NEW f, f = Append(q, <<t, c>>)
            PROVE  /\ IsDom(f) /\ Len(f) = Len(q) + 1 /\ f[Len(q) + 1] = <<t, c>>
                   /\ \A k \in 1 .. Len(q) : f[k] = q[k]
        BY <3>1, Grow
      <3> QED
        BY <2>3, <2>4, <3>1
    <2> QED
      BY <2>3, <2>5 DEF Extends
  <1> QED
    BY <1>1, <1>2

(* After key, the member is there.                                         *)
LEMMA Keyed ==
  ASSUME NEW d, IsDom(d), NEW n \in 1 .. Len(d), NEW k, Key(d, n, k)
  PROVE  /\ IsDom(dom') /\ Len(dom') = Len(d)
         /\ \A i \in 1 .. Len(d) : dom'[i][1] = d[i][1]
         /\ object_element' = <<n, k>> /\ k \in DOMAIN dom'[n][2]
  <1>1. object_element' = <<n, k>>
    BY DEF Key
  <1>2. CASE k \in DOMAIN d[n][2]
    BY <1>1, <1>2 DEF Key
  <1>3. CASE k \notin DOMAIN d[n][2]
    <2> DEFINE inserted == [m \in {k} \cup DOMAIN d[n][2] |-> IF m = k THEN 0 ELSE d[n][2][m]]
    <2>1. k \in DOMAIN inserted
      OBVIOUS
    <2>2. dom' = Refilled(d, n, inserted)
      BY <1>3 DEF Key, Refilled
    <2> HIDE DEF inserted
    <2> QED
      BY <1>1, <2>1, <2>2, Refill
  <1> QED
    BY <1>2, <1>3

(* A structure is opened: it is the last node of the value.                *)
LEMMA Opened ==
  ASSUME Stacks, phase = "value", NEW d, NEW array \in BOOLEAN, NEW c,
         Extends(d, IF array THEN "array" ELSE "object", c),
         IsDom(dom'), Len(dom') = Len(d), \A i \in 1 .. Len(d) : dom'[i][1] = d[i][1],
         ~array => object_element'[1] = Len(d) /\ object_element'[2] \in DOMAIN dom'[Len(d)][2],
         Open(array)
  PROVE  Stacks'
  <1> DEFINE m == Len(ref_stack)
  <1>1. /\ states \in Seq(BOOLEAN) /\ ref_stack \in Seq(Nat) /\ m \in Nat
        /\ Len(states) = m /\ Len(dom) \in Nat /\ Len(d) = Len(dom) + 1
    BY Grow DEF Stacks, Extends
  <1>2. /\ states' = Append(states, array) /\ ref_stack' = Append(ref_stack, Len(d))
        /\ phase' = "value"
    BY <1>1 DEF Open
  <1>3. /\ states' \in Seq(BOOLEAN) /\ ref_stack' \in Seq(Nat)
        /\ Len(states') = m + 1 /\ Len(ref_stack') = m + 1
        /\ states'[m + 1] = array /\ ref_stack'[m + 1] = Len(d)
        /\ \A k \in 1 .. m : states'[k] = states[k] /\ ref_stack'[k] = ref_stack[k]
    BY <1>1, <1>2
  <1>4. /\ Last(states') = array /\ Last(ref_stack') = Len(d) /\ states' # <<>>
    BY <1>3 DEF Last
  <1>5. dom'[Len(d)][1] = IF array THEN "array" ELSE "object"
    BY <1>1 DEF Extends
  <1>6. ASSUME NEW k \in 1 .. m
        PROVE  /\ ref_stack[k] \in 1 .. Len(dom')
               /\ dom'[ref_stack[k]][1] = IF states[k] THEN "array" ELSE "object"
    <2>1. /\ ref_stack[k] \in 1 .. Len(dom)
          /\ dom[ref_stack[k]][1] = IF states[k] THEN "array" ELSE "object"
      BY DEF Stacks
    <2>2. ref_stack[k] \in 1 .. Len(d) /\ d[ref_stack[k]][1] = dom[ref_stack[k]][1]
      BY <1>1, <2>1 DEF Extends
    <2> QED
      BY <2>1, <2>2
  <1>7. ASSUME NEW k \in 1 .. Len(ref_stack')
        PROVE  /\ ref_stack'[k] \in 1 .. Len(dom')
               /\ dom'[ref_stack'[k]][1] = IF states'[k] THEN "array" ELSE "object"
    <2>1. CASE k \in 1 .. m
      BY <1>3, <1>6, <2>1
    <2>2. CASE k = m + 1
      BY <1>1, <1>3, <1>5, <2>2
    <2> QED
      BY <1>1, <1>3, <2>1, <2>2
  <1> QED
    BY <1>2, <1>3, <1>4, <1>7 DEF Stacks

(* A value is complete, and it does not matter what comes to hold it.      *)
LEMMA Valued ==
  ASSUME Stacks, phase = "value", NEW t, NEW c, dom' = HandleValue(<<t, c>>),
         phase' = "after", UNCHANGED <<states, ref_stack>>
  PROVE  Stacks'
  <1>1. Extends(dom', t, c)
    BY Handled
  <1>2. /\ states \in Seq(BOOLEAN) /\ ref_stack \in Seq(Nat)
        /\ Len(states) = Len(ref_stack) /\ Len(dom) \in Nat
    BY Grow DEF Stacks
  <1>3. ASSUME NEW k \in 1 .. Len(ref_stack)
        PROVE  /\ ref_stack[k] \in 1 .. Len(dom')
               /\ dom'[ref_stack[k]][1] = IF states[k] THEN "array" ELSE "object"
    <2>1. /\ ref_stack[k] \in 1 .. Len(dom)
          /\ dom[ref_stack[k]][1] = IF states[k] THEN "array" ELSE "object"
      BY DEF Stacks
    <2>2. Len(dom') = Len(dom) + 1
      BY <1>1 DEF Extends
    <2>3. ref_stack[k] \in 1 .. Len(dom')
      BY <1>2, <2>1, <2>2
    <2>4. dom'[ref_stack[k]][1] = dom[ref_stack[k]][1]
      BY <1>1, <2>1 DEF Extends
    <2> QED
      BY <2>1, <2>3, <2>4
  <1> QED
    BY <1>1, <1>2, <1>3 DEF Stacks, Extends

(* The loop is past a value, and only the phase or the contents of nodes   *)
(* change.                                                                 *)
LEMMA Passed ==
  ASSUME Stacks, phase # "idle", IsDom(dom'), Len(dom') = Len(dom),
         \A k \in 1 .. Len(dom) : dom'[k][1] = dom[k][1],
         UNCHANGED <<states, ref_stack>>,
         phase' = "value" => states # <<>>,
         phase' = "value" /\ states # <<>> /\ ~Last(states) =>
           /\ object_element'[1] = Last(ref_stack)
           /\ object_element'[2] \in DOMAIN dom'[Last(ref_stack)][2]
  PROVE  Stacks'
  <1>1. \A k \in 1 .. Len(ref_stack) :
          /\ ref_stack[k] \in 1 .. Len(dom')
          /\ dom'[ref_stack[k]][1] = IF states[k] THEN "array" ELSE "object"
    BY DEF Stacks
  <1> QED
    BY <1>1 DEF Stacks

LEMMA Innermost ==
  ASSUME Stacks, phase # "idle", states # <<>>
  PROVE  /\ Last(states) = states[Len(states)] /\ Last(states) \in BOOLEAN
         /\ Last(ref_stack) \in 1 .. Len(dom)
  BY DEF Stacks, Last

-----------------------------------------------------------------------------
LEMMA StartParseKeepsStacks ==
  ASSUME StartParse
  PROVE  Stacks'
  <1>1. states' = <<>> /\ ref_stack' = <<>> /\ dom' = <<>>
    BY DEF StartParse, Parse
  <1>2. IsDom(dom')
    <2>1. dom' \in Seq({}) /\ Pairs({})
      BY <1>1 DEF Pairs
    <2> QED
      BY <2>1 DEF IsDom
  <1> QED
    BY <1>1, <1>2 DEF Stacks

LEMMA OpenObjectKeepsStacks ==
  ASSUME Stacks, OpenObject
  PROVE  Stacks'
  <1> DEFINE d == HandleValue(EmptyNode("object"))
             k == Token(next)[2]
  <1>1. PICK c : EmptyNode("object") = <<"object", c>>
    BY DEF EmptyNode
  <1>2. phase = "value" /\ Open(FALSE) /\ Key(d, Len(dom) + 1, k)
    BY DEF OpenObject, Reads
  <1>3. Extends(d, "object", c)
    BY <1>1, <1>2, Handled
  <1> HIDE DEF d, k
  <1>4. Len(dom) + 1 \in 1 .. Len(d) /\ Len(d) = Len(dom) + 1 /\ IsDom(d)
    <2>1. IsDom(dom)
      BY <1>2 DEF Stacks
    <2> QED
      BY <1>3, <2>1, Grow DEF Extends
  <1>5. /\ IsDom(dom') /\ Len(dom') = Len(d)
        /\ \A i \in 1 .. Len(d) : dom'[i][1] = d[i][1]
        /\ object_element' = <<Len(dom) + 1, k>> /\ k \in DOMAIN dom'[Len(dom) + 1][2]
    BY <1>2, <1>4, Keyed
  <1>6. Extends(d, IF FALSE THEN "array" ELSE "object", c)
    BY <1>3
  <1> QED
    BY <1>2, <1>4, <1>5, <1>6, Opened

LEMMA OpenArrayKeepsStacks ==
  ASSUME Stacks, OpenArray
  PROVE  Stacks'
  <1>1. PICK c : EmptyNode("array") = <<"array", c>>
    BY DEF EmptyNode
  <1>2. phase = "value" /\ Open(TRUE) /\ dom' = HandleValue(EmptyNode("array"))
    BY DEF OpenArray, Reads
  <1>3. Extends(dom', IF TRUE THEN "array" ELSE "object", c)
    BY <1>1, <1>2, Handled
  <1>4. IsDom(dom')
    BY <1>3 DEF Extends
  <1> QED
    BY <1>2, <1>3, <1>4, Opened

LEMMA CloseKeepsStacks ==
  ASSUME Stacks, Close
  PROVE  Stacks'
  <1> DEFINE m == Len(ref_stack)
  <1>1. phase = "after" /\ phase' = "after" /\ states # <<>> /\ dom' = dom /\ Leave
    BY DEF Close, Inside
  <1>2. /\ states \in Seq(BOOLEAN) /\ ref_stack \in Seq(Nat) /\ IsDom(dom)
        /\ m \in Nat \ {0} /\ Len(states) = m
    BY <1>1 DEF Stacks
  <1>3. /\ states' \in Seq(BOOLEAN) /\ ref_stack' \in Seq(Nat)
        /\ Len(states') = m - 1 /\ Len(ref_stack') = m - 1
        /\ \A k \in 1 .. m - 1 : states'[k] = states[k] /\ ref_stack'[k] = ref_stack[k]
    BY <1>1, <1>2 DEF Leave, Front
  <1>4. ASSUME NEW k \in 1 .. Len(ref_stack')
        PROVE  /\ ref_stack'[k] \in 1 .. Len(dom')
               /\ dom'[ref_stack'[k]][1] = IF states'[k] THEN "array" ELSE "object"
    <2>1. k \in 1 .. m - 1 /\ k \in 1 .. m
      BY <1>2, <1>3
    <2>2. /\ ref_stack[k] \in 1 .. Len(dom)
          /\ dom[ref_stack[k]][1] = IF states[k] THEN "array" ELSE "object"
      BY <1>1, <2>1 DEF Stacks
    <2>3. states'[k] = states[k] /\ ref_stack'[k] = ref_stack[k]
      BY <1>3, <2>1
    <2> QED
      BY <1>1, <2>2, <2>3
  <1> QED
    BY <1>1, <1>2, <1>3, <1>4 DEF Stacks

LEMMA UntouchedStacks ==
  ASSUME Stacks, UNCHANGED parser
  PROVE  Stacks'
  BY DEF Stacks, parser

LEMMA ParserKeepsStacks ==
  ASSUME Stacks, ParserNext
  PROVE  Stacks'
  <1>1. CASE ReadEmptyObject \/ ReadEmptyArray
    <2>1. PICK type : dom' = HandleValue(EmptyNode(type))
      BY <1>1 DEF ReadEmptyObject, ReadEmptyArray, ReadEmpty
    <2>2. PICK c : EmptyNode(type) = <<type, c>>
      BY DEF EmptyNode
    <2>3. phase = "value" /\ phase' = "after" /\ UNCHANGED <<states, ref_stack>>
      BY <1>1 DEF ReadEmptyObject, ReadEmptyArray, ReadEmpty, Reads
    <2> QED
      BY <2>1, <2>2, <2>3, Valued
  <1>2. CASE ReadScalar
    <2>1. PICK t : phase = "value" /\ dom' = HandleValue(<<t, last_token[2]>>)
      BY <1>2 DEF ReadScalar, Reads
    <2>2. phase' = "after" /\ UNCHANGED <<states, ref_stack>>
      BY <1>2 DEF ReadScalar
    <2> QED
      BY <2>1, <2>2, Valued
  <1>3. CASE OpenObject
    BY <1>3, OpenObjectKeepsStacks
  <1>4. CASE OpenArray
    BY <1>4, OpenArrayKeepsStacks
  <1>5. CASE NextElement
    <2>1. /\ phase = "after" /\ phase' = "value" /\ states # <<>> /\ states[Len(states)] = TRUE
          /\ UNCHANGED <<states, dom, ref_stack, object_element>>
      BY <1>5 DEF NextElement, Inside
    <2>2. Last(states) = TRUE /\ IsDom(dom)
      BY <2>1, Innermost DEF Stacks
    <2> QED
      BY <2>1, <2>2, Passed
  <1>6. CASE NextMember
    <2> DEFINE k == Token(Token(next)[3])[2]
    <2>1. /\ phase = "after" /\ phase' = "value" /\ states # <<>>
          /\ UNCHANGED <<states, ref_stack>> /\ Key(dom, Last(ref_stack), k)
      BY <1>6 DEF NextMember, Inside
    <2> HIDE DEF k
    <2>2. IsDom(dom) /\ Last(ref_stack) \in 1 .. Len(dom)
      BY <2>1, Innermost DEF Stacks
    <2>3. /\ IsDom(dom') /\ Len(dom') = Len(dom)
          /\ \A i \in 1 .. Len(dom) : dom'[i][1] = dom[i][1]
          /\ object_element' = <<Last(ref_stack), k>> /\ k \in DOMAIN dom'[Last(ref_stack)][2]
      BY <2>1, <2>2, Keyed
    <2> QED
      BY <2>1, <2>3, Passed
  <1>7. CASE Close
    BY <1>7, CloseKeepsStacks
  <1>8. CASE Finish \/ Throw
    <2>1. /\ phase # "idle" /\ phase' \in {"done", "thrown"}
          /\ UNCHANGED <<states, dom, ref_stack, object_element>>
      BY <1>8 DEF Finish, Throw, Unexpected, Reads, Inside
    <2>2. IsDom(dom)
      BY <2>1 DEF Stacks
    <2> QED
      BY <2>1, <2>2, Passed
  <1> QED
    BY <1>1, <1>2, <1>3, <1>4, <1>5, <1>6, <1>7, <1>8 DEF ParserNext

LEMMA NextKeepsStacks ==
  ASSUME Stacks, [Next]_vars
  PROVE  Stacks'
  <1>1. CASE StartParse
    BY <1>1, StartParseKeepsStacks
  <1>2. CASE ParserStep
    BY <1>2, ParserKeepsStacks DEF ParserStep
  <1>3. CASE ParseThrows
    BY <1>3, UntouchedStacks DEF ParseThrows, Becomes
  <1>4. CASE RefuseRest
    BY <1>4, UntouchedStacks DEF RefuseRest, Becomes
  <1>5. CASE InvalidParams
    BY <1>5, UntouchedStacks DEF InvalidParams, Becomes
  <1>6. CASE CallService
    BY <1>6, UntouchedStacks DEF CallService, Becomes
  <1>7. CASE LackParameter
    BY <1>7, UntouchedStacks DEF LackParameter, Becomes
  <1>8. CASE ReadAmounts
    BY <1>8 DEF ReadAmounts, Stacks
  <1>9. CASE Load
    BY <1>9, UntouchedStacks DEF Load, Becomes
  <1>10. CASE LoadFails
    BY <1>10, UntouchedStacks DEF LoadFails, Becomes
  <1>11. CASE UNCHANGED vars
    BY <1>11, UntouchedStacks DEF vars
  <1> QED
    BY <1>1, <1>2, <1>3, <1>4, <1>5, <1>6, <1>7, <1>8, <1>9, <1>10, <1>11
    DEF Next, Ended

LEMMA StacksSuffice ==
  ASSUME Stacks
  PROVE  StacksAgree
  <1>1. SUFFICES ASSUME phase # "idle"
                 PROVE  StacksAgree
    BY DEF StacksAgree
  <1>2. PICK S : dom \in Seq(S)
    BY <1>1 DEF Stacks, IsDom
  <1>3. ref_stack \in Seq(Nat)
    BY <1>1 DEF Stacks
  <1>4. DOMAIN dom = 1 .. Len(dom) /\ DOMAIN ref_stack = 1 .. Len(ref_stack)
    BY <1>2, <1>3
  <1> QED
    BY <1>1, <1>4 DEF Stacks, StacksAgree

(* For every text, however deep its structures are nested and wherever it  *)
(* goes wrong: no assertion of json_sax_dom_parser about its stack and its *)
(* pointer to a member fails, and no pointer that it follows is missing.   *)
THEOREM StacksAlwaysAgree == Spec => []StacksAgree
  <1>1. Init => Stacks
    BY DEF Init, ParserInit, Stacks
  <1>2. Stacks /\ [Next]_vars => Stacks'
    BY NextKeepsStacks
  <1>3. Stacks => StacksAgree
    BY StacksSuffice
  <1> QED
    BY <1>1, <1>2, <1>3, PTL DEF Spec

-----------------------------------------------------------------------------
(* A node and its content are sound: strings are UTF-8, so that they can   *)
(* be written, integers fit into their types, and what is below are later  *)
(* nodes, except at the hole, the member whose value is not read yet.      *)
NoHole == <<0, <<>>>>
IsKey(k) == k \in Bytes /\ Dumpable(k)

Sound(t, c, n, last, hole) ==
  /\ t = "string" => Dumpable(c)
  /\ t = "unsigned" => c \in 0 .. Modulus - 1
  /\ t = "integer" => c \in - (Modulus \div 2) .. 0
  /\ t = "array" => c \in Seq(n + 1 .. last)
  /\ t = "object" =>
       /\ IsFiniteSet(DOMAIN c)
       /\ \A k \in DOMAIN c : IsKey(k) /\ (c[k] \in n + 1 .. last \/ <<n, k>> = hole)

Tree(d, hole) == \A n \in 1 .. Len(d) : Sound(d[n][1], d[n][2], n, Len(d), hole)

LEMMA SoundStays ==
  ASSUME NEW t, NEW c, NEW n \in Nat, NEW last \in Nat, NEW hole,
         Sound(t, c, n, last, hole), \A k : <<n, k>> # hole,
         NEW more \in {last, last + 1}, NEW other
  PROVE  Sound(t, c, n, more, other)
  <1>1. n + 1 .. last \subseteq n + 1 .. more
    OBVIOUS
  <1>2. t = "array" => c \in Seq(n + 1 .. more)
    <2>1. ASSUME NEW S, NEW T, S \subseteq T, c \in Seq(S) PROVE c \in Seq(T)
      BY <2>1
    <2> QED
      BY <1>1, <2>1 DEF Sound
  <1>3. \A x : x \in n + 1 .. last => x \in n + 1 .. more
    BY <1>1
  <1> QED
    BY <1>2, <1>3 DEF Sound

(* Another content for one node, and one node more.                        *)
LEMMA TreeGrows ==
  ASSUME NEW d, IsDom(d), NEW n \in 1 .. Len(d), NEW hole, Tree(d, hole),
         \A m \in 1 .. Len(d) : m # n => \A k : <<m, k>> # hole,
         NEW c, Sound(d[n][1], c, n, Len(d) + 1, NoHole),
         NEW t, NEW b, Sound(t, b, Len(d) + 1, Len(d) + 1, NoHole)
  PROVE  Tree(Append(Refilled(d, n, c), <<t, b>>), NoHole)
  <1> DEFINE e == Refilled(d, n, c)
             f == Append(e, <<t, b>>)
  <1>1. /\ IsDom(e) /\ Len(e) = Len(d) /\ e[n][1] = d[n][1] /\ e[n][2] = c
        /\ \A k \in 1 .. Len(d) : k # n => e[k] = d[k]
    BY Refill
  <1> HIDE DEF e
  <1>2. /\ Len(f) = Len(d) + 1 /\ f[Len(d) + 1] = <<t, b>> /\ Len(d) \in Nat
        /\ \A k \in 1 .. Len(d) : f[k] = e[k]
    <2>1. IsDom(e)
      BY <1>1
    <2>2. /\ Len(f) = Len(e) + 1 /\ f[Len(e) + 1] = <<t, b>> /\ Len(e) \in Nat
          /\ \A k \in 1 .. Len(e) : f[k] = e[k]
      BY <2>1, Grow
    <2> HIDE DEF f
    <2> QED
      BY <1>1, <2>2
  <1> HIDE DEF f
  <1>3. ASSUME NEW m \in 1 .. Len(d) + 1
        PROVE  Sound(f[m][1], f[m][2], m, Len(d) + 1, NoHole)
    <2>1. CASE m = Len(d) + 1
      BY <1>2, <2>1
    <2>2. CASE m = n
      BY <1>1, <1>2, <2>2
    <2>3. CASE m \in 1 .. Len(d) /\ m # n
      <3>1. f[m] = d[m] /\ m \in Nat
        BY <1>1, <1>2, <2>3
      <3>2. Sound(d[m][1], d[m][2], m, Len(d), hole)
        BY <2>3 DEF Tree
      <3> QED
        BY <1>2, <2>3, <3>1, <3>2, SoundStays
    <2> QED
      BY <1>2, <2>1, <2>2, <2>3
  <1> QED
    BY <1>2, <1>3 DEF Tree, e, f

(* The member that waits for its value.                                    *)
Hole == IF phase = "value" /\ states # <<>> /\ ~Last(states) THEN object_element ELSE NoHole

(* handle_value fills the hole.                                            *)
LEMMA HandledTree ==
  ASSUME Stacks, phase = "value", Tree(dom, Hole),
         NEW t, NEW b, Sound(t, b, Len(dom) + 1, Len(dom) + 1, NoHole)
  PROVE  Tree(HandleValue(<<t, b>>), NoHole) /\ HandleValue(<<t, b>>) # <<>>
  <1> DEFINE d == HandleValue(<<t, b>>)
             n == Last(ref_stack)
  <1>0. Extends(d, t, b) /\ Len(dom) \in Nat
    BY Handled, Grow DEF Stacks
  <1>1. d # <<>>
    <2> HIDE DEF d
    <2> QED
      BY <1>0 DEF Extends
  <1>2. CASE ref_stack = <<>>
    <2>1. dom = <<>> /\ Len(dom) + 1 = 1
      BY <1>2 DEF Stacks
    <2>2. d = <<<<t, b>>>> /\ Len(d) = 1
      BY <1>2 DEF HandleValue
    <2> HIDE DEF d
    <2>3. Tree(d, NoHole)
      BY <2>1, <2>2 DEF Tree
    <2> QED
      BY <1>1, <2>3 DEF d
  <1>3. CASE ref_stack # <<>>
    <2>1. /\ IsDom(dom) /\ n \in 1 .. Len(dom) /\ states # <<>>
          /\ dom[n][1] = IF Last(states) THEN "array" ELSE "object"
      BY <1>3 DEF Stacks, Last
    <2>2. Sound(dom[n][1], dom[n][2], n, Len(dom), Hole)
      BY <2>1 DEF Tree
    <2>3. PICK c : /\ d = Append(Refilled(dom, n, c), <<t, b>>)
                   /\ Sound(dom[n][1], c, n, Len(dom) + 1, NoHole)
                   /\ \A m \in 1 .. Len(dom) : m # n => \A k : <<m, k>> # Hole
      <3>1. CASE Last(states)
        <4> DEFINE c == Append(dom[n][2], Len(dom) + 1)
        <4>1. d = Append([dom EXCEPT ![n][2] = Append(@, Len(dom) + 1)], <<t, b>>)
          BY <1>3, <2>1, <3>1 DEF HandleValue
        <4>2. d = Append(Refilled(dom, n, c), <<t, b>>)
          BY <4>1 DEF Refilled
        <4>3. Hole = NoHole /\ \A m \in 1 .. Len(dom) : \A k : <<m, k>> # Hole
          BY <3>1 DEF Hole, NoHole
        <4>4. Sound("array", dom[n][2], n, Len(dom) + 1, NoHole)
          BY <1>0, <2>1, <2>2, <3>1, <4>3, SoundStays
        <4>5. c \in Seq(n + 1 .. Len(dom) + 1)
          BY <1>0, <2>1, <4>4 DEF Sound
        <4> HIDE DEF c, d
        <4>6. Sound(dom[n][1], c, n, Len(dom) + 1, NoHole)
          BY <2>1, <3>1, <4>5 DEF Sound
        <4> QED
          BY <4>2, <4>3, <4>6
      <3>2. CASE ~Last(states)
        <4> DEFINE c == [dom[n][2] EXCEPT ![object_element[2]] = Len(dom) + 1]
        <4>1. Hole = object_element /\ object_element[1] = n
          BY <2>1, <3>2 DEF Hole, Stacks
        <4>2. d = Append([dom EXCEPT ![n][2][object_element[2]] = Len(dom) + 1], <<t, b>>)
          BY <1>3, <2>1, <3>2, <4>1 DEF HandleValue
        <4>3. d = Append(Refilled(dom, n, c), <<t, b>>)
          BY <4>2 DEF Refilled
        <4>4. \A m \in 1 .. Len(dom) : m # n => \A k : <<m, k>> # Hole
          BY <4>1
        <4>5. /\ DOMAIN c = DOMAIN dom[n][2]
              /\ \A k \in DOMAIN c : c[k] = IF k = object_element[2] THEN Len(dom) + 1 ELSE dom[n][2][k]
          OBVIOUS
        <4>6. \A k \in DOMAIN dom[n][2] :
                IsKey(k) /\ (dom[n][2][k] \in n + 1 .. Len(dom) \/ <<n, k>> = object_element)
          BY <2>1, <2>2, <3>2, <4>1 DEF Sound
        <4>7. IsFiniteSet(DOMAIN dom[n][2])
          BY <2>1, <2>2, <3>2 DEF Sound
        <4> HIDE DEF c, d, n
        <4>8. \A k \in DOMAIN c : IsKey(k) /\ c[k] \in n + 1 .. Len(dom) + 1
          BY <1>0, <2>1, <4>5, <4>6
        <4>9. Sound(dom[n][1], c, n, Len(dom) + 1, NoHole)
          BY <2>1, <3>2, <4>5, <4>7, <4>8 DEF Sound
        <4> QED
          BY <4>3, <4>4, <4>9
      <3> QED
        BY <3>1, <3>2
    <2> HIDE DEF d, n
    <2>4. Tree(d, NoHole)
      BY <2>1, <2>3, TreeGrows
    <2> QED
      BY <1>1, <2>4 DEF d
  <1> QED
    BY <1>2, <1>3

(* key leaves a hole where the member is new.                              *)
LEMMA KeyedTree ==
  ASSUME NEW d, IsDom(d), NEW n \in 1 .. Len(d), Tree(d, NoHole), d[n][1] = "object",
         NEW k, IsKey(k), Key(d, n, k)
  PROVE  Tree(dom', <<n, k>>)
  <1>1. Len(d) \in Nat
    BY Grow
  <1>2. ASSUME NEW m \in 1 .. Len(d)
        PROVE  Sound(d[m][1], d[m][2], m, Len(d), <<n, k>>)
    <2>1. \A i : <<m, i>> # NoHole
      BY DEF NoHole
    <2>2. Sound(d[m][1], d[m][2], m, Len(d), NoHole) /\ m \in Nat
      BY <1>1 DEF Tree
    <2> QED
      BY <1>1, <2>1, <2>2, SoundStays
  <1>3. CASE k \in DOMAIN d[n][2]
    BY <1>2, <1>3 DEF Key, Tree
  <1>4. CASE k \notin DOMAIN d[n][2]
    <2> DEFINE inserted == [m \in {k} \cup DOMAIN d[n][2] |-> IF m = k THEN 0 ELSE d[n][2][m]]
    <2>1. Sound("object", d[n][2], n, Len(d), <<n, k>>)
      BY <1>2
    <2>2. Sound("object", inserted, n, Len(d), <<n, k>>)
      <3>1. IsFiniteSet(DOMAIN d[n][2]) /\ DOMAIN inserted = DOMAIN d[n][2] \cup {k}
        BY <2>1 DEF Sound
      <3>2. IsFiniteSet(DOMAIN inserted)
        <4> HIDE DEF inserted
        <4> QED
          BY <3>1, FS_AddElement
      <3> QED
        BY <2>1, <3>2 DEF Sound
    <2>3. dom' = Refilled(d, n, inserted)
      BY <1>4 DEF Key, Refilled
    <2> HIDE DEF inserted
    <2>4. /\ Len(dom') = Len(d) /\ dom'[n][1] = "object" /\ dom'[n][2] = inserted
          /\ \A m \in 1 .. Len(d) : m # n => dom'[m] = d[m]
      BY <2>3, Refill
    <2> QED
      BY <1>2, <2>2, <2>4 DEF Tree
  <1> QED
    BY <1>3, <1>4

-----------------------------------------------------------------------------
(* The nodes below the root are nodes of the value: since what is below a  *)
(* node comes after it, the recursion ends.  That there is a solution: the *)
(* nodes below one are those that no closed set with this one lacks.       *)
LEMMA NodesAreThere ==
  ASSUME NEW d, IsDom(d), Tree(d, NoHole), d # <<>>
  PROVE  Nodes(d) \subseteq 1 .. Len(d)
  <1> DEFINE D == 1 .. Len(d)
             Kids(n) == IF d[n][1] \in {"array", "object"}
                          THEN {d[n][2][k] : k \in DOMAIN d[n][2]} ELSE {}
             Closed(U) == \A n \in U : Kids(n) \subseteq U
             Around(n) == {U \in SUBSET D : n \in U /\ Closed(U)}
             reach == [n \in D |-> {m \in D : \A U \in Around(n) : m \in U}]
             Below(g, n) == {n} \cup (IF d[n][1] \in {"array", "object"}
                                       THEN UNION {g[d[n][2][k]] : k \in DOMAIN d[n][2]}
                                       ELSE {})
             Solves(g) == g = [n \in DOMAIN d |-> Below(g, n)]
  <1>1. DOMAIN d = D /\ Len(d) \in Nat /\ 1 \in D
    <2>1. PICK S : d \in Seq(S)
      BY DEF IsDom
    <2> QED
      BY <2>1
  <1>2. ASSUME NEW n \in D PROVE Kids(n) \subseteq n + 1 .. Len(d)
    <2>1. Sound(d[n][1], d[n][2], n, Len(d), NoHole)
      BY DEF Tree
    <2>2. CASE d[n][1] = "array"
      <3>1. ASSUME NEW S, NEW q \in Seq(S), NEW k \in DOMAIN q PROVE q[k] \in S
        BY <3>1
      <3>2. d[n][2] \in Seq(n + 1 .. Len(d))
        BY <2>1, <2>2 DEF Sound
      <3> QED
        BY <2>2, <3>1, <3>2
    <2>3. CASE d[n][1] = "object"
      <3>1. \A k : <<n, k>> # NoHole
        BY DEF NoHole
      <3> QED
        BY <2>1, <2>3, <3>1 DEF Sound
    <2> QED
      BY <2>2, <2>3
  <1>3. ASSUME NEW n \in D, NEW g
        PROVE  Below(g, n) = {n} \cup UNION {g[m] : m \in Kids(n)}
    OBVIOUS
  <1> HIDE DEF Kids, Below
  <1>4. ASSUME NEW n \in D PROVE Kids(n) \subseteq D
    BY <1>1, <1>2
  <1>5. ASSUME NEW n \in D PROVE reach[n] = Below(reach, n)
    <2> DEFINE R == {n} \cup UNION {reach[m] : m \in Kids(n)}
    <2>1. R \subseteq reach[n]
      <3>1. n \in reach[n]
        OBVIOUS
      <3>2. ASSUME NEW m \in Kids(n), NEW x \in reach[m] PROVE x \in reach[n]
        <4>1. m \in D
          BY <1>4
        <4>2. \A U \in Around(n) : U \in Around(m)
          OBVIOUS
        <4> HIDE DEF Around
        <4> QED
          BY <4>1, <4>2
      <3> HIDE DEF reach
      <3> QED
        BY <3>1, <3>2
    <2>2. R \in Around(n)
      <3>1. R \subseteq D
        BY <1>4
      <3>2. ASSUME NEW m \in R PROVE Kids(m) \subseteq R
        <4>1. CASE m = n
          <5>1. \A x \in Kids(n) : x \in reach[x]
            BY <1>4
          <5> HIDE DEF reach
          <5> QED
            BY <4>1, <5>1
        <4>2. ASSUME NEW c \in Kids(n), m \in reach[c] PROVE Kids(m) \subseteq reach[c]
          <5>1. c \in D /\ m \in D
            BY <1>4, <4>2
          <5>2. \A U \in Around(c) : Kids(m) \subseteq U
            BY <4>2, <5>1
          <5> QED
            BY <1>4, <5>1, <5>2
        <4> HIDE DEF reach
        <4> QED
          BY <4>1, <4>2
      <3> HIDE DEF R
      <3>3. n \in R
        BY DEF R
      <3> QED
        BY <3>1, <3>2, <3>3
    <2>3. reach[n] \subseteq R
      <3> HIDE DEF R, Around
      <3> QED
        BY <2>2
    <2> HIDE DEF reach
    <2> QED
      BY <1>3, <2>1, <2>3
  <1>6. Solves(reach)
    <2>1. reach = [n \in D |-> reach[n]]
      OBVIOUS
    <2> HIDE DEF reach, D
    <2> QED
      BY <1>1, <1>5, <2>1
  <1>7. \E g : Solves(g)
    <2> HIDE DEF reach, Solves
    <2> QED
      BY <1>6
  <1>8. PICK g : Solves(g) /\ Nodes(d) = g[1]
    BY <1>7 DEF Nodes, Below
  <1> DEFINE Bad == {Len(d) - n : n \in {n \in D : ~(g[n] \subseteq D)}}
  <1>9. Bad = {}
    <2>1. SUFFICES ASSUME Bad # {} PROVE FALSE
      OBVIOUS
    <2>2. Bad \subseteq Nat
      BY <1>1
    <2>3. PICK b \in Bad : \A c \in Bad : b <= c
      <3> HIDE DEF Bad
      <3> QED
        BY <2>1, <2>2, Least
    <2>4. PICK n \in D : b = Len(d) - n /\ ~(g[n] \subseteq D)
      OBVIOUS
    <2>5. g[n] = {n} \cup UNION {g[m] : m \in Kids(n)}
      <3>1. g[n] = Below(g, n)
        BY <1>1, <1>8
      <3> QED
        BY <1>3, <3>1
    <2>6. ASSUME NEW m \in Kids(n) PROVE g[m] \subseteq D
      <3>1. m \in D /\ m > n
        BY <1>2, <1>4
      <3>2. Len(d) - m < b
        BY <1>1, <2>4, <3>1
      <3>3. Len(d) - m \notin Bad
        <4>1. Len(d) - m \in Nat /\ b \in Nat
          BY <1>1, <2>2, <3>1
        <4> HIDE DEF Bad
        <4> QED
          BY <2>3, <3>2, <4>1
      <3> QED
        BY <3>1, <3>3
    <2> HIDE DEF D
    <2> QED
      BY <2>4, <2>5, <2>6
  <1> QED
    BY <1>1, <1>8, <1>9

LEMMA TreeCanBeDumped ==
  ASSUME NEW d, IsDom(d), Tree(d, NoHole), d # <<>>
  PROVE  CanDump(d)
  <1>1. \A n \in Nodes(d) : Sound(d[n][1], d[n][2], n, Len(d), NoHole)
    BY NodesAreThere DEF Tree
  <1> QED
    BY <1>1 DEF CanDump, Sound, IsKey

-----------------------------------------------------------------------------
(* What has been read, and from where the lexer goes on.                   *)
Reading ==
  /\ job \in Jobs /\ (parsed # <<>> => job.task = "load")
  /\ phase \in {"value", "after"} => text \in Bytes
  /\ phase = "value" => WellFormed(last_token) /\ next = last_token[3]
  /\ phase = "after" => next \in Nat \ {0}
  /\ phase \in {"value", "after", "done"} => Tree(dom, Hole)
  /\ phase \in {"after", "done"} => dom # <<>>
  /\ parsed # <<>> => IsDom(parsed) /\ Tree(parsed, NoHole)

LEMMA TokenIs ==
  ASSUME text \in Bytes, NEW i \in Nat \ {0}
  PROVE  WellFormed(Token(i))
  BY ScanGivesToken DEF Token

(* A key is a string, and its value starts where a token can.              *)
LEMMA KeyIs ==
  ASSUME text \in Bytes, NEW i \in Nat \ {0}, KeyAt(i)
  PROVE  IsKey(Token(i)[2]) /\ ValueAt(i) \in Nat \ {0}
  <1>1. IsKey(Token(i)[2]) /\ Token(i)[3] \in Nat \ {0}
    BY TokenIs DEF KeyAt, WellFormed, IsKey
  <1>2. WellFormed(Token(Token(i)[3]))
    BY <1>1, TokenIs
  <1> QED
    BY <1>1, <1>2 DEF KeyAt, ValueAt, WellFormed

LEMMA StartParseKeepsReading ==
  ASSUME Reading, StartParse
  PROVE  Reading'
  <1> DEFINE t == job.texts[IF parsed = <<>> THEN 1 ELSE 2]
  <1>1. /\ phase' = "value" /\ text' = t /\ last_token' = FirstToken(t)
        /\ next' = FirstToken(t)[3] /\ states' = <<>> /\ dom' = <<>>
        /\ UNCHANGED <<job, parsed>>
    BY DEF StartParse, Parse
  <1>2. t \in Bytes
    <2>1. /\ job.texts \in Seq(Bytes)
          /\ Len(job.texts) = IF job.task = "load" THEN 2 ELSE 1
      BY DocumentsAssumption DEF Reading, Bytes
    <2>2. (IF parsed = <<>> THEN 1 ELSE 2) \in 1 .. Len(job.texts)
      BY <2>1 DEF Reading
    <2>3. ASSUME NEW S, NEW q \in Seq(S), NEW k \in 1 .. Len(q) PROVE q[k] \in S
      BY <2>3
    <2> QED
      BY <2>1, <2>2, <2>3
  <1>3. WellFormed(FirstToken(t))
    BY <1>2, FirstTokenIsToken
  <1>4. Tree(dom', Hole')
    BY <1>1 DEF Tree
  <1> HIDE DEF t
  <1> QED
    BY <1>1, <1>2, <1>3, <1>4 DEF Reading

(* Where the lexer goes on, past a token that the loop has accepted.       *)
LEMMA GoesOn ==
  ASSUME Reading, phase \in {"value", "after"}, phase = "value" => last_token[1] # "parse_error"
  PROVE  text \in Bytes /\ next \in Nat \ {0} /\ WellFormed(Token(next))
  <1>1. text \in Bytes /\ next \in Nat \ {0}
    BY DEF Reading, WellFormed
  <1> QED
    BY <1>1, TokenIs

LEMMA GetKeepsToken ==
  ASSUME text \in Bytes, NEW i \in Nat \ {0}, Get(i)
  PROVE  WellFormed(last_token') /\ next' = last_token'[3]
  BY TokenIs DEF Get

LEMMA EmptyIsSound ==
  ASSUME NEW type \in {"array", "object"}, NEW n \in Nat
  PROVE  \E c : EmptyNode(type) = <<type, c>> /\ Sound(type, c, n, n, NoHole)
  <1>1. CASE type = "array"
    <2>1. EmptyNode(type) = <<type, <<>>>> /\ <<>> \in Seq(n + 1 .. n)
      BY <1>1 DEF EmptyNode
    <2> QED
      BY <1>1, <2>1 DEF Sound
  <1>2. CASE type = "object"
    <2> DEFINE c == [k \in {} |-> 0]
    <2>1. DOMAIN c = {} /\ EmptyNode(type) = <<type, c>>
      BY <1>2 DEF EmptyNode
    <2> HIDE DEF c
    <2> QED
      BY <1>2, <2>1, FS_EmptySet DEF Sound
  <1> QED
    BY <1>1, <1>2

LEMMA EmptyTree ==
  ASSUME Stacks, Reading, phase = "value", NEW type \in {"array", "object"}
  PROVE  /\ Tree(HandleValue(EmptyNode(type)), NoHole)
         /\ HandleValue(EmptyNode(type)) # <<>>
  <1>1. Len(dom) + 1 \in Nat
    BY Grow DEF Stacks
  <1>2. PICK c : /\ EmptyNode(type) = <<type, c>>
                 /\ Sound(type, c, Len(dom) + 1, Len(dom) + 1, NoHole)
    BY <1>1, EmptyIsSound
  <1> QED
    BY <1>2, HandledTree DEF Reading

(* A value is complete: the lexer stands after it.                         *)
LEMMA ReadPast ==
  ASSUME Reading, text \in Bytes, phase' = "after", UNCHANGED <<text, job, parsed>>,
         next' \in Nat \ {0}, Tree(dom', NoHole), dom' # <<>>
  PROVE  Reading'
  BY DEF Reading, Hole

(* A value is next: its first token is read, from i on.                    *)
LEMMA ReadOn ==
  ASSUME Reading, text \in Bytes, phase' = "value", UNCHANGED <<text, job, parsed>>,
         NEW i \in Nat \ {0}, Get(i), Tree(dom', Hole')
  PROVE  Reading'
  BY GetKeepsToken DEF Reading

LEMMA OpenedHole ==
  ASSUME Stacks, phase = "value", NEW array \in BOOLEAN, Open(array)
  PROVE  /\ phase' = "value" /\ text' = text
         /\ Hole' = IF array THEN NoHole ELSE object_element'
  <1>1. states \in Seq(BOOLEAN) /\ states' = Append(states, array)
    BY DEF Stacks, Open
  <1>2. states' # <<>> /\ Last(states') = array
    BY <1>1 DEF Last
  <1> QED
    BY <1>2 DEF Hole, Open

LEMMA ParserKeepsReading ==
  ASSUME Stacks, Reading, ParserNext, UNCHANGED <<job, parsed>>
  PROVE  Reading'
  <1>1. CASE ReadEmptyObject \/ ReadEmptyArray
    <2>1. PICK type \in {"array", "object"} : dom' = HandleValue(EmptyNode(type))
      BY <1>1 DEF ReadEmptyObject, ReadEmptyArray, ReadEmpty
    <2>2. /\ phase = "value" /\ phase' = "after" /\ next' = Token(next)[3] /\ text' = text
          /\ last_token[1] # "parse_error" /\ Token(next)[1] # "parse_error"
      BY <1>1 DEF ReadEmptyObject, ReadEmptyArray, ReadEmpty, Reads
    <2>3. text \in Bytes /\ next' \in Nat \ {0}
      BY <2>2, GoesOn DEF WellFormed
    <2> QED
      BY <2>1, <2>2, <2>3, EmptyTree, ReadPast
  <1>2. CASE OpenObject
    <2> DEFINE d == HandleValue(EmptyNode("object"))
               n == Len(dom) + 1
               k == Token(next)[2]
    <2>1. /\ phase = "value" /\ last_token[1] = "begin_object" /\ KeyAt(next)
          /\ Key(d, n, k) /\ Get(ValueAt(next)) /\ Open(FALSE)
      BY <1>2 DEF OpenObject, Reads
    <2>2. text \in Bytes /\ IsKey(k) /\ ValueAt(next) \in Nat \ {0}
      BY <2>1, GoesOn, KeyIs
    <2>3. Tree(d, NoHole)
      BY <2>1, EmptyTree
    <2>4. IsDom(d) /\ n \in 1 .. Len(d) /\ d[n][1] = "object"
      <3>1. PICK c : EmptyNode("object") = <<"object", c>>
        BY DEF EmptyNode
      <3>2. Extends(d, "object", c) /\ Len(dom) \in Nat
        BY <2>1, <3>1, Handled, Grow DEF Stacks
      <3> HIDE DEF d
      <3> QED
        BY <3>2 DEF Extends
    <2> HIDE DEF d, n, k
    <2>5. Tree(dom', <<n, k>>) /\ object_element' = <<n, k>>
      BY <2>1, <2>2, <2>3, <2>4, KeyedTree, Keyed
    <2>6. phase' = "value" /\ text' = text /\ Hole' = object_element'
      BY <2>1, OpenedHole
    <2> QED
      BY <2>1, <2>2, <2>5, <2>6, ReadOn
  <1>3. CASE OpenArray
    <2>1. /\ phase = "value" /\ last_token[1] = "begin_array" /\ Get(next) /\ Open(TRUE)
          /\ dom' = HandleValue(EmptyNode("array"))
      BY <1>3 DEF OpenArray, Reads
    <2>2. text \in Bytes /\ next \in Nat \ {0}
      BY <2>1, GoesOn
    <2>3. phase' = "value" /\ text' = text /\ Hole' = NoHole
      BY <2>1, OpenedHole
    <2> QED
      BY <2>1, <2>2, <2>3, EmptyTree, ReadOn
  <1>4. CASE ReadScalar
    <2>1. PICK type \in DOMAIN Scalars :
            phase = "value" /\ last_token[1] = type /\ dom' = HandleValue(<<Scalars[type], last_token[2]>>)
      BY <1>4 DEF ReadScalar, Reads
    <2>2. phase' = "after" /\ UNCHANGED <<text, next>>
      BY <1>4 DEF ReadScalar
    <2>3. /\ type # "parse_error" /\ Scalars[type] \notin {"array", "object"}
          /\ Scalars[type] = "string" => type = "value_string"
          /\ Scalars[type] = "unsigned" => type = "value_unsigned"
          /\ Scalars[type] = "integer" => type = "value_integer"
      BY DEF Scalars
    <2>4. text \in Bytes /\ next \in Nat \ {0} /\ WellFormed(last_token)
      BY <2>1, <2>3, GoesOn DEF Reading
    <2>5. Sound(Scalars[type], last_token[2], Len(dom) + 1, Len(dom) + 1, NoHole)
      BY <2>1, <2>3, <2>4 DEF Sound, WellFormed
    <2>6. Tree(dom', NoHole) /\ dom' # <<>>
      BY <2>1, <2>5, HandledTree DEF Reading
    <2> QED
      BY <2>2, <2>4, <2>6, ReadPast
  <1>5. CASE NextElement
    <2>1. /\ phase = "after" /\ phase' = "value" /\ states # <<>> /\ states[Len(states)] = TRUE
          /\ Token(next)[1] # "parse_error" /\ Get(Token(next)[3])
          /\ UNCHANGED <<text, states, dom, object_element>>
      BY <1>5 DEF NextElement, Inside
    <2>2. text \in Bytes /\ Token(next)[3] \in Nat \ {0}
      BY <2>1, GoesOn DEF WellFormed
    <2>3. Hole = NoHole /\ Hole' = NoHole
      BY <2>1 DEF Hole, Last
    <2>4. Tree(dom', NoHole)
      BY <2>1, <2>3 DEF Reading
    <2> QED
      BY <2>1, <2>2, <2>3, <2>4, ReadOn
  <1>6. CASE NextMember
    <2> DEFINE i == Token(next)[3]
               n == Last(ref_stack)
               k == Token(i)[2]
    <2>1. /\ phase = "after" /\ phase' = "value" /\ states # <<>> /\ states[Len(states)] = FALSE
          /\ Token(next)[1] # "parse_error" /\ KeyAt(i) /\ Key(dom, n, k) /\ Get(ValueAt(i))
          /\ UNCHANGED <<text, states>>
      BY <1>6 DEF NextMember, Inside
    <2>2. text \in Bytes /\ i \in Nat \ {0}
      BY <2>1, GoesOn DEF WellFormed
    <2>3. IsKey(k) /\ ValueAt(i) \in Nat \ {0}
      BY <2>1, <2>2, KeyIs
    <2>4. IsDom(dom) /\ n \in 1 .. Len(dom) /\ dom[n][1] = "object"
      BY <2>1 DEF Stacks, Last
    <2> HIDE DEF i, n, k
    <2>5. Tree(dom, NoHole)
      BY <2>1 DEF Reading, Hole
    <2>6. Tree(dom', <<n, k>>) /\ object_element' = <<n, k>>
      BY <2>1, <2>3, <2>4, <2>5, KeyedTree, Keyed
    <2>7. Hole' = object_element'
      BY <2>1 DEF Hole, Last
    <2> QED
      BY <2>1, <2>2, <2>3, <2>6, <2>7, ReadOn
  <1>7. CASE Close
    <2>1. /\ phase = "after" /\ phase' = "after" /\ next' = Token(next)[3]
          /\ Token(next)[1] # "parse_error" /\ UNCHANGED <<text, dom>>
      BY <1>7 DEF Close, Inside
    <2>2. text \in Bytes /\ next' \in Nat \ {0}
      BY <2>1, GoesOn DEF WellFormed
    <2>3. Tree(dom, NoHole) /\ dom # <<>>
      BY <2>1 DEF Reading, Hole
    <2> QED
      BY <2>1, <2>2, <2>3, ReadPast
  <1>8. CASE Finish
    BY <1>8 DEF Finish, Reading, Hole
  <1>9. CASE Throw
    BY <1>9 DEF Throw, Reading
  <1> QED
    BY <1>1, <1>2, <1>3, <1>4, <1>5, <1>6, <1>7, <1>8, <1>9 DEF ParserNext

LEMMA UntouchedReading ==
  ASSUME Reading, UNCHANGED <<parser, job, parsed>>
  PROVE  Reading'
  BY DEF Reading, parser, Hole

LEMMA NextKeepsReading ==
  ASSUME Stacks, Reading, [Next]_vars
  PROVE  Reading'
  <1>1. CASE StartParse
    BY <1>1, StartParseKeepsReading
  <1>2. CASE ParserStep
    BY <1>2, ParserKeepsReading DEF ParserStep
  <1>3. CASE ReadAmounts
    <2>1. /\ phase = "done" /\ job.task = "load" /\ parsed' = dom /\ phase' = "idle" /\ job' = job
      BY <1>3 DEF ReadAmounts
    <2>2. IsDom(dom) /\ Tree(dom, NoHole)
      BY <2>1 DEF Stacks, Reading, Hole
    <2> QED
      BY <2>1, <2>2 DEF Reading
  <1>4. CASE ParseThrows \/ RefuseRest \/ InvalidParams \/ CallService \/ LackParameter
    <2>1. UNCHANGED <<parser, job, parsed>>
      BY <1>4 DEF ParseThrows, RefuseRest, InvalidParams, CallService, LackParameter, Becomes
    <2> QED
      BY <2>1, UntouchedReading
  <1>5. CASE Load \/ LoadFails \/ UNCHANGED vars
    <2>1. UNCHANGED <<parser, job, parsed>>
      BY <1>5 DEF Load, LoadFails, Becomes, vars
    <2> QED
      BY <2>1, UntouchedReading
  <1> QED
    BY <1>1, <1>2, <1>3, <1>4, <1>5 DEF Next, Ended

(* No string that the program has read makes dump throw type_error 316:    *)
(* what the lexer lets through, or writes itself for an escape, is UTF-8   *)
(* to the other automaton, that of the serializer.  So the constructor of  *)
(* ItemHolder, which dumps the descriptions, fails for no name in them.    *)
DumpNeverThrows ==
  /\ phase = "done" => CanDump(dom)
  /\ parsed # <<>> => CanDump(parsed)

THEOREM ReadStringsCanBeDumped == Spec => []DumpNeverThrows
  <1>1. Init => Stacks /\ Reading
    BY DEF Init, ParserInit, Stacks, Reading
  <1>2. Stacks /\ Reading /\ [Next]_vars => (Stacks /\ Reading)'
    BY NextKeepsStacks, NextKeepsReading
  <1>3. Stacks /\ Reading => DumpNeverThrows
    BY TreeCanBeDumped DEF Stacks, Reading, Hole, DumpNeverThrows
  <1> QED
    BY <1>1, <1>2, <1>3, PTL DEF Spec

(* When a value is complete, every key has got the value that its null     *)
(* stood for, and every element and member is a node that was read after   *)
(* the structure: whoever follows the pointers finds a node, and gets to   *)
(* the end.                                                                *)
ValueIsTree ==
  phase = "done" =>
    /\ 1 \in DOMAIN dom
    /\ \A n \in DOMAIN dom : dom[n][1] \in {"array", "object"} =>
         \A k \in DOMAIN dom[n][2] : dom[n][2][k] \in n + 1 .. Len(dom)

THEOREM CompleteValueIsTree == Spec => []ValueIsTree
  <1>1. Init => Stacks /\ Reading
    BY DEF Init, ParserInit, Stacks, Reading
  <1>2. Stacks /\ Reading /\ [Next]_vars => (Stacks /\ Reading)'
    BY NextKeepsStacks, NextKeepsReading
  <1>3. Stacks /\ Reading => ValueIsTree
    <2>1. SUFFICES ASSUME Stacks, Reading, phase = "done" PROVE ValueIsTree
      BY DEF ValueIsTree
    <2>2. IsDom(dom) /\ Tree(dom, NoHole) /\ dom # <<>>
      BY <2>1 DEF Stacks, Reading, Hole
    <2>3. DOMAIN dom = 1 .. Len(dom) /\ 1 \in DOMAIN dom
      BY <2>2 DEF IsDom
    <2>4. ASSUME NEW n \in DOMAIN dom, dom[n][1] \in {"array", "object"},
                 NEW k \in DOMAIN dom[n][2]
          PROVE  dom[n][2][k] \in n + 1 .. Len(dom)
      <3>1. Sound(dom[n][1], dom[n][2], n, Len(dom), NoHole) /\ <<n, k>> # NoHole
        BY <2>2, <2>3 DEF Tree, NoHole
      <3>2. ASSUME NEW S, NEW q \in Seq(S), NEW i \in DOMAIN q PROVE q[i] \in S
        BY <3>2
      <3> QED
        BY <2>4, <3>1, <3>2 DEF Sound
    <2> QED
      BY <2>3, <2>4 DEF ValueIsTree
  <1> QED
    BY <1>1, <1>2, <1>3, PTL DEF Spec

-----------------------------------------------------------------------------
(* The order of std::map on keys, told by the first byte that differs.     *)
Common(a, b, n) == n <= Len(a) /\ n <= Len(b) /\ \A k \in 1 .. n : a[k] = b[k]

Precedes(a, b) ==
  \E n \in Nat : Common(a, b, n) /\ n < Len(b) /\ (n = Len(a) \/ a[n + 1] < b[n + 1])

LEMMA ByteOf ==
  ASSUME NEW a \in Bytes
  PROVE  Len(a) \in Nat /\ \A k \in 1 .. Len(a) : a[k] \in Int
  <1>1. ASSUME NEW k \in 1 .. Len(a) PROVE a[k] \in Int
    <2>1. a[k] \in 0 .. 255
      BY ByteThere
    <2>2. \A y \in 0 .. 255 : y \in Int
      OBVIOUS
    <2> QED
      BY ONLY <2>1, <2>2
  <1> QED
    BY <1>1 DEF Bytes

LEMMA LongestCommon ==
  ASSUME NEW a \in Bytes, NEW b \in Bytes
  PROVE  \E m \in Nat : Common(a, b, m) /\ \A n \in Nat : Common(a, b, n) => n <= m
  <1> DEFINE Left == {x \in Nat : \E n \in Nat : Common(a, b, n) /\ x = Len(a) - n}
  <1>1. Len(a) \in Nat /\ Len(b) \in Nat
    BY ByteOf
  <1>2. Common(a, b, 0)
    BY <1>1 DEF Common
  <1>3. \A n \in Nat : Common(a, b, n) => Len(a) - n \in Left
    BY <1>1 DEF Common
  <1>4. Left \subseteq Nat /\ Left # {}
    BY <1>2, <1>3
  <1>5. PICK x \in Left : \A y \in Left : x <= y
    <2> HIDE DEF Left
    <2> QED
      BY <1>4, Least
  <1>6. PICK m \in Nat : Common(a, b, m) /\ x = Len(a) - m
    OBVIOUS
  <1>7. ASSUME NEW n \in Nat, Common(a, b, n) PROVE n <= m
    <2>1. Len(a) - n \in Left
      BY <1>3, <1>7
    <2>2. x <= Len(a) - n
      <3> HIDE DEF Left
      <3> QED
        BY <1>5, <2>1
    <2> QED
      BY <1>1, <1>6, <2>2
  <1> QED
    BY <1>6, <1>7

LEMMA PrecedesOrders ==
  ASSUME NEW a \in Bytes, NEW b \in Bytes
  PROVE  /\ ~Precedes(a, a)
         /\ a = b \/ Precedes(a, b) \/ Precedes(b, a)
  <1>1. /\ Len(a) \in Nat /\ \A k \in 1 .. Len(a) : a[k] \in Int
        /\ Len(b) \in Nat /\ \A k \in 1 .. Len(b) : b[k] \in Int
    BY ByteOf
  <1>2. ~Precedes(a, a)
    BY <1>1 DEF Precedes
  <1>3. PICK m \in Nat : Common(a, b, m) /\ \A n \in Nat : Common(a, b, n) => n <= m
    BY LongestCommon
  <1>4. m <= Len(a) /\ m <= Len(b) /\ Common(b, a, m)
    BY <1>3 DEF Common
  <1>5. CASE m = Len(a) /\ m = Len(b)
    <2>1. \A k \in 1 .. Len(a) : a[k] = b[k]
      BY <1>3, <1>5 DEF Common
    <2>2. ASSUME NEW S, NEW s \in Seq(S), NEW u \in Seq(S), Len(s) = Len(u),
                 \A k \in 1 .. Len(s) : s[k] = u[k]
          PROVE  s = u
      BY <2>2, SeqEqual
    <2>3. a = b
      BY <1>5, <2>1, <2>2 DEF Bytes
    <2> QED
      BY <1>2, <2>3
  <1>6. CASE m = Len(a) /\ m < Len(b)
    BY <1>2, <1>3, <1>6 DEF Precedes
  <1>7. CASE m < Len(a) /\ m = Len(b)
    BY <1>2, <1>4, <1>7 DEF Precedes
  <1>8. CASE m < Len(a) /\ m < Len(b)
    <2>1. m + 1 \in 1 .. Len(a) /\ m + 1 \in 1 .. Len(b) /\ m + 1 \in Nat
      BY <1>1, <1>8
    <2>2. a[m + 1] # b[m + 1]
      <3>1. SUFFICES ASSUME a[m + 1] = b[m + 1] PROVE FALSE
        OBVIOUS
      <3>2. \A k \in 1 .. m + 1 : k \in 1 .. m \/ k = m + 1
        OBVIOUS
      <3>3. Common(a, b, m + 1)
        BY <1>3, <2>1, <3>1, <3>2 DEF Common
      <3> QED
        BY <1>3, <2>1, <3>3
    <2>3. a[m + 1] \in Int /\ b[m + 1] \in Int
      BY <1>1, <2>1
    <2>4. a[m + 1] < b[m + 1] \/ b[m + 1] < a[m + 1]
      BY <2>2, <2>3
    <2> QED
      BY <1>2, <1>3, <1>4, <1>8, <2>4 DEF Precedes
  <1> QED
    BY <1>1, <1>4, <1>5, <1>6, <1>7, <1>8

LEMMA PrecedesTransitive ==
  ASSUME NEW a \in Bytes, NEW b \in Bytes, NEW c \in Bytes, Precedes(a, b), Precedes(b, c)
  PROVE  Precedes(a, c)
  <1>1. /\ Len(a) \in Nat /\ \A k \in 1 .. Len(a) : a[k] \in Int
        /\ Len(b) \in Nat /\ \A k \in 1 .. Len(b) : b[k] \in Int
        /\ Len(c) \in Nat /\ \A k \in 1 .. Len(c) : c[k] \in Int
    BY ByteOf
  <1>2. PICK m \in Nat : Common(a, b, m) /\ m < Len(b) /\ (m = Len(a) \/ a[m + 1] < b[m + 1])
    BY DEF Precedes
  <1>3. PICK n \in Nat : Common(b, c, n) /\ n < Len(c) /\ (n = Len(b) \/ b[n + 1] < c[n + 1])
    BY DEF Precedes
  <1>4. CASE m < n
    <2>1. b[m + 1] = c[m + 1] /\ m + 1 <= Len(c)
      BY <1>3, <1>4 DEF Common
    <2>2. Common(a, c, m)
      BY <1>2, <1>3, <1>4 DEF Common
    <2> QED
      BY <1>1, <1>2, <2>1, <2>2 DEF Precedes
  <1>5. CASE n < m
    <2>1. a[n + 1] = b[n + 1] /\ n # Len(b) /\ n # Len(a)
      BY <1>1, <1>2, <1>5 DEF Common
    <2>2. Common(a, c, n)
      BY <1>2, <1>3, <1>5 DEF Common
    <2> QED
      BY <1>3, <2>1, <2>2 DEF Precedes
  <1>6. CASE n = m
    <2>1. Common(a, c, m)
      BY <1>2, <1>3, <1>6 DEF Common
    <2>2. CASE m = Len(a)
      BY <1>3, <1>6, <2>1, <2>2 DEF Precedes
    <2>3. CASE m # Len(a)
      <3>1. m + 1 \in 1 .. Len(a) /\ m + 1 \in 1 .. Len(b) /\ m + 1 \in 1 .. Len(c)
        BY <1>1, <1>2, <1>3, <1>6, <2>3 DEF Common
      <3>2. a[m + 1] < b[m + 1] /\ b[m + 1] < c[m + 1]
        BY <1>1, <1>2, <1>3, <1>6, <2>3
      <3>3. a[m + 1] < c[m + 1]
        BY <1>1, <3>1, <3>2
      <3> QED
        BY <1>3, <1>6, <2>1, <3>3 DEF Precedes
    <2> QED
      BY <2>2, <2>3
  <1> QED
    BY <1>4, <1>5, <1>6

LEMMA BeforeIsPrecedes ==
  ASSUME NEW a \in Bytes, NEW b \in Bytes
  PROVE  Before(a, b) <=> Precedes(a, b)
  <1> DEFINE same == {n \in 0 .. Len(a) : n <= Len(b) /\ SubSeq(a, 1, n) = SubSeq(b, 1, n)}
             x == Max(same)
  <1>1. /\ Len(a) \in Nat /\ \A k \in 1 .. Len(a) : a[k] \in Int
        /\ Len(b) \in Nat /\ \A k \in 1 .. Len(b) : b[k] \in Int
    BY ByteOf
  <1>2. PICK m \in Nat : Common(a, b, m) /\ \A n \in Nat : Common(a, b, n) => n <= m
    BY LongestCommon
  <1>3. ASSUME NEW n \in Nat PROVE n \in same <=> Common(a, b, n)
    <2>1. ASSUME n <= Len(a), n <= Len(b)
          PROVE  SubSeq(a, 1, n) = SubSeq(b, 1, n) <=> \A k \in 1 .. n : a[k] = b[k]
      <3>1. ASSUME NEW S, NEW s \in Seq(S), n <= Len(s)
            PROVE  /\ SubSeq(s, 1, n) \in Seq(S) /\ Len(SubSeq(s, 1, n)) = n
                   /\ \A k \in 1 .. n : SubSeq(s, 1, n)[k] = s[k]
        BY <3>1
      <3> DEFINE u == SubSeq(a, 1, n)
                 v == SubSeq(b, 1, n)
      <3>2. /\ u \in Bytes /\ Len(u) = n /\ \A k \in 1 .. n : u[k] = a[k]
            /\ v \in Bytes /\ Len(v) = n /\ \A k \in 1 .. n : v[k] = b[k]
        <4>1. u \in Bytes /\ Len(u) = n /\ \A k \in 1 .. n : u[k] = a[k]
          BY <2>1, <3>1 DEF Bytes
        <4>2. v \in Bytes /\ Len(v) = n /\ \A k \in 1 .. n : v[k] = b[k]
          BY <2>1, <3>1 DEF Bytes
        <4> QED
          BY <4>1, <4>2
      <3> HIDE DEF u, v
      <3>3. ASSUME \A k \in 1 .. n : a[k] = b[k] PROVE u = v
        <4>1. \A k \in 1 .. Len(u) : u[k] = v[k]
          BY <3>2, <3>3
        <4> QED
          BY <3>2, <4>1, SeqEqual DEF Bytes
      <3>4. u = v <=> \A k \in 1 .. n : a[k] = b[k]
        BY <3>2, <3>3
      <3> QED
        BY <3>4 DEF u, v
    <2> QED
      BY <1>1, <2>1 DEF Common
  <1>4. same \subseteq Nat
    BY <1>1
  <1> HIDE DEF same
  <1>5. m \in same /\ \A n \in same : m >= n
    BY <1>2, <1>3, <1>4
  <1>6. x \in same /\ \A n \in same : x >= n
    BY <1>5 DEF Max
  <1>7. x = m
    <2>1. \A p, q \in Nat : p >= q /\ q >= p => p = q
      OBVIOUS
    <2> HIDE DEF x
    <2> QED
      BY <1>4, <1>5, <1>6, <2>1
  <1>8. Before(a, b) <=> m < Len(b) /\ (m = Len(a) \/ a[m + 1] < b[m + 1])
    BY <1>7 DEF Before, same
  <1>9. ASSUME NEW n \in Nat, Common(a, b, n), n < Len(b), n = Len(a) \/ a[n + 1] < b[n + 1]
        PROVE  n = m
    <2>1. n <= m /\ m <= Len(a) /\ m <= Len(b)
      BY <1>2, <1>9 DEF Common
    <2>2. CASE n = Len(a)
      BY <1>1, <2>1, <2>2
    <2>3. CASE n # Len(a) /\ n < m
      <3>1. n + 1 \in 1 .. m /\ n + 1 \in 1 .. Len(a) /\ n + 1 \in 1 .. Len(b)
        BY <1>1, <2>1, <2>3
      <3>2. a[n + 1] = b[n + 1] /\ a[n + 1] \in Int
        BY <1>1, <1>2, <3>1 DEF Common
      <3> QED
        BY <1>9, <2>3, <3>2
    <2> QED
      BY <1>1, <2>1, <2>2, <2>3
  <1> QED
    BY <1>2, <1>8, <1>9 DEF Precedes

(* A loop over an object visits its members, each one once, in the order   *)
(* of their keys.                                                          *)
LEMMA KeysAreMembers ==
  ASSUME NEW members, IsFiniteSet(DOMAIN members), DOMAIN members \subseteq Bytes
  PROVE  /\ DOMAIN Keys(members) = 1 .. Cardinality(DOMAIN members)
         /\ \A i \in DOMAIN Keys(members) : Keys(members)[i] \in DOMAIN members
         /\ \A k \in DOMAIN members : \E i \in DOMAIN Keys(members) : Keys(members)[i] = k
  <1> DEFINE names == DOMAIN members
             N == Cardinality(names)
             Smaller(k) == {j \in names : Before(j, k)}
             rank == [k \in names |-> Cardinality(Smaller(k))]
  <1>1. N \in Nat
    BY FS_CardinalityType
  <1>2. \A a, b \in names : a = b \/ Before(a, b) \/ Before(b, a)
    BY PrecedesOrders, BeforeIsPrecedes
  <1>3. \A a \in names : ~Before(a, a)
    BY PrecedesOrders, BeforeIsPrecedes
  <1>4. \A a, b, c \in names : Before(a, b) /\ Before(b, c) => Before(a, c)
    BY PrecedesTransitive, BeforeIsPrecedes
  <1>5. ASSUME NEW k \in names
        PROVE  IsFiniteSet(Smaller(k)) /\ Cardinality(Smaller(k)) \in 0 .. N - 1
    <2>1. Smaller(k) \in SUBSET names /\ Smaller(k) # names
      BY <1>3
    <2> HIDE DEF Smaller, names
    <2>2. IsFiniteSet(Smaller(k)) /\ Cardinality(Smaller(k)) <= N /\ Cardinality(Smaller(k)) # N
      BY <2>1, FS_Subset DEF names
    <2>3. Cardinality(Smaller(k)) \in Nat
      BY <2>2, FS_CardinalityType
    <2> HIDE DEF N
    <2> QED
      BY <1>1, <2>2, <2>3
  <1>6. ASSUME NEW a \in names, NEW b \in names, Before(a, b)
        PROVE  Cardinality(Smaller(a)) # Cardinality(Smaller(b))
    <2>1. Smaller(a) \in SUBSET Smaller(b) /\ a \in Smaller(b) /\ a \notin Smaller(a)
      BY <1>3, <1>4, <1>6
    <2> HIDE DEF Smaller
    <2> QED
      BY <1>5, <2>1, FS_Subset
  <1>7. rank \in Injection(names, 0 .. N - 1)
    <2>1. rank \in [names -> 0 .. N - 1]
      <3> HIDE DEF Smaller, N
      <3> QED
        BY <1>5
    <2>2. \A a, b \in names : rank[a] = rank[b] => a = b
      <3> HIDE DEF Smaller
      <3> QED
        BY <1>2, <1>6
    <2>3. DOMAIN rank = names
      OBVIOUS
    <2> HIDE DEF rank, N, names
    <2> QED
      BY <2>1, <2>2, <2>3 DEF Injection, IsInjective
  <1>8. IsFiniteSet(0 .. N - 1) /\ Cardinality(0 .. N - 1) = N
    <2>1. 0 \in Int /\ N - 1 \in Int
      BY <1>1
    <2> HIDE DEF N
    <2> QED
      BY <1>1, <2>1, FS_Interval
  <1>9. rank \in Surjection(names, 0 .. N - 1)
    <2> HIDE DEF rank
    <2> QED
      BY <1>7, <1>8, FS_Injection
  <1>10. \A n \in 0 .. N - 1 : \E k \in names : Cardinality(Smaller(k)) = n
    <2> HIDE DEF Smaller, N, names
    <2> QED
      BY <1>9 DEF Surjection
  <1>11. /\ DOMAIN Keys(members) = 1 .. N
         /\ \A i \in 1 .. N :
              Keys(members)[i] = CHOOSE k \in names : Cardinality(Smaller(k)) = i - 1
    BY DEF Keys
  <1>12. ASSUME NEW i \in 1 .. N
         PROVE  Keys(members)[i] \in names /\ Cardinality(Smaller(Keys(members)[i])) = i - 1
    <2>1. i - 1 \in 0 .. N - 1
      BY <1>1
    <2>2. \E k \in names : Cardinality(Smaller(k)) = i - 1
      BY <1>10, <2>1
    <2> HIDE DEF Smaller, names, N
    <2> QED
      BY <1>11, <2>2
  <1>13. ASSUME NEW k \in names PROVE \E i \in 1 .. N : Keys(members)[i] = k
    <2> DEFINE i == Cardinality(Smaller(k)) + 1
    <2>1. i \in 1 .. N /\ i - 1 = Cardinality(Smaller(k))
      <3>1. Cardinality(Smaller(k)) \in 0 .. N - 1
        BY <1>5
      <3> HIDE DEF Smaller, N
      <3> QED
        BY <1>1, <3>1
    <2>2. Keys(members)[i] \in names /\ Cardinality(Smaller(Keys(members)[i])) = Cardinality(Smaller(k))
      <3> HIDE DEF i, Smaller, names
      <3> QED
        BY <1>12, <2>1
    <2>3. Keys(members)[i] = k
      <3> HIDE DEF i, Smaller, names
      <3> QED
        BY <1>2, <1>6, <2>2
    <2> QED
      BY <2>1, <2>3
  <1> QED
    BY <1>11, <1>12, <1>13

-----------------------------------------------------------------------------
(* What the program is given to work on.                                   *)
LEMMA EntriesAreNodes ==
  ASSUME NEW d, IsDom(d), Tree(d, NoHole), d # <<>>
  PROVE  /\ \E n \in Nat : DOMAIN Entries(d) = 1 .. n
         /\ \A i \in DOMAIN Entries(d) : Entries(d)[i] \in 1 .. Len(d)
  <1> DEFINE t == d[1][1]
             c == d[1][2]
  <1>1. 1 \in 1 .. Len(d) /\ Len(d) \in Nat
    BY DEF IsDom
  <1>2. Sound(t, c, 1, Len(d), NoHole)
    BY <1>1 DEF Tree
  <1>3. 1 + 1 .. Len(d) \subseteq 1 .. Len(d)
    BY <1>1
  <1> HIDE DEF c, t
  <1>4. CASE t = "array"
    <2>1. ASSUME NEW S, NEW q \in Seq(S)
          PROVE  Len(q) \in Nat /\ DOMAIN q = 1 .. Len(q) /\ \A i \in DOMAIN q : q[i] \in S
      OBVIOUS
    <2>2. Entries(d) = c
      BY <1>4 DEF Entries, c, t
    <2>3. c \in Seq(1 + 1 .. Len(d))
      BY <1>2, <1>4 DEF Sound
    <2> QED
      BY <1>3, <2>1, <2>2, <2>3
  <1>5. CASE t = "object"
    <2>1. /\ IsFiniteSet(DOMAIN c) /\ DOMAIN c \subseteq Bytes
          /\ \A k \in DOMAIN c : c[k] \in 1 + 1 .. Len(d)
      BY <1>2, <1>5 DEF Sound, IsKey, NoHole
    <2>2. /\ DOMAIN Keys(c) = 1 .. Cardinality(DOMAIN c)
          /\ \A i \in DOMAIN Keys(c) : Keys(c)[i] \in DOMAIN c
      BY <2>1, KeysAreMembers
    <2>3. Cardinality(DOMAIN c) \in Nat
      BY <2>1, FS_CardinalityType
    <2>4. Entries(d) = [i \in DOMAIN Keys(c) |-> c[Keys(c)[i]]]
      BY <1>5 DEF Entries, c, t
    <2> QED
      BY <1>3, <2>1, <2>2, <2>3, <2>4
  <1>6. CASE t = "null"
    <2>1. Entries(d) = <<>>
      BY <1>6 DEF Entries, t
    <2>2. DOMAIN Entries(d) = 1 .. 0
      BY <2>1
    <2> QED
      BY <2>2
  <1>7. CASE t \notin {"array", "object", "null"}
    <2>1. Entries(d) = <<1>>
      BY <1>7 DEF Entries, t
    <2>2. DOMAIN Entries(d) = 1 .. 1 /\ Entries(d)[1] = 1
      BY <2>1
    <2> QED
      BY <1>1, <2>2
  <1> QED
    BY <1>4, <1>5, <1>6, <1>7

(* Every number of a value is converted to a size_t.                       *)
LEMMA NumberIsSize ==
  ASSUME NEW d, IsDom(d), Tree(d, NoHole), NEW n \in 1 .. Len(d), NEW k,
         Has(d, n, k), IsNumber(Member(d, n, k)), NEW undefined \in SizeT
  PROVE  GetSize(Member(d, n, k), undefined) \in SizeT
  <1>1. d[n][2][k] \in 1 .. Len(d)
    <2>1. Sound(d[n][1], d[n][2], n, Len(d), NoHole) /\ <<n, k>> # NoHole
      BY DEF Tree, NoHole
    <2>2. d[n][2][k] \in n + 1 .. Len(d)
      BY <2>1 DEF Has, Sound
    <2> QED
      BY <2>2
  <1> DEFINE t == Member(d, n, k)[1]
             c == Member(d, n, k)[2]
  <1>2. Sound(t, c, d[n][2][k], Len(d), NoHole)
    BY <1>1 DEF Tree, Member
  <1>3. CASE t \in {"unsigned", "integer"}
    <2>1. c \in Int
      <3>1. Modulus \in Nat \ {0} /\ Modulus \div 2 \in Int
        BY JsonTextAssumption
      <3> HIDE DEF t, c
      <3> QED
        BY <1>2, <1>3, <3>1 DEF Sound
    <2>2. GetSize(Member(d, n, k), undefined) = c % Modulus
      BY <1>3 DEF GetSize
    <2> HIDE DEF t, c
    <2>3. c % Modulus \in 0 .. Modulus - 1
      BY <2>1, JsonTextAssumption
    <2> QED
      BY <2>2, <2>3 DEF SizeT
  <1>4. CASE t = "float"
    BY <1>4 DEF GetSize
  <1> QED
    BY <1>3, <1>4 DEF IsNumber

(* The map of an ItemHolder: from finitely many ids to the fields of each. *)
IsTable(m, width) ==
  \E ids \in SUBSET SizeT : IsFiniteSet(ids) /\ m \in [ids -> [1 .. width -> SizeT]]

LEMMA InsertGivesTable ==
  ASSUME NEW d, IsDom(d), Tree(d, NoHole), d # <<>>,
         NEW numbers, NEW strings, Readable(d, numbers, strings), Id \in numbers,
         NEW fields, NEW width, DOMAIN fields = 1 .. width,
         \A f \in 1 .. width : fields[f] \in numbers, NEW undefined \in SizeT
  PROVE  IsTable(Insert(d, fields, undefined), width)
  <1> DEFINE I == DOMAIN Entries(d)
             size(i, k) == GetSize(Member(d, Entries(d)[i], k), undefined)
             ids == {size(i, Id) : i \in I}
             first(x) == Min({i \in I : size(i, Id) = x})
             m == [x \in ids |-> [f \in DOMAIN fields |-> size(first(x), fields[f])]]
  <1>1. PICK n \in Nat : I = 1 .. n
    BY EntriesAreNodes
  <1>2. \A i \in I, k \in numbers : size(i, k) \in SizeT
    BY EntriesAreNodes, NumberIsSize DEF Readable
  <1>3. Insert(d, fields, undefined) = m
    BY DEF Insert
  <1> HIDE DEF I, size
  <1>4. ids \subseteq SizeT
    BY <1>2
  <1>5. IsFiniteSet(ids)
    <2> DEFINE image == [i \in I |-> size(i, Id)]
    <2>1. IsFiniteSet(I)
      BY <1>1, FS_Interval
    <2>2. image \in Surjection(I, ids)
      BY DEF Surjection
    <2> HIDE DEF image, ids
    <2> QED
      BY <2>1, <2>2, FS_Surjection
  <1>6. ASSUME NEW x \in ids PROVE first(x) \in I
    <2> DEFINE S == {i \in I : size(i, Id) = x}
    <2>1. S \subseteq Nat /\ S # {}
      BY <1>1
    <2>2. S \subseteq I
      OBVIOUS
    <2> HIDE DEF S
    <2>3. Min(S) \in S
      BY <2>1, MinIsLeast
    <2> QED
      BY <2>2, <2>3 DEF S
  <1> HIDE DEF ids, first
  <1>7. m \in [ids -> [1 .. width -> SizeT]]
    BY <1>2, <1>6
  <1> HIDE DEF m
  <1> QED
    BY <1>3, <1>4, <1>5, <1>7 DEF IsTable

(* A request calls the service with as many size_t as it has parameters,   *)
(* and an ItemHolder is made of two maps from finitely many size_t, one to *)
(* a cost and a cooking time and one to an amount.  This is what the model *)
(* of the service assumes of its items and of the requests it gets: in     *)
(* particular a session id may be any size_t, also one whose double is     *)
(* none.                                                                   *)
SizesFit ==
  /\ outcome[1] = "called" => outcome[2] \in [DOMAIN Parameters -> SizeT]
  /\ outcome[1] = "loaded" => IsTable(outcome[2], 2) /\ IsTable(outcome[3], 1)

LEMMA CallKeepsSizes ==
  ASSUME Stacks, Reading, CallService
  PROVE  SizesFit'
  <1> DEFINE c == [i \in DOMAIN Parameters |-> Member(dom, 1, Parameters[i])[2]]
  <1>1. outcome' = <<"called", c>> /\ UNCHANGED job
    BY DEF CallService, Becomes
  <1>2. IsDom(dom) /\ Tree(dom, NoHole) /\ 1 \in 1 .. Len(dom)
    <2>1. phase = "done"
      BY DEF CallService, IsRead
    <2>2. IsDom(dom) /\ Tree(dom, NoHole) /\ dom # <<>>
      BY <2>1 DEF Stacks, Reading, Hole
    <2> QED
      BY <2>2 DEF IsDom
  <1>3. ASSUME NEW i \in DOMAIN Parameters
        PROVE  Member(dom, 1, Parameters[i])[2] \in SizeT
    <2> DEFINE k == Parameters[i]
    <2>1. k \in {Id, Count, SessionId, OrderSum}
      <3>1. CASE job.task = "make_order"
        BY <3>1 DEF Parameters
      <3>2. CASE job.task # "make_order"
        BY <3>2 DEF Parameters
      <3> QED
        BY <3>1, <3>2
    <2>2. Has(dom, 1, k)
      BY DEF CallService
    <2>3. Member(dom, 1, k)[1] = "unsigned"
      BY <2>1, <2>2 DEF CallService, CheckParams
    <2>4. Sound(dom[1][1], dom[1][2], 1, Len(dom), NoHole) /\ <<1, k>> # NoHole
      BY <1>2 DEF Tree, NoHole
    <2> HIDE DEF k
    <2>5. dom[1][2][k] \in 1 + 1 .. Len(dom)
      BY <2>2, <2>4 DEF Has, Sound
    <2>6. Sound(Member(dom, 1, k)[1], Member(dom, 1, k)[2], dom[1][2][k], Len(dom), NoHole)
      BY <1>2, <2>5 DEF Tree, Member
    <2>7. Member(dom, 1, k)[2] \in SizeT
      BY <2>3, <2>6 DEF Sound, SizeT
    <2> QED
      BY <2>7 DEF k
  <1>4. c \in [DOMAIN Parameters -> SizeT]
    BY <1>3
  <1> HIDE DEF c
  <1>5. (DOMAIN Parameters)' = DOMAIN Parameters /\ SizeT' = SizeT
    BY <1>1 DEF Parameters, SizeT
  <1> QED
    BY <1>1, <1>4, <1>5 DEF SizesFit

LEMMA LoadKeepsSizes ==
  ASSUME Stacks, Reading, Load
  PROVE  SizesFit'
  <1>1. PICK undefined \in SizeT :
          outcome' = <<"loaded", Insert(parsed, <<Cost, CookingTime>>, undefined),
                       Insert(dom, <<Amount>>, undefined), Dump(parsed)>>
    BY DEF Load, Becomes
  <1>2. /\ IsDom(dom) /\ Tree(dom, NoHole) /\ dom # <<>>
        /\ IsDom(parsed) /\ Tree(parsed, NoHole) /\ parsed # <<>>
    BY DEF Load, BothRead, Stacks, Reading, Hole
  <1>3. /\ Readable(parsed, {Id, Cost, CookingTime}, {Name, PicUrl})
        /\ Readable(dom, {Id, Amount}, {})
    BY DEF Load, Acceptable
  <1>4. IsTable(Insert(parsed, <<Cost, CookingTime>>, undefined), 2)
    <2> DEFINE fields == <<Cost, CookingTime>>
    <2>1. DOMAIN fields = 1 .. 2 /\ \A f \in 1 .. 2 : fields[f] \in {Id, Cost, CookingTime}
      OBVIOUS
    <2> HIDE DEF fields
    <2>2. IsTable(Insert(parsed, fields, undefined), 2)
      BY <1>2, <1>3, <2>1, InsertGivesTable
    <2> QED
      BY <2>2 DEF fields
  <1>5. IsTable(Insert(dom, <<Amount>>, undefined), 1)
    <2> DEFINE fields == <<Amount>>
    <2>1. DOMAIN fields = 1 .. 1 /\ \A f \in 1 .. 1 : fields[f] \in {Id, Amount}
      OBVIOUS
    <2> HIDE DEF fields
    <2>2. IsTable(Insert(dom, fields, undefined), 1)
      BY <1>2, <1>3, <2>1, InsertGivesTable
    <2> QED
      BY <2>2 DEF fields
  <1> DEFINE descriptions == Insert(parsed, <<Cost, CookingTime>>, undefined)
             amounts == Insert(dom, <<Amount>>, undefined)
             dumped == Dump(parsed)
  <1>6. outcome' = <<"loaded", descriptions, amounts, dumped>>
    BY <1>1
  <1>7. IsTable(descriptions, 2) /\ IsTable(amounts, 1)
    BY <1>4, <1>5
  <1> HIDE DEF descriptions, amounts, dumped
  <1>8. outcome'[1] = "loaded" /\ outcome'[2] = descriptions /\ outcome'[3] = amounts
    BY <1>6
  <1> QED
    BY <1>7, <1>8 DEF SizesFit, IsTable, SizeT

LEMMA NextKeepsSizes ==
  ASSUME Stacks, Reading, SizesFit, [Next]_vars
  PROVE  SizesFit'
  <1>1. CASE UNCHANGED <<job, outcome>>
    BY <1>1 DEF SizesFit, Parameters, IsTable, SizeT
  <1>2. CASE outcome' \in {<<"thrown">>, <<"invalid">>}
    <2>1. outcome'[1] \in {"thrown", "invalid"}
      BY <1>2
    <2> QED
      BY <2>1 DEF SizesFit
  <1>3. CASE CallService
    BY <1>3, CallKeepsSizes
  <1>4. CASE Load
    BY <1>4, LoadKeepsSizes
  <1>5. CASE StartParse \/ ParserStep \/ ReadAmounts \/ Ended \/ UNCHANGED vars
    BY <1>1, <1>5 DEF StartParse, ParserStep, ReadAmounts, Ended, vars
  <1>6. CASE ParseThrows \/ RefuseRest \/ InvalidParams \/ LackParameter \/ LoadFails
    BY <1>2, <1>6 DEF ParseThrows, RefuseRest, InvalidParams, LackParameter, LoadFails, Becomes
  <1> QED
    BY <1>3, <1>4, <1>5, <1>6 DEF Next

THEOREM ServiceGetsSizes == Spec => []SizesFit
  <1>1. Init => Stacks /\ Reading
    BY DEF Init, ParserInit, Stacks, Reading
  <1>2. Init => SizesFit
    BY DEF Init, SizesFit
  <1>3. Stacks /\ Reading /\ [Next]_vars => (Stacks /\ Reading)'
    BY NextKeepsStacks, NextKeepsReading
  <1>4. Stacks /\ Reading /\ SizesFit /\ [Next]_vars => SizesFit'
    BY NextKeepsSizes
  <1> QED
    BY <1>1, <1>2, <1>3, <1>4, PTL DEF Spec
=============================================================================
