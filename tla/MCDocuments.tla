----------------------------- MODULE MCDocuments -----------------------------
(***************************************************************************)
(* Documents for TLC: every short text over a few pieces, every short      *)
(* numeral, strings at the boundaries of UTF-8 and of the escapes, and     *)
(* bodies and files with one thing wrong in each way.                      *)
(***************************************************************************)
EXTENDS DocumentsProperties

Texts(n, pieces) == UNION {{FlattenSeq(t) : t \in [1 .. k -> pieces]} : k \in 1 .. n}
Each(bytes) == {<<b>> : b \in bytes}
Runs(n, bytes) == UNION {[1 .. k -> bytes] : k \in 1 .. n}
Quoted(s) == <<34>> \o s \o <<34>>

(* { } [ ] : , and a string, a number, a space, null, NUL, a bad byte.     *)
Pieces == Each({123, 125, 91, 93, 58, 44}) \cup {<<34, 97, 34>>, <<49>>}
OtherPieces == Each({32, 0, 120}) \cup {<<110, 117, 108, 108>>}

ShortTexts == {<<>>} \cup Texts(4, Pieces) \cup Texts(3, Pieces \cup OtherPieces)

(* - 0 1 9 . e +                                                           *)
NumberTexts == Runs(4, {45, 48, 49, 57, 46, 101, 43})

(* Both ends of every range of bytes that the lexer or UTF-8 tells apart.  *)
EdgeBytes == {0, 31, 32, 92, 127, 128, 143, 144, 159, 160, 191, 192, 193, 194, 223,
              224, 225, 236, 237, 238, 239, 240, 241, 243, 244, 245, 255}

FourBytes ==
  {<<a, b, c, d>> : a \in {240, 241, 243, 244, 245}, b \in {127, 128, 143, 144, 191, 192},
                    c \in {127, 128, 191, 192}, d \in {127, 128, 191}}

(* \u and the digits of the ends of the surrogates and of the lengths of   *)
(* UTF-8; and a digit that is none.                                        *)
Units ==
  {<<92, 117>> \o u : u \in
     {<<48, 48, 48, 48>>, <<48, 48, 49, 70>>, <<48, 48, 55, 102>>, <<48, 48, 56, 48>>,
      <<48, 55, 70, 70>>, <<48, 56, 48, 48>>, <<68, 55, 70, 70>>, <<68, 56, 48, 48>>,
      <<100, 66, 102, 70>>, <<68, 67, 48, 48>>, <<68, 70, 70, 70>>, <<69, 48, 48, 48>>,
      <<70, 70, 70, 70>>, <<68, 103, 48, 48>>}}

StringTexts ==
  {Quoted(s) : s \in Runs(3, EdgeBytes) \cup FourBytes \cup Texts(2, Units)
                       \cup {<<92, c>> : c \in 0 .. 127}}

Marked == {ByteOrderMark \o <<49>>, <<239, 187, 49>>, <<239>>, <<49, 0, 49>>, <<49, 32>>}

-----------------------------------------------------------------------------
One(k, v) == Quoted(k) \o <<58>> \o v

(* Objects in which every parameter is missing or one of a few values.     *)
Values4 == {<<>>, <<49>>, <<45, 49>>, <<34, 34>>}
Objects ==
  {<<123>> \o Join(SelectSeq([i \in 1 .. 4 |->
       IF v[i] = <<>> THEN <<>> ELSE One(<<Id, Count, SessionId, OrderSum>>[i], v[i])],
       LAMBDA m : m # <<>>)) \o <<125>> : v \in [1 .. 4 -> Values4]}

(* The pieces of a body, and what one change makes of them.                *)
Body == <<<<123>>, Quoted(Id), <<58>>, <<49>>, <<44>>, Quoted(Count), <<58>>, <<50>>, <<44>>,
          Quoted(SessionId), <<58>>, <<51>>, <<125>>>>
Changed(pieces) ==
  {FlattenSeq(RemoveAt(pieces, i)) : i \in DOMAIN pieces}
  \cup {FlattenSeq(InsertAt(pieces, p[1], p[2])) : p \in (DOMAIN pieces) \X (Pieces \cup OtherPieces)}
  \cup {FlattenSeq([pieces EXCEPT ![p[1]] = p[2]]) :
          p \in (DOMAIN pieces) \X (Pieces \cup {Quoted(Id), Quoted(Count), <<91, 49, 93>>})}

BodyJobs ==
  {[task |-> "purchase", texts |-> <<t>>] :
     t \in ShortTexts \cup NumberTexts \cup StringTexts \cup Marked \cup Objects \cup Changed(Body)}
  \cup {[task |-> "make_order", texts |-> <<t>>] : t \in Objects}

-----------------------------------------------------------------------------
List(entries) == <<91>> \o Join(entries) \o <<93>>
Described(id, cost, name) ==
  <<123>> \o Join(<<One(Id, id), One(Cost, cost), One(CookingTime, <<53>>), One(Name, name),
                    One(PicUrl, Quoted(<<>>))>>) \o <<125>>
Stocked(id, amount) == <<123>> \o One(Id, id) \o <<44>> \o One(Amount, amount) \o <<125>>

(* 1, 2, -1, 1.9, 9e1 and null                                             *)
Sizes == {<<49>>, <<50>>, <<45, 49>>, <<49, 46, 57>>, <<57, 101, 49>>, <<110, 117, 108, 108>>}
Names == {Quoted(<<208, 144>>), Quoted(<<92, 117, 48, 48, 48, 48>>), <<49>>}

DescriptionTexts ==
  {List(<<Described(i, c, n)>>) : i \in Sizes, c \in Sizes, n \in Names}
  \cup {List(<<Described(i, <<49>>, Quoted(<<>>)), Described(j, <<50>>, Quoted(<<>>))>>) : i \in Sizes, j \in Sizes}
AmountTexts ==
  {List(<<Stocked(i, a)>>) : i \in Sizes, a \in Sizes}
  \cup {List(<<Stocked(i, <<51>>), Stocked(j, <<52>>)>>) : i \in Sizes, j \in Sizes}
  \cup {Stocked(<<49>>, <<49>>), <<123>> \o One(Id, Stocked(<<49>>, <<49>>)) \o <<125, 125>>}

DescriptionText == List(<<Described(<<49>>, <<55>>, Quoted(<<208, 144>>))>>)
AmountText == List(<<Stocked(<<49>>, <<57>>)>>)

LoadJobs ==
  {[task |-> "load", texts |-> <<d, AmountText>>] : d \in DescriptionTexts}
  \cup {[task |-> "load", texts |-> <<DescriptionText, a>>] :
          a \in AmountTexts \cup ({<<>>} \cup Texts(3, Pieces)) \cup {<<110, 117, 108, 108>>}}

MCJobs == BodyJobs \cup LoadJobs
=============================================================================
