----------------------------- MODULE MCLevMpack -----------------------------
EXTENDS LevMpack

Repeat(x, n) == [i \in 1 .. n |-> x]
List(s) == Tab(s, <<>>)

Numbers ==
  {0, 127, 128, 255, 256, 65535, 65536, 2147483647,
   -1, -32, -33, -128, -129, -32768, -32769, -2147483647}

(* Both sides of every boundary between two encodings, short of 2^16       *)
(* elements; one value that is too long, one too deep, one without an      *)
(* encoding and one that has both parts of a table.                        *)
MCValues ==
  {Nil, Bool(TRUE), Wide(203, <<127, 240, 0, 0, 0, 0, 0, 0>>)}
    \cup {Num(n) : n \in Numbers}
    \cup {Str(Repeat(97, n)) : n \in {0, 1, 31, 32, 35}}
    \cup {List(Repeat(Num(1), n)) : n \in {1, 15, 16}}
    \cup {Tab(<<>>, <<>>), Tab(<<>>, <<<<Str(<<97>>), Buf(<<98>>)>>, <<Num(200), Bool(FALSE)>>>>),
          Tab(<<>>, [i \in 1 .. 16 |-> <<Num(i), Nil>>]),
          List(<<List(<<Str(<<>>)>>), Tab(<<>>, <<<<Num(1), List(<<Num(300)>>)>>>>)>>),
          List(<<List(<<List(<<List(<<Nil>>)>>)>>)>>),
          Tab(<<Num(1)>>, <<<<Str(<<97>>), Num(2)>>>>), List(<<Func>>)}

(* Longer encodings than pack would choose, and a reserved byte. *)
MCForeign ==
  {<<205, 0, 5>>, <<218, 0, 1, 97>>, <<219, 0, 0, 0, 1, 9>>, <<220, 0, 2, 1, 2>>,
   <<221, 0, 0, 0, 1, 192>>, <<222, 0, 1, 161, 97, 1>>, <<223, 0, 0, 0, 1, 1, 1>>,
   <<202, 1, 2, 3, 4>>, <<145, 193>>}

(* A map. *)
MCMap == {Tab(<<>>, <<<<Str(<<97>>), Num(1)>>>>)}
=============================================================================
