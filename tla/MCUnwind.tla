------------------------------ MODULE MCUnwind ------------------------------
(***************************************************************************)
(* Programs for JSUnwind: constructs nested two or three deep around every *)
(* way to leave them.                                                      *)
(***************************************************************************)
EXTENDS JSUnwind

Leaf(t) == Stmt(t, 0, <<>>)
C == Leaf("call")
Then(s) == Stmt("block", 0, <<s, C>>)
Out(t) == Stmt(t, 1, <<>>)
Exits == {C, Leaf("return_v"), Leaf("return"), Leaf("throw"), Leaf("break"),
          Leaf("continue"), Out("break"), Out("continue")}

Try(b, c, f) == Stmt("try", 0, <<b, c, f>>)

\* A try statement in a loop inside a for-of loop.
TryInLoops ==
  {Stmt("forof", 1, <<Stmt("while", 0, <<Try(b, c, f)>>)>>) :
     b \in Exits, c \in {Absent, C},
     f \in {C, Leaf("break"), Leaf("return_v"), Out("continue")}}
  \cup {Stmt("forof", 1, <<Try(C, c, Absent)>>) : c \in Exits}

\* Loops in a try statement, left from the inner one.
LoopsInTry ==
  {Try(Stmt(o, 1, <<Then(Stmt("forof", 0, <<x>>))>>), Absent, f) :
     o \in {"while", "do", "for", "forof"}, x \in Exits, f \in {C, Leaf("return_v")}}

\* A try statement in the try, catch or finally block of another.
TryInTry ==
  LET inner == {Try(x, Absent, C) : x \in {C, Leaf("throw"), Leaf("return_v"), Leaf("break")}}
  IN  {Stmt("do", 0, <<t>>) : t \in
         {Try(i, C, C) : i \in inner} \cup {Try(Leaf("throw"), i, C) : i \in inner}
         \cup {Try(C, Absent, i) : i \in inner}}

\* A switch, a conditional and a labelled block on the way out.  An unlabelled
\* break in the block is left out: emit_break leaves the block, ECMAScript the
\* loop around it.
Others ==
  {Stmt("forof", 1, <<Then(Stmt("switch", d, <<x, C>>))>>) :
     d \in 0 .. 2, x \in Exits \ {Leaf("return")}}
  \cup {Stmt("for", 1, <<Stmt("if", 0, <<Try(x, Absent, C), y>>)>>) :
          x \in Exits, y \in {C, Leaf("continue"), Out("break")}}
  \cup {Stmt("forof", 0, <<Then(Stmt("label", 1, <<Try(x, Absent, C)>>))>>) :
          x \in {C, Leaf("return_v"), Out("break"), Leaf("continue")}}
  \cup {Stmt("block", 0, <<Leaf(t), Stmt("forof", 0, <<C>>)>>) : t \in {"return", "throw"}}

\* Generators: yield and yield* where a return must run what surrounds them.
Generators ==
  LET Y == Leaf("yield")
      S == Leaf("yield_star")
  IN  {Stmt("forof", 0, <<Try(y, c, f)>>) : y \in {Y, S}, c \in {Absent, C},
                                           f \in {C, Y, Leaf("break")}}
      \cup {Try(Stmt("forof", 0, <<S>>), C, Absent), Stmt("while", 0, <<Try(C, S, Y)>>)}

\* Array patterns, alone and where their iterator must be closed by others.
Patterns ==
  LET E(k) == Stmt("elem", 0, k)
      H == Leaf("hole")
      R == Leaf("rest")
      D(k) == Stmt("destruct", 0, k)
  IN  {D(<<E(<<C>>), R>>), D(<<E(<<>>)>>), D(<<H, E(<<C>>), E(<<>>)>>), D(<<H, H>>), D(<<R>>)}
      \cup {Stmt("forof", 0, <<D(<<E(<<Leaf("yield")>>)>>)>>),
            Try(D(<<H, E(<<Leaf("yield")>>), R>>), Absent, C),
            Try(D(<<E(<<Leaf("yield_star")>>)>>), C, Absent)}

MCPrograms == {C} \cup Generators \cup Patterns \cup TryInLoops \cup LoopsInTry \cup TryInTry \cup Others
=============================================================================
