----------------------------- MODULE JSCompile -----------------------------
(***************************************************************************)
(* How quickjs.c compiles the statements that move control: blocks, if,    *)
(* the loops, switch, labels, break, continue, return, throw and           *)
(* try/catch/finally.  A statement is a tree; js_parse_statement_or_decl   *)
(* emits instructions for it while it parses, keeping the enclosing loops, *)
(* labels and finally blocks in the list top_break; resolve_variables and  *)
(* resolve_labels remove dead code and useless jumps; compute_stack_size   *)
(* then derives the stack depth, and the innermost catch offset, of every  *)
(* instruction, and refuses code whose depths disagree.                    *)
(*                                                                         *)
(* Expressions are abstracted to the calls they make: "call" is a call     *)
(* statement or operand, "cond" a test.  A label is the path of its        *)
(* statement in the tree followed by a number, so that no counter is       *)
(* needed.  Instructions have no encoding: an address is an index.         *)
(***************************************************************************)
EXTENDS Integers, Sequences, SequencesExt

\* A statement: its kind, its label (of a loop, of a label, a break or a
\* continue; the position of "default" in a switch) and its parts.
Stmt(t, l, k) == [t |-> t, l |-> l, k |-> k]

\* A catch or a finally that is not written.
Absent == Stmt("none", 0, <<>>)

Ins(op, l) == [op |-> op, l |-> l]

NoLabel == <<>>

\* The labels of a statement.
BreakL(p) == Append(p, 11)
ContL(p) == Append(p, 12)
BodyL(p) == Append(p, 13)
NextL(p) == Append(p, 14)
ExprL(p) == Append(p, 15)
CatchL(p) == Append(p, 16)
Catch2L(p) == Append(p, 17)
FinallyL(p) == Append(p, 18)
EndL(p) == Append(p, 19)
CaseL(p, i) == Append(p, 20 + i)
SkipL(p, i) == Append(p, 40 + i)

Jumps == {"goto", "if_true", "if_false", "catch", "gosub"}

Terminal == {"return", "return_undef", "return_async", "throw", "throw_error", "goto", "ret"}

\* js_is_live_code looks only at the last instruction emitted.
Live(code) == code = <<>> \/ Last(code).op \notin Terminal

\* emit_op always emits; emit_goto emits only into live code.
Emit(code, items) ==
  LET live[n \in 0 .. Len(items)] ==
        IF n = 0 THEN Live(code)
        ELSE (items[n].op \in Jumps => live[n - 1]) /\ items[n].op \notin Terminal
      kept == SelectSeq([n \in DOMAIN items |-> n],
                        LAMBDA n : items[n].op \in Jumps => live[n - 1])
  IN  code \o [n \in DOMAIN kept |-> items[kept[n]]]

Op(op) == Ins(op, NoLabel)

\* JSFunctionDef: whether the function is a generator, and the constructs
\* around the statement, innermost first.
Within(fd, e) == [fd EXCEPT !.top = <<e>> \o @]

\* push_break_entry: what break, continue and return must know of a construct.
BreakEntry(name, brk, cont, drops) ==
  [name |-> name, brk |-> brk, cont |-> cont, drops |-> drops,
   fin |-> NoLabel, iter |-> FALSE]

FinallyEntry(fin) == [BreakEntry(0, NoLabel, NoLabel, 1) EXCEPT !.fin = fin]

Drops(n) == [i \in 1 .. n |-> Op("drop")]

\* Mutant: the entries of the construct stay on the stack.
LeaveKeepsEntries(e) ==
  (IF e.iter THEN <<Op("iterator_close")>> ELSE <<>>)
  \o (IF e.fin = NoLabel THEN <<>>
      ELSE <<Op("undefined"), Ins("gosub", e.fin), Op("drop")>>)

\* Leaving a construct by break or continue.
Leave(e) ==
  (IF e.iter THEN <<Op("iterator_close")>> \o Drops(e.drops - 3) ELSE Drops(e.drops))
  \o (IF e.fin = NoLabel THEN <<>>
      ELSE <<Op("undefined"), Ins("gosub", e.fin), Op("drop")>>)

Target(e, isCont) == IF isCont THEN e.cont ELSE e.brk

\* The entry emit_break stops at: an unlabelled break takes the first entry
\* that has a label_break, a labelled statement that is no loop included.
Stops(e, name, isCont) ==
  Target(e, isCont) # NoLabel /\ (name = 0 \/ e.name = name)

GenBreak(name, isCont, fd, code) ==
  LET env == fd.top
      n == CHOOSE i \in DOMAIN env : /\ Stops(env[i], name, isCont)
                                     /\ \A j \in 1 .. i - 1 : ~Stops(env[j], name, isCont)
  IN  Emit(code, FlattenSeq([i \in 1 .. n - 1 |-> Leave(env[i])])
                 \o <<Ins("goto", Target(env[n], isCont))>>)

\* Mutant: a return does not run finally blocks.
ReturnSkipsFinally(e) ==
  IF e.iter THEN <<Op("nip_catch"), Op("rot3r"), Op("undefined"), Op("iterator_close")>>
  ELSE IF e.fin # NoLabel THEN <<Op("nip_catch")>>
  ELSE <<>>

\* Leaving a construct by return, the value on top of the stack.
ReturnThrough(e) ==
  IF e.iter THEN <<Op("nip_catch"), Op("rot3r"), Op("undefined"), Op("iterator_close")>>
  ELSE IF e.fin # NoLabel THEN <<Op("nip_catch"), Ins("gosub", e.fin)>>
  ELSE <<>>

\* A generator always returns a value, with an instruction of its own.
GenReturn(hasval, fd, code) ==
  LET items == FlattenSeq([i \in DOMAIN fd.top |-> ReturnThrough(fd.top[i])])
      value == hasval \/ fd.gen \/ items # <<>>
      push  == IF value /\ ~hasval THEN <<Op("undefined")>> ELSE <<>>
      ret   == IF fd.gen THEN "return_async" ELSE IF value THEN "return" ELSE "return_undef"
  IN  Emit(code, push \o items \o <<Op(ret)>>)

RECURSIVE Gen(_, _, _, _)

Part(s, p, n, fd, code) == Gen(s.k[n], Append(p, n), fd, code)

RECURSIVE GenDestructuring(_, _, _, _)

\* Expressions: a call of the script, yield, yield* and an array pattern.
Expressions == {"call", "yield", "yield_star", "destruct"}

\* After yield the caller's choice is on the stack: next, or return.
GenYield(p, fd, code) ==
  Append(GenReturn(TRUE, fd, Emit(code, <<Op("undefined"), Ins("yield", p),
                                          Ins("if_false", NextL(p))>>)),
         Ins("label", NextL(p)))

\* yield*: next, throw and return are passed on to the inner iterator, whose
\* entries stay on the stack without their catch offset.
GenYieldStar(p, fd, code) ==
  LET c1 == Emit(code, <<Op("object"), Ins("for_of_start", p), Op("drop"), Op("undefined"),
                         Op("undefined"), Ins("label", ContL(p)), Op("iterator_next"),
                         Op("get_done"), Ins("if_true", NextL(p)), Ins("label", BodyL(p)),
                         Ins("yield_star", p), Op("dup"), Ins("if_true", EndL(p)), Op("drop"),
                         Ins("goto", ContL(p)),
                         Ins("label", EndL(p)), Ins("push_i32", <<2>>), Op("strict_eq"),
                         Ins("if_true", CatchL(p)), Ins("iterator_call", <<0>>),
                         Ins("if_true", BreakL(p)), Op("get_done"), Ins("if_false", BodyL(p)),
                         Op("get_value"), Ins("label", BreakL(p)),
                         Op("nip"), Op("nip"), Op("nip")>>)
  IN  Emit(GenReturn(TRUE, fd, c1),
           <<Ins("label", CatchL(p)), Ins("iterator_call", <<1>>), Ins("if_true", Catch2L(p)),
             Op("get_done"), Ins("if_false", BodyL(p)), Ins("goto", NextL(p)),
             Ins("label", Catch2L(p)), Ins("iterator_call", <<2>>), Ins("if_true", ExprL(p)),
             Ins("label", ExprL(p)), Op("throw_error"),
             Ins("label", NextL(p)), Op("get_value"), Op("nip"), Op("nip"), Op("nip")>>)

GenExpr(s, p, fd, code) ==
  CASE s.t = "call"       -> Emit(code, <<Ins("call", p)>>)
    [] s.t = "yield"      -> GenYield(p, fd, code)
    [] s.t = "yield_star" -> GenYieldStar(p, fd, code)
    [] s.t = "destruct"   -> GenDestructuring(s, p, fd, code)

\* An element of an array pattern: a hole, a property of what a call returns,
\* with a default value or without, or such a property that takes the rest.
GenElement(e, p, fd, code) ==
  LET ref  == Append(code, Ins("call", p))
      get  == Emit(ref, <<Ins("for_of_next", <<1>>), Op("drop")>>)
      dflt == GenExpr(e.k[1], Append(p, 1), fd,
                Emit(get, <<Op("dup"), Op("undefined"), Op("strict_eq"),
                            Ins("if_false", CaseL(p, 1)), Op("drop")>>))
      rest == Emit(ref, <<Op("object"), Ins("push_i32", <<0>>), Ins("label", NextL(p)),
                          Ins("for_of_next", <<3>>), Ins("if_true", EndL(p)),
                          Op("define_array_el"), Ins("goto", NextL(p)),
                          Ins("label", EndL(p)), Op("drop"), Op("drop")>>)
      put  == Ins("put_field", p)
  IN  CASE e.t = "hole" -> Emit(code, <<Ins("for_of_next", <<0>>), Op("drop"), Op("drop")>>)
        [] e.t = "elem" /\ e.k = <<>> -> Append(get, put)
        [] e.t = "elem" /\ e.k # <<>> -> dflt \o <<Ins("label", CaseL(p, 1)), put>>
        [] e.t = "rest" -> Append(rest, put)

RECURSIVE GenElements(_, _, _, _, _)
GenElements(s, p, i, fd, code) ==
  IF i > Len(s.k) THEN code
  ELSE GenElements(s, p, i + 1, fd, GenElement(s.k[i], Append(p, i), fd, code))

\* [...] = object: the object is evaluated by code behind the assignment.
GenDestructuring(s, p, fd, code) ==
  LET e  == [BreakEntry(0, NoLabel, NoLabel, 2) EXCEPT !.iter = TRUE]
      c1 == Emit(code, <<Ins("goto", ExprL(p)), Ins("label", BodyL(p)), Op("dup"),
                         Ins("for_of_start", p)>>)
      c2 == GenElements(s, p, 1, Within(fd, e), c1)
  IN  Emit(c2, <<Op("iterator_close"), Ins("goto", EndL(p)), Ins("label", ExprL(p)),
                 Op("object"), Ins("goto", BodyL(p)), Ins("label", EndL(p))>>)

\* js_parse_block and the statements of a clause, from the i-th on.
RECURSIVE GenFrom(_, _, _, _, _)
GenFrom(s, p, i, fd, code) ==
  IF i > Len(s.k) THEN code
  ELSE GenFrom(s, p, i + 1, fd, Part(s, p, i, fd, code))

\* When the first branch does not end, the jump over the second is not
\* emitted and the statement ends without a label.
GenIf(s, p, fd, code) ==
  LET c1 == Part(s, p, 1, fd, Emit(code, <<Ins("cond", p), Ins("if_false", CaseL(p, 1))>>))
      c2 == Emit(c1, <<Ins("goto", EndL(p)), Ins("label", CaseL(p, 1))>>)
      c3 == Part(s, p, 2, fd, c2)
  IN  IF Len(s.k) = 1 THEN Append(c1, Ins("label", CaseL(p, 1)))
      ELSE IF Live(c1) THEN Append(c3, Ins("label", EndL(p))) ELSE c3

LoopEntry(s, p) == BreakEntry(s.l, BreakL(p), ContL(p), 0)

GenWhile(s, p, fd, code) ==
  LET c1 == Emit(code, <<Ins("label", ContL(p)), Ins("cond", p), Ins("if_false", BreakL(p))>>)
      c2 == Part(s, p, 1, Within(fd, LoopEntry(s, p)), c1)
  IN  Emit(c2, <<Ins("goto", ContL(p)), Ins("label", BreakL(p))>>)

GenDo(s, p, fd, code) ==
  LET c1 == Part(s, p, 1, Within(fd, LoopEntry(s, p)), Emit(code, <<Ins("label", BodyL(p))>>))
  IN  Emit(c1, <<Ins("label", ContL(p)), Ins("cond", p), Ins("if_true", BodyL(p)),
                 Ins("label", BreakL(p))>>)

\* for (;test;increment): the increment is moved behind the body, where it
\* needs no jump before it.
GenFor(s, p, fd, code) ==
  LET c1 == Emit(code, <<Ins("label", ExprL(p)), Ins("cond", p), Ins("if_false", BreakL(p)),
                         Ins("goto", BodyL(p)), Ins("label", BodyL(p))>>)
      c2 == Part(s, p, 1, Within(fd, LoopEntry(s, p)), c1)
  IN  c2 \o <<Ins("label", ContL(p)), Ins("call", p), Op("drop"), Ins("goto", ExprL(p)),
              Ins("label", BreakL(p))>>

\* for (x of o): the assignment to x is moved behind the head likewise.
GenForOf(s, p, fd, code) ==
  LET e  == [BreakEntry(s.l, BreakL(p), ContL(p), 3) EXCEPT !.iter = TRUE]
      c1 == Emit(code, <<Ins("goto", ExprL(p))>>
                       \o (IF Live(code) THEN <<Ins("label", ExprL(p))>> ELSE <<>>)
                       \o <<Op("object"), Ins("for_of_start", p), Ins("goto", ContL(p)),
                            Ins("label", NextL(p)), Op("put"), Ins("goto", BodyL(p)),
                            Ins("label", BodyL(p))>>)
      c2 == Part(s, p, 1, Within(fd, e), c1)
  IN  Emit(c2, <<Ins("label", ContL(p)), Ins("for_of_next", <<0>>), Ins("if_false", NextL(p)),
                 Op("drop"), Ins("label", BreakL(p)), Op("iterator_close")>>)

\* The clauses of a switch, from the i-th on: a test jumps to the next test,
\* a body falls through into the next body over its test, and "default" is
\* the target of the last test.  "from" is the test whose failure leads to
\* the next one (0 for none): label_case.
RECURSIVE GenClauses(_, _, _, _, _, _)
GenClauses(s, p, i, from, fd, code) ==
  LET test == (IF from > 0 THEN <<Ins("goto", SkipL(p, i)), Ins("label", CaseL(p, from))>>
               ELSE <<>>)
              \o <<Op("dup"), Ins("test", Append(p, i)), Ins("if_false", CaseL(p, i))>>
              \o (IF from > 0 /\ Live(code) THEN <<Ins("label", SkipL(p, i))>> ELSE <<>>)
      dflt == (IF from = 0 THEN <<Ins("goto", CaseL(p, i))>> ELSE <<>>)
              \o <<Ins("label", BodyL(p))>>
  IN  IF i > Len(s.k)
      THEN [code |-> IF s.l = 0 /\ from > 0 THEN Append(code, Ins("label", CaseL(p, from)))
                     ELSE code,
            last |-> from]
      ELSE IF s.l = i
      THEN GenClauses(s, p, i + 1, IF from = 0 THEN i ELSE from, fd,
                      Part(s, p, i, fd, Emit(code, dflt)))
      ELSE GenClauses(s, p, i + 1, i, fd, Part(s, p, i, fd, Emit(code, test)))

\* The label of "default" is patched to be the target of the last test.
GenSwitch(s, p, fd, code) ==
  LET e == BreakEntry(0, BreakL(p), NoLabel, 1)
      r == GenClauses(s, p, 1, 0, Within(fd, e), Emit(code, <<Ins("subject", p)>>))
      patched == [i \in DOMAIN r.code |->
                    IF r.code[i] = Ins("label", BodyL(p)) THEN Ins("label", CaseL(p, r.last))
                    ELSE r.code[i]]
  IN  Emit(patched, <<Ins("label", BreakL(p)), Op("drop")>>)

\* A label on a statement that is no loop.
GenLabel(s, p, fd, code) ==
  Append(Part(s, p, 1, Within(fd, BreakEntry(s.l, BreakL(p), NoLabel, 0)), code),
         Ins("label", BreakL(p)))

\* The end of a try or of a catch block: when it can be reached, the catch
\* offset is dropped and the finally block called.
GenBlockEnd(p, code) ==
  IF Live(code)
  THEN Emit(code, <<Op("drop"), Op("undefined"), Ins("gosub", FinallyL(p)), Op("drop"),
                    Ins("goto", EndL(p))>>)
  ELSE code

Rethrow(p, l) == <<Ins("label", l), Ins("gosub", FinallyL(p)), Op("throw")>>

GenTry(s, p, fd, code) ==
  LET inner == Within(fd, FinallyEntry(FinallyL(p)))
      c1 == GenBlockEnd(p, Part(s, p, 1, inner, Emit(code, <<Ins("catch", CatchL(p))>>)))
      c2 == IF s.k[2] = Absent THEN Emit(c1, Rethrow(p, CatchL(p)))
            ELSE Emit(GenBlockEnd(p, Part(s, p, 2, inner,
                        Emit(c1, <<Ins("label", CatchL(p)), Op("drop"),
                                   Ins("catch", Catch2L(p))>>))),
                      Rethrow(p, Catch2L(p)))
      c3 == Part(s, p, 3, Within(fd, BreakEntry(0, NoLabel, NoLabel, 2)),
                 Append(c2, Ins("label", FinallyL(p))))
  IN  Emit(c3, <<Op("ret"), Ins("label", EndL(p))>>)

Gen(s, p, fd, code) ==
  CASE s.t \in {"none", "block"} -> GenFrom(s, p, 1, fd, code)
    [] s.t \in Expressions -> Append(GenExpr(s, p, fd, code), Op("drop"))
    [] s.t = "throw"    -> Emit(code, <<Ins("call", p), Op("throw")>>)
    [] s.t = "return_v" -> GenReturn(TRUE, fd, Emit(code, <<Ins("call", p)>>))
    [] s.t = "return"   -> GenReturn(FALSE, fd, code)
    [] s.t = "break"    -> GenBreak(s.l, FALSE, fd, code)
    [] s.t = "continue" -> GenBreak(s.l, TRUE, fd, code)
    [] s.t = "if"       -> GenIf(s, p, fd, code)
    [] s.t = "while"    -> GenWhile(s, p, fd, code)
    [] s.t = "do"       -> GenDo(s, p, fd, code)
    [] s.t = "for"      -> GenFor(s, p, fd, code)
    [] s.t = "forof"    -> GenForOf(s, p, fd, code)
    [] s.t = "switch"   -> GenSwitch(s, p, fd, code)
    [] s.t = "label"    -> GenLabel(s, p, fd, code)
    [] s.t = "try"      -> GenTry(s, p, fd, code)

\* A function body: a return is added where its end can be reached.
RECURSIVE HasYield(_)
HasYield(s) == s.t \in {"yield", "yield_star"} \/ \E i \in DOMAIN s.k : HasYield(s.k[i])

GenFunction(s) ==
  LET fd   == [gen |-> HasYield(s), top |-> <<>>]
      code == Gen(s, <<>>, fd, <<>>)
  IN  IF Live(code) THEN GenReturn(FALSE, fd, code) ELSE code

-----------------------------------------------------------------------------
(***************************************************************************)
(* resolve_variables and resolve_labels.  "refs" counts the jumps to every *)
(* label; both passes keep it up to date, for dead code ends at the first  *)
(* label some jump still refers to.                                        *)
(***************************************************************************)

LabelsOf(code) == {code[i].l : i \in {j \in DOMAIN code : code[j].op \in Jumps \cup {"label"}}}

RefCounts(code) ==
  [l \in LabelsOf(code) |->
     Len(SelectSeq(code, LAMBDA i : i.op \in Jumps /\ i.l = l))]

UpdateLabel(refs, l, delta) == [refs EXCEPT ![l] = @ + delta]

\* A pass at instruction i, with the counts and the code made so far.
Pass(i, refs, out) == [i |-> i, refs |-> refs, out |-> out]

\* skip_dead_code: on to the first label still referred to.
RECURSIVE SkipDeadCode(_, _)
SkipDeadCode(code, st) ==
  IF st.i > Len(code) \/ (code[st.i].op = "label" /\ st.refs[code[st.i].l] > 0) THEN st
  ELSE SkipDeadCode(code,
         Pass(st.i + 1,
              IF code[st.i].op \in Jumps THEN UpdateLabel(st.refs, code[st.i].l, -1) ELSE st.refs,
              st.out))

PosOf(code, l) == SelectInSeq(code, LAMBDA i : i = Ins("label", l))

Matches(code, i, op) == i \in DOMAIN code /\ code[i].op = op

\* resolve_variables, as far as control goes: calls of a finally block that
\* is empty are removed, and so is dead code.
RECURSIVE ResolveVariables(_, _)
ResolveVariables(code, st) ==
  IF st.i > Len(code) THEN st
  ELSE LET i == code[st.i]
           copied == Pass(st.i + 1, st.refs, Append(st.out, i))
       IN  ResolveVariables(code,
             IF i.op = "gosub" /\ Matches(code, PosOf(code, i.l) + 1, "ret")
             THEN Pass(st.i + 1, UpdateLabel(st.refs, i.l, -1), st.out)
             ELSE IF i.op \in {"goto", "return", "return_undef", "throw", "throw_error", "ret"}
             THEN SkipDeadCode(code, copied)
             ELSE copied)

\* Where a jump to label l leads, through the jumps it would meet there, ten
\* at most, and the instruction met: drops before a return of undefined do
\* not count.
RECURSIVE FindJumpTarget(_, _, _)
FindJumpTarget(code, l, n) ==
  LET at == CHOOSE i \in PosOf(code, l) .. Len(code) :
              /\ code[i].op # "label"
              /\ \A j \in PosOf(code, l) .. i - 1 : code[j].op = "label"
      after == CHOOSE i \in at .. Len(code) :
                 code[i].op # "drop" /\ \A j \in at .. i - 1 : code[j].op = "drop"
  IN  IF code[at].op = "goto" /\ n < 10 THEN FindJumpTarget(code, code[at].l, n + 1)
      ELSE [l |-> l, op |-> IF code[after].op = "return_undef" THEN "return_undef"
                            ELSE code[at].op]

\* code_has_label: label l is reached from i through labels and one jump.
HasLabel(code, i, l) ==
  \E j \in i .. Len(code) : /\ code[j] \in {Ins("label", l), Ins("goto", l)}
                            /\ \A m \in i .. j - 1 : code[m].op = "label"

\* A jump in resolve_labels: one to the next instruction goes, one to a
\* return or a throw becomes it, and a test around a jump takes its target.
ResolveJump(code, st) ==
  LET i     == code[st.i]
      t     == FindJumpTarget(code, i.l, 0)
      moved == UpdateLabel(UpdateLabel(st.refs, i.l, -1), t.l, 1)
      gone  == UpdateLabel(moved, t.l, -1)
      put(n, refs, x) == Pass(st.i + n, refs, Append(st.out, x))
      other == IF i.op = "if_true" THEN "if_false" ELSE "if_true"
  IN  IF HasLabel(code, st.i + 1, t.l)
      THEN IF i.op = "goto" THEN Pass(st.i + 1, gone, st.out) ELSE put(1, gone, Op("drop"))
      ELSE IF i.op = "goto"
      THEN SkipDeadCode(code, IF t.op \in {"return", "return_undef", "throw"}
                              THEN put(1, gone, Op(t.op)) ELSE put(1, moved, Ins("goto", t.l)))
      ELSE IF Matches(code, st.i + 1, "goto") /\ HasLabel(code, st.i + 2, t.l)
      THEN put(2, gone, Ins(other, code[st.i + 1].l))
      ELSE put(1, moved, Ins(i.op, t.l))

ResolveOne(code, st) ==
  LET i == code[st.i]
      then(op) == Matches(code, st.i + 1, op)
      put(n, x) == Pass(st.i + n, st.refs, Append(st.out, x))
      skip(n) == Pass(st.i + n, st.refs, st.out)
  IN  CASE i.op \in {"goto", "if_true", "if_false"} -> ResolveJump(code, st)
        [] i.op = "call" /\ then("return") -> SkipDeadCode(code, put(2, Ins("tail_call", i.l)))
        [] i.op \in {"return", "return_undef", "return_async", "throw", "throw_error"} ->
             SkipDeadCode(code, put(1, i))
        [] i.op = "drop" /\ then("return_undef") -> skip(1)
        [] i.op = "undefined" /\ then("drop") -> skip(2)
        [] i.op = "undefined" /\ then("return") -> put(2, Op("return_undef"))
        [] i.op = "undefined" /\ then("strict_eq") -> put(2, Op("is_undefined"))
        [] OTHER -> put(1, i)

RECURSIVE ResolveLabels(_, _)
ResolveLabels(code, st) ==
  IF st.i > Len(code) THEN st ELSE ResolveLabels(code, ResolveOne(code, st))

\* The labels disappear: a jump holds the index of its target.
Link(code) ==
  LET addr(l) == 1 + Len(SelectSeq(SubSeq(code, 1, PosOf(code, l)), LAMBDA i : i.op # "label"))
      jumps   == [i \in DOMAIN code |->
                    [op |-> code[i].op, l |-> code[i].l,
                     to |-> IF code[i].op \in Jumps THEN addr(code[i].l) ELSE 0]]
  IN  SelectSeq(jumps, LAMBDA i : i.op # "label")

-----------------------------------------------------------------------------
(***************************************************************************)
(* compute_stack_size: the depth of the stack before every instruction     *)
(* that can be reached, and the instruction that pushed the innermost      *)
(* catch offset, found by exploring the code from its start.               *)
(***************************************************************************)

PopPush(op) ==
  CASE op \in {"call", "cond", "subject", "undefined", "object", "push_i32", "catch"} -> <<0, 1>>
    [] op \in {"drop", "put", "if_true", "if_false", "return", "return_async", "throw",
               "ret"} -> <<1, 0>>
    [] op \in {"dup", "yield", "yield_star", "get_done"} -> <<1, 2>>
    [] op \in {"test", "is_undefined", "get_value"} -> <<1, 1>>
    [] op \in {"nip", "nip_catch", "strict_eq"} -> <<2, 1>>
    [] op = "put_field"       -> <<2, 0>>
    [] op = "rot3r"           -> <<3, 3>>
    [] op = "define_array_el" -> <<3, 2>>
    [] op = "for_of_start"    -> <<1, 3>>
    [] op = "for_of_next"     -> <<3, 5>>
    [] op = "iterator_close"  -> <<3, 0>>
    [] op = "iterator_next"   -> <<4, 4>>
    [] op = "iterator_call"   -> <<4, 5>>
    [] OTHER                  -> <<0, 0>>

\* The depth below the catch offset that instruction c pushed; for a loop the
\* offset is taken to be on the first of its three entries.
CatchLevel(code, tab, c) == tab[c].level + (IF code[c].op = "catch" THEN 0 ELSE 1)

Unseen == [level |-> -1, catch |-> -1]
Bad == [level |-> -2, catch |-> -2]

At(level, catch) == [level |-> level, catch |-> catch]

\* Where the instruction at i leads, with the depth and catch offset there.
StackNext(code, tab, i) ==
  LET op    == code[i].op
      n     == tab[i].level - PopPush(op)[1] + PopPush(op)[2]
      c     == tab[i].catch
      removed(level) == IF c > 0 /\ CatchLevel(code, tab, c) = level THEN tab[c].catch ELSE c
  IN  CASE op \in {"return", "return_undef", "return_async", "tail_call", "throw",
                 "throw_error", "ret"} -> {}
        [] op = "goto" -> {<<code[i].to, At(n, c)>>}
        [] op \in {"if_true", "if_false"} -> {<<code[i].to, At(n, c)>>, <<i + 1, At(n, c)>>}
        [] op = "gosub" -> {<<code[i].to, At(n + 1, c)>>, <<i + 1, At(n, c)>>}
        [] op = "catch" -> {<<code[i].to, At(n, c)>>, <<i + 1, At(n, i)>>}
        [] op = "for_of_start" -> {<<i + 1, At(n, i)>>}
        [] op = "drop" -> {<<i + 1, At(n, removed(n))>>}
        [] op = "nip" -> {<<i + 1, At(n, removed(n - 1))>>}
        [] op = "iterator_close" -> {<<i + 1, At(n, removed(n + 2))>>}
        [] op = "nip_catch" ->
             {<<i + 1, IF c > 0 THEN At(CatchLevel(code, tab, c) + 1, tab[c].catch) ELSE Bad>>}
        [] OTHER -> {<<i + 1, At(n, c)>>}

\* ss_check: an instruction met again must have the same depth and offset.
Check(tab, x) ==
  IF x[1] \notin DOMAIN tab THEN [tab EXCEPT ![1] = Bad]
  ELSE IF tab[x[1]] = Unseen THEN [tab EXCEPT ![x[1]] = x[2]]
  ELSE IF tab[x[1]] = x[2] THEN tab ELSE [tab EXCEPT ![x[1]] = Bad]

RECURSIVE Explore(_, _)
Explore(code, st) ==
  IF st.todo = {} THEN st.tab
  ELSE LET i    == CHOOSE x \in st.todo : TRUE
           succ == StackNext(code, st.tab, i)
           tab  == FoldLeft(Check, st.tab, SetToSeq(succ))
           bad  == \/ st.tab[i].level < PopPush(code[i].op)[1]
                   \/ \E x \in DOMAIN tab : tab[x] = Bad
           new  == {x[1] : x \in {y \in succ : st.tab[y[1]] = Unseen}}
       IN  IF bad THEN [tab EXCEPT ![1] = Bad]
           ELSE Explore(code, [tab |-> tab, todo |-> (st.todo \ {i}) \cup new])

StackTable(code) ==
  Explore(code, [tab |-> [i \in DOMAIN code |-> IF i = 1 THEN At(0, 0) ELSE Unseen],
                 todo |-> {1}])

\* compute_stack_size fails: an InternalError instead of a function.
Refused(tab) == tab[1] = Bad

=============================================================================
