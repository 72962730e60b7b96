----------------------------- MODULE ESControl -----------------------------
(***************************************************************************)
(* What ECMAScript says a function made of the statements of JSCompile     *)
(* does: the completion of a statement, given what the script's calls,     *)
(* tests and iterators did.  Those are read from a trace T; "i" is the     *)
(* place reached in it.  A call that T does not have next is "bad", and    *)
(* the end of T cuts the evaluation.                                       *)
(***************************************************************************)
LOCAL INSTANCE Integers
LOCAL INSTANCE Sequences

Completion(t, l, v) == [t |-> t, l |-> l, v |-> v]
Normal == Completion("normal", 0, 0)

\* Completions that no construct handles.
Hard == {"kill", "cut", "bad"}

Outcome(T, i, e, on) ==
  IF i > Len(T) THEN "cut"
  ELSE IF T[i].e = e /\ T[i].on = on THEN T[i].r ELSE "bad"

Yields(c, i) == [c |-> c, i |-> i]

\* A call: its value, or its exception, is named by its place in T.
ESCall(T, e, on, i) ==
  LET r == Outcome(T, i, e, on)
  IN  Yields(IF r = "ok" THEN Completion("normal", 0, i) ELSE Completion(r, 0, i), i + 1)

RECURSIVE Eval(_, _, _, _)

Sub(T, s, p, n, i) == Eval(T, s.k[n], Append(p, n), i)

RECURSIVE ESStatements(_, _, _, _, _)
ESStatements(T, s, p, n, i) ==
  IF n > Len(s.k) THEN Yields(Normal, i)
  ELSE LET r == Sub(T, s, p, n, i)
       IN  IF r.c.t = "normal" THEN ESStatements(T, s, p, n + 1, r.i) ELSE r

\* LoopContinues and the completion of a loop that ends with c.
Continues(s, c) == c.t = "normal" \/ (c.t = "continue" /\ c.l \in {0, s.l})
BreaksOff(s, c) == c.t = "break" /\ c.l \in {0, s.l}
LoopResult(s, c) == IF BreaksOff(s, c) THEN Normal ELSE c

RECURSIVE ESLoop(_, _, _, _)

\* What follows the body of a loop that goes on.
ESAgain(T, s, p, i) ==
  LET inc == ESCall(T, "call", p, i)
  IN  IF s.t # "for" THEN ESLoop(T, s, p, i)
      ELSE IF inc.c.t = "normal" THEN ESLoop(T, s, p, inc.i) ELSE inc

ESBody(T, s, p, i) ==
  LET r == Sub(T, s, p, 1, i)
  IN  IF Continues(s, r.c) THEN ESAgain(T, s, p, r.i) ELSE Yields(LoopResult(s, r.c), r.i)

\* The test of while and for, and, for a do loop, the test after the body.
ESLoop(T, s, p, i) ==
  LET r == Outcome(T, i, "test", p)
  IN  IF r = "true" THEN ESBody(T, s, p, i + 1)
      ELSE IF r = "false" THEN Yields(Normal, i + 1)
      ELSE Yields(Completion(r, 0, 0), i)

\* IteratorClose: a throw completion outlives what the close does.
ESClose(T, it, r) ==
  LET o == Outcome(T, r.i, "close", <<it>>)
  IN  IF r.c.t \in Hard THEN r
      ELSE IF o \in Hard THEN Yields(Completion(o, 0, 0), r.i)
      ELSE IF o = "throw" /\ r.c.t # "throw" THEN Yields(Completion("throw", 0, r.i), r.i + 1)
      ELSE Yields(r.c, r.i + 1)

RECURSIVE ESIterate(_, _, _, _, _)
ESIterate(T, s, p, it, i) ==
  LET o == Outcome(T, i, "next", <<it>>)
      r == Sub(T, s, p, 1, i + 1)
  IN  CASE o = "value" -> IF Continues(s, r.c) THEN ESIterate(T, s, p, it, r.i)
                          ELSE LET d == ESClose(T, it, r)
                               IN  Yields(LoopResult(s, d.c), d.i)
        [] o = "done" -> Yields(Normal, i + 1)
        [] OTHER -> Yields(Completion(o, 0, i), i + 1)

ESForOf(T, s, p, i) ==
  LET r == ESCall(T, "start", p, i)
  IN  IF r.c.t = "normal" THEN ESIterate(T, s, p, i, r.i) ELSE r

\* The tests of a switch in order, "default" left out; the clause chosen, or
\* one that does not exist.
RECURSIVE ESCases(_, _, _, _, _)
ESCases(T, s, p, n, i) ==
  LET r == Outcome(T, i, "test", Append(p, n))
  IN  IF n > Len(s.k)
      THEN [c |-> Normal, n |-> IF s.l > 0 THEN s.l ELSE n, i |-> i]
      ELSE IF n = s.l THEN ESCases(T, s, p, n + 1, i)
      ELSE IF r = "true" THEN [c |-> Normal, n |-> n, i |-> i + 1]
      ELSE IF r = "false" THEN ESCases(T, s, p, n + 1, i + 1)
      ELSE [c |-> Completion(r, 0, 0), n |-> n, i |-> i]

ESSwitch(T, s, p, i) ==
  LET k == ESCases(T, s, p, 1, i)
      r == ESStatements(T, s, p, k.n, k.i)
  IN  IF k.c # Normal THEN Yields(k.c, k.i)
      ELSE IF r.c = Completion("break", 0, 0) THEN Yields(Normal, r.i) ELSE r

ESIf(T, s, p, i) ==
  LET r == Outcome(T, i, "test", p)
  IN  IF r = "true" THEN Sub(T, s, p, 1, i + 1)
      ELSE IF r # "false" THEN Yields(Completion(r, 0, 0), i)
      ELSE IF Len(s.k) = 2 THEN Sub(T, s, p, 2, i + 1) ELSE Yields(Normal, i + 1)

\* One element of an array pattern, of an iterator that is done or not.
RECURSIVE ESRest(_, _, _)
ESRest(T, it, i) ==
  LET o == Outcome(T, i, "next", <<it>>)
  IN  IF o = "value" THEN ESRest(T, it, i + 1) ELSE [o |-> o, i |-> i]

ESNextValue(T, e, it, done, i) ==
  IF done THEN [o |-> "done", i |-> i - 1]
  ELSE IF e.t = "rest" THEN ESRest(T, it, i)
  ELSE [o |-> Outcome(T, i, "next", <<it>>), i |-> i]

ESDefault(T, e, p, over, i) ==
  IF e.t = "elem" /\ e.k # <<>> /\ over THEN Eval(T, e.k[1], Append(p, 1), i) ELSE Yields(Normal, i)

ESPut(T, e, p, d) ==
  IF e.t = "hole" \/ d.c.t # "normal" THEN d ELSE ESCall(T, "put", p, d.i)

ESElement(T, e, p, it, done, i) ==
  LET at == IF e.t = "hole" THEN i ELSE i + 1
      n  == ESNextValue(T, e, it, done, at)
  IN  IF e.t # "hole" /\ Outcome(T, i, "call", p) # "ok"
      THEN [r |-> ESCall(T, "call", p, i), done |-> done]
      ELSE IF n.o \in {"value", "done"}
      THEN [r |-> ESPut(T, e, p, ESDefault(T, e, p, n.o = "done", n.i + 1)), done |-> n.o = "done"]
      ELSE [r |-> Yields(Completion(n.o, 0, n.i), n.i + 1), done |-> TRUE]

RECURSIVE ESElements(_, _, _, _, _, _, _)
ESElements(T, s, p, n, it, done, i) ==
  IF n > Len(s.k) THEN [r |-> Yields(Normal, i), done |-> done]
  ELSE LET x == ESElement(T, s.k[n], Append(p, n), it, done, i)
       IN  IF x.r.c.t = "normal" THEN ESElements(T, s, p, n + 1, it, x.done, x.r.i) ELSE x

\* The iterator is closed unless it is done or has failed itself.
ESDestructuring(T, s, p, i) ==
  LET r == ESCall(T, "start", p, i)
      x == ESElements(T, s, p, 1, i, FALSE, r.i)
  IN  IF r.c.t # "normal" THEN r ELSE IF x.done THEN x.r ELSE ESClose(T, i, x.r)

\* yield: the generator goes on as its caller chose.
ESYield(T, p, i) ==
  LET r == Outcome(T, i, "yield", p)
  IN  Yields(IF r = "next" THEN Completion("normal", 0, i) ELSE Completion(r, 0, i), i + 1)

\* yield*: each resumption calls a method of the inner iterator; a missing
\* throw closes it, and is an error, named by the call before it; a missing
\* return returns.
RECURSIVE ESDelegate(_, _, _, _, _)
ESDelegate(T, p, it, method, i) ==
  LET o == Outcome(T, i, method, <<it>>)
      y == Outcome(T, i + 1, "yield", p)
      c == Outcome(T, i + 1, "close", <<it>>)
  IN  CASE o = "more" ->
             IF y \in Hard THEN Yields(Completion(y, 0, 0), i + 1)
             ELSE ESDelegate(T, p, it, y, i + 2)
        [] o = "last" ->
             Yields(Completion(IF method = "return" THEN "return" ELSE "normal", 0, i), i + 1)
        [] o = "absent" /\ method = "return" -> Yields(Completion("return", 0, i - 1), i + 1)
        [] o = "absent" /\ method = "throw" ->
             IF c \in Hard THEN Yields(Completion(c, 0, 0), i + 1)
             ELSE Yields(Completion("throw", 0, i + 1), i + 2)
        [] OTHER -> Yields(Completion(o, 0, i), i + 1)

ESYieldStar(T, p, i) ==
  LET r == ESCall(T, "start", p, i)
  IN  IF r.c.t = "normal" THEN ESDelegate(T, p, i, "next", i + 1) ELSE r

\* A finally block that completes normally leaves the completion it found.
ESTry(T, s, p, i) ==
  LET b == Sub(T, s, p, 1, i)
      c == IF b.c.t = "throw" /\ s.k[2].t # "none" THEN Sub(T, s, p, 2, b.i) ELSE b
      f == Sub(T, s, p, 3, c.i)
  IN  IF c.c.t \in Hard THEN c
      ELSE IF f.c.t = "normal" THEN Yields(c.c, f.i) ELSE f

ESLabel(T, s, p, i) ==
  LET r == Sub(T, s, p, 1, i)
  IN  IF r.c.t = "break" /\ r.c.l = s.l THEN Yields(Normal, r.i) ELSE r

\* A call whose value ends the function or is thrown.
ESCallThen(T, p, i, t) ==
  LET r == ESCall(T, "call", p, i)
  IN  IF r.c.t = "normal" THEN Yields(Completion(t, 0, i), r.i) ELSE r

Eval(T, s, p, i) ==
  CASE s.t \in {"none", "block"} -> ESStatements(T, s, p, 1, i)
    [] s.t = "call"     -> ESCallThen(T, p, i, "normal")
    [] s.t = "yield"    -> ESYield(T, p, i)
    [] s.t = "yield_star" -> ESYieldStar(T, p, i)
    [] s.t = "destruct" -> ESDestructuring(T, s, p, i)
    [] s.t = "throw"    -> ESCallThen(T, p, i, "throw")
    [] s.t = "return_v" -> ESCallThen(T, p, i, "return")
    [] s.t = "return"   -> Yields(Completion("return", 0, 0), i)
    [] s.t \in {"break", "continue"} -> Yields(Completion(s.t, s.l, 0), i)
    [] s.t = "if"       -> ESIf(T, s, p, i)
    [] s.t \in {"while", "for"} -> ESLoop(T, s, p, i)
    [] s.t = "do"       -> ESBody(T, s, p, i)
    [] s.t = "forof"    -> ESForOf(T, s, p, i)
    [] s.t = "switch"   -> ESSwitch(T, s, p, i)
    [] s.t = "label"    -> ESLabel(T, s, p, i)
    [] s.t = "try"      -> ESTry(T, s, p, i)

\* The end of a function: a normal completion returns undefined.
ESFunction(T, s) ==
  LET r == Eval(T, s, <<>>, 1)
  IN  IF r.c.t = "normal" THEN Yields(Completion("return", 0, 0), r.i) ELSE r

=============================================================================
