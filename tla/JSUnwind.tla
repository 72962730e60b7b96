------------------------------ MODULE JSUnwind ------------------------------
(***************************************************************************)
(* JS_CallInternal running the code JSCompile makes of a function: the     *)
(* value stack with its catch offsets, the return addresses of finally     *)
(* blocks, the three entries of a for-of loop, and the unwinding of the    *)
(* stack when an exception is thrown.  What the script's own calls, tests  *)
(* and iterators do is any outcome; "trace" records each with its outcome. *)
(* The outcome "kill" is an uncatchable error, which js_poll_interrupts    *)
(* throws when the host's interrupt handler asks for it.                   *)
(*                                                                         *)
(* An exception and a value are named by the place in the trace of the     *)
(* call that produced them, so that a later one that replaces it shows.    *)
(***************************************************************************)
EXTENDS JSCompile, ESControl

CONSTANTS Programs,    \* the functions compiled
          MaxEvents    \* bound on the calls of the script followed

VARIABLES fn, pc, stack, exc, trace, status

vars == <<fn, pc, stack, exc, trace, status>>

code == fn.code
ins == code[pc]

Val(t, v) == [t |-> t, v |-> v]
Bool(b) == Val("bool", IF b THEN 1 ELSE 0)

Phase(t) == [t |-> t, v |-> 0]

Running == Phase("running")

Init == /\ \E s \in Programs : fn = [body |-> s, code |-> <<>>, refs |-> <<>>, tab |-> <<>>]
        /\ status = Phase("parse")
        /\ pc = 1 /\ stack = <<>> /\ exc = 0 /\ trace = <<>>

Compiles(from, to) ==
  /\ status = Phase(from) /\ status' = Phase(to) /\ UNCHANGED <<pc, stack, exc, trace>>

\* js_create_function: the passes over the code the parser emitted.
Parse ==
  /\ Compiles("parse", "count")
  /\ fn' = [fn EXCEPT !.code = GenFunction(fn.body)]

CountRefs ==
  /\ Compiles("count", "variables")
  /\ fn' = [fn EXCEPT !.refs = RefCounts(code)]

Variables ==
  /\ Compiles("variables", "labels")
  /\ LET r == ResolveVariables(code, Pass(1, fn.refs, <<>>))
     IN  fn' = [fn EXCEPT !.code = r.out, !.refs = r.refs]

Labels ==
  /\ Compiles("labels", "link")
  /\ fn' = [fn EXCEPT !.code = ResolveLabels(code, Pass(1, fn.refs, <<>>)).out,
                      !.refs = <<>>]

LinkJumps == Compiles("link", "stack") /\ fn' = [fn EXCEPT !.code = Link(code)]

StackSize ==
  /\ Compiles("stack", "running")
  /\ fn' = [fn EXCEPT !.tab = StackTable(code)]

Compile == Parse \/ CountRefs \/ Variables \/ Labels \/ LinkJumps \/ StackSize

At1(op) == status = Running /\ exc = 0 /\ ins.op = op

Top == Last(stack)
PopN(n) == SubSeq(stack, 1, Len(stack) - n)

Goes(to, st) == /\ pc' = to /\ stack' = st /\ UNCHANGED <<fn, exc, trace, status>>

Ends(t, v) ==
  /\ status' = [t |-> t, v |-> v]
  /\ stack' = <<>> /\ UNCHANGED <<fn, pc, exc, trace>>

\* A call of the script's code: what was called, where, and its outcome.
Event(e, on, r) ==
  /\ Len(trace) < MaxEvents
  /\ trace' = Append(trace, [e |-> e, on |-> on, r |-> r])

Now == Len(trace) + 1

Throws == exc' = Now /\ UNCHANGED <<fn, pc, status>>

Simple ==
  \/ At1("drop") /\ Goes(pc + 1, PopN(1))
  \/ At1("put") /\ Goes(pc + 1, PopN(1))
  \/ At1("nip") /\ Goes(pc + 1, Append(PopN(2), Top))
  \/ At1("define_array_el") /\ Goes(pc + 1, PopN(1))
  \/ At1("push_i32") /\ Goes(pc + 1, Append(stack, Val("int", ins.l[1])))
  \/ At1("is_undefined") /\ Goes(pc + 1, Append(PopN(1), Bool(Top.t = "undefined")))
  \/ At1("strict_eq") /\ Goes(pc + 1, Append(PopN(2), Bool(Top = stack[Len(stack) - 1])))
  \/ At1("get_value") /\ Goes(pc + 1, Append(PopN(1), Val("value", Top.v)))
  \/ At1("get_done") /\ Goes(pc + 1, Append(stack, Bool(trace[Top.v].r = "last")))
  \/ At1("dup") /\ Goes(pc + 1, Append(stack, Top))
  \/ At1("undefined") /\ Goes(pc + 1, Append(stack, Val("undefined", 0)))
  \/ At1("object") /\ Goes(pc + 1, Append(stack, Val("value", 0)))
  \/ At1("subject") /\ Goes(pc + 1, Append(stack, Val("value", 0)))
  \/ /\ At1("rot3r")
     /\ Goes(pc + 1, PopN(3) \o <<Top, stack[Len(stack) - 2], stack[Len(stack) - 1]>>)

Jump ==
  \/ At1("goto") /\ Goes(ins.to, stack)
  \/ At1("if_true") /\ Goes(IF Top.v > 0 THEN ins.to ELSE pc + 1, PopN(1))
  \/ At1("if_false") /\ Goes(IF Top.v = 0 THEN ins.to ELSE pc + 1, PopN(1))

Catch == At1("catch") /\ Goes(pc + 1, Append(stack, Val("catch", ins.to)))

Gosub == At1("gosub") /\ Goes(ins.to, Append(stack, Val("int", pc + 1)))

\* An entry that is no return address is an InternalError.
Ret == At1("ret") /\ Top.t = "int" /\ Goes(Top.v, PopN(1))

\* The catch offset nearest to the top, below the value, is replaced by it.
NipCatch ==
  /\ At1("nip_catch")
  /\ LET n == CHOOSE i \in 1 .. Len(stack) - 1 :
                stack[i].t = "catch" /\ \A j \in i + 1 .. Len(stack) - 1 : stack[j].t # "catch"
     IN  Goes(pc + 1, Append(SubSeq(stack, 1, n - 1), Top))

Return ==
  \/ (At1("return") \/ At1("return_async")) /\ Ends("return", Top.v)
  \/ At1("return_undef") /\ Ends("return", 0)

\* The error of throw_error is named by the call before it.
Throw ==
  /\ \/ At1("throw") /\ exc' = Top.v /\ stack' = PopN(1)
     \/ At1("throw_error") /\ exc' = Len(trace) /\ stack' = stack
  /\ UNCHANGED <<fn, pc, trace, status>>

Call ==
  /\ At1("call")
  /\ \/ /\ Event("call", ins.l, "ok")
        /\ pc' = pc + 1 /\ stack' = Append(stack, Val("value", Now))
        /\ UNCHANGED <<fn, exc, status>>
     \/ Event("call", ins.l, "throw") /\ Throws /\ UNCHANGED stack
     \/ /\ Event("call", ins.l, "kill")
        /\ status' = [t |-> "kill", v |-> Now]
        /\ stack' = <<>> /\ UNCHANGED <<fn, pc, exc>>

\* A call in the place of a return: its status is the function's.
TailCall ==
  /\ At1("tail_call")
  /\ \/ /\ Event("call", ins.l, "ok")
        /\ status' = [t |-> "return", v |-> Now]
        /\ stack' = <<>> /\ UNCHANGED <<fn, pc, exc>>
     \/ Event("call", ins.l, "throw") /\ Throws /\ UNCHANGED stack
     \/ /\ Event("call", ins.l, "kill")
        /\ status' = [t |-> "kill", v |-> Now]
        /\ stack' = <<>> /\ UNCHANGED <<fn, pc, exc>>

Bits == [true |-> 1, false |-> 0]

Test ==
  \E r \in DOMAIN Bits :
     /\ At1("cond") \/ At1("test")
     /\ Event("test", ins.l, r)
     /\ pc' = pc + 1
     /\ stack' = Append(IF ins.op = "test" THEN PopN(1) ELSE stack, Val("bool", Bits[r]))
     /\ UNCHANGED <<fn, exc, status>>

\* The iterator is named by the call that made it.
ForOfStart ==
  /\ At1("for_of_start")
  /\ \/ /\ Event("start", ins.l, "ok")
        /\ pc' = pc + 1
        /\ stack' = PopN(1) \o <<Val("iter", Now), Val("next", 0), Val("catch", 0)>>
        /\ UNCHANGED <<fn, exc, status>>
     \/ Event("start", ins.l, "throw") /\ Throws /\ UNCHANGED stack

\* When the iterator is done or fails, its entry becomes undefined, and
\* nothing will close it.
ForOfNext ==
  /\ At1("for_of_next")
  /\ LET at   == Len(stack) - 2 - ins.l[1]
         it   == stack[at]
         over == [stack EXCEPT ![at] = Val("undefined", 0)]
     IN  \/ /\ it.t = "undefined"
            /\ Goes(pc + 1, stack \o <<Val("undefined", 0), Val("bool", 1)>>)
         \/ /\ it.t # "undefined"
            /\ \/ /\ Event("next", <<it.v>>, "value")
                  /\ pc' = pc + 1 /\ stack' = stack \o <<Val("value", Now), Val("bool", 0)>>
                  /\ UNCHANGED <<fn, exc, status>>
               \/ /\ Event("next", <<it.v>>, "done")
                  /\ pc' = pc + 1 /\ stack' = over \o <<Val("undefined", 0), Val("bool", 1)>>
                  /\ UNCHANGED <<fn, exc, status>>
               \/ Event("next", <<it.v>>, "throw") /\ Throws /\ stack' = over

\* The catch offset goes first, so that a failing close is not caught by the
\* loop itself.
IteratorClose ==
  /\ At1("iterator_close")
  /\ LET it == stack[Len(stack) - 2]
     IN  \/ it.t = "undefined" /\ Goes(pc + 1, PopN(3))
         \/ /\ it.t # "undefined"
            /\ \/ /\ Event("close", <<it.v>>, "ok")
                  /\ pc' = pc + 1 /\ stack' = PopN(3) /\ UNCHANGED <<fn, exc, status>>
               \/ Event("close", <<it.v>>, "throw") /\ Throws /\ stack' = PopN(2)

\* An assignment to a property, which may run a setter.
PutField ==
  /\ At1("put_field")
  /\ \/ /\ Event("put", ins.l, "ok")
        /\ pc' = pc + 1 /\ stack' = PopN(2) /\ UNCHANGED <<fn, exc, status>>
     \/ Event("put", ins.l, "throw") /\ Throws /\ stack' = PopN(2)

\* js_generator_next resumes a generator: a throw is raised at the yield,
\* next and return leave their value and their number on the stack; what a
\* yield* gets is passed on, a throw included.
Resumes == [next |-> 0, return |-> 1, throw |-> 2]

Yield ==
  \E r \in DOMAIN Resumes :
     /\ At1("yield") \/ At1("yield_star")
     /\ Event("yield", ins.l, r)
     /\ IF ins.op = "yield" /\ r = "throw" THEN Throws /\ UNCHANGED stack
        ELSE /\ pc' = pc + 1
             /\ stack' = PopN(1) \o <<Val("value", Now), Val("int", Resumes[r])>>
             /\ UNCHANGED <<fn, exc, status>>

\* The calls yield* makes: next, and throw or return, which may be missing.
InnerCall ==
  /\ At1("iterator_next") \/ At1("iterator_call")
  /\ LET it     == stack[Len(stack) - 3]
         isNext == ins.op = "iterator_next"
         method == IF isNext THEN "next" ELSE <<"return", "throw", "close">>[1 + ins.l[1]]
         got    == Append(PopN(1), Val("result", Now))
     IN  \/ \E r \in {"more", "last"} :
              /\ Event(method, <<it.v>>, r)
              /\ pc' = pc + 1
              /\ stack' = IF isNext THEN got ELSE Append(got, Bool(FALSE))
              /\ UNCHANGED <<fn, exc, status>>
         \/ Event(method, <<it.v>>, "throw") /\ Throws /\ UNCHANGED stack
         \/ /\ ~isNext
            /\ Event(method, <<it.v>>, "absent")
            /\ pc' = pc + 1 /\ stack' = Append(stack, Bool(TRUE))
            /\ UNCHANGED <<fn, exc, status>>

\* The label "exception": entries are popped until a catch offset takes the
\* exception; one that is 0 is a loop's, whose iterator is closed and what
\* the close does ignored.
Unwind ==
  /\ status = Running /\ exc > 0
  /\ \/ stack = <<>> /\ Ends("throw", exc)
     \/ /\ stack # <<>> /\ Top.t # "catch"
        /\ stack' = PopN(1) /\ UNCHANGED <<fn, pc, exc, trace, status>>
     \/ /\ stack # <<>> /\ Top.t = "catch" /\ Top.v > 0
        /\ pc' = Top.v /\ stack' = Append(PopN(1), Val("value", exc)) /\ exc' = 0
        /\ UNCHANGED <<fn, trace, status>>
     \/ /\ stack # <<>> /\ Top.t = "catch" /\ Top.v = 0
        /\ LET it == stack[Len(stack) - 2]
           IN  \/ it.t = "undefined" /\ UNCHANGED trace
               \/ it.t # "undefined" /\ \E r \in {"ok", "throw"} : Event("close", <<it.v>>, r)
        /\ stack' = PopN(2) /\ UNCHANGED <<fn, pc, exc, status>>

Next ==
  \/ Compile
  \/ Simple \/ Jump \/ Catch \/ Gosub \/ Ret \/ NipCatch \/ Return \/ Throw
  \/ Call \/ TailCall \/ Test \/ ForOfStart \/ ForOfNext \/ IteratorClose
  \/ PutField \/ Yield \/ InnerCall \/ Unwind

Spec == Init /\ [][Next]_vars
-----------------------------------------------------------------------------
(***************************************************************************)
(* Properties                                                              *)
(***************************************************************************)

TypeOK == /\ fn.body \in Programs /\ (status = Running => pc \in DOMAIN code)
          /\ \A i \in DOMAIN stack : stack[i].v \in Nat
          /\ exc \in 0 .. Len(trace) /\ Len(trace) <= MaxEvents

Ended == status.t \in {"return", "throw", "kill"}

\* The function makes the calls, in the order, and ends with the completion
\* that ECMAScript prescribes: through break, continue, return and exceptions
\* across loops, switches and finally blocks, each iterator closed once and
\* only when it is abandoned, each finally block run once.
Conforms ==
  Ended \/ Len(trace) = MaxEvents =>
    LET r == ESFunction(trace, fn.body)
    IN  /\ r.c.t # "bad"
        /\ Ended => /\ status = [t |-> r.c.t, v |-> r.c.v]
                    /\ r.i = Len(trace) + 1

\* compute_stack_size accepts the code, and before every instruction the
\* stack has the depth it computed, with the innermost catch offset where it
\* says: what sizes the frame, and what nip_catch is compiled from.
StackAsComputed ==
  status = Running /\ exc = 0 =>
    LET tab   == fn.tab
        c     == tab[pc].catch
        tops  == {i \in DOMAIN stack : stack[i].t = "catch"}
        top   == IF code[c].op = "catch" THEN tab[c].level + 1 ELSE tab[c].level + 2
    IN  /\ ~Refused(tab)
        /\ Len(stack) = tab[pc].level
        /\ (c = 0) = (tops = {})
        /\ c > 0 => top \in tops /\ \A i \in tops : i <= top

=============================================================================
