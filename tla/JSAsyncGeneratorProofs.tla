---------------------- MODULE JSAsyncGeneratorProofs ----------------------
(***************************************************************************)
(* For any number of requests to an async generator: they are answered in  *)
(* their order and in the states that allow it.  The theorem is about      *)
(* programs that leave Object.prototype without a "then" that runs code;   *)
(* with one, an iterator result is looked up while the queue and the state *)
(* disagree, and the assertions of the engine do not hold.                 *)
(***************************************************************************)
EXTENDS JSAsyncGenerator, SequenceTheorems, TLAPS

\* The time a leaf may take.
USE SMTT(30)

\* One frame is on the stack, or one that a return started from inside
\* js_async_generator_completed_return.
Stacks == {<<>>, <<"completed_return", "loop">>} \cup {<<p>> : p \in Places}

Quiet == waits.await = 0 /\ waits.return = 0

\* What each place of the frame on top of the stack tells of the generator.
StackInv ==
    /\ stack \in Stacks
    /\ stack = <<>> /\ state = "EXECUTING" => waits.await = 1
    /\ stack = <<>> /\ state = "AWAITING_RETURN" => waits.return = 1
    /\ stack = <<"body">> => state = "EXECUTING" /\ queue # <<>> /\ Quiet
    /\ stack = <<"await">> => state = "EXECUTING" /\ queue # <<>> /\ Quiet /\ func = "suspended"
    /\ stack \in {<<"completed_return">>, <<"completed_return", "loop">>}
           => state = "AWAITING_RETURN" /\ queue # <<>> /\ Quiet
    /\ stack = <<"loop">> /\ state = "EXECUTING"
           => func = "suspended" /\ queue # <<>> /\ Quiet
    /\ stack = <<"loop">> /\ state = "AWAITING_RETURN" => waits.return = 1
    /\ stack = <<"answer_loop">> => state \in Suspended \cup {"COMPLETED"} /\ Quiet
    /\ stack = <<"answer_exit">> => state = "COMPLETED" /\ Quiet

\* A generator that said it is done has finished.
DoneInv == \A i \in DOMAIN answers : answers[i].kind = "done" => state \in Finished

GeneratorInv ==
    /\ TypeOK
    /\ NullWhenFinished
    /\ AnsweredInOrder
    /\ SettlesInState
    /\ NoValueAfterDone
    /\ StackInv
    /\ DoneInv

-----------------------------------------------------------------------------
(* The stack of frames.                                                    *)

\* The operations on stacks of one or two frames.
LEMMA StackOps ==
    ASSUME NEW p, NEW x
    PROVE  /\ Last(<<p>>) = p /\ Front(<<p>>) = <<>> /\ <<p>> # <<>>
           /\ Last(<<p, x>>) = x /\ Front(<<p, x>>) = <<p>> /\ <<p, x>> # <<>>
           /\ Append(<<>>, x) = <<x>> /\ Append(<<p>>, x) = <<p, x>>
<1>1. Last(<<p>>) = p /\ Front(<<p>>) = <<>> /\ <<p>> # <<>>
    BY DEF Last, Front
<1>2. Last(<<p, x>>) = x /\ <<p, x>> # <<>> /\ Append(<<>>, x) = <<x>>
    BY DEF Last
<1>3. Front(<<p, x>>) = <<p>>
    <2> DEFINE s == SubSeq(<<p, x>>, 1, 1)
               t == <<p>>
    <2>1. s \in Seq({p, x}) /\ Len(s) = 1 /\ s[1] = p
        BY SubSeqProperties
    <2>2. t \in Seq({p, x}) /\ Len(t) = 1 /\ t[1] = p
        OBVIOUS
    <2> HIDE DEF s, t
    <2>3. s = t
        BY <2>1, <2>2, SeqEqual
    <2> QED
        BY <2>3 DEF Front, s, t
<1>4. Append(<<p>>, x) = <<p, x>>
    <2> DEFINE s == Append(<<p>>, x)
               t == <<p, x>>
    <2>1. s \in Seq({p, x}) /\ Len(s) = 2 /\ s[1] = p /\ s[2] = x
        BY AppendProperties
    <2>2. t \in Seq({p, x}) /\ Len(t) = 2 /\ t[1] = p /\ t[2] = x
        OBVIOUS
    <2> HIDE DEF s, t
    <2>3. s = t
        BY <2>1, <2>2, SeqEqual
    <2> QED
        BY Zenon, <2>3 DEF s, t
<1> QED
    BY Zenon, <1>1, <1>2, <1>3, <1>4

\* Which stacks have a given place on top, and what the steps make of them.
LEMMA AtPlace ==
    ASSUME stack \in Stacks, NEW place \in Places, At(place)
    PROVE  /\ stack = <<place>> \/ (place = "loop" /\ stack = <<"completed_return", "loop">>)
           /\ stack = <<place>> => Front(stack) = <<>>
           /\ stack # <<place>> => Front(stack) = <<"completed_return">>
           /\ \A x : stack = <<place>> => Append(Front(stack), x) = <<x>>
<1>1. CASE stack = <<"completed_return", "loop">>
    BY Zenon, <1>1, StackOps DEF At, Top
<1>2. CASE \E p \in Places : stack = <<p>>
    <2>1. PICK p \in Places : stack = <<p>>
        BY Zenon, <1>2
    <2>2. p = place
        BY Zenon, <2>1, StackOps DEF At, Top
    <2> QED
        BY Zenon, <2>1, <2>2, StackOps
<1> QED
    BY Zenon, <1>1, <1>2 DEF Stacks, At

\* JavaScript code runs when no frame is on the stack, or in one of the places
\* of a frame that call it.
LEMMA CodePlaces ==
    ASSUME ~ThenRunsCode, stack \in Stacks, CodeRuns
    PROVE  /\ stack = <<>> \/ \E p \in {"body", "await", "completed_return"} : stack = <<p>>
           /\ stack = <<>> => Append(stack, "loop") = <<"loop">>
           /\ stack = <<>> => Append(stack, "answer_exit") = <<"answer_exit">>
           /\ stack = <<"completed_return">>
                  => Append(stack, "loop") = <<"completed_return", "loop">>
<1>1. CASE stack = <<>>
    BY Zenon, <1>1, StackOps
<1>2. CASE stack = <<"completed_return", "loop">>
    BY Zenon, <1>2, StackOps DEF CodeRuns, Top, UserPlaces
<1>3. CASE \E p \in Places : stack = <<p>>
    <2>1. PICK p \in Places : stack = <<p>>
        BY Zenon, <1>3
    <2>2. p \in {"body", "await", "completed_return"}
        BY Zenon, <2>1, StackOps DEF CodeRuns, Top, UserPlaces
    <2>3. stack # <<>> /\ \E q \in {"body", "await", "completed_return"} : stack = <<q>>
        BY Zenon, <2>1, <2>2, StackOps
    <2>4. stack = <<"completed_return">> => Append(stack, "loop") = <<"completed_return", "loop">>
        BY Zenon, StackOps
    <2> QED
        BY Zenon, <2>3, <2>4
<1> QED
    BY Zenon, <1>1, <1>2, <1>3 DEF Stacks

-----------------------------------------------------------------------------
(* The queue and the answers.                                              *)

\* A new request goes to the end of the queue under the next number.
LEMMA RequestOrder ==
    ASSUME TypeOK, AnsweredInOrder, NEW type \in Types, asked < MaxRequests,
           MaxRequests \in Nat,
           asked' = asked + 1, answers' = answers,
           queue' = Append(queue, [id |-> asked + 1, type |-> type])
    PROVE  /\ asked' \in 0 .. MaxRequests
           /\ queue' \in Seq([id : 1 .. asked', type : Types]) /\ queue' # <<>>
           /\ answers' \in Seq([id : 1 .. asked', kind : Kinds])
           /\ AnsweredInOrder'
<1> DEFINE R == [id : 1 .. asked', type : Types]
           A == [id : 1 .. asked', kind : Kinds]
           r == [id |-> asked + 1, type |-> type]
<1>1. asked \in Nat /\ asked' \in 0 .. MaxRequests
    BY DEF TypeOK
<1>2. r \in R
    BY <1>1
<1>3. queue \in Seq(R) /\ answers \in Seq(A)
    <2> DEFINE R0 == [id : 1 .. asked, type : Types]
               A0 == [id : 1 .. asked, kind : Kinds]
    <2>1. R0 \subseteq R
        BY <1>1
    <2>2. A0 \subseteq A
        BY <1>1
    <2>3. queue \in Seq(R0) /\ answers \in Seq(A0)
        BY Zenon DEF TypeOK
    <2> HIDE DEF R0, A0, R, A
    <2> QED
        BY Zenon, <2>1, <2>2, <2>3, SeqMonotonic
<1>6. r.id = asked + 1
    BY Zenon
<1> HIDE DEF R, A, r
<1>7. /\ Len(queue) \in Nat /\ DOMAIN queue = 1 .. Len(queue)
      /\ Len(answers) \in Nat /\ DOMAIN answers = 1 .. Len(answers)
    BY Zenon, <1>3, LenProperties
<1>4. /\ queue' \in Seq(R) /\ Len(queue') = Len(queue) + 1 /\ queue' # <<>>
      /\ DOMAIN queue' = 1 .. Len(queue')
      /\ \A i \in 1 .. Len(queue) : queue'[i] = queue[i]
      /\ queue'[Len(queue) + 1] = r
    BY <1>2, <1>3, AppendProperties, LenProperties DEF r
<1>5. AnsweredInOrder'
    <2>1. Len(answers') + Len(queue') = asked'
        BY <1>1, <1>7, <1>4 DEF AnsweredInOrder
    <2>2. \A i \in DOMAIN queue' : queue'[i].id = Len(answers') + i
        <3> SUFFICES ASSUME NEW i \in 1 .. (Len(queue) + 1)
                     PROVE  queue'[i].id = Len(answers) + i
            BY Zenon, <1>7, <1>4
        <3>1. CASE i = Len(queue) + 1
            <4>1. queue'[i].id = asked + 1
                BY Zenon, <3>1, <1>4, <1>6
            <4>2. asked + 1 = Len(answers) + i
                BY <3>1, <1>1, <1>7 DEF AnsweredInOrder
            <4> QED
                BY Zenon, <4>1, <4>2
        <3>2. CASE i # Len(queue) + 1
            BY <3>2, <1>7, <1>4 DEF AnsweredInOrder
        <3> QED
            BY Zenon, <3>1, <3>2
    <2> QED
        BY Zenon, <2>1, <2>2 DEF AnsweredInOrder
<1> QED
    BY Zenon, <1>1, <1>3, <1>4, <1>5 DEF R, A

\* An answer goes to the request that is first in the queue.
LEMMA AnswerOrder ==
    ASSUME TypeOK, AnsweredInOrder, queue # <<>>, MaxRequests \in Nat,
           NEW kind \in Kinds, Answer(kind), asked' = asked
    PROVE  /\ queue' \in Seq([id : 1 .. asked', type : Types])
           /\ answers' \in Seq([id : 1 .. asked', kind : Kinds])
           /\ AnsweredInOrder'
           /\ DOMAIN answers' = 1 .. Len(answers) + 1
           /\ DOMAIN answers = 1 .. Len(answers) /\ Len(answers) \in Nat
           /\ \A i \in 1 .. Len(answers) : answers'[i] = answers[i]
           /\ answers'[Len(answers) + 1].kind = kind
<1> DEFINE R == [id : 1 .. asked, type : Types]
           A == [id : 1 .. asked, kind : Kinds]
           a == [id |-> Head(queue).id, kind |-> kind]
<1>1. queue \in Seq(R) /\ answers \in Seq(A) /\ asked \in Nat
    BY DEF TypeOK
<1> HIDE DEF R, A
<1>8. /\ Len(queue) \in Nat /\ DOMAIN queue = 1 .. Len(queue)
      /\ Len(answers) \in Nat /\ DOMAIN answers = 1 .. Len(answers)
    BY Zenon, <1>1, LenProperties
<1>2. Head(queue) \in R /\ Head(queue) = queue[1] /\ Len(queue) > 0
    BY <1>1, HeadTailProperties, EmptySeq
<1>3. a \in A
    BY Zenon, <1>2 DEF A, R
<1>4. a.kind = kind /\ a.id = Len(answers) + 1
    BY <1>8, <1>2 DEF AnsweredInOrder
<1> HIDE DEF a
<1>5. /\ answers' = Append(answers, a) /\ answers' \in Seq(A)
      /\ Len(answers') = Len(answers) + 1
      /\ \A i \in 1 .. Len(answers) : answers'[i] = answers[i]
      /\ answers'[Len(answers) + 1] = a
      /\ DOMAIN answers' = 1 .. Len(answers')
    BY <1>1, <1>3, AppendProperties, LenProperties DEF Answer, a
<1>6. /\ queue' \in Seq(R) /\ Len(queue') = Len(queue) - 1
      /\ \A i \in 1 .. (Len(queue) - 1) : queue'[i] = queue[i + 1]
      /\ DOMAIN queue' = 1 .. Len(queue')
    BY Zenon, <1>1, <1>2, HeadTailProperties, LenProperties DEF Answer
<1>7. AnsweredInOrder'
    <2>1. Len(answers') + Len(queue') = asked'
        BY <1>8, <1>5, <1>6 DEF AnsweredInOrder
    <2>2. \A i \in DOMAIN answers' : answers'[i].id = i
        BY <1>8, <1>4, <1>5 DEF AnsweredInOrder
    <2>3. \A i \in DOMAIN queue' : queue'[i].id = Len(answers') + i
        BY <1>8, <1>5, <1>6 DEF AnsweredInOrder
    <2> QED
        BY Zenon, <2>1, <2>2, <2>3 DEF AnsweredInOrder
<1> QED
    BY Zenon, <1>8, <1>4, <1>5, <1>6, <1>7 DEF R, A

-----------------------------------------------------------------------------
(* The steps.                                                              *)

\* What the requests and their answers keep.
Log == AnsweredInOrder /\ NoValueAfterDone /\ DoneInv

LogTypeOK ==
    /\ asked \in 0 .. MaxRequests
    /\ queue \in Seq([id : 1 .. asked, type : Types])
    /\ answers \in Seq([id : 1 .. asked, kind : Kinds])

\* A generator that has finished stays so.
StaysFinished == state \in Finished => state' \in Finished

\* A step that makes no request and gives no answer.
LEMMA LogStays ==
    ASSUME TypeOK, Log, StaysFinished, UNCHANGED <<queue, asked, answers>>
    PROVE  Log' /\ LogTypeOK'
BY ZenonT(40) DEF TypeOK, Log, LogTypeOK, StaysFinished, AnsweredInOrder, NoValueAfterDone, DoneInv

\* A request.
LEMMA LogAtRequest ==
    ASSUME TypeOK, Log, MaxRequests \in Nat, NEW type \in Types, Request(type)
    PROVE  Log' /\ LogTypeOK' /\ queue' # <<>>
<1>1. AnsweredInOrder' /\ LogTypeOK' /\ queue' # <<>>
    BY Zenon, RequestOrder DEF Log, LogTypeOK, Request
<1>2. NoValueAfterDone' /\ DoneInv'
    BY Zenon DEF Log, Request, NoValueAfterDone, DoneInv
<1> QED
    BY Zenon, <1>1, <1>2 DEF Log

\* An answer: only a generator that runs gives a value, and one that says it is
\* done has finished.
LEMMA LogAtAnswer ==
    ASSUME TypeOK, Log, MaxRequests \in Nat, StaysFinished, queue # <<>>,
           NEW kind \in Kinds, Answer(kind), asked' = asked,
           kind = "value" => state \notin Finished,
           kind = "done" => state' \in Finished
    PROVE  Log' /\ LogTypeOK'
<1>1. /\ AnsweredInOrder' /\ LogTypeOK'
      /\ DOMAIN answers' = 1 .. Len(answers) + 1
      /\ DOMAIN answers = 1 .. Len(answers) /\ Len(answers) \in Nat
      /\ \A i \in 1 .. Len(answers) : answers'[i] = answers[i]
      /\ answers'[Len(answers) + 1].kind = kind
    BY Zenon, AnswerOrder DEF Log, LogTypeOK, TypeOK
<1>2. NoValueAfterDone'
    <2> SUFFICES ASSUME NEW i \in DOMAIN answers', NEW j \in DOMAIN answers',
                        i < j, answers'[i].kind = "done"
                 PROVE  answers'[j].kind # "value"
        BY Zenon DEF NoValueAfterDone
    <2>1. i \in 1 .. Len(answers) /\ answers[i].kind = "done"
        BY <1>1
    <2>2. CASE j = Len(answers) + 1
        BY Zenon, <1>1, <2>1, <2>2 DEF Log, DoneInv
    <2>3. CASE j # Len(answers) + 1
        BY <1>1, <2>1, <2>3 DEF Log, NoValueAfterDone
    <2> QED
        BY Zenon, <2>2, <2>3
<1>3. DoneInv'
    <2> SUFFICES ASSUME NEW i \in DOMAIN answers', answers'[i].kind = "done"
                 PROVE  state' \in Finished
        BY Zenon DEF DoneInv
    <2>1. CASE i = Len(answers) + 1
        BY Zenon, <1>1, <2>1
    <2>2. CASE i # Len(answers) + 1
        BY <1>1, <2>2 DEF Log, DoneInv, StaysFinished
    <2> QED
        BY Zenon, <2>1, <2>2
<1> QED
    BY Zenon, <1>1, <1>2, <1>3 DEF Log

\* The stacks of the invariant are stacks of frames.
LEMMA StacksTyped == Stacks \subseteq Seq(Places)
<1>1. <<>> \in Seq(Places)
    OBVIOUS
<1>2. \A p \in Places : <<p>> \in Seq(Places)
    OBVIOUS
<1>3. <<"completed_return", "loop">> \in Seq(Places)
    BY DEF Places
<1> QED
    BY Zenon, <1>1, <1>2, <1>3 DEF Stacks

\* The invariant but for the requests and their answers.
Control == NullWhenFinished /\ SettlesInState /\ StackInv

ControlTypeOK ==
    /\ state \in States
    /\ func \in {"null", "suspended", "running"}
    /\ waits \in [{"await", "return"} -> Nat]

LEMMA Parts == GeneratorInv <=> LogTypeOK /\ ControlTypeOK /\ Log /\ Control
BY Zenon, StacksTyped DEF GeneratorInv, TypeOK, LogTypeOK, ControlTypeOK, Log, Control, StackInv

\* Two stacks of the invariant are the same only when they look so.
LEMMA StacksDiffer ==
    /\ \A p, q : <<p>> = <<q>> => p = q
    /\ \A p : <<p>> # <<>> /\ <<p>> # <<"completed_return", "loop">>
    /\ <<>> # <<"completed_return", "loop">>
BY Zenon

\* Counting the reactions that wait.
LEMMA WaitsCount ==
    ASSUME waits \in [{"await", "return"} -> Nat], Quiet
    PROVE  /\ waits' = [waits EXCEPT !.await = @ + 1]
                  => /\ waits' \in [{"await", "return"} -> Nat]
                     /\ waits'.await = 1 /\ waits'.return = 0
           /\ waits' = [waits EXCEPT !.return = @ + 1]
                  => /\ waits' \in [{"await", "return"} -> Nat]
                     /\ waits'.await = 0 /\ waits'.return = 1
BY DEF Quiet

\* One step of the frames, the body or a reaction keeps the control part.
LEMMA ControlStep ==
    ASSUME ControlTypeOK, Control, queue \in Seq([id : 1 .. asked, type : Types]),
           ~ThenRunsCode, Next
    PROVE  ControlTypeOK' /\ Control'
<1> USE DEF ControlTypeOK, Control, NullWhenFinished, SettlesInState, Quiet,
            States, Suspended, Finished
<1>0. stack \in Stacks
    BY Zenon DEF StackInv
<1>1. ASSUME NEW type \in Types, Request(type)
      PROVE  ControlTypeOK' /\ Control'
    <2>1. /\ stack = <<>> \/ \E p \in {"body", "await", "completed_return"} : stack = <<p>>
          /\ stack = <<>> => Append(stack, "loop") = <<"loop">>
          /\ stack = <<"completed_return">>
                 => Append(stack, "loop") = <<"completed_return", "loop">>
        BY Zenon, <1>0, <1>1, CodePlaces DEF Request
    <2>2. queue' # <<>>
        BY <1>1 DEF Request
    <2>3. stack' = stack \/ stack' = <<"loop">> \/ stack' = <<"completed_return", "loop">>
        BY Zenon, <1>1, <2>1 DEF Request, StackInv
    <2> QED
        BY Zenon, <1>1, <2>1, <2>2, <2>3, StacksDiffer DEF Request, StackInv, Stacks, Places
<1>2. CASE LoopEnds
    <2>1. At("loop") /\ "loop" \in Places
        BY Zenon, <1>2 DEF LoopEnds, Places
    <2>2. /\ stack \in {<<"loop">>, <<"completed_return", "loop">>}
          /\ stack = <<"loop">> => Front(stack) = <<>>
          /\ stack # <<"loop">> => Front(stack) = <<"completed_return">>
          /\ \A x : stack = <<"loop">> => Append(Front(stack), x) = <<x>>
        BY Zenon, <1>0, <2>1, AtPlace
    <2> QED
        BY <1>2, <2>2, StacksDiffer DEF LoopEnds, GoTo, Exit, StackInv, Stacks, Places
<1>3. CASE LoopExecuting
    <2>1. At("loop") /\ "loop" \in Places
        BY Zenon, <1>3 DEF LoopExecuting, Places
    <2>2. /\ stack \in {<<"loop">>, <<"completed_return", "loop">>}
          /\ stack = <<"loop">> => Front(stack) = <<>>
          /\ stack # <<"loop">> => Front(stack) = <<"completed_return">>
          /\ \A x : stack = <<"loop">> => Append(Front(stack), x) = <<x>>
        BY Zenon, <1>0, <2>1, AtPlace
    <2> QED
        BY ZenonT(40), <1>3, <2>2, StacksDiffer DEF LoopExecuting, GoTo, Exit, StackInv, Stacks, Places
<1>4. CASE LoopAwaitingReturn
    <2>1. At("loop") /\ "loop" \in Places
        BY Zenon, <1>4 DEF LoopAwaitingReturn, Places
    <2>2. /\ stack \in {<<"loop">>, <<"completed_return", "loop">>}
          /\ stack = <<"loop">> => Front(stack) = <<>>
          /\ stack # <<"loop">> => Front(stack) = <<"completed_return">>
          /\ \A x : stack = <<"loop">> => Append(Front(stack), x) = <<x>>
        BY Zenon, <1>0, <2>1, AtPlace
    <2> QED
        BY Zenon, <1>4, <2>2, StacksDiffer DEF LoopAwaitingReturn, GoTo, Exit, StackInv, Stacks, Places
<1>5. CASE LoopExec
    <2>1. At("loop") /\ "loop" \in Places
        BY Zenon, <1>5 DEF LoopExec, Places
    <2>2. /\ stack \in {<<"loop">>, <<"completed_return", "loop">>}
          /\ stack = <<"loop">> => Front(stack) = <<>>
          /\ stack # <<"loop">> => Front(stack) = <<"completed_return">>
          /\ \A x : stack = <<"loop">> => Append(Front(stack), x) = <<x>>
        BY Zenon, <1>0, <2>1, AtPlace
    <2> QED
        BY <1>5, <2>2, StacksDiffer DEF LoopExec, GoTo, Exit, StackInv, Stacks, Places
<1>6. CASE LoopComplete
    <2>1. At("loop") /\ "loop" \in Places
        BY Zenon, <1>6 DEF LoopComplete, Places
    <2>2. /\ stack \in {<<"loop">>, <<"completed_return", "loop">>}
          /\ stack = <<"loop">> => Front(stack) = <<>>
          /\ stack # <<"loop">> => Front(stack) = <<"completed_return">>
          /\ \A x : stack = <<"loop">> => Append(Front(stack), x) = <<x>>
        BY Zenon, <1>0, <2>1, AtPlace
    <2> QED
        BY Zenon, <1>6, <2>2, StacksDiffer DEF LoopComplete, GoTo, Exit, StackInv, Stacks, Places
<1>7. CASE CompletedNext
    <2>1. At("loop") /\ "loop" \in Places
        BY Zenon, <1>7 DEF CompletedNext, Places, AtRequest
    <2>2. /\ stack \in {<<"loop">>, <<"completed_return", "loop">>}
          /\ stack = <<"loop">> => Front(stack) = <<>>
          /\ stack # <<"loop">> => Front(stack) = <<"completed_return">>
          /\ \A x : stack = <<"loop">> => Append(Front(stack), x) = <<x>>
        BY Zenon, <1>0, <2>1, AtPlace
    <2> QED
        BY <1>7, <2>2, StacksDiffer DEF CompletedNext, GoTo, Exit, StackInv, Stacks, Places, AtRequest
<1>8. CASE CompletedThrow
    <2>1. At("loop") /\ "loop" \in Places
        BY Zenon, <1>8 DEF CompletedThrow, Places, AtRequest
    <2>2. /\ stack \in {<<"loop">>, <<"completed_return", "loop">>}
          /\ stack = <<"loop">> => Front(stack) = <<>>
          /\ stack # <<"loop">> => Front(stack) = <<"completed_return">>
          /\ \A x : stack = <<"loop">> => Append(Front(stack), x) = <<x>>
        BY Zenon, <1>0, <2>1, AtPlace
    <2> QED
        BY Zenon, <1>8, <2>2, StacksDiffer DEF CompletedThrow, GoTo, Exit, StackInv, Stacks, Places, AtRequest
<1>9. CASE CompletedReturn
    <2>1. At("loop") /\ "loop" \in Places
        BY Zenon, <1>9 DEF CompletedReturn, Places, AtRequest
    <2>2. /\ stack \in {<<"loop">>, <<"completed_return", "loop">>}
          /\ stack = <<"loop">> => Front(stack) = <<>>
          /\ stack # <<"loop">> => Front(stack) = <<"completed_return">>
          /\ \A x : stack = <<"loop">> => Append(Front(stack), x) = <<x>>
        BY Zenon, <1>0, <2>1, AtPlace
    <2> QED
        BY <1>9, <2>2, StacksDiffer DEF CompletedReturn, GoTo, Exit, StackInv, Stacks, Places, AtRequest
<1>10. CASE CompletedReturnThen
    <2>1. At("completed_return") /\ "completed_return" \in Places
        BY Zenon, <1>10 DEF CompletedReturnThen, Places
    <2>2. stack = <<"completed_return">> /\ Front(stack) = <<>> /\ \A x : Append(Front(stack), x) = <<x>>
        BY Zenon, <1>0, <2>1, AtPlace
    <2>4. /\ waits' \in [{"await", "return"} -> Nat] /\ waits'.await = 0 /\ waits'.return = 1
        <3>1. waits \in [{"await", "return"} -> Nat] /\ Quiet
            BY Zenon, <2>2 DEF StackInv
        <3> QED
            BY Zenon, <1>10, <3>1, WaitsCount DEF CompletedReturnThen
    <2>3. stack' = <<>> /\ state = "AWAITING_RETURN" /\ queue # <<>>
        BY Zenon, <1>10, <2>2 DEF CompletedReturnThen, Exit, StackInv
    <2> QED
        BY <1>10, <2>3, <2>4, StacksDiffer DEF CompletedReturnThen, StackInv, Stacks, Places
<1>11. CASE AwaitThen
    <2>1. At("await") /\ "await" \in Places
        BY Zenon, <1>11 DEF AwaitThen, Places
    <2>2. stack = <<"await">> /\ Front(stack) = <<>> /\ \A x : Append(Front(stack), x) = <<x>>
        BY Zenon, <1>0, <2>1, AtPlace
    <2>4. /\ waits' \in [{"await", "return"} -> Nat] /\ waits'.await = 1 /\ waits'.return = 0
        <3>1. waits \in [{"await", "return"} -> Nat] /\ Quiet
            BY Zenon, <2>2 DEF StackInv
        <3> QED
            BY Zenon, <1>11, <3>1, WaitsCount DEF AwaitThen
    <2>3. stack' = <<>> /\ state = "EXECUTING" /\ queue # <<>> /\ func = "suspended"
        BY Zenon, <1>11, <2>2 DEF AwaitThen, Exit, StackInv
    <2> QED
        BY <1>11, <2>3, <2>4, StacksDiffer DEF AwaitThen, StackInv, Stacks, Places
<1>12. CASE BodyYields
    <2>1. At("body") /\ "body" \in Places
        BY Zenon, <1>12 DEF BodyYields, Places
    <2>2. stack = <<"body">> /\ Front(stack) = <<>> /\ \A x : Append(Front(stack), x) = <<x>>
        BY Zenon, <1>0, <2>1, AtPlace
    <2> QED
        BY Zenon, <1>12, <2>2, StacksDiffer DEF BodyYields, GoTo, Exit, StackInv, Stacks, Places
<1>13. CASE BodyAwaits
    <2>1. At("body") /\ "body" \in Places
        BY Zenon, <1>13 DEF BodyAwaits, Places
    <2>2. stack = <<"body">> /\ Front(stack) = <<>> /\ \A x : Append(Front(stack), x) = <<x>>
        BY Zenon, <1>0, <2>1, AtPlace
    <2>3. stack' = <<"await">> /\ state = "EXECUTING" /\ queue # <<>> /\ Quiet
        BY Zenon, <1>13, <2>1, <2>2, StacksDiffer DEF BodyAwaits, GoTo, StackInv
    <2> QED
        BY Zenon, <1>13, <2>3, StacksDiffer DEF BodyAwaits, StackInv, Stacks, Places
<1>14. CASE AwaitFails
    <2>1. At("await") /\ "await" \in Places
        BY Zenon, <1>14 DEF AwaitFails, Places
    <2>2. stack = <<"await">> /\ Front(stack) = <<>> /\ \A x : Append(Front(stack), x) = <<x>>
        BY Zenon, <1>0, <2>1, AtPlace
    <2>3. stack' = <<"body">> /\ state = "EXECUTING" /\ queue # <<>> /\ Quiet
        BY Zenon, <1>14, <2>1, <2>2, StacksDiffer DEF AwaitFails, GoTo, StackInv
    <2> QED
        BY Zenon, <1>14, <2>3, StacksDiffer DEF AwaitFails, StackInv, Stacks, Places
<1>15. CASE BodyCompletes
    <2>1. At("body") /\ "body" \in Places
        BY Zenon, <1>15 DEF BodyCompletes, Places
    <2>2. stack = <<"body">> /\ Front(stack) = <<>> /\ \A x : Append(Front(stack), x) = <<x>>
        BY Zenon, <1>0, <2>1, AtPlace
    <2>3. stack' \in {<<"answer_loop">>, <<"loop">>} /\ Quiet
        BY Zenon, <1>15, <2>1, <2>2, StacksDiffer DEF BodyCompletes, GoTo, StackInv
    <2> QED
        BY Zenon, <1>15, <2>3, StacksDiffer DEF BodyCompletes, StackInv, Stacks, Places
<1>16. CASE AnswerEnds
    <2>1. CASE At("answer_loop") /\ GoTo("loop")
        <3>1. stack = <<"answer_loop">> /\ Append(Front(stack), "loop") = <<"loop">>
            BY Zenon, <1>0, <2>1, AtPlace DEF Places
        <3> QED
            BY Zenon, <1>16, <2>1, <3>1, StacksDiffer DEF AnswerEnds, GoTo, StackInv, Stacks, Places
    <2>2. CASE At("answer_exit") /\ Exit
        <3>1. stack = <<"answer_exit">> /\ Front(stack) = <<>>
            BY Zenon, <1>0, <2>2, AtPlace DEF Places
        <3> QED
            BY Zenon, <1>16, <2>2, <3>1, StacksDiffer DEF AnswerEnds, Exit, StackInv, Stacks, Places
    <2> QED
        BY Zenon, <1>16, <2>1, <2>2 DEF AnswerEnds
<1>17. CASE AwaitSettles
    <2>1. /\ stack = <<>> \/ \E p \in {"body", "await", "completed_return"} : stack = <<p>>
          /\ stack = <<>> => Append(stack, "loop") = <<"loop">>
          /\ stack = <<>> => Append(stack, "answer_exit") = <<"answer_exit">>
        BY Zenon, <1>0, <1>17, CodePlaces DEF AwaitSettles
    <2>2. waits.await = 1 /\ stack = <<>>
        BY <1>17, <2>1, StacksDiffer DEF AwaitSettles, StackInv
    <2> QED
        BY <1>17, <2>1, <2>2, StacksDiffer DEF AwaitSettles, StackInv, Stacks, Places
<1>18. CASE ReturnSettles
    <2>1. /\ stack = <<>> \/ \E p \in {"body", "await", "completed_return"} : stack = <<p>>
          /\ stack = <<>> => Append(stack, "loop") = <<"loop">>
          /\ stack = <<>> => Append(stack, "answer_exit") = <<"answer_exit">>
        BY Zenon, <1>0, <1>18, CodePlaces DEF ReturnSettles
    <2>2. waits.return = 1 /\ stack = <<>>
        BY <1>18, <2>1, StacksDiffer DEF ReturnSettles, StackInv
    <2>3. /\ stack' \in {<<"answer_exit">>, <<>>} /\ func = "null"
          /\ waits' \in [{"await", "return"} -> Nat] /\ waits'.await = 0 /\ waits'.return = 0
        BY <1>18, <2>1, <2>2, StacksDiffer DEF ReturnSettles, Answer, StackInv
    <2>4. state' = "COMPLETED" /\ func' = "null"
        BY Zenon, <1>18, <2>3 DEF ReturnSettles
    <2>5. StackInv'
        <3>1. CASE stack' = <<>>
            BY Zenon, <2>3, <2>4, <3>1, StacksDiffer DEF StackInv, Stacks, Places
        <3>2. CASE stack' = <<"answer_exit">>
            BY Zenon, <2>3, <2>4, <3>2, StacksDiffer DEF StackInv, Stacks, Places
        <3> QED
            BY Zenon, <2>3, <3>1, <3>2
    <2> QED
        BY <2>3, <2>4, <2>5
<1> QED
    BY Zenon, <1>1, <1>2, <1>3, <1>4, <1>5, <1>6, <1>7, <1>8, <1>9, <1>10, <1>11, <1>12, <1>13, <1>14, <1>15, <1>16, <1>17, <1>18
       DEF Next, Frame, Body, Settles

\* What a step does to the requests and their answers.
LEMMA LogStep ==
    ASSUME GeneratorInv, MaxRequests \in Nat, ~ThenRunsCode, Next
    PROVE  Log' /\ LogTypeOK'
<1>0. TypeOK /\ Log /\ stack \in Stacks
    BY Zenon DEF GeneratorInv, Log, StackInv
<1>1. ASSUME NEW type \in Types, Request(type)
      PROVE  Log' /\ LogTypeOK'
    BY Zenon, <1>0, <1>1, LogAtRequest
<1>2. ASSUME NEW kind \in Kinds, Answer(kind), asked' = asked, queue # <<>>,
             kind = "value" => state = "EXECUTING",
             kind = "done" => state' = "COMPLETED",
             state' # state => state' = "COMPLETED" \/ state = "EXECUTING"
      PROVE  Log' /\ LogTypeOK'
    BY Zenon, <1>0, <1>2, LogAtAnswer DEF StaysFinished, Finished
<1>3. ASSUME UNCHANGED <<queue, asked, answers>>,
             state' # state => state \notin Finished \/ state' \in Finished
      PROVE  Log' /\ LogTypeOK'
    BY Zenon, <1>0, <1>3, LogStays DEF StaysFinished
<1>4. CASE LoopEnds \/ LoopExecuting \/ LoopAwaitingReturn \/ CompletedReturnThen
              \/ AnswerEnds \/ AwaitThen \/ BodyAwaits \/ AwaitFails \/ AwaitSettles
    BY Zenon, <1>3, <1>4 DEF LoopEnds, LoopExecuting, LoopAwaitingReturn, CompletedReturnThen,
                      AnswerEnds, AwaitThen, BodyAwaits, AwaitFails, AwaitSettles
<1>5. CASE LoopExec \/ LoopComplete \/ CompletedReturn
    BY Zenon, <1>3, <1>5 DEF LoopExec, LoopComplete, CompletedReturn, Suspended, Finished
<1>6. CASE CompletedNext \/ CompletedThrow
    BY Zenon, <1>2, <1>6 DEF CompletedNext, CompletedThrow, AtRequest, Kinds
<1>7. CASE BodyYields \/ BodyCompletes
    <2>1. At("body") /\ "body" \in Places
        BY Zenon, <1>7 DEF BodyYields, BodyCompletes, Places
    <2>2. stack = <<"body">>
        BY Zenon, <1>0, <2>1, AtPlace
    <2>3. state = "EXECUTING" /\ queue # <<>>
        BY Zenon, <2>2 DEF GeneratorInv, StackInv
    <2> QED
        BY Zenon, <1>2, <1>7, <2>3 DEF BodyYields, BodyCompletes, Kinds
<1>8. CASE ReturnSettles
    <2>1. waits.return = 1 /\ queue # <<>>
        BY <1>8 DEF ReturnSettles, GeneratorInv, TypeOK, SettlesInState
    <2> QED
        BY Zenon, <1>2, <1>8, <2>1 DEF ReturnSettles, Kinds
<1> QED
    BY Zenon, <1>1, <1>4, <1>5, <1>6, <1>7, <1>8 DEF Next, Frame, Body, Settles

\* GeneratorInv is inductive: it holds at the start ...
LEMMA GeneratorInvInit == MaxRequests \in Nat /\ Init => GeneratorInv
BY DEF Init, GeneratorInv, TypeOK, NullWhenFinished, AnsweredInOrder, SettlesInState,
       NoValueAfterDone, StackInv, DoneInv, Stacks, States, Suspended, Finished

\* ... and every step keeps it.
LEMMA GeneratorInvStep ==
    ASSUME MaxRequests \in Nat, ~ThenRunsCode, GeneratorInv, [Next]_vars
    PROVE  GeneratorInv'
<1>1. CASE Next
    <2>1. ControlTypeOK' /\ Control'
        BY Zenon, <1>1, Parts, ControlStep DEF GeneratorInv, TypeOK
    <2>2. Log' /\ LogTypeOK'
        BY Zenon, <1>1, LogStep
    <2> QED
        BY Zenon, <2>1, <2>2, StacksTyped
           DEF GeneratorInv, TypeOK, LogTypeOK, ControlTypeOK, Log, Control, StackInv
<1>2. CASE UNCHANGED vars
    BY ZenonT(40), <1>2 DEF vars, GeneratorInv, TypeOK, NullWhenFinished, AnsweredInOrder,
                SettlesInState, NoValueAfterDone, StackInv, DoneInv, Quiet
<1> QED
    BY Zenon, <1>1, <1>2

\* The loop is at an EXECUTING generator only in a frame of its own.
LEMMA GeneratorInvImplies == GeneratorInv => GeneratorSound
<1> SUFFICES ASSUME GeneratorInv PROVE ResumesAfterAwait
    BY Zenon DEF GeneratorInv, GeneratorSound
<1> SUFFICES ASSUME At("loop"), state = "EXECUTING"
             PROVE  func = "suspended" /\ waits.await = 0
    BY Zenon DEF ResumesAfterAwait
<1>1. stack = <<"loop">> \/ stack = <<"completed_return", "loop">>
    BY Zenon, AtPlace DEF GeneratorInv, StackInv, Places
<1> QED
    BY Zenon, <1>1 DEF GeneratorInv, StackInv, Quiet

\* js_async_generator_next, js_async_generator_resume_next and
\* js_async_generator_resolve_function answer every request of an async
\* generator once and in order, run its body only for the first request that
\* waits, meet the states that they assert, and never give a value after the
\* generator has said that it is done: for any number of requests, made from
\* anywhere, in a program whose Object.prototype has no "then" that runs code.
THEOREM AsyncGeneratorIsSound ==
    ASSUME MaxRequests \in Nat, ~ThenRunsCode
    PROVE  Spec => []GeneratorSound
<1>1. Init => GeneratorInv
    BY Zenon, GeneratorInvInit
<1>2. GeneratorInv /\ [Next]_vars => GeneratorInv'
    BY Zenon, GeneratorInvStep
<1>3. GeneratorInv => GeneratorSound
    BY Zenon, GeneratorInvImplies
<1> QED
    BY <1>1, <1>2, <1>3, PTL DEF Spec
=============================================================================
