----------------------------- MODULE MCAnswers -----------------------------
(***************************************************************************)
(* Whoever asks gets an answer, for TLC: in every behaviour either the     *)
(* pool of workers runs jobs (AsyncEnginePool), an async generator serves  *)
(* its requests (JSAsyncGenerator), or Promise.all and its like wait for   *)
(* their elements (JSPromiseAll); the others stay as they begin.           *)
(***************************************************************************)
EXTENDS AsyncEnginePool

CONSTANTS MaxRequests, MaxElements

VARIABLES part,
          genState, func, queue, asked, answers, waits, stack,
          kind, loop, elems, remaining, called, values, result, fired

Generator == INSTANCE JSAsyncGenerator WITH state <- genState, ThenRunsCode <- FALSE
All == INSTANCE JSPromiseAll WITH Kinds <- {"all", "allSettled", "any", "race"},
                                  BothSides <- FALSE

genVars == <<genState, func, queue, asked, answers, waits, stack>>
allVars == <<kind, loop, elems, remaining, called, values, result, fired>>

AnswersInit ==
    /\ part \in {"pool", "generator", "all"}
    /\ Init /\ Generator!Init /\ All!Init
    /\ part # "all" => kind = "all"

PoolStep      == part = "pool" /\ Next /\ UNCHANGED <<part, genVars, allVars>>
GeneratorStep == part = "generator" /\ Generator!Next /\ UNCHANGED <<part, vars, allVars>>
AllStep       == part = "all" /\ All!Next /\ UNCHANGED <<part, vars, genVars>>

\* The fairness of the three modules; the actions it is about are disabled in
\* a component that stays as it begins.
AnswersSpec ==
    /\ AnswersInit
    /\ [][PoolStep \/ GeneratorStep \/ AllStep]_<<part, vars, genVars, allVars>>
    /\ Fairness
    /\ WF_genVars(Generator!Frame) /\ WF_genVars(Generator!Settles)
    /\ SF_genVars(Generator!Body)
    /\ WF_allVars(part = "all" /\ All!ThenReturns)
    /\ WF_allVars(part = "all" /\ All!IteratorDone)
    /\ \A e \in 1 .. MaxElements : WF_allVars(e \in DOMAIN elems /\ All!PromiseReacts(e))

\* An isolate that ends is noticed, and after dispose it does end; see
\* AsyncEnginePool.
ExitsTakeEffect == ExitIsNoticed /\ DisposedWorkerExits

\* The requests of an async generator are answered in their order and in the
\* states that allow it, its body is resumed for what it waits for and nothing
\* else, and once it has ended its frame is gone and no value comes any more;
\* see the properties of these names in JSAsyncGenerator.
GeneratorSound == Generator!GeneratorSound

\* See JSAsyncGenerator.
HeadAnswered == Generator!HeadAnswered

\* Promise.all and its like count what they wait for exactly, and complete with
\* every element's value in place; see JSPromiseAll.
CombinatorSound == All!CombinatorSound

\* See JSPromiseAll.
AllSettle == All!AllSettle
=============================================================================
