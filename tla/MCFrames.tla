------------------------------ MODULE MCFrames ------------------------------
(***************************************************************************)
(* Frames of functions, for TLC: in every behaviour either a compiled      *)
(* function runs (JSUnwind), or functions capture variables of frames that *)
(* end (JSClosure); the other one stays as it begins.                      *)
(***************************************************************************)
EXTENDS MCUnwind

CONSTANTS MaxFrames, MaxSlots, MaxClosures, MaxVariables, Vals, MaxWrites, None

VARIABLES part,
          frame, running, ref, clos, variable, val, writes

Captured == INSTANCE JSClosure WITH stack <- running

closureVars == <<frame, running, ref, clos, variable, val, writes>>

FramesInit ==
  /\ part \in {"control", "closures"}
  /\ Init /\ Captured!Init
  /\ part # "control" => fn.body = C

ControlStep == part = "control" /\ Next /\ UNCHANGED <<part, closureVars>>
ClosureStep == part = "closures" /\ Captured!Next /\ UNCHANGED <<part, vars>>

FramesSpec ==
  FramesInit /\ [][ControlStep \/ ClosureStep]_<<part, vars, closureVars>>

\* The code is well formed, and at every instruction the stack is as deep as
\* compute_stack_size found; see JSUnwind.
StackAsExpected == TypeOK /\ StackAsComputed

\* See JSClosure.
SharedVariable == Captured!SharedVariable

\* No reference leads into a frame that is gone, and what nothing refers to is
\* freed; see the properties of these names in JSClosure.
FramesHeld == Captured!NoDanglingRef /\ Captured!NothingLeaks
=============================================================================
