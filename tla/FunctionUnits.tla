---------------------------- MODULE FunctionUnits ---------------------------
(* The pipelines of the function units (fu/compunits): the stages each one  *)
(* chains between its registers, with one instruction in at a time, which   *)
(* is what the compute unit in front of a pipeline lets in.                 *)
EXTENDS Integers

CONSTANTS
    WIDTH,      \* width of a register in the arithmetic units
    BYTE,
    Insn        \* unit name |-> its instructions

Alu     == INSTANCE FuAlu WITH XLEN <- WIDTH
Logical == INSTANCE FuLogical
Shift   == INSTANCE FuShift

VARIABLES
    pipe,       \* [unit, at, insn, data]: the registers between the stages
    kind, start, empty, saved_input, saved_state, result      \* the divider

Div == INSTANCE FuDiv WITH XLEN <- WIDTH, Division <- Insn["div"]

divider == <<kind, start, empty, saved_input, saved_state, result>>

Unit == {"alu", "logical", "shiftrot", "mul", "cr", "div"}
Idle == [at |-> "idle"]
At(where, unit, insn, data) ==
    [at |-> where, unit |-> unit, insn |-> insn, data |-> data]

free == pipe = Idle /\ start = {} /\ empty /\ result = {}

Init == pipe = Idle /\ Div!DivInit

(* The input and main stages of a pipeline are one piece of logic.          *)
First(u, i) ==
    CASE u = "alu"      -> At("main", u, i, Alu!MainStage(Alu!InputStage(i)))
      [] u = "logical"  -> At("main", u, i, Logical!MainStage(Logical!InputStage(i)))
      [] u = "shiftrot" -> At("main", u, i, Shift!MainStage(Shift!InputStage(i)))
      [] u = "mul"      -> At("main", u, i, Alu!MulPre(Alu!InputStage(i)))
      [] u = "cr"       -> At("out", u, i, Logical!CrStage(i))

Last(u, i, m) ==
    CASE u = "alu"      -> Alu!OutputStage(i, m)
      [] u = "logical"  -> Logical!OutputStage(i, m)
      [] u = "shiftrot" -> Shift!OutputStage(i, m)
      [] u = "mul"      -> Alu!OutputStage(i, Alu!MulPost(m))

Issue ==
    /\ free
    /\ \E u \in Unit \ {"div"} : \E i \in Insn[u] : pipe' = First(u, i)
    /\ UNCHANGED divider

(* The multiplier has a stage more than the others.                         *)
Multiply ==
    /\ pipe.at = "main" /\ pipe.unit = "mul"
    /\ pipe' = At("product", "mul", pipe.insn, Alu!MulProduct(pipe.data))
    /\ UNCHANGED divider

Finish ==
    /\ \/ pipe.at = "main" /\ pipe.unit # "mul"
       \/ pipe.at = "product"
    /\ pipe' = At("out", pipe.unit, pipe.insn,
                  Last(pipe.unit, pipe.insn, pipe.data))
    /\ UNCHANGED divider

Take == pipe.at = "out" /\ pipe' = Idle /\ UNCHANGED divider

IssueDiv == free /\ (\E i \in Insn["div"] : Div!Issue(i)) /\ UNCHANGED pipe
DivClock == (Div!Load \/ Div!Divide) /\ UNCHANGED pipe
TakeDiv == Div!Take /\ UNCHANGED pipe

Next ==
    \/ Issue
    \/ Multiply
    \/ Finish
    \/ Take
    \/ IssueDiv
    \/ DivClock
    \/ TakeDiv

vars == <<pipe, divider>>

(* A clock passes, and the compute unit takes what is offered.              *)
Fairness == /\ WF_vars(Multiply) /\ WF_vars(Finish) /\ WF_vars(Take)
            /\ WF_vars(DivClock) /\ WF_vars(TakeDiv)

Spec == Init /\ [][Next]_vars /\ Fairness
=============================================================================
