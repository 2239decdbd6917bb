------------------------------- MODULE MemOp -------------------------------
(***************************************************************************)
(* What the load/store path promises the core: one load or store at a      *)
(* time; memory performs it once, at the instruction's own address and     *)
(* with its own data; its results are written once each, the loaded value  *)
(* only after the access; then it is done.  Or it faults, and from then on *)
(* neither memory nor the registers change.                                *)
(***************************************************************************)
EXTENDS Naturals

CONSTANTS Ops,         \* instructions; "ld", "update" say what it is
          Access(_),   \* the access an instruction is
          Result(_),   \* its results: the values of registers 1 and 2
          NoWrite

VARIABLES op, outcome, regs, access

memVars == <<op, outcome, regs, access>>

MemInit == /\ outcome = "done"
           /\ regs = <<NoWrite, NoWrite>>
           /\ access = <<>>

Begin(o) == /\ outcome # "run"
            /\ op' = o
            /\ outcome' = "run"
            /\ regs' = <<NoWrite, NoWrite>>
            /\ access' = <<>>

Writes(o) == (IF o.ld THEN {1} ELSE {}) \cup (IF o.update THEN {2} ELSE {})

Progress ==
    /\ outcome = "run"
    /\ op' = op
    /\ access' = access \/ (access = <<>> /\ access' = <<Access(op)>>)
    /\ \E ds \in SUBSET {d \in Writes(op) : regs[d] = NoWrite} :
           /\ 1 \in ds => access' # <<>>
           /\ regs' = [d \in 1 .. 2 |-> IF d \in ds THEN Result(op)[d] ELSE regs[d]]
    /\ outcome' = "run"

Finish == /\ outcome = "run"
          /\ access # <<>>
          /\ \A d \in Writes(op) : regs[d] # NoWrite
          /\ outcome' = "done"
          /\ UNCHANGED <<op, regs, access>>

Fault == /\ outcome = "run"
         /\ access = <<>> /\ regs[1] = NoWrite
         /\ outcome' = "fault"
         /\ UNCHANGED <<op, regs, access>>

MemNext == (\E o \in Ops : Begin(o)) \/ Progress \/ Finish \/ Fault

MemSpec == MemInit /\ [][MemNext]_memVars
=============================================================================
