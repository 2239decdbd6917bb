------------------------------ MODULE FuncUnit ------------------------------
(***************************************************************************)
(* What a computation unit promises the issuer: it is busy from the issue  *)
(* of an instruction until each of its results, computed from its own      *)
(* operands, has been written exactly once; then it is free.               *)
(***************************************************************************)
CONSTANTS Dst,    \* destination registers of the unit
          Ops     \* instructions; "wr" is the set of results of one

VARIABLES busy, oper,
          regs,     \* the instruction whose result each destination holds
          written   \* the destinations written since the issue

fuVars == <<busy, oper, regs, written>>

FuInit == /\ ~busy
          /\ written = {}

Issue(op) == /\ ~busy
             /\ busy' = TRUE
             /\ oper' = op
             /\ written' = {}
             /\ UNCHANGED regs

\* Some more of the results, not written before.
Write(ds) == /\ busy
             /\ ds \subseteq oper.wr \ written
             /\ regs' = [d \in Dst |-> IF d \in ds THEN oper.tag ELSE regs[d]]
             /\ written' = written \cup ds
             /\ UNCHANGED <<busy, oper>>

Finish == /\ busy
          /\ written = oper.wr
          /\ busy' = FALSE
          /\ UNCHANGED <<oper, regs, written>>

FuNext == \/ \E op \in Ops : Issue(op)
          \/ \E ds \in SUBSET Dst : Write(ds)
          \/ Finish

FuSpec == FuInit /\ [][FuNext]_fuVars
=============================================================================
