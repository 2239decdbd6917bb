----------------------------- MODULE Scoreboard -----------------------------
(***************************************************************************)
(* The 6600 scoreboard (src/soc/experiment/score6600_multi.py): the        *)
(* FU-Reg and FU-FU dependency matrices, the group picker, the issue       *)
(* units, the shadows that keep results in program order and those of a    *)
(* branch, with the computation units and the integer registers.           *)
(*                                                                         *)
(* One step is one clock; a set is a bit vector.  A latch is its stored    *)
(* value; with what sets and resets it in the clock, q is its new value    *)
(* and qlq the new or the stored value (SRLatch, sync=False).              *)
(***************************************************************************)
EXTENDS Naturals, FiniteSets

CONSTANTS
    Unit,        \* function units, 1 .. n, in the order the picker prefers
    Branch,      \* the branch unit; the others are one group of ALUs
    Reg, Src,    \* integer registers; operands of an instruction
    Insns        \* instructions: [br, src, dest, imm, path]

None == 0
Value == {0, 1}  \* what a register can hold; of a branch: taken or not
ASSUME BoardAssumption ==
    /\ Unit \subseteq Nat \ {None} /\ Branch \in Unit
    /\ \A in \in Insns :
        /\ in.br \in BOOLEAN /\ in.src \in [Src -> Reg] /\ in.dest \in Reg
        /\ in.imm \subseteq Src /\ in.path \in {"none", "succ", "fail"}

VARIABLES
    dest_c, src_c,         \* FU-Reg matrix: registers a unit will write, read
    wr_c, rd_c,            \* FU-FU matrix: units a unit waits for
    shadow, bshadow,       \* older units that are busy; units under the branch
    active, good_r, fail_r,  \* BranchSpeculationRecord
    phase, to_read,        \* a computation unit; operands it still requests
    result,                \* what a unit's ALU will compute
    regs                   \* the registers

fuRegVars == <<dest_c, src_c>>
fuFuVars == <<wr_c, rd_c>>
shadowVars == <<shadow, bshadow>>
specVars == <<active, good_r, fail_r>>
unitVars == <<phase, to_read, result>>
vars == <<fuRegVars, fuFuVars, shadowVars, specVars, unitVars, regs>>

Init ==
    /\ dest_c = [u \in Unit |-> {}] /\ src_c = [u \in Unit |-> [i \in Src |-> {}]]
    /\ wr_c = [u \in Unit |-> {}] /\ rd_c = [i \in Src |-> [u \in Unit |-> {}]]
    /\ shadow = [u \in Unit |-> {}] /\ bshadow = {}
    /\ active = FALSE /\ good_r = {} /\ fail_r = {}
    /\ phase = [u \in Unit |-> "idle"] /\ to_read = [u \in Unit |-> {}]
    /\ result = [u \in Unit |-> 0]
    /\ regs = [r \in Reg |-> 0]

-----------------------------------------------------------------------------
(* The computation units (MultiCompUnit) and the group picker.             *)

busy == {u \in Unit : phase[u] # "idle"}
rd_rel(i) == {u \in Unit : phase[u] = "read" /\ i \in to_read[u]}
shadown == {u \in Unit : shadow[u] = {} /\ u \notin bshadow}
wr_rel == {u \in shadown : phase[u] = "write"}

readable == {u \in Unit : wr_c[u] = {}}
writable == {u \in Unit : \A i \in Src : rd_c[i][u] = {}}

\* PriorityPicker: the lowest of the requests.
Picked(requests) == {u \in requests : \A v \in requests : u <= v}
go_rd(i) == Picked(readable \cap rd_rel(i))
go_wr == Picked(writable \cap wr_rel)

\* CompUnitALUs and CompUnitBR; the unit of the group that takes the instruction.
Group(br) == IF br THEN {Branch} ELSE Unit \ {Branch}
fn_issue(br) == Picked(Group(br) \ busy)

\* A clock: the unit that is given an instruction, or none, and the instruction.
Nothing == [unit |-> None]
Given(iss, u, x) == IF iss.unit = u THEN x ELSE {}

-----------------------------------------------------------------------------
(* Branch speculation.  The branch is decided when its unit writes.        *)

br_i == Branch \in go_wr
br_ok == result[Branch] = 1
match_g == IF ~br_i THEN {} ELSE IF br_ok THEN good_r ELSE fail_r
match_f == IF ~br_i THEN {} ELSE IF br_ok THEN fail_r ELSE good_r

\* An instruction may be put under the branch's shadow.
bactive == active /\ ~br_i

\* Mutant: nothing is cancelled.
go_die_none == {}
go_die == bshadow \cap match_f

\* ShadowFn of the branch: one bit for each unit.
BranchShadow(iss) ==
    /\ bshadow' = (bshadow \ (match_g \cup match_f))
                    \cup (IF iss.unit # None /\ iss.path # "none"
                          THEN {iss.unit} ELSE {})
    /\ active' = CASE br_i -> FALSE
                   [] ~br_i /\ iss.unit = Branch -> TRUE
                   [] OTHER -> active
    /\ good_r' = IF br_i THEN {}
                 ELSE good_r \cup (IF active /\ iss.unit # None /\ iss.path = "succ"
                                   THEN {iss.unit} ELSE {})
    /\ fail_r' = IF br_i THEN {}
                 ELSE fail_r \cup (IF active /\ iss.unit # None /\ iss.path = "fail"
                                   THEN {iss.unit} ELSE {})

\* The units in front of an instruction cast their shadow on it while they
\* are busy.  A cancelled unit loses its shadows.
prev_shadow(iss) == busy \ {iss.unit}
OrderShadows(iss) ==
    shadow' = [u \in Unit |->
                 CASE u \in go_die -> {}
                   [] u = iss.unit -> prev_shadow(iss)
                   [] OTHER -> shadow[u] \cap busy]

-----------------------------------------------------------------------------
(* The FU-Reg matrix (DependencyRow, GlobalPending, FU_RW_Pend).           *)

\* A row: the registers its unit will write and read.  "go" has reset it.
dest_qlq(iss, u) == dest_c[u] \cup Given(iss, u, {iss.dest})
src_qlq(iss, u, i) == src_c[u][i] \cup Given(iss, u, {iss.src[i]})
dest_q(iss, u) == IF u \in go_wr \cup go_die THEN Given(iss, u, {iss.dest})
                  ELSE dest_qlq(iss, u)
src_q(iss, u, i) == IF u \in go_rd(i) \cup go_die THEN Given(iss, u, {iss.src[i]})
                    ELSE src_qlq(iss, u, i)

g_wr_pend(iss) == UNION {dest_qlq(iss, u) : u \in Unit}
g_rd_pend(iss) == UNION {src_qlq(iss, u, i) : u \in Unit, i \in Src}

\* Units that will read a register somebody will write; units that will write
\* one somebody will read.
rd_pend(iss) == LET g == g_wr_pend(iss) IN
    {u \in Unit : \E i \in Src : src_q(iss, u, i) \cap g # {}}
\* Mutant: the reads of the instruction that is being issued are not seen.
wr_pend_stored(iss) == LET g == UNION {src_c[u][i] : u \in Unit, i \in Src} IN
    {u \in Unit : dest_q(iss, u) \cap g # {}}
wr_pend(iss) == LET g == g_rd_pend(iss) IN
    {u \in Unit : dest_q(iss, u) \cap g # {}}

FURegDepMatrix(iss) ==
    /\ dest_c' = [u \in Unit |-> dest_q(iss, u)]
    /\ src_c' = [u \in Unit |-> [i \in Src |-> src_q(iss, u, i)]]

\* The FU-FU matrix (FUDependenceCell): an instruction waits to read for the
\* units that will write, to write for the units that will read.
\* Mutant: the bit of the unit itself is not masked (dummy).
Waits_self(cells, goes, iss, pend) ==
    [u \in Unit |-> (cells[u] \ goes) \cup (IF u = iss.unit THEN pend ELSE {})]
Waits(cells, goes, iss, pend) ==
    [u \in Unit |-> (cells[u] \ goes) \cup (IF u = iss.unit THEN pend \ {u} ELSE {})]
FUFUDepMatrix(iss) ==
    /\ wr_c' = Waits(wr_c, go_wr \cup go_die, iss, wr_pend(iss))
    /\ rd_c' = [i \in Src |-> Waits(rd_c[i], go_rd(i) \cup go_die, iss, rd_pend(iss))]

-----------------------------------------------------------------------------
(* The registers: the selected ones are written and read, the write seen   *)
(* by a read of the same clock.                                            *)

dest_rsel == UNION {dest_c[u] : u \in go_wr}
regs_now == [r \in Reg |-> IF r \in dest_rsel
                             THEN result[CHOOSE u \in go_wr : TRUE] ELSE regs[r]]

\* More than one register selected: their contents are ORed.
Operand(u, i) == IF \E r \in src_c[u][i] : regs_now[r] = 1 THEN 1 ELSE 0

-----------------------------------------------------------------------------
\* A unit: after its issue it reads, computes, and writes when it is not
\* shadowed; it is free two clocks after its write.  fin: ALUs that are done.
\* A unit that is cancelled drops its requests: it computes with what it has
\* and writes nowhere; one that was already waiting to write waits for ever.
AllRead(u) == \A i \in to_read[u] : u \in go_rd(i)
NextPhase(u, fin) ==
    CASE phase[u] = "read" /\ AllRead(u) -> "run"
      [] phase[u] = "run" /\ u \in fin -> "write"
      [] phase[u] = "write" /\ u \in go_wr -> "done"
      [] phase[u] = "write" /\ u \in go_die -> "lost"
      [] phase[u] = "done" -> "idle"
      [] OTHER -> phase[u]

Units(iss, fin) ==
    /\ phase' = [u \in Unit |-> IF u = iss.unit THEN "read" ELSE NextPhase(u, fin)]
    /\ to_read' = [u \in Unit |->
                     CASE u = iss.unit -> Src \ iss.imm
                       [] u \in go_die -> {}
                       [] OTHER -> {i \in to_read[u] : u \notin go_rd(i)}]
    /\ result' = [u \in Unit |-> IF u = iss.unit THEN iss.value
                                 ELSE IF NextPhase(u, fin) = "idle" THEN 0
                                 ELSE result[u]]

Clock(iss, fin) ==
    /\ Units(iss, fin)
    /\ FURegDepMatrix(iss) /\ FUFUDepMatrix(iss)
    /\ OrderShadows(iss) /\ BranchShadow(iss)
    /\ regs' = regs_now

\* IssueToScoreboard: the instruction at the head of the queue goes to a unit
\* that can take it.  One that depends on the branch comes while the branch is
\* undecided; the branch's own result is its direction.
Issued(in, value) == [unit |-> CHOOSE u \in fn_issue(in.br) : TRUE,
                      src |-> in.src, dest |-> in.dest, imm |-> in.imm,
                      path |-> in.path, value |-> value]
Issue(in, value, fin) ==
    /\ fn_issue(in.br) # {}
    /\ in.path # "none" => bactive
    /\ Clock(Issued(in, value), fin)

Wait(fin) == Clock(Nothing, fin)

running == {u \in Unit : phase[u] = "run"}
Next == \E fin \in SUBSET running :
            \/ Wait(fin)
            \/ \E in \in Insns, value \in Value : Issue(in, value, fin)

Spec == Init /\ [][Next]_vars
=============================================================================
