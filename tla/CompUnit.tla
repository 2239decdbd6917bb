------------------------------ MODULE CompUnit ------------------------------
(***************************************************************************)
(* MultiCompUnit (src/soc/experiment/compalu_multi.py), the unit that      *)
(* manages an ALU, with the regfile ports that serve its requests          *)
(* (connect_rdport and connect_wrport of src/soc/simple/core.py).          *)
(*                                                                         *)
(* One step is one clock.  A set is a bit vector.  A latch is its stored   *)
(* value and its registered set and reset inputs; its output q follows     *)
(* them in the same clock (SRLatch, sync=False).  Data is the tag of the   *)
(* instruction it belongs to.  shadown_i is 1 and go_die_i is 0, as in the *)
(* core.                                                                   *)
(***************************************************************************)
EXTENDS Naturals

CONSTANTS
    Src, Dst,        \* operands and results of the unit: 1 .. n
    RdPort, WrPort,  \* the regfile port that serves each of them
    Ops,             \* instructions: what they read, what they write
    HoldsOk,         \* the ALU's outputs stay after they were taken
    Zero, Bad        \* no data; a result of the wrong operands

\* An instruction: the registers it reads, the operands it has as immediates,
\* the results that will be "ok", and its tag.
Op == [rd : SUBSET Src, imm : SUBSET Src, wr : SUBSET Dst, tag : 0 .. 1]
NoOp == [rd |-> {}, imm |-> {}, wr |-> {}, tag |-> 0]

ASSUME UnitAssumption == /\ Src \subseteq Nat /\ Dst \subseteq Nat
                         /\ \A op \in Ops : op \in Op /\ op.rd \cap op.imm = {}
                         /\ HoldsOk \in BOOLEAN
ASSUME TokenAssumption == Zero \notin {0, 1, Bad} /\ Bad \notin {0, 1}

VARIABLES
    issued,                    \* opc_l.s, rok_l.s, src_l.s: issue_i registered
    opc, opc_r, rok, rok_r,    \* opcode latch; read-done latch
    src, src_r, req, req_s, req_r,
    alui, alui_r, alul, alul_r,  \* input valid; output ready
    all_rd_1, alu_done_1,      \* previous values, for the rising edges
    prev_wr_go,
    oper,                      \* the instruction, registered
    src_data, data_r,          \* operand and result registers
    alu, aluIn, aluOut,        \* the ALU: state, what it took, its outputs
    delay_pick, wr_pick_1,     \* read granted in the last clock; write granted
    regs, written              \* the registers; history: Dst written so often

latchVars == <<issued, opc, opc_r, rok, rok_r, src, src_r, req, req_s, req_r,
               alui, alui_r, alul, alul_r, all_rd_1, alu_done_1, prev_wr_go>>
vars == <<latchVars, oper, src_data, data_r, alu, aluIn, aluOut,
          delay_pick, wr_pick_1, regs, written>>

Token == {0, 1, Zero, Bad}
TypeOK ==
    /\ {issued, opc, opc_r, rok, rok_r} \subseteq BOOLEAN
    /\ {alui, alui_r, alul, alul_r, all_rd_1, alu_done_1} \subseteq BOOLEAN
    /\ src \subseteq Src /\ src_r \subseteq Src
    /\ req \subseteq Dst /\ req_s \subseteq Dst /\ req_r \subseteq Dst
    /\ prev_wr_go \subseteq Dst
    /\ oper \in Ops \cup {NoOp}
    /\ src_data \in [Src -> Token] /\ data_r \in [Dst -> Token]
    /\ alu \in {"idle", "run", "valid"}
    /\ aluIn \in [wr : SUBSET Dst, data : Token]
    /\ aluOut \in [wr : SUBSET Dst, data : Token]
    /\ delay_pick \subseteq Src /\ wr_pick_1 \subseteq Dst
    /\ regs \in [Dst -> Token] /\ written \in [Dst -> 0 .. 1]

NoResult == [wr |-> {}, data |-> Zero]

Init ==
    /\ issued = FALSE
    /\ opc = FALSE /\ opc_r = FALSE /\ rok = FALSE /\ rok_r = FALSE
    /\ src = {} /\ src_r = {} /\ req = {} /\ req_s = {} /\ req_r = {}
    /\ alui = FALSE /\ alui_r = FALSE /\ alul = FALSE /\ alul_r = FALSE
    /\ all_rd_1 = FALSE /\ alu_done_1 = FALSE
    /\ prev_wr_go = {}
    /\ oper = NoOp
    /\ src_data = [i \in Src |-> Zero] /\ data_r = [d \in Dst |-> Zero]
    /\ alu = "idle" /\ aluIn = NoResult /\ aluOut = NoResult
    /\ delay_pick = {} /\ wr_pick_1 = {}
    /\ regs = [d \in Dst |-> Zero] /\ written = [d \in Dst |-> 0]

-----------------------------------------------------------------------------
(* Wires, in the order they follow from the registers and one another.     *)

LatchQ(q, s, r) == s \/ (q /\ ~r)

\* PriorityPicker, one per port: the lowest of the requests on it.
Picked(requests, port) ==
    {i \in requests : \A j \in requests : port[j] = port[i] => i <= j}

busy_o == LatchQ(opc, issued, opc_r)
rok_q == LatchQ(rok, issued, rok_r)
src_q == (src \ src_r) \cup (IF issued THEN Src ELSE {})
req_q == (req \ req_r) \cup req_s

rd_rel == IF busy_o THEN (src_q \ oper.imm) \cap oper.rd ELSE {}
go_rd == delay_pick

all_rd == busy_o /\ rok_q /\ rd_rel \subseteq go_rd
\* Mutant: a level instead of a pulse.
all_rd_pulse_level == all_rd
all_rd_pulse == all_rd /\ ~all_rd_1
alui_q == LatchQ(alui, all_rd_pulse, alui_r)
alul_q == LatchQ(alul, all_rd_pulse, alul_r)

\* The ALU's handshake (o_ready, o_valid) and the "ok" of its outputs.
alu_ready == alu = "idle"
alu_done == alu = "valid"
alu_pulse == alu_done /\ ~alu_done_1
alu_ok == CASE HoldsOk -> aluOut.wr
            [] ~HoldsOk /\ alu # "idle" -> aluIn.wr
            [] OTHER -> {}

wrmask == IF busy_o THEN alu_ok ELSE {}
wr_rel == IF busy_o THEN req_q \cap wrmask ELSE {}
wr_pick == Picked(wr_rel, WrPort)
go_wr == wr_pick \ wr_pick_1

\* Mutants: any write; the write of this clock only.
req_done_any == \/ go_wr \cup prev_wr_go # {} /\ ~alul_q
                \/ wrmask = {} /\ alul_q /\ alu_done /\ busy_o
req_done_now == \/ go_wr # {} /\ ~alul_q /\ req_q \cap wrmask = {}
                \/ wrmask = {} /\ alul_q /\ alu_done /\ busy_o
\* The last of the writes; or no writes at all and the ALU is done.
req_done == \/ /\ go_wr \cup prev_wr_go # {}
               /\ ~alul_q
               /\ req_q \cap wrmask = {}
            \/ wrmask = {} /\ alul_q /\ alu_done /\ busy_o

req_reset == go_wr \cup prev_wr_go

\* An operand as the ALU sees it: latched, transparent while its latch is
\* open; an immediate is part of the instruction.
src_i(i) == IF i \in go_rd THEN oper.tag ELSE Zero
alusrc(i) == CASE i \in oper.imm /\ busy_o -> oper.tag
               [] i \notin oper.imm /\ i \in src_q -> src_i(i)
               [] OTHER -> src_data[i]

Result == IF \A i \in Src : alusrc(i) = IF i \in oper.rd \cup oper.imm
                                          THEN oper.tag ELSE Zero
            THEN oper.tag ELSE Bad

-----------------------------------------------------------------------------
(* The latches; issue is issue_i.                                          *)

Latches(issue) ==
    /\ issued' = issue
    /\ opc' = busy_o /\ opc_r' = req_done
    /\ rok' = rok_q /\ rok_r' = (alu_done /\ busy_o)
    /\ src' = src_q /\ src_r' = go_rd
    /\ req' = req_q
    /\ req_s' = (IF alu_pulse THEN wrmask ELSE {})
    /\ req_r' = req_reset
    /\ prev_wr_go' = (IF busy_o THEN go_wr ELSE {})
    /\ alui' = alui_q /\ alui_r' = (alu_ready /\ alui_q)
    /\ alul' = alul_q /\ alul_r' = (alu_done /\ alul_q)
    /\ all_rd_1' = all_rd /\ alu_done_1' = alu_done

Operands == src_data' = [i \in Src |-> alusrc(i)]

\* The outputs are captured when they become valid, cleared at issue.
Results(issue) ==
    data_r' = [d \in Dst |-> CASE issue -> Zero
                               [] ~issue /\ alu_pulse -> aluOut.data
                               [] OTHER -> data_r[d]]

-----------------------------------------------------------------------------
(* The regfile ports.                                                      *)

ReadPorts == delay_pick' = Picked(rd_rel \ delay_pick, RdPort)

\* The write enable is the grant itself; the data is there only with go_wr.
WritePorts ==
    /\ wr_pick_1' = wr_pick
    /\ regs' = [d \in Dst |-> CASE d \notin wr_pick -> regs[d]
                                [] d \in wr_pick \ go_wr -> Zero
                                [] OTHER -> data_r[d]]

-----------------------------------------------------------------------------
(* The ALU, a pipeline or an FSM, of any latency.                          *)

AluTake == /\ alu = "idle" /\ alui_q
           /\ alu' \in {"run", "valid"}
           /\ aluIn' = [wr |-> oper.wr, data |-> Result]
           /\ aluOut' = IF alu' = "valid" THEN aluIn' ELSE aluOut

AluRun == /\ alu = "run"
          /\ alu' \in {"run", "valid"}
          /\ aluOut' = IF alu' = "valid" THEN aluIn ELSE aluOut
          /\ aluIn' = aluIn

AluGive == /\ alu = "valid" /\ alul_q
           /\ alu' = "idle"
           /\ UNCHANGED <<aluIn, aluOut>>

AluHold == /\ \/ alu = "idle" /\ ~alui_q
              \/ alu = "valid" /\ ~alul_q
           /\ UNCHANGED <<alu, aluIn, aluOut>>

Alu == AluTake \/ AluRun \/ AluGive \/ AluHold

-----------------------------------------------------------------------------
(* The core issues the next instruction, one with another tag, to a unit   *)
(* that is not busy.                                                       *)

Clock(issue) ==
    /\ Latches(issue) /\ Operands /\ Results(issue)
    /\ ReadPorts /\ WritePorts
    /\ Alu

Issue(op) ==
    /\ ~busy_o /\ op.tag # oper.tag
    /\ Clock(TRUE)
    /\ oper' = op
    /\ written' = [d \in Dst |-> 0]

Work ==
    /\ Clock(FALSE)
    /\ oper' = oper
    /\ written' = [d \in Dst |-> IF d \in wr_pick /\ written[d] < 2
                                   THEN written[d] + 1 ELSE written[d]]

Next == Work \/ \E op \in Ops : Issue(op)

Spec == Init /\ [][Next]_vars

-----------------------------------------------------------------------------
(* What it must satisfy.                                                   *)

VARIABLE started  \* history: the ALU has taken the operands of the instruction
unitVars == <<vars, started>>

takes == alu = "idle" /\ alu' # "idle"

UnitInit == Init /\ started = FALSE
UnitNext == Next /\ started' = (~issued' /\ (started \/ takes))
UnitSpec == UnitInit /\ [][UnitNext]_unitVars

Fu == INSTANCE FuncUnit WITH busy <- busy_o,
                             written <- {d \in Dst : written[d] = 1}

\* A unit implements FuncUnit: each result goes to the registers exactly once,
\* computed from the unit's own operands however the ports served them, with
\* data and write enable in the same clock, and the unit is busy until then
\* (MultiCompUnit's latches, the pickers and rising edges of core.py).
ImplementsFuncUnit == Fu!FuSpec

\* The ALU takes each instruction once (all_rd, rok_l, alui_l): an MMU
\* operation started twice would act twice.  And what fu/compunits/formal says
\* of a unit: it is busy from the clock of issue and while it reads; an operand
\* latched is the one the port carried; a request ends with its go; and nothing
\* asks to be written before the ALU is done.  (Its property 8 expects the unit
\* free in the clock after the last write: it is free one clock later.)
UnitProved ==
    [][/\ takes => ~started
       /\ issued' => ~busy_o /\ busy_o'
       /\ rd_rel # {} => busy_o
       /\ \A i \in go_rd \cap rd_rel : alusrc(i)' = src_i(i) /\ i \notin rd_rel'
       /\ wr_rel # {} => started /\ alu # "run"
       /\ go_wr \cap wr_rel' = {}]_unitVars
=============================================================================
