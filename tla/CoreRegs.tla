------------------------------ MODULE CoreRegs ------------------------------
(***************************************************************************)
(* The register files (src/soc/regfile/) and what uses their ports: the    *)
(* routing of operands and results in NonProductionCore                    *)
(* (src/soc/simple/core.py), with the merged ports of a core of few ports  *)
(* ("regreduce"), and the timer and the debugger's register reads          *)
(* (src/soc/simple/issuer.py, src/soc/debug/dmi.py).                       *)
(*                                                                         *)
(* One step is one clock.  INT and FAST are RegFileMems, whose read port   *)
(* gives, a clock later, what the register holds after this clock's        *)
(* writes; CR is a VirtualRegPort, an array of Registers with write-       *)
(* through, with one port for all of them.  The one busy function unit is  *)
(* what FuncUnit says: it asks for operands and, when it has them, for the *)
(* writing of its results.                                                 *)
(***************************************************************************)
EXTENDS Naturals, FiniteSets

CONSTANTS INT, CR,      \* registers of these files
          Programs,     \* sets of instructions: operands, results by register port
          Dec,          \* DEC and TB count modulo Dec
          None

FAST == {"CTR", "LR", "DEC", "TB"}
Reg == INT \cup CR \cup FAST

Insns == UNION Programs

\* An operand or result: the regspec's name for the port, the registers.
Access == [name : STRING, regs : SUBSET Reg]

VARIABLES
    regs,
    program,     \* the instructions that come
    insn,        \* the instruction in the function unit, or None
    rel,         \* operands still to be read, the unit's rd.rel_o
    delay_pick,  \* operands whose read was granted in the last clock
    port_q,      \* what each read port was given in the last clock
    req,         \* results still to be written, the unit's wr.rel_o
    res,         \* the values of the results, by register
    wr_pick_1,   \* results granted the port in the last clock
    timer, spr_dec,      \* the DEC and TB FSM; the decoder's copy of DEC
    d_req, d_delay       \* the debugger's read; registered, its acknowledge

coreVars == <<insn, rel, delay_pick, req, res, wr_pick_1>>
vars == <<regs, program, coreVars, port_q, timer, spr_dec, d_req, d_delay>>

-----------------------------------------------------------------------------
(* Ports.  connect_rdports and connect_wrports merge the INT and the FAST  *)
(* ports; the first in the order of the merge has priority.                *)

Merged == <<"rb", "rc", "ra", "fast1", "fast2", "o", "o1">>
PortOf(name) == CASE name \in {"rb", "rc", "ra"} -> "rabc"
                  [] name \in {"fast1", "fast2"} -> "fast1"
                  [] name \in {"o", "o1"} -> "o"
                  [] OTHER -> name
Rank(name) == IF \E n \in DOMAIN Merged : Merged[n] = name
                THEN CHOOSE n \in DOMAIN Merged : Merged[n] = name ELSE 0

\* A unit's regspecs name each operand and each result once, and an operand's
\* port is one that the units share.
OperandPorts == {"rabc", "fast1", "cr_a", "cr_b", "full_cr"}
Named(accesses) == /\ accesses \subseteq Access
                   /\ \A a, b \in accesses : a.name = b.name => a = b

ASSUME CoreRegsAssumption ==
    /\ Dec \in Nat \ {0}
    /\ None \notin Insns
    /\ \A i \in Insns : /\ Named(i.rd) /\ Named(i.wr)
                        /\ \A a \in i.rd : PortOf(a.name) \in OperandPorts

\* PriorityPicker, one per port.
Picked(requests) ==
    {a \in requests : \A b \in requests :
         PortOf(b.name) = PortOf(a.name) => Rank(a.name) <= Rank(b.name)}

\* Mutant: two operands granted one port in the same clock.
rd_pick_both == rel \ delay_pick
\* A read under way is not asked for again.
rd_pick == Picked(rel \ delay_pick)

wr_pick == Picked(req)
go_wr == wr_pick \ wr_pick_1

\* Results on the Write Broadcast Bus: dest is driven in the clock of go.
\* Mutant: while the result waits.
driving_always == req
driving == go_wr

ReadPorts == OperandPorts \cup {"dmi", "full_cr_dbg", "issue"}
Nothing == [r \in {} |-> 0]

\* What the write of result a puts into its registers: the OR of the bus.
Bus(a) == LET on == {b \in driving : PortOf(b.name) = PortOf(a.name)}
          IN  CASE on = {} -> [r \in a.regs |-> 0]
                [] on = {a} -> [r \in a.regs |-> res[r]]
                [] OTHER -> [r \in a.regs |-> Dec]     \* a mixture

-----------------------------------------------------------------------------
(* The timer: DEC and TB in turn, read in one clock, written in the next.  *)

timer_reads == CASE timer = "DEC_READ" -> {"DEC"}
                 [] timer = "TB_READ" -> {"TB"}
                 [] OTHER -> {}
new_dec == (port_q["issue"]["DEC"] + Dec - 1) % Dec
new_tb == (port_q["issue"]["TB"] + 1) % Dec
timer_writes == CASE timer = "DEC_WRITE" -> [r \in {"DEC"} |-> new_dec]
                  [] timer = "TB_WRITE" -> [r \in {"TB"} |-> new_tb]
                  [] OTHER -> Nothing

TimerClock ==
    /\ timer' = CASE timer = "DEC_READ" -> "DEC_WRITE"
                  [] timer = "DEC_WRITE" -> "TB_READ"
                  [] timer = "TB_READ" -> "TB_WRITE"
                  [] OTHER -> "DEC_READ"
    /\ spr_dec' = IF timer = "DEC_WRITE" THEN new_dec ELSE spr_dec

-----------------------------------------------------------------------------
(* The register files.                                                     *)

\* Two writes of one register in a clock: RegFileMem's ports have no priority.
RegsWrite(timer_last) ==
    regs' = [r \in Reg |->
        LET by == {a \in wr_pick : r \in a.regs}
        IN  IF r \in DOMAIN timer_writes /\ (by = {} \/ timer_last) THEN timer_writes[r]
            ELSE IF by # {} THEN Bus(CHOOSE a \in by : TRUE)[r]
            ELSE regs[r]]

\* The registers each read port selects in this clock.
Selected(p) ==
    CASE p = "issue" -> timer_reads
      [] p = "dmi" -> d_req \cap INT
      [] p = "full_cr_dbg" -> d_req \cap CR
      [] OTHER -> UNION {a.regs : a \in {b \in rd_pick : PortOf(b.name) = p}}

\* Mutant: the ports give what the registers held before the clock.
PortsRead_before == port_q' = [p \in ReadPorts |-> [r \in Selected(p) |-> regs[r]]]
PortsRead == port_q' = [p \in ReadPorts |-> [r \in Selected(p) |-> regs'[r]]]

-----------------------------------------------------------------------------
(* The debugger: the request is held until the acknowledge, a clock later. *)

\* Mutant: acknowledged at once.
d_ack_early == d_req # {}
d_ack == d_delay /\ d_req # {}
d_data == IF d_req \subseteq INT THEN port_q["dmi"] ELSE port_q["full_cr_dbg"]

DebugClock(request) ==
    /\ d_req' = CASE d_req = {} -> request
                  [] d_ack -> {}
                  [] OTHER -> d_req
    /\ d_delay' = (d_req # {})

-----------------------------------------------------------------------------
(* The function unit.                                                      *)

Init ==
    /\ regs = [r \in Reg |-> 0]
    /\ program \in Programs
    /\ insn = None /\ rel = {} /\ delay_pick = {} /\ req = {} /\ wr_pick_1 = {}
    /\ res = Nothing
    /\ port_q = [p \in ReadPorts |-> Nothing]
    /\ timer = "DEC_READ" /\ spr_dec = 0
    /\ d_req = {} /\ d_delay = FALSE

Idle == /\ insn = None
        /\ UNCHANGED coreVars

Issue(i) == /\ insn = None
            /\ insn' = i /\ rel' = i.rd
            /\ UNCHANGED <<delay_pick, req, res, wr_pick_1>>

\* go_rd_i is the pick of the clock before; the request ends with it.
ReadOrWait == /\ insn # None /\ req = {}
              /\ rel' = rel \ delay_pick
              /\ delay_pick' = rd_pick
              /\ UNCHANGED <<insn, req, res, wr_pick_1>>

\* The result of a register, and of the timer's registers any value.
Values(r) == IF r \in {"DEC", "TB"} THEN 0 .. Dec - 1 ELSE {0, 1}
Results(i) == LET rs == UNION {a.regs : a \in i.wr}
              IN  {f \in [rs -> 0 .. Dec - 1] : \A r \in rs : f[r] \in Values(r)}

Complete == /\ insn # None /\ req = {}
            /\ rel = {} /\ delay_pick = {}
            /\ req' = insn.wr
            /\ \E f \in Results(insn) : res' = f
            /\ UNCHANGED <<insn, rel, delay_pick, wr_pick_1>>

Write == /\ insn # None /\ req # {}
         /\ req' = req \ go_wr
         /\ wr_pick_1' = IF req' = {} THEN {} ELSE wr_pick
         /\ insn' = IF req' = {} THEN None ELSE insn
         /\ res' = IF req' = {} THEN Nothing ELSE res
         /\ UNCHANGED <<rel, delay_pick>>

\* The debugger asks for one register, or for all of CR.
Requests == {{}, CR} \cup {{r} : r \in INT}

Next == /\ UNCHANGED program
        /\ Idle \/ ReadOrWait \/ Complete \/ Write \/ \E i \in program : Issue(i)
        /\ \E timer_last \in BOOLEAN : RegsWrite(timer_last)
        /\ PortsRead
        /\ TimerClock
        /\ \E request \in Requests : DebugClock(request)

Spec == Init /\ [][Next]_vars
=============================================================================
