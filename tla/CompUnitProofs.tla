--------------------------- MODULE CompUnitProofs ---------------------------
(***************************************************************************)
(* Theorems about CompUnit, for every number of operands and results, every*)
(* assignment of them to regfile ports, every set of instructions, and an  *)
(* ALU that holds its outputs or does not.                                 *)
(*                                                                         *)
(* A unit is always in one of four phases; what its fifteen latches and    *)
(* pulses hold in each of them is the inductive invariant.  The parts for  *)
(* misaligned accesses come last, for lines of any length.                 *)
(***************************************************************************)
EXTENDS CompUnitMC, WellFoundedInduction, TLAPS

UnitTypeOK ==
    /\ issued \in BOOLEAN /\ opc \in BOOLEAN /\ opc_r \in BOOLEAN
    /\ rok \in BOOLEAN /\ rok_r \in BOOLEAN
    /\ alui \in BOOLEAN /\ alui_r \in BOOLEAN
    /\ alul \in BOOLEAN /\ alul_r \in BOOLEAN
    /\ all_rd_1 \in BOOLEAN /\ alu_done_1 \in BOOLEAN /\ started \in BOOLEAN
    /\ src \subseteq Src /\ src_r \subseteq Src
    /\ req \subseteq Dst /\ req_s \subseteq Dst /\ req_r \subseteq Dst
    /\ prev_wr_go \subseteq Dst
    /\ oper \in Ops \cup {NoOp}
    /\ src_data \in [Src -> Token] /\ data_r \in [Dst -> Token]
    /\ alu \in {"idle", "run", "valid"}
    /\ aluIn \in [wr : SUBSET Dst, data : Token]
    /\ aluOut \in [wr : SUBSET Dst, data : Token]
    /\ delay_pick \subseteq Src /\ wr_pick_1 \subseteq Dst
    /\ regs \in [Dst -> Token] /\ written \in [Dst -> 0 .. 1]

\* What the ALU is to compute from the instruction the unit holds.
Own == [wr |-> oper.wr, data |-> oper.tag]

\* The input of the ALU is asked for, and its output awaited, only from the
\* clock in which the last operand comes.
AluQuiet == ~(alui /\ ~alui_r) /\ ~(alul /\ ~alul_r)

\* Operand i is read, or still requested and nothing latched for it.
OperandOK(i) ==
    /\ i \in oper.rd /\ i \notin src_q => src_data[i] = oper.tag
    /\ i \notin oper.rd \cup oper.imm => i \in src_q /\ i \notin go_rd

Free ==
    /\ ~busy_o /\ ~issued /\ ~rok_q /\ AluQuiet /\ req_q = {}
    /\ alu = "idle" /\ delay_pick = {}

Reading ==
    /\ busy_o /\ rok_q /\ ~started /\ AluQuiet /\ req_q = {} /\ ~all_rd_1
    /\ alu = "idle" /\ ~alu_done_1
    /\ delay_pick \subseteq rd_rel /\ \A i \in Src : OperandOK(i)
    /\ \A d \in Dst : written[d] = 0
    /\ prev_wr_go = {} /\ wr_pick_1 = {}

Running ==
    /\ busy_o /\ ~issued /\ rok_q /\ started /\ ~(alui /\ ~alui_r) /\ alul_q /\ req_q = {}
    /\ all_rd_1 /\ rd_rel = {} /\ delay_pick = {}
    /\ alu \in {"run", "valid"} /\ aluIn = Own /\ ~alu_done_1
    /\ alu = "valid" => aluOut = Own
    /\ \A d \in Dst : written[d] = 0
    /\ prev_wr_go = {} /\ wr_pick_1 = {}

Writing ==
    /\ busy_o /\ ~issued /\ ~rok_q /\ started /\ AluQuiet
    /\ rd_rel = {} /\ delay_pick = {}
    /\ alu = "idle" /\ aluOut = Own /\ oper.wr # {}
    /\ \A d \in Dst : data_r[d] = oper.tag
    /\ (wr_pick_1 \cup prev_wr_go) \cap req_q = {}
    /\ ~HoldsOk => prev_wr_go = {}
    /\ req_q = {d \in oper.wr : written[d] = 0}
    /\ \A d \in Dst : written[d] = 1 => d \in oper.wr

IInv == UnitTypeOK /\ (Free \/ Reading \/ Running \/ Writing)

-----------------------------------------------------------------------------
\* The picker grants requests only.
LEMMA PickedIsRequest ==
    ASSUME NEW requests, NEW port
    PROVE  Picked(requests, port) \subseteq requests
  BY DEF Picked

\* Registers keep to their types, whatever phase the unit is in.
LEMMA WireTypes ==
    ASSUME UnitTypeOK
    PROVE  /\ src_q \subseteq Src /\ req_q \subseteq Dst
           /\ rd_rel \subseteq src_q \cap oper.rd /\ wr_rel \subseteq req_q
           /\ wr_pick \subseteq wr_rel /\ go_wr \subseteq wr_pick
           /\ busy_o \in BOOLEAN /\ rok_q \in BOOLEAN
           /\ alui_q \in BOOLEAN /\ alul_q \in BOOLEAN
           /\ wrmask \subseteq Dst
  BY DEF UnitTypeOK, src_q, req_q, rd_rel, wr_rel, wr_pick, go_wr, busy_o, rok_q,
         alui_q, alul_q, wrmask, alu_ok, LatchQ, Picked, all_rd_pulse, all_rd

LEMMA OperType ==
    ASSUME UnitTypeOK
    PROVE  oper \in Op /\ oper.rd \cap oper.imm = {} /\ oper.tag \in Token
  BY UnitAssumption DEF UnitTypeOK, Op, NoOp, Token

LEMMA UnitTypes ==
    ASSUME UnitTypeOK, UnitNext, \A d \in wr_pick : written[d] = 0
    PROVE  UnitTypeOK'
<1>. PICK issue \in BOOLEAN : Clock(issue)
  BY DEF UnitNext, Next, Work, Issue
<1>1. \A i \in Src : alusrc(i) \in Token
  BY OperType DEF alusrc, src_i, UnitTypeOK, Token
<1>2. Result \in Token
  BY OperType DEF Result, Token
<1>3. aluIn' \in [wr : SUBSET Dst, data : Token] /\ aluOut' \in [wr : SUBSET Dst, data : Token]
      /\ alu' \in {"idle", "run", "valid"}
  BY <1>2, OperType DEF Clock, Alu, AluTake, AluRun, AluGive, AluHold, UnitTypeOK, Op
<1>4. src_data' \in [Src -> Token] /\ data_r' \in [Dst -> Token] /\ regs' \in [Dst -> Token]
  BY <1>1 DEF Clock, Operands, Results, WritePorts, UnitTypeOK, Token
<1>5. oper' \in Ops \cup {NoOp} /\ written' \in [Dst -> 0 .. 1] /\ started' \in BOOLEAN
  <2>1. started' \in BOOLEAN
    BY Zenon DEF UnitNext, takes
  <2>2. oper' \in Ops \cup {NoOp}
    BY DEF UnitNext, Next, Work, Issue, UnitTypeOK
  <2>3. ASSUME Work
        PROVE  written' \in [Dst -> 0 .. 1]
    <3>1. ASSUME NEW d \in Dst
          PROVE  (IF d \in wr_pick /\ written[d] < 2 THEN written[d] + 1 ELSE written[d]) \in 0 .. 1
      <4>1. written[d] \in 0 .. 1 /\ (d \in wr_pick => written[d] = 0)
        BY DEF UnitTypeOK
      <4>. QED  BY <4>1
    <3>. QED  BY <2>3, <3>1 DEF Work
  <2>4. ASSUME NEW op \in Ops, Issue(op)
        PROVE  written' \in [Dst -> 0 .. 1]
    BY <2>4 DEF Issue
  <2>. QED  BY <2>1, <2>2, <2>3, <2>4 DEF UnitNext, Next
<1>6. delay_pick' \subseteq Src /\ wr_pick_1' \subseteq Dst
  <2>1. Picked(rd_rel \ delay_pick, RdPort) \subseteq rd_rel  BY PickedIsRequest
  <2>. QED  BY <2>1, WireTypes DEF Clock, ReadPorts, WritePorts
<1>7. /\ issued' \in BOOLEAN /\ opc' \in BOOLEAN /\ opc_r' \in BOOLEAN
      /\ rok' \in BOOLEAN /\ rok_r' \in BOOLEAN
      /\ alui' \in BOOLEAN /\ alui_r' \in BOOLEAN
      /\ alul' \in BOOLEAN /\ alul_r' \in BOOLEAN
      /\ all_rd_1' \in BOOLEAN /\ alu_done_1' \in BOOLEAN
  BY WireTypes, Zenon DEF Clock, Latches, req_done, alu_done, alu_ready, all_rd
<1>8. /\ src' \subseteq Src /\ src_r' \subseteq Src /\ prev_wr_go' \subseteq Dst
      /\ req' \subseteq Dst /\ req_s' \subseteq Dst /\ req_r' \subseteq Dst
  BY WireTypes DEF Clock, Latches, UnitTypeOK, go_rd, req_reset
<1>. QED  BY <1>3, <1>4, <1>5, <1>6, <1>7, <1>8 DEF UnitTypeOK

-----------------------------------------------------------------------------
(* A clock in each of the phases.                                          *)

\* Nothing is asked of a unit without an instruction: it stays free, or takes
\* one and starts to read.
LEMMA FreeStep ==
    ASSUME UnitTypeOK, Free, UnitNext
    PROVE  /\ (Free \/ Reading)' /\ wr_pick = {} /\ ~takes
           /\ issued' <=> Reading'
<1>1. wr_rel = {} /\ wr_pick = {} /\ go_wr = {} /\ rd_rel = {} /\ ~all_rd /\ wrmask = {}
  BY DEF Free, wr_rel, wr_pick, go_wr, rd_rel, all_rd, wrmask, Picked
<1>2. ~alui_q /\ ~alul_q /\ ~alu_pulse
  BY <1>1 DEF Free, AluQuiet, alui_q, alul_q, all_rd_pulse, LatchQ, alu_pulse, alu_done
<1>3. ~takes /\ alu' = "idle"
  BY <1>2 DEF UnitNext, Next, Work, Issue, Clock, Alu, AluTake, AluRun, AluGive, AluHold,
      Free, takes
<1>4. delay_pick' = {} /\ prev_wr_go' = {} /\ wr_pick_1' = {} /\ req_q' = {}
      /\ AluQuiet' /\ ~all_rd_1' /\ ~alu_done_1'
  <2>. PICK issue \in BOOLEAN : Clock(issue)
    BY DEF UnitNext, Next, Work, Issue
  <2>1. delay_pick' = {}
    BY <1>1 DEF Clock, ReadPorts, Picked
  <2>2. prev_wr_go' = {} /\ wr_pick_1' = {} /\ req_q' = {}
    BY <1>1, <1>2 DEF Clock, Latches, WritePorts, Free, req_q
  <2>3. AluQuiet' /\ ~all_rd_1' /\ ~alu_done_1'
    BY <1>1, <1>2 DEF Clock, Latches, AluQuiet, Free, alu_done
  <2>. QED  BY <2>1, <2>2, <2>3
<1>5. CASE Work
  <2>1. ~issued' /\ ~busy_o' /\ ~rok_q'
    BY <1>5 DEF Work, Clock, Latches, Free, busy_o, rok_q, LatchQ
  <2>. QED  BY <1>1, <1>3, <1>4, <2>1 DEF Free, Reading
<1>6. ASSUME NEW op \in Ops, Issue(op)
      PROVE  issued' /\ Reading' /\ ~Free'
  <2>1. issued' /\ busy_o' /\ rok_q' /\ src_q' = Src
    BY <1>6, WireTypes DEF Issue, Clock, Latches, busy_o, rok_q, src_q, LatchQ
  <2>2. ~started' /\ \A d \in Dst : written'[d] = 0
    BY <1>6, <2>1 DEF UnitNext, Issue
  <2>3. \A i \in Src : OperandOK(i)'
    BY <1>4, <2>1 DEF OperandOK, go_rd
  <2>. QED  BY <1>3, <1>4, <2>1, <2>2, <2>3 DEF Reading, Free
<1>. QED  BY <1>1, <1>3, <1>5, <1>6 DEF UnitNext, Next

\* The operands are read one by one, each as its port grants it; in the clock
\* of the last one the ALU takes all of them, once.
LEMMA ReadingStep ==
    ASSUME UnitTypeOK, Reading, UnitNext
    PROVE  /\ Work /\ (Reading \/ Running)' /\ wr_pick = {} /\ ~issued'
           /\ takes => Running'
<1>1. Work /\ Clock(FALSE) /\ ~issued' /\ oper' = oper
  BY DEF UnitNext, Next, Issue, Reading, Work, Clock, Latches
<1>2. wr_rel = {} /\ wr_pick = {} /\ go_wr = {} /\ ~alu_done /\ ~alu_pulse /\ ~req_done
  <2>1. wr_rel = {} /\ ~alu_done /\ ~alu_pulse
    BY DEF Reading, wr_rel, alu_done, alu_pulse
  <2>2. wr_pick = {} /\ go_wr = {}
    BY <2>1 DEF wr_pick, go_wr, Picked
  <2>. QED  BY <2>1, <2>2 DEF Reading, req_done
<1>3. busy_o' /\ rok_q' /\ req_q' = {} /\ prev_wr_go' = {} /\ wr_pick_1' = {} /\ ~alu_done_1'
  BY <1>1, <1>2
  DEF Clock, Latches, WritePorts, Reading, busy_o, rok_q, req_q, LatchQ
<1>4. src_q' = src_q \ go_rd
  BY <1>1 DEF Clock, Latches, src_q
<1>5. \A d \in Dst : written'[d] = 0
  BY <1>1, <1>2 DEF Work, Reading
<1>6. \A i \in Src : OperandOK(i)'
  <2>. SUFFICES ASSUME NEW i \in Src
                PROVE  OperandOK(i)'
    OBVIOUS
  <2>1. src_data'[i] = alusrc(i)
    BY <1>1 DEF Clock, Operands
  <2>2. CASE i \in oper.rd /\ i \notin src_q'
    BY <2>1, <2>2, <1>1, <1>4, OperType DEF OperandOK, alusrc, src_i, Reading
  <2>3. CASE i \notin oper.rd \cup oper.imm
    <3>1. i \in src_q /\ i \notin go_rd
      BY <2>3 DEF Reading, OperandOK
    <3>2. Picked(rd_rel \ delay_pick, RdPort) \subseteq oper.rd
      BY PickedIsRequest DEF rd_rel
    <3>. QED  BY <2>3, <3>1, <3>2, <1>1, <1>4 DEF OperandOK, Clock, ReadPorts, go_rd
  <2>. QED  BY <2>2, <2>3, <1>1 DEF OperandOK
<1>7. rd_rel' = rd_rel \ go_rd /\ delay_pick' \subseteq rd_rel \ go_rd
  <2>1. rd_rel' = rd_rel \ go_rd
    BY <1>1, <1>3, <1>4 DEF rd_rel, Reading
  <2>2. Picked(rd_rel \ delay_pick, RdPort) \subseteq rd_rel \ delay_pick
    BY PickedIsRequest
  <2>. QED  BY <1>1, <2>1, <2>2 DEF Clock, ReadPorts, go_rd
<1>8. CASE ~all_rd
  <2>1. ~alui_q /\ ~alul_q
    BY <1>8 DEF alui_q, alul_q, all_rd_pulse, LatchQ, Reading, AluQuiet
  <2>2. AluQuiet' /\ ~all_rd_1'
    BY <1>1, <1>8, <2>1 DEF Clock, Latches, AluQuiet
  <2>3. ~takes /\ alu' = "idle"
    BY <1>1, <2>1 DEF Clock, Alu, AluTake, AluRun, AluGive, AluHold, Reading, takes
  <2>4. ~started'
    BY <2>3 DEF UnitNext, Reading
  <2>. QED  BY <1>1, <1>2, <1>3, <1>5, <1>6, <1>7, <2>2, <2>3, <2>4 DEF Reading, go_rd
<1>9. CASE all_rd
  <2>1. alui_q /\ alul_q
    BY <1>9 DEF alui_q, alul_q, all_rd_pulse, LatchQ, Reading
  <2>2. ~(alui' /\ ~alui_r') /\ alul_q' /\ all_rd_1'
    BY <1>1, <1>2, <1>9, <2>1
    DEF Clock, Latches, Reading, alu_ready, alul_q, LatchQ
  <2>3. rd_rel' = {} /\ delay_pick' = {}
    BY <1>7, <1>9 DEF all_rd
  <2>4. Result = oper.tag
    <3>1. \A i \in Src : alusrc(i) = IF i \in oper.rd \cup oper.imm
                                        THEN oper.tag ELSE Zero
      <4>. SUFFICES ASSUME NEW i \in Src
                    PROVE  alusrc(i) = IF i \in oper.rd \cup oper.imm
                                         THEN oper.tag ELSE Zero
        OBVIOUS
      <4>1. i \in oper.rd /\ i \in src_q /\ i \notin oper.imm => i \in go_rd
        BY <1>9 DEF all_rd, rd_rel
      <4>2. OperandOK(i) /\ busy_o
        BY DEF Reading
      <4>. QED  BY <4>1, <4>2, OperType DEF alusrc, src_i, OperandOK
    <3>. QED  BY <3>1 DEF Result
  <2>5. alu' \in {"run", "valid"} /\ aluIn' = Own' /\ (alu' = "valid" => aluOut' = Own')
    BY <1>1, <2>1, <2>4
    DEF Clock, Alu, AluTake, AluRun, AluGive, AluHold, Reading, Own
  <2>6. started' /\ takes
    BY <1>1, <2>5 DEF UnitNext, takes, Reading
  <2>. QED  BY <1>1, <1>2, <1>3, <1>5, <2>2, <2>3, <2>5, <2>6 DEF Running
<1>. QED  BY <1>8, <1>9

\* The ALU computes and, in the clock its output is valid, gives it up: the
\* results are latched and all of them requested, or there are none and the
\* unit is done.
LEMMA RunningStep ==
    ASSUME UnitTypeOK, Running, UnitNext
    PROVE  /\ Work /\ (Running \/ Writing \/ Free)' /\ wr_pick = {} /\ ~issued' /\ ~takes
           /\ Free' => req_done /\ oper.wr = {}
<1>1. Work /\ Clock(FALSE) /\ ~issued' /\ oper' = oper
  BY DEF UnitNext, Next, Issue, Running, Work, Clock, Latches
<1>2. wr_rel = {} /\ wr_pick = {} /\ go_wr = {} /\ go_rd = {}
      /\ (alu_pulse <=> alu = "valid") /\ (alu_done <=> alu = "valid")
  <2>1. wr_rel = {}
    BY DEF Running, wr_rel
  <2>2. wr_pick = {} /\ go_wr = {}
    BY <2>1 DEF wr_pick, go_wr, Picked
  <2>. QED  BY <2>1, <2>2 DEF Running, alu_done, alu_pulse, go_rd
<1>3. ~alui_q /\ all_rd
  BY <1>2 DEF Running, alui_q, all_rd_pulse, all_rd, LatchQ
<1>4. ~(alui' /\ ~alui_r') /\ all_rd_1'
  BY <1>1, <1>3 DEF Clock, Latches
<1>5. src_q' = src_q /\ prev_wr_go' = {} /\ wr_pick_1' = {}
  BY <1>1, <1>2 DEF Clock, Latches, src_q, WritePorts, Running
<1>6. delay_pick' = {}
  BY <1>1 DEF Clock, ReadPorts, Running, Picked
<1>7. \A d \in Dst : written'[d] = 0
  BY <1>1, <1>2 DEF Work, Running
<1>8. ~takes /\ started'
  BY <1>1 DEF UnitNext, Running, takes
<1>9. CASE alu = "run"
  <2>1. ~req_done
    BY <1>2, <1>9 DEF req_done, Running
  <2>2. busy_o' /\ rok_q' /\ alul_q' /\ req_q' = {} /\ ~alu_done_1'
    BY <1>1, <1>2, <1>9, <2>1
    DEF Clock, Latches, Running, busy_o, rok_q, alul_q, req_q, LatchQ
  <2>3. alu' \in {"run", "valid"} /\ aluIn' = Own' /\ (alu' = "valid" => aluOut' = Own')
    BY <1>1, <1>9 DEF Clock, Alu, AluTake, AluRun, AluGive, AluHold, Running, Own
  <2>4. rd_rel' = {}
    BY <1>1, <1>5 DEF Running, rd_rel
  <2>5. Running'
    BY <1>1, <1>4, <1>5, <1>6, <1>7, <1>8, <2>2, <2>3, <2>4 DEF Running
  <2>6. ~Free'
    BY <2>2 DEF Free
  <2>. QED  BY <1>1, <1>2, <1>8, <2>5, <2>6
<1>10. CASE alu = "valid"
  <2>1. wrmask = oper.wr /\ aluOut = Own
    BY <1>10 DEF Running, wrmask, alu_ok, Own
  <2>2. req_done <=> oper.wr = {}
    BY <1>2, <1>10, <2>1 DEF req_done, Running
  <2>3. ~rok_q' /\ AluQuiet' /\ req_q' = oper.wr /\ (busy_o' <=> oper.wr # {})
    <3>1. ~rok_q' /\ AluQuiet'
      BY <1>1, <1>2, <1>4, <1>10
      DEF Clock, Latches, Running, rok_q, AluQuiet, LatchQ
    <3>2. req_q' = oper.wr
      BY <1>1, <1>2, <1>10, <2>1 DEF Clock, Latches, Running, req_q
    <3>3. busy_o' <=> oper.wr # {}
      BY <1>1, <2>2 DEF Clock, Latches, Running, busy_o, LatchQ
    <3>. QED  BY <3>1, <3>2, <3>3
  <2>4. alu' = "idle" /\ aluOut' = Own'
    BY <1>1, <1>10, <2>1
    DEF Clock, Alu, AluTake, AluRun, AluGive, AluHold, Running, Own
  <2>5. \A d \in Dst : data_r'[d] = oper.tag
    BY <1>1, <1>2, <1>10, <2>1 DEF Clock, Results, Own
  <2>6. CASE oper.wr = {}
    BY <1>1, <1>2, <1>6, <1>8, <2>2, <2>3, <2>4, <2>6 DEF Free
  <2>7. CASE oper.wr # {}
    <3>1. rd_rel' = {}
      BY <1>1, <1>5, <2>3, <2>7 DEF Running, rd_rel
    <3>2. req_q' = {d \in oper'.wr : written'[d] = 0}
      BY <1>1, <1>7, <2>3, OperType DEF Op
    <3>3. \A d \in Dst : written'[d] = 1 => d \in oper'.wr
      BY <1>7
    <3>4. Writing'
      BY <1>1, <1>5, <1>6, <1>8, <2>3, <2>4, <2>5, <2>7, <3>1, <3>2, <3>3 DEF Writing
    <3>5. ~Free'
      BY <2>3, <2>7 DEF Free
    <3>. QED  BY <1>1, <1>2, <1>8, <3>4, <3>5
  <2>. QED  BY <2>6, <2>7
<1>. QED  BY <1>9, <1>10 DEF Running

\* Each result is written in the clock its port grants it, with its data, and
\* its request ends; the unit is done in the clock after the last one.
LEMMA WritingStep ==
    ASSUME UnitTypeOK, Writing, UnitNext
    PROVE  /\ Work /\ (Writing \/ Free)' /\ ~issued' /\ ~takes
           /\ wr_pick = go_wr /\ wr_pick \subseteq req_q /\ go_wr \cap req_q' = {}
           /\ Free' => req_q = {} /\ wr_pick = {}
<1>1. Work /\ Clock(FALSE) /\ ~issued' /\ oper' = oper
  BY DEF UnitNext, Next, Issue, Writing, Work, Clock, Latches
<1>2. wr_pick \subseteq req_q /\ wr_pick = go_wr
  BY WireTypes DEF Writing, go_wr
<1>3. ~alui_q /\ ~alul_q /\ ~all_rd /\ ~alu_done /\ ~alu_pulse /\ go_rd = {}
  BY DEF Writing, alui_q, alul_q, all_rd, all_rd_pulse, LatchQ, AluQuiet, alu_done,
         alu_pulse, go_rd
<1>4. ~rok_q' /\ AluQuiet' /\ src_q' = src_q
  BY <1>1, <1>3 DEF Clock, Latches, Writing, rok_q, AluQuiet, src_q, LatchQ
<1>5. req_q' = req_q \ go_wr
  BY <1>1, <1>3 DEF Clock, Latches, req_q, req_reset, Writing
<1>6. delay_pick' = {}
  BY <1>1 DEF Clock, ReadPorts, Writing, Picked
<1>7. ~takes /\ started' /\ alu' = "idle" /\ aluOut' = Own'
  BY <1>1, <1>3 DEF Clock, Alu, AluTake, AluRun, AluGive, AluHold, Writing, takes,
      UnitNext, Own
<1>8. prev_wr_go' = go_wr /\ wr_pick_1' = go_wr
  BY <1>1, <1>2 DEF Clock, Latches, WritePorts, Writing
<1>9. \A d \in Dst : data_r'[d] = oper.tag
  BY <1>1, <1>3 DEF Clock, Results, Writing
<1>10. \A d \in Dst : written'[d] = IF d \in wr_pick THEN 1 ELSE written[d]
  BY <1>1, <1>2 DEF Work, Writing
<1>11. wrmask = IF HoldsOk THEN oper.wr ELSE {}
  BY DEF wrmask, alu_ok, Writing, Own
<1>12. CASE req_done
  <2>1. req_q = {} /\ wr_pick = {}
    <3>1. go_wr \cup prev_wr_go # {} /\ req_q \cap wrmask = {}
      BY <1>3, <1>12 DEF req_done
    <3>2. HoldsOk
      <4>1. CASE ~HoldsOk
        BY <1>11, <3>1, <4>1, WireTypes DEF wr_rel, Writing
      <4>. QED  BY <4>1
    <3>. QED  BY <1>2, <1>11, <3>1, <3>2 DEF Writing
  <2>2. ~busy_o'
    BY <1>1, <1>12 DEF Clock, Latches, busy_o, LatchQ
  <2>3. Free'
    BY <1>1, <1>4, <1>5, <1>6, <1>7, <2>1, <2>2 DEF Free
  <2>. QED  BY <1>1, <1>2, <1>5, <1>7, <2>1, <2>3
<1>13. CASE ~req_done
  <2>1. busy_o'
    BY <1>1, <1>13 DEF Clock, Latches, Writing, busy_o, LatchQ
  <2>2. rd_rel' = {}
    BY <1>1, <1>4, <2>1 DEF Writing, rd_rel
  <2>3. req_q' = {d \in oper'.wr : written'[d] = 0}
    BY <1>1, <1>2, <1>5, <1>10, OperType, WireTypes DEF Writing, Op
  <2>4. \A d \in Dst : written'[d] = 1 => d \in oper'.wr
    BY <1>1, <1>2, <1>10 DEF Writing
  <2>5. (wr_pick_1' \cup prev_wr_go') \cap req_q' = {}
    BY <1>5, <1>8
  <2>6. ~HoldsOk => prev_wr_go' = {}
    BY <1>2, <1>8, <1>11, WireTypes DEF wr_rel
  <2>7. Writing'
    BY <1>1, <1>4, <1>6, <1>7, <1>9, <2>1, <2>2, <2>3, <2>4, <2>5, <2>6 DEF Writing
  <2>. QED  BY <1>1, <1>2, <1>5, <1>7, <2>1, <2>7 DEF Free
<1>. QED  BY <1>12, <1>13

-----------------------------------------------------------------------------
LEMMA PhaseStep ==
    ASSUME IInv, UnitNext
    PROVE  IInv'
<1>1. \A d \in wr_pick : written[d] = 0
  BY FreeStep, ReadingStep, RunningStep, WritingStep DEF IInv, Writing
<1>2. UnitTypeOK'
  BY <1>1, UnitTypes DEF IInv
<1>. QED  BY <1>2, FreeStep, ReadingStep, RunningStep, WritingStep DEF IInv

\* The unit is always in one of its four phases, with the latches, the pulses
\* and the port grants of MultiCompUnit as that phase has them.
THEOREM PhaseAlways == UnitSpec => []IInv
<1>1. UnitInit => IInv
  <2>. SUFFICES ASSUME UnitInit PROVE IInv
    OBVIOUS
  <2>1. UnitTypeOK
    <3>1. NoResult \in [wr : SUBSET Dst, data : Token]
      BY DEF NoResult, Token
    <3>2. src_data \in [Src -> Token] /\ data_r \in [Dst -> Token] /\ regs \in [Dst -> Token]
          /\ written \in [Dst -> 0 .. 1]
      BY DEF UnitInit, Init, Token
    <3>. QED  BY <3>1, <3>2 DEF UnitInit, Init, UnitTypeOK
  <2>2. Free
    BY DEF UnitInit, Init, Free, busy_o, rok_q, AluQuiet, req_q, LatchQ
  <2>. QED  BY <2>1, <2>2 DEF IInv
<1>2. IInv /\ [UnitNext]_unitVars => IInv'
  <2>. SUFFICES ASSUME IInv, [UnitNext]_unitVars
                PROVE  IInv'
    OBVIOUS
  <2>1. CASE UnitNext  BY <2>1, PhaseStep
  <2>2. CASE UNCHANGED unitVars
    BY <2>2
    DEF unitVars, vars, latchVars, IInv, UnitTypeOK, Free, Reading, Running, Writing,
        busy_o, rok_q, req_q, src_q, rd_rel, alul_q, all_rd_pulse, all_rd, go_rd, LatchQ,
        AluQuiet, OperandOK, Own
  <2>. QED  BY <2>1, <2>2
<1>. QED  BY <1>1, <1>2, PTL DEF UnitSpec

-----------------------------------------------------------------------------
\* In each phase a clock is a step of FuncUnit, or changes nothing it sees.
LEMMA FuncUnitStep ==
    ASSUME IInv, [UnitNext]_unitVars
    PROVE  [Fu!FuNext]_(Fu!fuVars)
<1>. DEFINE done == {d \in Dst : written[d] = 1}
<1>. busy_o \in BOOLEAN /\ busy_o' \in BOOLEAN
  BY Zenon DEF busy_o, LatchQ
<1>1. CASE UnitNext /\ Free
  <2>1. wr_pick = {} /\ ~busy_o /\ (issued' <=> Reading')
    BY <1>1, FreeStep DEF IInv, Free
  <2>2. CASE Work
    <3>1. ~issued' /\ ~busy_o' /\ oper' = oper
      BY <1>1, <2>1, <2>2, FreeStep DEF Work, Clock, Latches, Reading, Free, IInv
    <3>2. regs' = regs /\ done' = done
      BY <2>1, <2>2 DEF Work, Clock, WritePorts, IInv, UnitTypeOK
    <3>. QED  BY <2>1, <3>1, <3>2 DEF Fu!fuVars
  <2>3. ASSUME NEW op \in Ops, Issue(op)
        PROVE  Fu!Issue(op)
    <3>1. busy_o' /\ oper' = op
      BY <1>1, <2>1, <2>3, FreeStep DEF Issue, Clock, Latches, Reading, IInv
    <3>2. regs' = regs /\ done' = {}
      BY <2>1, <2>3 DEF Issue, Clock, WritePorts, IInv, UnitTypeOK
    <3>. QED  BY <2>1, <3>1, <3>2 DEF Fu!Issue
  <2>. QED  BY <1>1, <2>2, <2>3 DEF UnitNext, Next, Fu!FuNext
<1>2. CASE UnitNext /\ Reading
  <2>1. Work /\ busy_o /\ busy_o' /\ wr_pick = {}
    BY <1>2, ReadingStep DEF IInv, Reading, Running
  <2>2. oper' = oper /\ regs' = regs /\ done' = done
    BY <2>1 DEF Work, Clock, WritePorts, IInv, UnitTypeOK
  <2>. QED  BY <2>1, <2>2 DEF Fu!fuVars
<1>3. CASE UnitNext /\ Running
  <2>1. Work /\ busy_o /\ wr_pick = {} /\ done = {}
    BY <1>3, RunningStep DEF IInv, Running
  <2>2. oper' = oper /\ regs' = regs /\ done' = done
    BY <2>1 DEF Work, Clock, WritePorts, IInv, UnitTypeOK
  <2>3. CASE busy_o'
    BY <2>1, <2>2, <2>3 DEF Fu!fuVars
  <2>4. CASE ~busy_o'
    <3>1. oper.wr = {}
      BY <1>3, <2>4, RunningStep DEF IInv, Running, Writing
    <3>. QED  BY <2>1, <2>2, <2>4, <3>1 DEF Fu!FuNext, Fu!Finish
  <2>. QED  BY <2>3, <2>4
<1>4. CASE UnitNext /\ Writing
  <2>1. Work /\ busy_o /\ oper' = oper /\ wr_pick = go_wr /\ wr_pick \subseteq req_q
    BY <1>4, WritingStep DEF IInv, Writing, Work
  <2>2. wr_pick \subseteq Dst /\ wr_pick \subseteq oper.wr \ done
    BY <1>4, <2>1, WireTypes DEF Writing, IInv
  <2>3. regs' = [d \in Dst |-> IF d \in wr_pick THEN oper.tag ELSE regs[d]]
    BY <1>4, <2>1 DEF Work, Clock, WritePorts, Writing
  <2>4. done' = done \cup wr_pick
    BY <1>4, <2>1, <2>2 DEF Work, Writing, IInv, UnitTypeOK
  <2>5. CASE busy_o'
    BY <2>1, <2>2, <2>3, <2>4, <2>5 DEF Fu!FuNext, Fu!Write
  <2>6. CASE ~busy_o'
    <3>1. req_q = {} /\ wr_pick = {}
      BY <1>4, <2>6, WritingStep DEF IInv, Writing
    <3>2. done = oper.wr
      BY <1>4, <3>1, OperType DEF Writing, IInv, UnitTypeOK, Op
    <3>3. regs' = regs
      BY <2>3, <3>1 DEF IInv, UnitTypeOK
    <3>. QED  BY <2>1, <2>4, <2>6, <3>1, <3>2, <3>3 DEF Fu!FuNext, Fu!Finish
  <2>. QED  BY <2>5, <2>6
<1>5. CASE UNCHANGED unitVars
  BY <1>5 DEF unitVars, vars, latchVars, Fu!fuVars, busy_o, LatchQ
<1>. QED  BY <1>1, <1>2, <1>3, <1>4, <1>5 DEF IInv

\* Whatever order the ports serve it in, the unit writes each result of its
\* instruction exactly once, computed from its own operands, and is busy from
\* the issue until then: it implements FuncUnit.
THEOREM FuncUnitImplemented == UnitSpec => ImplementsFuncUnit
<1>1. UnitInit => Fu!FuInit
  BY DEF UnitInit, Init, Fu!FuInit, busy_o, LatchQ
<1>2. IInv /\ [UnitNext]_unitVars => [Fu!FuNext]_(Fu!fuVars)
  BY FuncUnitStep
<1>. QED  BY <1>1, <1>2, PhaseAlways, PTL DEF UnitSpec, ImplementsFuncUnit, Fu!FuSpec

-----------------------------------------------------------------------------
\* The operand that the port carries is what the unit holds from then on.
LEMMA OperandLatched ==
    ASSUME IInv, UnitNext, NEW i \in go_rd \cap rd_rel
    PROVE  alusrc(i)' = src_i(i) /\ i \notin rd_rel'
<1>1. Reading
  BY DEF IInv, Free, Running, Writing, go_rd
<1>2. Work /\ Clock(FALSE) /\ oper' = oper /\ ~issued'
  BY <1>1, ReadingStep DEF IInv, Work
<1>3. src_q' = src_q \ go_rd
  BY <1>2 DEF Clock, Latches, src_q
<1>4. i \in src_q /\ i \notin oper.imm /\ i \in Src
  BY WireTypes DEF rd_rel, IInv
<1>5. src_data'[i] = src_i(i)
  BY <1>2, <1>4 DEF Clock, Operands, alusrc
<1>. QED  BY <1>2, <1>3, <1>4, <1>5 DEF alusrc, rd_rel

\* What fu/compunits/formal says of a unit, and that its ALU takes each
\* instruction once, holds in every clock.
THEOREM UnitProvedAlways == UnitSpec => UnitProved
<1>. DEFINE Proved ==
        /\ takes => ~started
        /\ issued' => ~busy_o /\ busy_o'
        /\ rd_rel # {} => busy_o
        /\ \A i \in go_rd \cap rd_rel : alusrc(i)' = src_i(i) /\ i \notin rd_rel'
        /\ wr_rel # {} => started /\ alu # "run"
        /\ go_wr \cap wr_rel' = {}
<1>1. IInv /\ [UnitNext]_unitVars => [Proved]_unitVars
  <2>. SUFFICES ASSUME IInv, UnitNext
                PROVE  Proved
    OBVIOUS
  <2>1. takes => ~started
    BY FreeStep, RunningStep, WritingStep DEF IInv, Reading
  <2>2. issued' => ~busy_o /\ busy_o'
    BY FreeStep, ReadingStep, RunningStep, WritingStep DEF IInv, Free, Reading
  <2>3. rd_rel # {} => busy_o
    BY DEF rd_rel
  <2>4. wr_rel # {} => started /\ alu # "run"
    BY DEF wr_rel, IInv, Free, Reading, Running, Writing
  <2>5. go_wr \cap wr_rel' = {}
    <3>1. wr_rel' \subseteq req_q'
      BY DEF wr_rel
    <3>2. CASE Writing
      BY <3>1, <3>2, WritingStep DEF IInv
    <3>3. CASE ~Writing
      BY <3>3, WireTypes, FreeStep, ReadingStep, RunningStep DEF IInv
    <3>. QED  BY <3>2, <3>3
  <2>. QED  BY <2>1, <2>2, <2>3, <2>4, <2>5, OperandLatched
<1>. QED  BY <1>1, PhaseAlways, PTL DEF UnitSpec, UnitProved

-----------------------------------------------------------------------------
(* Misaligned accesses, for any length of a line.  An address is its line  *)
(* and a position in it; arithmetic with a line of unknown length is done  *)
(* once, in Quotients, and what an access covers is said by its mask.      *)

LEMMA LineSize == L \in Nat /\ L >= 1 /\ L \div 2 \in Nat /\ 2 * (L \div 2) <= L
<1> HIDE DEF L
<1>1. L \in Nat /\ L >= 1
  BY MisalignedAssumption DEF MisalignedAssumption
<1> QED
  BY <1>1

LEMMA DivMod ==
    ASSUME NEW a \in Nat
    PROVE  /\ a \div L \in Nat /\ a % L \in Nat /\ a % L < L
           /\ a = ((a \div L) * L) + (a % L)
<1> HIDE DEF L
<1> QED
  BY LineSize

\* Positions less than two lines, of lines next to one another or the same.
LEMMA Quotients ==
    ASSUME NEW u \in Nat, NEW v \in Nat, NEW x \in Nat, NEW y \in Nat,
           x < 2 * L, y < 2 * L, (u * L) + x = (v * L) + y
    PROVE  \/ u = v /\ x = y
           \/ v = u + 1 /\ x = L + y
           \/ u = v + 1 /\ y = L + x
<1> HIDE DEF L
<1> USE LineSize
<1>1. ASSUME NEW k \in Nat, NEW d \in Nat
      PROVE  /\ (k + 1) * L = (k * L) + L
             /\ (k + 2 + d) * L = (k * L) + (2 * L) + (d * L)
             /\ d * L \in Nat /\ k * L \in Nat
  OBVIOUS
<1>2. ~(u >= v + 2)
  <2> SUFFICES ASSUME u >= v + 2 PROVE FALSE
    OBVIOUS
  <2>1. PICK d \in Nat : u = v + 2 + d
    <3>1. u - (v + 2) \in Nat /\ u = v + 2 + (u - (v + 2))
      OBVIOUS
    <3> QED
      BY <3>1
  <2> QED
    BY <1>1, <2>1
<1>3. ~(v >= u + 2)
  <2> SUFFICES ASSUME v >= u + 2 PROVE FALSE
    OBVIOUS
  <2>1. PICK d \in Nat : v = u + 2 + d
    <3>1. v - (u + 2) \in Nat /\ v = u + 2 + (v - (u + 2))
      OBVIOUS
    <3> QED
      BY <3>1
  <2> QED
    BY <1>1, <2>1
<1>4. u = v \/ v = u + 1 \/ u = v + 1
  BY <1>2, <1>3
<1> QED
  BY <1>1, <1>4

\* The bytes of an access in the line it starts in.
held(r) == {x \in r.addr .. (r.addr + r.len - 1) : x \div L = r.addr \div L}

LEMMA Requested ==
    ASSUME NEW r \in Request
    PROVE  /\ r.addr \in Nat /\ r.len \in Nat /\ r.len >= 1
           /\ line(r)[1] = r.addr \div L /\ line(r)[1] \in Nat
           /\ r.addr % L \in Nat /\ r.addr % L < L
           /\ r.addr = (line(r)[1] * L) + (r.addr % L)
           /\ line(r)[1] * L \in Nat
<1> HIDE DEF L
<1>1. r.addr \in Nat /\ r.len \in 1 .. L \div 2
  <2>1. r.addr \in Addr /\ r.len \in Lens
    BY DEF Request
  <2>2. Addr \subseteq Nat
    BY DEF Addr
  <2> QED
    BY <2>1, <2>2, MisalignedAssumption DEF MisalignedAssumption
<1>2. /\ r.addr \div L \in Nat /\ r.addr % L \in Nat /\ r.addr % L < L
      /\ r.addr = ((r.addr \div L) * L) + (r.addr % L)
  BY <1>1, DivMod
<1> DEFINE q == r.addr \div L
<1>3. q * L \in Nat
  <2>1. q \in Nat
    BY <1>2
  <2> HIDE DEF q
  <2> QED
    BY <2>1, LineSize
<1>4. r.len \in Nat /\ r.len >= 1
  BY <1>1, LineSize
<1> QED
  BY <1>1, <1>2, <1>3, <1>4 DEF line

\* A line and a position in it, put together and taken apart again.
LEMMA LineOf ==
    ASSUME NEW q \in Nat, NEW p \in Nat, p < L
    PROVE  ((q * L) + p) \div L = q
<1> HIDE DEF L
<1> USE LineSize
<1> DEFINE x == (q * L) + p
<1>1. x \in Nat
  OBVIOUS
<1>2. /\ x \div L \in Nat /\ x % L \in Nat /\ x % L < L
      /\ x = ((x \div L) * L) + (x % L)
  <2> HIDE DEF x
  <2> QED
    BY <1>1, DivMod
<1> DEFINE u == x \div L
           y == x % L
<1>3. u \in Nat /\ y \in Nat /\ y < L /\ (q * L) + p = (u * L) + y
  BY <1>2
<1> HIDE DEF u, y
<1>4. p < 2 * L /\ y < 2 * L
  BY <1>3
<1>5. q = u
  BY <1>3, <1>4, Quotients
<1> QED
  BY <1>5 DEF u

\* The first mask is the positions of those bytes, the second is empty.
LEMMA MaskBytes ==
    ASSUME NEW r \in Request
    PROVE  /\ mask(r)[1] = lexp(r) /\ mask(r)[2] = {} /\ Low(r) = lexp(r) /\ Over(r) = {}
           /\ \A p \in lexp(r) : /\ p \in Nat /\ p < L
                                 /\ (line(r)[1] * L) + p \in held(r)
           /\ \A x \in held(r) : \E p \in lexp(r) : x = (line(r)[1] * L) + p
<1> HIDE DEF L
<1> USE LineSize
<1> DEFINE b == r.addr
           n == r.len
           m == r.addr % L
           q == line(r)[1]
<1>1. /\ b \in Nat /\ n \in Nat /\ m \in Nat /\ m < L /\ n >= 1
      /\ q \in Nat /\ q * L \in Nat /\ b = (q * L) + m /\ b \div L = q
  BY Requested
<1>2. lexp(r) = {m + i : i \in 0 .. n - 1} \cap (0 .. L - 1)
  BY DEF lexp
<1>3. held(r) = {x \in b .. (b + n - 1) : x \div L = q}
  BY <1>1 DEF held
<1>4. mask(r) = <<lexp(r) \cap (0 .. L - 1), {i \in 0 .. L - 1 : i + L \in lexp(r)}>>
  BY DEF mask
<1>5. Low(r) = lexp(r) \cap (0 .. L - 1) /\ Over(r) = {i \in hexp : i + L \in lexp(r)}
  BY DEF Low, expwid, Over
<1>6. \A i \in 0 .. L - 1 : i + L \notin lexp(r)
  BY <1>2
<1>7. hexp \subseteq 0 .. L - 1
  BY DEF hexp
<1>8. lexp(r) \cap (0 .. L - 1) = lexp(r)
  BY <1>2
<1>9. ASSUME NEW p \in lexp(r)
      PROVE  p \in Nat /\ p < L /\ (q * L) + p \in held(r)
  <2>1. p \in Nat /\ p < L
    BY <1>2
  <2>2. PICK i \in 0 .. n - 1 : p = m + i
    BY <1>2
  <2>3. ((q * L) + p) \div L = q
    BY <1>1, <2>1, LineOf
  <2> HIDE DEF b, n, m, q
  <2>4. (q * L) + p \in b .. (b + n - 1)
    BY <1>1, <2>2
  <2> QED
    BY <1>3, <2>1, <2>3, <2>4
<1>10. ASSUME NEW x \in held(r)
       PROVE  \E p \in lexp(r) : x = (q * L) + p
  <2>1. x \in b .. (b + n - 1) /\ x \div L = q
    BY <1>3
  <2>2. x \in Nat
    <3> HIDE DEF b, n
    <3> QED
      BY <1>1, <2>1
  <2>3. x % L \in Nat /\ x % L < L /\ x = (q * L) + (x % L)
    BY <2>1, <2>2, DivMod
  <2> DEFINE p == x % L
  <2>4. p - m \in 0 .. n - 1 /\ p = m + (p - m) /\ p \in 0 .. L - 1
    <3>1. p \in Nat /\ p < L /\ x = (q * L) + p
      BY <2>3
    <3> HIDE DEF b, n, m, q, p
    <3> QED
      BY <1>1, <2>1, <3>1
  <2>5. p \in lexp(r)
    BY <1>2, <2>4
  <2> QED
    BY <2>3, <2>5
<1>11. /\ mask(r)[1] = lexp(r) /\ mask(r)[2] = {} /\ Low(r) = lexp(r) /\ Over(r) = {}
  <2>1. {i \in 0 .. L - 1 : i + L \in lexp(r)} = {} /\ {i \in hexp : i + L \in lexp(r)} = {}
    BY <1>6, <1>7
  <2> QED
    BY <1>4, <1>5, <1>8, <2>1
<1> QED
  BY <1>9, <1>10, <1>11

\* Two accesses match if and only if they share a byte of the line they start in.
LEMMA MatchIsOverlap ==
    ASSUME NEW a \in Request, NEW b \in Request
    PROVE  is_match(a, b) <=> held(a) \cap held(b) # {}
<1> HIDE DEF L
<1> USE LineSize
<1>1. is_match(a, b) <=> line(a)[1] = line(b)[1] /\ lexp(a) \cap lexp(b) # {}
  <2>1. ASSUME NEW c \in Request, NEW e \in Request PROVE ~i1_eq_j(c, e)
    BY MaskBytes DEF i1_eq_j
  <2>2. straight_eq(a, b) <=> line(a)[1] = line(b)[1] /\ lexp(a) \cap lexp(b) # {}
    BY MaskBytes, Requested DEF straight_eq
  <2> QED
    BY <2>1, <2>2 DEF is_match
<1>2. ASSUME line(a)[1] = line(b)[1], NEW p \in lexp(a), p \in lexp(b)
      PROVE  held(a) \cap held(b) # {}
  BY <1>2, MaskBytes
<1>3. ASSUME NEW x \in held(a), x \in held(b)
      PROVE  line(a)[1] = line(b)[1] /\ lexp(a) \cap lexp(b) # {}
  <2>1. PICK p \in lexp(a) : x = (line(a)[1] * L) + p
    BY MaskBytes
  <2>2. PICK q \in lexp(b) : x = (line(b)[1] * L) + q
    BY <1>3, MaskBytes
  <2>3. p \in Nat /\ p < L /\ q \in Nat /\ q < L
    BY MaskBytes
  <2>4. line(a)[1] \in Nat /\ line(b)[1] \in Nat
    BY Requested
  <2>5. line(a)[1] = line(b)[1] /\ p = q
    <3> DEFINE u == line(a)[1]
               v == line(b)[1]
    <3>1. u \in Nat /\ v \in Nat /\ (u * L) + p = (v * L) + q /\ p < 2 * L /\ q < 2 * L
      BY <2>1, <2>2, <2>3, <2>4
    <3> HIDE DEF u, v
    <3>2. \/ u = v /\ p = q
          \/ v = u + 1 /\ p = L + q
          \/ u = v + 1 /\ q = L + p
      BY <2>3, <3>1, Quotients
    <3>3. u = v /\ p = q
      BY <2>3, <3>2
    <3> QED
      BY <3>3 DEF u, v
  <2> QED
    BY <2>5
<1> QED
  BY <1>1, <1>2, <1>3

LEMMA TwinIsMatch ==
    ASSUME NEW a \in Request, NEW b \in Request, TwinMatch(a, b)
    PROVE  is_match(a, b)
<1> HIDE DEF L
<1>1. PICK h \in 1 .. 2, k \in 1 .. 2 :
         line(a)[h] = line(b)[k] /\ mask(a)[h] \cap mask(b)[k] # {}
  BY DEF TwinMatch
<1>2. h = 1 /\ k = 1
  BY <1>1, MaskBytes
<1> QED
  BY <1>1, <1>2, MaskBytes, Requested DEF is_match, straight_eq

LEMMA LeastOf ==
    ASSUME NEW T, T \subseteq Nat, T # {}
    PROVE  \E i \in T : \A j \in T : i <= j
<1>1. PICK i \in T : \A j \in T : ~ (<<j, i>> \in OpToRel(<, Nat))
  BY WFMin, NatLessThanWellFounded
<1>2. \A j \in T : ~ (j < i)
  BY <1>1 DEF OpToRel
<1> QED
  BY <1>2

\* No byte of what DataMerger makes of requests that do not match has two
\* writers, and none of a merged request's bytes is missing.
LEMMA MergeKeeps ==
    ASSUME addr_r \in [Ports -> Request \cup {None}], NEW h \in 1 .. 2
    PROVE  LET out == Merge(addr_nomatch_o, h)
           IN  /\ \A x, y \in out : x[1] = y[1] => x = y
               /\ \A x \in out : \A y \in Row(x[2], h) : y \in out
<1> HIDE DEF L
<1> DEFINE rows == addr_nomatch_o
           out == Merge(rows, h)
           group == addr_match(rows, h)[pick(rows)]
<1> SUFFICES ASSUME rows # {}
             PROVE  /\ \A x, y \in out : x[1] = y[1] => x = y
                    /\ \A x \in out : \A y \in Row(x[2], h) : y \in out
  BY DEF Merge
<1>1. out = UNION {Row(j, h) : j \in group}
  BY DEF Merge
<1>2. pick(rows) \in rows
  <2>1. rows \subseteq Nat /\ rows # {}
    BY MisalignedAssumption DEF MisalignedAssumption, addr_nomatch_o, Active
  <2>2. \E i \in rows : \A j \in rows : i <= j
    <3> HIDE DEF rows
    <3> QED
      BY <2>1, LeastOf
  <2> QED
    BY <2>2 DEF pick
<1>3. /\ group \subseteq rows
      /\ \A i, j \in group : line(addr_r[i])[h] = line(addr_r[j])[h]
  BY <1>2 DEF addr_match
<1>4. \A i \in rows : /\ addr_r[i] \in Request
                      /\ \A j \in rows \ {i} : ~is_match(addr_r[i], addr_r[j])
  BY DEF addr_nomatch_o, Active
<1> HIDE DEF rows, group, out
<1>5. \A x \in out : /\ x[2] \in group /\ x[1] \in mask(addr_r[x[2]])[h]
                     /\ x = <<x[1], x[2]>>
  BY <1>1 DEF Row
<1>6. ASSUME NEW x \in out, NEW y \in out, x[1] = y[1] PROVE x = y
  <2> DEFINE a == addr_r[x[2]]
             b == addr_r[y[2]]
  <2>1. a \in Request /\ b \in Request /\ line(a)[h] = line(b)[h]
    BY <1>3, <1>4, <1>5
  <2>2. x[1] \in mask(a)[h] /\ x[1] \in mask(b)[h]
    BY <1>5, <1>6
  <2>3. h = 1
    <3> HIDE DEF a, b
    <3> QED
      BY <2>1, <2>2, MaskBytes
  <2>4. is_match(a, b)
    <3> HIDE DEF a, b
    <3> QED
      BY <2>1, <2>2, <2>3, MaskBytes, Requested DEF is_match, straight_eq
  <2>5. x[2] = y[2]
    BY <1>3, <1>4, <1>5, <2>4
  <2> QED
    BY <1>5, <1>6, <2>5
<1>7. ASSUME NEW x \in out, NEW y \in Row(x[2], h) PROVE y \in out
  BY <1>1, <1>5
<1> QED
  BY <1>6, <1>7 DEF out, rows

\* A load is answered with the bytes it asked for in the line it starts in:
\* the second latch was never loaded, and has nothing to add.
LEMMA SplitAnswers ==
    ASSUME access \in Request, o_valid, ld_i_r[2] = {}
    PROVE  {x \in ld_data_o : x[1] < access.len} =
               {<<x - access.addr, x>> : x \in held(access)}
<1> HIDE DEF L
<1> USE LineSize
<1> DEFINE b == access.addr
           n == access.len
           m == access.addr % L
           B == line(access)[1] * L
           ans == {x \in ld_data_o : x[1] < n}
<1>1. /\ b \in Nat /\ n \in Nat /\ m \in Nat /\ m < L /\ b = B + m /\ B \in Nat
  BY Requested
<1>2. ld_o(1) = {<<p, B + p>> : p \in 0 .. L - 1}
  BY DEF ld_o, o_valid, sld_data_i
<1>3. ld_o(2) = {}
  BY MaskBytes DEF ld_o, latch_valid
<1>4. ld_data_o = Down(ld_o(1), m)
  BY <1>3 DEF ld_data_o, ashift1, Up
<1>5. lexp(access) = {m + i : i \in 0 .. n - 1} \cap (0 .. L - 1)
  BY DEF lexp
<1>6. ASSUME NEW p \in lexp(access) PROVE <<(B + p) - b, B + p>> \in ans
  <2> DEFINE w == ld_o(1)
             y == <<p, B + p>>
  <2>1. y \in w /\ y[1] = p /\ y[2] = B + p
    BY <1>2, <1>5
  <2>2. p \in Nat /\ p >= m /\ p < m + n
    <3> HIDE DEF m, n
    <3> QED
      BY <1>1, <1>5
  <2>3. y \in {e \in w : e[1] >= m}
    BY <2>1, <2>2
  <2> HIDE DEF y, w
  <2>4. <<y[1] - m, y[2]>> \in Down(w, m)
    BY <2>3 DEF Down
  <2>5. (B + p) - b = p - m /\ p - m < n
    <3> HIDE DEF b, m, n, B
    <3> QED
      BY <1>1, <2>2
  <2> QED
    BY <1>4, <2>1, <2>4, <2>5 DEF w
<1>7. ASSUME NEW x \in ans
      PROVE  \E p \in lexp(access) : x = <<(B + p) - b, B + p>>
  <2>1. x \in Down(ld_o(1), m) /\ x[1] < n
    BY <1>4
  <2>2. PICK y \in ld_o(1) : y[1] >= m /\ x = <<y[1] - m, y[2]>>
    BY <2>1 DEF Down
  <2>3. PICK p \in 0 .. L - 1 : y = <<p, B + p>>
    BY <1>2, <2>2
  <2>4. p >= m /\ x = <<p - m, B + p>> /\ p - m < n
    BY <2>1, <2>2, <2>3
  <2> HIDE DEF b, m, n, B, ans
  <2>5. p - m \in 0 .. n - 1 /\ p = m + (p - m) /\ p - m = (B + p) - b
    BY <1>1, <2>4
  <2> QED
    BY <1>5, <2>4, <2>5
<1>8. ASSUME NEW x \in held(access) PROVE <<x - b, x>> \in ans
  <2>1. PICK p \in lexp(access) : x = B + p
    BY MaskBytes
  <2> HIDE DEF b, B, ans
  <2> QED
    BY <1>6, <2>1
<1>9. ASSUME NEW x \in ans PROVE \E z \in held(access) : x = <<z - b, z>>
  <2>1. PICK p \in lexp(access) : x = <<(B + p) - b, B + p>>
    BY <1>7
  <2>2. B + p \in held(access)
    BY MaskBytes
  <2> HIDE DEF b, B, ans
  <2> QED
    BY <2>1, <2>2
<1> HIDE DEF b, ans
<1>10. ans = {<<x - b, x>> : x \in held(access)}
  BY <1>8, <1>9
<1> QED
  BY <1>10 DEF ans, b

SplitInv == /\ access \in Request \cup {None}
            /\ addr_r \in [Ports -> Request \cup {None}]
            /\ ld_i_r[2] = {}

LEMMA SplitStep == ASSUME SplitInv, [HistNext]_allVars PROVE SplitInv'
<1> USE DEF SplitInv
<1>1. CASE Split
  <2>1. /\ access' \in Request \cup {None}
        /\ addr_r' \in [Ports -> Request \cup {None}]
    BY <1>1 DEF Split, Ask, Come, Leave
  <2>2. ld_o(2) = {}
    BY MaskBytes DEF ld_o, latch_valid
  <2>3. ld_i_r'[2] = {}
    BY <1>1, <2>2 DEF Split, Ask, Come, Leave, Latch
  <2> QED
    BY <2>1, <2>3
<1>2. CASE Compare
  BY <1>2 DEF Compare
<1>3. CASE UNCHANGED splitVars
  BY <1>3 DEF splitVars
<1> QED
  BY <1>1, <1>2, <1>3 DEF HistNext, allVars

\* A load is answered with exactly those of its bytes that are in the line it
\* starts in, two accesses match exactly when they share such a byte, and merged
\* requests have no byte of one another, whatever lines, lengths and ports there
\* are (LDSTSplitter, PartialAddrBitmap, DataMerger).
THEOREM MisalignedAlways == HistSpec => []MisalignedAccesses
<1>1. HistInit => SplitInv
  BY DEF HistInit, SplitInit, SplitInv
<1>2. SplitInv => MisalignedAccesses
  <2> SUFFICES ASSUME SplitInv PROVE MisalignedAccesses
    OBVIOUS
  <2>1. ASSUME o_valid
        PROVE  {x \in ld_data_o : x[1] < access.len} =
                   {<<x - access.addr, x>> : x \in held(access)}
    <3>1. access \in Request
      BY <2>1 DEF SplitInv, o_valid
    <3> QED
      BY <2>1, <3>1, SplitAnswers DEF SplitInv
  <2>2. ASSUME NEW i \in Active, NEW j \in Active
        PROVE  /\ is_match(addr_r[i], addr_r[j])
                    <=> held(addr_r[i]) \cap held(addr_r[j]) # {}
               /\ TwinMatch(addr_r[i], addr_r[j]) => is_match(addr_r[i], addr_r[j])
    <3>1. addr_r[i] \in Request /\ addr_r[j] \in Request
      BY DEF SplitInv, Active
    <3> QED
      BY <3>1, MatchIsOverlap, TwinIsMatch
  <2>3. \A h \in 1 .. 2 :
          LET out == Merge(addr_nomatch_o, h)
          IN  /\ \A x, y \in out : x[1] = y[1] => x = y
              /\ \A x \in out : \A y \in Row(x[2], h) : y \in out
    BY MergeKeeps DEF SplitInv
  <2> QED
    BY <2>1, <2>2, <2>3 DEF MisalignedAccesses, held
<1> QED
  BY <1>1, <1>2, SplitStep, PTL DEF HistSpec
=============================================================================
