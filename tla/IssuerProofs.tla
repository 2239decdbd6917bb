---------------------------- MODULE IssuerProofs ----------------------------
(***************************************************************************)
(* Theorems about Issuer, for every number of lanes, every address space,  *)
(* every set of instructions and of debugger inputs.                       *)
(***************************************************************************)
EXTENDS IssuerMC, WellFoundedInduction, TLAPS

-----------------------------------------------------------------------------
(* How each FSM may leave its state: the handshake that lets it.           *)

LEMMA FetchMoves ==
    ASSUME FetchStep
    PROVE  /\ fetch = "IDLE" => (fetch' # "IDLE" <=> fetch_pc_i_valid)
           /\ fetch # "IDLE" =>
                (fetch' = "IDLE" <=> fetch_insn_o_valid /\ fetch_insn_i_ready)
  BY DEF FetchStep, FetchIdle, FetchBusy, FetchInsn, FetchInsn2, FetchReady,
         fetch_insn_o_valid

LEMMA PredMoves ==
    ASSUME PredStep, insn \in Insn
    PROVE  /\ pred = "FETCH_PRED_IDLE" =>
                (pred' # "FETCH_PRED_IDLE" <=> pred_insn_i_valid)
           /\ pred # "FETCH_PRED_IDLE" =>
                (pred' = "FETCH_PRED_IDLE"
                    <=> pred_mask_o_valid /\ pred_mask_i_ready)
  BY DEF PredStep, PredIdle, PredStartInt, PredStartCr, PredStartAlways,
         PredIntDst, PredIntSrc, PredCrRead, PredShift, PredDone,
         pred_mask_o_valid, Insn

LEMMA ExecMoves ==
    ASSUME NEW wr \in CoreWrite, ExecStep(wr)
    PROVE  /\ exec = "INSN_START" => (exec' = "INSN_ACTIVE" <=> exec_insn_i_valid)
           /\ exec = "INSN_ACTIVE" =>
                (exec' # "INSN_ACTIVE" <=> exec_pc_o_valid /\ exec_pc_i_ready)
  BY DEF ExecStep, ExecIdle, ExecStart, ExecActive, exec_pc_o_valid

LEMMA IssueMoves ==
    ASSUME NEW wr \in CoreWrite, IssueStep(wr)
    PROVE  /\ issue # "INSN_WAIT" =>
                (issue' = "INSN_WAIT" <=> fetch_pc_i_valid /\ fetch_pc_o_ready)
           /\ issue = "INSN_WAIT" =>
                (issue' # "INSN_WAIT" <=> fetch_insn_o_valid)
           /\ issue # "MASK_WAIT" =>
                (issue' = "MASK_WAIT" <=> pred_insn_i_valid /\ pred_insn_o_ready)
           /\ issue = "MASK_WAIT" =>
                (issue' # "MASK_WAIT" <=> pred_mask_o_valid)
           /\ issue # "EXECUTE_WAIT" =>
                (issue' = "EXECUTE_WAIT" <=> exec_insn_i_valid /\ exec_insn_o_ready)
           /\ issue = "EXECUTE_WAIT" =>
                (issue' # "EXECUTE_WAIT" <=> exec_pc_i_ready /\ exec_pc_o_valid)
  BY DEF IssueStep, IssueFetch, IssueStopped, IssueInsnWait, IssueVlZero,
         IssueInsn, IssuePred, IssueMask, IssueScalar, IssueLoopEnd, IssueLane,
         IssueDecode, IssueExecute, IssueExecWait, IssueChanged, IssueRetire,
         IssueNextLane, fetch_pc_i_valid, pred_insn_i_valid, exec_insn_i_valid,
         exec_pc_i_ready, core_stopped_i
-----------------------------------------------------------------------------
(* The control states are always one of those the code declares.           *)

FsmTypeOK == /\ fetch \in FetchStates /\ pred \in PredStates
             /\ issue \in IssueStates /\ exec \in ExecStates
             /\ insn \in Insn

LEMMA FsmTypes ==
    ASSUME FsmTypeOK, Next
    PROVE  FsmTypeOK'
<1>1. PICK wr \in CoreWrite : /\ FetchStep /\ PredStep
                              /\ IssueStep(wr) /\ ExecStep(wr)
  BY DEF Next
<1>2. insn' \in Insn /\ fetch' \in FetchStates
  BY <1>1, InputAssumption
  DEF FsmTypeOK, FetchStep, FetchIdle, FetchBusy, FetchInsn, FetchInsn2,
      FetchReady, FetchHold, FetchStates
<1>3. pred' \in PredStates
  BY <1>1 DEF FsmTypeOK, PredStep, PredIdle, PredStartInt, PredStartCr,
      PredStartAlways, PredIntDst, PredIntSrc, PredCrRead, PredShift, PredDone,
      PredStates
<1>4. issue' \in IssueStates
  BY <1>1 DEF FsmTypeOK, IssueStep, IssueFetch, IssueStopped, IssueInsnWait,
      IssueVlZero, IssueInsn, IssuePred, IssueMask, IssueScalar, IssueLoopEnd,
      IssueLane, IssueDecode, IssueExecute, IssueExecWait, IssueChanged,
      IssueRetire, IssueNextLane, IssueStates
<1>5. exec' \in ExecStates
  BY <1>1 DEF FsmTypeOK, ExecStep, ExecIdle, ExecStart, ExecActive, ExecStates
<1>. QED  BY <1>2, <1>3, <1>4, <1>5 DEF FsmTypeOK

-----------------------------------------------------------------------------
(* The four FSMs take turns.                                               *)

LEMMA CoupledStep ==
    ASSUME FsmTypeOK, Coupled, Next
    PROVE  Coupled'
<1>1. PICK wr \in CoreWrite : /\ FetchStep /\ PredStep
                              /\ IssueStep(wr) /\ ExecStep(wr) /\ CoreStep(wr)
  BY DEF Next
<1>2. fetch' # "IDLE" <=> issue' = "INSN_WAIT"
  BY <1>1, FetchMoves, IssueMoves
  DEF Coupled, fetch_pc_i_valid, fetch_pc_o_ready, fetch_insn_o_valid,
      fetch_insn_i_ready
<1>3. pred' # "FETCH_PRED_IDLE" <=> issue' = "MASK_WAIT"
  BY <1>1, PredMoves, IssueMoves
  DEF Coupled, FsmTypeOK, pred_insn_i_valid, pred_insn_o_ready,
      pred_mask_o_valid, pred_mask_i_ready
<1>4. exec' = "INSN_ACTIVE" <=> issue' = "EXECUTE_WAIT"
  BY <1>1, ExecMoves, IssueMoves
  DEF Coupled, FsmTypeOK, ExecStates, exec_insn_i_valid, exec_insn_o_ready,
      exec_pc_o_valid, exec_pc_i_ready
<1>5. coreBusy' => exec' = "INSN_ACTIVE"
  <2>1. coreBusy' => coreBusy \/ (exec_insn_i_valid /\ exec_insn_o_ready)
    BY <1>1 DEF CoreStep
  <2>2. coreBusy => exec = "INSN_ACTIVE" /\ ~exec_pc_o_valid
    BY DEF Coupled, exec_pc_o_valid
  <2>. QED  BY <1>1, <2>1, <2>2, ExecMoves DEF exec_insn_o_ready
<1>. QED  BY <1>2, <1>3, <1>4, <1>5 DEF Coupled

\* Fetch, predicate fetch and execute each run exactly while the issue FSM
\* waits for them, in every run of the issuer, with any debugger.
THEOREM CoupledAlways == Spec => []Coupled
<1>1. Init => FsmTypeOK /\ Coupled
  BY DEF Init, FsmTypeOK, Coupled, FetchStates, PredStates, IssueStates,
         ExecStates, Insn, NoInsn
<1>2. FsmTypeOK /\ Coupled /\ [Next]_vars => FsmTypeOK' /\ Coupled'
  <2>. SUFFICES ASSUME FsmTypeOK, Coupled, [Next]_vars
                PROVE  FsmTypeOK' /\ Coupled'
    OBVIOUS
  <2>1. CASE Next  BY <2>1, FsmTypes, CoupledStep
  <2>2. CASE UNCHANGED vars
    BY <2>2 DEF vars, fsmVars, FsmTypeOK, Coupled
  <2>. QED  BY <2>1, <2>2
<1>. QED  BY <1>1, <1>2, PTL DEF Spec

-----------------------------------------------------------------------------
(* The arithmetic of lanes: what the priority encoder and the adders give. *)

\* The priority encoder returns the lowest set bit of a mask, or W for none.
LEMMA LeadingZerosIsLowest ==
    ASSUME NEW mask \in SUBSET Lane
    PROVE  /\ LeadingZeros(mask) \in 0 .. W
           /\ mask # {} => /\ LeadingZeros(mask) \in mask
                           /\ \A j \in mask : LeadingZeros(mask) <= j
<1>1. CASE mask = {}
  BY <1>1, WidthAssumption DEF LeadingZeros
<1>2. CASE mask # {}
  <2>1. mask \subseteq Nat
    BY DEF Lane
  <2>2. PICK i \in mask : \A j \in mask : ~ (<<j, i>> \in OpToRel(<, Nat))
    BY <1>2, <2>1, WFMin, NatLessThanWellFounded
  <2>3. \A j \in mask : i <= j
    <3>1. SUFFICES ASSUME NEW j \in mask, j < i  PROVE FALSE
      BY <2>1
    <3>2. i \in Nat /\ j \in Nat
      BY <2>1
    <3>3. <<j, i>> \in OpToRel(<, Nat)
      BY <3>1, <3>2, SMT DEF OpToRel
    <3>. QED  BY <3>3, <2>2
  <2>4. LeadingZeros(mask) \in mask /\ \A j \in mask : LeadingZeros(mask) <= j
    BY <1>2, <2>3 DEF LeadingZeros
  <2>5. LeadingZeros(mask) \in 0 .. W - 1
    BY <2>4 DEF Lane
  <2>. QED  BY <1>2, <2>4, <2>5, WidthAssumption
<1>. QED  BY <1>1, <1>2

LEMMA AddStepType ==
    ASSUME NEW s \in Step, NEW d \in 0 .. W
    PROVE  AddStep(s, d) \in Step
  BY WidthAssumption DEF AddStep, Step

LEMMA StepTypes ==
    ASSUME TypeOK
    PROVE  /\ skip_srcstep \in Step /\ skip_dststep \in Step
           /\ next_srcstep \in Step /\ next_dststep \in Step
<1>1. src_delta \in 0 .. W /\ dst_delta \in 0 .. W
  BY LeadingZerosIsLowest, WidthAssumption DEF TypeOK, src_delta, dst_delta
<1>2. curSv.srcstep \in Step /\ curSv.dststep \in Step
  BY DEF TypeOK, SvState
<1>3. 1 \in 0 .. W
  BY WidthAssumption
<1>. QED  BY <1>1, <1>2, <1>3, AddStepType
     DEF skip_srcstep, skip_dststep, next_srcstep, next_dststep

LEMMA StepUpdates ==
    ASSUME NEW sv \in SvState, NEW s \in Step, NEW d \in Step
    PROVE  SetSteps(sv, s, d) \in SvState /\ ZeroSteps(sv) \in SvState
<1>1. 0 \in Step
  BY WidthAssumption DEF Step
<1>2. sv = [vl |-> sv.vl, srcstep |-> sv.srcstep, dststep |-> sv.dststep]
      /\ sv.vl \in 0 .. W
  BY DEF SvState
<1>. QED  BY <1>1, <1>2 DEF SetSteps, ZeroSteps, SvState

LEMMA Constants ==
    /\ 0 \in PC /\ Sv0 \in SvState /\ 0 \in Step
    /\ None \notin PC /\ None \notin SvState
  BY WidthAssumption, NoneAssumption DEF PC, Sv0, SvState, Step

-----------------------------------------------------------------------------
(* Type correctness.                                                       *)

RegsOK == /\ regPc \in PC /\ regSv \in SvState
          /\ pc_rd \in PC \cup {None} /\ sv_rd \in SvState \cup {None}

\* What state_get returns is a PC and an SVSTATE.
LEMMA StateGetTypes ==
    ASSUME TypeOK
    PROVE  pc \in PC /\ svstate \in SvState
  BY Constants DEF TypeOK, pc, svstate, StateGet

\* Whoever writes the STATE regfile, it holds a PC and an SVSTATE.
LEMMA RegFileTypes ==
    ASSUME TypeOK, NEW wr \in CoreWrite,
           NEW wpc \in PC \cup {None}, NEW wsv \in SvState \cup {None},
           RegFile(wpc, wsv, wr)
    PROVE  RegsOK'
<1>1. wr.pc \in PC \cup {None} /\ wr.sv \in SvState \cup {None}
  BY InputAssumption DEF CoreWrite
<1>2. regPc' \in PC /\ regSv' \in SvState
  BY <1>1, Constants DEF RegFile, Registers, Latch, TypeOK
<1>. QED  BY <1>2, Constants DEF RegFile, RegsOK, StateRead

LEMMA DmiTypes ==
    ASSUME DbgTypeOK, NEW t \in BOOLEAN, DmiClock(t)
    PROVE  DbgTypeOK'
<1>1. CASE DmiOther(t)
  BY <1>1 DEF DbgTypeOK, DmiOther, CtrlWrite
<1>2. CASE DmiWrite(t)
  BY <1>2 DEF DbgTypeOK, DmiWrite, CtrlWrite
<1>. QED  BY <1>1, <1>2 DEF DmiClock

LEMMA CoreTypes ==
    ASSUME TypeOK, NEW wr \in CoreWrite, CoreStep(wr)
    PROVE  coreBusy' \in BOOLEAN /\ core_terminate_o' \in BOOLEAN
  BY DEF TypeOK, CoreStep, core_rst_o, DbgTypeOK

\* What the fetch FSM writes: cur_state.pc, nia, the instruction.
LEMMA FetchTypes ==
    ASSUME TypeOK, FetchStep
    PROVE  /\ fetch' \in FetchStates /\ curPc' \in PC /\ nia' \in PC
           /\ insn' \in Insn /\ is_svp64_mode' \in BOOLEAN /\ dec_svp64' \in BOOLEAN
<1>1. pc \in PC
  BY StateGetTypes
<1>2. \A n : \A p \in PC : (p + InsnSize(n)) % NPC \in PC
  BY WidthAssumption DEF PC, InsnSize
<1>3. CASE FetchIdle
  BY <1>1, <1>3, Constants DEF TypeOK, FetchIdle, FetchHold, FetchStates
<1>4. CASE FetchBusy
  BY <1>4, Constants DEF TypeOK, FetchBusy, FetchHold
<1>5. CASE FetchInsn
  <2>1. insn' \in Insn
    BY <1>5, InputAssumption DEF FetchInsn
  <2>2. insn'.prefixed \in BOOLEAN
    BY <2>1 DEF Insn
  <2>. QED  BY <1>2, <1>5, <2>1, <2>2, Constants DEF TypeOK, FetchInsn, FetchStates
<1>6. CASE FetchInsn2
  BY <1>6, Constants DEF TypeOK, FetchInsn2, FetchHold, FetchStates
<1>7. CASE FetchReady
  BY <1>7, Constants DEF TypeOK, FetchReady, FetchHold, FetchStates
<1>. QED  BY <1>3, <1>4, <1>5, <1>6, <1>7 DEF FetchStep

\* What the predicate FSM writes: the masks and the CR loop.
LEMMA PredTypes ==
    ASSUME TypeOK, PredStep
    PROVE  /\ pred' \in PredStates
           /\ srcmask' \subseteq Lane /\ dstmask' \subseteq Lane
           /\ new_srcmask' \subseteq Lane /\ new_dstmask' \subseteq Lane
           /\ cr_idx' \in Step /\ cr_read' \in BOOLEAN
<1>1. \A m, k : ShiftRight(m, k) \subseteq Lane
  BY DEF ShiftRight
<1>2. MaskHold => srcmask' \subseteq Lane /\ dstmask' \subseteq Lane
  BY <1>1 DEF MaskHold, TypeOK
<1>3. (cr_idx + 1) % (2 * W) \in Step /\ 0 \in Step
  BY WidthAssumption DEF TypeOK, Step
<1>4. \A m : m \subseteq Lane => \A n \in CrBit(m) : n \subseteq Lane
  BY DEF CrBit
<1>5. CASE PredIdle
  BY <1>2, <1>5 DEF TypeOK, PredIdle
<1>6. CASE PredStartInt
  BY <1>2, <1>6 DEF TypeOK, PredStartInt, PredStates
<1>7. CASE PredStartCr
  BY <1>2, <1>7 DEF TypeOK, PredStartCr, PredStates
<1>8. CASE PredStartAlways
  BY <1>8 DEF TypeOK, PredStartAlways, PredStates
<1>9. CASE PredIntDst
  BY <1>2, <1>9 DEF TypeOK, PredIntDst, PredStates
<1>10. CASE PredIntSrc
  BY <1>2, <1>10 DEF TypeOK, PredIntSrc, PredStates
<1>11. CASE PredCrRead
  BY <1>2, <1>3, <1>4, <1>11 DEF TypeOK, PredCrRead, PredStates
<1>12. CASE PredShift
  BY <1>1, <1>12 DEF TypeOK, PredShift, PredStates
<1>13. CASE PredDone
  BY <1>2, <1>13 DEF TypeOK, PredDone, PredStates
<1>. QED  BY <1>5, <1>6, <1>7, <1>8, <1>9, <1>10, <1>11, <1>12, <1>13 DEF PredStep

\* What the issue FSM writes: PC, SVSTATE and cur_state.svstate.
LEMMA IssueTypes ==
    ASSUME TypeOK, NEW wr \in CoreWrite, IssueStep(wr)
    PROVE  /\ issue' \in IssueStates /\ curSv' \in SvState
           /\ RegsOK'
<1>1. \A wpc \in PC \cup {None}, wsv \in SvState \cup {None} : RegFile(wpc, wsv, wr) => RegsOK'
  BY RegFileTypes
<1>2. nia \in PC /\ curSv \in SvState /\ svstate \in SvState
  BY StateGetTypes DEF TypeOK
<1>3. IssueHold(wr) => RegsOK' /\ curSv' \in SvState
  BY <1>1, <1>2, Constants DEF IssueHold
<1>4. \A wpc \in PC \cup {None}, sv \in SvState :
        UpdateSvstate(wpc, sv, wr) => RegsOK' /\ curSv' \in SvState
  BY <1>1 DEF UpdateSvstate
<1>5. /\ ZeroSteps(curSv) \in SvState
      /\ SetSteps(curSv, skip_srcstep, skip_dststep) \in SvState
      /\ SetSteps(curSv, next_srcstep, next_dststep) \in SvState
  BY <1>2, Constants, StepTypes, StepUpdates
<1>. SUFFICES issue' \in IssueStates /\ curSv' \in SvState /\ RegsOK'
  OBVIOUS
<1>6. CASE IssueFetch(wr)
  BY <1>1, <1>2, <1>6 DEF TypeOK, IssueFetch, IssueStates
<1>7. CASE IssueStopped(wr)
  BY <1>1, <1>2, <1>7, Constants DEF TypeOK, IssueStopped
<1>8. CASE IssueVlZero(wr)
  BY <1>1, <1>2, <1>8, Constants DEF IssueVlZero, IssueStates
<1>9. CASE IssueLoopEnd(wr)
  BY <1>2, <1>4, <1>5, <1>9 DEF IssueLoopEnd, IssueStates
<1>10. CASE IssueLane(wr)
  BY <1>4, <1>5, <1>10 DEF IssueLane, IssueStates
<1>11. CASE IssueRetire(wr)
  BY <1>1, <1>2, <1>4, <1>5, <1>11 DEF IssueRetire, IssueStates
<1>12. CASE IssueNextLane(wr)
  BY <1>4, <1>5, <1>12 DEF IssueNextLane, IssueStates
<1>13. CASE \/ IssueInsnWait(wr) \/ IssueInsn(wr) \/ IssuePred(wr) \/ IssueMask(wr)
            \/ IssueScalar(wr) \/ IssueDecode(wr) \/ IssueExecute(wr)
            \/ IssueExecWait(wr) \/ IssueChanged(wr)
  BY <1>3, <1>13
  DEF TypeOK, IssueStates, IssueInsnWait, IssueInsn, IssuePred, IssueMask,
      IssueScalar, IssueDecode, IssueExecute, IssueExecWait, IssueChanged
<1>. QED  BY <1>6, <1>7, <1>8, <1>9, <1>10, <1>11, <1>12, <1>13 DEF IssueStep

LEMMA TypeInit == Init => TypeOK
<1>1. NoInsn \in Insn
  BY DEF NoInsn, Insn
<1>2. Init => DbgTypeOK
  BY DEF Init, DbgInit, DbgTypeOK
<1>. QED  BY <1>1, <1>2, Constants
     DEF Init, TypeOK, FetchStates, PredStates, IssueStates, ExecStates

LEMMA TypeStep ==
    ASSUME TypeOK, Next
    PROVE  TypeOK'
<1>1. PICK wr \in CoreWrite : /\ DmiClock(core_terminate_o) /\ CoreStep(wr)
                              /\ FetchStep /\ PredStep
                              /\ IssueStep(wr) /\ ExecStep(wr)
  BY DEF Next
<1>2. DbgTypeOK'
  BY <1>1, DmiTypes DEF TypeOK
<1>3. exec' \in ExecStates /\ pc_changed' \in BOOLEAN /\ sv_changed' \in BOOLEAN
  BY <1>1 DEF TypeOK, ExecStep, ExecIdle, ExecStart, ExecActive, ExecStates
<1>4. pc_i' \in PC \cup {None} /\ svstate_i' \in SvState \cup {None}
  BY InputAssumption DEF Next, Inputs
<1>. QED  BY <1>1, <1>2, <1>3, <1>4, CoreTypes, FetchTypes, PredTypes, IssueTypes
     DEF TypeOK, RegsOK

\* Every state a run reaches is one the registers can hold: no step or delta
\* leaves its width, no mask its lanes (the 7-bit adders of PRED_SKIP).
THEOREM TypeCorrect == Spec => []TypeOK
<1>1. TypeOK /\ [Next]_vars => TypeOK'
  <2>1. TypeOK /\ UNCHANGED vars => TypeOK'
    BY DEF vars, fsmVars, maskVars, dbgVars, TypeOK, DbgTypeOK
  <2>. QED  BY <2>1, TypeStep
<1>. QED  BY <1>1, TypeInit, PTL DEF Spec

-----------------------------------------------------------------------------
(* The debugger.  All of it under the rule that a debugger resets the core *)
(* and changes its overrides only when the core has stopped.               *)

\* Where a reset and an OP_ATTN can find the issuer.  While OP_ATTN is in
\* flight and the core has not yet said so, the issue FSM is held by a stop;
\* once it has, the stop is standing or the FSM is still in EXECUTE_WAIT.
DebugInv ==
    /\ do_reset => dmi_req_i_1 /\ issue \in {"ISSUE_START", "EXECUTE_WAIT"}
    /\ core_terminate_o /\ ~stopping => issue = "EXECUTE_WAIT"
    /\ exec = "INSN_ACTIVE" /\ insn.kind = "attn" /\ ~core_terminate_o
         => core_stop_o
    /\ do_reset /\ exec = "INSN_ACTIVE" /\ insn.kind = "attn" => core_terminate_o

\* What state_get is about to return is the override or the register, but in
\* the clocks in which the override may change, when nobody looks.
Fresh(rd, override, reg, zero) ==
    IF override # None THEN rd = None ELSE rd = reg \/ (rd = None /\ reg = zero)
calm == (quiet /\ ~core_rst_o) \/ issue = "INSN_WAIT"
ReadInv == \/ calm
           \/ /\ Fresh(pc_rd, pc_i, regPc, 0)
              /\ Fresh(sv_rd, svstate_i, regSv, Sv0)

\* The lane that is on its way to the core is below VL.
LaneInVector ==
    issue \in {"DECODE_SV", "INSN_EXECUTE"} /\ is_svp64_mode =>
        curSv.srcstep < curSv.vl /\ curSv.dststep < curSv.vl

IssuerInv == TypeOK /\ Coupled /\ DebugInv /\ ReadInv /\ LaneInVector

\* A stopped core stays at its checkpoint.
LEMMA StoppedStays ==
    ASSUME NEW wr \in CoreWrite, IssueStep(wr), core_stopped_i
    PROVE  IssueStopped(wr)
  BY DEF IssueStep, IssueFetch, IssueInsnWait, IssueVlZero, IssueInsn, IssuePred,
         IssueMask, IssueScalar, IssueLoopEnd, IssueLane, IssueDecode,
         IssueExecute, IssueExecWait, IssueChanged, IssueRetire, IssueNextLane,
         fetch_pc_i_valid, exec_pc_i_ready, core_stopped_i

\* The instruction and its prefix flag change only in the fetch FSM.
LEMMA InsnHeld ==
    ASSUME TypeOK, Coupled, FetchStep, issue # "INSN_WAIT"
    PROVE  insn' = insn /\ is_svp64_mode' = is_svp64_mode
  BY DEF Coupled, FetchStep, FetchIdle, FetchBusy, FetchInsn, FetchInsn2,
         FetchReady, FetchHold

\* A pulse lasts one clock: a request must fall before it can rise again.
LEMMA DmiPulse ==
    ASSUME NEW t \in BOOLEAN, DmiClock(t)
    PROVE  /\ do_reset' => dmi_req_i_1'
           /\ dmi_req_i_1 => ~do_reset' /\ ~do_step'
           /\ t => stopping'
<1>1. CASE DmiWrite(t)
  BY <1>1 DEF DmiWrite, CtrlWrite
<1>2. CASE DmiOther(t)
  BY <1>2 DEF DmiOther, CtrlWrite
<1>. QED  BY <1>1, <1>2 DEF DmiClock

LEMMA DebugStep ==
    ASSUME TypeOK, Coupled, DebugInv, Next, WaitsForStop
    PROVE  DebugInv'
<1>1. PICK wr \in CoreWrite : /\ DmiClock(core_terminate_o) /\ CoreStep(wr)
                              /\ FetchStep /\ IssueStep(wr) /\ ExecStep(wr)
                              /\ Inputs
  BY DEF Next
<1>2. do_reset' => quiet
  BY <1>1, WaitsForStop DEF Inputs
<1>3. core_terminate_o \in BOOLEAN
  BY DEF TypeOK
<1>4. /\ do_reset' => dmi_req_i_1' /\ ~do_reset
      /\ do_reset => ~do_step' /\ ~do_reset'
      /\ core_terminate_o => stopping'
  BY <1>1, <1>3, DmiPulse DEF DebugInv
<1>5. do_reset' => issue' \in {"ISSUE_START", "EXECUTE_WAIT"}
  BY <1>1, <1>2, StoppedStays DEF quiet, IssueStopped, core_stopped_i
<1>6. issue # "INSN_WAIT" => insn' = insn
  BY <1>1, InsnHeld
\* An active OP_ATTN has told the core, unless a reset is clearing it.
<1>7. exec' = "INSN_ACTIVE" /\ insn'.kind = "attn" => core_terminate_o' \/ do_reset
  <2>. SUFFICES ASSUME exec' = "INSN_ACTIVE", insn'.kind = "attn", ~do_reset
                PROVE  core_terminate_o'
    OBVIOUS
  <2>1. exec = "INSN_ACTIVE" \/ exec_insn_i_valid
    BY <1>1 DEF TypeOK, ExecStates, ExecStep, ExecIdle, ExecStart, ExecActive
  <2>2. issue # "INSN_WAIT"
    BY <2>1 DEF Coupled, exec_insn_i_valid
  <2>. QED  BY <1>1, <1>6, <2>1, <2>2 DEF CoreStep, core_rst_o
\* The reset that clears it finds the stop standing.
<1>8. exec' = "INSN_ACTIVE" /\ insn'.kind = "attn" /\ do_reset => core_stop_o'
  <2>. SUFFICES ASSUME exec' = "INSN_ACTIVE", insn'.kind = "attn", do_reset
                PROVE  core_stop_o'
    OBVIOUS
  <2>1. issue \in {"ISSUE_START", "EXECUTE_WAIT"}
    BY DEF DebugInv
  <2>2. exec = "INSN_ACTIVE"
    BY <1>1, <2>1, ExecMoves DEF TypeOK, ExecStates, exec_insn_i_valid
  <2>3. core_terminate_o
    BY <1>6, <2>1, <2>2 DEF DebugInv
  <2>. QED  BY <1>4, <2>3 DEF core_stop_o
\* An OP_ATTN the core does not stop for yet holds the FSM in EXECUTE_WAIT.
<1>9. core_terminate_o' /\ ~stopping' => issue' = "EXECUTE_WAIT"
  <2>. SUFFICES ASSUME core_terminate_o', ~stopping'
                PROVE  issue' = "EXECUTE_WAIT"
    OBVIOUS
  <2>1. ~core_terminate_o
    BY <1>4
  <2>2. insn.kind = "attn" /\ (exec = "INSN_ACTIVE" \/ exec_insn_i_valid)
    BY <1>1, <2>1 DEF CoreStep
  <2>3. CASE exec = "INSN_ACTIVE"
    <3>1. core_stop_o /\ issue = "EXECUTE_WAIT"
      BY <2>1, <2>2, <2>3 DEF DebugInv, Coupled
    <3>. QED  BY <1>1, <3>1, StoppedStays DEF core_stopped_i, halted, IssueStopped
  <2>4. CASE exec # "INSN_ACTIVE" /\ exec_insn_i_valid
    BY <1>1, <2>4, IssueMoves
    DEF TypeOK, ExecStates, exec_insn_i_valid, exec_insn_o_ready
  <2>. QED  BY <2>2, <2>3, <2>4
<1>. QED  BY <1>4, <1>5, <1>7, <1>8, <1>9 DEF DebugInv

LEMMA ReadStep ==
    ASSUME TypeOK, DebugInv, ReadInv, Next, WaitsForStop
    PROVE  ReadInv'
<1>1. PICK wr \in CoreWrite : IssueStep(wr) /\ Inputs
  BY DEF Next
<1>2. PICK wpc, wsv : RegFile(wpc, wsv, wr)
  BY <1>1
  DEF IssueStep, IssueFetch, IssueStopped, IssueInsnWait, IssueVlZero, IssueInsn,
      IssuePred, IssueMask, IssueScalar, IssueLoopEnd, IssueLane, IssueDecode,
      IssueExecute, IssueExecWait, IssueChanged, IssueRetire, IssueNextLane,
      IssueHold, UpdateSvstate
<1>3. calm' \/ (pc_i' = pc_i /\ svstate_i' = svstate_i)
  BY <1>1, WaitsForStop DEF Inputs, calm
<1>4. CASE ~core_rst_o
  BY <1>2, <1>3, <1>4 DEF RegFile, StateRead, ReadInv, Fresh
\* The registers are zeroed; a port that had an override still has it.
<1>5. CASE core_rst_o
  <2>1. ~calm
    BY <1>5 DEF calm, DebugInv, core_rst_o
  <2>2. regPc' = 0 /\ regSv' = Sv0
    BY <1>2, <1>5 DEF RegFile, Registers
  <2>. QED  BY <1>2, <1>3, <1>5, <2>1, <2>2
       DEF RegFile, StateRead, ReadInv, Fresh
<1>. QED  BY <1>4, <1>5

\* Between PRED_SKIP and the core no lane changes: not the flag, since fetch
\* rests, and not the steps, since a reset finds the FSM at a checkpoint.
LEMMA LaneStep ==
    ASSUME TypeOK, Coupled, DebugInv, LaneInVector, Next
    PROVE  LaneInVector'
<1>1. PICK wr \in CoreWrite : FetchStep /\ IssueStep(wr)
  BY DEF Next
<1>. SUFFICES ASSUME issue' \in {"DECODE_SV", "INSN_EXECUTE"}, is_svp64_mode'
              PROVE  curSv'.srcstep < curSv'.vl /\ curSv'.dststep < curSv'.vl
  BY DEF LaneInVector
<1>2. IssueScalar(wr) \/ IssueLane(wr) \/ IssueDecode(wr) \/ IssueExecute(wr)
  BY <1>1
  DEF IssueStep, IssueFetch, IssueStopped, IssueInsnWait, IssueVlZero, IssueInsn,
      IssuePred, IssueMask, IssueScalar, IssueLoopEnd, IssueLane, IssueDecode,
      IssueExecute, IssueExecWait, IssueChanged, IssueRetire, IssueNextLane,
      fetch_pc_i_valid, exec_pc_i_ready, core_stopped_i
<1>3. issue \in {"PRED_SKIP", "DECODE_SV", "INSN_EXECUTE"}
  BY <1>2 DEF IssueScalar, IssueLane, IssueDecode, IssueExecute
<1>4. is_svp64_mode' = is_svp64_mode
  BY <1>1, <1>3, InsnHeld
<1>5. CASE IssueScalar(wr)
  BY <1>4, <1>5 DEF IssueScalar
<1>6. CASE IssueLane(wr)
  <2>1. curSv' = [curSv EXCEPT !.srcstep = skip_srcstep, !.dststep = skip_dststep]
    BY <1>6 DEF IssueLane, UpdateSvstate, SetSteps
  <2>2. curSv'.vl = curSv.vl /\ curSv'.srcstep = skip_srcstep
        /\ curSv'.dststep = skip_dststep
    BY <2>1 DEF TypeOK, SvState
  <2>3. curSv.vl \in Nat /\ skip_srcstep \in Nat /\ skip_dststep \in Nat
    BY StepTypes, WidthAssumption DEF TypeOK, SvState, Step
  <2>. QED  BY <1>6, <2>2, <2>3 DEF IssueLane, PastEnd
<1>7. CASE IssueDecode(wr) \/ IssueExecute(wr)
  <2>1. ~core_rst_o
    BY <1>3 DEF DebugInv, core_rst_o
  <2>2. curSv' = curSv /\ issue \in {"DECODE_SV", "INSN_EXECUTE"}
    BY <1>7, <2>1 DEF IssueDecode, IssueExecute, IssueHold
  <2>. QED  BY <1>4, <2>2 DEF LaneInVector
<1>. QED  BY <1>2, <1>5, <1>6, <1>7

\* The inductive invariant the debugger theorems rest on.
THEOREM Invariance ==
    ASSUME WaitsForStop
    PROVE  Spec => []IssuerInv
<1>1. Init => IssuerInv
  <2>1. Init => Coupled /\ LaneInVector
    BY DEF Init, Coupled, LaneInVector
  <2>2. Init => DebugInv /\ ReadInv
    BY DEF Init, DbgInit, DebugInv, ReadInv, Fresh
  <2>. QED  BY <2>1, <2>2, TypeInit DEF IssuerInv
<1>2. IssuerInv /\ [Next]_vars => IssuerInv'
  <2>. SUFFICES ASSUME IssuerInv, [Next]_vars
                PROVE  IssuerInv'
    OBVIOUS
  <2>1. CASE Next
    <3>1. Coupled'
      BY <2>1, CoupledStep DEF IssuerInv, TypeOK, FsmTypeOK
    <3>. QED  BY <2>1, <3>1, TypeStep, DebugStep, ReadStep, LaneStep DEF IssuerInv
  <2>2. CASE UNCHANGED vars
    <3>1. TypeOK' /\ Coupled' /\ LaneInVector'
      BY <2>2 DEF IssuerInv, vars, fsmVars, maskVars, dbgVars, TypeOK, DbgTypeOK,
                  Coupled, LaneInVector
    <3>2. DebugInv' /\ ReadInv'
      BY <2>2 DEF IssuerInv, vars, fsmVars, dbgVars, DebugInv, ReadInv, Fresh, calm, quiet,
                  core_stopped_i, halted, core_stop_o, core_rst_o
    <3>. QED  BY <3>1, <3>2 DEF IssuerInv
  <2>. QED  BY <2>1, <2>2
<1>. QED  BY <1>1, <1>2, PTL DEF Spec

\* After OP_ATTN nothing is fetched but in a clock the debugger stepped.
THEOREM AttnStopsAlways ==
    ASSUME WaitsForStop
    PROVE  Spec => []AttnStops
<1>1. IssuerInv => AttnStops
  BY DEF IssuerInv, TypeOK, DbgTypeOK, DebugInv, AttnStops, fetch_pc_i_valid,
         halted, core_stop_o
<1>. QED  BY <1>1, Invariance, PTL

\* Every fetch starts from the override, or from the STATE regfile.
THEOREM FetchFromStateAlways ==
    ASSUME WaitsForStop
    PROVE  Spec => FetchFromState
<1>. DEFINE Fetches == fetch = "IDLE" /\ fetch' # "IDLE" =>
              /\ curPc' = IF pc_i # None THEN pc_i ELSE regPc
              /\ curSv' = IF svstate_i # None THEN svstate_i ELSE regSv
<1>1. IssuerInv /\ [Next]_vars => [Fetches]_vars
  <2>. SUFFICES ASSUME IssuerInv, Next, fetch = "IDLE", fetch' # "IDLE"
                PROVE  Fetches
    BY DEF vars, fsmVars
  <2>1. PICK wr \in CoreWrite : FetchStep /\ IssueStep(wr)
    BY DEF Next
  <2>2. FetchIdle /\ issue = "ISSUE_START" /\ ~halted
    BY <2>1, FetchMoves
    DEF FetchStep, FetchBusy, FetchInsn, FetchInsn2, FetchReady, fetch_pc_i_valid
  <2>3. IssueFetch(wr)
    BY <2>1, <2>2
    DEF IssueStep, IssueStopped, IssueInsnWait, IssueVlZero, IssueInsn, IssuePred,
        IssueMask, IssueScalar, IssueLoopEnd, IssueLane, IssueDecode,
        IssueExecute, IssueExecWait, IssueChanged, IssueRetire, IssueNextLane,
        exec_pc_i_ready, core_stopped_i
  <2>4. curPc' = pc /\ curSv' = svstate
    BY <2>2, <2>3
    DEF FetchIdle, IssueFetch, fetch_pc_i_valid, fetch_pc_o_ready
  <2>5. Fresh(pc_rd, pc_i, regPc, 0) /\ Fresh(sv_rd, svstate_i, regSv, Sv0)
    BY <2>2 DEF IssuerInv, ReadInv, calm, quiet, core_stopped_i
  <2>6. regPc # None /\ regSv # None
    BY Constants DEF IssuerInv, TypeOK
  <2>. QED  BY <2>2, <2>4, <2>5, <2>6 DEF pc, svstate, StateGet, Fresh, halted
<1>. QED  BY <1>1, Invariance, PTL DEF Spec, FetchFromState

\* A core parked by a stop is frozen but for the debugger's own writes.
THEOREM ParkedFrozenAlways == Spec => ParkedFrozen
<1>. DEFINE Frozen == issue = "ISSUE_START" /\ core_stop_o /\ ~core_rst_o =>
              /\ regPc' = IF pc_i # None THEN pc_i ELSE regPc
              /\ regSv' = IF svstate_i # None THEN svstate_i ELSE regSv
              /\ fetch' = fetch /\ exec' = exec /\ ~coreBusy'
<1>1. TypeOK /\ Coupled /\ [Next]_vars => [Frozen]_vars
  <2>. SUFFICES ASSUME TypeOK, Coupled, Next,
                       issue = "ISSUE_START", core_stop_o, ~core_rst_o
                PROVE  Frozen
    OBVIOUS
  <2>1. PICK wr \in CoreWrite :
           FetchStep /\ IssueStep(wr) /\ ExecStep(wr) /\ CoreStep(wr)
    BY DEF Next
  <2>2. fetch = "IDLE" /\ exec = "INSN_START" /\ ~coreBusy
    BY DEF Coupled, TypeOK, ExecStates
  <2>3. fetch' = fetch /\ exec' = exec
    BY <2>1, <2>2, FetchMoves, ExecMoves
    DEF fetch_pc_i_valid, halted, exec_insn_i_valid, TypeOK, ExecStates,
        ExecStep, ExecIdle, ExecStart, ExecActive
  <2>4. ~coreBusy' /\ wr.pc = None /\ wr.sv = None
    BY <2>1, <2>2 DEF CoreStep, exec_insn_i_valid
  <2>5. RegFile(pc_i, svstate_i, wr)
    BY <2>1, StoppedStays DEF core_stopped_i, halted, IssueStopped
  <2>. QED  BY <2>3, <2>4, <2>5 DEF RegFile, Registers, Latch
<1>. QED  BY <1>1, TypeCorrect, CoupledAlways, PTL DEF Spec, ParkedFrozen

-----------------------------------------------------------------------------
(* Lanes: skipping the zeros of a shifted mask finds the lane SvIsa names. *)

\* The lanes that are left in a mask once it has been used up to a step;
\* PredStartAlways does not shift what it starts with.
Left(mask, fetched, step) ==
    IF insn.predmode = "ALWAYS" THEN \E n \in 0 .. step : mask = ShiftRight(Lane, n)
    ELSE mask = ShiftRight(fetched, step)

\* A mask shifted twice is shifted by the sum.
LEMMA ShiftTwice ==
    ASSUME NEW mask \in SUBSET Lane, NEW a \in Nat, NEW b \in Nat
    PROVE  ShiftRight(ShiftRight(mask, a), b) = ShiftRight(mask, a + b)
<1>1. ASSUME NEW i \in Lane
      PROVE  i \in ShiftRight(ShiftRight(mask, a), b) <=> i \in ShiftRight(mask, a + b)
  <2>1. i \in Nat /\ (i + b) + a = i + (a + b)
    BY DEF Lane
  <2>2. i + (a + b) \in mask => i + b \in Lane
    BY <2>1, WidthAssumption DEF Lane
  <2>. QED  BY <2>1, <2>2 DEF ShiftRight
<1>. QED  BY <1>1 DEF ShiftRight

\* The first selected lane at or after a step is the least one.
LEMMA FirstIsLeast ==
    ASSUME NEW lanes \in SUBSET Nat, NEW step \in Nat, NEW k \in lanes, k >= step,
           \A j \in lanes : j >= step => k <= j
    PROVE  ForLoop!First(lanes, step) = k
<1>1. \A i \in lanes : i >= step /\ (\A j \in lanes : j >= step => i <= j) => i = k
  OBVIOUS
<1>. QED  BY <1>1 DEF ForLoop!First

\* Of a shifted mask, what is fetched, a step and what is added to it: the sum
\* is the lane SvIsa names, and the mask can be shifted past it.
Finds(z, mask, fetched, step, vl, d) ==
    /\ d \in 0 .. W /\ AddStep(step, d) = step + d
    /\ step + d < vl <=> \E i \in Selected(z, fetched) : i >= step /\ i < vl
    /\ step + d < vl => ForLoop!First(Selected(z, fetched), step) = step + d
    /\ ~z => Left(ShiftRight(mask, d + 1), fetched, step + d + 1)

\* What PRED_SKIP adds to a step finds the lane, source and destination alike.
LEMMA SkipFindsLane ==
    ASSUME NEW z \in BOOLEAN, NEW mask \in SUBSET Lane, NEW fetched \in SUBSET Lane,
           NEW step \in Lane, NEW vl \in Lane, NEW d,
           d = IF z THEN 0 ELSE LeadingZeros(mask),
           ~z => Left(mask, fetched, step)
    PROVE  Finds(z, mask, fetched, step, vl, d)
<1>. USE DEF Finds
<1>1. d \in 0 .. W
  BY LeadingZerosIsLowest, WidthAssumption
<1>2. AddStep(step, d) = step + d
  BY <1>1, WidthAssumption DEF AddStep, Lane
<1>3. step \in Nat /\ vl \in Nat /\ d \in Nat
  BY <1>1, WidthAssumption DEF Lane
<1>4. CASE z
  <2>1. Selected(z, fetched) = Step /\ d = 0 /\ step \in Step /\ Step \subseteq Nat
    BY <1>4, WidthAssumption DEF Selected, Step, Lane
  <2>2. ForLoop!First(Step, step) = step
    BY <2>1, <1>3, FirstIsLeast
  <2>3. step + d = step
    BY <2>1, <1>3
  <2>4. step < vl <=> \E i \in Step : i >= step /\ i < vl
    BY <2>1, <1>3
  <2>. QED  BY <1>1, <1>2, <1>4, <2>1, <2>2, <2>3, <2>4
<1>5. CASE ~z /\ insn.predmode = "ALWAYS"
  <2>1. PICK n \in 0 .. step : mask = ShiftRight(Lane, n)
    BY <1>5 DEF Left
  <2>2. 0 \in mask
    BY <2>1, WidthAssumption DEF ShiftRight, Lane
  <2>3. d = 0
    BY <1>5, <1>1, <2>2, LeadingZerosIsLowest
  <2>4. Selected(z, fetched) = Lane /\ Lane \subseteq Nat
    BY <1>5 DEF Selected, Lane
  <2>5. ForLoop!First(Lane, step) = step
    BY <2>4, <1>3, FirstIsLeast
  <2>6. ShiftRight(mask, 1) = ShiftRight(Lane, n + 1) /\ n + 1 \in 0 .. step + 1
    BY <2>1, <1>3, ShiftTwice
  <2>7. Left(ShiftRight(mask, d + 1), fetched, step + d + 1)
    BY <1>3, <1>5, <2>3, <2>6 DEF Left
  <2>8. step + d = step
    BY <2>3, <1>3
  <2>9. step < vl <=> \E i \in Lane : i >= step /\ i < vl
    BY <2>4, <1>3
  <2>. QED  BY <1>1, <1>2, <2>4, <2>5, <2>7, <2>8, <2>9
<1>6. CASE ~z /\ insn.predmode # "ALWAYS"
  <2>1. mask = ShiftRight(fetched, step) /\ d = LeadingZeros(mask)
        /\ Selected(z, fetched) = fetched
    BY <1>6 DEF Left, Selected
  <2>2. fetched \subseteq Nat /\ mask \subseteq Nat
    BY DEF Lane
  <2>3. \A i \in Nat : i \in mask <=> i + step \in fetched
    BY <2>1, <1>3, WidthAssumption DEF ShiftRight, Lane
  <2>4. Left(ShiftRight(mask, d + 1), fetched, step + d + 1)
    <3>1. ShiftRight(mask, d + 1) = ShiftRight(fetched, step + (d + 1))
      BY <2>1, <1>3, ShiftTwice
    <3>. QED  BY <3>1, <1>3, <1>6 DEF Left
  <2>5. CASE mask = {}
    <3>1. d = W /\ ~(step + d < vl)
      BY <2>1, <2>5, <1>3, WidthAssumption DEF LeadingZeros, Lane
    <3>2. \A i \in fetched : ~(i >= step)
      <4>. SUFFICES ASSUME NEW i \in fetched, i >= step PROVE FALSE
        OBVIOUS
      <4>1. i - step \in Nat /\ (i - step) + step = i
        BY <2>2, <1>3
      <4>. QED  BY <4>1, <2>3, <2>5
    <3>. QED  BY <3>1, <3>2, <1>1, <1>2, <2>1, <2>4
  <2>6. CASE mask # {}
    <3>1. d \in mask /\ \A j \in mask : d <= j
      BY <2>1, <2>6, LeadingZerosIsLowest
    <3>2. step + d \in fetched
      BY <3>1, <2>3, <1>3
    <3>3. \A i \in fetched : i >= step => step + d <= i
      <4>. SUFFICES ASSUME NEW i \in fetched, i >= step PROVE step + d <= i
        OBVIOUS
      <4>1. i - step \in Nat /\ (i - step) + step = i /\ i \in Nat
        BY <2>2, <1>3
      <4>2. d <= i - step
        BY <4>1, <2>3, <3>1
      <4>. QED  BY <4>1, <4>2, <1>3
    <3>4. ForLoop!First(fetched, step) = step + d
      BY <3>2, <3>3, <2>2, <1>3, FirstIsLeast
    <3>5. step + d < vl <=> \E i \in fetched : i >= step /\ i < vl
      BY <3>2, <3>3, <2>2, <1>3
    <3>. QED  BY <3>4, <3>5, <1>1, <1>2, <2>1, <2>4
  <2>. QED  BY <2>5, <2>6
<1>. QED  BY <1>4, <1>5, <1>6

-----------------------------------------------------------------------------
(* What holds until a reset, beyond IssuerInv, of what the issue FSM has   *)
(* copied and of the overrides.                                            *)

\* VL and both steps are lanes.
Within(sv) == sv.vl \in Lane /\ sv.srcstep \in Lane /\ sv.dststep \in Lane

changed == pc_changed \/ sv_changed

\* An override has been written when the core starts from it; the issue FSM
\* knows, in the middle of an instruction.
Overrides ==
    /\ issue \notin {"ISSUE_START", "EXECUTE_WAIT"} => pc_i = None /\ svstate_i = None
    /\ coreBusy => pc_i = None /\ svstate_i = None
    /\ pc_i # None /\ ~quiet => regPc = pc_i /\ (issue = "EXECUTE_WAIT" => pc_changed)
    /\ svstate_i # None /\ ~quiet =>
         regSv = svstate_i /\ (issue = "EXECUTE_WAIT" => sv_changed)
    /\ svstate_i \in SvIn \cup {None}

\* cur_state is what the registers hold, but for what has been written under
\* it; every SVSTATE is Within.
Copies ==
    /\ issue # "ISSUE_START" /\ ~(issue = "EXECUTE_WAIT" /\ changed) =>
         curPc = regPc /\ curSv = regSv
    /\ Within(regSv) /\ Within(curSv)

\* The instruction as fetched: its size, and the address of the next one.
Fetched ==
    fetch \in {"INSN_READ2", "INSN_READY"} \/ issue \notin {"ISSUE_START", "INSN_WAIT"} =>
        /\ nia = (curPc + InsnSize(is_svp64_mode)) % NPC
        /\ is_svp64_mode = insn.prefixed /\ (insn.loop => insn.prefixed)

\* A vector is not empty, and its lane is in it until it is written under it.
InLoop ==
    is_svp64_mode =>
        /\ issue \in {"PRED_START", "MASK_WAIT"} => curSv.vl > 0
        /\ issue = "EXECUTE_WAIT" /\ ~changed =>
             curSv.srcstep < curSv.vl /\ curSv.dststep < curSv.vl

\* The masks are those fetched, shifted up to the current steps, and past
\* them once a lane has been chosen.
Lefts(k) == /\ ~insn.sz => Left(srcmask, new_srcmask, curSv.srcstep + k)
            /\ ~insn.dz => Left(dstmask, new_dstmask, curSv.dststep + k)
Masks ==
    /\ pred \in {"INT_DST_READ", "INT_SRC_READ", "CR_READ", "FETCH_PRED_SHIFT_MASK"} =>
         insn.predmode # "ALWAYS"
    /\ pred = "FETCH_PRED_DONE" \/ issue = "PRED_SKIP" => Lefts(0)
    /\ is_svp64_mode /\ (\/ issue \in {"DECODE_SV", "INSN_EXECUTE"}
                         \/ issue = "EXECUTE_WAIT" /\ ~changed) => Lefts(1)

IsaInv == ~core_rst_o /\ Overrides /\ Copies /\ Fetched /\ InLoop /\ Masks

\* One clock, with no reset in it or after it.
Tick(wr) == /\ CoreStep(wr) /\ FetchStep /\ PredStep
            /\ IssueStep(wr) /\ ExecStep(wr) /\ Inputs
            /\ IssuerInv /\ IssuerInv' /\ IsaInv /\ ~core_rst_o'
            /\ WaitsForStop /\ \A v \in SvIn : Within(v)

\* The core writes only while busy, and then the execute FSM knows.
LEMMA CoreWrites ==
    ASSUME NEW wr \in CoreWrite, Tick(wr)
    PROVE  /\ wr.pc # None \/ wr.sv # None =>
                coreBusy /\ issue = "EXECUTE_WAIT" /\ pc_changed'
           /\ wr.sv \in SvIn \cup {None}
<1>1. wr.pc # None \/ wr.sv # None => coreBusy /\ wr.pc # None
  BY DEF Tick, CoreStep
<1>2. coreBusy => exec = "INSN_ACTIVE" /\ issue = "EXECUTE_WAIT"
  BY DEF Tick, IssuerInv, Coupled
<1>. QED  BY <1>1, <1>2 DEF Tick, CoreWrite, ExecStep, ExecIdle, ExecStart, ExecActive

\* What is written to the registers: by the issuer, or else by the core.
LEMMA RegsWritten ==
    ASSUME NEW wr \in CoreWrite, Tick(wr), NEW wpc, NEW wsv, RegFile(wpc, wsv, wr)
    PROVE  /\ regPc' = IF wpc # None THEN wpc ELSE IF wr.pc # None THEN wr.pc ELSE regPc
           /\ regSv' = IF wsv # None THEN wsv ELSE IF wr.sv # None THEN wr.sv ELSE regSv
  BY DEF Tick, IsaInv, RegFile, Registers, Latch

\* The issue FSM in a state of its own: nothing else is written.
LEMMA HoldsRegs ==
    ASSUME NEW wr \in CoreWrite, Tick(wr), IssueHold(wr)
    PROVE  /\ curSv' = curSv
           /\ ~coreBusy => regPc' = regPc /\ regSv' = regSv
  BY CoreWrites, RegsWritten DEF Tick, IsaInv, IssueHold

\* The execute FSM remembers that PC or SVSTATE was written.
LEMMA ChangedKept ==
    ASSUME NEW wr \in CoreWrite, Tick(wr), issue = "EXECUTE_WAIT"
    PROVE  /\ pc_changed' <=> pc_changed \/ wr.pc # None \/ debugger_pc
           /\ sv_changed' <=> sv_changed \/ debugger_sv
<1>1. exec = "INSN_ACTIVE"
  BY DEF Tick, IssuerInv, Coupled
<1>. QED  BY <1>1 DEF Tick, ExecStep, ExecIdle, ExecStart, ExecActive

\* Outside INSN_WAIT and a fetch the fetch FSM changes nothing.
LEMMA FetchRests ==
    ASSUME NEW wr \in CoreWrite, Tick(wr), issue # "INSN_WAIT", ~fetch_pc_i_valid
    PROVE  /\ fetch' = "IDLE" /\ curPc' = curPc /\ nia' = nia
           /\ insn' = insn /\ is_svp64_mode' = is_svp64_mode
<1>1. fetch = "IDLE"
  BY DEF Tick, IssuerInv, Coupled
<1>. QED  BY <1>1 DEF Tick, IsaInv, FetchStep, FetchIdle, FetchBusy, FetchInsn, FetchInsn2,
         FetchReady, FetchHold

\* An override stays until the core has started from it, and is written before.
LEMMA OverridesStep ==
    ASSUME NEW wr \in CoreWrite, Tick(wr)
    PROVE  Overrides'
<1>1. /\ ~quiet' => IF issue' = "INSN_WAIT" THEN pc_i' = None /\ svstate_i' = None
                                            ELSE pc_i' = pc_i /\ svstate_i' = svstate_i
      /\ svstate_i' \in SvIn \cup {None}
  BY DEF Tick, Inputs
<1>2. pc_i # None \/ svstate_i # None => issue \in {"ISSUE_START", "EXECUTE_WAIT"} /\ ~coreBusy
  BY DEF Tick, IsaInv, Overrides
<1>3. issue' \notin {"ISSUE_START", "EXECUTE_WAIT"} \/ coreBusy' => ~quiet'
  BY DEF quiet, core_stopped_i
<1>4. coreBusy' => issue' = "EXECUTE_WAIT"
  BY DEF Tick, IssuerInv, Coupled
<1>5. coreBusy' /\ ~coreBusy => issue = "INSN_EXECUTE"
  BY DEF Tick, CoreStep, exec_insn_i_valid
\* Until it is written, and known to be.
<1>6. ASSUME pc_i # None, ~quiet, issue # "ISSUE_START"
      PROVE  regPc = pc_i /\ pc_changed
  BY <1>2, <1>6 DEF Tick, IsaInv, Overrides
<1>7. ASSUME svstate_i # None, ~quiet, issue # "ISSUE_START"
      PROVE  regSv = svstate_i /\ sv_changed
  BY <1>2, <1>7 DEF Tick, IsaInv, Overrides
<1>8. pc_i # None \/ svstate_i # None =>
        issue' \in {"ISSUE_START", "EXECUTE_WAIT", "INSN_WAIT"}
  <2>. SUFFICES ASSUME pc_i # None \/ svstate_i # None,
                       issue' \notin {"ISSUE_START", "EXECUTE_WAIT", "INSN_WAIT"}
                PROVE  FALSE
    OBVIOUS
  <2>1. IssueNextLane(wr)
    BY <1>2
    DEF Tick, IssueStep, IssueFetch, IssueStopped, IssueInsnWait, IssueVlZero, IssueInsn,
        IssuePred, IssueMask, IssueScalar, IssueLoopEnd, IssueLane, IssueDecode,
        IssueExecute, IssueExecWait, IssueChanged, IssueRetire, fetch_pc_i_valid
  <2>2. ~quiet /\ ~pc_changed /\ ~sv_changed /\ issue = "EXECUTE_WAIT"
    BY <2>1 DEF IssueNextLane, exec_pc_i_ready, quiet, core_stopped_i
  <2>. QED  BY <2>2, <1>6, <1>7
<1>9. /\ issue' \notin {"ISSUE_START", "EXECUTE_WAIT"} => pc_i' = None /\ svstate_i' = None
      /\ coreBusy' => pc_i' = None /\ svstate_i' = None
  BY <1>1, <1>2, <1>3, <1>4, <1>5, <1>8
\* A standing override: written in this clock, or before.
<1>10. ASSUME pc_i' # None \/ svstate_i' # None, ~quiet'
       PROVE  /\ pc_i' = pc_i /\ svstate_i' = svstate_i /\ ~coreBusy
              /\ issue \in {"ISSUE_START", "EXECUTE_WAIT"}
              /\ issue' \in {"ISSUE_START", "EXECUTE_WAIT"}
              /\ issue' = "EXECUTE_WAIT" => issue = "EXECUTE_WAIT"
              /\ wr.pc = None /\ wr.sv = None
  <2>1. pc_i' = pc_i /\ svstate_i' = svstate_i /\ issue' # "INSN_WAIT"
    BY <1>1, <1>10
  <2>2. issue \in {"ISSUE_START", "EXECUTE_WAIT"} /\ ~coreBusy
    BY <1>2, <1>10, <2>1
  <2>3. wr.pc = None /\ wr.sv = None
    BY <2>2, CoreWrites
  <2>4. issue' = "EXECUTE_WAIT" => issue = "EXECUTE_WAIT"
    BY <2>2, IssueMoves DEF Tick, exec_insn_i_valid
  <2>. QED  BY <2>1, <2>2, <2>3, <2>4, <1>8, <1>10
<1>11. ASSUME pc_i' # None \/ svstate_i' # None, ~quiet'
       PROVE  /\ pc_i # None => regPc' = pc_i
              /\ svstate_i # None => regSv' = svstate_i
              /\ issue' = "EXECUTE_WAIT" => /\ pc_i # None => pc_changed'
                                            /\ svstate_i # None => sv_changed'
  <2>1. CASE core_stopped_i
    <3>1. IssueStopped(wr)
      BY <2>1, StoppedStays DEF Tick
    <3>2. /\ pc_i # None => regPc' = pc_i
          /\ svstate_i # None => regSv' = svstate_i
      BY <3>1, RegsWritten DEF IssueStopped
    <3>. QED  BY <2>1, <3>2, <1>10, <1>11, ChangedKept DEF debugger_pc, debugger_sv
  <2>2. CASE ~core_stopped_i
    <3>1. ~quiet
      BY <2>2 DEF quiet
    <3>2. /\ pc_i # None => regPc = pc_i
          /\ svstate_i # None => regSv = svstate_i
          /\ issue = "EXECUTE_WAIT" => /\ pc_i # None => pc_changed
                                       /\ svstate_i # None => sv_changed
      BY <3>1 DEF Tick, IsaInv, Overrides
    <3>3. \/ RegFile(None, None, wr)
          \/ issue = "EXECUTE_WAIT" /\ ~pc_changed /\ ~sv_changed
      BY <1>10, <1>11, <2>2
      DEF Tick, IssueStep, IssueFetch, IssueStopped, IssueInsnWait, IssueVlZero, IssueInsn,
          IssuePred, IssueMask, IssueScalar, IssueLoopEnd, IssueLane, IssueDecode,
          IssueExecute, IssueExecWait, IssueChanged, IssueRetire, IssueNextLane,
          IssueHold, exec_pc_i_ready
    <3>4. CASE RegFile(None, None, wr)
      <4>1. regPc' = regPc /\ regSv' = regSv
        BY <3>4, <1>10, <1>11, RegsWritten
      <4>. QED  BY <4>1, <3>2, <1>10, <1>11, ChangedKept
    <3>5. CASE issue = "EXECUTE_WAIT" /\ ~pc_changed /\ ~sv_changed
      BY <3>2, <3>5, <1>10, <1>11
    <3>. QED  BY <3>3, <3>4, <3>5
  <2>. QED  BY <2>1, <2>2
<1>. QED  BY <1>1, <1>9, <1>10, <1>11 DEF Overrides

\* A fetch starts from the registers, whether overridden or not.
LEMMA FetchReads ==
    ASSUME NEW wr \in CoreWrite, Tick(wr), fetch_pc_i_valid
    PROVE  /\ issue = "ISSUE_START" /\ issue' = "INSN_WAIT" /\ fetch' = "INSN_READ"
           /\ curPc' = regPc /\ curSv' = regSv /\ regPc' = regPc /\ regSv' = regSv
           /\ nia' = nia /\ insn' = insn /\ is_svp64_mode' = is_svp64_mode
<1>1. issue = "ISSUE_START" /\ ~halted /\ fetch = "IDLE" /\ ~coreBusy
  BY DEF Tick, IssuerInv, Coupled, TypeOK, ExecStates, fetch_pc_i_valid
<1>2. FetchIdle /\ IssueFetch(wr)
  BY <1>1
  DEF Tick, FetchStep, FetchBusy, FetchInsn, FetchInsn2, FetchReady,
      IssueStep, IssueStopped, IssueInsnWait, IssueVlZero, IssueInsn, IssuePred,
      IssueMask, IssueScalar, IssueLoopEnd, IssueLane, IssueDecode,
      IssueExecute, IssueExecWait, IssueChanged, IssueRetire, IssueNextLane,
      exec_pc_i_ready, core_stopped_i
<1>3. wr.pc = None /\ wr.sv = None
  BY <1>1, CoreWrites
<1>4. regPc' = regPc /\ regSv' = regSv
  BY <1>2, <1>3, RegsWritten DEF IssueFetch
<1>5. ~calm /\ ~quiet
  BY <1>1 DEF calm, quiet, core_stopped_i
<1>6. /\ Fresh(pc_rd, pc_i, regPc, 0) /\ Fresh(sv_rd, svstate_i, regSv, Sv0)
      /\ pc_i # None => regPc = pc_i
      /\ svstate_i # None => regSv = svstate_i
  BY <1>5 DEF Tick, IssuerInv, ReadInv, IsaInv, Overrides
<1>7. regPc # None /\ regSv # None
  BY Constants DEF Tick, IssuerInv, TypeOK
<1>8. pc = regPc /\ svstate = regSv
  BY <1>1, <1>6, <1>7 DEF pc, svstate, StateGet, Fresh, halted
<1>. QED  BY <1>1, <1>2, <1>4, <1>8 DEF FetchIdle, IssueFetch, fetch_pc_o_ready

\* The instruction is known once its last word is; only fetch changes it.
LEMMA FetchedStep ==
    ASSUME NEW wr \in CoreWrite, Tick(wr)
    PROVE  Fetched'
<1>1. CASE fetch_pc_i_valid
  BY <1>1, FetchReads DEF Fetched
<1>2. CASE issue = "INSN_WAIT"
  <2>1. fetch # "IDLE" /\ ~core_rst_o /\ issue' \in {"ISSUE_START", "INSN_WAIT", "PRED_START"}
    BY <1>2
    DEF Tick, IssuerInv, Coupled, IsaInv, IssueStep, IssueFetch, IssueStopped, IssueInsnWait,
        IssueVlZero, IssueInsn, IssuePred, IssueMask, IssueScalar, IssueLoopEnd, IssueLane,
        IssueDecode, IssueExecute, IssueExecWait, IssueChanged, IssueRetire, IssueNextLane,
        fetch_pc_i_valid, exec_pc_i_ready, core_stopped_i
  <2>2. CASE FetchInsn
    <3>1. insn' \in Insns /\ (insn'.loop => insn'.prefixed)
      BY <2>2, InputAssumption DEF FetchInsn
    <3>2. insn'.prefixed \in BOOLEAN
      BY <3>1, InputAssumption DEF Insn
    <3>. QED  BY <2>1, <2>2, <3>1, <3>2 DEF FetchInsn, Fetched
  <2>3. CASE FetchBusy \/ FetchInsn2 \/ FetchReady
    <3>1. /\ curPc' = curPc /\ nia' = nia /\ insn' = insn /\ is_svp64_mode' = is_svp64_mode
          /\ fetch' = "INSN_READY" => fetch \in {"INSN_READ2", "INSN_READY"}
          /\ fetch' = "INSN_READ2" => fetch = "INSN_READ2"
          /\ fetch' = "IDLE" => fetch = "INSN_READY"
      BY <2>1, <2>3 DEF FetchBusy, FetchInsn2, FetchReady, FetchHold
    <3>2. issue' \notin {"ISSUE_START", "INSN_WAIT"} => fetch' = "IDLE"
      BY DEF Tick, IssuerInv, Coupled
    <3>. QED  BY <3>1, <3>2 DEF Tick, IsaInv, Fetched
  <2>. QED  BY <2>1, <2>2, <2>3 DEF Tick, FetchStep, FetchIdle
<1>3. CASE issue # "INSN_WAIT" /\ ~fetch_pc_i_valid
  <2>1. /\ fetch' = "IDLE" /\ curPc' = curPc /\ nia' = nia /\ insn' = insn
        /\ is_svp64_mode' = is_svp64_mode
    BY <1>3, FetchRests
  <2>2. issue = "ISSUE_START" => issue' = "ISSUE_START"
    BY <1>3
    DEF Tick, IssueStep, IssueFetch, IssueStopped, IssueInsnWait, IssueVlZero, IssueInsn,
        IssuePred, IssueMask, IssueScalar, IssueLoopEnd, IssueLane, IssueDecode,
        IssueExecute, IssueExecWait, IssueChanged, IssueRetire, IssueNextLane,
        exec_pc_i_ready
  <2>. QED  BY <1>3, <2>1, <2>2 DEF Tick, IsaInv, Fetched
<1>. QED  BY <1>1, <1>2, <1>3

\* The branches that end an instruction, and those that write nothing.
Ends(wr) == IssueVlZero(wr) \/ IssueLoopEnd(wr) \/ IssueChanged(wr) \/ IssueRetire(wr)
Waits(wr) == \/ IssueInsnWait(wr) \/ IssueInsn(wr) \/ IssuePred(wr) \/ IssueMask(wr)
             \/ IssueScalar(wr) \/ IssueDecode(wr) \/ IssueExecute(wr) \/ IssueExecWait(wr)

\* Past a fetch the issue FSM goes on from one state to the next: stopped, holding
\* what it has, ending the instruction, or choosing a lane.
LEMMA IssueSteps ==
    ASSUME NEW wr \in CoreWrite, Tick(wr), ~fetch_pc_i_valid
    PROVE  \/ IssueStopped(wr) \/ Waits(wr) \/ Ends(wr)
           \/ IssueLane(wr) \/ IssueNextLane(wr)
  BY DEF Tick, IssueStep, IssueFetch, Waits, Ends

\* An instruction ends at ISSUE_START.
LEMMA EndsIdle ==
    ASSUME NEW wr \in CoreWrite, Tick(wr), Ends(wr)
    PROVE  /\ issue' = "ISSUE_START" /\ issue # "ISSUE_START" /\ ~fetch_pc_i_valid
           /\ wr.pc = None /\ wr.sv = None
<1>1. /\ issue' = "ISSUE_START" /\ issue \in {"INSN_WAIT", "PRED_SKIP", "EXECUTE_WAIT"}
      /\ issue = "EXECUTE_WAIT" => ~coreBusy
  BY DEF Ends, IssueVlZero, IssueLoopEnd, IssueChanged, IssueRetire, exec_pc_i_ready,
         exec_pc_o_valid
<1>. QED  BY <1>1, CoreWrites DEF fetch_pc_i_valid

\* A waiting step leaves the copies and, but for the core, the registers.
LEMMA WaitsHold ==
    ASSUME NEW wr \in CoreWrite, Tick(wr), Waits(wr)
    PROVE  /\ issue # "ISSUE_START" /\ issue' # "ISSUE_START"
           /\ issue' = "INSN_WAIT" => issue = "INSN_WAIT"
           /\ ~fetch_pc_i_valid /\ ~core_stopped_i
           /\ curSv' = curSv /\ curPc' = curPc
           /\ regPc' = IF wr.pc # None THEN wr.pc ELSE regPc
           /\ regSv' = IF wr.sv # None THEN wr.sv ELSE regSv
<1>1. /\ issue # "ISSUE_START" /\ issue' # "ISSUE_START" /\ IssueHold(wr) /\ ~core_stopped_i
      /\ issue' = "INSN_WAIT" => issue = "INSN_WAIT"
  BY DEF Waits, IssueInsnWait, IssueInsn, IssuePred, IssueMask, IssueScalar, IssueDecode,
         IssueExecute, IssueExecWait, exec_pc_i_ready, core_stopped_i
<1>2. ~fetch_pc_i_valid
  BY <1>1 DEF fetch_pc_i_valid
<1>3. curPc' = curPc
  <2>1. CASE issue = "INSN_WAIT"
    BY <2>1 DEF Tick, IssuerInv, Coupled, IsaInv, FetchStep, FetchIdle, FetchBusy, FetchInsn,
                FetchInsn2, FetchReady, FetchHold
  <2>2. CASE issue # "INSN_WAIT"
    BY <1>2, <2>2, FetchRests
  <2>. QED  BY <2>1, <2>2
<1>4. curSv' = curSv
  BY <1>1, HoldsRegs
<1>5. /\ regPc' = IF wr.pc # None THEN wr.pc ELSE regPc
      /\ regSv' = IF wr.sv # None THEN wr.sv ELSE regSv
  BY <1>1, RegsWritten DEF IssueHold
<1>. QED  BY <1>1, <1>2, <1>3, <1>4, <1>5

\* The lane that PRED_SKIP finds, and the one after it.
LEMMA LaneSkips ==
    ASSUME NEW wr \in CoreWrite, Tick(wr), issue = "PRED_SKIP"
    PROVE  /\ skip_srcstep = curSv.srcstep + src_delta
           /\ skip_dststep = curSv.dststep + dst_delta
           /\ skip_srcstep < curSv.vl <=>
                \E i \in Selected(insn.sz, new_srcmask) : i >= curSv.srcstep /\ i < curSv.vl
           /\ skip_dststep < curSv.vl <=>
                \E i \in Selected(insn.dz, new_dstmask) : i >= curSv.dststep /\ i < curSv.vl
           /\ skip_srcstep < curSv.vl =>
                ForLoop!First(Selected(insn.sz, new_srcmask), curSv.srcstep) = skip_srcstep
           /\ skip_dststep < curSv.vl =>
                ForLoop!First(Selected(insn.dz, new_dstmask), curSv.dststep) = skip_dststep
           /\ ~insn.sz => Left(ShiftRight(srcmask, src_delta + 1), new_srcmask, skip_srcstep + 1)
           /\ ~insn.dz => Left(ShiftRight(dstmask, dst_delta + 1), new_dstmask, skip_dststep + 1)
<1>1. /\ insn.sz \in BOOLEAN /\ insn.dz \in BOOLEAN
      /\ srcmask \in SUBSET Lane /\ new_srcmask \in SUBSET Lane
      /\ dstmask \in SUBSET Lane /\ new_dstmask \in SUBSET Lane
  BY DEF Tick, IssuerInv, TypeOK, Insn
<1>2. curSv.vl \in Lane /\ curSv.srcstep \in Lane /\ curSv.dststep \in Lane
  BY DEF Tick, IsaInv, Copies, Within
<1>3. curSv.srcstep \in Nat /\ curSv.dststep \in Nat
  BY <1>2 DEF Lane
<1>4. Lefts(0)
  BY DEF Tick, IsaInv, Masks
<1>5. /\ ~insn.sz => Left(srcmask, new_srcmask, curSv.srcstep)
      /\ ~insn.dz => Left(dstmask, new_dstmask, curSv.dststep)
  <2>1. curSv.srcstep + 0 = curSv.srcstep /\ curSv.dststep + 0 = curSv.dststep
    BY <1>3
  <2>. QED  BY <1>4, <2>1 DEF Lefts
<1>6. Finds(insn.sz, srcmask, new_srcmask, curSv.srcstep, curSv.vl, src_delta)
  <2>1. src_delta = IF insn.sz THEN 0 ELSE LeadingZeros(srcmask)
    BY DEF src_delta
  <2>. QED  BY <1>1, <1>2, <1>5, <2>1, SkipFindsLane
<1>7. Finds(insn.dz, dstmask, new_dstmask, curSv.dststep, curSv.vl, dst_delta)
  <2>1. dst_delta = IF insn.dz THEN 0 ELSE LeadingZeros(dstmask)
    BY DEF dst_delta
  <2>. QED  BY <1>1, <1>2, <1>5, <2>1, SkipFindsLane
<1>. QED  BY <1>6, <1>7 DEF Finds, skip_srcstep, skip_dststep

\* A lane that is issued is in the vector, and so is the next step in a lane.
LEMMA LaneIssued ==
    ASSUME NEW wr \in CoreWrite, Tick(wr), IssueLane(wr)
    PROVE  /\ curSv' = [curSv EXCEPT !.srcstep = skip_srcstep, !.dststep = skip_dststep]
           /\ curSv'.vl = curSv.vl /\ curSv'.srcstep = skip_srcstep /\ curSv'.dststep = skip_dststep
           /\ skip_srcstep < curSv.vl /\ skip_dststep < curSv.vl
           /\ skip_srcstep \in Lane /\ skip_dststep \in Lane
           /\ regSv' = curSv' /\ regPc' = curPc' /\ curPc' = curPc /\ curPc = regPc /\ curSv = regSv
           /\ Within(curSv')
<1>1. /\ issue = "PRED_SKIP" /\ RegFile(None, SetSteps(curSv, skip_srcstep, skip_dststep), wr)
      /\ curSv' = SetSteps(curSv, skip_srcstep, skip_dststep)
      /\ ~(skip_srcstep >= curSv.vl) /\ ~(skip_dststep >= curSv.vl)
  BY DEF IssueLane, UpdateSvstate, PastEnd
<1>2. curSv \in SvState /\ skip_srcstep \in Step /\ skip_dststep \in Step /\ curSv.vl \in Lane
  BY StepTypes DEF Tick, IssuerInv, TypeOK, IsaInv, Copies, Within
<1>3. /\ curSv' = [curSv EXCEPT !.srcstep = skip_srcstep, !.dststep = skip_dststep]
      /\ curSv'.vl = curSv.vl /\ curSv'.srcstep = skip_srcstep /\ curSv'.dststep = skip_dststep
  BY <1>1, <1>2 DEF SetSteps, SvState
<1>4. /\ skip_srcstep < curSv.vl /\ skip_dststep < curSv.vl
      /\ skip_srcstep \in Lane /\ skip_dststep \in Lane
  BY <1>1, <1>2, WidthAssumption DEF Step, Lane
<1>5. wr.pc = None /\ wr.sv = None /\ ~fetch_pc_i_valid /\ curPc = regPc /\ curSv = regSv
  BY <1>1, CoreWrites DEF fetch_pc_i_valid, Tick, IsaInv, Copies
<1>6. curPc' = curPc
  BY <1>1, <1>5, FetchRests
<1>7. curSv' \in SvState
  BY <1>1, <1>2, StepUpdates
<1>8. regPc' = regPc /\ regSv' = curSv'
  BY <1>1, <1>5, <1>7, Constants, RegsWritten
<1>. QED  BY <1>2, <1>3, <1>4, <1>5, <1>6, <1>8 DEF Within

\* Another round of the loop: one step on, still a lane.
LEMMA NextLaneTaken ==
    ASSUME NEW wr \in CoreWrite, Tick(wr), IssueNextLane(wr)
    PROVE  /\ issue = "EXECUTE_WAIT" /\ ~changed /\ is_svp64_mode
           /\ curSv' = [curSv EXCEPT !.srcstep = curSv.srcstep + 1, !.dststep = curSv.dststep + 1]
           /\ curSv'.vl = curSv.vl /\ curSv'.srcstep = curSv.srcstep + 1
           /\ curSv'.dststep = curSv.dststep + 1
           /\ curSv.srcstep + 1 # curSv.vl
           /\ regSv' = curSv' /\ regPc' = curPc' /\ curPc' = curPc /\ curPc = regPc /\ curSv = regSv
           /\ Within(curSv')
<1>1. /\ issue = "EXECUTE_WAIT" /\ ~changed /\ ~coreBusy /\ insn.loop
      /\ RegFile(None, SetSteps(curSv, next_srcstep, next_dststep), wr)
      /\ curSv' = SetSteps(curSv, next_srcstep, next_dststep)
      /\ next_srcstep # curSv.vl
  BY DEF IssueNextLane, UpdateSvstate, exec_pc_i_ready, exec_pc_o_valid, changed, is_last
<1>2. is_svp64_mode /\ curSv.srcstep < curSv.vl /\ curSv.dststep < curSv.vl
  BY <1>1 DEF Tick, IsaInv, Fetched, InLoop
<1>3. curSv \in SvState /\ Within(curSv) /\ curSv = regSv /\ curPc = regPc
  BY <1>1 DEF Tick, IssuerInv, TypeOK, IsaInv, Copies
<1>4. /\ next_srcstep = curSv.srcstep + 1 /\ curSv.srcstep + 1 \in Lane
      /\ next_dststep = curSv.dststep + 1 /\ curSv.dststep + 1 \in Lane
  BY <1>2, <1>3, WidthAssumption DEF Within, Lane, next_srcstep, next_dststep, AddStep
<1>5. /\ curSv' = [curSv EXCEPT !.srcstep = curSv.srcstep + 1, !.dststep = curSv.dststep + 1]
      /\ curSv'.vl = curSv.vl /\ curSv'.srcstep = curSv.srcstep + 1
      /\ curSv'.dststep = curSv.dststep + 1
  BY <1>1, <1>3, <1>4 DEF SetSteps, SvState
<1>6. wr.pc = None /\ wr.sv = None /\ ~fetch_pc_i_valid
  BY <1>1, CoreWrites DEF fetch_pc_i_valid
<1>7. curPc' = curPc
  BY <1>1, <1>6, FetchRests
<1>8. curSv' \in SvState
  BY <1>1, <1>3, StepTypes, StepUpdates DEF Tick, IssuerInv
<1>9. regPc' = regPc /\ regSv' = curSv'
  BY <1>1, <1>6, <1>8, Constants, RegsWritten
<1>. QED  BY <1>1, <1>2, <1>3, <1>4, <1>5, <1>7, <1>9 DEF Within

\* What an instruction leaves as it ends: the registers, and the steps zeroed
\* or not.
LEMMA EndsWrite ==
    ASSUME NEW wr \in CoreWrite, Tick(wr), Ends(wr)
    PROVE  /\ IssueVlZero(wr) => regPc' = nia /\ regSv' = regSv /\ curSv' = curSv
           /\ IssueLoopEnd(wr) => regPc' = nia /\ regSv' = ZeroSteps(curSv) /\ curSv' = regSv'
           /\ IssueChanged(wr) => regPc' = regPc /\ regSv' = regSv /\ curSv' = curSv
           /\ IssueRetire(wr) =>
                /\ regPc' = nia
                /\ regSv' = (IF insn.loop THEN ZeroSteps(curSv) ELSE regSv)
                /\ curSv' = (IF insn.loop THEN ZeroSteps(curSv) ELSE curSv)
<1>1. ~core_rst_o /\ curSv \in SvState /\ nia # None /\ wr.pc = None /\ wr.sv = None
  BY EndsIdle, Constants DEF Tick, IsaInv, IssuerInv, TypeOK
<1>2. ZeroSteps(curSv) # None
  <2>1. 0 \in Step
    BY Constants
  <2>. QED  BY <1>1, <2>1, StepUpdates, Constants
<1>3. IssueVlZero(wr) => regPc' = nia /\ regSv' = regSv /\ curSv' = curSv
  BY <1>1, RegsWritten DEF IssueVlZero
<1>4. IssueLoopEnd(wr) => regPc' = nia /\ regSv' = ZeroSteps(curSv) /\ curSv' = regSv'
  BY <1>1, <1>2, RegsWritten DEF IssueLoopEnd, UpdateSvstate
<1>5. IssueChanged(wr) => regPc' = regPc /\ regSv' = regSv /\ curSv' = curSv
  BY <1>1, RegsWritten DEF IssueChanged, IssueHold
<1>6. ASSUME IssueRetire(wr)
      PROVE  /\ regPc' = nia
             /\ regSv' = (IF insn.loop THEN ZeroSteps(curSv) ELSE regSv)
             /\ curSv' = (IF insn.loop THEN ZeroSteps(curSv) ELSE curSv)
  <2>1. CASE insn.loop
    BY <1>1, <1>2, <1>6, <2>1, RegsWritten DEF IssueRetire, UpdateSvstate
  <2>2. CASE ~insn.loop
    BY <1>1, <1>6, <2>2, RegsWritten DEF IssueRetire
  <2>. QED  BY <2>1, <2>2
<1>. QED  BY <1>3, <1>4, <1>5, <1>6

\* The copies: cur_state is read with the registers, and written with them.
LEMMA CopiesStep ==
    ASSUME NEW wr \in CoreWrite, Tick(wr)
    PROVE  Copies'
<1>1. Copies /\ ~core_rst_o /\ Overrides /\ regSv \in SvState /\ curSv \in SvState
  BY DEF Tick, IsaInv, IssuerInv, TypeOK
<1>2. wr.sv # None => Within(wr.sv)
  BY CoreWrites DEF Tick
<1>3. svstate_i # None => Within(svstate_i)
  BY <1>1 DEF Overrides, Tick
<1>4. CASE fetch_pc_i_valid
  BY <1>1, <1>4, FetchReads DEF Copies, Within
<1>5. CASE IssueStopped(wr)
  <2>1. issue' = issue /\ issue \in {"ISSUE_START", "EXECUTE_WAIT"} /\ ~fetch_pc_i_valid
    BY <1>5 DEF IssueStopped, core_stopped_i, fetch_pc_i_valid
  <2>2. curPc' = curPc
    BY <2>1, FetchRests
  <2>3. /\ regPc' = IF pc_i # None THEN pc_i ELSE IF wr.pc # None THEN wr.pc ELSE regPc
        /\ regSv' = IF svstate_i # None THEN svstate_i
                    ELSE IF wr.sv # None THEN wr.sv ELSE regSv
        /\ curSv' = IF svstate_i # None THEN svstate_i ELSE curSv
    BY <1>1, <1>5, RegsWritten DEF IssueStopped
  <2>4. Within(regSv)' /\ Within(curSv)'
    BY <1>1, <1>2, <1>3, <2>3 DEF Copies, Within
  <2>5. ASSUME issue = "EXECUTE_WAIT", ~changed'
        PROVE  ~changed /\ pc_i = None /\ svstate_i = None /\ wr.pc = None /\ wr.sv = None
    BY <1>5, <2>5, ChangedKept, CoreWrites
    DEF IssueStopped, changed, debugger_pc, debugger_sv
  <2>. QED  BY <1>1, <2>1, <2>2, <2>3, <2>4, <2>5 DEF Copies
<1>6. CASE Waits(wr)
  <2>1. ASSUME ~(issue' = "EXECUTE_WAIT" /\ changed')
        PROVE  wr.pc = None /\ wr.sv = None /\ ~(issue = "EXECUTE_WAIT" /\ changed)
    <3>1. CASE issue = "EXECUTE_WAIT"
      <4>1. issue' = "EXECUTE_WAIT"
        BY <1>6, <3>1 DEF Waits, IssueInsnWait, IssueInsn, IssuePred, IssueMask, IssueScalar,
                          IssueDecode, IssueExecute, IssueExecWait
      <4>. QED  BY <2>1, <3>1, <4>1, ChangedKept, CoreWrites DEF changed
    <3>2. CASE issue # "EXECUTE_WAIT"
      BY <3>2, CoreWrites
    <3>. QED  BY <3>1, <3>2
  <2>2. Within(regSv)' /\ Within(curSv)'
    BY <1>1, <1>2, <1>6, WaitsHold DEF Copies, Within
  <2>. QED  BY <1>1, <1>6, <2>1, <2>2, WaitsHold DEF Copies
<1>7. CASE Ends(wr)
  <2>1. /\ regSv' = regSv \/ regSv' = ZeroSteps(curSv)
        /\ curSv' = curSv \/ curSv' = ZeroSteps(curSv)
    BY <1>7, EndsWrite DEF Ends
  <2>2. Within(ZeroSteps(curSv))
    <3>1. 0 \in Lane
      BY WidthAssumption DEF Lane
    <3>. QED  BY <1>1, <3>1 DEF Copies, Within, ZeroSteps, SvState
  <2>. QED  BY <1>1, <1>7, <2>1, <2>2, EndsIdle DEF Copies, Within
<1>8. CASE IssueLane(wr)
  BY <1>8, LaneIssued DEF Copies, Within
<1>9. CASE IssueNextLane(wr)
  BY <1>9, NextLaneTaken DEF Copies, Within
<1>. QED  BY <1>4, <1>5, <1>6, <1>7, <1>8, <1>9, IssueSteps

\* VL is looked at before the predicates are fetched, and by PRED_SKIP.
LEMMA InLoopStep ==
    ASSUME NEW wr \in CoreWrite, Tick(wr)
    PROVE  InLoop'
<1>1. InLoop
  BY DEF Tick, IsaInv
<1>2. issue # "INSN_WAIT" /\ ~fetch_pc_i_valid => is_svp64_mode' = is_svp64_mode
  BY FetchRests
<1>3. CASE fetch_pc_i_valid
  BY <1>3, FetchReads DEF InLoop
<1>4. CASE IssueStopped(wr)
  <2>1. /\ issue' = issue /\ issue \in {"ISSUE_START", "EXECUTE_WAIT"} /\ ~fetch_pc_i_valid
        /\ curSv' = IF svstate_i # None THEN svstate_i ELSE curSv
    BY <1>4 DEF IssueStopped, core_stopped_i, fetch_pc_i_valid, Tick, IsaInv
  <2>2. ASSUME issue = "EXECUTE_WAIT", ~changed'
        PROVE  ~changed /\ curSv' = curSv
    BY <1>4, <2>1, <2>2, ChangedKept DEF IssueStopped, changed, debugger_sv
  <2>. QED  BY <1>1, <1>2, <2>1, <2>2 DEF InLoop
<1>5. CASE Waits(wr)
  <2>1. curSv' = curSv /\ ~fetch_pc_i_valid
    BY <1>5, WaitsHold
  <2>2. \/ issue = "INSN_WAIT" /\ issue' = "INSN_WAIT"
        \/ IssueInsn(wr)
        \/ issue = "PRED_START" /\ issue' \in {"PRED_START", "MASK_WAIT"}
        \/ issue = "MASK_WAIT" /\ issue' \in {"MASK_WAIT", "PRED_SKIP"}
        \/ issue' \in {"DECODE_SV", "INSN_EXECUTE"}
        \/ issue = "INSN_EXECUTE" /\ issue' = "EXECUTE_WAIT"
        \/ issue = "EXECUTE_WAIT" /\ issue' = "EXECUTE_WAIT"
    BY <1>5 DEF Waits, IssueInsnWait, IssuePred, IssueMask, IssueScalar, IssueDecode,
                IssueExecute, IssueExecWait, exec_pc_i_ready
  <2>3. CASE IssueInsn(wr)
    <3>1. /\ issue' = "PRED_START" /\ fetch = "INSN_READY" /\ ~(is_svp64_mode /\ curSv.vl = 0)
      BY <2>3 DEF IssueInsn, fetch_insn_o_valid
    <3>2. is_svp64_mode' = is_svp64_mode
      BY <3>1 DEF Tick, FetchStep, FetchIdle, FetchBusy, FetchInsn, FetchInsn2, FetchReady, FetchHold
    <3>3. curSv.vl \in Nat
      BY DEF Tick, IsaInv, Copies, Within, Lane
    <3>. QED  BY <2>1, <3>1, <3>2, <3>3 DEF InLoop
  <2>4. CASE issue = "INSN_EXECUTE" /\ issue' = "EXECUTE_WAIT"
    BY <1>2, <2>1, <2>4 DEF Tick, IssuerInv, LaneInVector, InLoop
  <2>5. CASE issue = "EXECUTE_WAIT" /\ issue' = "EXECUTE_WAIT"
    <3>1. ~changed' => ~changed
      BY <2>5, ChangedKept DEF changed
    <3>. QED  BY <1>1, <1>2, <2>1, <2>5, <3>1 DEF InLoop
  <2>. QED  BY <1>1, <1>2, <2>1, <2>2, <2>3, <2>4, <2>5 DEF InLoop
<1>6. CASE Ends(wr)
  BY <1>6, EndsIdle DEF InLoop
<1>7. CASE IssueLane(wr) \/ IssueNextLane(wr)
  BY <1>7 DEF InLoop, IssueLane, IssueNextLane
<1>. QED  BY <1>3, <1>4, <1>5, <1>6, <1>7, IssueSteps

\* Outside PRED_START and MASK_WAIT the predicate FSM rests; only PRED_SKIP
\* shifts the masks.
LEMMA PredRests ==
    ASSUME NEW wr \in CoreWrite, Tick(wr), issue \notin {"PRED_START", "MASK_WAIT"}
    PROVE  /\ pred' = "FETCH_PRED_IDLE" /\ MaskHold
           /\ new_srcmask' = new_srcmask /\ new_dstmask' = new_dstmask
<1>1. pred = "FETCH_PRED_IDLE" /\ ~pred_insn_i_valid
  BY DEF Tick, IssuerInv, Coupled, pred_insn_i_valid
<1>. QED  BY <1>1 DEF Tick, PredStep, PredIdle, PredStartInt, PredStartCr, PredStartAlways,
                      PredIntDst, PredIntSrc, PredCrRead, PredShift, PredDone

\* What Lefts looks at.
LEMMA LeftsHeld ==
    ASSUME NEW wr \in CoreWrite, Tick(wr), NEW k \in Nat, Lefts(k),
           insn' = insn, curSv' = curSv, srcmask' = srcmask, dstmask' = dstmask,
           new_srcmask' = new_srcmask, new_dstmask' = new_dstmask
    PROVE  Lefts(k)'
  BY DEF Lefts, Left

\* While the masks are fetched.
LEMMA MasksFetched ==
    ASSUME NEW wr \in CoreWrite, Tick(wr), issue \in {"PRED_START", "MASK_WAIT"}
    PROVE  Masks'
<1>1. IssuePred(wr) \/ IssueMask(wr)
  BY DEF Tick, IssueStep, IssueFetch, IssueStopped, IssueInsnWait, IssueVlZero, IssueInsn,
         IssueScalar, IssueLoopEnd, IssueLane, IssueDecode, IssueExecute, IssueExecWait,
         IssueChanged, IssueRetire, IssueNextLane, fetch_pc_i_valid, exec_pc_i_ready,
         core_stopped_i
<1>2. ~core_rst_o /\ issue' \in {"PRED_START", "MASK_WAIT", "PRED_SKIP"}
  BY <1>1 DEF Tick, IsaInv, IssuePred, IssueMask
<1>3. curSv' = curSv /\ ~fetch_pc_i_valid
  BY <1>1, WaitsHold DEF Waits
<1>4. insn' = insn
  BY <1>3, FetchRests
<1>5. curSv.srcstep \in Nat /\ curSv.dststep \in Nat
      /\ curSv.srcstep + 0 = curSv.srcstep /\ curSv.dststep + 0 = curSv.dststep
  BY DEF Tick, IsaInv, Copies, Within, Lane
<1>6. MaskHold => srcmask' = srcmask /\ dstmask' = dstmask
  BY DEF MaskHold
<1>7. issue' = "PRED_SKIP" => PredDone
  <2>. SUFFICES ASSUME issue' = "PRED_SKIP"  PROVE PredDone
    OBVIOUS
  <2>1. pred = "FETCH_PRED_DONE"
    BY <1>1 DEF IssuePred, IssueMask, pred_mask_o_valid
  <2>. QED  BY <2>1 DEF Tick, PredStep, PredIdle, PredStartInt, PredStartCr,
         PredStartAlways, PredIntDst, PredIntSrc, PredCrRead, PredShift
<1>8. pred' \in {"INT_DST_READ", "INT_SRC_READ", "CR_READ", "FETCH_PRED_SHIFT_MASK"} =>
        insn.predmode # "ALWAYS"
  BY DEF Tick, IsaInv, Masks, PredStep, PredIdle, PredStartInt, PredStartCr,
         PredStartAlways, PredIntDst, PredIntSrc, PredCrRead, PredShift, PredDone
<1>9. pred' = "FETCH_PRED_DONE" \/ issue' = "PRED_SKIP" => Lefts(0)'
  <2>1. CASE PredDone
    <3>1. Lefts(0)
      BY <2>1 DEF Tick, IsaInv, Masks, PredDone
    <3>. QED  BY <1>3, <1>4, <1>6, <2>1, <3>1, LeftsHeld DEF PredDone
  <2>2. CASE PredStartAlways
    <3>1. ShiftRight(Lane, 0) = Lane
      BY DEF ShiftRight, Lane
    <3>2. /\ Left(Lane, new_srcmask, curSv.srcstep)
          /\ Left(Lane, new_dstmask, curSv.dststep)
      BY <1>5, <2>2, <3>1 DEF PredStartAlways, Left
    <3>. QED  BY <1>3, <1>4, <1>5, <2>2, <3>2 DEF PredStartAlways, Lefts, Left
  <2>3. CASE PredShift
    <3>1. insn.predmode # "ALWAYS"
      BY <2>3 DEF Tick, IsaInv, Masks, PredShift
    <3>. QED  BY <1>3, <1>4, <1>5, <2>3, <3>1 DEF PredShift, Lefts, Left
  <2>4. CASE ~PredDone /\ ~PredStartAlways /\ ~PredShift
    <3>1. pred' # "FETCH_PRED_DONE"
      BY <2>4 DEF Tick, PredStep, PredIdle, PredStartInt, PredStartCr,
                  PredIntDst, PredIntSrc, PredCrRead
    <3>. QED  BY <1>7, <2>4, <3>1
  <2>. QED  BY <2>1, <2>2, <2>3, <2>4
<1>. QED  BY <1>2, <1>4, <1>8, <1>9 DEF Masks

\* The masks: shifted past a lane in the clock that chooses it, held otherwise.
LEMMA MasksStep ==
    ASSUME NEW wr \in CoreWrite, Tick(wr)
    PROVE  Masks'
<1>1. Masks /\ ~core_rst_o
  BY DEF Tick, IsaInv
<1>2. CASE issue \in {"PRED_START", "MASK_WAIT"}
  BY <1>2, MasksFetched
<1>. SUFFICES ASSUME issue \notin {"PRED_START", "MASK_WAIT"}
              PROVE  Masks'
  BY <1>2
<1>3. /\ pred' = "FETCH_PRED_IDLE" /\ MaskHold
      /\ new_srcmask' = new_srcmask /\ new_dstmask' = new_dstmask
  BY PredRests
<1>4. issue # "PRED_SKIP" => srcmask' = srcmask /\ dstmask' = dstmask
  BY <1>3 DEF MaskHold
<1>5. issue # "INSN_WAIT" /\ ~fetch_pc_i_valid => insn' = insn /\ is_svp64_mode' = is_svp64_mode
  BY FetchRests
<1>6. CASE fetch_pc_i_valid
  BY <1>3, <1>6, FetchReads DEF Masks
<1>7. CASE IssueStopped(wr)
  <2>1. /\ issue' = issue /\ issue \in {"ISSUE_START", "EXECUTE_WAIT"} /\ ~fetch_pc_i_valid
        /\ curSv' = IF svstate_i # None THEN svstate_i ELSE curSv
    BY <1>1, <1>7 DEF IssueStopped, core_stopped_i, fetch_pc_i_valid
  <2>2. ASSUME issue = "EXECUTE_WAIT", ~changed', is_svp64_mode
        PROVE  Lefts(1)'
    <3>1. ~changed /\ curSv' = curSv
      BY <1>7, <2>1, <2>2, ChangedKept DEF IssueStopped, changed, debugger_sv
    <3>2. Lefts(1)
      BY <1>1, <2>2, <3>1 DEF Masks
    <3>. QED  BY <1>3, <1>4, <1>5, <2>1, <3>1, <3>2, LeftsHeld
  <2>. QED  BY <1>3, <1>5, <2>1, <2>2 DEF Masks
<1>8. CASE Waits(wr)
  <2>1. curSv' = curSv /\ ~fetch_pc_i_valid
    BY <1>8, WaitsHold
  <2>2. \/ issue = "INSN_WAIT" /\ issue' \in {"INSN_WAIT", "PRED_START"}
        \/ ~is_svp64_mode /\ issue' = "DECODE_SV" /\ issue = "PRED_SKIP"
        \/ /\ issue' \in {"INSN_EXECUTE", "EXECUTE_WAIT"} \/ issue' = issue
           /\ issue \in {"DECODE_SV", "INSN_EXECUTE"} \/ (issue = "EXECUTE_WAIT" /\ issue' = issue)
    BY <1>8 DEF Waits, IssueInsnWait, IssueInsn, IssuePred, IssueMask, IssueScalar, IssueDecode,
                IssueExecute, IssueExecWait, exec_pc_i_ready
  <2>3. CASE issue = "INSN_WAIT" /\ issue' \in {"INSN_WAIT", "PRED_START"}
    BY <1>3, <2>3 DEF Masks
  <2>4. CASE ~is_svp64_mode /\ issue' = "DECODE_SV" /\ issue = "PRED_SKIP"
    BY <1>3, <1>5, <2>1, <2>4 DEF Masks
  <2>5. CASE /\ issue' \in {"INSN_EXECUTE", "EXECUTE_WAIT"} \/ issue' = issue
             /\ issue \in {"DECODE_SV", "INSN_EXECUTE"} \/ (issue = "EXECUTE_WAIT" /\ issue' = issue)
    <3>1. issue = "EXECUTE_WAIT" /\ ~changed' => ~changed
      BY ChangedKept DEF changed
    <3>2. ASSUME is_svp64_mode, issue # "EXECUTE_WAIT" \/ ~changed'
          PROVE  Lefts(1)'
      <4>1. Lefts(1)
        BY <1>1, <2>5, <3>1, <3>2 DEF Masks
      <4>2. insn' = insn /\ srcmask' = srcmask /\ dstmask' = dstmask
        BY <1>4, <1>5, <2>1, <2>5
      <4>. QED  BY <1>3, <2>1, <4>1, <4>2, LeftsHeld
    <3>3. issue' # "PRED_SKIP" /\ issue' # "MASK_WAIT" /\ (issue = "EXECUTE_WAIT" => issue' = "EXECUTE_WAIT")
      BY <2>5
    <3>. QED  BY <1>3, <1>5, <2>1, <2>5, <3>2, <3>3 DEF Masks
  <2>. QED  BY <2>2, <2>3, <2>4, <2>5
<1>9. CASE Ends(wr)
  BY <1>3, <1>9, EndsIdle DEF Masks
<1>10. CASE IssueLane(wr)
  <2>1. /\ issue = "PRED_SKIP" /\ is_svp64_mode /\ issue' = "DECODE_SV" /\ ~fetch_pc_i_valid
    BY <1>10 DEF IssueLane, fetch_pc_i_valid
  <2>2. /\ curSv'.srcstep = skip_srcstep /\ curSv'.dststep = skip_dststep
    BY <1>10, LaneIssued
  <2>3. /\ srcmask' = ShiftRight(srcmask, src_delta + 1)
        /\ dstmask' = ShiftRight(dstmask, dst_delta + 1)
    BY <1>3, <2>1 DEF MaskHold
  <2>4. insn' = insn
    BY <1>5, <2>1
  <2>5. Lefts(1)'
    BY <1>3, <2>1, <2>2, <2>3, <2>4, LaneSkips DEF Lefts, Left
  <2>. QED  BY <1>3, <2>1, <2>5 DEF Masks
<1>11. CASE IssueNextLane(wr)
  <2>1. /\ issue = "EXECUTE_WAIT" /\ ~changed /\ is_svp64_mode /\ issue' = "PRED_SKIP"
        /\ curSv'.srcstep = curSv.srcstep + 1 /\ curSv'.dststep = curSv.dststep + 1
        /\ ~fetch_pc_i_valid
    BY <1>11, NextLaneTaken DEF IssueNextLane, fetch_pc_i_valid
  <2>2. Lefts(1)
    BY <1>1, <2>1 DEF Masks
  <2>3. insn' = insn /\ srcmask' = srcmask /\ dstmask' = dstmask
    BY <1>4, <1>5, <2>1
  <2>4. curSv.srcstep + 1 + 0 = curSv.srcstep + 1 /\ curSv.dststep + 1 + 0 = curSv.dststep + 1
    BY DEF Tick, IsaInv, Copies, Within, Lane
  <2>5. Lefts(0)'
    BY <1>3, <2>1, <2>2, <2>3, <2>4 DEF Lefts, Left
  <2>. QED  BY <1>3, <2>1, <2>5 DEF Masks
<1>. QED  BY <1>6, <1>7, <1>8, <1>9, <1>10, <1>11, IssueSteps

\* The invariant holds until a reset.
LEMMA IsaInvStep ==
    ASSUME NEW wr \in CoreWrite, Tick(wr)
    PROVE  IsaInv'
  BY OverridesStep, CopiesStep, FetchedStep, InLoopStep, MasksStep DEF IsaInv, Tick

-----------------------------------------------------------------------------
(* The refinement: each clock is a step of SvIsa, or of none of its        *)
(* variables.                                                              *)

\* Between PRED_SKIP and EXECUTE_WAIT the description of the instruction stays.
LEMMA StaysDescribed ==
    ASSUME NEW wr \in CoreWrite, Tick(wr), looping, looping'
    PROVE  /\ isaPrefixed' = isaPrefixed /\ isaLooping' = isaLooping
           /\ isaSrc' = isaSrc /\ isaDst' = isaDst
<1>1. issue \notin {"PRED_START", "MASK_WAIT", "INSN_WAIT"} /\ ~fetch_pc_i_valid
  BY DEF looping, fetch_pc_i_valid
<1>2. insn' = insn /\ is_svp64_mode' = is_svp64_mode
  BY <1>1, FetchRests
<1>3. new_srcmask' = new_srcmask /\ new_dstmask' = new_dstmask
  BY <1>1, PredRests
<1>. QED  BY <1>2, <1>3 DEF isaPrefixed, isaLooping, isaSrc, isaDst, Selected

\* Outside it there is none.
LEMMA NotDescribed ==
    ASSUME ~looping, ~looping'
    PROVE  /\ isaPrefixed' = isaPrefixed /\ isaLooping' = isaLooping
           /\ isaSrc' = isaSrc /\ isaDst' = isaDst
  BY DEF isaPrefixed, isaLooping, isaSrc, isaDst

\* The instruction ends: its description is dropped.
LEMMA EndsIdleIsa ==
    ASSUME NEW wr \in CoreWrite, Tick(wr), ~wasReset', Ends(wr)
    PROVE  /\ isaSt' = "idle" /\ ~isaPrefixed' /\ ~isaLooping'
           /\ isaSrc' = {} /\ isaDst' = {} /\ ~isaRedirected'
  BY EndsIdle DEF isaSt, looping, isaPrefixed, isaLooping, isaSrc, isaDst, isaRedirected

\* A fetch.
LEMMA FetchIsa ==
    ASSUME NEW wr \in CoreWrite, Tick(wr), ~wasReset, ~wasReset', fetch_pc_i_valid
    PROVE  ForLoop!Fetch
<1>1. issue = "ISSUE_START" /\ issue' = "INSN_WAIT" /\ regPc' = regPc /\ regSv' = regSv
  BY FetchReads
<1>2. isaSt = "idle" /\ isaSt' = "fetch" /\ isaRedirected' = isaRedirected /\ ~looping /\ ~looping'
  BY <1>1 DEF isaSt, isaRedirected, looping
<1>. QED  BY <1>1, <1>2, NotDescribed DEF ForLoop!Fetch

\* Stopped, or waiting for the core: the debugger or the core may write.
LEMMA WriteIsa ==
    ASSUME NEW wr \in CoreWrite, Tick(wr), ~wasReset, ~wasReset',
           issue' = issue, issue \in {"ISSUE_START", "EXECUTE_WAIT"}, ~fetch_pc_i_valid,
           issue = "EXECUTE_WAIT" => changed'
    PROVE  ForLoop!Write
<1>1. isaSt' = isaSt /\ isaSt \in {"idle", "lane"} /\ (isaSt = "lane" <=> issue = "EXECUTE_WAIT")
  BY DEF isaSt
<1>2. isaRedirected' = (isaSt = "lane")
  BY <1>1 DEF isaRedirected, changed
<1>3. /\ isaPrefixed' = isaPrefixed /\ isaLooping' = isaLooping
      /\ isaSrc' = isaSrc /\ isaDst' = isaDst
  BY StaysDescribed, NotDescribed DEF looping
<1>4. regPc' \in 0 .. NPC - 1
      /\ regSv' \in [vl : 0 .. W, srcstep : 0 .. 2 * W - 1, dststep : 0 .. 2 * W - 1]
  BY DEF Tick, IssuerInv, TypeOK, PC, SvState, Step
<1>. QED  BY <1>1, <1>2, <1>3, <1>4 DEF ForLoop!Write, ForLoop!Steps

\* Nothing written, nothing changed.
Stutters == UNCHANGED ForLoop!isaVars

\* A stopped core, written by the debugger or not.
LEMMA StoppedIsa ==
    ASSUME NEW wr \in CoreWrite, Tick(wr), ~wasReset, ~wasReset', IssueStopped(wr)
    PROVE  ForLoop!Write \/ Stutters
<1>1. issue' = issue /\ issue \in {"ISSUE_START", "EXECUTE_WAIT"} /\ ~fetch_pc_i_valid
  BY DEF IssueStopped, core_stopped_i, fetch_pc_i_valid
<1>2. CASE issue = "EXECUTE_WAIT" => changed'
  BY <1>1, <1>2, WriteIsa
<1>3. CASE issue = "EXECUTE_WAIT" /\ ~changed'
  <2>1. ~changed /\ pc_i = None /\ svstate_i = None /\ wr.pc = None /\ wr.sv = None
    BY <1>3, ChangedKept, CoreWrites DEF IssueStopped, changed, debugger_pc, debugger_sv
  <2>2. regPc' = regPc /\ regSv' = regSv
    BY <2>1, RegsWritten DEF IssueStopped
  <2>3. isaSt' = isaSt /\ isaRedirected' = isaRedirected /\ looping /\ looping'
    BY <1>1, <1>3, <2>1 DEF isaSt, isaRedirected, looping, changed
  <2>. QED  BY <2>2, <2>3, StaysDescribed DEF Stutters, ForLoop!isaVars
<1>. QED  BY <1>2, <1>3

\* The instruction and its predicates are known.
LEMMA BeginIsa ==
    ASSUME NEW wr \in CoreWrite, Tick(wr), ~wasReset, ~wasReset',
           IssueMask(wr), issue' = "PRED_SKIP"
    PROVE  ForLoop!Begin
<1>1. issue = "MASK_WAIT" /\ Waits(wr)
  BY DEF IssueMask, Waits
<1>2. regPc' = regPc /\ regSv' = regSv /\ ~fetch_pc_i_valid
  BY <1>1, WaitsHold, CoreWrites
<1>3. insn' = insn /\ is_svp64_mode' = is_svp64_mode
  BY <1>1, <1>2, FetchRests
<1>4. isaSt = "fetch" /\ isaSt' = "loop" /\ isaRedirected' = isaRedirected /\ looping'
  BY <1>1 DEF isaSt, isaRedirected, looping
<1>5. isaPrefixed' \in BOOLEAN /\ isaLooping' \in BOOLEAN /\ (isaLooping' => isaPrefixed')
  BY <1>1, <1>3, <1>4 DEF isaPrefixed, isaLooping, Tick, IsaInv, Fetched
<1>6. isaSrc' \in SUBSET ForLoop!Steps /\ isaDst' \in SUBSET ForLoop!Steps
  <2>1. Lane \subseteq Step /\ Step = ForLoop!Steps
    BY WidthAssumption DEF Lane, Step, ForLoop!Steps
  <2>2. new_srcmask' \subseteq Lane /\ new_dstmask' \subseteq Lane
    BY DEF Tick, IssuerInv, TypeOK
  <2>. QED  BY <2>1, <2>2 DEF isaSrc, isaDst, Selected
<1>7. isaPrefixed' => regSv.vl > 0
  BY <1>1, <1>3 DEF isaPrefixed, Tick, IsaInv, InLoop, Copies
<1>. QED  BY <1>2, <1>4, <1>5, <1>6, <1>7 DEF ForLoop!Begin

\* The other waiting steps.
LEMMA WaitsIsa ==
    ASSUME NEW wr \in CoreWrite, Tick(wr), ~wasReset, ~wasReset', Waits(wr)
    PROVE  ForLoop!Begin \/ ForLoop!Scalar \/ ForLoop!Write \/ Stutters
<1>1. /\ regPc' = IF wr.pc # None THEN wr.pc ELSE regPc
      /\ regSv' = IF wr.sv # None THEN wr.sv ELSE regSv
      /\ ~fetch_pc_i_valid
  BY WaitsHold
<1>2. issue # "EXECUTE_WAIT" => regPc' = regPc /\ regSv' = regSv
  BY <1>1, CoreWrites
<1>3. CASE IssueMask(wr) /\ issue' = "PRED_SKIP"
  BY <1>3, BeginIsa
<1>4. CASE IssueScalar(wr)
  <2>1. issue = "PRED_SKIP" /\ issue' = "DECODE_SV" /\ ~is_svp64_mode
    BY <1>4 DEF IssueScalar
  <2>2. /\ isaSt = "loop" /\ isaSt' = "lane" /\ ~isaPrefixed /\ looping /\ looping'
        /\ isaRedirected' = isaRedirected
    BY <2>1 DEF isaSt, isaPrefixed, isaRedirected, looping
  <2>. QED  BY <1>2, <2>1, <2>2, StaysDescribed DEF ForLoop!Scalar
<1>5. CASE IssueExecWait(wr)
  <2>1. issue = "EXECUTE_WAIT" /\ issue' = "EXECUTE_WAIT"
    BY <1>5 DEF IssueExecWait, exec_pc_i_ready
  <2>2. CASE changed'
    BY <1>1, <2>1, <2>2, WriteIsa
  <2>3. CASE ~changed'
    <3>1. ~changed /\ wr.pc = None /\ wr.sv = None
      BY <2>1, <2>3, ChangedKept, CoreWrites DEF changed
    <3>2. isaSt' = isaSt /\ isaRedirected' = isaRedirected /\ looping /\ looping'
      BY <2>1, <2>3, <3>1 DEF isaSt, isaRedirected, looping, changed
    <3>. QED  BY <1>1, <3>1, <3>2, StaysDescribed DEF Stutters, ForLoop!isaVars
  <2>. QED  BY <2>2, <2>3
<1>6. CASE IssueDecode(wr) \/ IssueExecute(wr)
  <2>1. issue \in {"DECODE_SV", "INSN_EXECUTE"} /\ issue' \in {"INSN_EXECUTE", "EXECUTE_WAIT"}
    BY <1>6 DEF IssueDecode, IssueExecute
  <2>2. issue' = "EXECUTE_WAIT" => ~pc_changed' /\ ~sv_changed'
    <3>1. issue' = "EXECUTE_WAIT" => exec_insn_i_valid
      BY <2>1, IssueMoves DEF Tick
    <3>2. exec = "INSN_START"
      BY <2>1 DEF Tick, IssuerInv, Coupled, TypeOK, ExecStates
    <3>. QED  BY <3>1, <3>2 DEF Tick, ExecStep, ExecIdle, ExecStart, ExecActive
  <2>3. isaSt' = isaSt /\ isaRedirected' = isaRedirected /\ looping /\ looping'
    BY <2>1, <2>2 DEF isaSt, isaRedirected, looping
  <2>. QED  BY <1>2, <2>1, <2>3, StaysDescribed DEF Stutters, ForLoop!isaVars
<1>7. CASE IssueInsnWait(wr) \/ IssueInsn(wr) \/ IssuePred(wr) \/ (IssueMask(wr) /\ issue' # "PRED_SKIP")
  <2>1. /\ issue \in {"INSN_WAIT", "PRED_START", "MASK_WAIT"}
        /\ issue' \in {"INSN_WAIT", "PRED_START", "MASK_WAIT"}
    BY <1>7 DEF IssueInsnWait, IssueInsn, IssuePred, IssueMask
  <2>2. isaSt' = isaSt /\ isaRedirected' = isaRedirected /\ ~looping /\ ~looping'
    BY <2>1 DEF isaSt, isaRedirected, looping
  <2>. QED  BY <1>2, <2>1, <2>2, NotDescribed DEF Stutters, ForLoop!isaVars
<1>. QED  BY <1>3, <1>4, <1>5, <1>6, <1>7 DEF Waits

\* How an instruction ends.
LEMMA EndsIsa ==
    ASSUME NEW wr \in CoreWrite, Tick(wr), ~wasReset, ~wasReset', Ends(wr)
    PROVE  ForLoop!Nothing \/ ForLoop!Finish \/ ForLoop!Redirect \/ ForLoop!Retire
<1>1. ForLoop!Idle
  BY EndsIdleIsa DEF ForLoop!Idle
<1>2. regSv \in SvState
  BY DEF Tick, IssuerInv, TypeOK
<1>3. CASE IssueVlZero(wr)
  <2>1. issue = "INSN_WAIT" /\ fetch = "INSN_READY" /\ is_svp64_mode /\ curSv.vl = 0
        /\ issue' = "ISSUE_START"
    BY <1>3 DEF IssueVlZero, fetch_insn_o_valid
  <2>2. nia = (regPc + 2) % NPC /\ regSv.vl = 0
    BY <2>1 DEF Tick, IsaInv, Fetched, Copies, InsnSize
  <2>3. regPc' = nia /\ regSv' = regSv
    BY <1>3, EndsWrite
  <2>4. /\ isaSt = "fetch" /\ isaSt' = "idle" /\ isaRedirected' = isaRedirected
        /\ ~looping /\ ~looping'
    BY <2>1 DEF isaSt, isaRedirected, looping
  <2>. QED  BY <2>2, <2>3, <2>4, NotDescribed DEF ForLoop!Nothing
<1>4. CASE IssueLoopEnd(wr)
  <2>1. issue = "PRED_SKIP" /\ is_svp64_mode /\ PastEnd
    BY <1>4 DEF IssueLoopEnd
  <2>2. isaSt = "loop" /\ isaPrefixed /\ looping
    BY <2>1 DEF isaSt, isaPrefixed, looping
  <2>3. curSv = regSv /\ curPc = regPc /\ curSv.vl \in Nat
    BY <2>1 DEF Tick, IsaInv, Copies, Within, Lane
  <2>4. nia = (regPc + 2) % NPC
    BY <2>1, <2>3 DEF Tick, IsaInv, Fetched, InsnSize
  <2>5. regPc' = nia /\ regSv' = ZeroSteps(regSv)
    BY <1>4, <2>3, EndsWrite
  <2>6. ~(ForLoop!InVector(isaSrc, regSv.srcstep) /\ ForLoop!InVector(isaDst, regSv.dststep))
    <3>1. skip_srcstep \in Nat /\ skip_dststep \in Nat
      BY StepTypes, WidthAssumption DEF Step, Tick, IssuerInv
    <3>2. ~(skip_srcstep < curSv.vl) \/ ~(skip_dststep < curSv.vl)
      BY <2>1, <2>3, <3>1 DEF PastEnd
    <3>3. isaSrc = Selected(insn.sz, new_srcmask) /\ isaDst = Selected(insn.dz, new_dstmask)
      BY <2>2 DEF isaSrc, isaDst
    <3>. QED  BY <2>1, <2>3, <3>2, <3>3, LaneSkips DEF ForLoop!InVector
  <2>. QED  BY <1>1, <2>2, <2>4, <2>5, <2>6
       DEF ForLoop!Finish, ForLoop!After, ForLoop!Rewound, ZeroSteps
<1>5. CASE IssueChanged(wr)
  <2>1. issue = "EXECUTE_WAIT" /\ changed
    BY <1>5 DEF IssueChanged, exec_pc_i_ready, changed
  <2>2. isaSt = "lane" /\ isaRedirected
    BY <2>1 DEF isaSt, isaRedirected, changed
  <2>. QED  BY <1>1, <1>5, <2>2, EndsWrite DEF ForLoop!Redirect
<1>6. CASE IssueRetire(wr)
  <2>1. issue = "EXECUTE_WAIT" /\ ~changed /\ (insn.loop => next_srcstep = curSv.vl)
    BY <1>6 DEF IssueRetire, exec_pc_i_ready, changed, is_last
  <2>2. isaSt = "lane" /\ ~isaRedirected /\ looping
    BY <2>1 DEF isaSt, isaRedirected, changed, looping
  <2>3. curSv = regSv /\ curPc = regPc /\ curSv.srcstep \in Lane
    BY <2>1 DEF Tick, IsaInv, Copies, Within
  <2>4. next_srcstep = regSv.srcstep + 1
    BY <2>3, WidthAssumption DEF next_srcstep, AddStep, Lane
  <2>5. nia = (regPc + IF isaPrefixed THEN 2 ELSE 1) % NPC
    <3>1. isaPrefixed <=> is_svp64_mode
      BY <2>2 DEF isaPrefixed
    <3>. QED  BY <2>1, <2>3, <3>1 DEF Tick, IsaInv, Fetched, InsnSize
  <2>6. isaLooping <=> insn.loop
    BY <2>2 DEF isaLooping
  <2>7. regPc' = nia /\ regSv' = IF isaLooping THEN ZeroSteps(regSv) ELSE regSv
    BY <1>6, <2>3, <2>6, EndsWrite
  <2>. QED  BY <1>1, <2>1, <2>2, <2>3, <2>4, <2>5, <2>6, <2>7
       DEF ForLoop!Retire, ForLoop!After, ForLoop!Rewound, ZeroSteps
<1>. QED  BY <1>3, <1>4, <1>5, <1>6 DEF Ends

\* A lane is chosen.
LEMMA LaneIsa ==
    ASSUME NEW wr \in CoreWrite, Tick(wr), ~wasReset, ~wasReset', IssueLane(wr)
    PROVE  ForLoop!Lane
<1>1. issue = "PRED_SKIP" /\ is_svp64_mode /\ issue' = "DECODE_SV"
  BY DEF IssueLane
<1>2. /\ isaSt = "loop" /\ isaSt' = "lane" /\ isaPrefixed /\ looping /\ looping'
      /\ isaRedirected' = isaRedirected
  BY <1>1 DEF isaSt, isaPrefixed, looping, isaRedirected
<1>3. isaSrc = Selected(insn.sz, new_srcmask) /\ isaDst = Selected(insn.dz, new_dstmask)
  BY <1>2 DEF isaSrc, isaDst
<1>4. /\ regSv' = [regSv EXCEPT !.srcstep = skip_srcstep, !.dststep = skip_dststep]
      /\ regPc' = regPc /\ curSv = regSv
      /\ skip_srcstep < curSv.vl /\ skip_dststep < curSv.vl
  BY LaneIssued
<1>5. /\ ForLoop!InVector(isaSrc, regSv.srcstep) /\ ForLoop!InVector(isaDst, regSv.dststep)
      /\ ForLoop!First(isaSrc, regSv.srcstep) = skip_srcstep
      /\ ForLoop!First(isaDst, regSv.dststep) = skip_dststep
  BY <1>1, <1>3, <1>4, LaneSkips DEF ForLoop!InVector
<1>. QED  BY <1>2, <1>4, <1>5, StaysDescribed DEF ForLoop!Lane

\* The loop goes round.
LEMMA NextLaneIsa ==
    ASSUME NEW wr \in CoreWrite, Tick(wr), ~wasReset, ~wasReset', IssueNextLane(wr)
    PROVE  ForLoop!NextLane
<1>1. issue = "EXECUTE_WAIT" /\ ~changed /\ issue' = "PRED_SKIP" /\ insn.loop
  BY DEF IssueNextLane, exec_pc_i_ready, changed
<1>2. /\ isaSt = "lane" /\ isaSt' = "loop" /\ ~isaRedirected /\ isaLooping /\ looping /\ looping'
      /\ isaRedirected' = isaRedirected
  BY <1>1 DEF isaSt, isaLooping, looping, isaRedirected, changed
<1>3. /\ regSv' = [regSv EXCEPT !.srcstep = regSv.srcstep + 1, !.dststep = regSv.dststep + 1]
      /\ regPc' = regPc /\ regSv.srcstep + 1 # regSv.vl
  BY NextLaneTaken
<1>. QED  BY <1>2, <1>3, StaysDescribed DEF ForLoop!NextLane

\* Every clock without a reset.
LEMMA TickIsa ==
    ASSUME NEW wr \in CoreWrite, Tick(wr), ~wasReset, ~wasReset'
    PROVE  ForLoop!IsaNext \/ Stutters
<1>1. CASE fetch_pc_i_valid
  BY <1>1, FetchIsa DEF ForLoop!IsaNext
<1>2. CASE ~fetch_pc_i_valid
  BY <1>2, IssueSteps, StoppedIsa, WaitsIsa, EndsIsa, LaneIsa, NextLaneIsa DEF ForLoop!IsaNext
<1>. QED  BY <1>1, <1>2

\* Until a reset the issuer implements the for-loop of SvIsa, for every number
\* of lanes, memory, predicate and debugger that waits for the stop and writes
\* an SVSTATE whose VL and steps are lanes.
THEOREM ImplementsIsaAlways ==
    ASSUME WaitsForStop, \A v \in SvIn : Within(v)
    PROVE  HistSpec => ImplementsIsa
<1>. DEFINE Until == ~wasReset => IsaInv
<1>1. HistInit => Until /\ ForLoop!IsaInit
  <2>. SUFFICES ASSUME HistInit  PROVE Until /\ ForLoop!IsaInit
    OBVIOUS
  <2>1. Init /\ wasReset = FALSE
    BY DEF HistInit
  <2>2. Within(Sv0)
    BY WidthAssumption DEF Within, Sv0, Lane
  <2>3. ~core_rst_o /\ Overrides /\ Copies /\ Fetched /\ InLoop /\ Masks
    BY <2>1, <2>2 DEF Init, DbgInit, core_rst_o, Overrides, Copies, Fetched, InLoop, Masks
  <2>4. ForLoop!IsaInit
    BY <2>1 DEF Init, ForLoop!IsaInit, isaSt, isaPrefixed, isaLooping, isaSrc, isaDst,
                isaRedirected, looping, Sv0
  <2>. QED  BY <2>3, <2>4 DEF IsaInv
<1>2. ASSUME IssuerInv, IssuerInv', Until, [HistNext]_<<vars, wasReset>>
      PROVE  Until' /\ [ForLoop!IsaNext]_(ForLoop!isaVars)
  <2>1. CASE UNCHANGED <<vars, wasReset>>
    <3>1. /\ isaSt' = isaSt /\ regPc' = regPc /\ regSv' = regSv /\ isaPrefixed' = isaPrefixed
          /\ isaLooping' = isaLooping /\ isaSrc' = isaSrc /\ isaDst' = isaDst
          /\ isaRedirected' = isaRedirected
      BY <2>1 DEF vars, fsmVars, maskVars, isaSt, isaPrefixed, isaLooping, isaSrc, isaDst,
                  isaRedirected, looping, Selected
    <3>2. core_rst_o' = core_rst_o /\ quiet' = quiet /\ changed' = changed
      BY <2>1 DEF vars, fsmVars, dbgVars, core_rst_o, quiet, core_stopped_i, halted,
                  core_stop_o, changed
    <3>3. /\ Overrides => Overrides'
          /\ Copies => Copies'
          /\ Fetched => Fetched'
          /\ InLoop => InLoop'
      BY <2>1, <3>2 DEF vars, fsmVars, Overrides, Copies, Within, Fetched, InLoop
    <3>4. Masks => Masks'
      BY <2>1, <3>2 DEF vars, fsmVars, maskVars, Masks, Lefts, Left
    <3>5. wasReset' = wasReset
      BY <2>1
    <3>. QED  BY <1>2, <3>1, <3>2, <3>3, <3>4, <3>5 DEF IsaInv, ForLoop!isaVars
  <2>2. CASE HistNext /\ ~wasReset'
    <3>1. ~wasReset /\ ~core_rst_o' /\ Next
      BY <2>2 DEF HistNext
    <3>2. PICK wr \in CoreWrite : Tick(wr)
      BY <1>2, <3>1 DEF Next, Tick
    <3>. QED  BY <2>2, <3>1, <3>2, IsaInvStep, TickIsa DEF Stutters
  <2>3. CASE HistNext /\ wasReset'
    BY <2>3 DEF ForLoop!IsaNext, ForLoop!Reset, isaSt
  <2>. QED  BY <1>2, <2>1, <2>2, <2>3
<1>3. HistSpec => Spec
  <2>1. HistInit => Init
    BY DEF HistInit
  <2>2. [HistNext]_<<vars, wasReset>> => [Next]_vars
    BY DEF HistNext
  <2>. QED  BY <2>1, <2>2, PTL DEF HistSpec, Spec
<1>. QED  BY <1>1, <1>2, <1>3, Invariance, PTL DEF HistSpec, ImplementsIsa, ForLoop!IsaSpec
=============================================================================
