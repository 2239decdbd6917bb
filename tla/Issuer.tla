------------------------------- MODULE Issuer -------------------------------
(***************************************************************************)
(* TestIssuerInternal (src/soc/simple/issuer.py): the fetch, predicate,    *)
(* issue and execute state machines, the PC and SVSTATE registers they     *)
(* share, and the debug module that stops, steps and resets them.          *)
(*                                                                         *)
(* One step is one clock: every machine takes the branch of the state it   *)
(* is in, on the wires of this clock.  Addresses count 32-bit words.       *)
(***************************************************************************)
EXTENDS CoreDebug

CONSTANTS
    W,            \* bits of a predicate mask (64 in the code)
    NPC,          \* number of word addresses; the PC wraps at NPC
    Insns,        \* the instructions memory may hold: a subset of Insn
    PcIn, SvIn,   \* what a debugger, a branch or an rfid may write
    WaitsForStop, \* the debugger resets, and overrides, only a stopped core
    None

Lane == 0 .. W - 1
Step == 0 .. 2 * W - 1            \* srcstep, dststep: one bit more than a lane
PC == 0 .. NPC - 1
SvState == [vl : 0 .. W, srcstep : Step, dststep : Step]
Sv0 == [vl |-> 0, srcstep |-> 0, dststep |-> 0]

\* What the decoders say of an instruction: prefixed (SVP64) or not; what the
\* core does with it; whether it loops (loop_continue); the predicate mode,
\* with dall1s/sall1s; zeroing of source and destination (pred_sz, pred_dz).
Insn == [prefixed : BOOLEAN, kind : {"op", "branch", "rfid", "attn"},
         loop : BOOLEAN, predmode : {"ALWAYS", "INT", "CR"},
         sall1s : BOOLEAN, dall1s : BOOLEAN, sz : BOOLEAN, dz : BOOLEAN]
NoInsn == [prefixed |-> FALSE, kind |-> "op", loop |-> FALSE,
           predmode |-> "ALWAYS", sall1s |-> TRUE, dall1s |-> TRUE,
           sz |-> FALSE, dz |-> FALSE]

ASSUME WidthAssumption == W \in Nat \ {0} /\ NPC \in Nat \ {0}
\* Only prefixed instructions loop.
ASSUME InputAssumption == /\ Insns \subseteq Insn
                          /\ \A i \in Insns : i.loop => i.prefixed
                          /\ PcIn \subseteq PC
                          /\ SvIn \subseteq SvState
                          /\ WaitsForStop \in BOOLEAN
ASSUME NoneAssumption == None \notin PC \cup SvState

VARIABLES
    fetch, pred, issue, exec,       \* the states of the four FSMs
    curPc, curSv,                   \* cur_state.pc, cur_state.svstate
    nia,                            \* address of the next instruction
    insn,                           \* dec_opcode_i and sv_rm, decoded
    is_svp64_mode,                  \* the instruction is prefixed
    dec_svp64,                      \* pdecode2.is_svp64_mode
    srcmask, dstmask,               \* predicate masks, shifted as they are used
    new_srcmask, new_dstmask,       \* predicate masks as fetched
    cr_idx, cr_read,                \* loop of CR_READ
    pc_changed, sv_changed,
    regPc, regSv,                   \* PC and SVSTATE of the STATE regfile
    pc_rd, sv_rd,                   \* what they returned for a read in the last
                                    \* clock; None when there was no read
    pc_i, svstate_i,                \* inputs: override, or None when not "ok"
    coreBusy, core_terminate_o      \* the core behind the execute FSM

fsmVars == <<fetch, pred, issue, exec>>
maskVars == <<srcmask, dstmask, new_srcmask, new_dstmask, cr_idx, cr_read>>
vars == <<fsmVars, maskVars, curPc, curSv, nia, insn, is_svp64_mode, dec_svp64,
          pc_changed, sv_changed, regPc, regSv, pc_rd, sv_rd, pc_i, svstate_i,
          coreBusy, core_terminate_o, dbgVars>>

FetchStates == {"IDLE", "INSN_READ", "INSN_READ2", "INSN_READY"}
PredStates == {"FETCH_PRED_IDLE", "INT_DST_READ", "INT_SRC_READ", "CR_READ",
               "FETCH_PRED_SHIFT_MASK", "FETCH_PRED_DONE"}
IssueStates == {"ISSUE_START", "INSN_WAIT", "PRED_START", "MASK_WAIT",
                "PRED_SKIP", "DECODE_SV", "INSN_EXECUTE", "EXECUTE_WAIT"}
ExecStates == {"INSN_START", "INSN_ACTIVE"}

TypeOK ==
    /\ fetch \in FetchStates /\ pred \in PredStates
    /\ issue \in IssueStates /\ exec \in ExecStates
    /\ curPc \in PC /\ curSv \in SvState /\ nia \in PC
    /\ insn \in Insn
    /\ is_svp64_mode \in BOOLEAN /\ dec_svp64 \in BOOLEAN
    /\ srcmask \subseteq Lane /\ dstmask \subseteq Lane
    /\ new_srcmask \subseteq Lane /\ new_dstmask \subseteq Lane
    /\ cr_idx \in Step /\ cr_read \in BOOLEAN
    /\ pc_changed \in BOOLEAN /\ sv_changed \in BOOLEAN
    /\ regPc \in PC /\ regSv \in SvState /\ pc_rd \in PC \cup {None} /\ sv_rd \in SvState \cup {None}
    /\ pc_i \in PC \cup {None} /\ svstate_i \in SvState \cup {None}
    /\ coreBusy \in BOOLEAN /\ core_terminate_o \in BOOLEAN
    /\ DbgTypeOK

Init ==
    /\ fetch = "IDLE" /\ pred = "FETCH_PRED_IDLE"
    /\ issue = "ISSUE_START" /\ exec = "INSN_START"
    /\ curPc = 0 /\ curSv = Sv0 /\ nia = 0
    /\ insn = NoInsn /\ is_svp64_mode = FALSE /\ dec_svp64 = FALSE
    /\ srcmask = {} /\ dstmask = {} /\ new_srcmask = {} /\ new_dstmask = {}
    /\ cr_idx = 0 /\ cr_read = FALSE
    /\ pc_changed = FALSE /\ sv_changed = FALSE
    /\ regPc = 0 /\ regSv = Sv0 /\ pc_rd = None /\ sv_rd = None
    /\ pc_i = None /\ svstate_i = None
    /\ coreBusy = FALSE /\ core_terminate_o = FALSE
    /\ DbgInit

-----------------------------------------------------------------------------
(* Wires.                                                                  *)

\* The issue FSM holds at its two checkpoints while the core is stopped.
halted == core_stop_o \/ core_rst_o
\* Mutant: no acknowledgement in EXECUTE_WAIT.
core_stopped_i_start_only == halted /\ issue = "ISSUE_START"
core_stopped_i == halted /\ issue \in {"ISSUE_START", "EXECUTE_WAIT"}

\* The ready/valid handshakes of the four FSMs.
fetch_pc_i_valid == issue = "ISSUE_START" /\ ~halted
fetch_pc_o_ready == fetch = "IDLE"
fetch_insn_o_valid == fetch = "INSN_READY"
fetch_insn_i_ready == issue = "INSN_WAIT"
pred_insn_i_valid == issue = "PRED_START"
pred_insn_o_ready == pred = "FETCH_PRED_IDLE"
\* Mutant: valid a clock early.
pred_mask_o_valid_early == pred = "FETCH_PRED_SHIFT_MASK"
pred_mask_o_valid == pred = "FETCH_PRED_DONE"
pred_mask_i_ready == issue = "MASK_WAIT"
exec_insn_i_valid == issue = "INSN_EXECUTE"
exec_insn_o_ready == exec = "INSN_START"
exec_pc_o_valid == exec = "INSN_ACTIVE" /\ ~coreBusy
\* Mutant: ready although stopped.
exec_pc_i_ready_stopped == issue = "EXECUTE_WAIT"
exec_pc_i_ready == issue = "EXECUTE_WAIT" /\ ~halted

\* state_get.  The clock after a read is made (none is with an override, or in
\* a reset) its result is taken, even over an override that arrives then.
\* Mutant: the override taken without its "ok".
StateGetNotOk(rd, override, zero) ==
    CASE core_rst_o -> zero
      [] ~core_rst_o /\ rd # None -> rd
      [] OTHER -> override
StateGet(rd, override, zero) ==
    CASE core_rst_o -> zero
      [] ~core_rst_o /\ rd # None -> rd
      [] ~core_rst_o /\ rd = None /\ override # None -> override
      [] OTHER -> zero
pc == StateGet(pc_rd, pc_i, 0)
svstate == StateGet(sv_rd, svstate_i, Sv0)

\* What the read port holds next: a reset zeroes its data, not res_ok_delay.
StateRead(rd, override, value, zero) ==
    CASE core_rst_o -> IF rd = None THEN None ELSE zero
      [] ~core_rst_o /\ override # None -> None
      [] OTHER -> value

\* A mask shifted right, and its priority encoder (with the guard bit).
ShiftRight(mask, k) == {i \in Lane : i + k \in mask}
LeadingZeros(mask) ==
    IF mask = {} THEN W ELSE CHOOSE i \in mask : \A j \in mask : i <= j
AddStep(step, delta) == (step + delta) % (2 * W)

src_delta == IF insn.sz THEN 0 ELSE LeadingZeros(srcmask)
dst_delta == IF insn.dz THEN 0 ELSE LeadingZeros(dstmask)
skip_srcstep == AddStep(curSv.srcstep, src_delta)
skip_dststep == AddStep(curSv.dststep, dst_delta)
next_srcstep == AddStep(curSv.srcstep, 1)
next_dststep == AddStep(curSv.dststep, 1)
is_last == next_srcstep = curSv.vl

ZeroSteps(sv) == [sv EXCEPT !.srcstep = 0, !.dststep = 0]
SetSteps(sv, s, d) == [sv EXCEPT !.srcstep = s, !.dststep = d]
InsnSize(prefixed) == IF prefixed THEN 2 ELSE 1

-----------------------------------------------------------------------------
(* The core: external to the FSMs.  While busy with a branch or a trap it  *)
(* may write PC (port "nia"); an rfid writes SVSTATE (port "svstate") too. *)

CoreWrite == [pc : PcIn \cup {None}, sv : SvIn \cup {None}]

CoreStep(wr) ==
    /\ wr.pc # None => coreBusy /\ insn.kind \in {"branch", "rfid"}
    /\ (wr.sv # None) => (wr.pc # None /\ insn.kind = "rfid")
    /\ coreBusy' \in
         IF ~core_rst_o /\ exec_insn_i_valid /\ exec_insn_o_ready
           THEN IF insn.kind = "attn" THEN {FALSE} ELSE BOOLEAN
           ELSE {FALSE, coreBusy /\ ~core_rst_o}
    /\ core_terminate_o' =
         (/\ ~core_rst_o
          /\ \/ core_terminate_o
             \/ /\ insn.kind = "attn"
                /\ exec = "INSN_ACTIVE" \/ exec_insn_i_valid)

\* The STATE regfile and its read ports.  With two writes in one clock the
\* issuer's port, the last one declared, wins.  A read returns what is being
\* written.
Latch(issuer, core, old) ==
    IF issuer # None THEN issuer ELSE IF core # None THEN core ELSE old

Registers(wpc, wsv, wr) ==
    /\ regPc' = IF core_rst_o THEN 0 ELSE Latch(wpc, wr.pc, regPc)
    /\ regSv' = IF core_rst_o THEN Sv0 ELSE Latch(wsv, wr.sv, regSv)

\* Mutant: a read port that does not forward.
RegFileNoForward(wpc, wsv, wr) ==
    /\ Registers(wpc, wsv, wr)
    /\ pc_rd' = StateRead(pc_rd, pc_i, regPc, 0)
    /\ sv_rd' = StateRead(sv_rd, svstate_i, regSv, Sv0)

RegFile(wpc, wsv, wr) ==
    /\ Registers(wpc, wsv, wr)
    /\ pc_rd' = StateRead(pc_rd, pc_i, regPc', 0)
    /\ sv_rd' = StateRead(sv_rd, svstate_i, regSv', Sv0)

-----------------------------------------------------------------------------
(* fetch_fsm.  A reset clears cur_state and nia whatever the state does.   *)

FetchHold == /\ curPc' = IF core_rst_o THEN 0 ELSE curPc
             /\ nia' = IF core_rst_o THEN 0 ELSE nia
             /\ UNCHANGED <<insn, is_svp64_mode, dec_svp64>>

FetchIdle ==
    /\ fetch = "IDLE"
    /\ IF fetch_pc_i_valid
         THEN /\ fetch' = "INSN_READ"
              /\ curPc' = pc
              /\ UNCHANGED <<nia, insn, is_svp64_mode, dec_svp64>>
         ELSE fetch' = fetch /\ FetchHold

\* imem.f_busy_o: keep asking.
FetchBusy ==
    /\ fetch \in {"INSN_READ", "INSN_READ2"}
    /\ fetch' = fetch
    /\ FetchHold

\* The first word: an instruction, or the prefix of one.  The decoder's copy
\* of the flag is clocked in from is_svp64_mode in the same clock.
FetchInsn ==
    /\ fetch = "INSN_READ"
    /\ insn' \in Insns
    /\ fetch' = IF insn'.prefixed THEN "INSN_READ2" ELSE "INSN_READY"
    /\ is_svp64_mode' = insn'.prefixed
    /\ dec_svp64' = is_svp64_mode
    /\ nia' = IF core_rst_o THEN 0
              ELSE (curPc + InsnSize(insn'.prefixed)) % NPC
    /\ curPc' = IF core_rst_o THEN 0 ELSE curPc

FetchInsn2 ==
    /\ fetch = "INSN_READ2"
    /\ fetch' = "INSN_READY"
    /\ FetchHold

FetchReady ==
    /\ fetch = "INSN_READY"
    /\ fetch' = IF fetch_insn_i_ready THEN "IDLE" ELSE fetch
    /\ FetchHold

FetchStep == FetchIdle \/ FetchBusy \/ FetchInsn \/ FetchInsn2 \/ FetchReady

-----------------------------------------------------------------------------
(* fetch_predicate_fsm, and the masks it shares with PRED_SKIP.            *)

\* Mutant: the bit about to be used stays.
MaskHoldKeepsBit ==
    IF issue = "PRED_SKIP" /\ is_svp64_mode
      THEN /\ srcmask' = ShiftRight(srcmask, src_delta)
           /\ dstmask' = ShiftRight(dstmask, dst_delta)
      ELSE UNCHANGED <<srcmask, dstmask>>

\* PRED_SKIP shifts out the leading zeros and the one bit it is about to use.
MaskHold ==
    IF issue = "PRED_SKIP" /\ is_svp64_mode
      THEN /\ srcmask' = ShiftRight(srcmask, src_delta + 1)
           /\ dstmask' = ShiftRight(dstmask, dst_delta + 1)
      ELSE UNCHANGED <<srcmask, dstmask>>

PredIdle ==
    /\ pred = "FETCH_PRED_IDLE" /\ ~pred_insn_i_valid
    /\ pred' = pred
    /\ MaskHold
    /\ UNCHANGED <<new_srcmask, new_dstmask, cr_idx, cr_read>>

PredStartInt ==
    /\ pred = "FETCH_PRED_IDLE" /\ pred_insn_i_valid /\ insn.predmode = "INT"
    /\ pred' = IF insn.dall1s THEN "INT_SRC_READ" ELSE "INT_DST_READ"
    /\ new_dstmask' = IF insn.dall1s THEN Lane ELSE new_dstmask
    /\ MaskHold
    /\ UNCHANGED <<new_srcmask, cr_idx, cr_read>>

PredStartCr ==
    /\ pred = "FETCH_PRED_IDLE" /\ pred_insn_i_valid /\ insn.predmode = "CR"
    /\ pred' = "CR_READ"
    /\ new_srcmask' = {} /\ new_dstmask' = {}
    /\ MaskHold
    /\ UNCHANGED <<cr_idx, cr_read>>

PredStartAlways ==
    /\ pred = "FETCH_PRED_IDLE" /\ pred_insn_i_valid
    /\ insn.predmode = "ALWAYS"
    /\ pred' = "FETCH_PRED_DONE"
    /\ srcmask' = Lane /\ dstmask' = Lane
    /\ UNCHANGED <<new_srcmask, new_dstmask, cr_idx, cr_read>>

\* The register read in the previous clock, inverted or made unary: any mask.
PredIntDst ==
    /\ pred = "INT_DST_READ"
    /\ new_dstmask' \in SUBSET Lane
    /\ new_srcmask' = IF insn.sall1s THEN Lane ELSE new_srcmask
    /\ pred' = IF insn.sall1s THEN "FETCH_PRED_SHIFT_MASK" ELSE "INT_SRC_READ"
    /\ MaskHold
    /\ UNCHANGED <<cr_idx, cr_read>>

PredIntSrc ==
    /\ pred = "INT_SRC_READ"
    /\ new_srcmask' \in SUBSET Lane
    /\ pred' = "FETCH_PRED_SHIFT_MASK"
    /\ MaskHold
    /\ UNCHANGED <<new_dstmask, cr_idx, cr_read>>

\* One CR field per clock; the field asked for in the previous clock, of
\* index cr_idx - 1, arrives in this one.
CrBit(mask) ==
    IF cr_read THEN {mask, mask \cup ({cr_idx - 1} \cap Lane)} ELSE {mask}

PredCrRead ==
    /\ pred = "CR_READ"
    /\ IF cr_idx # curSv.vl
         THEN cr_read' = TRUE /\ cr_idx' = (cr_idx + 1) % (2 * W) /\ pred' = pred
         ELSE cr_read' = FALSE /\ cr_idx' = 0 /\ pred' = "FETCH_PRED_SHIFT_MASK"
    /\ new_srcmask' \in CrBit(new_srcmask)
    /\ new_dstmask' \in CrBit(new_dstmask)
    /\ MaskHold

PredShift ==
    /\ pred = "FETCH_PRED_SHIFT_MASK"
    /\ srcmask' = ShiftRight(new_srcmask, curSv.srcstep)
    /\ dstmask' = ShiftRight(new_dstmask, curSv.dststep)
    /\ pred' = "FETCH_PRED_DONE"
    /\ UNCHANGED <<new_srcmask, new_dstmask, cr_idx, cr_read>>

PredDone ==
    /\ pred = "FETCH_PRED_DONE"
    /\ pred' = IF pred_mask_i_ready THEN "FETCH_PRED_IDLE" ELSE pred
    /\ MaskHold
    /\ UNCHANGED <<new_srcmask, new_dstmask, cr_idx, cr_read>>

PredStep == \/ PredIdle \/ PredStartInt \/ PredStartCr \/ PredStartAlways
            \/ PredIntDst \/ PredIntSrc \/ PredCrRead \/ PredShift \/ PredDone
-----------------------------------------------------------------------------
(* issue_fsm: one action per branch.  wr is what the core writes meanwhile. *)

\* No write by the issuer; cur_state.svstate only changes in a reset.
IssueHold(wr) == /\ RegFile(None, None, wr)
                 /\ curSv' = IF core_rst_o THEN Sv0 ELSE curSv

\* update_svstate: to the regfile and, with priority over a reset, to curSv.
UpdateSvstate(wpc, sv, wr) == RegFile(wpc, sv, wr) /\ curSv' = sv

\* Let fetch go, from the PC and with the SVSTATE read in this clock.
IssueFetch(wr) ==
    /\ fetch_pc_i_valid
    /\ issue' = IF fetch_pc_o_ready THEN "INSN_WAIT" ELSE issue
    /\ curSv' = IF fetch_pc_o_ready THEN svstate ELSE curSv
    /\ RegFile(None, None, wr)

\* Mutant: update_svstate forgotten.
IssueStoppedPcOnly(wr) ==
    /\ core_stopped_i
    /\ issue' = issue
    /\ RegFile(pc_i, None, wr)
    /\ curSv' = IF core_rst_o THEN Sv0 ELSE curSv

\* Stopped at a checkpoint: the debugger may write PC and SVSTATE.
IssueStopped(wr) ==
    /\ core_stopped_i
    /\ issue' = issue
    /\ RegFile(pc_i, svstate_i, wr)
    /\ curSv' = IF svstate_i # None THEN svstate_i
                ELSE IF core_rst_o THEN Sv0 ELSE curSv

IssueInsnWait(wr) ==
    /\ issue = "INSN_WAIT" /\ ~fetch_insn_o_valid
    /\ issue' = issue
    /\ IssueHold(wr)

\* VL = 0: a loop without iterations.
IssueVlZero(wr) ==
    /\ issue = "INSN_WAIT" /\ fetch_insn_o_valid
    /\ is_svp64_mode /\ curSv.vl = 0
    /\ issue' = "ISSUE_START"
    /\ RegFile(nia, None, wr)
    /\ curSv' = IF core_rst_o THEN Sv0 ELSE curSv

IssueInsn(wr) ==
    /\ issue = "INSN_WAIT" /\ fetch_insn_o_valid
    /\ ~(is_svp64_mode /\ curSv.vl = 0)
    /\ issue' = "PRED_START"
    /\ IssueHold(wr)

IssuePred(wr) ==
    /\ issue = "PRED_START"
    /\ issue' = IF pred_insn_o_ready THEN "MASK_WAIT" ELSE issue
    /\ IssueHold(wr)

IssueMask(wr) ==
    /\ issue = "MASK_WAIT"
    /\ issue' = IF pred_mask_o_valid THEN "PRED_SKIP" ELSE issue
    /\ IssueHold(wr)

IssueScalar(wr) ==
    /\ issue = "PRED_SKIP" /\ ~is_svp64_mode
    /\ issue' = "DECODE_SV"
    /\ IssueHold(wr)

\* Mutant: only the source is compared.
PastEndSrc == skip_srcstep >= curSv.vl

\* Masked-out lanes skipped: past the end of the vector, or a lane to do.
PastEnd == skip_srcstep >= curSv.vl \/ skip_dststep >= curSv.vl

IssueLoopEnd(wr) ==
    /\ issue = "PRED_SKIP" /\ is_svp64_mode /\ PastEnd
    /\ issue' = "ISSUE_START"
    /\ UpdateSvstate(nia, ZeroSteps(curSv), wr)

IssueLane(wr) ==
    /\ issue = "PRED_SKIP" /\ is_svp64_mode /\ ~PastEnd
    /\ issue' = "DECODE_SV"
    /\ UpdateSvstate(None, SetSteps(curSv, skip_srcstep, skip_dststep), wr)

IssueDecode(wr) ==
    /\ issue = "DECODE_SV"
    /\ issue' = "INSN_EXECUTE"
    /\ IssueHold(wr)

IssueExecute(wr) ==
    /\ issue = "INSN_EXECUTE"
    /\ issue' = IF exec_insn_o_ready THEN "EXECUTE_WAIT" ELSE issue
    /\ IssueHold(wr)

IssueExecWait(wr) ==
    /\ exec_pc_i_ready /\ ~exec_pc_o_valid
    /\ issue' = issue
    /\ IssueHold(wr)

\* The instruction, or the debugger, wrote PC or SVSTATE: leave both alone.
IssueChanged(wr) ==
    /\ exec_pc_i_ready /\ exec_pc_o_valid
    /\ pc_changed \/ sv_changed
    /\ issue' = "ISSUE_START"
    /\ IssueHold(wr)

IssueRetire(wr) ==
    /\ exec_pc_i_ready /\ exec_pc_o_valid
    /\ ~(pc_changed \/ sv_changed)
    /\ ~insn.loop \/ is_last
    /\ issue' = "ISSUE_START"
    /\ IF insn.loop
         THEN UpdateSvstate(nia, ZeroSteps(curSv), wr)
         ELSE RegFile(nia, None, wr) /\ curSv' = curSv

IssueNextLane(wr) ==
    /\ exec_pc_i_ready /\ exec_pc_o_valid
    /\ ~(pc_changed \/ sv_changed)
    /\ insn.loop /\ ~is_last
    /\ issue' = "PRED_SKIP"
    /\ UpdateSvstate(None, SetSteps(curSv, next_srcstep, next_dststep), wr)

IssueStep(wr) ==
    \/ IssueFetch(wr) \/ IssueStopped(wr)
    \/ IssueInsnWait(wr) \/ IssueVlZero(wr) \/ IssueInsn(wr)
    \/ IssuePred(wr) \/ IssueMask(wr)
    \/ IssueScalar(wr) \/ IssueLoopEnd(wr) \/ IssueLane(wr)
    \/ IssueDecode(wr) \/ IssueExecute(wr)
    \/ IssueExecWait(wr) \/ IssueChanged(wr)
    \/ IssueRetire(wr) \/ IssueNextLane(wr)

-----------------------------------------------------------------------------
(* execute_fsm.  It watches the "nia" write port for changes of PC; its    *)
(* SVSTATE bit is never set there (SVSTATE has a port of its own).         *)

\* Mutant: pc_changed is set in ISSUE_START only.
debugger_pc_start_only == core_stopped_i /\ issue = "ISSUE_START" /\ pc_i # None
debugger_pc == core_stopped_i /\ pc_i # None
debugger_sv == core_stopped_i /\ svstate_i # None

ExecIdle ==
    /\ exec = "INSN_START" /\ ~exec_insn_i_valid
    /\ exec' = exec
    /\ pc_changed' = (pc_changed \/ debugger_pc)
    /\ sv_changed' = (sv_changed \/ debugger_sv)

ExecStart ==
    /\ exec = "INSN_START" /\ exec_insn_i_valid
    /\ exec' = "INSN_ACTIVE"
    /\ pc_changed' = FALSE /\ sv_changed' = FALSE

ExecActive(wr) ==
    /\ exec = "INSN_ACTIVE"
    /\ exec' = IF ~coreBusy /\ exec_pc_i_ready THEN "INSN_START" ELSE exec
    /\ pc_changed' = (pc_changed \/ wr.pc # None \/ debugger_pc)
    /\ sv_changed' = (sv_changed \/ debugger_sv)

ExecStep(wr) == ExecIdle \/ ExecStart \/ ExecActive(wr)

-----------------------------------------------------------------------------
(* The overrides for the next clock.  A debugger that keeps to the rule, as *)
(* simple/test/test_runner.py does, stops the core, waits until it reports *)
(* so (and long enough for what is in flight to finish) before it resets   *)
(* it, or changes an override other than during the reset, and withdraws   *)
(* the override when the core has started from it.                         *)

quiet == core_stopped_i /\ ~coreBusy

Inputs ==
    /\ pc_i' \in PcIn \cup {None}
    /\ svstate_i' \in SvIn \cup {None}
    /\ WaitsForStop =>
         /\ (~quiet \/ core_rst_o)' =>
              IF issue' = "INSN_WAIT" THEN pc_i' = None /\ svstate_i' = None
                                      ELSE UNCHANGED <<pc_i, svstate_i>>
         /\ do_reset' => quiet

Next ==
    \E wr \in CoreWrite :
        /\ DmiClock(core_terminate_o)
        /\ CoreStep(wr)
        /\ FetchStep
        /\ PredStep
        /\ IssueStep(wr)
        /\ ExecStep(wr)
        /\ Inputs

Spec == Init /\ [][Next]_vars
=============================================================================
