----------------------------- MODULE IssuerMC -----------------------------
(* What Issuer must satisfy, and its refinement of SvIsa. *)
EXTENDS Issuer

\* The four FSMs take turns: fetch, the predicate fetch and execute are away
\* from their rest state exactly while the issue FSM waits for them, and the
\* core is busy only while execute has an instruction active.  Nothing in the
\* code says so; it is why cur_state, the masks and the STATE regfile have a
\* single writer in a clock (the ready/valid pairs of the four FSMs).
Coupled == /\ fetch # "IDLE" <=> issue = "INSN_WAIT"
           /\ pred # "FETCH_PRED_IDLE" <=> issue = "MASK_WAIT"
           /\ exec = "INSN_ACTIVE" <=> issue = "EXECUTE_WAIT"
           /\ coreBusy => exec = "INSN_ACTIVE"

\* From OP_ATTN until the core is reset no instruction is fetched except in a
\* clock the debugger stepped: core_terminate_o reaches the issue FSM two
\* clocks late, and must still find it before the next fetch, even if a START
\* is written meanwhile.
AttnStops == core_terminate_o /\ fetch_pc_i_valid => do_step

\* A fetch starts at the override, or else at the PC of the STATE regfile as
\* last written by whoever wrote it, although the read is a clock late
\* (state_get, the forwarding regfile); the same for SVSTATE.
FetchFromState ==
    [][fetch = "IDLE" /\ fetch' # "IDLE" =>
          /\ curPc' = IF pc_i # None THEN pc_i ELSE regPc
          /\ curSv' = IF svstate_i # None THEN svstate_i ELSE regSv]_vars

\* A core parked at ISSUE_START by a stop is frozen: only the debugger moves
\* PC or SVSTATE, and they cannot change under it while it reads them.
ParkedFrozen ==
    [][issue = "ISSUE_START" /\ core_stop_o /\ ~core_rst_o =>
          /\ regPc' = IF pc_i # None THEN pc_i ELSE regPc
          /\ regSv' = IF svstate_i # None THEN svstate_i ELSE regSv
          /\ fetch' = fetch /\ exec' = exec /\ ~coreBusy']_vars

\* A stop that is left standing is acknowledged for good, wherever in an
\* instruction, in a vector loop or in a reset it arrives (core_stopped_i).
StopAcknowledged == <>[]core_stop_o => <>[]core_stopped_i

-----------------------------------------------------------------------------
(* Refinement.  The selected lanes are what the predicate FSM fetched, all *)
(* of them when it fetched nothing, and every step in a zeroing mode.      *)

Selected(zeroing, mask) ==
    IF zeroing THEN Step ELSE IF insn.predmode = "ALWAYS" THEN Lane ELSE mask

looping == issue \in {"PRED_SKIP", "DECODE_SV", "INSN_EXECUTE", "EXECUTE_WAIT"}

\* A reset clears the registers and not the FSMs, which carry on with what
\* they were doing: from the first one on, SvIsa says nothing.
VARIABLE wasReset

HistInit == Init /\ wasReset = FALSE
HistNext == Next /\ wasReset' = (wasReset \/ core_rst_o')
HistSpec == HistInit /\ [][HistNext]_<<vars, wasReset>>

\* The state and the variables of SvIsa.
isaSt == IF wasReset THEN "reset"
         ELSE IF issue = "ISSUE_START" THEN "idle"
         ELSE IF issue \in {"INSN_WAIT", "PRED_START", "MASK_WAIT"} THEN "fetch"
         ELSE IF issue = "PRED_SKIP" THEN "loop" ELSE "lane"
isaPrefixed == looping /\ is_svp64_mode
isaLooping == looping /\ insn.loop
isaSrc == IF looping THEN Selected(insn.sz, new_srcmask) ELSE {}
isaDst == IF looping THEN Selected(insn.dz, new_dstmask) ELSE {}
isaRedirected == issue = "EXECUTE_WAIT" /\ (pc_changed \/ sv_changed)

ForLoop == INSTANCE SvIsa WITH
    st <- isaSt, pc <- regPc, sv <- regSv,
    prefixed <- isaPrefixed, looping <- isaLooping,
    src <- isaSrc, dst <- isaDst, redirected <- isaRedirected

\* Until a reset the issuer implements the for-loop of SvIsa: each selected
\* lane exactly once, in order, source and destination each through their own
\* mask, and one advance of the PC (PRED_SKIP, EXECUTE_WAIT, the mask shifts).
\* It does so while VL < W: at VL = W the mask that is shifted out marks no end.
ImplementsIsa == ForLoop!IsaSpec

-----------------------------------------------------------------------------
(* Liveness: the clock ticks, memory answers, the core finishes.           *)

Fairness == /\ WF_vars(Next)
            /\ []<>(fetch \notin {"INSN_READ", "INSN_READ2"})
            /\ []<>~coreBusy

FairSpec == HistSpec /\ Fairness

\* While no debugger stops the core, every instruction that is fetched
\* retires, however many lanes and masks it goes through.
InsnRetires == (issue = "INSN_WAIT" /\ ~stopping)
                   ~> (issue = "ISSUE_START" \/ stopping)

-----------------------------------------------------------------------------
(* Small instances.                                                        *)

Branch == [NoInsn EXCEPT !.kind = "branch"]
Attn == [NoInsn EXCEPT !.kind = "attn"]
Rfid == [NoInsn EXCEPT !.kind = "rfid"]
Prefixed == [NoInsn EXCEPT !.prefixed = TRUE]

\* Debugging: scalar instructions and one vector one, every CTRL command.
Loop == [Prefixed EXCEPT !.loop = TRUE]
IntLoop == [Loop EXCEPT !.predmode = "INT", !.sall1s = FALSE, !.dall1s = FALSE]
DebugInsns == {Branch, Rfid, Attn, Loop}
DebugCtrl == {{"STOP"}, {"START"}, {"STEP"}, {"RESET"}}
DebugSv == {[vl |-> 1, srcstep |-> 0, dststep |-> 0]}
DebugPc == {2}

\* Vectors: every predicate mode, looping or not, zeroing or not.
LoopInsns == {Rfid, Loop, IntLoop,
    [IntLoop EXCEPT !.dall1s = TRUE, !.sz = TRUE],
    [IntLoop EXCEPT !.sall1s = TRUE, !.dz = TRUE],
    [IntLoop EXCEPT !.sall1s = TRUE, !.loop = FALSE],
    [Loop EXCEPT !.predmode = "CR"]}
LoopSv == {[vl |-> 2, srcstep |-> 0, dststep |-> 0]}
LoopPc == {0}
=============================================================================
