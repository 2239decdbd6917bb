------------------------------ MODULE CoreDebug ------------------------------
(***************************************************************************)
(* The debug module of the core (src/soc/debug/dmi.py, class CoreDebug):   *)
(* the registers behind DBGCore.CTRL and DBGCore.STAT, clocked once per    *)
(* step by DmiClock.  Register reads over DMI change none of them.         *)
(***************************************************************************)
EXTENDS Naturals

CONSTANT CtrlWrites   \* the values a debugger writes to CTRL: sets of bits

Ctrl == {"STOP", "RESET", "STEP", "START"}

ASSUME CtrlAssumption == CtrlWrites \subseteq SUBSET Ctrl

VARIABLES
    dmi_req_i_1,  \* dmi.req_i in the previous clock, for the edge detection
    stopping,     \* STAT bit 0: the core is asked to stop
    do_step,      \* one-clock pulse: let the core go for this clock
    do_reset,     \* one-clock pulse: reset of the coresync domain
    terminated    \* STAT bit 2: the core executed OP_ATTN

dbgVars == <<dmi_req_i_1, stopping, do_step, do_reset, terminated>>

DbgTypeOK == /\ dmi_req_i_1 \in BOOLEAN
             /\ stopping \in BOOLEAN
             /\ do_step \in BOOLEAN
             /\ do_reset \in BOOLEAN
             /\ terminated \in BOOLEAN

DbgInit == /\ dmi_req_i_1 = FALSE
           /\ stopping = FALSE
           /\ do_step = FALSE
           /\ do_reset = FALSE
           /\ terminated = FALSE

\* The wires the debug module drives into the core.
core_stop_o == stopping /\ ~do_step
core_rst_o == do_reset

\* Mutant: START assigned after terminate_i.
CtrlWriteStartLast(din, terminate_i) ==
    /\ do_step' = ("STEP" \in din)
    /\ do_reset' = ("RESET" \in din)
    /\ stopping' = ("START" \notin din /\ (terminate_i \/ stopping \/ "STOP" \in din))
    /\ terminated' = \/ terminate_i
                     \/ terminated /\ din \cap {"RESET", "STEP", "START"} = {}

\* What a write of din to CTRL leaves in the registers.  START is assigned
\* after STOP and so wins over it; terminate_i is assigned after both and
\* wins over everything, in every clock it is high.
CtrlWrite(din, terminate_i) ==
    /\ do_step' = ("STEP" \in din)
    /\ do_reset' = ("RESET" \in din)
    /\ stopping' = \/ terminate_i
                   \/ "START" \notin din /\ (stopping \/ "STOP" \in din)
    /\ terminated' = \/ terminate_i
                     \/ terminated /\ din \cap {"RESET", "STEP", "START"} = {}

\* A new request (rising edge of dmi.req_i) that writes CTRL.
DmiWrite(terminate_i) ==
    /\ ~dmi_req_i_1
    /\ dmi_req_i_1' = TRUE
    /\ \E din \in CtrlWrites : CtrlWrite(din, terminate_i)

\* Any other clock: no request, a request that is still held, a read, or a
\* write to another register.
DmiOther(terminate_i) ==
    /\ dmi_req_i_1' \in BOOLEAN
    /\ CtrlWrite({}, terminate_i)

DmiClock(terminate_i) == DmiWrite(terminate_i) \/ DmiOther(terminate_i)
=============================================================================
