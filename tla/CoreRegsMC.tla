----------------------------- MODULE CoreRegsMC -----------------------------
(* What CoreRegs must satisfy, and the instructions of a small instance. *)
EXTENDS CoreRegs

TypeOK ==
    /\ regs \in [Reg -> 0 .. Dec - 1]
    /\ insn \in Insns \cup {None}
    /\ program \in Programs /\ {rel, delay_pick} \subseteq SUBSET (UNION {i.rd : i \in Insns})
    /\ {req, wr_pick_1} \subseteq SUBSET (UNION {i.wr : i \in Insns})
    /\ timer \in {"DEC_READ", "DEC_WRITE", "TB_READ", "TB_WRITE"}
    /\ spr_dec \in 0 .. Dec - 1
    /\ d_req \in Requests /\ d_delay \in BOOLEAN

Values_(f, rs) == \A r \in rs : r \in DOMAIN f /\ f[r] = regs[r]

\* In the clock of go_rd_i the port carries the operand: what its registers
\* hold, with the writes of the clock in which it was granted, and no register
\* of another operand (connect_rdport: the data comes a clock after the pick).
OperandsRead ==
    \A a \in delay_pick :
        /\ DOMAIN port_q[PortOf(a.name)] = a.regs
        /\ Values_(port_q[PortOf(a.name)], a.regs)

\* A result granted its port is what its registers hold next, unless the timer
\* writes the same register in that clock; no register changes otherwise
\* (connect_wrport: the OR of all units' outputs, the enables of the picked).
ResultsWritten ==
    [][\A r \in Reg \ DOMAIN timer_writes :
           LET by == {a \in go_wr : r \in a.regs}
           IN  regs'[r] = IF by = {} THEN regs[r]
                          ELSE res[r]]_vars

\* A debugger's read that is acknowledged has the register's value
\* (do_dmi: the data arrives one clock later).
DebugReads == d_ack => Values_(d_data, d_req)

\* DEC only counts down by one or takes an instruction's value, TB likewise up:
\* a value written in the clock the timer reads is not counted over, "the
\* regfile has passthrough on it" (tb_dec_fsm).
TimerCounts ==
    [][LET by(r) == {res[s] : s \in {r} \cap UNION {a.regs : a \in go_wr}}
       IN  /\ regs'["DEC"] \in {regs["DEC"], (regs["DEC"] + Dec - 1) % Dec} \cup by("DEC")
           /\ regs'["TB"] \in {regs["TB"], (regs["TB"] + 1) % Dec} \cup by("TB")
           /\ spr_dec' # spr_dec => \/ spr_dec' = regs'["DEC"]
                                    \/ by("DEC") # {}]_vars

-----------------------------------------------------------------------------
A(n, rs) == [name |-> n, regs |-> rs]
I(rd, wr) == [rd |-> rd, wr |-> wr]
IntRegs == {"r0", "r1"}
CrRegs == {"cr0", "cr1"}
Integer ==
    { I({A("ra", {"r0"}), A("rb", {"r1"})}, {A("o", {"r0"}), A("cr_a", {"cr0"})}),   \* add.
      I({A("ra", {"r1"}), A("rb", {"r0"}), A("rc", {"r1"})}, {A("o1", {"r1"})}),     \* stwux
      I({A("ra", {"r0"})}, {A("o", {"r1"}), A("o1", {"r0"})}) }                      \* lwzu
Special ==
    { I({A("ra", {"r1"})}, {A("fast1", {"DEC"})}),                                   \* mtspr
      I({A("fast1", {"DEC"})}, {A("o", {"r0"})}),                                    \* mfspr
      I({A("fast1", {"CTR"}), A("fast2", {"LR"}), A("cr_a", {"cr1"})},
        {A("fast1", {"CTR"}), A("fast2", {"LR"})}) }                                 \* bclrl
Condition ==
    { I({A("cr_a", {"cr1"}), A("cr_b", {"cr0"})}, {A("cr_a", {"cr1"})}),             \* crand
      I({A("ra", {"r0"})}, {A("full_cr", CrRegs)}),                                  \* mtcrf
      I({A("full_cr", CrRegs)}, {A("o", {"r1"})}) }                                  \* mfcr
MCPrograms == {Integer, Special, Condition}
=============================================================================
