---------------------------- MODULE ControlUnits ----------------------------
(* The branch, SPR and trap units (fu/branch, fu/spr, fu/trap) on the       *)
(* special registers they share, one instruction at a time.  The MSR and    *)
(* SRR1 are sets of named bits, XER a set of its bits.                      *)
EXTENDS Word

CONSTANTS
    Space,      \* addresses are bytes modulo Space
    TrapVector, \* where OP_TRAP goes
    SyscallVector,
    Value,      \* what a register move may carry to CTR, LR, TAR and SRR0
    MsrValue,   \* what is moved to the MSR and SRR1
    XerValue,   \* what is moved to XER
    Vectors,    \* the states a vector loop may be in (SVSTATE)
    Operand,    \* operands of a trap comparison
    WIDTH       \* their width

ASSUME ControlAssumption ==
    /\ Space % 4 = 0 /\ Space \in Nat \ {0}
    /\ Value \subseteq 0 .. Space - 1
    /\ {TrapVector, SyscallVector} \subseteq {a \in 0 .. Space - 1 : a % 4 = 0}

VARIABLES
    cia,                    \* address of the instruction
    msr, svstate,           \* STATE registers
    srr0, srr1, svsrr0,     \* FAST registers
    ctr, lr, tar,
    xer_word,               \* FAST XER
    xer_so, xer_ov, xer_ca, \* the XER register file, 32-bit flags second
    rt                      \* the integer result

stateRegs == <<msr, svstate>>
savedRegs == <<srr0, srr1, svsrr0>>
branchRegs == <<ctr, lr, tar>>
xerRegs == <<xer_word, xer_so, xer_ov, xer_ca>>
regs == <<cia, stateRegs, savedRegs, branchRegs, xerRegs, rt>>

-----------------------------------------------------------------------------
(* Machine state register.  "PF" stands for the partial-function bits.      *)

FullFunction == {"SF", "HV", "29", "30", "31", "VEC",
                 "EE", "PR", "FP", "ME", "IR", "DR", "RI", "LE"}
MsrBit == FullFunction \cup {"PF"}

msr_copy(m) == m \cap FullFunction
msr_check_pr(m) == IF "PR" \in m THEN m \cup {"EE", "IR", "DR"} ELSE m
msr_exception(m) ==
    (m \ {"EE", "PR", "IR", "DR", "RI", "VEC", "FP"}) \cup {"SF", "LE"}

\* mutant: bits 29 to 31 are moved whatever they are
keep_29_31_not(old, new) == new

(* Bits 29 to 31 stay when they are 010 and would become 000.               *)
keep_29_31(old, new) ==
    IF old \cap {"29", "30", "31"} = {"30"} /\ new \cap {"29", "30", "31"} = {}
    THEN new \cup {"30"} ELSE new

take(from, bits, old) == (from \cap bits) \cup (old \ bits)

-----------------------------------------------------------------------------
(* Branch unit.                                                             *)

br_ext(words) == (4 * words) % Space
br_addr(aa, words) ==
    IF aa THEN br_ext(words) ELSE (br_ext(words) + cia) % Space
aligned(a) == a - (a % 4)
next_insn == (cia + 4) % Space

(* bo is the BO field, bit 0 the least significant.                         *)
ctr_n == (ctr - 1) % Space

\* mutant: CTR is tested before it is decremented
bc_taken_before(bo, cr_bit) ==
    IF Bit(bo, 2) = 1 THEN cr_bit = Bit(bo, 3) \/ Bit(bo, 4) = 1
    ELSE /\ Bit(bo, 1) # B(ctr # 0)
         /\ Bit(bo, 4) = 1 \/ cr_bit = Bit(bo, 3)

\* All 64 bits of the decremented CTR are tested, in 32-bit mode too: ctr_m, the
\* half that is meant then, is computed and not used.
bc_taken(bo, cr_bit) ==
    IF Bit(bo, 2) = 1 THEN cr_bit = Bit(bo, 3) \/ Bit(bo, 4) = 1
    ELSE /\ Bit(bo, 1) # B(ctr_n # 0)
         /\ Bit(bo, 4) = 1 \/ cr_bit = Bit(bo, 3)

Branch(taken, target, lk, decrement) ==
    /\ cia' = IF taken THEN target ELSE next_insn
    /\ lr' = IF lk THEN next_insn ELSE lr
    /\ ctr' = IF decrement THEN ctr_n ELSE ctr
    /\ UNCHANGED <<stateRegs, savedRegs, tar, xerRegs, rt>>

OP_B(aa, li, lk) ==
    Branch(TRUE, br_addr(aa, li), lk, FALSE)

OP_BC(aa, bd, bo, cr_bit, lk) ==
    Branch(bc_taken(bo, cr_bit), br_addr(aa, bd), lk, Bit(bo, 2) = 0)

(* bcctr cannot decrement the register it branches to.                      *)
OP_BCREG(spr, bo, cr_bit, lk) ==
    /\ spr = "CTR" => Bit(bo, 2) = 1
    /\ Branch(bc_taken(bo, cr_bit),
              aligned(CASE spr = "CTR" -> ctr [] spr = "LR" -> lr [] spr = "TAR" -> tar),
              lk, Bit(bo, 2) = 0)

-----------------------------------------------------------------------------
(* SPR unit.                                                                *)

Step == cia' = next_insn

MtFast(v, spr) ==
    /\ Step
    /\ ctr' = IF spr = "CTR" THEN v ELSE ctr
    /\ lr' = IF spr = "LR" THEN v ELSE lr
    /\ tar' = IF spr = "TAR" THEN v ELSE tar
    /\ srr0' = IF spr = "SRR0" THEN v ELSE srr0
    /\ UNCHANGED <<stateRegs, srr1, svsrr0, xerRegs, rt>>

MtSrr1(v) ==
    /\ Step
    /\ srr1' = v
    /\ UNCHANGED <<stateRegs, srr0, svsrr0, branchRegs, xerRegs, rt>>

flag(v, bit) == B(bit \in v)

\* mutant: the flags are not copied to their registers
MtXer_word(v) ==
    /\ Step
    /\ xer_word' = v
    /\ UNCHANGED <<xer_so, xer_ov, xer_ca, stateRegs, savedRegs, branchRegs, rt>>

MtXer(v) ==
    /\ Step
    /\ xer_word' = v
    /\ xer_so' = flag(v, "SO")
    /\ xer_ov' = <<flag(v, "OV"), flag(v, "OV32")>>
    /\ xer_ca' = <<flag(v, "CA"), flag(v, "CA32")>>
    /\ UNCHANGED <<stateRegs, savedRegs, branchRegs, rt>>

MfFast(spr) ==
    /\ Step
    /\ rt' = {CASE spr = "CTR" -> ctr [] spr = "LR" -> lr [] spr = "TAR" -> tar
                [] spr = "SRR0" -> srr0}
    /\ UNCHANGED <<stateRegs, savedRegs, branchRegs, xerRegs>>

(* Reserved bits read as zero, the flags from their own registers.          *)
MfXer ==
    /\ Step
    /\ rt' = {b \in xer_word : b \notin {"reserved", "SO", "OV", "OV32", "CA", "CA32"}}
             \cup {b \in {"SO", "OV", "OV32", "CA", "CA32"} :
                      CASE b = "SO"   -> xer_so = 1
                        [] b = "OV"   -> xer_ov[1] = 1
                        [] b = "OV32" -> xer_ov[2] = 1
                        [] b = "CA"   -> xer_ca[1] = 1
                        [] b = "CA32" -> xer_ca[2] = 1}
    /\ UNCHANGED <<stateRegs, savedRegs, branchRegs, xerRegs>>

(* An arithmetic instruction with OE or CA writes its flags.                *)
WriteFlags(so, ov, ca) ==
    /\ Step
    /\ xer_so' = so
    /\ xer_ov' = ov
    /\ xer_ca' = ca
    /\ UNCHANGED <<stateRegs, savedRegs, branchRegs, xer_word, rt>>

-----------------------------------------------------------------------------
(* Trap unit.                                                               *)

trap(vector, return, why) ==
    /\ cia' = vector
    /\ srr0' = return
    /\ srr1' = msr_copy(msr) \cup why
    /\ svsrr0' = svstate
    /\ msr' = msr_exception(msr)
    /\ UNCHANGED <<svstate, branchRegs, xerRegs, rt>>

(* The comparisons that hold, to be matched with the TO field.              *)
trap_bits(a, b, is_32bit) ==
    LET n == IF is_32bit THEN WIDTH \div 2 ELSE WIDTH
        ua == a % 2^n
        ub == b % 2^n
        sa == Signed(a, n)
        sb == Signed(b, n)
    IN  {t \in {"lt_s", "gt_s", "eq", "lt_u", "gt_u"} :
            CASE t = "lt_s" -> sa < sb
              [] t = "gt_s" -> sa > sb
              [] t = "eq"   -> ua = ub
              [] t = "lt_u" -> ua < ub
              [] t = "gt_u" -> ua > ub}

(* What SRR1 says of the cause; external and decrementer interrupts nothing. *)
cause(traptype) == IF traptype = {} THEN {"TRAP"} ELSE traptype \ {"EINT", "DEC"}

OP_TRAP(a, b, is_32bit, to, traptype) ==
    IF to \cap trap_bits(a, b, is_32bit) # {} \/ traptype # {}
    THEN trap(TrapVector, cia, cause(traptype))
    ELSE Step /\ UNCHANGED <<stateRegs, savedRegs, branchRegs, xerRegs, rt>>

\* mutant: a system call returns to itself
OP_SC_again == trap(SyscallVector, cia, {})

OP_SC == trap(SyscallVector, next_insn, {})

OP_MTMSR(a, L, doubleword) ==
    LET low == {"VEC", "EE", "PR", "FP", "IR", "DR", "RI", "PF"}
        bits == CASE L -> {"RI", "EE"}
                  [] ~L /\ doubleword -> low \cup {"SF", "29", "30", "31"}
                  [] OTHER -> low
        moved == IF ~L /\ doubleword THEN keep_29_31(msr, take(a, bits, msr))
                                     ELSE take(a, bits, msr)
    IN  /\ Step
        /\ msr' = IF L THEN moved ELSE msr_check_pr(moved)
        /\ UNCHANGED <<svstate, savedRegs, branchRegs, xerRegs, rt>>

OP_MFMSR ==
    /\ Step
    /\ rt' = msr
    /\ UNCHANGED <<stateRegs, savedRegs, branchRegs, xerRegs>>

(* SVSTATE is written with the value it has.                                *)
OP_RFID(hypervisor) ==
    LET copied == msr_copy(srr1)
        me == IF ~hypervisor /\ "HV" \notin msr THEN take(msr, {"ME"}, copied)
                                                ELSE copied
    IN  /\ cia' = aligned(srr0)
        /\ svstate' = svstate
        /\ msr' = keep_29_31(msr, msr_check_pr(me))
        /\ UNCHANGED <<savedRegs, branchRegs, xerRegs, rt>>

(* A vector instruction moves the loop on.                                  *)
Vector(sv) ==
    /\ Step
    /\ svstate' = sv
    /\ UNCHANGED <<msr, savedRegs, branchRegs, xerRegs, rt>>

-----------------------------------------------------------------------------
ControlInit ==
    /\ cia = 0 /\ msr \in MsrValue /\ svstate \in Vectors
    /\ srr0 = 0 /\ srr1 = {} /\ svsrr0 = svstate
    /\ ctr = 0 /\ lr = 0 /\ tar = 0
    /\ xer_word = {} /\ xer_so = 0 /\ xer_ov = <<0, 0>> /\ xer_ca = <<0, 0>>
    /\ rt = {}
=============================================================================
