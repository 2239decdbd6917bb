--------------------------- MODULE FunctionUnitsMC --------------------------
(* The function units on corner operands.  The pipelines share no state     *)
(* with the control units, and the instructions of the control units fall   *)
(* in three groups that meet in no register but the instruction address, so *)
(* each behaviour exercises one group, its focus.                           *)
EXTENDS TLC, FuAlu, ControlUnits

VARIABLES
    focus,
    pipe, kind, start, empty, saved_input, saved_state, result,
    last,       \* the control instruction just done and what it found, or {}
    context,    \* what the last trap interrupted, while SRR0 and SRR1 hold it
    xer         \* XER as the instructions so far make it

-----------------------------------------------------------------------------
(* Instructions.  A group is a set of forms on the pairs of corner operands.*)

Corner == {0, 1, 7, 8, 9, 15, 16, 112, 127, 128, 129, 136, 240, 247, 255}
DivCorner == {0, 1, 7, 8, 15, 16, 127, 128, 136, 255}

On(forms, operands) ==
    {[a |-> ab[1], b |-> ab[2]] @@ f : ab \in operands \X operands, f \in forms}

Form == [op |-> "OP_ADD", xer_so |-> 0, xer_ca |-> <<0, 1>>, input_carry |-> "ZERO",
         invert_in |-> FALSE, invert_out |-> FALSE, sv_pred_sz |-> FALSE,
         sv_pred_dz |-> FALSE, oe |-> FALSE, output_carry |-> FALSE,
         is_signed |-> FALSE, is_32bit |-> FALSE, L |-> FALSE, data_len |-> 8]

AddForms ==
    {Form, [Form EXCEPT !.oe = TRUE], [Form EXCEPT !.oe = TRUE, !.xer_so = 1],
     [Form EXCEPT !.oe = TRUE, !.input_carry = "CA", !.xer_ca = <<1, 0>>,
                  !.output_carry = TRUE],
     [Form EXCEPT !.invert_in = TRUE, !.input_carry = "ONE", !.oe = TRUE,
                  !.output_carry = TRUE],
     [Form EXCEPT !.invert_in = TRUE, !.input_carry = "CA", !.oe = TRUE],
     [Form EXCEPT !.invert_in = TRUE, !.sv_pred_sz = TRUE, !.xer_so = 1],
     [Form EXCEPT !.sv_pred_dz = TRUE, !.output_carry = TRUE]}

CmpForms == {[Form EXCEPT !.op = "OP_CMP", !.invert_in = TRUE, !.xer_so = 1,
                          !.input_carry = "ONE", !.is_signed = s, !.L = l] :
             s, l \in BOOLEAN}

ExtsInsns == {[a |-> a, b |-> 0] @@ [Form EXCEPT !.op = "OP_EXTS", !.data_len = n] :
              a \in Corner, n \in {1, 2, 4}}
CmpEqBInsns == On({[Form EXCEPT !.op = "OP_CMPEQB"]}, {0, 1, 254, 255})

MulForms ==
    {[Form EXCEPT !.op = "OP_MUL_L64", !.is_signed = TRUE, !.is_32bit = w,
                  !.oe = TRUE, !.xer_so = B(w)] : w \in BOOLEAN}
    \cup {[Form EXCEPT !.op = "OP_MUL_H32", !.is_signed = s, !.is_32bit = TRUE] :
          s \in BOOLEAN}
    \cup {[Form EXCEPT !.op = "OP_MUL_H64", !.is_signed = s] : s \in BOOLEAN}

DivForms == {[Form EXCEPT !.op = op, !.is_signed = s, !.is_32bit = w, !.oe = TRUE] :
             op \in {"OP_DIV", "OP_DIVE", "OP_MOD"}, s, w \in BOOLEAN}

Words == {{}, {0}, {7, 31}, {63}, 0 .. 31, 32 .. 63, 0 .. 63,
          {0, 5, 8, 13, 31, 32, 40, 57}}
Octets == {{}, {16, 24 + 5, 40 + 3, 48, 49, 50, 51, 52, 53}, {k \in 0 .. 63 : k % 3 = 0}}

LogicForm == [op |-> "OP_AND", xer_so |-> 1, invert_in |-> FALSE, invert_out |-> FALSE,
              sv_pred_sz |-> FALSE, sv_pred_dz |-> FALSE, is_32bit |-> FALSE,
              data_len |-> 8, count_right |-> FALSE]
LogicForms ==
    {[LogicForm EXCEPT !.op = op, !.invert_in = i, !.invert_out = n] :
        op \in {"OP_AND", "OP_OR", "OP_XOR"}, i, n \in BOOLEAN}
    \cup {[LogicForm EXCEPT !.op = op] : op \in {"OP_CMPB", "OP_BPERM"}}
    \cup {[LogicForm EXCEPT !.op = "OP_POPCNT", !.data_len = n] : n \in {1, 4, 8}}
    \cup {[LogicForm EXCEPT !.op = "OP_PRTY", !.data_len = n] : n \in {4, 8}}
    \cup {[LogicForm EXCEPT !.op = "OP_CNTZ", !.is_32bit = w, !.count_right = r] :
          w, r \in BOOLEAN}

ShiftForm == [op |-> "OP_SHL", ra |-> {}, rs |-> {}, shift |-> 0, mb |-> 0, me |-> 0,
              mb_extra |-> 0, is_32bit |-> FALSE, is_signed |-> FALSE,
              output_carry |-> FALSE, xer_so |-> 0,
              sv_pred_sz |-> FALSE, sv_pred_dz |-> FALSE]
Source == {{0}, {63, 31, 5}, {k \in 0 .. 63 : k % 3 = 0}}
Counts == {0, 1, 5, 31, 32, 33, 63}
ShiftInsns ==
    {[ShiftForm EXCEPT !.op = "OP_SHL", !.rs = rs, !.shift = n, !.is_32bit = w] :
        rs \in Source, n \in Counts \cup {64, 100, 127}, w \in BOOLEAN}
    \cup {[ShiftForm EXCEPT !.op = "OP_SHR", !.rs = rs, !.shift = n, !.is_32bit = w,
                            !.is_signed = s, !.output_carry = s] :
          rs \in Source, n \in Counts \cup {64, 100, 127}, w, s \in BOOLEAN}
    \cup {[ShiftForm EXCEPT !.op = "OP_RLC", !.rs = rs, !.ra = {1, 33}, !.shift = n,
                            !.is_32bit = TRUE, !.mb = mb, !.me = me] :
          rs \in Source, n \in Counts \cap 0 .. 31, mb, me \in {0, 4, 30, 31}}
    \cup {[ShiftForm EXCEPT !.op = op, !.rs = rs, !.shift = n, !.mb = mb, !.mb_extra = x,
                            !.ra = IF op = "OP_RLC" THEN {1, 33} ELSE {}] :
          op \in {"OP_RLC", "OP_RLCL", "OP_RLCR"},
          rs \in Source, n \in Counts, mb \in {0, 4, 31}, x \in 0 .. 1}
    \cup {[ShiftForm EXCEPT !.op = "OP_EXTSWSLI", !.rs = rs, !.shift = n] :
          rs \in Source, n \in Counts}

CrForm == [op |-> "OP_CROP", mnemonic |-> "crand", lut |-> 0, BT |-> 0, BA |-> 0,
           BB |-> 0, BC |-> 0, cr_a |-> {}, cr_b |-> {}, cr_c |-> {}, a |-> 5, b |-> 9,
           full_cr |-> 6]
Isa == INSTANCE FuIsa
Proof == INSTANCE FuProofs
CrInsns ==
    {[CrForm EXCEPT !.mnemonic = n, !.lut = Isa!CrOpcode[n] \div 32 % 16, !.BT = bt,
                    !.BA = 2, !.BB = 1, !.cr_a = a, !.cr_b = b, !.cr_c = c] :
        n \in DOMAIN Isa!CrLogic, bt \in {0, 3}, a \in {{}, {1}}, b \in {{}, {2}},
        c \in {{}, {0, 1}, {3}}}
    \cup {[CrForm EXCEPT !.op = op, !.cr_a = a, !.BC = 1] :
          op \in {"OP_MCRF", "OP_MTCRF", "OP_MFCR", "OP_ISEL", "OP_SETB"},
          a \in SUBSET (0 .. 3)}

Insns ==
    [alu |-> On(AddForms \cup CmpForms, Corner) \cup ExtsInsns \cup CmpEqBInsns,
     logical |-> On(LogicForms, Words \cup Octets),
     shiftrot |-> ShiftInsns,
     mul |-> On(MulForms, Corner),
     cr |-> CrInsns,
     div |-> On(DivForms, DivCorner)]

Units == INSTANCE FunctionUnits WITH WIDTH <- XLEN, Insn <- Insns

compute == <<pipe, kind, start, empty, saved_input, saved_state, result>>

-----------------------------------------------------------------------------
MCValue == {1, 7}
MCMsrValue == {{"SF", "HV", "ME", "EE", "RI", "LE"}, {"PR", "30", "PF"}}
MCXerValue == {{}, {"SO", "CA", "other", "reserved"}, {"OV", "OV32", "CA32", "reserved"}}
MCVectors == {"scalar", "looping"}
MCOperand == {1, 136, 255}

(* Control instructions.  Each is done in one step and recorded in `last',  *)
(* with the registers it found; the next one starts from a clean record.    *)

Flags == [SO |-> xer_so, OV |-> xer_ov[1], OV32 |-> xer_ov[2],
          CA |-> xer_ca[1], CA32 |-> xer_ca[2]]
Found(op) == [op |-> op, cia |-> cia, msr |-> msr, ctr |-> ctr, lr |-> lr, tar |-> tar,
              srr0 |-> srr0, srr1 |-> srr1, flags |-> Flags, space |-> Space]
Now == [cia |-> cia, msr |-> msr, ctr |-> ctr, lr |-> lr, CTR |-> ctr, LR |-> lr,
        TAR |-> tar, SRR0 |-> srr0, srr1 |-> srr1, rt |-> rt, flags |-> Flags]

\* BO fields of the table in Book I 2.4, some hint bits set
BoField == {0, 2, 4, 8, 10, 14, 16, 19, 20}

BranchInsn ==
    /\ UNCHANGED <<context, xer>>
    /\ \/ \E lk \in BOOLEAN, aa \in BOOLEAN :
             /\ OP_B(aa, 1, lk)
             /\ last' = {[bo |-> 20, cr |-> 0, lk |-> lk, to |-> IF aa THEN 4 ELSE cia + 4]
                         @@ Found("b")}
       \/ \E lk \in BOOLEAN, aa \in BOOLEAN, bo \in BoField, cr \in 0 .. 1 :
             /\ OP_BC(aa, 1, bo, cr, lk)
             /\ last' = {[bo |-> bo, cr |-> cr, lk |-> lk,
                          to |-> IF aa THEN 4 ELSE cia + 4] @@ Found("bc")}
       \/ \E lk \in BOOLEAN, spr \in {"CTR", "LR", "TAR"}, bo \in BoField, cr \in 0 .. 1 :
             /\ OP_BCREG(spr, bo, cr, lk)
             /\ last' = {[bo |-> bo, cr |-> cr, lk |-> lk,
                          to |-> CASE spr = "CTR" -> ctr [] spr = "LR" -> lr
                                   [] spr = "TAR" -> tar] @@ Found("bcreg")}
       \/ \E spr \in {"CTR", "LR", "TAR"} :
             \/ \E v \in Value : /\ MtFast(v, spr)
                                 /\ last' = {[spr |-> spr, a |-> v] @@ Found("mtspr")}
             \/ MfFast(spr) /\ last' = {[spr |-> spr] @@ Found("mfspr")}

XerInsn ==
    /\ UNCHANGED context
    /\ \/ \E v \in XerValue : MtXer(v) /\ xer' = v /\ last' = {[spr |-> "XER", a |-> v] @@ Found("mtspr")}
       \/ \E so \in 0 .. 1, ov, ca \in (0 .. 1) \X (0 .. 1) :
             /\ WriteFlags(so, ov, ca)
             /\ xer' = {b \in xer : b \in {"other", "reserved"}}
                       \cup {b \in {"SO", "OV", "OV32", "CA", "CA32"} :
                              <<b, 1>> \in {<<"SO", so>>, <<"OV", ov[1]>>, <<"OV32", ov[2]>>,
                                           <<"CA", ca[1]>>, <<"CA32", ca[2]>>}}
             /\ last' = {}
       \/ MfXer /\ last' = {Found("mfxer")} /\ UNCHANGED xer

Compared(a, b, w, to, why) ==
    [a |-> a, b |-> b, w |-> w, to |-> to, traptype |-> why, width |-> WIDTH,
     trapaddr |-> TrapVector] @@ Found("trap")
Interrupts(nia) == context' = {[nia |-> nia, msr |-> msr, svstate |-> svstate]}

(* The MSR is moved to and rfid done by a handler, in privileged state.     *)
TrapInsn ==
    /\ UNCHANGED xer
    /\ \/ \E why \in {{}, {"PRIV"}, {"EINT"}} :
             /\ OP_TRAP(0, 0, FALSE, {"eq"}, why)
             /\ last' = {Compared(0, 0, FALSE, {"eq"}, why)}
             /\ Interrupts(cia)
       \/ OP_SC /\ last' = {Found("sc")} /\ Interrupts(next_insn)
       \/ \E m \in MsrValue, d \in BOOLEAN :
             /\ context # {} /\ "PR" \notin msr
             /\ OP_MTMSR(m, d /\ "PR" \in m, ~d)
             /\ last' = {[a |-> m, L |-> d /\ "PR" \in m]
                         @@ Found(IF d THEN "mtmsr" ELSE "mtmsrd")}
             /\ UNCHANGED context
       \/ OP_MFMSR /\ last' = {Found("mfmsr")} /\ UNCHANGED context
       \/ \E h \in BOOLEAN :
             /\ "PR" \notin msr
             /\ OP_RFID(h)
             /\ last' = {[hypervisor |-> h, to |-> context]
                         @@ Found("rfid")}
             /\ context' = {}
       \/ /\ context = {} /\ "PR" \notin msr
          /\ \/ \E v \in Value : MtFast(v, "SRR0")
             \/ \E m \in MsrValue : MtSrr1(m)
             \/ MfFast("SRR0")
          /\ last' = {}
          /\ UNCHANGED context
       \/ \E sv \in Vectors : Vector(sv) /\ last' = {} /\ UNCHANGED context

CompareInsn ==
    /\ UNCHANGED xer
    /\ \E a, b \in Operand, w \in BOOLEAN, to \in {{"lt_s"}, {"gt_s"}, {"gt_u", "eq"}, {"lt_u"}} :
        /\ OP_TRAP(a, b, w, to, {})
        /\ last' = {Compared(a, b, w, to, {})}
    /\ UNCHANGED context

Forget == last # {} /\ last' = {} /\ UNCHANGED <<regs, context, xer>>

Init ==
    /\ focus \in {"compute", "branch", "xer", "trap", "compare"}
    /\ ControlInit
    /\ focus # "compute" => kind = "FSMDivCore"
    /\ focus # "trap" => "PR" \in msr /\ svstate = "scalar"
    /\ Units!Init
    /\ last = {} /\ context = {} /\ xer = {}

Next ==
    /\ UNCHANGED focus
    /\ \/ focus = "compute" /\ Units!Next /\ UNCHANGED <<regs, last, context, xer>>
       \/ focus = "branch" /\ last = {} /\ BranchInsn /\ UNCHANGED compute
       \/ focus = "xer" /\ last = {} /\ XerInsn /\ UNCHANGED compute
       \/ focus = "trap" /\ last = {} /\ TrapInsn /\ UNCHANGED compute
       \/ focus = "compare" /\ last = {} /\ CompareInsn /\ UNCHANGED compute
       \/ Forget /\ UNCHANGED compute

vars == <<focus, compute, regs, last, context, xer>>

Spec == Init /\ [][Next]_vars /\ Units!Fairness

-----------------------------------------------------------------------------
(* ALU and multiplier results are those of the ISA's integer definitions,   *)
(* flags and CR0 included, for every form on every pair of corner operands  *)
(* (fu/alu/main_stage.py, fu/mul/*, common_output_stage.py).                *)
ArithmeticIsIsa ==
    (pipe.at = "out" /\ pipe.unit \in {"alu", "mul"}) =>
        CASE pipe.insn.op = "OP_ADD" -> Isa!AddIsa(pipe.insn, pipe.data)
          [] pipe.insn.op = "OP_CMP" -> Isa!CmpIsa(pipe.insn, pipe.data)
          [] pipe.insn.op = "OP_EXTS" ->
                pipe.data.o = Isa!operand([is_signed |-> TRUE], pipe.insn.a,
                                          pipe.insn.data_len) % 2^XLEN
          [] pipe.insn.op = "OP_CMPEQB" ->
                pipe.data.cr = {"GT"} <=> \E n \in 0 .. 7 : Bit(pipe.insn.b, n) = pipe.insn.a % 2
          [] OTHER -> Isa!MulIsa(pipe.insn, pipe.data)

(* Shifts, rotates, the logical and the condition register instructions set *)
(* exactly the bits the ISA names, counted its way from the top             *)
(* (fu/shift_rot/rotator.py, fu/logical/main_stage.py, fu/cr/main_stage.py).*)
BitsAreIsa ==
    pipe.at = "out" =>
        /\ pipe.unit = "shiftrot" => Isa!ShiftIsa(pipe.insn, pipe.data)
        /\ pipe.unit = "logical" => Isa!LogicalIsa(pipe.insn, pipe.data)
        /\ pipe.unit = "cr" => Isa!CrIsa(pipe.insn, pipe.data)

(* The divider, after its bit-serial steps and the sign corrections around  *)
(* them, offers the truncated quotient or remainder of the operands of the  *)
(* instruction it took, or its overflow (fu/div/fsm.py, setup and output).  *)
QuotientIsIsa == \A r \in result : Isa!DivIsa(r.job, r.res)

(* What a pipeline offers is what the ISA says of the instruction it took.  *)
ComputesIsa == ArithmeticIsIsa /\ BitsAreIsa /\ QuotientIsIsa

(* Whatever is issued is answered and leaves the unit free again: the       *)
(* divider's count of steps always reaches the one its valid line waits for *)
(* (fu/div/fsm.py:170).                                                     *)
UnitsFree == []<>Units!free

(* A conditional branch is taken when the ISA's ctr_ok and cond_ok say so,  *)
(* counts CTR down when it must, and links to the instruction after it      *)
(* (fu/branch/main_stage.py).                                               *)
BranchesAsBo ==
    \A l \in last : l.op \in {"b", "bc", "bcreg"} =>
        LET BO(n) == Bit(l.bo, 4 - n)
            counted == (l.ctr + (Space - 1)) % Space
            ctr_ok == BO(2) = 1 \/ ((counted # 0) # (BO(3) = 1))
            cond_ok == BO(0) = 1 \/ l.cr = BO(1)
        IN  /\ cia = (IF ctr_ok /\ cond_ok THEN l.to - (l.to % 4) ELSE l.cia + 4) % Space
            /\ ctr = IF BO(2) = 0 THEN counted ELSE l.ctr
            /\ lr = IF l.lk THEN (l.cia + 4) % Space ELSE l.lr

(* mfxer returns what mtxer and the flags of later instructions left in XER *)
(* although the flags live in registers of their own, and its reserved bits *)
(* as zero (fu/spr/main_stage.py).                                          *)
XerReadsBack == \A l \in last : l.op = "mfxer" => rt = xer \ {"reserved"}

(* A trap is taken when a comparison asked for holds; and rfid goes back to *)
(* what the last trap or system call interrupted, with its full-function    *)
(* MSR bits except those the ISA changes: ME without HV, bits 29 to 31, and *)
(* EE, IR and DR in problem state (fu/trap/main_stage.py).                  *)
TrapsReturn ==
    /\ \A l \in last : (l.op = "trap" /\ l.traptype = {} /\ l.cia = 4) =>
          LET n == IF l.w THEN XLEN \div 2 ELSE XLEN
          IN  (cia = TrapVector) =
                 \/ "lt_s" \in l.to /\ Signed(l.a, n) < Signed(l.b, n)
                 \/ "gt_s" \in l.to /\ Signed(l.a, n) > Signed(l.b, n)
                 \/ "lt_u" \in l.to /\ l.a % 2^n < l.b % 2^n
                 \/ "gt_u" \in l.to /\ l.a % 2^n > l.b % 2^n
                 \/ "eq" \in l.to /\ l.a % 2^n = l.b % 2^n
    /\ \A l \in last : l.op = "rfid" => \A c \in l.to :
          LET bits == {"29", "30", "31"}
              kept == bits \cup {"EE", "IR", "DR"}
                           \cup (IF ~l.hypervisor /\ "HV" \notin l.msr THEN {"ME"} ELSE {})
              user == "PR" \in c.msr
          IN  /\ cia = c.nia
              /\ \A b \in FullFunction \ kept : b \in msr <=> b \in c.msr
              /\ \A b \in {"EE", "IR", "DR"} : b \in msr <=> (user \/ b \in c.msr)
              /\ "ME" \in kept => ("ME" \in msr <=> "ME" \in l.msr)
              /\ msr \cap bits =
                     IF l.msr \cap bits = {"30"} /\ c.msr \cap bits = {} THEN {"30"}
                                                                    ELSE c.msr \cap bits

(* What the branch, SPR and trap units do is what the ISA says, whatever    *)
(* instructions came before.                                                *)
ControlIsIsa == BranchesAsBo /\ XerReadsBack /\ TrapsReturn

(* What the formal proofs of the repository assert of the stages holds of   *)
(* them in the pipelines, on the corner operands (fu/*/formal).  The proofs *)
(* of the ALU's input and output stages know nothing of SV zeroing and the  *)
(* byte search.                                                             *)
PipelineProved ==
    LET i == pipe.insn
        m == pipe.data
    IN  /\ (pipe.at = "main" /\ pipe.unit = "alu") =>
              /\ ~i.sv_pred_sz => Proof!AluInputProof(i, Units!Alu!InputStage(i))
              /\ Proof!AluProof(Units!Alu!InputStage(i), m)
        /\ (pipe.at = "main" /\ pipe.unit = "shiftrot") =>
              Proof!ShiftRotProof(Units!Shift!InputStage(i), m)
        /\ (pipe.at = "main" /\ pipe.unit = "logical") =>
              IF i.op = "OP_BPERM" THEN Proof!BpermdProof(i.a, i.b, m)
              ELSE Proof!LogicalProof(Units!Logical!InputStage(i), m)
        /\ pipe.at = "product" =>
              LET p == Units!Alu!MulPost(m)
              IN  Proof!MulHighProof(m.job, p) /\ Proof!MulLowProof(m.job, p)
        /\ (pipe.at = "out" /\ pipe.unit = "cr") => Proof!CrProof(i, m)
        /\ (pipe.at = "out" /\ pipe.unit = "alu" /\ i.op \in {"OP_ADD", "OP_EXTS"}
            /\ ~i.sv_pred_dz) =>
              Proof!AluOutputProof(i, Units!Alu!MainStage(Units!Alu!InputStage(i)).o, m)

(* The branch unit's proof tests CTR before it is decremented.              *)
ControlProved ==
    \A l \in last :
        /\ l.op \in {"b", "bc", "bcreg"} /\ Bit(l.bo, 2) = 1 => Proof!BranchProof(l, Now)
        /\ l.op \in {"mtspr", "mfspr", "mfxer"} => Proof!SprProof(l, Now)
        /\ l.op = "trap"   => Proof!TrapProof(l, Now)
        /\ l.op = "sc"     => Proof!ScProof(l, Now)
        /\ l.op = "mtmsr"  => Proof!MtmsrProof(l, Now)
        /\ l.op = "mtmsrd" => Proof!MtmsrdProof(l, Now)
        /\ l.op = "mfmsr"  => Proof!MfmsrProof(l, Now)
        /\ l.op = "rfid"   => Proof!RfidProof(l, Now)

(* The repository's own proofs of the stages and of the control units hold. *)
StagesProved == PipelineProved /\ ControlProved
=============================================================================
