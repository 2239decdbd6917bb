-------------------------------- MODULE FuDiv -------------------------------
(* The divider (fu/div): setup stage, the core, and the output stage.  The  *)
(* core is the state machine that finds one bit of the quotient in every    *)
(* clock, or the one for simulations (DivPipeKind).                         *)
EXTENDS FuAlu

CONSTANT Division   \* the instructions

VARIABLES
    kind,           \* DivPipeKind of the build
    start,          \* the setup stage's output, latched, or {}
    empty,          \* the state machine waits for an input
    saved_input,    \* what it divides
    saved_state,    \* [q_bits_known, dividend_quotient]
    result          \* the output stage's output, or {}

DivPipeKind == {"FSMDivCore", "SimOnly"}
divVars == <<kind, start, empty, saved_input, saved_state, result>>

width(i) == IF i.is_32bit THEN HALF ELSE XLEN
eq32(i, x) == x % 2^width(i)
negative(i, x) == i.is_signed /\ Bit(x, width(i) - 1) = 1
absolute(i, x) == IF negative(i, x) THEN Neg(x, XLEN) ELSE x

(* DivSetupStage: absolute values; an extended divide moves the dividend up *)
(* and overflows when it is not below the divisor.                          *)
Setup(i) ==
    LET dend == absolute(i, i.a)
        dor == absolute(i, i.b)
        dive == i.op = "OP_DIVE"
    IN  [job |-> i,
         dividend_neg |-> negative(i, i.a), divisor_neg |-> negative(i, i.b),
         dive_abs_ov64 |-> dive /\ dend >= dor,
         dive_abs_ov32 |-> dive /\ dend % 2^HALF >= dor % 2^HALF,
         div_by_zero |-> eq32(i, dor) = 0,
         divisor |-> eq32(i, dor),
         dividend |-> CASE ~dive -> eq32(i, dend)
                        [] dive /\ i.is_32bit -> (dend % 2^HALF) * 2^HALF
                        [] OTHER -> dend * 2^XLEN]

-----------------------------------------------------------------------------
(* The state machine.                                                       *)

DivStateInit(d) == [q_bits_known |-> 0, dividend_quotient |-> d]

done(s) == s.q_bits_known >= XLEN
\* mutants: valid a step early; never valid
will_be_done_early(s) == s.q_bits_known >= XLEN - 2
will_be_done_never(s) == s.q_bits_known > XLEN

will_be_done(s) == s.q_bits_known >= XLEN - 1

DivStateNext(s, divisor) ==
    LET double == 2^(2 * XLEN)
        difference == (s.dividend_quotient - divisor * 2^(XLEN - 1)) % double
        next_quotient_bit == 1 - Bit(difference, 2 * XLEN - 1)
        value == IF next_quotient_bit = 1 THEN difference ELSE s.dividend_quotient
    IN  IF done(s) THEN s
        ELSE [q_bits_known |-> s.q_bits_known + 1,
              dividend_quotient |-> (2 * value + next_quotient_bit) % double]

quotient(s) == s.dividend_quotient % 2^XLEN
remainder(s) == s.dividend_quotient \div 2^XLEN

(* SimOnlyCore: division by zero gives all ones and the dividend.           *)
SimOnlyCore(c) ==
    IF c.divisor = 0
    THEN [quotient_root |-> 2^XLEN - 1, remainder |-> c.dividend % 2^XLEN]
    ELSE [quotient_root |-> (c.dividend \div c.divisor) % 2^XLEN,
          remainder |-> c.dividend % c.divisor]

next_state == DivStateNext(saved_state, saved_input.divisor)
n_o_valid == ~empty /\ (kind = "SimOnly" \/ will_be_done(saved_state))
core_o == IF kind = "SimOnly" THEN SimOnlyCore(saved_input)
          ELSE [quotient_root |-> quotient(next_state), remainder |-> remainder(next_state)]

-----------------------------------------------------------------------------
(* DivOutputStage: signs, overflow, and the word the instruction asks for.  *)
Output(c, s) ==
    LET i == c.job
        neg == c.dividend_neg # c.divisor_neg
        q == IF neg THEN Neg(s.quotient_root, XLEN + 1) ELSE s.quotient_root
        r == IF c.dividend_neg THEN Neg(s.remainder, XLEN) ELSE s.remainder
        dive_ov == IF i.is_32bit THEN c.dive_abs_ov32 ELSE c.dive_abs_ov64
        ov == \/ c.div_by_zero
              \/ dive_ov
              \/ i.is_signed /\ Bit(q, width(i)) # Bit(q, width(i) - 1)
    IN  [NoResult(i) EXCEPT
            !.o = CASE ov -> 0
                    [] ~ov /\ i.op = "OP_MOD" ->
                         IF i.is_signed THEN Exts(r, width(i), XLEN) ELSE eq32(i, r)
                    [] OTHER -> eq32(i, q),
            !.o_ok = TRUE,
            !.ov = <<B(ov), B(ov)>>]

DivInit ==
    /\ kind \in DivPipeKind
    /\ start = {}
    /\ empty = TRUE
    /\ saved_input = {}
    /\ saved_state = DivStateInit(0)
    /\ result = {}

(* A clock of the unit: each of its three registers takes what the one      *)
(* before it offers when it is free; the result leaves when it is taken.    *)
(* What the machine holds while it is empty is never used and reset here.   *)
Issue(i) ==
    /\ start = {}
    /\ start' = {Setup(InputStage(i))}
    /\ UNCHANGED <<kind, empty, saved_input, saved_state, result>>

Load ==
    /\ empty
    /\ \E c \in start :
        /\ saved_input' = c
        /\ saved_state' = IF kind = "SimOnly" THEN DivStateInit(0)
                          ELSE DivStateNext(DivStateInit(c.dividend), c.divisor)
    /\ empty' = FALSE
    /\ start' = {}
    /\ UNCHANGED <<kind, result>>

Divide ==
    /\ ~empty
    /\ IF n_o_valid /\ result = {}
       THEN /\ result' = {[job |-> saved_input.job,
                          res |-> OutputStage(saved_input.job, Output(saved_input, core_o))]}
            /\ empty' = TRUE
            /\ saved_state' = DivStateInit(0)
            /\ saved_input' = {}
       ELSE /\ saved_state' = IF kind = "SimOnly" THEN saved_state ELSE next_state
            /\ UNCHANGED <<result, empty, saved_input>>
    /\ UNCHANGED <<kind, start>>

Take ==
    /\ result # {}
    /\ result' = {}
    /\ UNCHANGED <<kind, start, empty, saved_input, saved_state>>
=============================================================================
