-------------------------------- MODULE FuAlu -------------------------------
(* The ALU pipeline (fu/alu): input stage, main stage (add, compare, sign   *)
(* extension, byte search) and output stage.  The width is a parameter: a   *)
(* word has two halves, which stand for the 32-bit forms, and eight bytes.  *)
EXTENDS Word

CONSTANTS
    XLEN,   \* width of a register, 64 in the source
    BYTE    \* width of a byte, 8 in the source

ASSUME WidthAssumption == BYTE \in Nat \ {0} /\ XLEN = 8 * BYTE

HALF == XLEN \div 2

(* Carry and overflow are pairs: the 64-bit flag and the 32-bit flag.       *)
CarryIn(i) == CASE i.input_carry = "ZERO" -> <<0, 0>>
                [] i.input_carry = "ONE"  -> <<1, 1>>
                [] i.input_carry = "CA"   -> i.xer_ca

(* Only operand a is zeroed by sv_pred_sz: the ALU assigns b again.         *)
InputStage(i) ==
    [i EXCEPT !.a = CASE i.sv_pred_sz -> 0
                      [] ~i.sv_pred_sz /\ i.invert_in -> Not(i.a, XLEN)
                      [] OTHER -> i.a,
              !.xer_ca = CarryIn(i)]

add_o(i) == i.a + i.b + i.xer_ca[1]
carry_32(i) == (Bit(add_o(i), HALF) + Bit(i.a, HALF) + Bit(i.b, HALF)) % 2
carry_64(i) == Bit(add_o(i), XLEN)

\* mutant: operands of different sign can overflow too
calc_ov_any(msb_a, msb_b, ca, msb_r) == B(ca # msb_r)

calc_ov(msb_a, msb_b, ca, msb_r) == B(ca # msb_r /\ msb_a = msb_b)

NoResult(i) == [o |-> 0, o_ok |-> FALSE, cr |-> {}, ca |-> <<0, 0>>,
                ov |-> <<0, 0>>, so |-> i.xer_so]

Add(i) ==
    LET r == add_o(i)
    IN  [NoResult(i) EXCEPT
            !.o = r % 2^XLEN,
            !.o_ok = TRUE,
            !.ca = <<carry_64(i), carry_32(i)>>,
            !.ov = <<calc_ov(Bit(i.a, XLEN - 1), Bit(i.b, XLEN - 1),
                             carry_64(i), Bit(r, XLEN - 1)),
                     calc_ov(Bit(i.a, HALF - 1), Bit(i.b, HALF - 1),
                             carry_32(i), Bit(r, HALF - 1))>>]

(* Operand a arrives inverted with a carry of one, so the adder computes    *)
(* b - a.  Different top bits decide alone; equal ones leave it to the carry.*)
Cmp(i) ==
    LET a_n == Not(i.a, XLEN)
        top == IF i.L THEN XLEN - 1 ELSE HALF - 1
        equal == /\ Slice(a_n, 0, HALF) = Slice(i.b, 0, HALF)
                 /\ i.L => Slice(a_n, HALF, HALF) = Slice(i.b, HALF, HALF)
        msb_a == Bit(a_n, top) = 1
        msb_b == Bit(i.b, top) = 1
        a_lt == (IF i.L THEN carry_64(i) ELSE carry_32(i)) = 1
        less == IF msb_a # msb_b THEN IF i.is_signed THEN msb_a ELSE msb_b
                                 ELSE a_lt
    IN  [NoResult(i) EXCEPT
            !.cr = (IF i.xer_so = 1 THEN {"SO"} ELSE {})
                   \cup {IF equal THEN "EQ" ELSE IF less THEN "LT" ELSE "GT"}]

Exts_(i) == [NoResult(i) EXCEPT !.o = Exts(i.a, i.data_len * BYTE, XLEN),
                                !.o_ok = TRUE]

CmpEqB(i) ==
    LET found == \E n \in 0 .. 7 :
                    Slice(i.a, 0, BYTE) = Slice(i.b, n * BYTE, BYTE)
    IN  [NoResult(i) EXCEPT !.o = B(found),
                            !.cr = IF found THEN {"GT"} ELSE {}]

MainStage(i) == CASE i.op = "OP_ADD"    -> Add(i)
                  [] i.op = "OP_CMP"    -> Cmp(i)
                  [] i.op = "OP_EXTS"   -> Exts_(i)
                  [] i.op = "OP_CMPEQB" -> CmpEqB(i)

(* CommonOutputStage and ALUOutputStage, also used by MUL and DIV.          *)
OutputStage(i, m) ==
    LET inverted == IF i.invert_out THEN Not(m.o, XLEN) ELSE m.o
        o == IF i.sv_pred_dz THEN 0 ELSE inverted
        so == IF i.oe THEN B(m.so = 1 \/ m.ov[1] = 1) ELSE m.so
    IN  [o  |-> o, o_ok |-> m.o_ok,
         cr |-> IF i.op \in {"OP_CMP", "OP_CMPEQB"} THEN m.cr
                ELSE CrField(so = 1, o # 0, Bit(o, XLEN - 1) = 1),
         ca |-> IF i.output_carry THEN m.ca ELSE <<>>,
         ov |-> IF i.oe THEN m.ov ELSE <<>>,
         so |-> IF i.oe THEN so ELSE m.so]

-----------------------------------------------------------------------------
(* The multiplier pipeline (fu/mul): absolute values, one unsigned product, *)
(* and the selection of the half asked for with its overflow.               *)

(* mul_eq32: a 32-bit operation sees the low half.                              *)
mul_eq32(i, x) == IF i.is_32bit THEN x % 2^HALF ELSE x

mul_negative(i, x) == i.is_signed /\ Bit(x, (IF i.is_32bit THEN HALF ELSE XLEN) - 1) = 1

MulPre(i) ==
    [job |-> i, neg_res |-> mul_negative(i, i.a) # mul_negative(i, i.b),
     a |-> mul_eq32(i, IF mul_negative(i, i.a) THEN Neg(i.a, XLEN) ELSE i.a),
     b |-> mul_eq32(i, IF mul_negative(i, i.b) THEN Neg(i.b, XLEN) ELSE i.b)]

MulProduct(p) == [job |-> p.job, neg_res |-> p.neg_res,
               o |-> (p.a * p.b) % 2^(2 * XLEN)]

(* The top half and a bit must all be copies of the sign.                   *)
mul_ov(x, width) ==
    LET m == Slice(x, width - 1, width + 1) IN m # 0 /\ m # 2^(width + 1) - 1

MulPost(p) ==
    LET i == p.job
        mul_o == IF p.neg_res THEN Neg(p.o, 2 * XLEN) ELSE p.o
        ov == B(mul_ov(mul_o, IF i.is_32bit THEN HALF ELSE XLEN))
        o == CASE i.op = "OP_MUL_H32" -> Slice(mul_o, HALF, HALF) * (2^HALF + 1)
               [] i.op = "OP_MUL_H64" -> Slice(mul_o, XLEN, XLEN)
               [] i.op = "OP_MUL_L64" -> mul_o % 2^XLEN
    IN  [NoResult(i) EXCEPT
            !.o = o, !.o_ok = TRUE,
            !.ov = IF i.op = "OP_MUL_L64" THEN <<ov, ov>> ELSE <<0, 0>>]
=============================================================================
