-------------------------------- MODULE FuIsa -------------------------------
(* What the Power ISA pages the stages cite ask of each instruction, on     *)
(* integers and on bit positions counted from the most significant.         *)
EXTENDS Word

CONSTANTS XLEN, BYTE

HALF == XLEN \div 2

Fits(x, n) == -2^(n - 1) <= x /\ x < 2^(n - 1)
operand(i, x, n) == IF i.is_signed THEN Signed(x, n) ELSE x % 2^n
width(i) == IF i.is_32bit THEN HALF ELSE XLEN
sticky(i, ov) == IF i.oe THEN B(i.xer_so = 1 \/ ov = 1) ELSE i.xer_so

(* CR0 compares the result with zero and copies SO.                         *)
Cr0(o, so) == {CASE Signed(o, XLEN) < 0 -> "LT"
                 [] Signed(o, XLEN) = 0 -> "EQ"
                 [] Signed(o, XLEN) > 0 -> "GT"} \cup (IF so = 1 THEN {"SO"} ELSE {})

-----------------------------------------------------------------------------
(* Add and subtract: v3.0B p67, p69-72.                                     *)
AddIsa(i, r) ==
    LET a == CASE i.sv_pred_sz -> 0
               [] ~i.sv_pred_sz /\ i.invert_in -> Not(i.a, XLEN)
               [] OTHER -> i.a
        c == CASE i.input_carry = "ZERO" -> 0
               [] i.input_carry = "ONE" -> 1
               [] i.input_carry = "CA" -> i.xer_ca[1]
        sum(n) == (a % 2^n) + (i.b % 2^n) + c
        over(n) == B(~Fits(Signed(a, n) + Signed(i.b, n) + c, n))
        so == sticky(i, over(XLEN))
    IN  /\ r.o = IF i.sv_pred_dz THEN 0 ELSE sum(XLEN) % 2^XLEN
        /\ i.output_carry => r.ca = <<sum(XLEN) \div 2^XLEN, sum(HALF) \div 2^HALF>>
        /\ i.oe => r.ov = <<over(XLEN), over(HALF)>> /\ r.so = so
        /\ r.cr = Cr0(r.o, so)

(* Compare: p85-86.                                                         *)
CmpIsa(i, r) ==
    LET n == IF i.L THEN XLEN ELSE HALF
        a == operand(i, i.a, n)
        b == operand(i, i.b, n)
    IN  r.cr \ {"SO"} = {IF a < b THEN "LT" ELSE IF a > b THEN "GT" ELSE "EQ"}

(* Multiply: the product of the operands, and whether it fits.              *)
MulIsa(i, r) ==
    LET n == width(i)
        p == operand(i, i.a, n) * operand(i, i.b, n)
        ov == B(~Fits(p, n))
    IN  CASE i.op = "OP_MUL_L64" ->
                /\ r.o = p % 2^XLEN
                /\ i.oe => r.ov = <<ov, ov>> /\ r.so = sticky(i, ov)
          [] i.op = "OP_MUL_H64" -> r.o = (p \div 2^XLEN) % 2^XLEN
          [] i.op = "OP_MUL_H32" ->
                /\ r.o % 2^HALF = (p \div 2^HALF) % 2^HALF
                /\ r.o \div 2^HALF = r.o % 2^HALF

(* Divide: truncating quotient and the remainder with the dividend's sign;  *)
(* a quotient that does not exist or does not fit sets OV instead.          *)
Abs(x) == IF x < 0 THEN -x ELSE x
Sign(x) == IF x < 0 THEN -1 ELSE 1

DivIsa(i, r) ==
    LET n == width(i)
        a == operand(i, i.a, n) * (IF i.op = "OP_DIVE" THEN 2^n ELSE 1)
        b == operand(i, i.b, n)
        q == Sign(a) * Sign(b) * (Abs(a) \div Abs(b))
        ov == b = 0 \/ IF i.is_signed THEN ~Fits(q, n) ELSE q >= 2^n
    IN  /\ (~ov /\ i.op = "OP_MOD") =>
               r.o = (a - q * b) % 2^(IF i.is_signed THEN XLEN ELSE n)
        /\ (~ov /\ i.op # "OP_MOD") => r.o % 2^n = q % 2^n
        /\ i.oe => r.ov = <<B(ov), B(ov)>> /\ r.so = sticky(i, B(ov))

-----------------------------------------------------------------------------
(* Bit positions as the ISA counts them.                                    *)

MASK(x, y) == {63 - p : p \in IF x <= y THEN x .. y ELSE (0 .. y) \cup (x .. 63)}
Left(S, n) == {k + n : k \in S} \cap 0 .. 63
Right(S, n) == {k - n : k \in S} \cap 0 .. 63
ROTL(S, n) == {k \in 0 .. 63 : (k - n) % 64 \in S}
ROTL32(S, n) == LET lo == S \cap 0 .. 31
                IN  {k \in 0 .. 63 : (k - n) % 32 \in lo}
insert(S, m, T) == (S \cap m) \cup (T \ m)

ShiftIsa(i, r) ==
    LET n == IF i.is_32bit THEN 32 ELSE 64
        count == i.shift % (2 * n)
        rs == i.rs \cap 0 .. n - 1
        negative == i.is_signed /\ n - 1 \in rs
        filled == IF negative THEN n - (IF count < n THEN count ELSE n) .. 63 ELSE {}
        mb == i.mb + 32 * i.mb_extra
        o == CASE i.op = "OP_SHL" -> Left(rs, count) \cap 0 .. n - 1
               [] i.op = "OP_SHR" -> Right(rs, count) \cup filled
               [] i.op = "OP_RLC" /\ i.is_32bit ->
                      insert(ROTL32(rs, count), MASK(i.mb + 32, i.me + 32), i.ra)
               [] i.op = "OP_RLC" /\ ~i.is_32bit ->
                      insert(ROTL(rs, count), MASK(mb, 63 - count), i.ra)
               [] i.op = "OP_RLCL" -> ROTL(rs, count) \cap MASK(mb, 63)
               [] i.op = "OP_RLCR" -> ROTL(rs, count) \cap MASK(0, mb)
               [] i.op = "OP_EXTSWSLI" ->
                      Left((i.rs \cap 0 .. 31)
                           \cup (IF 31 \in i.rs THEN 32 .. 63 ELSE {}), count)
    IN  /\ r.o = o
        /\ (i.op = "OP_SHR" /\ i.output_carry) =>
               r.ca = (negative /\ \E k \in rs : k < count)

-----------------------------------------------------------------------------
(* Logical instructions: p92-100.                                           *)
LogicalIsa(i, r) ==
    LET ones(S) == Cardinality(S)
        b == IF i.invert_in THEN (0 .. 63) \ i.b ELSE i.b
        n == IF i.is_32bit THEN 32 ELSE 64
        inside == i.a \cap 0 .. n - 1
        field(k, w) == (w * (k \div w)) .. (w * (k \div w) + w - 1)
        counted(w) == {k \in 0 .. 63 :
                          k % w < 7 /\ Bit(ones(i.a \cap field(k, w)), k % w) = 1}
        parity(S) == ones({k \in i.a : k % 8 = 0 /\ k \in S}) % 2
        zeros == CASE inside = {} -> n
                   [] inside # {} /\ i.count_right -> Min(inside)
                   [] OTHER -> n - 1 - Max(inside)
        index(k) == Num({j \in 0 .. 7 : 8 * k + j \in i.a})
        o == {k \in 0 .. 63 :
                CASE i.op = "OP_AND" -> k \in i.a /\ k \in b
                  [] i.op = "OP_OR"  -> k \in i.a \/ k \in b
                  [] i.op = "OP_XOR" -> (k \in i.a) # (k \in b)
                  [] i.op = "OP_CMPB" -> \A j \in field(k, 8) : j \in i.a <=> j \in i.b
                  [] i.op = "OP_POPCNT" -> k \in counted(8 * i.data_len)
                  [] i.op = "OP_PRTY" -> /\ k % (8 * i.data_len) = 0
                                         /\ parity(field(k, 8 * i.data_len)) = 1
                  [] i.op = "OP_CNTZ" -> k < 7 /\ Bit(zeros, k) = 1
                  [] i.op = "OP_BPERM" -> /\ k < 8 /\ index(k) < 64
                                          /\ 63 - index(k) \in i.b}
    IN  r.o = IF i.invert_out THEN (0 .. 63) \ o ELSE o

-----------------------------------------------------------------------------
(* Condition register logic: the opcode of each mnemonic and its function.  *)
CrLogic == [crand  |-> {<<1, 1>>},
            cror   |-> {<<0, 1>>, <<1, 0>>, <<1, 1>>},
            crxor  |-> {<<0, 1>>, <<1, 0>>},
            crnand |-> {<<0, 0>>, <<0, 1>>, <<1, 0>>},
            crnor  |-> {<<0, 0>>},
            creqv  |-> {<<0, 0>>, <<1, 1>>},
            crandc |-> {<<1, 0>>},
            crorc  |-> {<<0, 0>>, <<1, 0>>, <<1, 1>>}]
CrOpcode == [crand |-> 257, cror |-> 449, crxor |-> 193, crnand |-> 225,
             crnor |-> 33, creqv |-> 289, crandc |-> 129, crorc |-> 417]

CrIsa(i, r) ==
    LET bit(S, k) == B(3 - (k % 4) \in S)
        on == <<bit(i.cr_a, i.BA), bit(i.cr_b, i.BB)>> \in CrLogic[i.mnemonic]
    IN  i.op = "OP_CROP" =>
            \A k \in 0 .. 3 : bit(r.cr, k) = IF k = i.BT % 4 THEN B(on)
                                             ELSE bit(i.cr_c, k)
=============================================================================
