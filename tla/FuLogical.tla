------------------------------ MODULE FuLogical -----------------------------
(* The logical pipeline (fu/logical) at its own width: bitwise operations,  *)
(* byte compare, population count, parity, count zeros and bit permute.     *)
EXTENDS Word

Bits == 0 .. 63
Byte(S, n) == {k \in 0 .. 7 : 8 * n + k \in S}

(* Here it is operand b that is inverted.                                   *)
InputStage(i) ==
    [i EXCEPT !.a = IF i.sv_pred_sz THEN {} ELSE i.a,
              !.b = CASE i.sv_pred_sz -> {}
                      [] ~i.sv_pred_sz /\ i.invert_in -> Bits \ i.b
                      [] OTHER -> i.b]

Cmpb(i) == {k \in Bits : Byte(i.a, k \div 8) = Byte(i.b, k \div 8)}

(* Six levels of adders, each one bit wider than the level it sums.         *)
pc(a) ==
    LET level[l \in 0 .. 6] ==
            IF l = 0 THEN [n \in Bits |-> B(n \in a)]
            ELSE [n \in 0 .. (64 \div 2^l) - 1 |->
                    (level[l - 1][2 * n] + level[l - 1][2 * n + 1]) % 2^(l + 1)]
    IN  level

Popcount(i) ==
    CASE i.data_len = 1 -> UNION {BitsOf(pc(i.a)[3][n], 8 * n, 8) : n \in 0 .. 7}
      [] i.data_len = 4 -> UNION {BitsOf(pc(i.a)[5][n], 32 * n, 6) : n \in 0 .. 1}
      [] OTHER          -> BitsOf(pc(i.a)[6][0], 0, 7)

(* The exclusive or of the lowest bits of the bytes, by halves.             *)
Parity(i) ==
    LET odd(bits) == Cardinality(bits \cap i.a) % 2 = 1
        par0 == odd({0, 8, 16, 24})
        par1 == odd({32, 40, 48, 56})
    IN  IF i.data_len = 8 THEN {k \in {0} : par0 # par1}
        ELSE {k \in {0, 32} : IF k = 0 THEN par0 ELSE par1}

\* mutant: the zeros above a 32-bit input are counted
Cntz_all(i) ==
    LET width == IF i.is_32bit THEN 32 ELSE 64
        a == i.a \cap 0 .. width - 1
        cntz_i == IF i.count_right THEN {width - 1 - k : k \in a} ELSE a
    IN  BitsOf(IF cntz_i = {} THEN 64 ELSE 63 - Max(cntz_i), 0, 7)

(* One leading zero counter: the input is reversed to count from the right, *)
(* and a 32-bit input leaves 32 zeros too many.                             *)
Cntz(i) ==
    LET width == IF i.is_32bit THEN 32 ELSE 64
        a == i.a \cap 0 .. width - 1
        cntz_i == IF i.count_right THEN {width - 1 - k : k \in a} ELSE a
        lz == IF cntz_i = {} THEN 64 ELSE 63 - Max(cntz_i)
    IN  BitsOf(lz - (64 - width), 0, 7)

Bpermd(i) ==
    LET idx(n) == Num(Byte(i.a, n))
    IN  {n \in 0 .. 7 : idx(n) < 64 /\ 63 - idx(n) \in i.b}

MainStage(i) == CASE i.op = "OP_AND"    -> i.a \cap i.b
                  [] i.op = "OP_OR"     -> i.a \cup i.b
                  [] i.op = "OP_XOR"    -> SymDiff(i.a, i.b)
                  [] i.op = "OP_CMPB"   -> Cmpb(i)
                  [] i.op = "OP_POPCNT" -> Popcount(i)
                  [] i.op = "OP_PRTY"   -> Parity(i)
                  [] i.op = "OP_CNTZ"   -> Cntz(i)
                  [] i.op = "OP_BPERM"  -> Bpermd(i)

(* CommonOutputStage: XER.SO only passes through, into CR0.                 *)
OutputStage(i, m) ==
    LET o == CASE i.sv_pred_dz -> {}
               [] ~i.sv_pred_dz /\ i.invert_out -> Bits \ m
               [] OTHER -> m
    IN  [o |-> o, cr |-> CrField(i.xer_so = 1, o # {}, 63 \in o)]

-----------------------------------------------------------------------------
(* The condition register unit (fu/cr).  A field is the set of its one      *)
(* bits, 3 for LT down to 0 for SO; the instruction counts them from LT.    *)

select(field) == 3 - (field % 4)

(* The truth table in the opcode is indexed by the two operand bits.        *)
Crop(i) ==
    LET bit_a == B(select(i.BA) \in i.cr_a)
        bit_b == B(select(i.BB) \in i.cr_b)
        bt == select(i.BT)
    IN  IF Bit(i.lut, 2 * bit_a + bit_b) = 1 THEN i.cr_c \cup {bt}
                                             ELSE i.cr_c \ {bt}

Setb(i) == CASE 3 \in i.cr_a -> -1
             [] 3 \notin i.cr_a /\ 2 \in i.cr_a -> 1
             [] OTHER -> 0

CrStage(i) ==
    CASE i.op = "OP_MCRF"  -> [cr |-> i.cr_a]
      [] i.op = "OP_CROP"  -> [cr |-> Crop(i)]
      [] i.op = "OP_MTCRF" -> [full_cr |-> i.a]
      [] i.op = "OP_MFCR"  -> [o |-> i.full_cr]
      [] i.op = "OP_ISEL"  -> [o |-> IF select(i.BC) \in i.cr_a THEN i.a ELSE i.b]
      [] i.op = "OP_SETB"  -> [o |-> Setb(i)]
=============================================================================
