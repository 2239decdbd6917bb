------------------------------ MODULE FuProofs ------------------------------
(* What the repository's own formal proofs (fu/*/formal) assert of a stage, *)
(* given its input i and its output m: the drivers leave the input free and *)
(* assume what stands here before an implication.                           *)
EXTENDS Word

CONSTANTS XLEN, BYTE

HALF == XLEN \div 2
Repl(bit, n) == bit * (2^n - 1)

AluInputProof(i, in) ==
    /\ in.a = IF i.invert_in THEN Not(i.a, XLEN) ELSE i.a
    /\ in.b = i.b

AluProof(i, m) ==
    /\ i.op = "OP_ADD" =>
          /\ m.o + m.ca[1] * 2^XLEN = i.a + i.b + i.xer_ca[1]
          /\ m.ca[2] = Bit((i.a % 2^HALF) + (i.b % 2^HALF) + i.xer_ca[1], HALF)
          /\ \A f \in {<<1, XLEN - 1>>, <<2, HALF - 1>>} :
                m.ov[f[1]] = B(/\ m.ca[f[1]] # Bit(m.o, f[2])
                               /\ Bit(i.a, f[2]) = Bit(i.b, f[2]))
    /\ i.op = "OP_EXTS" =>
          LET n == i.data_len * BYTE
          IN  /\ m.o % 2^n = i.a % 2^n
              /\ m.o \div 2^n = Repl(Bit(i.a, n - 1), XLEN - n)
    /\ (i.op = "OP_CMP" /\ i.xer_ca[1] = 0) => m.o = (i.a + i.b) % 2^XLEN
    /\ i.op = "OP_CMPEQB" =>
          ("GT" \in m.cr <=> \E n \in 0 .. 7 :
                                Slice(i.b, n * BYTE, BYTE) = i.a % 2^BYTE)
    /\ m.o_ok <=> i.op \in {"OP_ADD", "OP_EXTS"}

(* Of the result that leaves the ALU; compares are made in the main stage.  *)
AluOutputProof(i, o, out) ==
    LET signed == Signed(out.o, XLEN)
    IN  /\ out.o = IF i.invert_out THEN Not(o, XLEN) ELSE o
        /\ Cardinality(out.cr \cap {"LT", "GT", "EQ"}) = 1
        /\ signed = 0 => "EQ" \in out.cr
        /\ signed > 0 => "GT" \in out.cr
        /\ signed < 0 => "LT" \in out.cr

-----------------------------------------------------------------------------
(* A signed product is that of the absolute values, negated when the signs  *)
(* differ (_sne in the source).                                             *)
abs(x, n) == IF Bit(x, n - 1) = 1 THEN Neg(x, n) ELSE x % 2^n
sne(i, n) == Bit(i.a, n - 1) # Bit(i.b, n - 1)
exp_prod(i, n) ==
    CASE ~i.is_signed -> (i.a % 2^n) * (i.b % 2^n)
      [] i.is_signed /\ sne(i, n) -> Neg(abs(i.a, n) * abs(i.b, n), 2 * n)
      [] OTHER -> abs(i.a, n) * abs(i.b, n)

MulHighProof(i, m) ==
    /\ (i.op = "OP_MUL_H32" /\ i.is_32bit) =>
          m.o = Slice(exp_prod(i, HALF), HALF, HALF) * (2^HALF + 1)
    /\ (i.op = "OP_MUL_H64" /\ ~i.is_32bit) => m.o = exp_prod(i, XLEN) \div 2^XLEN

MulLowProof(i, m) ==
    (i.op = "OP_MUL_L64" /\ (i.is_32bit \/ i.is_signed)) =>
        LET n == IF i.is_32bit THEN HALF ELSE XLEN
            top == exp_prod(i, n) \div 2^(n - 1)
        IN  /\ m.o = exp_prod(i, n) % 2^XLEN
            /\ \A f \in 1 .. 2 : m.ov[f] = B(top # 0 /\ top # 2^(n + 1) - 1)

-----------------------------------------------------------------------------
(* Words as sets of bits: S << n and S >> n.                                *)
low(S, n) == {k \in S : k < n}
left(S, n) == {k + n : k \in S}
right(S, n) == {k - n : k \in {j \in S : j >= n}}
\* arithmetic shift of an n-bit number
signed_right(S, sh, n) ==
    right(low(S, n), sh) \cup (IF n - 1 \in S THEN {k \in 0 .. n - 1 : k + sh >= n} ELSE {})

ShiftRotProof(i, m) ==
    i.ra = {} =>
        LET sh == IF i.is_32bit THEN i.shift % 64 ELSE i.shift
            n == IF i.is_32bit THEN 32 ELSE 64
            high == m.o \ 0 .. 31
        IN  /\ i.op = "OP_SHL" => m.o = low(left(i.rs, sh), n)
            /\ (i.op = "OP_SHR" /\ ~i.is_signed) => m.o = right(low(i.rs, n), sh)
            /\ (i.op = "OP_SHR" /\ i.is_signed) =>
                  /\ low(m.o, n) = signed_right(i.rs, sh, n)
                  /\ i.is_32bit => high = IF 31 \in i.rs THEN 32 .. 63 ELSE {}
            /\ (i.op = "OP_EXTSWSLI" /\ i.is_32bit) => m.o = low(left(i.rs, sh), 32)
            /\ (i.op = "OP_EXTSWSLI" /\ ~i.is_32bit) =>
                  LET a_s == low(i.rs, 32) \cup (IF 31 \in i.rs THEN 32 .. 63 ELSE {})
                  IN  m.o = low(left(a_s, sh), 64)

-----------------------------------------------------------------------------
(* simple_popcount and the priority encoder of the driver.                  *)
simple_popcount(S, from, n) == Cardinality(S \cap from .. from + n - 1)
pe_o(S, n) == IF S = {} THEN n ELSE Min(S)
bytes == {{8 * n + k : k \in 0 .. 7} : n \in 0 .. 7}
odd(S) == Cardinality(S) % 2 = 1

LogicalProof(i, o) ==
    /\ i.op = "OP_AND" => o = i.a \cap i.b
    /\ i.op = "OP_OR"  => o = i.a \cup i.b
    /\ i.op = "OP_XOR" => o = (i.a \ i.b) \cup (i.b \ i.a)
    /\ i.op = "OP_POPCNT" =>
          LET n == 8 * i.data_len
          IN  \A w \in 0 .. (8 \div i.data_len) - 1 :
                 Num(right(low(o, n * (w + 1)), n * w)) = simple_popcount(i.a, n * w, n)
    /\ i.op = "OP_PRTY" =>
          LET n == 8 * i.data_len
          IN  \A w \in 0 .. (8 \div i.data_len) - 1 :
                 right(low(o, n * (w + 1)), n * w) =
                     IF odd({k \in i.a : k % 8 = 0 /\ k \div n = w}) THEN {0} ELSE {}
    /\ i.op = "OP_CNTZ" =>
          LET n == IF i.is_32bit THEN 32 ELSE 64
              a == low(i.a, n)
          IN  Num(o) = pe_o(IF i.count_right THEN a ELSE {n - 1 - k : k \in a}, n)
    /\ i.op = "OP_CMPB" =>
          \A slc \in bytes :
              o \cap slc = IF i.a \cap slc = i.b \cap slc THEN slc ELSE {}

BpermdProof(rs, rb, ra) ==
    /\ ra \ 0 .. 7 = {}
    /\ \A n \in 0 .. 7 :
          LET index == Num(right(low(rs, 8 * n + 8), 8 * n))
          IN  n \in ra <=> (index < 64 /\ 63 - index \in rb)

-----------------------------------------------------------------------------
(* Condition register.  The fields are counted big-endian in the source.    *)
cr_arr(field, k) == 3 - (k % 4) \in field

CrLut(lut, bit_a, bit_b, bit_o) ==
    /\ lut = 8  => (bit_o <=> bit_a /\ bit_b)
    /\ lut = 4  => (bit_o <=> bit_a /\ ~bit_b)
    /\ lut = 9  => (bit_o <=> (bit_a <=> bit_b))
    /\ lut = 7  => (bit_o <=> ~(bit_a /\ bit_b))
    /\ lut = 1  => (bit_o <=> ~(bit_a \/ bit_b))
    /\ lut = 14 => (bit_o <=> bit_a \/ bit_b)
    /\ lut = 13 => (bit_o <=> bit_a \/ ~bit_b)
    /\ lut = 6  => (bit_o <=> bit_a # bit_b)

CrProof(i, m) ==
    /\ i.op = "OP_MTCRF" => m.full_cr = i.a
    /\ i.op = "OP_MFCR"  => m.o = i.full_cr
    /\ i.op = "OP_MCRF"  => \A k \in 0 .. 3 : cr_arr(m.cr, k) <=> cr_arr(i.cr_a, k)
    /\ i.op = "OP_CROP"  =>
          CrLut(i.lut, cr_arr(i.cr_a, i.BA), cr_arr(i.cr_b, i.BB), cr_arr(m.cr, i.BT))
    /\ i.op = "OP_ISEL"  => m.o = IF cr_arr(i.cr_a, i.BC) THEN i.a ELSE i.b
    /\ i.op = "OP_SETB"  =>
          m.o = CASE cr_arr(i.cr_a, 0) -> -1
                  [] ~cr_arr(i.cr_a, 0) /\ cr_arr(i.cr_a, 1) -> 1
                  [] OTHER -> 0

-----------------------------------------------------------------------------
(* The control units: i is the instruction with the registers it read, now  *)
(* the registers after it.                                                  *)

(* The test of CTR here is of the register as it was read.                  *)
BranchProof(i, now) ==
    LET bo(n) == Bit(i.bo, n) = 1
        cond_ok == bo(4) \/ (i.cr = 1 <=> bo(3))
        ctr_ok == bo(2) \/ ((i.ctr # 0) # bo(1))
        nia_ok == i.op = "b" \/ (cond_ok /\ ctr_ok)
        after == (i.cia + 4) % i.space
    IN  /\ now.cia = IF nia_ok THEN (i.to - (i.to % 4)) % i.space ELSE after
        /\ nia_ok => now.lr = IF i.lk THEN after ELSE i.lr
        /\ now.ctr = IF i.op = "b" \/ bo(2) THEN i.ctr ELSE (i.ctr - 1) % i.space

SprProof(i, now) ==
    /\ i.op = "mtspr" /\ i.spr # "XER" => now[i.spr] = i.a /\ now.flags = i.flags
    /\ i.op = "mtspr" /\ i.spr = "XER" =>
          now.flags = [f \in DOMAIN now.flags |-> B(f \in i.a)]
    /\ i.op = "mfspr" => now.rt = {now[i.spr]}
    /\ i.op = "mfxer" => \A f \in DOMAIN now.flags : f \in now.rt <=> now.flags[f] = 1

(* MSR of the handler: MSRb bits the model does not name are all cleared.   *)
handler_msr(m) == (m \ {"IR", "DR", "EE", "RI", "VEC", "PR", "FP"}) \cup {"SF", "LE"}

TrapProof(i, now) ==
    LET n == IF i.w THEN i.width \div 2 ELSE i.width
        a_s == Signed(i.a, n)
        b_s == Signed(i.b, n)
        trapbits == {t \in {"lt_s", "gt_s", "eq", "lt_u", "gt_u"} :
                       CASE t = "lt_s" -> a_s < b_s
                         [] t = "gt_s" -> a_s > b_s
                         [] t = "lt_u" -> i.a % 2^n < i.b % 2^n
                         [] t = "gt_u" -> i.a % 2^n > i.b % 2^n
                         [] t = "eq"   -> i.a % 2^n = i.b % 2^n}
    IN  (i.traptype # {} \/ trapbits \cap i.to # {}) =>
            /\ now.msr = handler_msr(i.msr)
            /\ now.SRR0 = i.cia
            /\ now.srr1 = (i.msr \ {"PF"})
                          \cup (i.traptype \cap {"ILLEG", "PRIV", "ADDR"})
                          \cup (IF i.traptype = {} THEN {"TRAP"} ELSE {})
            /\ now.cia = i.trapaddr

ScProof(i, now) ==
    /\ now.SRR0 = (i.cia + 4) % i.space
    /\ now.srr1 = i.msr \ {"PF"}
    /\ now.msr = handler_msr(i.msr)

(* Bits of now.msr that come from a word: as they are, and those PR forces. *)
copies(from, bits, m) == \A b \in bits : b \in m <=> b \in from
forced(from, m) == \A b \in {"EE", "IR", "DR"} : b \in m <=> (b \in from \/ "PR" \in from)
bits_29_31(from, old, m) ==
    LET hv == {"29", "30", "31"}
    IN  m \cap hv = IF old \cap hv # {"30"} \/ from \cap hv # {} THEN from \cap hv
                                                              ELSE old \cap hv

MtmsrProof(i, now) ==
    /\ ~i.L => /\ copies(i.a, {"VEC", "PF", "PR", "FP", "RI"}, now.msr)
               /\ forced(i.a, now.msr)
               /\ copies(i.msr, {"SF", "HV", "29", "30", "31", "ME", "LE"}, now.msr)
    /\ i.L => now.msr = (i.msr \ {"EE", "RI"}) \cup (i.a \cap {"EE", "RI"})

MtmsrdProof(i, now) ==
    /\ ~i.L => /\ bits_29_31(i.a, i.msr, now.msr)
               /\ forced(i.a, now.msr)
               /\ copies(i.a, {"SF", "VEC", "PF", "PR", "FP", "RI"}, now.msr)
    /\ i.L => copies(i.a, {"EE", "RI"}, now.msr)

MfmsrProof(i, now) == now.rt = i.msr

RfidProof(i, now) ==
    /\ copies(i.srr1, {"HV"}, now.msr)
    /\ bits_29_31(i.srr1, i.msr, now.msr)
    /\ forced(i.srr1, now.msr)
    /\ copies(i.srr1, {"SF", "VEC", "PR", "FP", "RI", "LE"}, now.msr)
    /\ now.cia = i.srr0 - (i.srr0 % 4)
=============================================================================
