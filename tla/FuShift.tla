------------------------------- MODULE FuShift ------------------------------
(* The shift and rotate pipeline (fu/shift_rot) at its own width: one       *)
(* rotator, two masks and an output mode make every shift and rotate.       *)
EXTENDS Word

Bits == 0 .. 63

(* Zeroing of the source takes ra and the count; rs passes as it is.        *)
InputStage(i) == [i EXCEPT !.ra = IF i.sv_pred_sz THEN {} ELSE i.ra,
                           !.shift = IF i.sv_pred_sz THEN 0 ELSE i.shift]

right_shift(i) == i.op = "OP_SHR"
clear_left(i)  == i.op \in {"OP_RLC", "OP_RLCL"}
clear_right(i) == i.op \in {"OP_RLC", "OP_RLCR"}
sign_ext_rs(i) == i.op = "OP_EXTSWSLI"

(* The low half fills both halves of a 32-bit operand.                      *)
repl32(i) ==
    LET lo == i.rs \cap 0 .. 31
        hi == CASE i.is_32bit -> {k + 32 : k \in lo}
                [] ~i.is_32bit /\ sign_ext_rs(i) ->
                       IF 31 \in lo THEN 32 .. 63 ELSE {}
                [] OTHER -> i.rs \cap 32 .. 63
    IN  lo \cup hi

(* A right shift rotates left by the negated count.                         *)
rot_count(i) == (IF right_shift(i) THEN -i.shift ELSE i.shift) % 64
rotl(S, n) == {(k + n) % 64 : k \in S}
rot(i) == rotl(repl32(i), rot_count(i))

\* mutant: six bits of shift count for every shift
sh_six(i) == i.shift % 64

(* Six bits of shift count, seven for a 64-bit shift.                       *)
sh(i) == IF i.is_32bit THEN i.shift % 64 ELSE i.shift

(* First and last bit of the mask, the most significant bit being 0.        *)
mask_begin(i) ==
    CASE clear_left(i)  -> i.mb + 32 * (IF i.is_32bit THEN 1 ELSE i.mb_extra)
      [] right_shift(i) -> IF ~i.is_32bit THEN sh(i)
                           ELSE (sh(i) % 32) + (IF sh(i) < 32 THEN 32 ELSE 64)
      [] OTHER          -> IF i.is_32bit THEN 32 ELSE 0

mask_end(i) ==
    CASE clear_right(i) /\ i.is_32bit        -> i.me + 32
      [] clear_right(i) /\ ~i.is_32bit /\ ~clear_left(i) -> i.mb + 32 * i.mb_extra
      [] OTHER -> (63 - (sh(i) % 64)) + 64 * (sh(i) \div 64)

right_mask(begin) == {k \in Bits : begin <= 64 /\ k < 64 - begin}
left_mask(end) == {k \in Bits : k >= (63 - end) % 128}
mr(i) == right_mask(mask_begin(i))
ml(i) == left_mask(mask_end(i))

rotate_result(i) ==
    LET in == mr(i) \cap ml(i)
        around == mr(i) \cup ml(i)
    IN  CASE right_shift(i) \/ (clear_left(i) /\ ~clear_right(i)) ->
                IF i.is_signed /\ 63 \in repl32(i)
                THEN rot(i) \cup (Bits \ mr(i))
                ELSE rot(i) \cap mr(i)
          [] clear_right(i) /\ mask_begin(i) % 64 > mask_end(i) % 64 ->
                (rot(i) \cap around) \cup (i.ra \ around)
          [] OTHER -> (rot(i) \cap in) \cup (i.ra \ in)

(* Carry: a negative number lost one bits to an arithmetic right shift.     *)
carry_out(i) ==
    /\ right_shift(i) \/ (clear_left(i) /\ ~clear_right(i))
    /\ i.is_signed /\ 63 \in repl32(i)
    /\ i.rs \ ml(i) # {}

MainStage(i) == [o |-> rotate_result(i), ca |-> carry_out(i)]

OutputStage(i, m) ==
    LET o == IF i.sv_pred_dz THEN {} ELSE m.o
    IN  [o |-> o, ca |-> i.output_carry /\ m.ca,
         cr |-> CrField(i.xer_so = 1, o # {}, 63 \in o)]
=============================================================================
