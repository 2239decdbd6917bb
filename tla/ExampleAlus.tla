---------------------------- MODULE ExampleAlus -----------------------------
(***************************************************************************)
(* The ALUs the compute units and the scoreboard are tried with: ALU,      *)
(* DummyALU and BranchALU of src/soc/experiment/alu_hier.py, which take as *)
(* many clocks as their counter says, and the Shifter of alu_fsm.py.       *)
(*                                                                         *)
(* One step is one clock.  A producer holds its offer until it is accepted *)
(* (i_valid with o_ready), a consumer takes a result (o_valid with         *)
(* i_ready) in any clock.  DummyALU and BranchALU take the operands a      *)
(* clock before they say so, and need what MultiCompUnit does: the         *)
(* operation stays and i_valid is low until the result has gone.           *)
(***************************************************************************)
EXTENDS Word, Sequences

CONSTANTS WIDTH, BYTE,   \* bits of a word; of what OP_EXTS extends
          Offers         \* what is offered to each ALU

VARIABLES unit, holding,           \* the ALU; whether the producer keeps the operation
          i_valid, i_ready, offer, \* the inputs
          counter, o, ready_q, valid_q, fsm, direction,
          owed                     \* accepted and not yet answered
aluVars == <<unit, holding, i_valid, i_ready, offer, counter, o, ready_q, valid_q, fsm,
             direction, owed>>

\* op_subset: what the producer may offer, and nothing.
NoOffer == [op |-> "OP_NOP", a |-> 0, b |-> 0, inv |-> FALSE, rc |-> FALSE]

AluInit ==
    /\ unit \in {"ALU", "DummyALU", "BranchALU", "Shifter"}
    /\ holding \in BOOLEAN /\ (unit \in {"DummyALU", "BranchALU"} => holding)
    /\ i_valid = FALSE /\ i_ready = FALSE /\ offer = NoOffer
    /\ counter = 0 /\ o = 0 /\ ready_q = FALSE /\ valid_q = FALSE /\ fsm = "IDLE"
    /\ direction = "left"
    /\ owed = <<>>

-----------------------------------------------------------------------------
(* Results.                                                                *)

SignExtend(v) == Exts(v, BYTE, WIDTH)
Adder(f) == ((IF f.inv THEN 2^WIDTH - 1 - f.a ELSE f.a) + f.b) % 2^WIDTH
Subtractor(f) == (f.a + 2^WIDTH - f.b) % 2^WIDTH
Registered(f) ==
    CASE f.op = "OP_ADD" -> Adder(f)
      [] f.op = "OP_MUL_L64" -> (f.a * f.b) % 2^WIDTH
      [] f.op = "OP_SHR" -> IF f.b < WIDTH THEN f.a \div 2^f.b ELSE 0
      [] f.op = "OP_EXTS" -> SignExtend(f.a)
      [] f.op = "OP_EXTSWSLI" -> SignExtend(f.b)
BranchOp(f) == CASE f.op = "gt" -> B(f.a > f.b) [] f.op = "lt" -> B(f.a < f.b)
                 [] f.op = "eq" -> B(f.a = f.b) [] f.op = "ne" -> B(f.a # f.b)
CrOf(v) == CASE v = 0 -> "eq" [] v >= 2^(WIDTH - 1) -> "lt" [] OTHER -> "gt"
Delay(op) == CASE op = "OP_MUL_L64" -> 5 [] op = "OP_ADD" -> 3
               [] op \in {"OP_SHR", "OP_EXTS", "OP_EXTSWSLI"} -> 1 [] OTHER -> 0

-----------------------------------------------------------------------------
(* The handshake.                                                          *)

go_now == unit = "ALU" /\ counter = 0 /\ i_valid /\ Delay(offer.op) = 0

o_ready == CASE go_now -> i_ready
             [] unit = "ALU" /\ ~go_now -> counter = 0
             [] unit = "Shifter" -> fsm = "IDLE"
             [] OTHER -> ready_q
o_valid == CASE unit = "ALU" -> go_now \/ counter = 1
             [] unit = "Shifter" -> fsm = "DONE"
             [] OTHER -> valid_q
data == CASE go_now -> Subtractor(offer)
          [] unit = "ALU" /\ ~go_now -> IF counter = 1 THEN o ELSE 0
          [] OTHER -> o
o_ok == offer.op # "OP_NOP"
cr_ok == offer.rc

accepted == i_valid /\ o_ready
given == o_valid /\ i_ready

-----------------------------------------------------------------------------
(* Clocks of the units.                                                    *)

\* Mutant: the counter runs out although the result waits.
Counted_ungated == counter - 1
Counted == IF counter # 1 \/ i_ready THEN counter - 1 ELSE counter

\* ALU: grabs the result at once, and holds it until its counter is 1.
AluClock ==
    /\ unit = "ALU"
    /\ IF counter = 0
         THEN IF i_valid /\ ~go_now
                THEN o' = Registered(offer) /\ counter' = Delay(offer.op)
                ELSE UNCHANGED <<o, counter>>
         ELSE counter' = Counted /\ o' = o
    /\ UNCHANGED <<ready_q, valid_q, fsm, direction>>

takes == i_valid /\ ~ready_q

\* DummyALU answers in the next clock, BranchALU after five.
CounterClock ==
    /\ unit \in {"DummyALU", "BranchALU"}
    /\ ready_q' = i_valid
    /\ valid_q' = (~given /\ (valid_q \/ counter = 1 \/ (takes /\ unit = "DummyALU")))
    /\ counter' = CASE counter > 1 -> counter - 1
                    [] counter <= 1 /\ given -> 0
                    [] counter <= 1 /\ ~given /\ takes -> IF unit = "DummyALU" THEN 1 ELSE 5
                    [] OTHER -> counter
    /\ o' = CASE given -> 0
              [] ~given /\ takes -> IF unit = "DummyALU" THEN offer.a ELSE BranchOp(offer)
              [] OTHER -> o
    /\ UNCHANGED <<fsm, direction>>

\* Shifter: counter is its count of shift_width bits, o its register.
ShifterClock ==
    /\ unit = "Shifter"
    /\ CASE fsm = "IDLE" ->
              /\ o' = offer.a /\ counter' = offer.b % (2 * WIDTH)
              /\ direction' = offer.op
              /\ fsm' = IF ~i_valid THEN "IDLE" ELSE IF counter' = 0 THEN "DONE" ELSE "SHIFT"
         [] fsm = "SHIFT" ->
              /\ o' = IF direction = "right" THEN o \div 2 ELSE (o * 2) % 2^WIDTH
              /\ counter' = counter - 1
              /\ fsm' = IF counter' = 0 THEN "DONE" ELSE "SHIFT"
              /\ UNCHANGED direction
         [] fsm = "DONE" ->
              /\ fsm' = IF i_ready THEN "IDLE" ELSE "DONE"
              /\ UNCHANGED <<o, counter, direction>>
    /\ UNCHANGED <<ready_q, valid_q>>

-----------------------------------------------------------------------------
(* Producer and consumer.                                                  *)

\* What has been accepted, or is being answered in this clock.
Due == IF accepted \/ go_now THEN Append(owed, offer) ELSE owed

Offer == /\ i_valid' = TRUE
         /\ offer' \in Offers[unit]
         /\ holding => ~i_valid /\ owed' = <<>>
NoMore == /\ i_valid' = FALSE
          /\ offer' = IF holding /\ owed' # <<>> THEN offer ELSE NoOffer
Produce == IF i_valid /\ ~accepted THEN UNCHANGED <<i_valid, offer>> ELSE Offer \/ NoMore

AlusNext ==
    /\ AluClock \/ CounterClock \/ ShifterClock
    /\ owed' = CASE given -> Tail(Due)
                 [] accepted /\ ~given -> Due
                 [] OTHER -> owed
    /\ Produce
    /\ i_ready' \in BOOLEAN
    /\ UNCHANGED <<unit, holding>>
=============================================================================
