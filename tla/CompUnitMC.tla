----------------------------- MODULE CompUnitMC -----------------------------
(* What CompUnit must satisfy, and small instances of it.  The ALUs it is   *)
(* tried with, and the parts for misaligned accesses, are units of their    *)
(* own: each behaviour exercises one of them, its focus.                    *)
EXTENDS CompUnit, Misaligned, Sequences

CONSTANTS WIDTH, BYTE, Offers

VARIABLES
    focus,
    unit, holding, i_valid, i_ready, offer, counter, o, ready_q, valid_q,
    fsm, direction, owed,
    live        \* history: clocks for which the Shifter has been busy

Alus == INSTANCE ExampleAlus

alusVars == <<unit, holding, i_valid, i_ready, offer, counter, o, ready_q, valid_q,
              fsm, direction, owed, live>>
allVars == <<focus, unitVars, alusVars, splitVars>>

HistInit == /\ focus \in {"unit", "alus", "split", "compare"}
            /\ UnitInit
            /\ Alus!AluInit /\ live = 0 /\ (focus # "alus" => unit = "ALU" /\ holding)
            /\ SplitInit

AlusNext == /\ Alus!AlusNext
            /\ live' = IF unit = "Shifter" /\ ~Alus!o_ready /\ ~Alus!o_valid
                         THEN live + 1 ELSE 0

HistNext ==
    /\ UNCHANGED focus
    /\ \/ focus = "unit" /\ UnitNext /\ UNCHANGED <<alusVars, splitVars>>
       \/ focus = "alus" /\ AlusNext /\ UNCHANGED <<unitVars, splitVars>>
       \/ focus = "split" /\ Split /\ UNCHANGED <<unitVars, alusVars>>
       \/ focus = "compare" /\ Compare /\ UNCHANGED <<unitVars, alusVars>>

HistSpec == HistInit /\ [][HistNext]_allVars

-----------------------------------------------------------------------------
\* The clock ticks, and the ALU finishes what it took.
FairSpec == HistSpec /\ WF_vars(UnitNext) /\ []<>(alu # "run")

\* A unit that was issued an instruction becomes free again (busy_o, which the
\* issuer waits for; req_done has to find every last write).
Finishes == busy_o ~> ~busy_o

-----------------------------------------------------------------------------
(* What an accepted offer is worth, by its own arithmetic.                  *)

Fits(x) == x % 2^WIDTH
SignedByte(v) == LET low == v % 2^BYTE
                 IN  Fits(IF low < 2^(BYTE - 1) THEN low ELSE low - 2^BYTE)
Worth(f) ==
    CASE unit = "DummyALU" -> f.a
      [] unit = "BranchALU" ->
            IF f.op \in CASE f.a < f.b -> {"lt", "ne"} [] f.a > f.b -> {"gt", "ne"}
                          [] f.a = f.b -> {"eq"} THEN 1 ELSE 0
      [] f.op = "right" -> f.a \div 2^(f.b % (2 * WIDTH))
      [] f.op = "left" -> Fits(f.a * 2^(f.b % (2 * WIDTH)))
      [] f.op = "OP_ADD" -> Fits(IF f.inv THEN f.b - f.a - 1 ELSE f.a + f.b)
      [] f.op = "OP_MUL_L64" -> Fits(f.a * f.b)
      [] f.op = "OP_SHR" -> f.a \div 2^f.b
      [] f.op = "OP_EXTS" -> SignedByte(f.a)
      [] f.op = "OP_EXTSWSLI" -> SignedByte(f.b)
      [] OTHER -> Fits(f.a - f.b)

\* Each ALU answers what it accepted, once, in order and with no other in
\* flight; its result waits for the consumer unchanged; and its "ok" flags
\* belong to the result if the operation was held, as MultiCompUnit holds it
\* (alu_hier.py's handshakes; the counts and the bound of proof_alu_fsm.py).
AlusAnswer ==
    /\ Alus!o_valid =>
          /\ Alus!Due # <<>>
          /\ LET f == Head(Alus!Due)
             IN  /\ Alus!data = Worth(f)
                 /\ (unit = "ALU" /\ holding) => Alus!o_ok = (f.op # "OP_NOP")
                                                 /\ Alus!cr_ok = f.rc
                 /\ unit = "ALU" => Alus!CrOf(Alus!data) =
                       CASE Worth(f) = 0 -> "eq" [] Worth(f) \in 1 .. 127 -> "gt"
                         [] OTHER -> "lt"
    /\ unit = "Shifter" => Len(owed) = IF Alus!o_ready THEN 0 ELSE 1
    /\ live < 16

-----------------------------------------------------------------------------
\* Of the bytes it asked for, a load is answered with exactly those in the line
\* it starts in, each in its place and with nothing of another load ORed to it
\* (LDSTSplitter).  Two accesses match exactly when they share such a byte
\* (PartialAddrBitmap); TwinPartialAddrBitmap finds no match that is none, but
\* keeps too few bits of the map to find all.  No byte of a merged line has two
\* writers and none of a merged request is lost (DataMerger).  For an access
\* that ends in its line those are all its bytes; of one that crosses, the bytes
\* in the next line are neither loaded nor compared (LenExpand cuts them off).
MisalignedAccesses ==
    LET held(r) == {x \in r.addr .. r.addr + r.len - 1 : x \div L = r.addr \div L}
    IN  /\ o_valid => {x \in ld_data_o : x[1] < access.len} =
                         {<<x - access.addr, x>> : x \in held(access)}
        /\ \A i, j \in Active : i # j =>
              /\ is_match(addr_r[i], addr_r[j]) <=> held(addr_r[i]) \cap held(addr_r[j]) # {}
              /\ TwinMatch(addr_r[i], addr_r[j]) => is_match(addr_r[i], addr_r[j])
        /\ \A h \in 1 .. 2 :
              LET out == Merge(addr_nomatch_o, h)
              IN  /\ \A x, y \in out : x[1] = y[1] => x = y
                  /\ \A x \in out : \A y \in Row(x[2], h) : y \in out

-----------------------------------------------------------------------------
\* Two operands, and two results, share a port.
UnitRdPort == <<1, 1, 2>>
UnitWrPort == <<1, 2, 1>>
UnitReads == {<<{}, {}>>, <<{1, 2, 3}, {}>>, <<{1, 3}, {2}>>, <<{3}, {1, 2}>>}
UnitOps == {[rd |-> r[1], imm |-> r[2], wr |-> w, tag |-> t] :
               r \in UnitReads, w \in SUBSET Dst, t \in 0 .. 1}

Offered(op, a, b) == [op |-> op, a |-> a, b |-> b, inv |-> FALSE, rc |-> a = b]
AluOffers ==
    [ALU |-> {Offered("OP_ADD", 5, 3), [Offered("OP_ADD", 5, 3) EXCEPT !.inv = TRUE],
              Offered("OP_ADD", 200, 100), Offered("OP_MUL_L64", 20, 13),
              Offered("OP_SHR", 13, 2), Offered("OP_SHR", 13, 9),
              Offered("OP_EXTS", 24, 0), Offered("OP_EXTSWSLI", 2, 24),
              Offered("OP_CMP", 5, 5), Offered("OP_CMP", 3, 5), Offered("OP_NOP", 5, 3)},
     DummyALU |-> {Offered("any", 5, 3), Offered("any", 0, 1)},
     BranchALU |-> {Offered(op, 7, b) : op \in {"gt", "lt", "eq", "ne"}, b \in {3, 7, 9}},
     Shifter |-> {Offered(op, 137, n) : op \in {"left", "right"}, n \in {0, 1, 7, 8, 15, 17}}]
=============================================================================
