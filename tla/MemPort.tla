------------------------------ MODULE MemPort ------------------------------
(***************************************************************************)
(* LoadStore1 (src/soc/fu/ldst/loadstore.py), the memory side of the port  *)
(* in a core with caches: it sends the access to the D-cache and, when the *)
(* D-cache cannot translate the address, to the MMU.                       *)
(* DSISR and DAR are written and never read: left out.                     *)
(***************************************************************************)
EXTENDS PortInterface

VARIABLES
    state, ldst_r,             \* LoadStore1's FSM; the request it works on
    d_valid_1, st_data         \* d_valid of the last clock; d_out.data

loadStore1Vars == <<state, ldst_r, d_valid_1, st_data>>

\* LDSTRequest; cleared, it is a store to address 0.
Request == [load : BOOLEAN, addr : Token \X Token, misalign : BOOLEAN]
NoRequest == [load |-> FALSE, addr |-> <<Zero, Zero>>, misalign |-> FALSE]

LoadStore1TypeOK ==
    /\ state \in {"IDLE", "ACK_WAIT", "MMU_LOOKUP"}
    /\ ldst_r \in Request
    /\ d_valid_1 \in BOOLEAN /\ st_data \in Token

LoadStore1Init ==
    /\ state = "IDLE" /\ ldst_r = NoRequest
    /\ d_valid_1 = FALSE /\ st_data = Zero

-----------------------------------------------------------------------------
\* The address latched with the instruction decides whether it is misaligned.
req == CASE set_wr_addr -> [load |-> FALSE, addr |-> addr,
                            misalign |-> oper # None /\ oper.misalign]
         [] ~set_wr_addr /\ set_rd_addr ->
                [load |-> TRUE, addr |-> addr,
                 misalign |-> oper # None /\ oper.misalign]
         [] OTHER -> NoRequest

\* The D-cache's answer d, "none", "valid", "error" or "paradox" (an error
\* with cache_paradox), and the MMU's, "none", "done" or "err".
done(d) == state = "ACK_WAIT" /\ d = "valid"
mmureq(d) == state = "ACK_WAIT" /\ d = "error"
fsm_exc(d, mmu) == \/ state = "ACK_WAIT" /\ d = "paradox"
                   \/ state = "MMU_LOOKUP" /\ mmu = "err"

-----------------------------------------------------------------------------
(* Wires that need exc_o.happened, which itself follows from them: the     *)
(* store's go is withdrawn by an exception, and an alignment exception is  *)
(* raised by the store's go.                                               *)

d_valid(exc) == set_rd_addr \/ set_wr_data(exc)
d_validblip(exc) == d_valid(exc) /\ ~d_valid_1

\* What LoadStore1 works on in this clock.
current(exc) == IF d_validblip(exc) THEN req ELSE ldst_r

exception(exc, d, mmu) == current(exc).misalign \/ fsm_exc(d, mmu)

\* The values the wire can have: the stable ones; if there is none, the loop
\* oscillates and a register takes either value (a misaligned store).
Exceptions(d, mmu) ==
    LET stable == {e \in BOOLEAN : exception(e, d, mmu) = e}
    IN  IF stable = {} THEN BOOLEAN ELSE stable

\* Mutant: the retry after the MMU's answer without the latched request.
d_out_forgotten(exc, mmu) ==
    [valid |-> \/ d_validblip(exc) /\ ~exc
               \/ state = "MMU_LOOKUP" /\ mmu = "done" /\ ~exc,
     req |-> IF d_validblip(exc) THEN req ELSE NoRequest]
\* The request to the D-cache: a new one, or the retry of a translated one.
d_out(exc, mmu) ==
    [valid |-> \/ d_validblip(exc) /\ ~exc
               \/ ~d_validblip(exc) /\ state = "MMU_LOOKUP" /\ mmu = "done" /\ ~exc,
     req |-> current(exc)]

-----------------------------------------------------------------------------
(* One clock.                                                              *)

LoadStoreIdle(exc) ==
    /\ state = "IDLE"
    /\ state' = IF d_validblip(exc) /\ ~exc THEN "ACK_WAIT" ELSE "IDLE"
    /\ ldst_r' = IF d_validblip(exc) /\ ~exc THEN req ELSE NoRequest

LoadStoreAckWait(d) ==
    /\ state = "ACK_WAIT"
    /\ state' = CASE d = "error" -> "MMU_LOOKUP"
                  [] d \in {"valid", "paradox"} -> "IDLE"
                  [] OTHER -> "ACK_WAIT"
    /\ ldst_r' = IF d \in {"valid", "paradox"} THEN NoRequest ELSE ldst_r

\* An error of the MMU raises the exception; the state stays.
LoadStoreMmuLookup(mmu) ==
    /\ state = "MMU_LOOKUP"
    /\ state' = IF mmu = "done" THEN "ACK_WAIT" ELSE "MMU_LOOKUP"
    /\ ldst_r' = IF mmu = "done" THEN NoRequest ELSE ldst_r

LoadStoreClock(exc, d, mmu) ==
    /\ LoadStoreIdle(exc) \/ LoadStoreAckWait(d) \/ LoadStoreMmuLookup(mmu)
    /\ d_valid_1' = d_valid(exc)
    /\ st_data' = IF set_wr_data(exc) THEN srl[3] ELSE st_data
=============================================================================
