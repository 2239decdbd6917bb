------------------------------ MODULE LdstUnit ------------------------------
(***************************************************************************)
(* LDSTCompUnit (src/soc/experiment/compldst_multi.py), the unit that      *)
(* carries out one load or store: it collects the operands, adds them to   *)
(* the effective address, hands the access to its PortInterface and asks   *)
(* for its results to be written: 1, the loaded value, 2, the address      *)
(* ("update").  The regfile ports are those of src/soc/simple/core.py.     *)
(*                                                                         *)
(* One step is one clock.  A latch is its stored value and those of its    *)
(* set and reset inputs that are registered; its output q follows them in  *)
(* the same clock (SRLatch, sync=False).  Data is the tag of the           *)
(* instruction it comes from.  shadown_i is 1 and go_die_i is 0, as in the *)
(* core; adr_l drives nothing that is used.                                *)
(***************************************************************************)
EXTENDS Naturals

CONSTANTS Ops,              \* loads and stores
          RdPort, WrPort,   \* the regfile port that serves each operand, result
          Zero, None        \* no data; no instruction, no access

Src == 1 .. 3
Dst == 1 .. 2

\* A load or a store: "update" mode, the address operands it reads (an operand
\* not read is zero, 1, or immediate, 2), whether it crosses a doubleword.
Op == [ld : BOOLEAN, update : BOOLEAN, rd : SUBSET {1, 2}, misalign : BOOLEAN,
       tag : 0 .. 1]

ASSUME LdstAssumption == /\ Ops \subseteq Op
                         /\ RdPort \in [Src -> Nat] /\ WrPort \in [Dst -> Nat]
ASSUME LdstTokens == Zero \notin 0 .. 1 /\ None \notin Op \cup {0, 1, Zero}

VARIABLES
    lat,          \* the latches that are set
    issued,       \* issue_i, registered: opc_l.s, src_l.s
    resets,       \* the latches whose registered reset is on
    src, src_r,   \* src_l, one latch per operand
    upd_s,        \* upd_l.s
    oper,         \* oper_r
    srl,          \* the operand registers
    addr_r,       \* the address register, and the copy for the port with ...
    addr, addr_ok,  \* ... pi.addr.ok
    alu_ok,       \* alu_valid, registered
    ldd_r,        \* the loaded value
    st_rel_1, p_st_go,  \* st.rel_o and st.go_i of the last clock
    delay_pick, wr_pick_1   \* read granted in the last clock; write granted

unitVars == <<lat, issued, resets, src, src_r, upd_s, oper, srl, addr_r, addr,
              addr_ok, alu_ok, ldd_r, st_rel_1, p_st_go, delay_pick, wr_pick_1>>

Latches == {"opc", "alu", "lod", "wri", "upd", "sto", "lsd", "rst"}
Token == {0, 1, Zero}

UnitTypeOK ==
    /\ lat \subseteq Latches /\ resets \subseteq Latches
    /\ {issued, upd_s, addr_ok, alu_ok, st_rel_1, p_st_go} \subseteq BOOLEAN
    /\ src \subseteq Src /\ src_r \subseteq Src
    /\ oper \in Ops \cup {None}
    /\ srl \in [Src -> Token]
    /\ addr_r \in Token \X Token /\ addr \in Token \X Token
    /\ ldd_r \in Token \X Token
    /\ delay_pick \subseteq Src /\ wr_pick_1 \subseteq Dst

UnitInit ==
    /\ lat = {} /\ issued = FALSE /\ resets = {}
    /\ src = {} /\ src_r = {} /\ upd_s = FALSE
    /\ oper = None
    /\ srl = [i \in Src |-> Zero]
    /\ addr_r = <<Zero, Zero>> /\ addr = <<Zero, Zero>> /\ addr_ok = FALSE
    /\ alu_ok = FALSE /\ ldd_r = <<Zero, Zero>>
    /\ st_rel_1 = FALSE /\ p_st_go = FALSE
    /\ delay_pick = {} /\ wr_pick_1 = {}

-----------------------------------------------------------------------------
(* Wires that follow from the registers alone.                             *)

\* A latch with the set input s, and the reset that is registered.
LatchQ(l, s) == s \/ (l \in lat /\ l \notin resets)

\* The order of the requests of a shared port (connect_rdports: rb, rc, ra).
RdRank == <<3, 1, 2>>
WrRank == <<1, 2>>

\* PriorityPicker, one per port: the first of the requests on it.
Picked(requests, port, rank) ==
    {i \in requests : \A j \in requests :
                          port[j] = port[i] => rank[i] <= rank[j]}

busy_o == LatchQ("opc", issued)
op_is_ld == oper # None /\ oper.ld
op_is_st == oper # None /\ ~oper.ld
op_is_update == oper # None /\ oper.update
src_q == (src \ src_r) \cup (IF issued THEN Src ELSE {})

\* Operands still to be read: those of the address, and a store's data.
rd_rel == IF busy_o
            THEN {i \in src_q : IF i = 3 THEN op_is_st
                                ELSE oper = None \/ i \in oper.rd}
            ELSE {}
go_rd == delay_pick
alu_valid == busy_o /\ rd_rel \cap {1, 2} = {}
rd_done == alu_valid /\ 3 \notin rd_rel

\* The effective address: (operand or zero) + (operand or immediate).
alu_o == << IF oper # None /\ 1 \notin oper.rd THEN Zero ELSE srl[1],
            IF oper # None /\ 2 \notin oper.rd THEN oper.tag ELSE srl[2] >>

\* PortInterface: the request.  A store's data goes with st.ok = st.go_i.
pi_is_ld_i == op_is_ld /\ busy_o
pi_is_st_i == op_is_st /\ busy_o

-----------------------------------------------------------------------------
(* Wires that need the port's answers in this clock: addr_ok_o, ld.ok,     *)
(* exc_o.happened and busy_o.                                              *)

sto_q(addr_ok_o) == LatchQ("sto", addr_ok_o /\ op_is_st)
st_rel(addr_ok_o, exc) ==
    sto_q(addr_ok_o) /\ busy_o /\ rd_done /\ op_is_st /\ ~exc

\* issuer.py: go for the store's data is the rising edge of the request.
st_go(addr_ok_o, exc) == st_rel(addr_ok_o, exc) /\ ~st_rel_1

lod_q(issue, ld_ok, exc) == issue \/ exc \/ ("lod" \in lat /\ ~ld_ok)

wr_rel(issue, ld_ok, exc) ==
    (IF /\ rd_done /\ LatchQ("wri", issue) /\ busy_o
        /\ ~lod_q(issue, ld_ok, exc) /\ op_is_ld /\ ~exc
       THEN {1} ELSE {})
    \cup (IF LatchQ("upd", upd_s) /\ busy_o /\ op_is_update /\ alu_valid /\ ~exc
            THEN {2} ELSE {})
wr_pick(issue, ld_ok, exc) == Picked(wr_rel(issue, ld_ok, exc), WrPort, WrRank)
go_wr(issue, ld_ok, exc) == wr_pick(issue, ld_ok, exc) \ wr_pick_1

rst_q(issue, addr_ok_o) == addr_ok_o \/ ("rst" \in lat /\ ~issue)

\* Every path has ended: nothing more to store or to write.
wr_reset(issue, addr_ok_o, ld_ok, exc) ==
    /\ rst_q(issue, addr_ok_o) /\ busy_o /\ ~exc
    /\ ~st_rel(addr_ok_o, exc) /\ wr_rel(issue, ld_ok, exc) = {}
    /\ ~lod_q(issue, ld_ok, exc) \/ op_is_st

done_o(issue, addr_ok_o, ld_ok, exc, pi_busy) ==
    wr_reset(issue, addr_ok_o, ld_ok, exc) /\ (~pi_busy \/ op_is_ld)

\* latchregister: transparent while alu_l is open.
alu_q(issue, exc) ==
    \/ issue \/ exc
    \/ "alu" \in lat /\ ~(alu_ok /\ ~alu_valid /\ go_rd \cap {1, 2} = {})
ea(issue, exc) == IF alu_q(issue, exc) THEN alu_o ELSE addr_r
ldd(ld_ok, data) == IF ld_ok THEN data ELSE ldd_r

-----------------------------------------------------------------------------
(* One clock of the unit.  op is the instruction issued in it, or None;    *)
(* data is ld.data.                                                        *)

UnitClock(op, addr_ok_o, ld_ok, data, exc, pi_busy) ==
    LET issue == op # None
        go == go_wr(issue, ld_ok, exc)
        rst == wr_reset(issue, addr_ok_o, ld_ok, exc)
        done == done_o(issue, addr_ok_o, ld_ok, exc, pi_busy)
        stgo == st_go(addr_ok_o, exc)
        q == [opc |-> busy_o, alu |-> alu_q(issue, exc),
              lod |-> lod_q(issue, ld_ok, exc), wri |-> LatchQ("wri", issue),
              upd |-> LatchQ("upd", upd_s), sto |-> sto_q(addr_ok_o),
              lsd |-> LatchQ("lsd", issue), rst |-> rst_q(issue, addr_ok_o)]
        r == [opc |-> done \/ exc, wri |-> 1 \in go \/ exc \/ rst
                                           \/ (~pi_busy /\ op_is_update),
              upd |-> 2 \in go \/ exc, sto |-> stgo \/ exc \/ p_st_go,
              lsd |-> stgo \/ exc \/ p_st_go \/ ld_ok]
    IN  /\ lat' = {l \in Latches : q[l]}
        /\ resets' = {l \in DOMAIN r : r[l]}
        /\ issued' = issue
        /\ src' = src_q /\ src_r' = IF exc THEN Src ELSE go_rd
        /\ upd_s' = (issue \/ exc)
        /\ oper' = IF done \/ exc THEN None ELSE IF issue THEN op ELSE oper
        /\ srl' = [i \in Src |-> CASE issue -> Zero
                                   [] ~issue /\ i \in go_rd /\ oper # None -> oper.tag
                                   [] OTHER -> srl[i]]
        /\ addr_r' = ea(issue, exc) /\ addr' = ea(issue, exc)
        /\ addr_ok' = (alu_ok /\ q.lsd)
        /\ alu_ok' = alu_valid
        /\ ldd_r' = ldd(ld_ok, data)
        /\ st_rel_1' = st_rel(addr_ok_o, exc) /\ p_st_go' = stgo
        /\ delay_pick' = Picked(rd_rel \ delay_pick, RdPort, RdRank)
        /\ wr_pick_1' = wr_pick(issue, ld_ok, exc)
=============================================================================
