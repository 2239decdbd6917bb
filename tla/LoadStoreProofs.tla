-------------------------- MODULE LoadStoreProofs --------------------------
(***************************************************************************)
(* Theorems about LoadStore, for every set of loads and aligned stores, any*)
(* sharing of the regfile ports, a D-cache, an MMU and a bus of any        *)
(* latency, and any number of clocks, but at least one, between two        *)
(* instructions; the core may go on after a fault or not.                  *)
(*                                                                         *)
(* An instruction passes through phases: its operands are read, its access *)
(* is sent, the memory is at work, the answer has come.  What the latches  *)
(* of the unit, the port and the memory hold in each phase is the          *)
(* inductive invariant; a lemma per phase says where a clock leads, and    *)
(* which step of MemOp it is.                                              *)
(***************************************************************************)
EXTENDS LoadStoreMC, TLAPS

\* A latch is set, and is not about to be reset.
Open(l) == l \in lat /\ l \notin resets
\* The address of the instruction, and LoadStore1's request for it.
Ea == EffAddr(op)
OwnRequest == [load |-> op.ld, addr |-> Ea, misalign |-> FALSE]

\* The port is off, or has been asked.
PortOff == ~l0_idx /\ ~busy /\ ~ld_active /\ ~st_active /\ ~lds_1 /\ ~sts_1
PortOn == /\ l0_idx /\ ~l0_reset /\ busy
          /\ ld_active <=> op.ld
          /\ st_active <=> ~op.ld
          /\ lds_1 <=> op.ld
          /\ sts_1 <=> ~op.ld

\* An operand that is not asked for any more has come.
Collected ==
    /\ \A i \in {1, 2} : i \in op.rd /\ i \notin src_q => srl[i] = op.tag
    /\ ~op.ld /\ 3 \notin src_q => srl[3] = op.tag

Updated == op.update => regs[2] = Ea /\ ~LatchQ("upd", upd_s)
\* The address register has been written, or still will be.
Update == \/ Updated
          \/ op.update /\ regs[2] = NoWrite /\ LatchQ("upd", upd_s) /\ wr_pick_1 = {}

\* An instruction is in the unit.
Running == /\ outcome = "run" /\ op \in Ops /\ oper = op /\ busy_o
           /\ ~op.update => regs[2] = NoWrite
           /\ ~reset_delay /\ "alu" \in lat

\* The operands are being read: nothing has gone out, but the address register may
\* have been written.
Reading ==
    /\ Running /\ access = <<>> /\ regs[1] = NoWrite
    /\ {"lod", "wri", "lsd"} \subseteq lat /\ "sto" \notin lat /\ "rst" \notin lat
    /\ resets \subseteq {"upd"}
    /\ ~addr_ok /\ ~st_rel_1 /\ ~p_st_go /\ ~st_done /\ ~st_done_s
    /\ ~adrok /\ ~adrok_s /\ ~reset
    /\ IF issued THEN PortOff /\ upd_s /\ ~alu_ok /\ delay_pick = {}
       ELSE PortOn /\ ~upd_s
    /\ delay_pick \subseteq rd_rel
    /\ Collected /\ Update
    /\ wr_pick_1 \subseteq {2}
    /\ alu_ok => alu_valid /\ Updated /\ (op.ld \/ 3 \notin src_q \/ 3 \in delay_pick)

\* The address is out, and the operands have been read.
Addressed ==
    /\ Running /\ ~issued /\ ~upd_s /\ PortOn
    /\ rd_rel = {} /\ delay_pick = {} /\ alu_ok /\ addr = Ea /\ addr_r = Ea
    /\ ~op.ld => srl[3] = op.tag
    /\ Collected /\ Updated

\* The address goes out in this clock.
Sending ==
    /\ Addressed /\ access = <<>> /\ regs[1] = NoWrite /\ wr_pick_1 \subseteq {2}
    /\ {"lod", "wri", "lsd"} \subseteq lat /\ "sto" \notin lat
    /\ resets \subseteq {"upd"}
    /\ addr_ok /\ ~st_rel_1 /\ ~p_st_go /\ ~st_done /\ ~st_done_s
    /\ ~adrok /\ ~adrok_s /\ ~reset

\* The address has been taken: the memory is at work.
Waiting ==
    /\ Addressed /\ regs[1] = NoWrite /\ ~reset /\ ~op.misalign
    /\ "rst" \in lat /\ wr_pick_1 = {}
    /\ adrok_s \/ adrok
    /\ IF op.ld
         THEN /\ {"lod", "wri", "lsd"} \subseteq lat /\ "sto" \notin lat
              /\ resets = {} /\ ~st_done /\ ~st_done_s /\ ~p_st_go
         ELSE /\ ~Open("sto") /\ ~Open("lsd")
              /\ ("sto" \in lat => p_st_go)
              /\ st_done_s \/ st_done
              /\ addr_ok => adrok_s

\* The memory has answered, and what was to be written is written.
Completing ==
    /\ Addressed /\ reset /\ access = <<OwnAccess(op)>>
    /\ "rst" \in lat /\ ~Open("lsd") /\ ~Open("sto") /\ ~p_st_go
    /\ op.ld => regs[1] = Ea /\ "lod" \notin lat /\ ~Open("wri")
    /\ ~op.ld => regs[1] = NoWrite
    /\ ~st_done_s /\ ~adrok_s

\* No instruction is in the unit.
Quiet ==
    /\ outcome = "done" /\ oper = None /\ ~issued /\ ~Open("opc")
    /\ "sto" \notin lat /\ "lsd" \notin lat
    /\ delay_pick = {} /\ ~p_st_go /\ ~addr_ok
    /\ idle >= 1 => ~alu_ok
    /\ l0_idx => l0_reset
    /\ ~ld_active /\ ~st_active /\ ~st_done /\ ~st_done_s /\ ~adrok /\ ~adrok_s
    /\ ~busy /\ ~reset

\* The address that was taken stays taken, and nothing is on its way.
AddressTaken ==
    /\ adrok_s \/ (adrok /\ ~reset_delay)
    /\ ~reset
    /\ cached_core /\ dcache = None /\ ~walk /\ ~ldst_r.misalign /\ state # "ACK_WAIT"

\* The instruction has ended with an exception.
Faulted ==
    /\ outcome = "fault" /\ ~issued /\ ~Open("opc")
    /\ l0_idx => l0_reset
    /\ ~Open("sto") /\ AddressTaken

\* An instruction after a fault: it can only write its address.
Stuck ==
    /\ outcome = "run" /\ op \in Ops /\ oper = op /\ busy_o
    /\ access = <<>> /\ regs[1] = NoWrite /\ (~op.update => regs[2] = NoWrite)
    /\ {"alu", "lod"} \subseteq lat /\ ~Open("sto") /\ "rst" \notin lat
    /\ resets \cap {"opc"} = {}
    /\ issued => upd_s /\ ~alu_ok /\ delay_pick = {}
    /\ delay_pick \subseteq rd_rel /\ Collected /\ Update
    /\ wr_pick_1 \subseteq {2}
    /\ alu_ok => alu_valid
    /\ AddressTaken

-----------------------------------------------------------------------------
\* LoadStore1 and the D-cache have nothing to do, or this instruction's request.
CacheIdle == state = "IDLE" /\ ldst_r = NoRequest /\ dcache = None /\ ~walk
CacheWait ==
    /\ access = <<>>
    /\ ~op.ld => st_data = op.tag
    /\ IF walk
         THEN state = "MMU_LOOKUP" /\ dcache = None /\ ldst_r = OwnRequest
         ELSE /\ state = "ACK_WAIT"
              /\ dcache \in [new : BOOLEAN, req : {OwnRequest}, translated : BOOLEAN,
                             data : Token]
              /\ IF op.ld THEN dcache.data = Zero ELSE dcache.new \/ dcache.data = op.tag
              /\ IF dcache.translated THEN ldst_r \in {NoRequest, OwnRequest}
                 ELSE ldst_r = OwnRequest

\* The bus: between cycles, in one, and after one that Pi2LSUI has not seen end.
BusRests == cvt \in {"NONE", "IDLE"} /\ (cvt = "NONE" => counter = 0 /\ cached = <<NoWord>>)
BusIdle == ~valid /\ ~cyc /\ BusRests
BusRuns ==
    /\ lsui = "BUSY" /\ cyc /\ access = <<>>
    /\ dbus = [adr |-> Ea, we |-> ~op.ld, dat_w |-> IF op.ld THEN Zero ELSE op.tag]
    /\ cvt \in {"NONE", "IDLE", IF op.ld THEN "READ" ELSE "WRITE"}
    /\ cvt = "NONE" => counter = 0 /\ cached = <<NoWord>>
    /\ cvt \in {"READ", "WRITE"} => counter \in 0 .. 1
    /\ cvt = "READ" =>
          cached = <<NoWord, IF counter = 0 THEN NoWord ELSE [half |-> 0, adr |-> Ea]>>
    /\ ack => dat_r = [half |-> counter, adr |-> Ea]
    /\ cvt = "IDLE" => ~ack
    /\ ~op.ld /\ addr_ok => ~ack
    /\ valid
BusEnds ==
    /\ ~cyc /\ access = <<OwnAccess(op)>> /\ BusRests
    /\ op.ld => BusData(ld_data) = Ea
    /\ ~op.ld => ~addr_ok
    /\ \/ lsui = "BUSY" /\ cyc_1
       \/ lsui = "WAITDEASSERT" /\ ~valid

\* The memory, whichever it is.
MemIdle == IF cached_core THEN CacheIdle ELSE BusIdle
MemReady == IF cached_core THEN CacheIdle /\ ~d_valid_1
            ELSE BusIdle /\ lsui = "IDLE" /\ ~op.misalign
MemBusy == IF cached_core THEN CacheWait ELSE BusRuns \/ BusEnds

\* The types that the phases need.
Base == /\ src \subseteq Src /\ srl = [n \in Src |-> srl[n]] /\ idle \in 0 .. Gap
        /\ regs = [d \in Dst |-> regs[d]]
        /\ op \in Ops \cup {None}
        /\ ldst_ifacetype \in {"mmu_cache_wb", "bare_wb"}
\* Between instructions; Pi2LSUI is ready before the next is issued.
Idling == /\ Quiet /\ MemIdle
          /\ ~cached_core => /\ lsui \in {"IDLE", "WAITDEASSERT"}
                             /\ idle >= 1 => lsui = "IDLE"

\* The inductive invariant.
IInv == /\ Base
        /\ \/ Idling
           \/ Reading /\ MemReady
           \/ Sending /\ MemReady
           \/ Waiting /\ MemBusy
           \/ Completing /\ MemIdle /\ (cached_core \/ lsui = "WAITDEASSERT")
           \/ Faulted
           \/ Stuck

\* One clock, in which i is issued, with the memory the core has.
ClockOf(i) ==
    \/ /\ cached_core
       /\ \E d \in DcacheAnswers, mmu \in MmuAnswers : CacheClock(i, d, mmu)
    \/ /\ ~cached_core
       /\ i # None => ~i.misalign
       /\ \E ready \in BOOLEAN : WbClock(i, ready)

\* Neither an address nor data goes out.
NoOutput == ~set_rd_addr /\ ~set_wr_addr /\ \A exc \in BOOLEAN : ~set_wr_data(exc)

\* A step of MemOp, or none of its.
MemOpStep == Mem!MemNext \/ UNCHANGED <<op, outcome, regs, access>>

\* What the instruction sees of a clock, as the wires from the port decide.
Watched(a, k, e, b, data, perf) ==
    /\ op' = op
    /\ regs' = [r \in Dst |-> IF r \notin go_wr(FALSE, k, e) THEN regs[r]
                              ELSE IF r = 1 THEN ldd(k, data) ELSE ea(FALSE, e)]
    /\ access' = IF perf # None /\ Len(access) < 2 THEN Append(access, perf) ELSE access
    /\ outcome' = IF e /\ busy_o THEN "fault"
                  ELSE IF done_o(FALSE, a, k, e, b) THEN "done" ELSE outcome

\* No store is misaligned: with the data of such a store LoadStore1 raises the
\* exception that holds the data back, and the wire has no stable value.
AlignedStores == \A o \in Ops : o.ld \/ ~o.misalign

\* The loaded value may be written.
Loaded(k) == op.ld /\ LatchQ("wri", FALSE) /\ ~lod_q(FALSE, k, FALSE)

\* The four wires from the port to the unit.
Wires(a, k, e, b, exc, lk) ==
    /\ a \in BOOLEAN /\ k \in BOOLEAN /\ e \in BOOLEAN /\ b \in BOOLEAN
    /\ a <=> l0_q /\ addr_ok_o
    /\ k <=> l0_q /\ ld_data_ok(lk)
    /\ e <=> l0_q /\ exc
    /\ b <=> l0_q /\ busy_q(exc)

-----------------------------------------------------------------------------
(* A clock of the unit, latch by latch.                                    *)

\* Which latches are set after a clock, and which registered resets are on.
LEMMA UnitMoves ==
    ASSUME NEW i, NEW a \in BOOLEAN, NEW k \in BOOLEAN, NEW data, NEW e \in BOOLEAN,
           NEW b \in BOOLEAN, UnitClock(i, a, k, data, e, b)
    PROVE  LET issue == i # None
           IN  /\ "opc" \in lat' <=> busy_o
               /\ "alu" \in lat' <=> alu_q(issue, e)
               /\ "lod" \in lat' <=> lod_q(issue, k, e)
               /\ "wri" \in lat' <=> LatchQ("wri", issue)
               /\ "upd" \in lat' <=> LatchQ("upd", upd_s)
               /\ "sto" \in lat' <=> sto_q(a)
               /\ "lsd" \in lat' <=> LatchQ("lsd", issue)
               /\ "rst" \in lat' <=> rst_q(issue, a)
               /\ "opc" \in resets' <=> done_o(issue, a, k, e, b) \/ e
               /\ "wri" \in resets' <=> \/ 1 \in go_wr(issue, k, e) \/ e
                                        \/ wr_reset(issue, a, k, e) \/ (~b /\ op_is_update)
               /\ "upd" \in resets' <=> 2 \in go_wr(issue, k, e) \/ e
               /\ "sto" \in resets' <=> st_go(a, e) \/ e \/ p_st_go
               /\ "lsd" \in resets' <=> st_go(a, e) \/ e \/ p_st_go \/ k
               /\ resets' \subseteq {"opc", "wri", "upd", "sto", "lsd"}
<1> USE DEF UnitClock, Latches
<1> HIDE DEF busy_o, alu_q, lod_q, LatchQ, sto_q, rst_q, done_o, go_wr, wr_reset,
             st_go, op_is_update
<1> QED
  OBVIOUS

\* The other registers of the unit.
LEMMA UnitRegisters ==
    ASSUME NEW i, NEW a \in BOOLEAN, NEW k \in BOOLEAN, NEW data, NEW e \in BOOLEAN,
           NEW b \in BOOLEAN, UnitClock(i, a, k, data, e, b)
    PROVE  LET issue == i # None
           IN  /\ issued' <=> issue
               /\ src' = src_q /\ src_r' = IF e THEN Src ELSE go_rd
               /\ upd_s' <=> issue \/ e
               /\ oper' = IF done_o(issue, a, k, e, b) \/ e THEN None
                          ELSE IF issue THEN i ELSE oper
               /\ srl' = [n \in Src |-> CASE issue -> Zero
                                   [] ~issue /\ n \in go_rd /\ oper # None -> oper.tag
                                   [] OTHER -> srl[n]]
               /\ addr_r' = ea(issue, e) /\ addr' = ea(issue, e)
               /\ addr_ok' <=> alu_ok /\ LatchQ("lsd", issue)
               /\ alu_ok' <=> alu_valid
               /\ st_rel_1' <=> st_rel(a, e)
               /\ p_st_go' <=> st_go(a, e)
               /\ delay_pick' = Picked(rd_rel \ delay_pick, RdPort, RdRank)
               /\ wr_pick_1' = wr_pick(issue, k, e)
BY DEF UnitClock

\* The same for a clock in which nothing is issued and no exception comes.
LEMMA UnitRuns ==
    ASSUME NEW a \in BOOLEAN, NEW k \in BOOLEAN, NEW data, NEW b \in BOOLEAN,
           UnitClock(None, a, k, data, FALSE, b)
    PROVE  /\ "opc" \in lat' <=> busy_o
           /\ "alu" \in lat' <=> alu_q(FALSE, FALSE)
           /\ "lod" \in lat' <=> "lod" \in lat /\ ~k
           /\ "wri" \in lat' <=> LatchQ("wri", FALSE)
           /\ "upd" \in lat' <=> LatchQ("upd", upd_s)
           /\ "sto" \in lat' <=> sto_q(a)
           /\ "lsd" \in lat' <=> LatchQ("lsd", FALSE)
           /\ "rst" \in lat' <=> a \/ "rst" \in lat
           /\ "opc" \in resets' <=> done_o(FALSE, a, k, FALSE, b)
           /\ "wri" \in resets' <=> \/ 1 \in go_wr(FALSE, k, FALSE)
                                    \/ wr_reset(FALSE, a, k, FALSE)
                                    \/ (~b /\ op_is_update)
           /\ "upd" \in resets' <=> 2 \in go_wr(FALSE, k, FALSE)
           /\ "sto" \in resets' <=> st_go(a, FALSE) \/ p_st_go
           /\ "lsd" \in resets' <=> st_go(a, FALSE) \/ p_st_go \/ k
           /\ resets' \subseteq {"opc", "wri", "upd", "sto", "lsd"}
           /\ ~issued' /\ ~upd_s'
           /\ oper' = IF done_o(FALSE, a, k, FALSE, b) THEN None ELSE oper
           /\ addr_r' = ea(FALSE, FALSE) /\ addr' = ea(FALSE, FALSE)
           /\ addr_ok' <=> alu_ok /\ LatchQ("lsd", FALSE)
           /\ alu_ok' <=> alu_valid
           /\ st_rel_1' <=> st_rel(a, FALSE)
           /\ p_st_go' <=> st_go(a, FALSE)
           /\ wr_pick_1' = wr_pick(FALSE, k, FALSE)
<1>1. (None # None) = FALSE
  OBVIOUS
<1> HIDE DEF busy_o, alu_q, LatchQ, sto_q, done_o, go_wr, wr_reset, st_go,
             op_is_update, st_rel, ea, alu_valid, wr_pick
<1>2. /\ "opc" \in lat' <=> busy_o
      /\ "alu" \in lat' <=> alu_q(FALSE, FALSE)
      /\ "lod" \in lat' <=> "lod" \in lat /\ ~k
      /\ "wri" \in lat' <=> LatchQ("wri", FALSE)
      /\ "upd" \in lat' <=> LatchQ("upd", upd_s)
      /\ "sto" \in lat' <=> sto_q(a)
      /\ "lsd" \in lat' <=> LatchQ("lsd", FALSE)
      /\ "rst" \in lat' <=> a \/ "rst" \in lat
  BY <1>1 DEF UnitClock, Latches, lod_q, rst_q
<1>3. /\ "opc" \in resets' <=> done_o(FALSE, a, k, FALSE, b)
      /\ "wri" \in resets' <=> \/ 1 \in go_wr(FALSE, k, FALSE)
                               \/ wr_reset(FALSE, a, k, FALSE)
                               \/ (~b /\ op_is_update)
      /\ "upd" \in resets' <=> 2 \in go_wr(FALSE, k, FALSE)
      /\ "sto" \in resets' <=> st_go(a, FALSE) \/ p_st_go
      /\ "lsd" \in resets' <=> st_go(a, FALSE) \/ p_st_go \/ k
      /\ resets' \subseteq {"opc", "wri", "upd", "sto", "lsd"}
  BY <1>1 DEF UnitClock
<1>4. /\ ~issued' /\ ~upd_s'
      /\ oper' = IF done_o(FALSE, a, k, FALSE, b) THEN None ELSE oper
      /\ addr_r' = ea(FALSE, FALSE) /\ addr' = ea(FALSE, FALSE)
      /\ addr_ok' <=> alu_ok /\ LatchQ("lsd", FALSE)
      /\ alu_ok' <=> alu_valid
      /\ st_rel_1' <=> st_rel(a, FALSE)
      /\ p_st_go' <=> st_go(a, FALSE)
      /\ wr_pick_1' = wr_pick(FALSE, k, FALSE)
  BY <1>1 DEF UnitClock
<1> QED
  BY <1>2, <1>3, <1>4

\* A clock without an issue, and what the instruction sees of it, as the four
\* wires from the port decide.
LEMMA PathWires ==
    ASSUME NEW i, NEW exc \in BOOLEAN, NEW lk \in BOOLEAN, NEW sk \in BOOLEAN,
           NEW data, NEW perf, PathClock(i, exc, lk, sk, data, perf),
           NEW a, NEW k, NEW e, NEW b, Wires(a, k, e, b, exc, lk)
    PROVE  /\ UnitClock(i, a, k, data, e, b)
           /\ i = None => Watched(a, k, e, b, data, perf)
<1>1. /\ a = (l0_q /\ addr_ok_o)
      /\ k = (l0_q /\ ld_data_ok(lk))
      /\ e = (l0_q /\ exc)
      /\ b = (l0_q /\ busy_q(exc))
  BY DEF Wires
<1> QED
  BY <1>1 DEF PathClock, Seen, Watched

\* A step is a clock of the path with one of the two memories behind it.
LEMMA Steps ==
    ASSUME Next
    PROVE  \E i \in Ops \cup {None} : (i # None => MayIssue(i)) /\ ClockOf(i)
<1>1. CASE IssueCached
  BY <1>1 DEF IssueCached, ClockOf
<1>2. CASE IssueBare
  BY <1>2 DEF IssueBare, ClockOf
<1>3. CASE Work
  BY <1>3 DEF Work, WorkCached, WorkBare, ClockOf
<1> QED
  BY <1>1, <1>2, <1>3 DEF Next

\* The wires between the unit and the port while an instruction runs.
LEMMA RunningWires ==
    ASSUME busy_o, oper = op, op \in Ops
    PROVE  /\ op # None
           /\ op \in Op
           /\ op_is_ld <=> op.ld
           /\ op_is_st <=> ~op.ld
           /\ op_is_update <=> op.update
           /\ l0_q
           /\ lds <=> op.ld
           /\ sts <=> ~op.ld
BY LdstAssumption, LdstTokens
   DEF op_is_ld, op_is_st, op_is_update, l0_q, lds, sts, pi_is_ld_i, pi_is_st_i, Op

\* ... and while none does.
LEMMA RestingWires ==
    ASSUME ~busy_o, l0_idx => l0_reset
    PROVE  ~l0_q /\ ~lds /\ ~sts /\ NoOutput /\ rd_rel = {} /\ ~alu_valid
BY DEF l0_q, lds, sts, pi_is_ld_i, pi_is_st_i, NoOutput, set_rd_addr, set_wr_addr,
       set_wr_data, pi_addr_ok, rd_rel, alu_valid

\* A memory that has nothing to do and is given nothing does nothing.
LEMMA CacheIdles ==
    ASSUME NEW i, NEW d \in DcacheAnswers, NEW mmu \in MmuAnswers, CacheClock(i, d, mmu),
           CacheIdle, NoOutput
    PROVE  /\ \E data : PathClock(i, FALSE, FALSE, FALSE, data, None)
           /\ CacheIdle' /\ ~d_valid_1'
<1>1. d = "none" /\ mmu = "none" /\ ~done(d) /\ state = "IDLE" /\ ldst_r = NoRequest
  BY DEF CacheIdle, DcacheAnswers, MmuAnswers, done
<1>2. ASSUME NEW e \in BOOLEAN
      PROVE  /\ ~d_valid(e) /\ ~d_validblip(e) /\ current(e) = NoRequest
             /\ exception(e, d, mmu) = FALSE
  BY <1>1 DEF NoOutput, d_valid, d_validblip, current, exception, fsm_exc, NoRequest
<1>3. Exceptions(d, mmu) = {FALSE}
  BY <1>2 DEF Exceptions
<1>4. /\ PathClock(i, FALSE, done(d), done(d),
                   IF dcache = None THEN <<Zero, Zero>> ELSE dcache.req.addr, None)
      /\ LoadStoreClock(FALSE, d, mmu) /\ Dcache(FALSE, d, mmu) /\ Mmu(d, mmu)
  <2>1. PICK exc \in Exceptions(d, mmu) :
            /\ PathClock(i, exc, done(d), done(d),
                 IF dcache = None THEN <<Zero, Zero>> ELSE dcache.req.addr,
                 IF d # "valid" THEN None
                 ELSE [load |-> dcache.req.load, addr |-> dcache.req.addr,
                       data |-> dcache.data])
            /\ LoadStoreClock(exc, d, mmu) /\ Dcache(exc, d, mmu) /\ Mmu(d, mmu)
    BY DEF CacheClock
  <2>2. exc = FALSE /\ d # "valid"
    BY <1>1, <1>3
  <2> QED
    BY <2>1, <2>2
<1>5. done(d) = FALSE
  BY <1>1 DEF done
<1>6. ldst_r' = NoRequest /\ state' = "IDLE" /\ d_valid_1' = d_valid(FALSE)
  BY <1>1, <1>2, <1>4 DEF LoadStoreClock, LoadStoreIdle, LoadStoreAckWait, LoadStoreMmuLookup
<1>7. dcache' = None /\ ~walk'
  BY <1>1, <1>2, <1>4 DEF Dcache, Mmu, mmureq, d_out, CacheIdle
<1> QED
  BY <1>2, <1>4, <1>5, <1>6, <1>7 DEF CacheIdle

\* ... the bus: no cycle starts, and Pi2LSUI goes back to IDLE.
LEMMA BusIdles ==
    ASSUME NEW i, NEW ready \in BOOLEAN, WbClock(i, ready), BusIdle, NoOutput,
           lsui \in {"IDLE", "WAITDEASSERT"}
    PROVE  /\ \E data : PathClock(i, FALSE, TRUE, TRUE, data, None)
           /\ BusIdle'
           /\ lsui' = IF lsui = "IDLE" \/ (~sts /\ ~busy_q(FALSE)) THEN "IDLE"
                      ELSE "WAITDEASSERT"
<1>1. ~valid_q /\ ~lsui_busy /\ ~cyc /\ ~cvt_stb /\ ~counter_ce /\ ~mack
  BY DEF BusIdle, NoOutput, valid_q, lsui_busy, cvt_stb, counter_ce, mack
<1>2. ldok = TRUE /\ stok = TRUE
  BY <1>1 DEF ldok, stok
<1>3. /\ PathClock(i, FALSE, ldok, stok, BusData(ld_data), None)
      /\ LsuiClock /\ ConvertClock /\ BusClock
  BY <1>1 DEF WbClock
<1>4. ~valid' /\ ~cyc'
  BY <1>1, <1>3 DEF LsuiClock, BusClock
<1>5. cvt' = cvt /\ (cvt = "NONE" => counter' = counter /\ cached' = cached)
  BY <1>1, <1>3 DEF ConvertClock, BusIdle, BusRests
<1>6. lsui' = IF lsui = "IDLE" \/ (~sts /\ ~busy_q(FALSE)) THEN "IDLE" ELSE "WAITDEASSERT"
  BY <1>1, <1>3 DEF LsuiClock
<1> QED
  BY <1>2, <1>3, <1>4, <1>5, <1>6 DEF BusIdle, BusRests

\* ... either of the two.
LEMMA MemoryIdles ==
    ASSUME NEW i, ClockOf(i), MemIdle, NoOutput,
           cached_core \/ lsui \in {"IDLE", "WAITDEASSERT"}
    PROVE  /\ \E lk, sk \in BOOLEAN : \E data : PathClock(i, FALSE, lk, sk, data, None)
           /\ cached_core' = cached_core
           /\ MemIdle' /\ (cached_core => ~d_valid_1')
           /\ ~cached_core =>
                 /\ i # None => ~i.misalign
                 /\ lsui' = IF lsui = "IDLE" \/ (~sts /\ ~busy_q(FALSE)) THEN "IDLE"
                            ELSE "WAITDEASSERT"
<1>1. CASE cached_core
  <2>1. PICK d \in DcacheAnswers, mmu \in MmuAnswers : CacheClock(i, d, mmu)
    BY <1>1 DEF ClockOf
  <2>2. /\ \E data : PathClock(i, FALSE, FALSE, FALSE, data, None)
        /\ CacheIdle' /\ ~d_valid_1'
    BY <1>1, <2>1, CacheIdles DEF MemIdle
  <2>3. ldst_ifacetype' = ldst_ifacetype
    BY <2>2 DEF PathClock
  <2> QED
    BY <1>1, <2>2, <2>3 DEF MemIdle, cached_core
<1>2. CASE ~cached_core
  <2>1. PICK ready \in BOOLEAN : WbClock(i, ready)
    BY <1>2 DEF ClockOf
  <2>2. /\ \E data : PathClock(i, FALSE, TRUE, TRUE, data, None)
        /\ BusIdle'
        /\ lsui' = IF lsui = "IDLE" \/ (~sts /\ ~busy_q(FALSE)) THEN "IDLE"
                   ELSE "WAITDEASSERT"
    BY <1>2, <2>1, BusIdles DEF MemIdle
  <2>3. ldst_ifacetype' = ldst_ifacetype
    BY <2>2 DEF PathClock
  <2> QED
    BY <1>2, <2>2, <2>3 DEF MemIdle, cached_core, ClockOf
<1> QED
  BY <1>1, <1>2

\* A port grants some of the requests, and a request that is alone.
LEMMA PickedRequests ==
    /\ \A requests, port, rank : Picked(requests, port, rank) \subseteq requests
    /\ Picked({3}, RdPort, RdRank) = {3}
    /\ \A d \in Dst : Picked({d}, WrPort, WrRank) = {d}
    /\ Picked({}, WrPort, WrRank) = {}
BY DEF Picked, RdRank, WrRank, Dst

\* The operands, while the unit is busy with op.
LEMMA Operands ==
    ASSUME NEW a \in BOOLEAN, NEW k \in BOOLEAN, NEW data, NEW b \in BOOLEAN,
           UnitClock(None, a, k, data, FALSE, b), busy_o, oper = op, op \in Ops,
           op' = op, oper' = oper, busy_o', src \subseteq Src,
           delay_pick \subseteq rd_rel, Collected
    PROVE  /\ src' \subseteq Src /\ srl' = [n \in Src |-> srl'[n]]
           /\ rd_rel' = rd_rel \ delay_pick
           /\ delay_pick' \subseteq rd_rel'
           /\ Collected'
           /\ alu_ok' <=> alu_valid
           /\ alu_valid => /\ alu_valid' /\ alu_o = Ea /\ Ea' = Ea
                           /\ op.ld \/ 3 \notin src_q' \/ 3 \in delay_pick'
           /\ ~op.ld /\ rd_rel' = {} => srl'[3] = op.tag
<1> USE RunningWires, UnitRegisters
<1>1. /\ src' = src_q /\ src_r' = delay_pick /\ ~issued'
      /\ srl' = [n \in Src |-> IF n \in delay_pick THEN op.tag ELSE srl[n]]
      /\ delay_pick' = Picked(rd_rel \ delay_pick, RdPort, RdRank)
      /\ alu_ok' <=> alu_valid
  BY DEF go_rd
<1>2. src_q \subseteq Src /\ rd_rel = {n \in src_q : IF n = 3 THEN ~op.ld ELSE n \in op.rd}
  BY DEF src_q, rd_rel
<1>3. src_q' = src_q \ delay_pick
  BY <1>1 DEF src_q
<1>4. op_is_st' <=> ~op.ld
  BY DEF op_is_st
<1>5. rd_rel' = rd_rel \ delay_pick
  BY <1>2, <1>3, <1>4 DEF rd_rel
<1>6. delay_pick' \subseteq rd_rel'
  BY <1>1, <1>5, PickedRequests
<1>7. Collected'
  BY <1>1, <1>2, <1>3 DEF Collected, Src
<1>8. ASSUME alu_valid
      PROVE  /\ alu_valid' /\ alu_o = Ea /\ Ea' = Ea
             /\ op.ld \/ 3 \notin src_q' \/ 3 \in delay_pick'
  <2>1. rd_rel \subseteq {3} /\ \A n \in op.rd : n \in {1, 2} /\ srl[n] = op.tag
    BY <1>2, <1>8 DEF alu_valid, Collected, Op, Src
  <2>2. alu_valid'
    BY <1>5, <2>1 DEF alu_valid
  <2>3. alu_o = Ea
    BY <2>1 DEF alu_o, Ea, EffAddr
  <2>4. Ea' = Ea
    BY DEF Ea, EffAddr
  <2>5. ASSUME ~op.ld, 3 \in src_q' PROVE 3 \in delay_pick'
    <3>1. rd_rel \ delay_pick = {3}
      BY <1>2, <1>3, <2>1, <2>5
    <3> QED
      BY <1>1, <3>1, PickedRequests
  <2> QED
    BY <2>2, <2>3, <2>4, <2>5
<1>9. ~op.ld /\ rd_rel' = {} => srl'[3] = op.tag
  <2>1. SUFFICES ASSUME ~op.ld, rd_rel' = {} PROVE srl'[3] = op.tag
    OBVIOUS
  <2>2. 3 \notin src_q'
    BY <1>4, <2>1 DEF rd_rel
  <2> QED
    BY <1>7, <2>1, <2>2 DEF Collected
<1> QED
  BY <1>1, <1>2, <1>5, <1>6, <1>7, <1>8, <1>9

\* The address register is written in the clock the address is known.
LEMMA UpdateWrite ==
    ASSUME NEW a \in BOOLEAN, NEW k \in BOOLEAN, NEW data, NEW b \in BOOLEAN,
           UnitClock(None, a, k, data, FALSE, b), busy_o, oper = op, op \in Ops,
           op' = op, 1 \notin wr_rel(FALSE, k, FALSE), wr_pick_1 \subseteq {2}, Update,
           regs' = [r \in Dst |-> IF r \notin go_wr(FALSE, k, FALSE) THEN regs[r]
                                  ELSE IF r = 1 THEN ldd(k, data) ELSE ea(FALSE, FALSE)],
           alu_valid => ea(FALSE, FALSE) = Ea /\ Ea' = Ea
    PROVE  /\ wr_pick_1' \subseteq {2} /\ regs'[1] = regs[1]
           /\ Update' /\ (alu_valid => Updated')
           /\ regs'[2] = regs[2] \/ (op.update /\ regs[2] = NoWrite /\ regs'[2] = Ea)
           /\ Updated => /\ regs'[2] = regs[2] /\ wr_pick_1' = {}
                         /\ 2 \notin go_wr(FALSE, k, FALSE)
<1> DEFINE due == LatchQ("upd", upd_s) /\ op.update /\ alu_valid
           go == go_wr(FALSE, k, FALSE)
<1>1. wr_rel(FALSE, k, FALSE) = IF due THEN {2} ELSE {}
  BY RunningWires DEF wr_rel
<1>2. wr_pick(FALSE, k, FALSE) = IF due THEN {2} ELSE {}
  <2>1. Picked({2}, WrPort, WrRank) = {2} /\ Picked({}, WrPort, WrRank) = {}
    BY PickedRequests DEF Dst
  <2> QED
    BY <1>1, <2>1 DEF wr_pick
<1>3. go = IF due /\ 2 \notin wr_pick_1 THEN {2} ELSE {}
  BY <1>2 DEF go_wr
<1>4. wr_pick_1' = IF due THEN {2} ELSE {}
  BY <1>2, UnitRuns
<1>5. LatchQ("upd", upd_s)' <=> LatchQ("upd", upd_s) /\ 2 \notin go
  BY UnitRuns DEF LatchQ
<1>6. /\ regs'[1] = regs[1]
      /\ regs'[2] = IF 2 \in go THEN ea(FALSE, FALSE) ELSE regs[2]
  <2>1. regs' = [r \in Dst |-> IF r \notin go THEN regs[r]
                               ELSE IF r = 1 THEN ldd(k, data) ELSE ea(FALSE, FALSE)]
    OBVIOUS
  <2> HIDE DEF go, due
  <2>2. 1 \notin go /\ 1 \in Dst /\ 2 \in Dst
    BY <1>3 DEF Dst
  <2> QED
    BY <2>1, <2>2
<1> HIDE DEF go
<1>7. CASE due /\ ~Updated
  <2>1. wr_pick_1 = {} /\ go = {2} /\ regs[2] = NoWrite
    BY <1>3, <1>7 DEF Update
  <2> QED
    BY <1>4, <1>5, <1>6, <1>7, <2>1 DEF Update, Updated
<1>8. CASE ~due /\ ~Updated
  BY <1>3, <1>4, <1>5, <1>6, <1>8 DEF Update, Updated
<1>9. CASE Updated
  <2>1. ~due /\ go = {}
    BY <1>3, <1>9 DEF Updated
  <2>2. op.update => Ea' = Ea
    BY DEF Ea, EffAddr
  <2> QED
    BY <1>3, <1>4, <1>5, <1>6, <1>9, <2>1, <2>2 DEF Update, Updated, go
<1> QED
  BY <1>7, <1>8, <1>9

\* What holds of the registers in every phase.
LEMMA BaseStep ==
    ASSUME Base, NEW i \in Ops \cup {None}, NEW exc, NEW lk, NEW sk, NEW data, NEW perf,
           PathClock(i, exc, lk, sk, data, perf)
    PROVE  Base' /\ cached_core' = cached_core
<1>1. src' \subseteq Src /\ srl' = [n \in Src |-> srl'[n]]
  BY DEF PathClock, UnitClock, Base, src_q
<1>2. idle' \in 0 .. Gap
  BY LoadStoreAssumption DEF PathClock, Base
<1>3. regs' = [d \in Dst |-> regs'[d]] /\ op' \in Ops \cup {None}
  BY DEF PathClock, Begin, Seen, Base
<1>4. ldst_ifacetype' = ldst_ifacetype
  BY DEF PathClock
<1> QED
  BY <1>1, <1>2, <1>3, <1>4 DEF Base, cached_core

\* The unit takes an instruction,
LEMMA UnitStarts ==
    ASSUME NEW i \in Ops, NEW data, UnitClock(i, FALSE, FALSE, data, FALSE, FALSE),
           ~busy_o, src \subseteq Src
    PROVE  /\ {"opc", "alu", "lod", "wri", "lsd"} \cap lat' = {"alu", "lod", "wri", "lsd"}
           /\ "rst" \notin lat' /\ ("sto" \in lat' <=> Open("sto"))
           /\ resets' \subseteq {"wri", "sto", "lsd"}
           /\ "wri" \in resets' <=> op_is_update
           /\ "sto" \in resets' <=> p_st_go
           /\ "lsd" \in resets' <=> p_st_go
           /\ issued' /\ upd_s' /\ oper' = i /\ busy_o' /\ i # None
           /\ addr_ok' <=> alu_ok
           /\ ~alu_ok' /\ ~st_rel_1' /\ ~p_st_go' /\ delay_pick' = {} /\ wr_pick_1' = {}
           /\ src_q' = Src
<1>1. i # None
  BY LdstAssumption, LdstTokens
<1>2. (i # None) = TRUE
  BY <1>1
<1>3. /\ wr_rel(TRUE, FALSE, FALSE) = {} /\ rd_rel = {} /\ ~alu_valid
      /\ ~wr_reset(TRUE, FALSE, FALSE, FALSE) /\ ~st_rel(FALSE, FALSE)
      /\ sto_q(FALSE) <=> Open("sto")
  BY DEF wr_rel, rd_rel, wr_reset, st_rel, alu_valid, sto_q, LatchQ, Open
<1>4. /\ wr_pick(TRUE, FALSE, FALSE) = {} /\ go_wr(TRUE, FALSE, FALSE) = {}
      /\ ~done_o(TRUE, FALSE, FALSE, FALSE, FALSE) /\ ~st_go(FALSE, FALSE)
  BY <1>3, PickedRequests DEF wr_pick, go_wr, done_o, st_go
<1>5. /\ lod_q(TRUE, FALSE, FALSE) /\ alu_q(TRUE, FALSE) /\ ~rst_q(TRUE, FALSE)
      /\ \A l : LatchQ(l, TRUE)
  BY DEF lod_q, alu_q, rst_q, LatchQ
<1> DEFINE issue == i # None
<1>10. /\ "opc" \in lat' <=> busy_o
       /\ "alu" \in lat' <=> alu_q(issue, FALSE)
       /\ "lod" \in lat' <=> lod_q(issue, FALSE, FALSE)
       /\ "wri" \in lat' <=> LatchQ("wri", issue)
       /\ "sto" \in lat' <=> sto_q(FALSE)
       /\ "lsd" \in lat' <=> LatchQ("lsd", issue)
       /\ "rst" \in lat' <=> rst_q(issue, FALSE)
       /\ "opc" \in resets' <=> done_o(issue, FALSE, FALSE, FALSE, FALSE)
       /\ "wri" \in resets' <=> \/ 1 \in go_wr(issue, FALSE, FALSE)
                                \/ wr_reset(issue, FALSE, FALSE, FALSE)
                                \/ op_is_update
       /\ "upd" \in resets' <=> 2 \in go_wr(issue, FALSE, FALSE)
       /\ "sto" \in resets' <=> st_go(FALSE, FALSE) \/ p_st_go
       /\ "lsd" \in resets' <=> st_go(FALSE, FALSE) \/ p_st_go
       /\ resets' \subseteq {"opc", "wri", "upd", "sto", "lsd"}
  <2> HIDE DEF busy_o, alu_q, lod_q, LatchQ, sto_q, rst_q, done_o, go_wr, wr_reset, st_go,
               op_is_update
  <2> QED
    BY UnitMoves
<1>11. issue = TRUE
  BY <1>1
<1> HIDE DEF issue
<1>6. /\ {"alu", "lod", "wri", "lsd"} \subseteq lat' /\ "opc" \notin lat'
      /\ "rst" \notin lat' /\ ("sto" \in lat' <=> Open("sto"))
  BY <1>3, <1>5, <1>10, <1>11
<1>9. /\ resets' \subseteq {"wri", "sto", "lsd"}
      /\ "wri" \in resets' <=> op_is_update
      /\ "sto" \in resets' <=> p_st_go
      /\ "lsd" \in resets' <=> p_st_go
  BY <1>3, <1>4, <1>10, <1>11
<1>7. /\ issued' /\ upd_s' /\ oper' = i
      /\ addr_ok' <=> alu_ok
      /\ ~alu_ok' /\ ~st_rel_1' /\ ~p_st_go' /\ wr_pick_1' = {}
      /\ delay_pick' = Picked({}, RdPort, RdRank)
      /\ src' = src_q
  BY <1>2, <1>3, <1>4, <1>5 DEF UnitClock
<1>8. delay_pick' = {} /\ src_q' = Src /\ busy_o'
  BY <1>7, PickedRequests DEF src_q, busy_o, LatchQ
<1> QED
  BY <1>1, <1>6, <1>7, <1>8, <1>9

\* ... or stays as it is.
LEMMA UnitRests ==
    ASSUME NEW data, UnitClock(None, FALSE, FALSE, data, FALSE, FALSE), ~busy_o
    PROVE  /\ ~issued' /\ "opc" \notin lat' /\ oper' = oper
           /\ "sto" \in lat' <=> Open("sto")
           /\ "lsd" \in lat' <=> Open("lsd")
           /\ addr_ok' => Open("lsd")
           /\ ~alu_ok' /\ ~p_st_go' /\ delay_pick' = {}
           /\ go_wr(FALSE, FALSE, FALSE) = {}
           /\ ~done_o(FALSE, FALSE, FALSE, FALSE, FALSE)
<1>1. /\ wr_rel(FALSE, FALSE, FALSE) = {} /\ rd_rel = {} /\ ~alu_valid
      /\ ~wr_reset(FALSE, FALSE, FALSE, FALSE) /\ ~st_rel(FALSE, FALSE)
  BY DEF wr_rel, rd_rel, wr_reset, st_rel, alu_valid
<1>2. /\ go_wr(FALSE, FALSE, FALSE) = {}
      /\ ~done_o(FALSE, FALSE, FALSE, FALSE, FALSE) /\ ~st_go(FALSE, FALSE)
  BY <1>1, PickedRequests DEF wr_pick, go_wr, done_o, st_go
<1>3. delay_pick' = {}
  BY <1>1, PickedRequests, UnitRegisters
<1>4. (sto_q(FALSE) <=> Open("sto")) /\ (LatchQ("lsd", FALSE) <=> Open("lsd"))
  BY DEF sto_q, LatchQ, Open
<1> QED
  BY <1>1, <1>2, <1>3, <1>4, UnitRuns

\* The port, connected to nothing.
LEMMA PortRests ==
    ASSUME ~l0_q, NEW lk, NEW sk, ~ld_data_ok(lk), L0Clock(FALSE), PortClock(FALSE, lk, sk)
    PROVE  /\ ~l0_idx' /\ ~l0_reset' /\ ~lds_1' /\ ~sts_1'
           /\ ld_active' <=> ld_active /\ ~reset
           /\ st_active' <=> st_active /\ ~reset
           /\ st_done' <=> st_done_q
           /\ ~st_done_s' /\ ~adrok_s'
           /\ adrok' <=> adrok_q
           /\ busy' <=> busy /\ ~reset
           /\ reset' <=> st_done_q /\ sk
           /\ reset_delay' = reset
<1>1. /\ ~lds /\ ~sts /\ ~addr_ok_o /\ ~set_wr_data(FALSE)
      /\ ld_active_q <=> ld_active /\ ~reset
      /\ st_active_q <=> st_active /\ ~reset
      /\ busy_q(FALSE) <=> busy /\ ~reset
  BY DEF lds, sts, ld_active_q, st_active_q, busy_q, set_wr_data, addr_ok_o,
         set_rd_addr, set_wr_addr, pi_addr_ok
<1> QED
  BY <1>1 DEF L0Clock, PortClock

-----------------------------------------------------------------------------
(* The steps of MemOp, from what the instruction sees.                     *)

\* An instruction is issued.
LEMMA OpBegins ==
    ASSUME NEW i \in Ops, Begin(i), outcome # "run"
    PROVE  MemOpStep
<1>1. [r \in Dst |-> NoWrite] = <<NoWrite, NoWrite>>
  BY DEF Dst
<1>2. Mem!Begin(i)
  BY <1>1 DEF Begin, Mem!Begin
<1> QED
  BY <1>2 DEF MemOpStep, Mem!MemNext

\* The access is made, or a result of the instruction written, or nothing.
LEMMA OpProgresses ==
    ASSUME regs = [d \in Dst |-> regs[d]], regs' = [d \in Dst |-> regs'[d]],
           op \in Ops, op' = op, outcome = "run", outcome' = "run",
           access' = access \/ (access = <<>> /\ access' = <<OwnAccess(op)>>),
           \/ regs'[1] = regs[1]
           \/ op.ld /\ regs[1] = NoWrite /\ regs'[1] = Ea /\ access' # <<>>,
           regs'[2] = regs[2] \/ (op.update /\ regs[2] = NoWrite /\ regs'[2] = Ea)
    PROVE  MemOpStep
<1> DEFINE ds == {d \in {1, 2} : regs'[d] # regs[d]}
<1>1. ds \in SUBSET {d \in Mem!Writes(op) : regs[d] = NoWrite}
  BY DEF Mem!Writes
<1>2. 1 \in ds => access' # <<>>
  OBVIOUS
<1>3. OwnResult(op)[1] = Ea /\ OwnResult(op)[2] = Ea
  BY DEF OwnResult, Ea
<1>4. regs' = [d \in 1 .. 2 |-> IF d \in ds THEN OwnResult(op)[d] ELSE regs[d]]
  BY <1>3 DEF Dst
<1>5. Mem!Progress
  <2> HIDE DEF ds
  <2> QED
    BY <1>1, <1>2, <1>4 DEF Mem!Progress
<1> QED
  BY <1>5 DEF MemOpStep, Mem!MemNext

\* The instruction is done: its access made, its results written.
LEMMA OpFinishes ==
    ASSUME op \in Ops, outcome = "run", outcome' = "done",
           access = <<OwnAccess(op)>>, op.ld => regs[1] = Ea, op.update => regs[2] = Ea,
           UNCHANGED <<op, regs, access>>
    PROVE  MemOpStep
<1>1. op.tag \in {0, 1}
  BY LdstAssumption DEF Op
<1>2. Ea # NoWrite
  BY <1>1, LdstTokens DEF Ea, EffAddr, NoWrite
<1>3. Mem!Finish
  BY <1>2 DEF Mem!Finish, Mem!Writes
<1> QED
  BY <1>3 DEF MemOpStep, Mem!MemNext

\* The instruction ends with an exception, before its access.
LEMMA OpFaults ==
    ASSUME outcome = "run", outcome' = "fault", access = <<>>, regs[1] = NoWrite,
           UNCHANGED <<op, regs, access>>
    PROVE  MemOpStep
BY DEF MemOpStep, Mem!MemNext, Mem!Fault

-----------------------------------------------------------------------------
(* The clocks of each phase.                                               *)

\* Between two instructions no wire of the port is up.
LEMMA QuietWires ==
    ASSUME Idling
    PROVE  ~busy_o /\ ~l0_q /\ NoOutput /\ ~lds /\ ~sts /\ ~busy_q(FALSE) /\ ~adrok_q
           /\ ~st_done_q /\ \A lk \in BOOLEAN : ~ld_data_ok(lk)
<1>1. ~busy_o /\ ~l0_q /\ NoOutput /\ ~lds /\ ~sts
  BY RestingWires DEF Idling, Quiet, busy_o, LatchQ, Open
<1> QED
  BY <1>1 DEF Idling, Quiet, busy_q, adrok_q, st_done_q, ld_data_ok

\* A clock between two instructions.
LEMMA QuietRests ==
    ASSUME Base, Idling, ClockOf(None)
    PROVE  Base' /\ Idling' /\ MemOpStep
<1>1. /\ \E lk, sk \in BOOLEAN : \E data : PathClock(None, FALSE, lk, sk, data, None)
      /\ cached_core' = cached_core /\ MemIdle'
      /\ ~cached_core => lsui' = "IDLE"
  BY QuietWires, MemoryIdles DEF Idling
<1>1a. PICK lk \in BOOLEAN, sk \in BOOLEAN : \E data : PathClock(None, FALSE, lk, sk, data, None)
  BY <1>1
<1>2. PICK data : PathClock(None, FALSE, lk, sk, data, None)
  BY <1>1a
<1>3. /\ UnitClock(None, FALSE, FALSE, data, FALSE, FALSE)
      /\ Watched(FALSE, FALSE, FALSE, FALSE, data, None)
  <2>1. Wires(FALSE, FALSE, FALSE, FALSE, FALSE, lk)
    BY QuietWires DEF Wires
  <2> QED
    BY <1>2, <2>1, PathWires
<1>4. /\ ~issued' /\ "opc" \notin lat' /\ oper' = oper
      /\ "sto" \in lat' <=> Open("sto")
      /\ "lsd" \in lat' <=> Open("lsd")
      /\ addr_ok' => Open("lsd")
      /\ ~alu_ok' /\ ~p_st_go' /\ delay_pick' = {}
      /\ go_wr(FALSE, FALSE, FALSE) = {}
      /\ ~done_o(FALSE, FALSE, FALSE, FALSE, FALSE)
  BY <1>3, UnitRests, QuietWires
<1>5. op' = op /\ regs' = regs /\ access' = access /\ outcome' = outcome
  BY <1>3, <1>4 DEF Base, Watched
<1>6. /\ ~l0_idx' /\ ~ld_active' /\ ~st_active' /\ ~st_done' /\ ~st_done_s' /\ ~adrok'
      /\ ~adrok_s' /\ ~busy' /\ ~reset'
  BY <1>2, QuietWires, PortRests DEF PathClock, Idling, Quiet
<1>7. Base'
  BY <1>2, BaseStep
<1>8. Quiet'
  BY <1>4, <1>5, <1>6 DEF Idling, Quiet, Open
<1> QED
  BY <1>1, <1>3, <1>5, <1>7, <1>8 DEF Idling, MemOpStep

\* A clock in which an instruction is issued: the unit starts to read.
LEMMA QuietIssues ==
    ASSUME Base, Idling, NEW i \in Ops, MayIssue(i), ClockOf(i), Gap >= 1
    PROVE  Base' /\ Reading' /\ MemReady' /\ MemOpStep
<1>0. i # None
  BY LdstAssumption, LdstTokens
<1>1. /\ \E lk, sk \in BOOLEAN : \E data : PathClock(i, FALSE, lk, sk, data, None)
      /\ cached_core' = cached_core /\ MemIdle'
      /\ cached_core => ~d_valid_1'
      /\ ~cached_core => ~i.misalign /\ lsui' = "IDLE"
  BY <1>0, QuietWires, MemoryIdles DEF Idling
<1>1a. PICK lk \in BOOLEAN, sk \in BOOLEAN : \E data : PathClock(i, FALSE, lk, sk, data, None)
  BY <1>1
<1>2. PICK data : PathClock(i, FALSE, lk, sk, data, None)
  BY <1>1a
<1>3. /\ UnitClock(i, FALSE, FALSE, data, FALSE, FALSE)
      /\ Begin(i)
  <2>1. Wires(FALSE, FALSE, FALSE, FALSE, FALSE, lk)
    BY QuietWires DEF Wires
  <2>2. UnitClock(i, FALSE, FALSE, data, FALSE, FALSE)
    BY <1>2, <2>1, PathWires
  <2> QED
    BY <1>0, <1>2, <2>2 DEF PathClock
<1>4. /\ {"opc", "alu", "lod", "wri", "lsd"} \cap lat' = {"alu", "lod", "wri", "lsd"}
      /\ "rst" \notin lat' /\ ("sto" \in lat' <=> Open("sto"))
      /\ resets' \subseteq {"wri", "sto", "lsd"}
      /\ "wri" \in resets' <=> op_is_update
      /\ "sto" \in resets' <=> p_st_go
      /\ "lsd" \in resets' <=> p_st_go
      /\ issued' /\ upd_s' /\ oper' = i /\ busy_o' /\ i # None
      /\ addr_ok' <=> alu_ok
      /\ ~alu_ok' /\ ~st_rel_1' /\ ~p_st_go' /\ delay_pick' = {} /\ wr_pick_1' = {}
      /\ src_q' = Src
  BY <1>3, UnitStarts, QuietWires DEF Base
<1>5. /\ op' = i /\ regs'[1] = NoWrite /\ regs'[2] = NoWrite /\ access' = <<>>
      /\ outcome' = "run"
  BY <1>3 DEF Begin, Dst
<1>6. /\ PortOff' /\ ~st_done' /\ ~st_done_s' /\ ~adrok'
      /\ ~adrok_s' /\ ~busy' /\ ~reset' /\ ~reset_delay'
  BY <1>2, QuietWires, PortRests DEF PathClock, Idling, Quiet, PortOff
<1>7. Base'
  BY <1>2, BaseStep
<1>8. resets' = {} /\ ~addr_ok' /\ "sto" \notin lat'
  BY <1>4 DEF Idling, Quiet, MayIssue, op_is_update, Open
<1>9. Update'
  <2>1. LatchQ("upd", upd_s)'
    BY <1>4 DEF LatchQ
  <2> QED
    BY <1>4, <1>5, <2>1 DEF Update, Updated
<1>10. Collected'
  BY <1>4 DEF Collected, Src
<1>11. Running'
  BY <1>4, <1>5, <1>6 DEF Running
<1>12. Reading'
  BY <1>4, <1>5, <1>6, <1>8, <1>9, <1>10, <1>11 DEF Reading
<1>13. MemReady'
  BY <1>1, <1>5 DEF MemReady, MemIdle
<1>14. MemOpStep
  BY <1>3, OpBegins DEF Idling, Quiet
<1> QED
  BY <1>7, <1>12, <1>13, <1>14

-----------------------------------------------------------------------------
\* An address that was taken and not answered keeps the port as it is.
LEMMA CacheTaken ==
    ASSUME NEW i, ClockOf(i), AddressTaken, ~set_rd_addr,
           \A exc \in BOOLEAN : ~set_wr_data(exc)
    PROVE  /\ \E data : PathClock(i, FALSE, FALSE, FALSE, data, None)
           /\ cached_core' /\ dcache' = None /\ ~walk'
           /\ ~ldst_r'.misalign /\ state' # "ACK_WAIT"
<1>0. PICK d \in DcacheAnswers, mmu \in MmuAnswers : CacheClock(i, d, mmu)
  BY DEF ClockOf, AddressTaken
<1>1. d = "none" /\ mmu = "none" /\ state # "ACK_WAIT"
  BY DEF AddressTaken, DcacheAnswers, MmuAnswers
<1>2. ASSUME NEW e \in BOOLEAN
      PROVE  /\ ~d_valid(e) /\ ~d_validblip(e) /\ current(e) = ldst_r
             /\ exception(e, d, mmu) = FALSE
  BY <1>1 DEF d_valid, d_validblip, current, exception, fsm_exc, AddressTaken
<1>3. Exceptions(d, mmu) = {FALSE}
  BY <1>2 DEF Exceptions
<1>4. /\ PathClock(i, FALSE, done(d), done(d),
                   IF dcache = None THEN <<Zero, Zero>> ELSE dcache.req.addr, None)
      /\ LoadStoreClock(FALSE, d, mmu) /\ Dcache(FALSE, d, mmu) /\ Mmu(d, mmu)
  <2>1. PICK exc \in Exceptions(d, mmu) :
            /\ PathClock(i, exc, done(d), done(d),
                 IF dcache = None THEN <<Zero, Zero>> ELSE dcache.req.addr,
                 IF d # "valid" THEN None
                 ELSE [load |-> dcache.req.load, addr |-> dcache.req.addr,
                       data |-> dcache.data])
            /\ LoadStoreClock(exc, d, mmu) /\ Dcache(exc, d, mmu) /\ Mmu(d, mmu)
    BY <1>0 DEF CacheClock
  <2>2. exc = FALSE /\ d # "valid"
    BY <1>1, <1>3
  <2> QED
    BY <2>1, <2>2
<1>5. done(d) = FALSE
  BY <1>1 DEF done
<1>6. /\ ldst_r' \in {ldst_r, NoRequest} /\ state' \in {"IDLE", "MMU_LOOKUP"}
  BY <1>1, <1>2, <1>4 DEF LoadStoreClock, LoadStoreIdle, LoadStoreAckWait, LoadStoreMmuLookup
<1>7. dcache' = None /\ ~walk'
  BY <1>1, <1>2, <1>4 DEF Dcache, Mmu, mmureq, d_out, AddressTaken
<1>8. cached_core'
  BY <1>4 DEF PathClock, AddressTaken, cached_core
<1>9. ~ldst_r'.misalign /\ state' # "ACK_WAIT"
  BY <1>6 DEF AddressTaken, NoRequest
<1>10. \E data : PathClock(i, FALSE, FALSE, FALSE, data, None)
  BY <1>4, <1>5
<1> QED
  BY <1>7, <1>8, <1>9, <1>10

\* After a fault the unit is free, and the port still has the address.
LEMMA FaultedWires ==
    ASSUME Faulted
    PROVE  ~busy_o /\ ~l0_q /\ NoOutput /\ ~lds /\ ~sts /\ adrok_q /\ ~ld_data_ok(FALSE)
<1>1. ~busy_o /\ ~l0_q /\ NoOutput /\ ~lds /\ ~sts
  BY RestingWires DEF Faulted, busy_o, LatchQ, Open
<1> QED
  BY <1>1 DEF Faulted, AddressTaken, adrok_q, ld_data_ok

\* A clock after a fault: nothing reaches the port or comes from it.
LEMMA FaultedMoves ==
    ASSUME Base, Faulted, NEW i \in Ops \cup {None}, ClockOf(i)
    PROVE  /\ Base' /\ AddressTaken' /\ ~l0_idx'
           /\ \E data : /\ UnitClock(i, FALSE, FALSE, data, FALSE, FALSE)
                        /\ IF i = None THEN Watched(FALSE, FALSE, FALSE, FALSE, data, None)
                           ELSE Begin(i)
<1>1. /\ \E data : PathClock(i, FALSE, FALSE, FALSE, data, None)
      /\ cached_core' /\ dcache' = None /\ ~walk'
      /\ ~ldst_r'.misalign /\ state' # "ACK_WAIT"
  BY FaultedWires, CacheTaken DEF Faulted, NoOutput
<1>2. PICK data : PathClock(i, FALSE, FALSE, FALSE, data, None)
  BY <1>1
<1>3. Wires(FALSE, FALSE, FALSE, FALSE, FALSE, FALSE)
  BY FaultedWires DEF Wires
<1>4. /\ UnitClock(i, FALSE, FALSE, data, FALSE, FALSE)
      /\ i = None => Watched(FALSE, FALSE, FALSE, FALSE, data, None)
  BY <1>2, <1>3, PathWires
<1>5. i # None => Begin(i)
  BY <1>2 DEF PathClock
<1>6. adrok' /\ ~reset' /\ ~reset_delay' /\ ~l0_idx'
  BY <1>2, FaultedWires, PortRests DEF PathClock, Faulted, AddressTaken
<1>7. Base'
  BY <1>2, BaseStep
<1> QED
  BY <1>1, <1>4, <1>5, <1>6, <1>7 DEF AddressTaken

\* ... in which nothing is issued,
LEMMA FaultedRests ==
    ASSUME Base, Faulted, ClockOf(None)
    PROVE  Base' /\ Faulted' /\ MemOpStep
<1>1. PICK data : /\ UnitClock(None, FALSE, FALSE, data, FALSE, FALSE)
                  /\ Watched(FALSE, FALSE, FALSE, FALSE, data, None)
  BY FaultedMoves
<1>2. /\ ~issued' /\ "opc" \notin lat' /\ oper' = oper
      /\ "sto" \in lat' <=> Open("sto")
      /\ go_wr(FALSE, FALSE, FALSE) = {}
      /\ ~done_o(FALSE, FALSE, FALSE, FALSE, FALSE)
  BY <1>1, UnitRests, FaultedWires
<1>3. op' = op /\ regs' = regs /\ access' = access /\ outcome' = outcome
  BY <1>1, <1>2 DEF Base, Watched
<1>4. Faulted'
  BY <1>2, <1>3, FaultedMoves DEF Faulted, Open
<1> QED
  BY <1>3, <1>4, FaultedMoves DEF MemOpStep

\* ... or something is: it is stuck.
LEMMA FaultedIssues ==
    ASSUME Base, Faulted, NEW i \in Ops, ClockOf(i)
    PROVE  Base' /\ Stuck' /\ MemOpStep
<1>0. i # None
  BY LdstAssumption, LdstTokens
<1>1. PICK data : /\ UnitClock(i, FALSE, FALSE, data, FALSE, FALSE)
                  /\ Begin(i)
  BY <1>0, FaultedMoves
<1>2. /\ {"opc", "alu", "lod", "wri", "lsd"} \cap lat' = {"alu", "lod", "wri", "lsd"}
      /\ "rst" \notin lat' /\ ("sto" \in lat' <=> Open("sto"))
      /\ resets' \subseteq {"wri", "sto", "lsd"}
      /\ issued' /\ upd_s' /\ oper' = i /\ busy_o' /\ i # None
      /\ ~alu_ok' /\ delay_pick' = {} /\ wr_pick_1' = {}
      /\ src_q' = Src
  BY <1>1, UnitStarts, FaultedWires DEF Base
<1>3. /\ op' = i /\ regs'[1] = NoWrite /\ regs'[2] = NoWrite /\ access' = <<>>
      /\ outcome' = "run"
  BY <1>1 DEF Begin, Dst
<1>4. Update'
  <2>1. LatchQ("upd", upd_s)'
    BY <1>2 DEF LatchQ
  <2> QED
    BY <1>2, <1>3, <2>1 DEF Update, Updated
<1>5. Collected'
  BY <1>2 DEF Collected, Src
<1>6. Stuck'
  BY <1>2, <1>3, <1>4, <1>5, FaultedMoves DEF Stuck, Faulted, Open
<1>7. MemOpStep
  BY <1>1, OpBegins DEF Faulted
<1> QED
  BY <1>6, <1>7, FaultedMoves

\* The address that is still taken keeps a later instruction's from going out.
LEMMA StuckWires ==
    ASSUME Stuck
    PROVE  /\ l0_q /\ adrok_q /\ ~set_rd_addr /\ ~addr_ok_o /\ ~ld_data_ok(FALSE)
           /\ \A exc \in BOOLEAN : ~set_wr_data(exc)
<1>1. l0_q
  BY RunningWires DEF Stuck
<1>2. adrok_q /\ ~set_rd_addr /\ ~addr_ok_o /\ ~ld_data_ok(FALSE)
  BY DEF Stuck, AddressTaken, adrok_q, set_rd_addr, addr_ok_o, ld_data_ok
<1>3. ~(l0_q /\ addr_ok_o)
  BY <1>2
<1>4. ASSUME NEW exc \in BOOLEAN
      PROVE  ~set_wr_data(exc)
  <2>1. ~sto_q(l0_q /\ addr_ok_o)
    BY <1>3 DEF sto_q, LatchQ, Stuck, Open
  <2> QED
    BY <2>1 DEF set_wr_data, st_go, st_rel
<1> QED
  BY <1>1, <1>2, <1>4

\* An instruction after a fault only writes its address register.
LEMMA StuckRuns ==
    ASSUME Base, Stuck, ClockOf(None)
    PROVE  Base' /\ Stuck' /\ MemOpStep
<1> DEFINE b == l0_q /\ busy_q(FALSE)
<1>1. /\ \E data : PathClock(None, FALSE, FALSE, FALSE, data, None)
      /\ cached_core' /\ dcache' = None /\ ~walk'
      /\ ~ldst_r'.misalign /\ state' # "ACK_WAIT"
  BY StuckWires, CacheTaken DEF Stuck
<1>2. PICK data : PathClock(None, FALSE, FALSE, FALSE, data, None)
  BY <1>1
<1>3. /\ UnitClock(None, FALSE, FALSE, data, FALSE, b)
      /\ Watched(FALSE, FALSE, FALSE, b, data, None)
  <2>1. Wires(FALSE, FALSE, FALSE, b, FALSE, FALSE)
    BY StuckWires DEF Wires
  <2> HIDE DEF b
  <2> QED
    BY <1>2, <2>1, PathWires
<1>4. b \in BOOLEAN
  OBVIOUS
<1> HIDE DEF b
<1>5. /\ ~wr_reset(FALSE, FALSE, FALSE, FALSE) /\ ~done_o(FALSE, FALSE, FALSE, FALSE, b)
      /\ 1 \notin wr_rel(FALSE, FALSE, FALSE)
      /\ ~sto_q(FALSE) /\ alu_q(FALSE, FALSE)
  <2>1. ~wr_reset(FALSE, FALSE, FALSE, FALSE)
    BY DEF Stuck, wr_reset, rst_q
  <2>2. lod_q(FALSE, FALSE, FALSE)
    BY DEF Stuck, lod_q
  <2>3. ~sto_q(FALSE) /\ alu_q(FALSE, FALSE)
    BY DEF Stuck, sto_q, LatchQ, Open, alu_q
  <2>4. ~done_o(FALSE, FALSE, FALSE, FALSE, b)
    BY <2>1 DEF done_o
  <2>5. 1 \notin wr_rel(FALSE, FALSE, FALSE)
    BY <2>2 DEF wr_rel
  <2> QED
    BY <2>1, <2>3, <2>4, <2>5
<1>6. /\ "opc" \in lat' /\ "opc" \notin resets' /\ {"alu", "lod"} \subseteq lat'
      /\ "sto" \notin lat' /\ "rst" \notin lat'
      /\ ~issued' /\ ~upd_s' /\ oper' = oper
  BY <1>3, <1>4, <1>5, UnitRuns DEF Stuck
<1>7. busy_o'
  BY <1>6 DEF busy_o, LatchQ
<1>8. op' = op /\ access' = access /\ outcome' = outcome
  BY <1>3, <1>5 DEF Watched, Stuck
<1>9. /\ rd_rel' = rd_rel \ delay_pick
      /\ delay_pick' \subseteq rd_rel'
      /\ Collected'
      /\ alu_ok' <=> alu_valid
      /\ alu_valid => alu_valid' /\ alu_o = Ea /\ Ea' = Ea
  BY <1>3, <1>4, <1>6, <1>7, <1>8, Operands DEF Stuck, Base
<1>10. alu_valid => ea(FALSE, FALSE) = Ea /\ Ea' = Ea
  BY <1>5, <1>9 DEF ea
<1>11. /\ wr_pick_1' \subseteq {2} /\ regs'[1] = regs[1]
       /\ Update'
       /\ regs'[2] = regs[2] \/ (op.update /\ regs[2] = NoWrite /\ regs'[2] = Ea)
  BY <1>3, <1>4, <1>5, <1>8, <1>10, UpdateWrite DEF Watched, Stuck
<1>12. adrok' /\ ~reset' /\ ~reset_delay'
  BY <1>2, StuckWires DEF PathClock, PortClock, Stuck, AddressTaken
<1>13. Base'
  BY <1>2, BaseStep
<1>14. Stuck'
  BY <1>1, <1>6, <1>7, <1>8, <1>9, <1>11, <1>12 DEF Stuck, AddressTaken, Open
<1>15. MemOpStep
  BY <1>8, <1>11, <1>13, OpProgresses DEF Stuck, Base
<1> QED
  BY <1>13, <1>14, <1>15

\* While the operands are read nothing goes out, and nothing but the update can end.
LEMMA ReadingWires ==
    ASSUME Reading
    PROVE  /\ l0_q /\ NoOutput /\ ~addr_ok_o /\ \A lk \in BOOLEAN : ~ld_data_ok(lk)
           /\ busy_q(FALSE) /\ ~st_done_q /\ ~adrok_q
           /\ ld_active_q <=> op.ld
           /\ st_active_q <=> ~op.ld
           /\ lds <=> op.ld
           /\ sts <=> ~op.ld
<1>1. l0_q /\ (lds <=> op.ld) /\ (sts <=> ~op.ld)
  BY RunningWires DEF Reading, Running
<1>2. ~adrok_q /\ ~st_done_q /\ ~set_rd_addr /\ ~set_wr_addr /\ ~addr_ok_o
  BY DEF Reading, adrok_q, st_done_q, set_rd_addr, set_wr_addr, pi_addr_ok, addr_ok_o
<1>3. ~(l0_q /\ addr_ok_o)
  BY <1>2
<1>4. ASSUME NEW exc \in BOOLEAN
      PROVE  ~set_wr_data(exc)
  <2>1. ~sto_q(l0_q /\ addr_ok_o)
    BY <1>3 DEF sto_q, LatchQ, Reading
  <2> QED
    BY <2>1 DEF set_wr_data, st_go, st_rel
<1>5. \A lk \in BOOLEAN : ~ld_data_ok(lk)
  BY <1>2 DEF ld_data_ok
<1>6. busy_q(FALSE) /\ (ld_active_q <=> op.ld) /\ (st_active_q <=> ~op.ld)
  BY <1>1 DEF busy_q, ld_active_q, st_active_q, Reading, PortOn, PortOff
<1> QED
  BY <1>1, <1>2, <1>4, <1>5, <1>6 DEF NoOutput

\* A clock of reading; with the last operand the access is to be sent.
LEMMA ReadingRuns ==
    ASSUME Base, Reading, MemReady, ClockOf(None)
    PROVE  Base' /\ (Reading' \/ Sending') /\ MemReady' /\ MemOpStep
<1>1. /\ \E lk, sk \in BOOLEAN : \E data : PathClock(None, FALSE, lk, sk, data, None)
      /\ cached_core' = cached_core /\ MemIdle'
      /\ cached_core => ~d_valid_1'
      /\ ~cached_core => lsui' = "IDLE"
  BY ReadingWires, MemoryIdles DEF MemReady, MemIdle
<1>1a. PICK lk \in BOOLEAN, sk \in BOOLEAN : \E data : PathClock(None, FALSE, lk, sk, data, None)
  BY <1>1
<1>2. PICK data : PathClock(None, FALSE, lk, sk, data, None)
  BY <1>1a
<1>3. /\ UnitClock(None, FALSE, FALSE, data, FALSE, TRUE)
      /\ Watched(FALSE, FALSE, FALSE, TRUE, data, None)
  <2>1. Wires(FALSE, FALSE, FALSE, TRUE, FALSE, lk)
    BY ReadingWires DEF Wires
  <2> QED
    BY <1>2, <2>1, PathWires
<1>5. /\ ~wr_reset(FALSE, FALSE, FALSE, FALSE) /\ ~done_o(FALSE, FALSE, FALSE, FALSE, TRUE)
      /\ 1 \notin wr_rel(FALSE, FALSE, FALSE) /\ 1 \notin go_wr(FALSE, FALSE, FALSE)
      /\ ~sto_q(FALSE) /\ alu_q(FALSE, FALSE)
      /\ ~st_rel(FALSE, FALSE) /\ ~st_go(FALSE, FALSE)
      /\ LatchQ("lsd", FALSE) /\ LatchQ("wri", FALSE)
  <2>1. ~wr_reset(FALSE, FALSE, FALSE, FALSE)
    BY DEF Reading, wr_reset, rst_q
  <2>2. lod_q(FALSE, FALSE, FALSE)
    BY DEF Reading, lod_q
  <2>3. ~sto_q(FALSE) /\ alu_q(FALSE, FALSE) /\ LatchQ("lsd", FALSE) /\ LatchQ("wri", FALSE)
    BY DEF Reading, Running, sto_q, LatchQ, alu_q
  <2>4. ~done_o(FALSE, FALSE, FALSE, FALSE, TRUE)
    BY <2>1 DEF done_o
  <2>5. 1 \notin wr_rel(FALSE, FALSE, FALSE)
    BY <2>2 DEF wr_rel
  <2>6. 1 \notin go_wr(FALSE, FALSE, FALSE)
    BY <2>5, PickedRequests DEF go_wr, wr_pick
  <2>7. ~st_rel(FALSE, FALSE) /\ ~st_go(FALSE, FALSE)
    BY <2>3 DEF st_rel, st_go
  <2> QED
    BY <2>1, <2>3, <2>4, <2>5, <2>6, <2>7
<1>6. /\ {"opc", "alu", "lod", "wri", "lsd"} \subseteq lat'
      /\ "sto" \notin lat' /\ "rst" \notin lat'
      /\ resets' \subseteq {"upd"}
      /\ ~issued' /\ ~upd_s' /\ oper' = oper
      /\ addr_r' = ea(FALSE, FALSE) /\ addr' = ea(FALSE, FALSE)
      /\ addr_ok' <=> alu_ok
      /\ ~st_rel_1' /\ ~p_st_go'
  BY <1>3, <1>5, UnitRuns DEF Reading, Running
<1>7. busy_o'
  BY <1>6 DEF busy_o, LatchQ
<1>8. op' = op /\ access' = access /\ outcome' = outcome
  BY <1>3, <1>5 DEF Watched, Reading
<1>9. /\ rd_rel' = rd_rel \ delay_pick
      /\ delay_pick' \subseteq rd_rel'
      /\ Collected'
      /\ alu_ok' <=> alu_valid
      /\ alu_valid => /\ alu_valid' /\ alu_o = Ea /\ Ea' = Ea
                      /\ op.ld \/ 3 \notin src_q' \/ 3 \in delay_pick'
      /\ ~op.ld /\ rd_rel' = {} => srl'[3] = op.tag
  BY <1>3, <1>6, <1>7, <1>8, Operands DEF Reading, Running, Base
<1>10. alu_valid => ea(FALSE, FALSE) = Ea /\ Ea' = Ea
  BY <1>5, <1>9 DEF ea
<1>11. /\ wr_pick_1' \subseteq {2} /\ regs'[1] = regs[1]
       /\ Update' /\ (alu_valid => Updated')
       /\ regs'[2] = regs[2] \/ (op.update /\ regs[2] = NoWrite /\ regs'[2] = Ea)
  BY <1>3, <1>5, <1>8, <1>10, UpdateWrite DEF Watched, Reading, Running
<1>12. /\ PortOn' /\ ~st_done' /\ ~st_done_s' /\ ~adrok' /\ ~adrok_s'
       /\ ~reset' /\ ~reset_delay'
  <2>1. L0Clock(FALSE) /\ PortClock(FALSE, lk, sk)
    BY <1>2 DEF PathClock
  <2> QED
    BY <1>8, <2>1, ReadingWires DEF L0Clock, PortClock, PortOn, Reading, NoOutput
<1>13. Base'
  BY <1>2, BaseStep
<1>14. Running'
  BY <1>6, <1>7, <1>8, <1>11, <1>12 DEF Reading, Running
<1>15. ASSUME ~alu_ok
       PROVE  Reading'
  BY <1>6, <1>8, <1>9, <1>11, <1>12, <1>14, <1>15 DEF Reading
<1>16. ASSUME alu_ok
       PROVE  Sending'
  <2>0. rd_rel \subseteq Src
    BY DEF rd_rel, src_q, Base
  <2>1. alu_valid /\ Updated /\ rd_rel \subseteq {3}
    BY <1>16, <2>0 DEF Reading, alu_valid, Src
  <2>2. rd_rel' = {} /\ delay_pick' = {}
    BY <1>9, <1>16, <2>1 DEF Reading, Running, rd_rel, op_is_st
  <2>3. Addressed'
    BY <1>6, <1>8, <1>9, <1>10, <1>11, <1>12, <1>14, <2>1, <2>2 DEF Addressed
  <2>4. Sending'
    BY <1>6, <1>8, <1>11, <1>12, <1>16, <2>3 DEF Sending, Reading
  <2> QED
    BY <2>4
<1>17. MemReady'
  BY <1>1, <1>8 DEF MemReady, MemIdle
<1>18. MemOpStep
  BY <1>8, <1>11, <1>13, OpProgresses DEF Reading, Running, Base
<1> QED
  BY <1>13, <1>15, <1>16, <1>17, <1>18

\* The address goes out, and with it the data of a store.
LEMMA SendingWires ==
    ASSUME Sending
    PROVE  /\ l0_q /\ ~adrok_q /\ ~st_done_q /\ addr_ok_o
           /\ ld_active_q <=> op.ld
           /\ st_active_q <=> ~op.ld
           /\ lds <=> op.ld
           /\ sts <=> ~op.ld
           /\ set_rd_addr <=> op.ld
           /\ set_wr_addr <=> ~op.ld
           /\ \A exc \in BOOLEAN : /\ set_wr_data(exc) <=> ~op.ld /\ ~exc
                                   /\ busy_q(exc) <=> ~exc
           /\ \A lk \in BOOLEAN : ~ld_data_ok(lk)
           /\ alu_valid /\ rd_done
<1>1. l0_q /\ (lds <=> op.ld) /\ (sts <=> ~op.ld) /\ (op_is_st <=> ~op.ld)
  BY RunningWires DEF Sending, Addressed, Running
<1>2. ~adrok_q /\ ~st_done_q /\ (ld_active_q <=> op.ld) /\ (st_active_q <=> ~op.ld)
  BY <1>1 DEF Sending, Addressed, PortOn, adrok_q, st_done_q, ld_active_q, st_active_q
<1>3. (set_rd_addr <=> op.ld) /\ (set_wr_addr <=> ~op.ld) /\ addr_ok_o
  BY <1>1, <1>2 DEF Sending, set_rd_addr, set_wr_addr, pi_addr_ok, addr_ok_o
<1>4. alu_valid /\ rd_done
  BY DEF Sending, Addressed, Running, alu_valid, rd_done
<1>5. ASSUME NEW exc \in BOOLEAN
      PROVE  /\ set_wr_data(exc) <=> ~op.ld /\ ~exc
             /\ busy_q(exc) <=> ~exc
  <2>1. sto_q(l0_q /\ addr_ok_o) <=> ~op.ld
    BY <1>1, <1>3 DEF sto_q, LatchQ, Sending
  <2>2. st_go(l0_q /\ addr_ok_o, l0_q /\ exc) <=> ~op.ld /\ ~exc
    BY <1>1, <1>4, <2>1 DEF st_go, st_rel, Sending, Addressed, Running
  <2>3. set_wr_data(exc) <=> ~op.ld /\ ~exc
    BY <1>1, <1>2, <2>2 DEF set_wr_data
  <2> QED
    BY <1>1, <2>3 DEF busy_q, Sending, Addressed, PortOn
<1>6. \A lk \in BOOLEAN : ~ld_data_ok(lk)
  BY <1>2 DEF ld_data_ok
<1> QED
  BY <1>1, <1>2, <1>3, <1>4, <1>5, <1>6

\* LoadStore1 is sent the access, and refuses a misaligned load.
LEMMA CacheSends ==
    ASSUME AlignedStores, Sending, MemReady, cached_core, ClockOf(None)
    PROVE  /\ \E data : PathClock(None, op.misalign, FALSE, FALSE, data, None)
           /\ ~walk'
           /\ op.misalign => dcache' = None /\ ~ldst_r'.misalign /\ state' # "ACK_WAIT"
           /\ ~op.misalign =>
                /\ state' = "ACK_WAIT" /\ ldst_r' = OwnRequest
                /\ dcache' = [new |-> TRUE, req |-> OwnRequest,
                              translated |-> FALSE, data |-> Zero]
                /\ ~op.ld => st_data' = op.tag
<1>0. PICK d \in DcacheAnswers, mmu \in MmuAnswers : CacheClock(None, d, mmu)
  BY DEF ClockOf
<1>1. /\ d = "none" /\ mmu = "none" /\ ~done(d) /\ state = "IDLE" /\ ldst_r = NoRequest
      /\ ~d_valid_1 /\ dcache = None /\ ~walk
  BY DEF MemReady, CacheIdle, DcacheAnswers, MmuAnswers, done
<1>2. op.misalign \in BOOLEAN /\ op.ld \in BOOLEAN /\ (op.ld \/ ~op.misalign) /\ oper = op
      /\ oper # None
  BY RunningWires DEF Sending, Addressed, Running, AlignedStores, Op
<1>3. req = [load |-> op.ld, addr |-> Ea, misalign |-> op.misalign]
  <2>1. CASE op.ld
    BY <1>2, <2>1, SendingWires DEF req, Sending, Addressed
  <2>2. CASE ~op.ld
    BY <1>2, <2>2, SendingWires DEF req, Sending, Addressed
  <2> QED
    BY <2>1, <2>2
<1>4. ASSUME NEW e \in BOOLEAN
      PROVE  /\ d_validblip(e) <=> op.ld \/ ~e
             /\ current(e) = IF op.ld \/ ~e THEN req ELSE NoRequest
             /\ exception(e, d, mmu) = (IF op.ld \/ ~e THEN op.misalign ELSE FALSE)
             /\ d_valid(e) <=> op.ld \/ ~e
  <2>1. (d_valid(e) <=> op.ld \/ ~e) /\ (d_validblip(e) <=> op.ld \/ ~e)
    BY <1>1, SendingWires DEF d_valid, d_validblip
  <2>2. current(e) = IF op.ld \/ ~e THEN req ELSE NoRequest
    BY <1>1, <2>1 DEF current
  <2>3. exception(e, d, mmu) = (IF op.ld \/ ~e THEN op.misalign ELSE FALSE)
    <3>1. current(e).misalign = IF op.ld \/ ~e THEN op.misalign ELSE FALSE
      BY <1>3, <2>2 DEF NoRequest
    <3>2. ~fsm_exc(d, mmu)
      BY <1>1 DEF fsm_exc
    <3>3. exception(e, d, mmu) <=> IF op.ld \/ ~e THEN op.misalign ELSE FALSE
      BY <3>1, <3>2 DEF exception
    <3>4. exception(e, d, mmu) \in BOOLEAN
      BY DEF exception
    <3> QED
      BY <1>2, <3>3, <3>4
  <2> QED
    BY <2>1, <2>2, <2>3
<1>5. Exceptions(d, mmu) = {op.misalign}
  BY <1>2, <1>4 DEF Exceptions
<1>6. /\ PathClock(None, op.misalign, done(d), done(d),
                   IF dcache = None THEN <<Zero, Zero>> ELSE dcache.req.addr, None)
      /\ LoadStoreClock(op.misalign, d, mmu) /\ Dcache(op.misalign, d, mmu) /\ Mmu(d, mmu)
  <2>1. PICK exc \in Exceptions(d, mmu) :
            /\ PathClock(None, exc, done(d), done(d),
                 IF dcache = None THEN <<Zero, Zero>> ELSE dcache.req.addr,
                 IF d # "valid" THEN None
                 ELSE [load |-> dcache.req.load, addr |-> dcache.req.addr,
                       data |-> dcache.data])
            /\ LoadStoreClock(exc, d, mmu) /\ Dcache(exc, d, mmu) /\ Mmu(d, mmu)
    BY <1>0 DEF CacheClock
  <2>2. exc = op.misalign /\ d # "valid"
    BY <1>1, <1>5
  <2> QED
    BY <2>1, <2>2
<1>7. done(d) = FALSE
  BY <1>1 DEF done
<1>8. \E data : PathClock(None, op.misalign, FALSE, FALSE, data, None)
  BY <1>6, <1>7
<1>9. ~walk'
  BY <1>1, <1>6 DEF Mmu, mmureq
<1>10. ASSUME op.misalign
       PROVE  dcache' = None /\ ~ldst_r'.misalign /\ state' # "ACK_WAIT"
  <2>1. ldst_r' = NoRequest /\ state' = "IDLE"
    BY <1>1, <1>6, <1>10 DEF LoadStoreClock, LoadStoreIdle, LoadStoreAckWait, LoadStoreMmuLookup
  <2>2. dcache' = None
    BY <1>1, <1>6, <1>10 DEF Dcache, d_out
  <2> QED
    BY <2>1, <2>2 DEF NoRequest
<1>11. ASSUME ~op.misalign
       PROVE  /\ state' = "ACK_WAIT" /\ ldst_r' = OwnRequest
              /\ dcache' = [new |-> TRUE, req |-> OwnRequest,
                            translated |-> FALSE, data |-> Zero]
              /\ ~op.ld => st_data' = op.tag
  <2>0. op.misalign = FALSE
    BY <1>2, <1>11
  <2>1. req = OwnRequest /\ d_validblip(FALSE) /\ current(FALSE) = req
    BY <1>2, <1>3, <1>4, <2>0 DEF OwnRequest
  <2>2. ldst_r' = OwnRequest /\ state' = "ACK_WAIT"
    BY <1>1, <1>6, <2>0, <2>1
       DEF LoadStoreClock, LoadStoreIdle, LoadStoreAckWait, LoadStoreMmuLookup
  <2>3. dcache' = [new |-> TRUE, req |-> OwnRequest, translated |-> FALSE, data |-> Zero]
    BY <1>1, <1>6, <2>0, <2>1 DEF Dcache, d_out
  <2>4. ~op.ld => st_data' = op.tag
    BY <1>6, <2>0, SendingWires DEF LoadStoreClock, Sending, Addressed
  <2> QED
    BY <2>2, <2>3, <2>4
<1> QED
  BY <1>8, <1>9, <1>10, <1>11

\* The bus is sent the access.
LEMMA BusSends ==
    ASSUME Sending, MemReady, ~cached_core, ClockOf(None)
    PROVE  /\ \E data : PathClock(None, FALSE, FALSE, FALSE, data, None)
           /\ lsui' = "BUSY" /\ cyc' /\ valid' /\ ~ack'
           /\ dbus' = [adr |-> Ea, we |-> ~op.ld, dat_w |-> IF op.ld THEN Zero ELSE op.tag]
           /\ cvt' = cvt /\ cvt \in {"NONE", "IDLE"}
           /\ cvt = "NONE" => counter' = 0 /\ cached' = <<NoWord>>
<1>0. PICK ready \in BOOLEAN : WbClock(None, ready)
  BY DEF ClockOf
<1>1. /\ ~valid /\ ~cyc /\ lsui = "IDLE" /\ cvt \in {"NONE", "IDLE"}
      /\ cvt = "NONE" => counter = 0 /\ cached = <<NoWord>>
  BY DEF MemReady, BusIdle, BusRests
<1>2. valid_q /\ lsui_busy /\ ~cvt_stb /\ ~counter_ce /\ ~mack
  BY <1>1, SendingWires DEF valid_q, lsui_busy, cvt_stb, counter_ce, mack
<1>3. ldok = FALSE /\ stok = FALSE
  BY <1>2 DEF ldok, stok
<1>4. /\ PathClock(None, FALSE, ldok, stok, BusData(ld_data), None)
      /\ LsuiClock /\ ConvertClock /\ BusClock /\ MemoryClock(ready)
  BY <1>0, <1>2 DEF WbClock
<1>5. lsui' = "BUSY" /\ valid' /\ cyc' /\ ~ack'
  BY <1>1, <1>2, <1>4, SendingWires DEF LsuiClock, BusClock, MemoryClock
<1>6. cvt' = cvt /\ (cvt = "NONE" => counter' = 0 /\ cached' = <<NoWord>>)
  BY <1>1, <1>2, <1>4 DEF ConvertClock
<1>7. dbus' = [adr |-> Ea, we |-> ~op.ld, dat_w |-> IF op.ld THEN Zero ELSE op.tag]
  <2>1. sts = (~op.ld) /\ addr = Ea /\ (~op.ld => srl[3] = op.tag)
        /\ (set_wr_data(FALSE) <=> ~op.ld)
    <3>1. sts \in BOOLEAN
      BY DEF sts
    <3> QED
      BY <3>1, SendingWires DEF Sending, Addressed
  <2> QED
    BY <1>1, <1>2, <1>4, <2>1, SendingWires DEF BusClock
<1> QED
  BY <1>1, <1>3, <1>4, <1>5, <1>6, <1>7

\* The address is out and the operands are read: what stays so.
LEMMA AddressedRuns ==
    ASSUME Base, Addressed, NEW a \in BOOLEAN, NEW k \in BOOLEAN, NEW b \in BOOLEAN,
           NEW data, NEW perf, UnitClock(None, a, k, data, FALSE, b),
           Watched(a, k, FALSE, b, data, perf), ~done_o(FALSE, a, k, FALSE, b),
           PortOn', ~reset_delay'
    PROVE  /\ Addressed' /\ op' = op /\ outcome' = "run" /\ Ea' = Ea
           /\ regs'[2] = regs[2] /\ 2 \notin go_wr(FALSE, k, FALSE)
           /\ wr_pick_1' = IF Loaded(k) THEN {1} ELSE {}
           /\ 1 \in go_wr(FALSE, k, FALSE) <=> Loaded(k) /\ 1 \notin wr_pick_1
           /\ regs'[1] = IF Loaded(k) /\ 1 \notin wr_pick_1 THEN ldd(k, data) ELSE regs[1]
<1>1. /\ op \in Ops /\ oper = op /\ busy_o /\ outcome = "run" /\ rd_rel = {}
      /\ alu_valid /\ rd_done /\ alu_q(FALSE, FALSE) /\ op_is_ld = op.ld
  <2>1. /\ op \in Ops /\ oper = op /\ busy_o /\ outcome = "run" /\ rd_rel = {}
        /\ alu_valid /\ rd_done /\ alu_q(FALSE, FALSE)
    BY DEF Addressed, Running, alu_valid, rd_done, alu_q
  <2>2. op.ld \in BOOLEAN /\ (op_is_ld <=> op.ld) /\ op_is_ld \in BOOLEAN
    BY <2>1, RunningWires DEF Op, op_is_ld
  <2> QED
    BY <2>1, <2>2
<1>2. wr_rel(FALSE, k, FALSE) = IF Loaded(k) THEN {1} ELSE {}
  BY <1>1, RunningWires DEF wr_rel, Addressed, Updated, Loaded
<1>3. wr_pick(FALSE, k, FALSE) = IF Loaded(k) THEN {1} ELSE {}
  <2>1. Picked({1}, WrPort, WrRank) = {1} /\ Picked({}, WrPort, WrRank) = {}
    BY PickedRequests DEF Dst
  <2> QED
    BY <1>2, <2>1 DEF wr_pick
<1>4. /\ 2 \notin go_wr(FALSE, k, FALSE)
      /\ 1 \in go_wr(FALSE, k, FALSE) <=> Loaded(k) /\ 1 \notin wr_pick_1
  <2>1. \A d : d \in wr_pick(FALSE, k, FALSE) <=> d = 1 /\ Loaded(k)
    BY <1>3
  <2>2. \A d : d \in go_wr(FALSE, k, FALSE) <=> d = 1 /\ Loaded(k) /\ d \notin wr_pick_1
    BY <2>1 DEF go_wr
  <2>3. 2 # 1
    OBVIOUS
  <2>4. 2 \notin go_wr(FALSE, k, FALSE)
    BY <2>2, <2>3, Zenon
  <2>5. 1 \in go_wr(FALSE, k, FALSE) <=> Loaded(k) /\ 1 \notin wr_pick_1
    BY <2>2, Zenon
  <2> QED
    BY <2>4, <2>5
<1>5. /\ ~issued' /\ ~upd_s' /\ oper' = oper
      /\ "opc" \in lat' /\ "opc" \notin resets' /\ "alu" \in lat'
      /\ addr_r' = ea(FALSE, FALSE) /\ addr' = ea(FALSE, FALSE)
      /\ wr_pick_1' = wr_pick(FALSE, k, FALSE)
      /\ "upd" \in lat' <=> LatchQ("upd", upd_s)
  BY <1>1, UnitRuns
<1>6. busy_o'
  BY <1>5 DEF busy_o, LatchQ
<1>7. /\ op' = op /\ outcome' = "run"
      /\ regs'[2] = regs[2]
      /\ regs'[1] = IF Loaded(k) /\ 1 \notin wr_pick_1 THEN ldd(k, data) ELSE regs[1]
  <2>1. op' = op /\ outcome' = outcome
    BY DEF Watched
  <2>2. regs' = [r \in Dst |-> IF r \notin go_wr(FALSE, k, FALSE) THEN regs[r]
                               ELSE IF r = 1 THEN ldd(k, data) ELSE ea(FALSE, FALSE)]
    BY DEF Watched
  <2>3. 1 \in Dst /\ 2 \in Dst
    BY DEF Dst
  <2>4. regs'[2] = regs[2]
    BY <1>4, <2>2, <2>3
  <2>5. regs'[1] = IF Loaded(k) /\ 1 \notin wr_pick_1 THEN ldd(k, data) ELSE regs[1]
    BY <1>4, <2>2, <2>3
  <2> QED
    BY <1>1, <2>1, <2>4, <2>5
<1>8. /\ rd_rel' = {} /\ delay_pick' = {}
      /\ Collected'
      /\ alu_ok'
      /\ alu_o = Ea /\ Ea' = Ea
      /\ ~op.ld => srl'[3] = op.tag
  <2>1. src \subseteq Src /\ delay_pick \subseteq rd_rel /\ Collected
    BY DEF Base, Addressed
  <2>2. /\ rd_rel' = rd_rel \ delay_pick
        /\ delay_pick' \subseteq rd_rel'
        /\ Collected'
        /\ alu_ok' <=> alu_valid
        /\ alu_valid => alu_valid' /\ alu_o = Ea /\ Ea' = Ea
        /\ ~op.ld /\ rd_rel' = {} => srl'[3] = op.tag
    BY <1>1, <1>5, <1>6, <1>7, <2>1, Operands
  <2> QED
    BY <1>1, <2>2
<1>9. Updated'
  <2>1. op.update => ~LatchQ("upd", upd_s) /\ regs[2] = Ea
    BY DEF Addressed, Updated
  <2> QED
    BY <1>5, <1>7, <1>8, <2>1 DEF Updated, LatchQ
<1>10. Running'
  BY <1>1, <1>5, <1>6, <1>7 DEF Running, Addressed
<1>11. ea(FALSE, FALSE) = Ea
  BY <1>1, <1>8 DEF ea
<1>12. Addressed'
  BY <1>5, <1>7, <1>8, <1>9, <1>10, <1>11 DEF Addressed
<1> QED
  BY <1>3, <1>4, <1>5, <1>7, <1>8, <1>12

\* An exception ends the instruction.
LEMMA AddressedFaults ==
    ASSUME Base, Addressed, NEW a \in BOOLEAN, NEW k \in BOOLEAN, NEW b \in BOOLEAN,
           NEW data, UnitClock(None, a, k, data, TRUE, b),
           Watched(a, k, TRUE, b, data, None)
    PROVE  /\ op' = op /\ regs' = regs /\ access' = access /\ outcome' = "fault"
           /\ ~issued' /\ ~Open("opc")' /\ ~Open("sto")'
<1>1. wr_rel(FALSE, k, TRUE) = {}
  BY DEF wr_rel
<1>2. go_wr(FALSE, k, TRUE) = {}
  <2>1. Picked({}, WrPort, WrRank) = {}
    BY PickedRequests
  <2> QED
    BY <1>1, <2>1 DEF go_wr, wr_pick
<1>3. op' = op /\ regs' = regs /\ access' = access /\ outcome' = "fault"
  BY <1>2 DEF Watched, Base, Addressed, Running
<1>4. ~issued' /\ "opc" \in resets' /\ "sto" \in resets'
  <2>1. ~issued'
    BY DEF UnitClock
  <2>2. "opc" \in resets' /\ "sto" \in resets'
    <3> HIDE DEF busy_o, alu_q, lod_q, LatchQ, sto_q, rst_q, done_o, go_wr, wr_reset,
                 st_go, op_is_update
    <3> QED
      BY DEF UnitClock
  <2> QED
    BY <2>1, <2>2
<1> QED
  BY <1>3, <1>4 DEF Open

\* The clock in which the access is sent, without an exception,
LEMMA SendingWaits ==
    ASSUME Base, Sending, NEW data, PathClock(None, FALSE, FALSE, FALSE, data, None),
           ~op.misalign
    PROVE  Base' /\ Waiting' /\ op' = op /\ Ea' = Ea /\ access' = access /\ MemOpStep
<1>1. /\ UnitClock(None, TRUE, FALSE, data, FALSE, TRUE)
      /\ Watched(TRUE, FALSE, FALSE, TRUE, data, None)
  <2>1. Wires(TRUE, FALSE, FALSE, TRUE, FALSE, FALSE)
    BY SendingWires DEF Wires
  <2> QED
    BY <2>1, PathWires
<1>2. /\ op \in Ops /\ oper = op /\ busy_o /\ outcome = "run"
      /\ (op_is_st <=> ~op.ld) /\ (op_is_ld <=> op.ld) /\ ~st_rel_1
  BY RunningWires DEF Sending, Addressed, Running
<1>3. /\ lod_q(FALSE, FALSE, FALSE) /\ LatchQ("lsd", FALSE) /\ LatchQ("wri", FALSE)
      /\ ~Loaded(FALSE)
  BY DEF Sending, lod_q, LatchQ, Loaded
<1>4. /\ sto_q(TRUE) <=> ~op.ld
      /\ st_rel(TRUE, FALSE) <=> ~op.ld
      /\ st_go(TRUE, FALSE) <=> ~op.ld
  <2>1. sto_q(TRUE) <=> ~op.ld
    BY <1>2 DEF sto_q, LatchQ, Sending
  <2>2. st_rel(TRUE, FALSE) <=> ~op.ld
    BY <1>2, <2>1, SendingWires DEF st_rel
  <2> QED
    BY <1>2, <2>1, <2>2 DEF st_go
<1>5. ~wr_reset(FALSE, TRUE, FALSE, FALSE) /\ ~done_o(FALSE, TRUE, FALSE, FALSE, TRUE)
  <2>1. ~wr_reset(FALSE, TRUE, FALSE, FALSE)
    BY <1>2, <1>3, <1>4 DEF wr_reset
  <2> QED
    BY <2>1 DEF done_o
<1>6. /\ PortOn' /\ ~st_done' /\ (st_done_s' <=> ~op.ld) /\ ~adrok' /\ adrok_s'
      /\ ~reset' /\ ~reset_delay'
  <2>1. L0Clock(FALSE) /\ PortClock(FALSE, FALSE, FALSE) /\ op' = op
    BY <1>1 DEF PathClock, Watched
  <2> QED
    BY <2>1, SendingWires DEF L0Clock, PortClock, PortOn, Sending
<1>7. /\ Addressed' /\ op' = op /\ outcome' = "run" /\ Ea' = Ea
      /\ regs'[2] = regs[2] /\ 2 \notin go_wr(FALSE, FALSE, FALSE)
      /\ wr_pick_1' = IF Loaded(FALSE) THEN {1} ELSE {}
      /\ 1 \in go_wr(FALSE, FALSE, FALSE) <=> Loaded(FALSE) /\ 1 \notin wr_pick_1
      /\ regs'[1] = IF Loaded(FALSE) /\ 1 \notin wr_pick_1 THEN ldd(FALSE, data) ELSE regs[1]
  BY <1>1, <1>5, <1>6, AddressedRuns DEF Sending
<1>8. /\ regs'[1] = regs[1] /\ wr_pick_1' = {} /\ 1 \notin go_wr(FALSE, FALSE, FALSE)
      /\ access' = access
  BY <1>1, <1>3, <1>7 DEF Watched
<1>9. /\ {"lod", "wri", "lsd", "rst"} \subseteq lat'
      /\ "sto" \in lat' <=> ~op.ld
      /\ "sto" \in resets' <=> ~op.ld
      /\ "lsd" \in resets' <=> ~op.ld
      /\ resets' \subseteq {"sto", "lsd"}
      /\ p_st_go' <=> ~op.ld
  BY <1>1, <1>3, <1>4, <1>5, <1>7, <1>8, UnitRuns DEF Sending
<1>10. Waiting'
  BY <1>6, <1>7, <1>8, <1>9 DEF Waiting, Sending, Open
<1>11. Base'
  BY BaseStep
<1>12. MemOpStep
  BY <1>2, <1>7, <1>8, <1>11, OpProgresses DEF Base
<1> QED
  BY <1>7, <1>8, <1>10, <1>11, <1>12

\* ... and with one.
LEMMA SendingFaults ==
    ASSUME Base, Sending, NEW data, PathClock(None, TRUE, FALSE, FALSE, data, None),
           cached_core, dcache' = None, ~walk', ~ldst_r'.misalign, state' # "ACK_WAIT"
    PROVE  Base' /\ Faulted' /\ MemOpStep
<1>1. /\ UnitClock(None, TRUE, FALSE, data, TRUE, FALSE)
      /\ Watched(TRUE, FALSE, TRUE, FALSE, data, None)
  <2>1. Wires(TRUE, FALSE, TRUE, FALSE, TRUE, FALSE)
    BY SendingWires DEF Wires
  <2> QED
    BY <2>1, PathWires
<1>2. /\ op' = op /\ regs' = regs /\ access' = access /\ outcome' = "fault"
      /\ ~issued' /\ ~Open("opc")' /\ ~Open("sto")'
  BY <1>1, AddressedFaults DEF Sending
<1>3. l0_reset' /\ adrok_s' /\ ~reset'
  <2>1. L0Clock(TRUE) /\ PortClock(TRUE, FALSE, FALSE)
    BY DEF PathClock
  <2> QED
    BY <2>1, SendingWires DEF L0Clock, PortClock
<1>4. Base' /\ cached_core'
  BY BaseStep
<1>5. Faulted'
  BY <1>2, <1>3, <1>4 DEF Faulted, AddressTaken
<1>6. MemOpStep
  BY <1>2, OpFaults DEF Sending, Addressed, Running
<1> QED
  BY <1>4, <1>5, <1>6

\* ... with what becomes of the memory.
LEMMA SendingRuns ==
    ASSUME AlignedStores, Base, Sending, MemReady, ClockOf(None)
    PROVE  Base' /\ ((Waiting' /\ MemBusy') \/ Faulted') /\ MemOpStep
<1>0. op.misalign \in BOOLEAN /\ op.ld \in BOOLEAN /\ op.tag \in {0, 1}
  BY RunningWires DEF Sending, Addressed, Running, Op
<1>1. CASE cached_core
  <2>1. PICK data : PathClock(None, op.misalign, FALSE, FALSE, data, None)
    BY <1>1, CacheSends
  <2>2. cached_core'
    BY <1>1, <2>1, BaseStep
  <2>3. CASE op.misalign
    <3>1. op.misalign = TRUE
      BY <1>0, <2>3
    <3> QED
      BY <1>1, <2>1, <2>3, <3>1, CacheSends, SendingFaults
  <2>4. CASE ~op.misalign
    <3>1. op.misalign = FALSE
      BY <1>0, <2>4
    <3>2. Base' /\ Waiting' /\ op' = op /\ Ea' = Ea /\ access' = access /\ MemOpStep
      BY <2>1, <2>4, <3>1, SendingWaits
    <3>3. OwnRequest' = OwnRequest
      BY <3>2 DEF OwnRequest
    <3>4. /\ ~walk' /\ state' = "ACK_WAIT" /\ ldst_r' = OwnRequest
          /\ dcache' = [new |-> TRUE, req |-> OwnRequest,
                        translated |-> FALSE, data |-> Zero]
          /\ ~op.ld => st_data' = op.tag
      BY <1>1, <2>4, CacheSends
    <3>5. CacheWait'
      BY <3>2, <3>3, <3>4 DEF CacheWait, Sending, Token
    <3> QED
      BY <2>2, <3>2, <3>5 DEF MemBusy
  <2> QED
    BY <2>3, <2>4
<1>2. CASE ~cached_core
  <2>1. PICK data : PathClock(None, FALSE, FALSE, FALSE, data, None)
    BY <1>2, BusSends
  <2>2. Base' /\ Waiting' /\ op' = op /\ Ea' = Ea /\ access' = access /\ MemOpStep
    BY <1>2, <2>1, SendingWaits DEF MemReady
  <2>3. ~cached_core'
    BY <1>2, <2>1, BaseStep
  <2>4. BusRuns'
    <3>1. /\ lsui' = "BUSY" /\ cyc' /\ valid' /\ ~ack'
          /\ dbus' = [adr |-> Ea, we |-> ~op.ld, dat_w |-> IF op.ld THEN Zero ELSE op.tag]
          /\ cvt' = cvt /\ cvt \in {"NONE", "IDLE"}
          /\ cvt = "NONE" => counter' = 0 /\ cached' = <<NoWord>>
      BY <1>2, BusSends
    <3> QED
      BY <2>2, <3>1 DEF BusRuns, Sending
  <2> QED
    BY <2>2, <2>3, <2>4 DEF MemBusy
<1> QED
  BY <1>1, <1>2

\* While the access is under way neither address nor data goes out again.
LEMMA WaitingWires ==
    ASSUME Waiting
    PROVE  /\ l0_q /\ adrok_q /\ ~set_rd_addr /\ ~addr_ok_o /\ (st_done_q <=> ~op.ld)
           /\ ld_active_q <=> op.ld
           /\ st_active_q <=> ~op.ld
           /\ lds <=> op.ld
           /\ sts <=> ~op.ld
           /\ set_wr_addr => ~op.ld /\ addr_ok
           /\ \A exc \in BOOLEAN : ~set_wr_data(exc) /\ (busy_q(exc) <=> ~exc)
           /\ \A lk \in BOOLEAN : ld_data_ok(lk) <=> op.ld /\ lk
<1>1. l0_q /\ (lds <=> op.ld) /\ (sts <=> ~op.ld) /\ (op_is_st <=> ~op.ld)
  BY RunningWires DEF Waiting, Addressed, Running
<1>2. /\ adrok_q
      /\ st_done_q <=> ~op.ld
      /\ ld_active_q <=> op.ld
      /\ st_active_q <=> ~op.ld
  BY <1>1 DEF Waiting, Addressed, Running, PortOn, adrok_q, st_done_q, ld_active_q, st_active_q
<1>3. ~set_rd_addr /\ ~addr_ok_o /\ (set_wr_addr => ~op.ld /\ addr_ok)
  BY <1>2 DEF set_rd_addr, set_wr_addr, pi_addr_ok, addr_ok_o
<1>4. ASSUME NEW exc \in BOOLEAN
      PROVE  ~set_wr_data(exc) /\ (busy_q(exc) <=> ~exc)
  <2>1. ~sto_q(l0_q /\ addr_ok_o)
    BY <1>1, <1>3 DEF sto_q, LatchQ, Waiting, Open
  <2>2. ~set_wr_data(exc)
    BY <2>1 DEF set_wr_data, st_go, st_rel
  <2> QED
    BY <1>1, <2>2 DEF busy_q, Waiting, Addressed, PortOn
<1>5. \A lk \in BOOLEAN : ld_data_ok(lk) <=> op.ld /\ lk
  BY <1>2 DEF ld_data_ok
<1> QED
  BY <1>1, <1>2, <1>3, <1>4, <1>5

\* The latches of the unit while the access is under way.
LEMMA WaitingUnit ==
    ASSUME Base, Waiting, NEW lk \in BOOLEAN, NEW sk \in BOOLEAN, NEW data, NEW perf,
           PathClock(None, FALSE, lk, sk, data, perf), NEW k \in BOOLEAN,
           k <=> op.ld /\ lk
    PROVE  /\ Watched(FALSE, k, FALSE, TRUE, data, perf)
           /\ Addressed' /\ op' = op /\ outcome' = "run" /\ Ea' = Ea
           /\ regs'[2] = regs[2] /\ regs'[1] = IF k THEN data ELSE NoWrite
           /\ wr_pick_1' = IF k THEN {1} ELSE {}
           /\ "rst" \in lat' /\ ~Open("sto")' /\ "sto" \notin lat' /\ ~p_st_go'
           /\ (~op.ld \/ k) => ~Open("lsd")'
           /\ ~op.ld => ~addr_ok'
           /\ op.ld /\ ~k => {"lod", "wri", "lsd"} \subseteq lat' /\ resets' = {}
           /\ op.ld /\ k => "lod" \notin lat' /\ ~Open("wri")'
           /\ (st_done' <=> ~op.ld) /\ ~st_done_s' /\ adrok' /\ ~adrok_s'
           /\ reset' <=> IF op.ld THEN lk ELSE sk
<1>1. /\ UnitClock(None, FALSE, k, data, FALSE, TRUE)
      /\ Watched(FALSE, k, FALSE, TRUE, data, perf)
  <2>1. Wires(FALSE, k, FALSE, TRUE, FALSE, lk)
    BY WaitingWires DEF Wires
  <2> QED
    BY <2>1, PathWires
<1>2. /\ op \in Ops /\ oper = op /\ busy_o /\ outcome = "run" /\ wr_pick_1 = {}
      /\ (op_is_st <=> ~op.ld) /\ (op_is_ld <=> op.ld) /\ rd_done
      /\ op.ld \in BOOLEAN
  BY RunningWires DEF Waiting, Addressed, Running, Op, rd_done, alu_valid
<1>3. /\ op.ld => /\ LatchQ("lsd", FALSE) /\ LatchQ("wri", FALSE)
                  /\ lod_q(FALSE, k, FALSE) <=> ~k
      /\ ~op.ld => ~LatchQ("lsd", FALSE)
      /\ Loaded(k) <=> k
  BY <1>2 DEF Waiting, lod_q, LatchQ, Loaded, Open
<1>4. ~sto_q(FALSE) /\ ~st_rel(FALSE, FALSE) /\ ~st_go(FALSE, FALSE)
  BY <1>2 DEF sto_q, LatchQ, Waiting, Open, st_rel, st_go
<1>5. /\ ~done_o(FALSE, FALSE, k, FALSE, TRUE)
      /\ op.ld => ~wr_reset(FALSE, FALSE, k, FALSE)
  <2>1. CASE op.ld /\ ~k
    <3>1. ~wr_reset(FALSE, FALSE, k, FALSE)
      BY <1>2, <1>3, <2>1 DEF wr_reset
    <3> QED
      BY <3>1 DEF done_o
  <2>2. CASE op.ld /\ k
    <3>1. 1 \in wr_rel(FALSE, k, FALSE)
      BY <1>2, <1>3, <2>2 DEF wr_rel
    <3>2. ~wr_reset(FALSE, FALSE, k, FALSE)
      BY <3>1 DEF wr_reset
    <3> QED
      BY <3>2 DEF done_o
  <2>3. CASE ~op.ld
    BY <1>2, <2>3 DEF done_o
  <2> QED
    BY <2>1, <2>2, <2>3
<1>6. /\ PortOn' /\ (st_done' <=> ~op.ld) /\ ~st_done_s' /\ adrok' /\ ~adrok_s' /\ ~reset_delay'
      /\ reset' <=> IF op.ld THEN lk ELSE sk
  <2>1. L0Clock(FALSE) /\ PortClock(FALSE, lk, sk) /\ op' = op
    BY <1>1 DEF PathClock, Watched
  <2> QED
    BY <1>2, <2>1, WaitingWires DEF L0Clock, PortClock, PortOn, Waiting
<1>7. /\ Addressed' /\ op' = op /\ outcome' = "run" /\ Ea' = Ea
      /\ regs'[2] = regs[2] /\ 2 \notin go_wr(FALSE, k, FALSE)
      /\ wr_pick_1' = IF Loaded(k) THEN {1} ELSE {}
      /\ 1 \in go_wr(FALSE, k, FALSE) <=> Loaded(k) /\ 1 \notin wr_pick_1
      /\ regs'[1] = IF Loaded(k) /\ 1 \notin wr_pick_1 THEN ldd(k, data) ELSE regs[1]
  BY <1>1, <1>5, <1>6, AddressedRuns DEF Waiting
<1>8. /\ regs'[1] = IF k THEN data ELSE NoWrite
      /\ wr_pick_1' = IF k THEN {1} ELSE {}
      /\ 1 \in go_wr(FALSE, k, FALSE) <=> k
  BY <1>2, <1>3, <1>7 DEF ldd, Waiting
<1>9. /\ "rst" \in lat' /\ "sto" \notin lat' /\ ~p_st_go'
      /\ "lod" \in lat' <=> "lod" \in lat /\ ~k
      /\ "wri" \in lat' <=> LatchQ("wri", FALSE)
      /\ "lsd" \in lat' <=> LatchQ("lsd", FALSE)
      /\ "opc" \notin resets' /\ "upd" \notin resets'
      /\ "wri" \in resets' <=> k \/ wr_reset(FALSE, FALSE, k, FALSE)
      /\ "sto" \in resets' <=> p_st_go
      /\ "lsd" \in resets' <=> p_st_go \/ k
      /\ resets' \subseteq {"opc", "wri", "upd", "sto", "lsd"}
      /\ addr_ok' => LatchQ("lsd", FALSE)
  BY <1>1, <1>4, <1>5, <1>7, <1>8, UnitRuns DEF Waiting
<1>10. /\ ~Open("sto")'
       /\ (~op.ld \/ k) => ~Open("lsd")'
       /\ ~op.ld => ~addr_ok'
       /\ op.ld /\ ~k => {"lod", "wri", "lsd"} \subseteq lat' /\ resets' = {}
       /\ op.ld /\ k => "lod" \notin lat' /\ ~Open("wri")'
  BY <1>3, <1>5, <1>9 DEF Open, Waiting
<1> QED
  BY <1>1, <1>6, <1>7, <1>8, <1>9, <1>10

\* The access of an instruction is none of the placeholders.
LEMMA OwnAccesses ==
    ASSUME op \in Ops
    PROVE  OwnAccess(op) # None
<1>1. OwnAccess(op) \in Performed
  BY LdstAssumption DEF OwnAccess, EffAddr, Performed, Op, Token
<1> QED
  BY <1>1, NoAccess

\* The list of accesses before the first one.
LEMMA EmptyAppend == Len(<<>>) = 0 /\ \A x : Append(<<>>, x) = <<x>>
OBVIOUS

\* The memory has not answered the port.
LEMMA WaitingWaits ==
    ASSUME Base, Waiting, NEW lk \in BOOLEAN, NEW sk \in BOOLEAN, NEW data, NEW perf,
           PathClock(None, FALSE, lk, sk, data, perf), ~(IF op.ld THEN lk ELSE sk),
           perf = None \/ (perf = OwnAccess(op) /\ access = <<>>)
    PROVE  /\ Base' /\ Waiting' /\ op' = op /\ Ea' = Ea /\ MemOpStep
           /\ access' = IF perf = None THEN access ELSE <<OwnAccess(op)>>
           /\ ~op.ld => ~addr_ok'
<1>1. /\ Watched(FALSE, FALSE, FALSE, TRUE, data, perf)
      /\ Addressed' /\ op' = op /\ outcome' = "run" /\ Ea' = Ea
      /\ regs'[2] = regs[2] /\ regs'[1] = NoWrite
      /\ wr_pick_1' = {}
      /\ "rst" \in lat' /\ ~Open("sto")' /\ "sto" \notin lat' /\ ~p_st_go'
      /\ ~op.ld => ~Open("lsd")'
      /\ ~op.ld => ~addr_ok'
      /\ op.ld => {"lod", "wri", "lsd"} \subseteq lat' /\ resets' = {}
      /\ (st_done' <=> ~op.ld) /\ ~st_done_s' /\ adrok' /\ ~adrok_s'
      /\ reset' <=> IF op.ld THEN lk ELSE sk
  <2>1. FALSE <=> op.ld /\ lk
    OBVIOUS
  <2> QED
    BY <2>1, WaitingUnit
<1>2. access' = IF perf = None THEN access ELSE <<OwnAccess(op)>>
  <2>1. access' = IF perf # None /\ Len(access) < 2 THEN Append(access, perf) ELSE access
    BY <1>1 DEF Watched
  <2>2. OwnAccess(op) # None
    BY OwnAccesses DEF Waiting, Addressed, Running
  <2>3. CASE perf = None
    BY <2>1, <2>3
  <2>4. CASE perf = OwnAccess(op) /\ access = <<>>
    BY <2>1, <2>2, <2>4, EmptyAppend
  <2> QED
    BY <2>3, <2>4
<1>3. Waiting'
  BY <1>1 DEF Waiting
<1>4. Base'
  BY BaseStep
<1>5. MemOpStep
  BY <1>1, <1>2, <1>4, OpProgresses DEF Base, Waiting, Addressed, Running
<1> QED
  BY <1>1, <1>2, <1>3, <1>4, <1>5

\* The memory answers: the loaded value is written, the access has been made.
LEMMA WaitingEnds ==
    ASSUME Base, Waiting, NEW lk \in BOOLEAN, NEW sk \in BOOLEAN, NEW data, NEW perf,
           PathClock(None, FALSE, lk, sk, data, perf), IF op.ld THEN lk ELSE sk,
           op.ld => data = Ea,
           \/ perf = None /\ access = <<OwnAccess(op)>>
           \/ perf = OwnAccess(op) /\ access = <<>>
    PROVE  Base' /\ Completing' /\ MemOpStep
<1>0. PICK k \in BOOLEAN : k <=> op.ld /\ lk
  <2>1. (op.ld /\ lk) \in BOOLEAN
    OBVIOUS
  <2> QED
    BY <2>1
<1>1. /\ Watched(FALSE, k, FALSE, TRUE, data, perf)
      /\ Addressed' /\ op' = op /\ outcome' = "run" /\ Ea' = Ea
      /\ regs'[2] = regs[2] /\ regs'[1] = IF k THEN data ELSE NoWrite
      /\ "rst" \in lat' /\ ~Open("sto")' /\ ~p_st_go'
      /\ (~op.ld \/ k) => ~Open("lsd")'
      /\ op.ld /\ k => "lod" \notin lat' /\ ~Open("wri")'
      /\ ~st_done_s' /\ ~adrok_s'
      /\ reset' <=> IF op.ld THEN lk ELSE sk
  BY <1>0, WaitingUnit
<1>2. access' = <<OwnAccess(op)>>
  <2>1. access' = IF perf # None /\ Len(access) < 2 THEN Append(access, perf) ELSE access
    BY <1>1 DEF Watched
  <2>2. OwnAccess(op) # None
    BY OwnAccesses DEF Waiting, Addressed, Running
  <2>3. CASE perf = None /\ access = <<OwnAccess(op)>>
    BY <2>1, <2>3
  <2>4. CASE perf = OwnAccess(op) /\ access = <<>>
    BY <2>1, <2>2, <2>4, EmptyAppend
  <2> QED
    BY <2>3, <2>4
<1>3. OwnAccess(op') = OwnAccess(op)
  BY <1>1
<1>4. Completing'
  BY <1>0, <1>1, <1>2, <1>3 DEF Completing
<1>5. Base'
  BY BaseStep
<1>6. MemOpStep
  <2>1. \/ regs'[1] = regs[1]
        \/ op.ld /\ regs[1] = NoWrite /\ regs'[1] = Ea /\ access' # <<>>
    BY <1>0, <1>1, <1>2 DEF Waiting
  <2>2. access' = access \/ (access = <<>> /\ access' = <<OwnAccess(op)>>)
    BY <1>2
  <2> QED
    BY <1>1, <1>5, <2>1, <2>2, OpProgresses DEF Base, Waiting, Addressed, Running
<1> QED
  BY <1>4, <1>5, <1>6

\* The memory refuses the access.
LEMMA WaitingFaults ==
    ASSUME Base, Waiting, NEW data, PathClock(None, TRUE, FALSE, FALSE, data, None),
           access = <<>>, cached_core, dcache' = None, ~walk', ~ldst_r'.misalign,
           state' # "ACK_WAIT"
    PROVE  Base' /\ Faulted' /\ MemOpStep
<1>1. /\ UnitClock(None, FALSE, FALSE, data, TRUE, FALSE)
      /\ Watched(FALSE, FALSE, TRUE, FALSE, data, None)
  <2>1. Wires(FALSE, FALSE, TRUE, FALSE, TRUE, FALSE)
    BY WaitingWires DEF Wires
  <2> QED
    BY <2>1, PathWires
<1>2. /\ op' = op /\ regs' = regs /\ access' = access /\ outcome' = "fault"
      /\ ~issued' /\ ~Open("opc")' /\ ~Open("sto")'
  BY <1>1, AddressedFaults DEF Waiting
<1>3. l0_reset' /\ adrok' /\ ~reset' /\ ~reset_delay'
  <2>1. L0Clock(TRUE) /\ PortClock(TRUE, FALSE, FALSE)
    BY DEF PathClock
  <2> QED
    BY <2>1, WaitingWires DEF L0Clock, PortClock, Waiting
<1>4. Base' /\ cached_core'
  BY BaseStep
<1>5. Faulted'
  BY <1>2, <1>3, <1>4 DEF Faulted, AddressTaken
<1>6. MemOpStep
  BY <1>2, OpFaults DEF Waiting, Addressed, Running
<1> QED
  BY <1>4, <1>5, <1>6

\* In the clock after the answer the port clears itself.
LEMMA CompletingWires ==
    ASSUME Completing
    PROVE  /\ l0_q /\ NoOutput /\ ~addr_ok_o /\ ~adrok_q /\ ~st_done_q /\ ~busy_q(FALSE)
           /\ ~ld_active_q /\ ~st_active_q /\ \A lk \in BOOLEAN : ~ld_data_ok(lk)
<1>1. l0_q /\ (lds <=> op.ld) /\ (sts <=> ~op.ld)
  BY RunningWires DEF Completing, Addressed, Running
<1>2. ~ld_active_q /\ ~st_active_q /\ ~adrok_q /\ ~st_done_q /\ ~busy_q(FALSE)
  BY <1>1 DEF Completing, Addressed, PortOn, ld_active_q, st_active_q, adrok_q,
       st_done_q, busy_q
<1>3. ~set_rd_addr /\ ~set_wr_addr /\ ~addr_ok_o /\ \A lk \in BOOLEAN : ~ld_data_ok(lk)
  BY <1>2 DEF set_rd_addr, set_wr_addr, addr_ok_o, ld_data_ok
<1>4. \A exc \in BOOLEAN : ~set_wr_data(exc)
  BY <1>2 DEF set_wr_data
<1> QED
  BY <1>1, <1>2, <1>3, <1>4 DEF NoOutput

\* ... and the unit is done.
LEMMA CompletingRuns ==
    ASSUME Base, Completing, MemIdle, cached_core \/ lsui = "WAITDEASSERT", ClockOf(None)
    PROVE  Base' /\ Idling' /\ MemOpStep
<1>1. /\ \E lk, sk \in BOOLEAN : \E data : PathClock(None, FALSE, lk, sk, data, None)
      /\ cached_core' = cached_core /\ MemIdle'
      /\ ~cached_core => lsui' \in {"IDLE", "WAITDEASSERT"}
  BY CompletingWires, MemoryIdles
<1>1a. PICK lk \in BOOLEAN, sk \in BOOLEAN : \E data : PathClock(None, FALSE, lk, sk, data, None)
  BY <1>1
<1>2. PICK data : PathClock(None, FALSE, lk, sk, data, None)
  BY <1>1a
<1>3. /\ UnitClock(None, FALSE, FALSE, data, FALSE, FALSE)
      /\ Watched(FALSE, FALSE, FALSE, FALSE, data, None)
  <2>1. Wires(FALSE, FALSE, FALSE, FALSE, FALSE, lk)
    BY CompletingWires DEF Wires
  <2> QED
    BY <1>2, <2>1, PathWires
<1>4. /\ op \in Ops /\ oper = op /\ busy_o /\ outcome = "run"
      /\ (op_is_st <=> ~op.ld) /\ (op_is_ld <=> op.ld) /\ rd_rel = {}
      /\ (op_is_update <=> op.update)
      /\ ~sto_q(FALSE) /\ ~LatchQ("lsd", FALSE) /\ ~Loaded(FALSE)
      /\ op.ld => ~lod_q(FALSE, FALSE, FALSE)
  BY RunningWires
     DEF Completing, Addressed, Running, sto_q, LatchQ, Open, Loaded, lod_q
<1>5. wr_rel(FALSE, FALSE, FALSE) = {}
  BY <1>4 DEF wr_rel, Completing, Addressed, Updated, Loaded
<1>6. /\ done_o(FALSE, FALSE, FALSE, FALSE, FALSE) /\ go_wr(FALSE, FALSE, FALSE) = {}
      /\ ~st_go(FALSE, FALSE)
  <2>1. ~st_rel(FALSE, FALSE)
    BY <1>4 DEF st_rel
  <2>2. wr_reset(FALSE, FALSE, FALSE, FALSE)
    BY <1>4, <1>5, <2>1 DEF wr_reset, rst_q, Completing
  <2>3. Picked({}, WrPort, WrRank) = {}
    BY PickedRequests
  <2> QED
    BY <1>5, <2>1, <2>2, <2>3 DEF done_o, go_wr, wr_pick, st_go
<1>7. op' = op /\ regs' = regs /\ access' = access /\ outcome' = "done"
  BY <1>3, <1>4, <1>6 DEF Watched, Base
<1>8. /\ ~issued' /\ "opc" \in resets' /\ oper' = None
      /\ "sto" \notin lat' /\ "lsd" \notin lat' /\ ~addr_ok' /\ ~p_st_go'
  BY <1>3, <1>4, <1>6, UnitRuns
<1>9. delay_pick' = {}
  <2>1. delay_pick' = Picked(rd_rel \ delay_pick, RdPort, RdRank)
    BY <1>3, UnitRegisters
  <2> QED
    BY <1>4, <2>1, PickedRequests
<1>10. /\ l0_reset' /\ ~ld_active' /\ ~st_active' /\ ~st_done' /\ ~st_done_s' /\ ~adrok'
       /\ ~adrok_s' /\ ~busy' /\ ~reset'
  <2>1. L0Clock(FALSE) /\ PortClock(FALSE, lk, sk)
    BY <1>2 DEF PathClock
  <2> QED
    BY <2>1, CompletingWires DEF L0Clock, PortClock, NoOutput
<1>11. idle' = 0
  BY <1>2, <1>4 DEF PathClock
<1>12. Quiet'
  BY <1>7, <1>8, <1>9, <1>10, <1>11 DEF Quiet, Open
<1>13. Idling'
  BY <1>1, <1>11, <1>12 DEF Idling
<1>14. Base'
  BY <1>2, BaseStep
<1>15. MemOpStep
  BY <1>4, <1>7, OpFinishes DEF Completing, Addressed, Updated
<1> QED
  BY <1>13, <1>14, <1>15

-----------------------------------------------------------------------------
(* The memory while the unit waits for it.                                 *)

\* What is in the D-cache is the instruction's own request.
LEMMA CacheWaitTypes ==
    ASSUME Waiting, CacheWait
    PROVE  /\ op \in Ops /\ op.ld \in BOOLEAN /\ op.tag \in {0, 1} /\ OwnRequest \in Request
           /\ ~ldst_r.misalign
           /\ ~walk => /\ dcache # None /\ dcache.req = OwnRequest
                       /\ dcache.new \in BOOLEAN /\ dcache.translated \in BOOLEAN
                       /\ dcache = [new |-> dcache.new, req |-> OwnRequest,
                                    translated |-> dcache.translated, data |-> dcache.data]
                       /\ dcache.data \in Token
<1>1. op \in Ops /\ op.ld \in BOOLEAN /\ op.tag \in {0, 1}
  BY RunningWires DEF Waiting, Addressed, Running, Op
<1>2. OwnRequest \in Request
  BY <1>1 DEF OwnRequest, Request, Ea, EffAddr, Token
<1>3. ~ldst_r.misalign
  <2>1. ~OwnRequest.misalign /\ ~NoRequest.misalign
    BY DEF OwnRequest, NoRequest
  <2>2. ldst_r \in {OwnRequest, NoRequest}
    BY DEF CacheWait
  <2> QED
    BY <2>1, <2>2
<1>4. ASSUME ~walk
      PROVE  /\ dcache # None /\ dcache.req = OwnRequest
             /\ dcache.new \in BOOLEAN /\ dcache.translated \in BOOLEAN
             /\ dcache = [new |-> dcache.new, req |-> OwnRequest,
                          translated |-> dcache.translated, data |-> dcache.data]
             /\ dcache.data \in Token
  <2>1. dcache \in [new : BOOLEAN, req : {OwnRequest}, translated : BOOLEAN, data : Token]
    BY <1>4 DEF CacheWait
  <2>2. dcache \in InDcache
    BY <1>2, <2>1 DEF InDcache
  <2> QED
    BY <2>1, <2>2, NoAccess
<1> QED
  BY <1>1, <1>2, <1>3, <1>4

\* A clock of LoadStore1 while it waits: no new request, and the exception is what
\* the D-cache or the MMU says.
LEMMA CacheWaitClock ==
    ASSUME Waiting, CacheWait, NEW d \in DcacheAnswers, NEW mmu \in MmuAnswers,
           CacheClock(None, d, mmu)
    PROVE  LET fails == fsm_exc(d, mmu)
           IN  /\ PathClock(None, fails, done(d), done(d),
                            IF dcache = None THEN <<Zero, Zero>> ELSE dcache.req.addr,
                            IF d # "valid" THEN None
                            ELSE [load |-> dcache.req.load, addr |-> dcache.req.addr,
                                  data |-> dcache.data])
               /\ LoadStoreClock(fails, d, mmu) /\ Mmu(d, mmu)
               /\ dcache' = IF state = "MMU_LOOKUP" /\ mmu = "done" /\ ~fails
                              THEN [new |-> TRUE, req |-> ldst_r,
                                    translated |-> TRUE, data |-> Zero]
                            ELSE IF d # "none" THEN None
                            ELSE IF dcache # None /\ dcache.new
                              THEN [dcache EXCEPT !.new = FALSE,
                                      !.data = IF dcache.req.load THEN Zero ELSE st_data]
                            ELSE dcache
               /\ ~d_validblip(fails)
               /\ st_data' = st_data
<1> DEFINE fails == fsm_exc(d, mmu)
<1>1. fails \in BOOLEAN
  BY DEF fsm_exc
<1>2. ASSUME NEW e \in BOOLEAN
      PROVE  /\ ~d_valid(e) /\ ~d_validblip(e) /\ current(e) = ldst_r
             /\ exception(e, d, mmu) = fails
  <2>1. ~d_valid(e) /\ ~d_validblip(e) /\ current(e) = ldst_r
    BY WaitingWires DEF d_valid, d_validblip, current
  <2>2. exception(e, d, mmu) <=> fails
    BY <2>1, CacheWaitTypes DEF exception
  <2>3. exception(e, d, mmu) \in BOOLEAN
    BY DEF exception
  <2> HIDE DEF fails
  <2> QED
    BY <1>1, <2>1, <2>2, <2>3
<1> HIDE DEF fails
<1>3. Exceptions(d, mmu) = {fails}
  BY <1>1, <1>2 DEF Exceptions
<1>4. /\ PathClock(None, fails, done(d), done(d),
                   IF dcache = None THEN <<Zero, Zero>> ELSE dcache.req.addr,
                   IF d # "valid" THEN None
                   ELSE [load |-> dcache.req.load, addr |-> dcache.req.addr,
                         data |-> dcache.data])
      /\ LoadStoreClock(fails, d, mmu) /\ Dcache(fails, d, mmu) /\ Mmu(d, mmu)
  BY <1>3 DEF CacheClock
<1>5. dcache' = IF state = "MMU_LOOKUP" /\ mmu = "done" /\ ~fails
                  THEN [new |-> TRUE, req |-> ldst_r, translated |-> TRUE, data |-> Zero]
                ELSE IF d # "none" THEN None
                ELSE IF dcache # None /\ dcache.new
                  THEN [dcache EXCEPT !.new = FALSE,
                                      !.data = IF dcache.req.load THEN Zero ELSE st_data]
                ELSE dcache
  BY <1>1, <1>2, <1>4 DEF Dcache, d_out
<1>6. st_data' = st_data
  BY <1>1, <1>4, WaitingWires DEF LoadStoreClock
<1> QED
  BY <1>1, <1>2, <1>4, <1>5, <1>6 DEF fails

\* The MMU walks: it finds the translation, and the access is sent again, or fails.
LEMMA WalkWaits ==
    ASSUME Base, Waiting, CacheWait, cached_core, walk, ClockOf(None)
    PROVE  /\ Base' /\ MemOpStep
           /\ (Waiting' /\ CacheWait' /\ cached_core') \/ Faulted'
<1>0. PICK d \in DcacheAnswers, mmu \in MmuAnswers : CacheClock(None, d, mmu)
  BY DEF ClockOf
<1>1. /\ d = "none" /\ dcache = None /\ state = "MMU_LOOKUP" /\ ldst_r = OwnRequest
      /\ access = <<>> /\ mmu \in {"none", "done", "err"}
      /\ ~op.ld => st_data = op.tag
  BY DEF CacheWait, DcacheAnswers, MmuAnswers
<1>2. fsm_exc(d, mmu) = (mmu = "err") /\ done(d) = FALSE
  BY <1>1 DEF fsm_exc, done
<1>3. /\ PathClock(None, mmu = "err", FALSE, FALSE, <<Zero, Zero>>, None)
      /\ LoadStoreClock(mmu = "err", d, mmu) /\ Mmu(d, mmu) /\ st_data' = st_data
      /\ dcache' = IF mmu = "done"
                     THEN [new |-> TRUE, req |-> ldst_r, translated |-> TRUE, data |-> Zero]
                   ELSE None
  BY <1>0, <1>1, <1>2, CacheWaitClock
<1>4. /\ state' = IF mmu = "done" THEN "ACK_WAIT" ELSE "MMU_LOOKUP"
      /\ ldst_r' = IF mmu = "done" THEN NoRequest ELSE ldst_r
      /\ walk' <=> mmu = "none"
  BY <1>1, <1>3 DEF LoadStoreClock, LoadStoreIdle, LoadStoreAckWait, LoadStoreMmuLookup,
       Mmu, mmureq
<1>5. CASE mmu = "err"
  <2>1. PathClock(None, TRUE, FALSE, FALSE, <<Zero, Zero>>, None)
    BY <1>3, <1>5
  <2>2. dcache' = None /\ ~walk' /\ ~ldst_r'.misalign /\ state' # "ACK_WAIT"
    BY <1>1, <1>3, <1>4, <1>5 DEF OwnRequest
  <2> QED
    BY <1>1, <2>1, <2>2, WaitingFaults
<1>6. CASE mmu # "err"
  <2>1. PathClock(None, FALSE, FALSE, FALSE, <<Zero, Zero>>, None)
    BY <1>3, <1>6
  <2>2. Base' /\ Waiting' /\ op' = op /\ Ea' = Ea /\ MemOpStep /\ access' = access
    BY <2>1, WaitingWaits
  <2>3. OwnRequest' = OwnRequest
    BY <2>2 DEF OwnRequest
  <2>4. cached_core'
    BY <2>1, BaseStep
  <2>5. CacheWait'
    <3>1. CASE mmu = "none"
      BY <1>1, <1>3, <1>4, <2>2, <2>3, <3>1 DEF CacheWait
    <3>2. CASE mmu = "done"
      BY <1>1, <1>3, <1>4, <2>2, <2>3, <3>2 DEF CacheWait, Token
    <3> QED
      BY <1>1, <1>6, <3>1, <3>2
  <2> QED
    BY <2>2, <2>4, <2>5
<1> QED
  BY <1>5, <1>6

\* The D-cache has the request: it answers, misses, refuses or takes its time.
LEMMA AckWaits ==
    ASSUME Base, Waiting, CacheWait, cached_core, ~walk, ClockOf(None)
    PROVE  /\ Base' /\ MemOpStep
           /\ \/ Waiting' /\ CacheWait' /\ cached_core'
              \/ Completing' /\ CacheIdle' /\ cached_core'
              \/ Faulted'
<1>0. PICK d \in DcacheAnswers, mmu \in MmuAnswers : CacheClock(None, d, mmu)
  BY DEF ClockOf
<1> DEFINE perf == IF d # "valid" THEN None
                   ELSE [load |-> dcache.req.load, addr |-> dcache.req.addr,
                         data |-> dcache.data]
<1>1. /\ op \in Ops /\ op.ld \in BOOLEAN /\ op.tag \in {0, 1}
      /\ dcache # None /\ dcache.req = OwnRequest /\ OwnRequest.addr = Ea
      /\ OwnRequest.load = op.ld /\ ~OwnRequest.misalign
      /\ dcache.new \in BOOLEAN /\ dcache.translated \in BOOLEAN /\ dcache.data \in Token
      /\ dcache = [new |-> dcache.new, req |-> OwnRequest,
                   translated |-> dcache.translated, data |-> dcache.data]
      /\ ~ldst_r.misalign
  BY CacheWaitTypes DEF OwnRequest
<1>2. /\ mmu = "none" /\ d \in {"none", "valid", "paradox", "error"}
      /\ state = "ACK_WAIT" /\ access = <<>>
      /\ d # "none" => ~dcache.new
      /\ d = "error" => ~dcache.translated
      /\ ~op.ld => st_data = op.tag
      /\ IF op.ld THEN dcache.data = Zero ELSE dcache.new \/ dcache.data = op.tag
      /\ IF dcache.translated THEN ldst_r \in {NoRequest, OwnRequest} ELSE ldst_r = OwnRequest
  BY <1>1 DEF CacheWait, DcacheAnswers, MmuAnswers
<1>3. fsm_exc(d, mmu) = (d = "paradox") /\ done(d) = (d = "valid")
  BY <1>2 DEF fsm_exc, done
<1>4. /\ PathClock(None, d = "paradox", d = "valid", d = "valid", Ea, perf)
      /\ LoadStoreClock(d = "paradox", d, mmu) /\ Mmu(d, mmu) /\ st_data' = st_data
      /\ dcache' = IF d # "none" THEN None
                   ELSE IF dcache.new
                     THEN [dcache EXCEPT !.new = FALSE,
                             !.data = IF dcache.req.load THEN Zero ELSE st_data]
                   ELSE dcache
  <2>1. (IF dcache = None THEN <<Zero, Zero>> ELSE dcache.req.addr) = Ea
    BY <1>1
  <2> QED
    BY <1>0, <1>1, <1>2, <1>3, <2>1, CacheWaitClock
<1>5. /\ state' = CASE d = "error" -> "MMU_LOOKUP"
                    [] d \in {"valid", "paradox"} -> "IDLE"
                    [] OTHER -> "ACK_WAIT"
      /\ ldst_r' = IF d \in {"valid", "paradox"} THEN NoRequest ELSE ldst_r
      /\ walk' <=> d = "error"
  BY <1>2, <1>4 DEF LoadStoreClock, LoadStoreIdle, LoadStoreAckWait, LoadStoreMmuLookup,
       Mmu, mmureq
<1>6. cached_core'
  BY <1>4, BaseStep
<1>7. ASSUME d = "valid"
      PROVE  Base' /\ MemOpStep /\ Completing' /\ CacheIdle'
  <2>1. perf = OwnAccess(op)
    BY <1>1, <1>2, <1>7 DEF OwnAccess, Ea
  <2>2. PathClock(None, FALSE, TRUE, TRUE, Ea, OwnAccess(op))
    BY <1>4, <1>7, <2>1
  <2>3. CacheIdle'
    BY <1>4, <1>5, <1>7 DEF CacheIdle
  <2> QED
    BY <1>2, <2>2, <2>3, WaitingEnds
<1>8. ASSUME d = "paradox"
      PROVE  Base' /\ MemOpStep /\ Faulted'
  <2>1. PathClock(None, TRUE, FALSE, FALSE, Ea, None)
    BY <1>4, <1>8
  <2>2. dcache' = None /\ ~walk' /\ ~ldst_r'.misalign /\ state' # "ACK_WAIT"
    BY <1>4, <1>5, <1>8 DEF NoRequest
  <2> QED
    BY <1>2, <2>1, <2>2, WaitingFaults
<1>9. ASSUME d \in {"none", "error"}
      PROVE  Base' /\ MemOpStep /\ Waiting' /\ CacheWait'
  <2>1. PathClock(None, FALSE, FALSE, FALSE, Ea, None)
    BY <1>4, <1>9
  <2>2. Base' /\ Waiting' /\ op' = op /\ Ea' = Ea /\ MemOpStep /\ access' = access
    BY <2>1, WaitingWaits
  <2>3. OwnRequest' = OwnRequest
    BY <2>2 DEF OwnRequest
  <2>4. CacheWait'
    <3>1. CASE d = "error"
      BY <1>2, <1>4, <1>5, <2>2, <2>3, <3>1 DEF CacheWait
    <3>2. CASE d = "none" /\ ~dcache.new
      BY <1>1, <1>2, <1>4, <1>5, <2>2, <2>3, <3>2 DEF CacheWait
    <3>3. CASE d = "none" /\ dcache.new
      <4>1. dcache' = [new |-> FALSE, req |-> OwnRequest, translated |-> dcache.translated,
                       data |-> IF op.ld THEN Zero ELSE op.tag]
        BY <1>1, <1>2, <1>4, <3>3
      <4>2. (IF op.ld THEN Zero ELSE op.tag) \in Token
        BY <1>1 DEF Token
      <4> QED
        BY <1>1, <1>2, <1>4, <1>5, <2>2, <2>3, <3>3, <4>1, <4>2 DEF CacheWait
    <3> QED
      BY <1>9, <3>1, <3>2, <3>3
  <2> QED
    BY <2>2, <2>4
<1> QED
  BY <1>2, <1>6, <1>7, <1>8, <1>9

-----------------------------------------------------------------------------
\* The converter's register takes a word in at its end.
LEMMA OneShifted ==
    ASSUME NEW u, NEW w
    PROVE  Append(Tail(<<u>>), w) = <<w>>
<1>1. Tail(<<u>>) = <<>> /\ Append(<<>>, w) = <<w>>
  OBVIOUS
<1> QED
  BY <1>1

\* ... of two words.
LEMMA TwoShifted ==
    ASSUME NEW u, NEW v, NEW w
    PROVE  Append(Tail(<<u, v>>), w) = <<v, w>>
<1> DEFINE S == {u, v, w}
<1>2. Tail(<<u, v>>) = <<v>>
  <2>1. <<u, v>> \in Seq(S) /\ <<v>> \in Seq(S) /\ Len(<<v>>) = 1
    OBVIOUS
  <2>2. Tail(<<u, v>>) \in Seq(S) /\ Len(Tail(<<u, v>>)) = 1
    BY <2>1
  <2>3. Tail(<<u, v>>)[1] = v
    BY <2>1
  <2> QED
    BY <2>1, <2>2, <2>3
<1>3. Append(<<v>>, w) = <<v, w>>
  <2>1. <<v>> \in Seq(S) /\ Len(<<v>>) = 1
    OBVIOUS
  <2>2. /\ Append(<<v>>, w) \in Seq(S) /\ Len(Append(<<v>>, w)) = 2
        /\ Append(<<v>>, w)[1] = v /\ Append(<<v>>, w)[2] = w
    BY <2>1
  <2>3. ASSUME NEW s \in Seq(S), Len(s) = 2 PROVE s = <<s[1], s[2]>>
    BY <2>3
  <2> QED
    BY <2>2, <2>3
<1> QED
  BY <1>2, <1>3

\* A clock of the bus cycle; the access is made when the last word is acknowledged.
LEMMA BusMoves ==
    ASSUME Base, Waiting, BusRuns, ~cached_core, NEW ready \in BOOLEAN, WbClock(None, ready)
    PROVE  /\ PathClock(None, FALSE, FALSE, FALSE, BusData(ld_data),
                        IF mack THEN OwnAccess(op) ELSE None)
           /\ mack \in BOOLEAN
           /\ lsui' = "BUSY" /\ valid' /\ cyc_1' /\ dbus' = dbus /\ (cyc' <=> ~mack)
           /\ ld_data' = IF mack THEN shift_reg ELSE ld_data
           /\ ConvertClock /\ MemoryClock(ready) /\ op.ld \in BOOLEAN
<1>1. valid_q /\ lsui_busy
  BY DEF BusRuns, valid_q, lsui_busy
<1>2. ldok = FALSE /\ stok = FALSE
  BY <1>1 DEF ldok, stok
<1>3. op.ld \in BOOLEAN
  BY RunningWires DEF Waiting, Addressed, Running, Op
<1>4. [load |-> ~dbus.we, addr |-> dbus.adr, data |-> dbus.dat_w] = OwnAccess(op)
  <2>1. (~dbus.we) = op.ld /\ dbus.adr = Ea /\ dbus.dat_w = IF op.ld THEN Zero ELSE op.tag
    BY <1>3 DEF BusRuns
  <2> QED
    BY <2>1 DEF OwnAccess, Ea
<1>5. mack \in BOOLEAN
  BY DEF mack, counter_ce, cvt_stb
<1>6. PathClock(None, FALSE, FALSE, FALSE, BusData(ld_data),
                IF mack THEN OwnAccess(op) ELSE None)
  <2>1. PathClock(None, FALSE, ldok, stok, BusData(ld_data),
                  IF ~mack THEN None
                  ELSE [load |-> ~dbus.we, addr |-> dbus.adr, data |-> dbus.dat_w])
    BY DEF WbClock
  <2>2. (IF ~mack THEN None
         ELSE [load |-> ~dbus.we, addr |-> dbus.adr, data |-> dbus.dat_w])
        = IF mack THEN OwnAccess(op) ELSE None
    BY <1>4
  <2> QED
    BY <1>2, <2>1, <2>2
<1>7. /\ lsui' = "BUSY" /\ valid' /\ cyc_1' /\ dbus' = dbus /\ (cyc' <=> ~mack)
      /\ ld_data' = IF mack THEN shift_reg ELSE ld_data
      /\ ConvertClock /\ MemoryClock(ready)
  BY <1>1 DEF WbClock, LsuiClock, BusClock, BusRuns
<1> QED
  BY <1>3, <1>5, <1>6, <1>7

\* The converter and the memory while the cycle goes on.
LEMMA BusConverts ==
    ASSUME BusRuns, ConvertClock, NEW ready \in BOOLEAN, MemoryClock(ready), ~mack,
           op.ld \in BOOLEAN
    PROVE  /\ cvt' \in {"NONE", IF op.ld THEN "READ" ELSE "WRITE"}
           /\ cvt' = "NONE" => counter' = 0 /\ cached' = <<NoWord>>
           /\ cvt' \in {"READ", "WRITE"} => counter' \in 0 .. 1
           /\ cvt' = "READ" =>
                 cached' = <<NoWord, IF counter' = 0 THEN NoWord ELSE [half |-> 0, adr |-> Ea]>>
           /\ ack' => dat_r' = [half |-> counter', adr |-> Ea]
<1>1. dbus.adr = Ea /\ dbus.we = (~op.ld) /\ cyc
  BY DEF BusRuns
<1>2. CASE cvt = "NONE"
  <2>1. Ratio = 1 /\ counter = 0 /\ cached = <<NoWord>> /\ cvt_stb
    BY <1>1, <1>2 DEF Ratio, BusRuns, cvt_stb
  <2>2. ~counter_ce /\ ~ack
    BY <2>1 DEF mack, counter_ce
  <2>3. cvt' = "NONE" /\ counter' = 0 /\ cached' = cached
    BY <1>2, <2>1, <2>2 DEF ConvertClock
  <2> QED
    BY <1>1, <2>1, <2>3 DEF MemoryClock
<1>3. CASE cvt = "IDLE"
  <2>1. Ratio = 2 /\ ~cvt_stb /\ ~counter_ce
    BY <1>3 DEF Ratio, cvt_stb, counter_ce
  <2>2. [n \in 1 .. 2 |-> NoWord] = <<NoWord, NoWord>>
    OBVIOUS
  <2>3. /\ cvt' = IF op.ld THEN "READ" ELSE "WRITE"
        /\ counter' = 0 /\ cached' = <<NoWord, NoWord>> /\ ~ack'
    BY <1>1, <1>3, <2>1, <2>2 DEF ConvertClock, MemoryClock
  <2> QED
    BY <2>3
<1>4. CASE cvt \in {"READ", "WRITE"}
  <2>1. /\ Ratio = 2 /\ cvt_stb /\ cvt = IF op.ld THEN "READ" ELSE "WRITE"
        /\ counter \in 0 .. 1 /\ (counter_ce <=> ack)
    BY <1>1, <1>4 DEF Ratio, BusRuns, cvt_stb, counter_ce
  <2>2. cvt' = cvt
    BY <1>1, <1>4 DEF ConvertClock
  <2>3. CASE ack
    <3>1. counter = 0
      BY <2>1, <2>3 DEF mack
    <3>2. counter' = 1
      BY <2>1, <2>3, <3>1 DEF ConvertClock
    <3>3. cvt = "READ" => cached' = <<NoWord, [half |-> 0, adr |-> Ea]>>
      <4>1. ASSUME cvt = "READ"
            PROVE  cached' = shift_reg /\ cached = <<NoWord, NoWord>>
                   /\ dat_r = [half |-> 0, adr |-> Ea]
        BY <2>1, <2>3, <3>1, <4>1 DEF ConvertClock, BusRuns
      <4>2. ASSUME NEW z
            PROVE  Append(Tail(<<NoWord, NoWord>>), z) = <<NoWord, z>>
        BY TwoShifted
      <4> QED
        BY <4>1, <4>2 DEF shift_reg
    <3>4. ~ack'
      BY <2>3 DEF MemoryClock
    <3> QED
      BY <2>1, <2>2, <3>2, <3>3, <3>4
  <2>4. CASE ~ack
    <3>1. counter' = counter /\ cached' = cached
      BY <1>4, <2>1, <2>4 DEF ConvertClock
    <3>2. dat_r' = [half |-> counter, adr |-> Ea]
      BY <1>1 DEF MemoryClock
    <3> QED
      BY <2>1, <2>2, <3>1, <3>2 DEF BusRuns
  <2> QED
    BY <2>3, <2>4
<1> QED
  BY <1>2, <1>3, <1>4 DEF BusRuns

\* ... and when it ends.
LEMMA BusFinishes ==
    ASSUME BusRuns, ConvertClock, mack, ld_data' = shift_reg
    PROVE  BusRests' /\ (op.ld => BusData(ld_data)' = Ea)
<1>1. cyc /\ ack /\ cvt # "IDLE" /\ counter = Ratio - 1 /\ counter_ce
      /\ dat_r = [half |-> counter, adr |-> Ea]
  BY DEF BusRuns, mack, counter_ce, cvt_stb
<1>2. CASE cvt = "NONE"
  <2>1. Ratio = 1 /\ counter = 0 /\ cached = <<NoWord>>
    BY <1>2 DEF Ratio, BusRuns
  <2>2. cvt' = "NONE" /\ cached' = <<NoWord>> /\ counter' = 0
    BY <1>1, <1>2, <2>1 DEF ConvertClock
  <2>3. ld_data' = <<[half |-> 0, adr |-> Ea]>>
    BY <1>1, <2>1, OneShifted DEF shift_reg
  <2>4. BusData(ld_data)' = Ea
    <3>1. Ratio' = 1
      BY <2>2 DEF Ratio
    <3> QED
      BY <2>3, <3>1 DEF BusData
  <2> QED
    BY <2>2, <2>4 DEF BusRests
<1>3. CASE cvt # "NONE"
  <2>1. Ratio = 2 /\ counter = 1 /\ cvt = IF op.ld THEN "READ" ELSE "WRITE"
    BY <1>1, <1>3 DEF Ratio, BusRuns
  <2>2. cvt' = "IDLE"
    BY <1>1, <2>1 DEF ConvertClock
  <2>3. ASSUME op.ld
        PROVE  BusData(ld_data)' = Ea
    <3>1. cached = <<NoWord, [half |-> 0, adr |-> Ea]>>
      BY <2>1, <2>3 DEF BusRuns
    <3>2. ld_data' = <<[half |-> 0, adr |-> Ea], [half |-> 1, adr |-> Ea]>>
      <4>1. ASSUME NEW y, NEW z
            PROVE  Append(Tail(<<NoWord, y>>), z) = <<y, z>>
        BY TwoShifted
      <4> QED
        BY <1>1, <2>1, <3>1, <4>1 DEF shift_reg
    <3>3. Ratio' = 2
      BY <2>2 DEF Ratio
    <3>4. \A n \in 1 .. 2 : n = 1 \/ n = 2
      OBVIOUS
    <3> QED
      BY <3>2, <3>3, <3>4 DEF BusData
  <2> QED
    BY <2>2, <2>3 DEF BusRests
<1> QED
  BY <1>2, <1>3

\* The bus cycle goes on, or has been acknowledged.
LEMMA BusRunsWaits ==
    ASSUME Base, Waiting, BusRuns, ~cached_core, ClockOf(None)
    PROVE  Base' /\ MemOpStep /\ Waiting' /\ (BusRuns' \/ BusEnds') /\ ~cached_core'
<1>0. PICK ready \in BOOLEAN : WbClock(None, ready)
  BY DEF ClockOf
<1>1. /\ PathClock(None, FALSE, FALSE, FALSE, BusData(ld_data),
                   IF mack THEN OwnAccess(op) ELSE None)
      /\ lsui' = "BUSY" /\ valid' /\ cyc_1' /\ dbus' = dbus /\ (cyc' <=> ~mack)
      /\ ld_data' = IF mack THEN shift_reg ELSE ld_data
      /\ ConvertClock /\ MemoryClock(ready) /\ op.ld \in BOOLEAN /\ access = <<>>
  BY <1>0, BusMoves DEF BusRuns
<1>2. ~cached_core'
  BY <1>1, BaseStep
<1>3. ASSUME ~mack
      PROVE  Base' /\ MemOpStep /\ Waiting' /\ BusRuns'
  <2>1. PathClock(None, FALSE, FALSE, FALSE, BusData(ld_data), None)
    BY <1>1, <1>3
  <2>2. /\ Base' /\ Waiting' /\ op' = op /\ Ea' = Ea /\ MemOpStep /\ access' = <<>>
        /\ ~op.ld => ~addr_ok'
    BY <1>1, <2>1, WaitingWaits
  <2>3. /\ cvt' \in {"NONE", IF op.ld THEN "READ" ELSE "WRITE"}
        /\ cvt' = "NONE" => counter' = 0 /\ cached' = <<NoWord>>
        /\ cvt' \in {"READ", "WRITE"} => counter' \in 0 .. 1
        /\ cvt' = "READ" =>
              cached' = <<NoWord, IF counter' = 0 THEN NoWord ELSE [half |-> 0, adr |-> Ea]>>
        /\ ack' => dat_r' = [half |-> counter', adr |-> Ea]
    BY <1>1, <1>3, BusConverts
  <2>4. dbus = [adr |-> Ea, we |-> ~op.ld, dat_w |-> IF op.ld THEN Zero ELSE op.tag]
    BY DEF BusRuns
  <2>5. BusRuns'
    BY <1>1, <1>3, <2>2, <2>3, <2>4 DEF BusRuns, NoWord
  <2> QED
    BY <2>2, <2>5
<1>4. ASSUME mack
      PROVE  Base' /\ MemOpStep /\ Waiting' /\ BusEnds'
  <2>1. PathClock(None, FALSE, FALSE, FALSE, BusData(ld_data), OwnAccess(op))
    BY <1>1, <1>4
  <2>2. OwnAccess(op) # None
    BY OwnAccesses DEF Waiting, Addressed, Running
  <2>3. /\ Base' /\ Waiting' /\ op' = op /\ Ea' = Ea /\ MemOpStep
        /\ access' = <<OwnAccess(op)>> /\ (~op.ld => ~addr_ok')
    <3>1. PICK perf : perf = OwnAccess(op)
      OBVIOUS
    <3>2. PathClock(None, FALSE, FALSE, FALSE, BusData(ld_data), perf)
      BY <2>1, <3>1
    <3> QED
      <4>1. access = <<>>
        BY <1>1
      <4>2. /\ Base' /\ Waiting' /\ op' = op /\ Ea' = Ea /\ MemOpStep
            /\ access' = IF perf = None THEN access ELSE <<OwnAccess(op)>>
            /\ ~op.ld => ~addr_ok'
        <5>1. perf = None \/ (perf = OwnAccess(op) /\ access = <<>>)
          BY <3>1, <4>1
        <5>2. ~(IF op.ld THEN FALSE ELSE FALSE)
          OBVIOUS
        <5> QED
          BY <3>2, <5>1, <5>2, WaitingWaits
      <4> QED
        BY <2>2, <3>1, <4>2
  <2>4. BusRests' /\ (op.ld => BusData(ld_data)' = Ea)
    BY <1>1, <1>4, BusFinishes
  <2>5. OwnAccess(op') = OwnAccess(op)
    BY <2>3
  <2>6. BusEnds'
    BY <1>1, <1>4, <2>3, <2>4, <2>5 DEF BusEnds
  <2> QED
    BY <2>3, <2>6
<1> QED
  BY <1>2, <1>3, <1>4

\* Pi2LSUI sees the end of the cycle, and answers a clock later.
LEMMA BusEndsWaits ==
    ASSUME Base, Waiting, BusEnds, ~cached_core, ClockOf(None)
    PROVE  /\ Base' /\ MemOpStep /\ ~cached_core'
           /\ \/ Waiting' /\ BusEnds'
              \/ Completing' /\ BusIdle' /\ lsui' = "WAITDEASSERT"
<1>0. PICK ready \in BOOLEAN : WbClock(None, ready)
  BY DEF ClockOf
<1>1. ~valid_q /\ ~cyc /\ ~cvt_stb /\ ~counter_ce /\ ~mack /\ busy_q(FALSE)
  <2>1. ~set_rd_addr /\ ~set_wr_addr /\ busy_q(FALSE)
    BY WaitingWires DEF BusEnds
  <2> QED
    BY <2>1 DEF BusEnds, valid_q, cvt_stb, counter_ce, mack
<1>2. /\ PathClock(None, FALSE, ldok, stok, BusData(ld_data), None)
      /\ LsuiClock /\ ConvertClock /\ BusClock
  BY <1>0, <1>1 DEF WbClock
<1>3. ~valid' /\ ~cyc' /\ ld_data' = ld_data
  BY <1>1, <1>2 DEF LsuiClock, BusClock
<1>4. cvt' = cvt /\ BusRests'
  <2>1. cvt' = cvt /\ (cvt = "NONE" => counter' = counter /\ cached' = cached)
    BY <1>1, <1>2 DEF ConvertClock, BusEnds, BusRests
  <2> QED
    BY <2>1 DEF BusEnds, BusRests
<1>5. ~cached_core'
  BY <1>2, BaseStep
<1>6. op.ld => BusData(ld_data) = Ea
  BY DEF BusEnds
<1>7. ASSUME lsui = "BUSY"
      PROVE  Base' /\ MemOpStep /\ Waiting' /\ BusEnds'
  <2>1. lsui_busy /\ lsui' = "WAITDEASSERT"
    BY <1>1, <1>2, <1>7 DEF lsui_busy, LsuiClock
  <2>2. ldok = FALSE /\ stok = FALSE
    BY <2>1 DEF ldok, stok
  <2>3. PathClock(None, FALSE, FALSE, FALSE, BusData(ld_data), None)
    BY <1>2, <2>2
  <2>4. /\ Base' /\ Waiting' /\ op' = op /\ Ea' = Ea /\ MemOpStep
        /\ access' = access /\ (~op.ld => ~addr_ok')
    BY <2>3, WaitingWaits
  <2>5. BusData(ld_data)' = BusData(ld_data)
    BY <1>3, <1>4 DEF BusData, Ratio
  <2>6. OwnAccess(op') = OwnAccess(op)
    BY <2>4
  <2>7. BusEnds'
    BY <1>3, <1>4, <1>6, <2>1, <2>4, <2>5, <2>6 DEF BusEnds
  <2> QED
    BY <2>4, <2>7
<1>8. ASSUME lsui = "WAITDEASSERT"
      PROVE  Base' /\ MemOpStep /\ Completing' /\ BusIdle' /\ lsui' = "WAITDEASSERT"
  <2>1. ~lsui_busy /\ lsui' = "WAITDEASSERT"
    BY <1>1, <1>2, <1>8 DEF lsui_busy, LsuiClock
  <2>2. ldok = TRUE /\ stok = TRUE
    BY <1>1, <2>1 DEF ldok, stok
  <2>3. PathClock(None, FALSE, TRUE, TRUE, BusData(ld_data), None)
    BY <1>2, <2>2
  <2>4. Base' /\ Completing' /\ MemOpStep
    BY <1>6, <2>3, WaitingEnds DEF BusEnds
  <2>5. BusIdle'
    BY <1>3, <1>4 DEF BusIdle
  <2> QED
    BY <2>1, <2>4, <2>5
<1> QED
  BY <1>5, <1>7, <1>8 DEF BusEnds

-----------------------------------------------------------------------------
(* The invariant, and the refinement.                                      *)

\* The reset state.
LEMMA InitIInv ==
    ASSUME Init
    PROVE  IInv /\ Mem!MemInit
<1>1. Base
  BY LoadStoreAssumption DEF Init, UnitInit, Base
<1>2. Quiet
  BY DEF Init, UnitInit, PortInit, Quiet, Open
<1>3. MemIdle
  <2>1. CASE cached_core
    BY <2>1 DEF Init, LoadStore1Init, MemIdle, CacheIdle
  <2>2. CASE ~cached_core
    <3>1. cvt = "NONE" => cached = <<NoWord>>
      <4>1. ASSUME cvt = "NONE"
            PROVE  cached = <<NoWord>>
        <5>1. Ratio = 1
          BY <4>1 DEF Ratio
        <5> QED
          BY <5>1 DEF Init, WbInit
      <4> QED
        BY <4>1
    <3> QED
      BY <2>2, <3>1 DEF Init, WbInit, MemIdle, BusIdle, BusRests
  <2> QED
    BY <2>1, <2>2
<1>4. Idling
  BY <1>2, <1>3 DEF Init, WbInit, Idling
<1>5. Mem!MemInit
  <2>1. [d \in Dst |-> NoWrite] = <<NoWrite, NoWrite>>
    BY DEF Dst
  <2> QED
    BY <2>1 DEF Init, Mem!MemInit
<1> QED
  BY <1>1, <1>4, <1>5 DEF IInv

\* Each phase leads to one of those that may follow it.
LEMMA IInvNext ==
    ASSUME AlignedStores, Gap >= 1, IInv, Next
    PROVE  IInv' /\ MemOpStep
<1>1. PICK i \in Ops \cup {None} : (i # None => MayIssue(i)) /\ ClockOf(i)
  BY Steps
<1>2. Base
  BY DEF IInv
<1>3. busy_o => i = None
  BY <1>1 DEF MayIssue
<1>4. CASE Idling
  <2>1. CASE i = None
    BY <1>1, <1>2, <1>4, <2>1, QuietRests DEF IInv
  <2>2. CASE i # None
    BY <1>1, <1>2, <1>4, <2>2, QuietIssues DEF IInv
  <2> QED
    BY <2>1, <2>2
<1>5. CASE Reading /\ MemReady
  <2>1. i = None
    BY <1>3, <1>5 DEF Reading, Running
  <2> QED
    BY <1>1, <1>2, <1>5, <2>1, ReadingRuns DEF IInv
<1>6. CASE Sending /\ MemReady
  <2>1. i = None
    BY <1>3, <1>6 DEF Sending, Addressed, Running
  <2> QED
    BY <1>1, <1>2, <1>6, <2>1, SendingRuns DEF IInv
<1>7. CASE Waiting /\ MemBusy
  <2>1. i = None
    BY <1>3, <1>7 DEF Waiting, Addressed, Running
  <2>2. ClockOf(None)
    BY <1>1, <2>1
  <2>3. CASE cached_core
    <3>1. CacheWait
      BY <1>7, <2>3 DEF MemBusy
    <3>2. /\ Base' /\ MemOpStep
          /\ \/ Waiting' /\ CacheWait' /\ cached_core'
             \/ Completing' /\ CacheIdle' /\ cached_core'
             \/ Faulted'
      BY <1>2, <1>7, <2>2, <2>3, <3>1, WalkWaits, AckWaits
    <3> QED
      BY <3>2 DEF IInv, MemBusy, MemIdle
  <2>4. CASE ~cached_core
    <3>1. BusRuns \/ BusEnds
      BY <1>7, <2>4 DEF MemBusy
    <3>2. /\ Base' /\ MemOpStep /\ ~cached_core'
          /\ \/ Waiting' /\ (BusRuns' \/ BusEnds')
             \/ Completing' /\ BusIdle' /\ lsui' = "WAITDEASSERT"
      BY <1>2, <1>7, <2>2, <2>4, <3>1, BusRunsWaits, BusEndsWaits
    <3> QED
      BY <3>2 DEF IInv, MemBusy, MemIdle
  <2> QED
    BY <2>3, <2>4
<1>8. CASE Completing /\ MemIdle /\ (cached_core \/ lsui = "WAITDEASSERT")
  <2>1. i = None
    BY <1>3, <1>8 DEF Completing, Addressed, Running
  <2> QED
    BY <1>1, <1>2, <1>8, <2>1, CompletingRuns DEF IInv
<1>9. CASE Faulted
  <2>1. CASE i = None
    BY <1>1, <1>2, <1>9, <2>1, FaultedRests DEF IInv
  <2>2. CASE i # None
    BY <1>1, <1>2, <1>9, <2>2, FaultedIssues DEF IInv
  <2> QED
    BY <2>1, <2>2
<1>10. CASE Stuck
  <2>1. i = None
    BY <1>3, <1>10 DEF Stuck
  <2> QED
    BY <1>1, <1>2, <1>10, <2>1, StuckRuns DEF IInv
<1> QED
  BY <1>4, <1>5, <1>6, <1>7, <1>8, <1>9, <1>10 DEF IInv

\* What the invariant says is said of the variables.
LEMMA IInvRests ==
    ASSUME IInv, UNCHANGED vars
    PROVE  IInv'
<1>1. /\ UNCHANGED unitVars /\ UNCHANGED portVars /\ UNCHANGED busVars
      /\ UNCHANGED loadStore1Vars /\ UNCHANGED <<dcache, walk>>
      /\ UNCHANGED <<ldst_ifacetype, idle, op, regs, access, outcome>>
  BY DEF vars, cacheVars
<1>2. /\ busy_o' = busy_o /\ src_q' = src_q /\ Ea' = Ea
      /\ \A l : (Open(l)' <=> Open(l)) /\ (LatchQ(l, upd_s)' <=> LatchQ(l, upd_s))
  BY <1>1 DEF unitVars, busy_o, src_q, Ea, EffAddr, Open, LatchQ
<1>3. rd_rel' = rd_rel /\ (alu_valid' <=> alu_valid)
  BY <1>1, <1>2 DEF unitVars, rd_rel, alu_valid, op_is_st
<1>4. /\ Running' <=> Running
      /\ PortOn' <=> PortOn
      /\ PortOff' <=> PortOff
      /\ Collected' <=> Collected
      /\ Updated' <=> Updated
      /\ Update' <=> Update
  BY <1>1, <1>2 DEF unitVars, portVars, Running, PortOn, PortOff, Collected, Updated, Update
<1>5. /\ Addressed' <=> Addressed
      /\ AddressTaken' <=> AddressTaken
  BY <1>1, <1>2, <1>3, <1>4
     DEF unitVars, portVars, loadStore1Vars, cached_core, Addressed, AddressTaken
<1>6. /\ Reading' <=> Reading
      /\ Sending' <=> Sending
      /\ Waiting' <=> Waiting
      /\ Quiet' <=> Quiet
      /\ Faulted' <=> Faulted
      /\ Stuck' <=> Stuck
  BY <1>1, <1>2, <1>3, <1>4, <1>5
     DEF unitVars, portVars, Reading, Sending, Waiting, Quiet, Faulted, Stuck
<1>7. Completing' <=> Completing
  BY <1>1, <1>2, <1>5 DEF unitVars, portVars, Completing, OwnAccess, EffAddr
<1>8. /\ MemIdle' <=> MemIdle
      /\ MemReady' <=> MemReady
      /\ Base' <=> Base
      /\ cached_core' <=> cached_core
      /\ lsui' = lsui
  BY <1>1 DEF unitVars, busVars, loadStore1Vars, MemIdle, MemReady, CacheIdle, BusIdle,
       BusRests, cached_core, Base
<1>9. CacheWait' <=> CacheWait
  BY <1>1, <1>2 DEF unitVars, loadStore1Vars, CacheWait, OwnRequest
<1>10. /\ BusRuns' <=> BusRuns
       /\ BusEnds' <=> BusEnds
  BY <1>1, <1>2 DEF unitVars, busVars, BusRuns, BusEnds, BusRests, OwnAccess, EffAddr,
       BusData, Ratio
<1>11. (MemBusy' <=> MemBusy) /\ (Idling' <=> Idling)
  BY <1>1, <1>6, <1>8, <1>9, <1>10 DEF MemBusy, Idling
<1> QED
  BY <1>6, <1>7, <1>8, <1>11 DEF IInv

\* The inductive invariant holds: in every clock the unit, the buffer, the port and
\* the memory are together in one of the phases, at the issuer's pace and with
\* aligned stores (LDSTCompUnit's latches, PortInterfaceBase, LoadStore1, Pi2LSUI).
THEOREM IInvAlways ==
    ASSUME AlignedStores, Gap >= 1
    PROVE  Spec => []IInv
<1>1. Init => IInv
  BY InitIInv
<1>2. IInv /\ [Next]_vars => IInv'
  <2>1. IInv /\ Next => IInv'
    BY IInvNext
  <2>2. IInv /\ UNCHANGED vars => IInv'
    BY IInvRests
  <2> QED
    BY <2>1, <2>2
<1> QED
  BY <1>1, <1>2, PTL DEF Spec

\* The path implements MemOp: each load or store makes one access, its own, writes
\* each of its results once, the loaded value after the access, and is done; or it
\* faults, and then nothing changes (LDSTCompUnit, PortInterfaceBase, LoadStore1 with
\* D-cache and MMU, Pi2LSUI with the Wishbone bus).
THEOREM MemOpImplemented ==
    ASSUME AlignedStores, Gap >= 1
    PROVE  Spec => ImplementsMemOp
<1>1. Init => Mem!MemInit
  BY InitIInv
<1>2. IInv /\ [Next]_vars => [Mem!MemNext]_(Mem!memVars)
  BY IInvNext DEF vars, MemOpStep, Mem!memVars
<1>3. Spec => []IInv
  BY IInvAlways
<1> QED
  BY <1>1, <1>2, <1>3, PTL DEF Spec, ImplementsMemOp, Mem!MemSpec
=============================================================================
