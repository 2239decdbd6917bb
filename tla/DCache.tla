------------------------------- MODULE DCache -------------------------------
(***************************************************************************)
(* The write-through data cache (src/soc/experiment/dcache.py) between     *)
(* LoadStore1 and the MMU, which wait for each answer before they send the *)
(* next request, and a classic wishbone memory of any latency.             *)
(*                                                                         *)
(* One step is one clock.  A row is the unit of data: byte selects are     *)
(* left out.  The TLB is in module Mmu; here a request carries whether its *)
(* translation gave access (ok), and addresses are real.  LoadStore1 never *)
(* drives hold or reserve.                                                 *)
(***************************************************************************)
EXTENDS Naturals, FiniteSets, FiniteSetsExt

CONSTANTS Tags,         \* tags of real addresses
          Idx,          \* indices of sets
          Rows,         \* rows of a line: ROW_PER_LINE
          Ways,         \* ways of a set: NUM_WAYS
          Vals,         \* values of a row; 0 is what DCBZ writes
          Requests,     \* requests that are sent
          Gentle,       \* TRUE: no clock spoils the cache, see spoils
          None

ASSUME CacheAssumption == /\ Tags \subseteq Nat /\ Tags # {}
                          /\ Idx \subseteq Nat /\ Idx # {}
                          /\ Rows \in Nat \ {0, 1} /\ Ways \in Nat \ {0, 1}
                          /\ 0 \in Vals /\ Gentle \in BOOLEAN

Way == 0 .. Ways - 1
Row == 0 .. Rows - 1
Addr == [tag : Tags, idx : Idx, row : Row]
get_row(a) == <<a.idx, a.row>>

\* A request: "tlb" is a tlbie or a TLB load, of the MMU.
Request == [op : {"load", "store", "dcbz", "tlb"}, addr : Addr, nc : BOOLEAN,
            ok : BOOLEAN, mmu : BOOLEAN]

\* The lines that are loaded, or cleared, through the cache.
Cached == {<<q.addr.tag, q.addr.idx>> :
              q \in {p \in Requests : p.op \in {"load", "dcbz"} /\ ~p.nc}}

\* The MMU only loads, and loads its TLB.  A line is cached or a peripheral's
\* (the page tables' nocache), the same for all who ask: an uncached access
\* that hits is refused as a paradox.
ASSUME RequestAssumption ==
    /\ Requests \subseteq Request /\ None \notin Requests
    /\ \A q \in Requests :
         /\ q.mmu => q.op \in {"load", "tlb"}
         /\ q.op = "tlb" => q.mmu /\ q.ok
         /\ q.nc => q.op # "dcbz" /\ <<q.addr.tag, q.addr.idx>> \notin Cached

VARIABLES
    r0, d_data,                  \* stage 0; d_in.data
    cache_tags, cache_valids, cache_ram, plru_victim,
    cache_tag_set,               \* tags of the set read in the last clock
    rd_data0, rd_data_o,         \* the RAMs' read register and buffer
    r1,                          \* stage 1
    wb,                          \* the wishbone master's registers
    mem,                         \* the memory behind the wishbone
    pend, ref                    \* the request not answered yet; what memory
                                 \* holds when requests are done in order

vars == <<r0, d_data, cache_tags, cache_valids, cache_ram, plru_victim,
          cache_tag_set, rd_data0, rd_data_o, r1, wb, mem, pend, ref>>

Zero == CHOOSE a \in Addr : TRUE
\* MemAccessRequest; its valid bit is op # "NONE", see req.
NoReq == [op |-> "NONE", dcbz |-> FALSE, addr |-> Zero, data |-> 0,
          hit_way |-> 0, same_tag |-> FALSE, mmu |-> FALSE]

Init ==
    /\ r0 = None /\ d_data = 0
    /\ cache_tags = [i \in Idx |-> [w \in Way |-> None]]
    /\ cache_valids = [i \in Idx |-> {}]
    /\ cache_ram = [w \in Way |-> [x \in Idx \X Row |-> None]]
    /\ plru_victim = [i \in Idx |-> Ways - 1]
    /\ cache_tag_set = [w \in Way |-> None]
    /\ rd_data0 = [w \in Way |-> None] /\ rd_data_o = [w \in Way |-> None]
    /\ r1 = [state |-> "IDLE", full |-> FALSE, req |-> NoReq,
             mmu_req |-> FALSE, hit_way |-> 0, cache_hit |-> {},
             use_forward1 |-> FALSE, forward_sel |-> FALSE,
             forward_data1 |-> None, forward_data2 |-> None,
             forward_valid1 |-> FALSE, forward_way1 |-> 0,
             forward_row1 |-> get_row(Zero),
             dcbz |-> FALSE, write_bram |-> FALSE, write_tag |-> FALSE,
             reload_tag |-> None, store_way |-> 0, store_row |-> get_row(Zero),
             end_row_ix |-> 0, rows_valid |-> {},
             acks_pending |-> 0, inc_acks |-> FALSE, dec_acks |-> FALSE,
             ls_valid |-> FALSE, ls_error |-> FALSE, paradox |-> FALSE,
             mmu_done |-> FALSE, mmu_error |-> FALSE]
    /\ wb = [adr |-> Zero, dat |-> 0, we |-> FALSE, cyc |-> FALSE, stb |-> FALSE]
    /\ mem = [a \in Addr |-> 0]
    /\ pend = None /\ ref = mem

-----------------------------------------------------------------------------
(* Stage 0 and the lookup.                                                 *)

r0_stall == r0 # None /\ r1.full
r0_valid == r0 # None /\ ~r1.full
go == r0_valid /\ r0.op # "tlb" /\ ~r1.ls_error

store_index == r1.store_row[1]
replace_way == IF r1.write_tag THEN plru_victim[store_index] ELSE r1.store_way

req_same_tag == r0.addr.tag = r1.reload_tag
hits == {w \in cache_valids[r0.addr.idx] : cache_tag_set[w] = r0.addr.tag}
reloading == r1.state = "RELOAD_WAIT_ACK" /\ r0.addr.idx = store_index /\ req_same_tag
\* A store to a row that has not arrived taken for a miss (mutant).
is_hit_arrived == IF reloading THEN r0.addr.row \in r1.rows_valid ELSE hits # {}

is_hit == IF reloading THEN r0.op = "load" => r0.addr.row \in r1.rows_valid
          ELSE hits # {}
req_hit_way == IF reloading THEN replace_way ELSE Max(hits \cup {0})

req_op ==
    CASE ~go -> "NONE"
      [] go /\ (~r0.ok \/ (r0.nc /\ is_hit)) -> "BAD"
      [] go /\ r0.ok /\ ~r0.nc /\ r0.op = "load" ->
            IF is_hit THEN "LOAD_HIT" ELSE "LOAD_MISS"
      [] go /\ r0.ok /\ r0.nc /\ ~is_hit /\ r0.op = "load" -> "LOAD_NC"
      [] go /\ r0.ok /\ ~(r0.nc /\ is_hit) /\ r0.op # "load" ->
            IF is_hit THEN "STORE_HIT" ELSE "STORE_MISS"

Stores == {"STORE_HIT", "STORE_MISS"}
Slow == Stores \cup {"LOAD_MISS", "LOAD_NC"}

\* The request in stage 0.  Its data is on d_in the clock after it came; as
\* LoadStore1 keeps it there, whether stage 0 sampled it makes no difference.
fresh == [op |-> req_op, dcbz |-> r0.op = "dcbz", addr |-> r0.addr,
          data |-> IF r0.op = "dcbz" THEN 0 ELSE d_data,
          hit_way |-> req_hit_way, same_tag |-> req_same_tag, mmu |-> r0.mmu]

\* What stage 1 works on: the request it holds, or else the one in stage 0.
req == IF r1.full THEN r1.req ELSE IF go THEN fresh ELSE NoReq

\* The row being read was written one or two clocks ago.
use_forward1_next == /\ go /\ r1.write_bram /\ r1.req.hit_way = req_hit_way
                     /\ get_row(r1.req.addr) = get_row(r0.addr)
\* Forwarding of the last write but one left out (mutant).
use_forward2_next_none == FALSE

use_forward2_next == /\ go /\ r1.forward_valid1 /\ r1.forward_way1 = req_hit_way
                     /\ r1.forward_row1 = get_row(r0.addr)

\* The answer on d_out and m_out.
data_out == IF r1.forward_sel
            THEN IF r1.use_forward1 THEN r1.forward_data1 ELSE r1.forward_data2
            ELSE rd_data_o[r1.hit_way]
answered == r1.ls_valid \/ r1.ls_error \/ r1.mmu_done \/ r1.mmu_error

-----------------------------------------------------------------------------
(* The registers that follow from the lookup, in every state; the state    *)
(* machine's actions override them.                                        *)

stage1(ack) ==
    [r1 EXCEPT
        !.mmu_req = IF r0_valid THEN r0.mmu ELSE @,
        !.hit_way = IF go THEN req_hit_way ELSE @,
        !.cache_hit = IF req_op \in {"LOAD_HIT", "STORE_HIT"} THEN {r0.addr.idx} ELSE {},
        !.ls_error = req_op = "BAD" /\ ~r0.mmu,
        !.mmu_error = req_op = "BAD" /\ r0.mmu,
        !.paradox = req_op = "BAD" /\ r0.ok,
        !.use_forward1 = use_forward1_next,
        !.forward_sel = use_forward1_next \/ use_forward2_next,
        !.forward_data2 = r1.forward_data1,
        !.forward_data1 = IF r1.write_bram THEN r1.req.data
                          ELSE IF r1.dcbz THEN 0
                          ELSE IF ack /\ ~wb.we THEN mem[wb.adr] ELSE None,
        !.forward_way1 = IF r1.write_bram THEN r1.req.hit_way ELSE replace_way,
        !.forward_row1 = IF r1.write_bram THEN get_row(r1.req.addr) ELSE r1.store_row,
        !.forward_valid1 = r1.write_bram,
        !.write_bram = FALSE, !.inc_acks = FALSE, !.dec_acks = FALSE,
        !.ls_valid = req_op = "LOAD_HIT" /\ ~r0.mmu,
        !.mmu_done = \/ req_op = "LOAD_HIT" /\ r0.mmu
                     \/ r0_valid /\ r0.op = "tlb",
        !.store_way = replace_way,
        !.write_tag = FALSE,
        !.req = IF ~r1.full /\ req_op \in Slow THEN fresh ELSE @,
        !.full = @ \/ req_op \in Slow]

\* Completion of the request r, which came from the MMU or not.
Complete(s, mmu) == [s EXCEPT !.full = FALSE, !.ls_valid = @ \/ ~mmu,
                              !.mmu_done = @ \/ mmu]

next_row(r) == <<r[1], (r[2] + 1) % Rows>>

\* The registers of the line follow the request on the wires while idle;
\* they matter from the clock a slow request starts.
Start(s) == [s EXCEPT !.dcbz = req.dcbz, !.store_row = get_row(req.addr),
                      !.end_row_ix = (req.addr.row + Rows - 1) % Rows,
                      !.reload_tag = req.addr.tag, !.rows_valid = {}]

Idle(ack) ==
    LET s == [stage1(ack) EXCEPT !.req.same_tag = TRUE] IN
    /\ r1.state = "IDLE"
    /\ wb' = IF req.op \in Slow
             THEN [adr |-> req.addr, dat |-> req.data, we |-> req.op \in Stores,
                   cyc |-> TRUE, stb |-> TRUE]
             ELSE wb
    /\ \/ req.op \notin Slow /\ r1' = s
       \/ /\ req.op = "LOAD_MISS"
          /\ r1' = [Start(s) EXCEPT !.state = "RELOAD_WAIT_ACK", !.write_tag = TRUE]
       \/ /\ req.op = "LOAD_NC"
          /\ r1' = [Start(s) EXCEPT !.state = "NC_LOAD_WAIT_ACK"]
       \/ /\ req.op \in Stores /\ ~req.dcbz
          /\ r1' = Complete([Start(s) EXCEPT
                                !.state = "STORE_WAIT_ACK", !.acks_pending = 1,
                                !.write_bram = req.op = "STORE_HIT",
                                !.store_way = IF req.op = "STORE_HIT" THEN req.hit_way
                                              ELSE @], req.mmu)
       \/ /\ req.op \in Stores /\ req.dcbz
          /\ r1' = [Start(s) EXCEPT
                       !.state = "RELOAD_WAIT_ACK",
                       !.write_tag = req.op = "STORE_MISS",
                       !.store_way = IF req.op = "STORE_HIT" THEN req.hit_way ELSE @]
    /\ UNCHANGED cache_valids

\* The slave's stall is cyc & ~ack: a request is accepted when it is answered.
lastStb(ack) == ack /\ wb.stb /\ wb.adr.row = r1.end_row_ix
\* The last row off by one (mutant).
lineDone_next(ack) ==
    ack /\ (~wb.stb \/ lastStb(ack)) /\ r1.store_row[2] = (r1.end_row_ix + 1) % Rows

lineDone(ack) == ack /\ (~wb.stb \/ lastStb(ack)) /\ r1.store_row[2] = r1.end_row_ix

\* The data that r1.req waits for is on the bus.
wanted == /\ req.op # "NONE" /\ r1.req.same_tag
          /\ IF r1.dcbz THEN r1.req.dcbz ELSE r1.req.op = "LOAD_MISS"
          /\ r1.store_row = get_row(req.addr)

\* It is, but what is in req is another request, one clock before it would
\* take r1.req's place.
mistaken == /\ r1.state = "RELOAD_WAIT_ACK" /\ wanted
            /\ ~(req.op = r1.req.op /\ req.same_tag /\ req.mmu = r1.mmu_req)

ReloadWaitAck(ack) ==
    LET s == [stage1(ack) EXCEPT !.forward_valid1 = ack]
        t == IF ack /\ wanted
             THEN [Complete(s, r1.mmu_req) EXCEPT !.forward_sel = TRUE,
                                                  !.use_forward1 = TRUE]
             ELSE s IN
    /\ r1.state = "RELOAD_WAIT_ACK"
    /\ wb' = [wb EXCEPT !.stb = @ /\ ~lastStb(ack),
                        !.adr.row = IF ack /\ wb.stb THEN (@ + 1) % Rows ELSE @,
                        !.cyc = @ /\ ~lineDone(ack)]
    /\ r1' = [t EXCEPT
                 !.rows_valid = IF ack THEN @ \cup {r1.store_row[2]} ELSE @,
                 !.store_row = IF ack THEN next_row(@) ELSE @,
                 !.state = IF lineDone(ack) THEN "IDLE" ELSE @]
    /\ cache_valids' = IF lineDone(ack)
                       THEN [cache_valids EXCEPT ![store_index] = @ \cup {r1.store_way}]
                       ELSE cache_valids

\* The adr slice that is written is three bits longer than the value.
WithRow(adr, a) == [tag |-> adr.tag - (adr.tag % 8), idx |-> a.idx, row |-> a.row]

StoreWaitAck(ack) ==
    LET acks == r1.acks_pending + (IF r1.inc_acks THEN 1 ELSE 0)
                                - (IF r1.dec_acks THEN 1 ELSE 0)
        another == ack /\ acks < 7 /\ req.same_tag /\ req.op \in Stores
        s == [stage1(ack) EXCEPT !.acks_pending = acks, !.dec_acks = ack,
                 !.state = IF ack /\ ~another /\ acks = 1 THEN "IDLE" ELSE @] IN
    /\ r1.state = "STORE_WAIT_ACK"
    /\ r1' = IF another
             THEN [Complete(s, FALSE) EXCEPT !.write_bram = req.op = "STORE_HIT",
                                             !.inc_acks = TRUE]
             ELSE s
    /\ wb' = [wb EXCEPT
                 !.adr = IF ack /\ req.op # "NONE" THEN WithRow(@, req.addr) ELSE @,
                 !.dat = IF ack /\ req.op # "NONE" THEN req.data ELSE @,
                 !.stb = IF ack THEN another ELSE @,
                 !.cyc = @ /\ ~(ack /\ ~another /\ acks = 1)]
    /\ UNCHANGED cache_valids

NcLoadWaitAck(ack) ==
    /\ r1.state = "NC_LOAD_WAIT_ACK"
    /\ wb' = [wb EXCEPT !.stb = @ /\ ~ack, !.cyc = @ /\ ~ack]
    /\ r1' = IF ack
             THEN [Complete(stage1(ack), r1.mmu_req) EXCEPT
                      !.state = "IDLE", !.forward_sel = TRUE, !.use_forward1 = TRUE]
             ELSE stage1(ack)
    /\ UNCHANGED cache_valids

-----------------------------------------------------------------------------
(* The arrays.                                                             *)

\* The tag of the line being reloaded goes in, the clock after the miss.
TagWrite ==
    cache_tags' = IF r1.write_tag
                  THEN [cache_tags EXCEPT ![store_index][replace_way] = r1.reload_tag]
                  ELSE cache_tags

\* The set and the row of a request are read in the clock it comes; a request
\* that stalls has them read again.  Without one nobody looks at what is read.
TagRead(q) ==
    cache_tag_set' = IF r0_stall THEN cache_tags[r0.addr.idx]
                     ELSE IF q # None THEN cache_tags[q.addr.idx]
                     ELSE [w \in Way |-> None]

Rams(q, ack) ==
    /\ rd_data_o' = rd_data0
    /\ rd_data0' = [w \in Way |-> IF r0_stall THEN cache_ram[w][get_row(r0.addr)]
                                  ELSE IF q # None THEN cache_ram[w][get_row(q.addr)]
                                  ELSE None]
    /\ cache_ram' =
        IF r1.write_bram
        THEN [cache_ram EXCEPT ![r1.req.hit_way][get_row(r1.req.addr)] = r1.req.data]
        ELSE IF r1.state = "RELOAD_WAIT_ACK" /\ ack
        THEN [cache_ram EXCEPT ![replace_way][r1.store_row] =
                                   IF r1.dcbz THEN 0 ELSE mem[wb.adr]]
        ELSE cache_ram

\* The victim is any way but the one used last.
Plru ==
    \/ r1.cache_hit = {} /\ UNCHANGED plru_victim
    \/ \E i \in r1.cache_hit, w \in Way \ {r1.hit_way} :
          plru_victim' = [plru_victim EXCEPT ![i] = w]

-----------------------------------------------------------------------------
(* The requester and the memory.                                           *)

Wishbone(ack) ==
    /\ ack => wb.cyc /\ wb.stb
    /\ mem' = IF ack /\ wb.we THEN [mem EXCEPT ![wb.adr] = wb.dat] ELSE mem

Line(a) == {x \in Addr : x.tag = a.tag /\ x.idx = a.idx}

\* A DCBZ while a store is on its way, any access to the line of a DCBZ before
\* it is done, or a store right behind one to the same tag if it would be
\* written to another.
untimely(q, ack) ==
    \/ q.op = "dcbz" /\ r1.state = "STORE_WAIT_ACK"
    \/ r1.state = "RELOAD_WAIT_ACK" /\ r1.dcbz /\ q.addr.tag = r1.reload_tag
    \/ /\ r1.state = "STORE_WAIT_ACK" /\ ~ack /\ q.op = "store" /\ q.ok
       /\ q.addr.tag = r1.reload_tag /\ WithRow(q.addr, q.addr) # q.addr

\* The request q, or none, is sent, v is its data.
Send(q, v) ==
    /\ q # None => pend = None \/ answered
    /\ r0' = IF r0_stall THEN r0 ELSE q
    /\ d_data' = v
    /\ pend' = IF q # None THEN q ELSE IF answered THEN None ELSE pend
    /\ ref' = IF q # None /\ q.ok /\ q.op = "store" THEN [ref EXCEPT ![q.addr] = v]
              ELSE IF q # None /\ q.ok /\ q.op = "dcbz"
              THEN [a \in Addr |-> IF a \in Line(q.addr) THEN 0 ELSE ref[a]]
              ELSE ref

\* What a store may bring; other requests bring nothing.
Data(q) == IF q # None /\ q.op = "store" THEN Vals ELSE {d_data}

\* The clocks in which the code goes wrong: what is done afterwards may differ
\* from what was asked.
spoils(q, ack) == (ack /\ mistaken) \/ (q # None /\ untimely(q, ack))

Clock(q, v, ack) ==
    /\ Gentle => ~spoils(q, ack)
    /\ Wishbone(ack) /\ Send(q, v)
    /\ Idle(ack) \/ ReloadWaitAck(ack) \/ StoreWaitAck(ack) \/ NcLoadWaitAck(ack)
    /\ TagWrite /\ TagRead(q) /\ Rams(q, ack) /\ Plru

Next == \E ack \in BOOLEAN, q \in Requests \cup {None} :
            \E v \in Data(q) : Clock(q, v, ack)

Spec == Init /\ [][Next]_vars
=============================================================================
