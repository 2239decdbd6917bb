---------------------------- MODULE DCacheProofs ----------------------------
(***************************************************************************)
(* Theorems about DCache, for every number of sets, ways and rows, every   *)
(* set of values and requests and a memory of any latency: each request is *)
(* answered once and rightly, and the cache and memory agree.              *)
(*                                                                         *)
(* They hold in every behaviour, whatever is asked and whenever, up to the *)
(* first clock in which the code goes wrong (spoils); spoiled remembers    *)
(* whether there has been one.                                             *)
(***************************************************************************)
EXTENDS DCacheMC, FiniteSetTheorems, TLAPS

-----------------------------------------------------------------------------
(* The invariant.                                                          *)

\* The registers of stage 1, and the request it holds.
Held == [op : Slow \cup {"NONE"}, dcbz : BOOLEAN, addr : Addr, data : Vals,
         hit_way : Way, same_tag : BOOLEAN, mmu : BOOLEAN]
States == {"IDLE", "RELOAD_WAIT_ACK", "STORE_WAIT_ACK", "NC_LOAD_WAIT_ACK"}
Fields == {"state", "full", "req", "mmu_req", "hit_way", "cache_hit", "use_forward1",
           "forward_sel", "forward_data1", "forward_data2", "forward_valid1",
           "forward_way1", "forward_row1", "dcbz", "write_bram", "write_tag",
           "reload_tag", "store_way", "store_row", "end_row_ix", "rows_valid",
           "acks_pending", "inc_acks", "dec_acks", "ls_valid", "ls_error", "paradox",
           "mmu_done", "mmu_error"}
Stage1 == /\ DOMAIN r1 = Fields /\ r1.state \in States /\ r1.req \in Held
          /\ r1.dcbz \in BOOLEAN /\ r1.store_way \in Way /\ r1.store_row \in Idx \X Row
          /\ r1.end_row_ix \in Row /\ r1.rows_valid \subseteq Row
          /\ r1.acks_pending \in Nat

\* The wishbone master's registers: what is asked for is an address, what is
\* left on the wires after a request has the tag of no line perhaps.
Wires == [adr : [tag : Nat, idx : Idx, row : Row], dat : Vals, we : BOOLEAN,
          cyc : BOOLEAN, stb : BOOLEAN]
Bus == {w \in Wires : w.stb => w.adr \in Addr}

Types ==
    /\ r0 \in Requests \cup {None} /\ d_data \in Vals
    /\ cache_tags \in [Idx -> [Way -> Tags \cup {None}]]
    /\ cache_valids \in [Idx -> SUBSET Way] /\ plru_victim \in [Idx -> Way]
    /\ cache_ram \in [Way -> [Idx \X Row -> Datum]]
    /\ rd_data0 \in [Way -> Datum]
    /\ Stage1
    /\ wb \in Bus
    /\ mem \in [Addr -> Vals] /\ ref \in [Addr -> Vals]
    /\ pend \in Requests \cup {None}

\* The request that is not answered yet is in stage 0 or in stage 1.
waiting == pend # None /\ ~answered

Where ==
    /\ r0 # None => pend = r0 /\ ~answered /\ ~r1.full
    /\ r1.full =>
         /\ waiting /\ pend.addr = r1.req.addr /\ pend.mmu = r1.req.mmu /\ pend.ok
         /\ r1.mmu_req = pend.mmu /\ r1.req.op \in Slow
         /\ pend.op = "load" => r1.req.op \in {"LOAD_MISS", "LOAD_NC"} /\ ~r1.req.dcbz
         /\ pend.op = "store" => r1.req.op \in Stores /\ ~r1.req.dcbz
         /\ pend.op = "dcbz" => r1.req.op \in Stores /\ r1.req.dcbz /\ r1.req.data = 0
         /\ pend.op # "tlb" /\ (r1.req.op = "LOAD_MISS" => ~pend.nc)
    /\ waiting => r1.full \/ r0 # None

\* Rows are reloaded in a circle: how many there are from a to b.
Dist(a, b) == IF a <= b THEN b - a ELSE b - a + Rows
left(x) == Dist(x, r1.end_row_ix)
reload == r1.state = "RELOAD_WAIT_ACK"
Reloaded(a) == reload /\ a.tag = r1.reload_tag /\ a.idx = store_index
CellOf(tag, i, x) == [tag |-> tag, idx |-> i, row |-> x]

\* The request q, if it is a store to the tag on the bus, can be put there
\* right behind the one that is.
Follows(q) == q.op = "store" /\ q.ok /\ q.addr.tag = r1.reload_tag =>
                 WithRow(q.addr, q.addr) = q.addr

\* What each state of stage 1 does on the bus.
OnBus ==
    /\ r1.state = "IDLE" => ~wb.cyc
    /\ r1.state = "STORE_WAIT_ACK" =>
         /\ wb.stb /\ wb.cyc /\ wb.we /\ wb.adr.tag = r1.reload_tag
         /\ r1.acks_pending + (IF r1.inc_acks THEN 1 ELSE 0)
              = 1 + (IF r1.dec_acks THEN 1 ELSE 0)
         /\ waiting => pend.op # "dcbz" /\ Follows(pend)
         /\ r1.full => (r1.req.same_tag <=> r1.req.addr.tag = r1.reload_tag)
    /\ r1.write_bram => /\ r1.state = "STORE_WAIT_ACK" /\ ~r1.full
                        /\ wb.adr = r1.req.addr /\ wb.dat = r1.req.data
    /\ r1.state = "NC_LOAD_WAIT_ACK" =>
         /\ wb.stb /\ wb.cyc /\ ~wb.we /\ r1.full /\ r1.req.op = "LOAD_NC"
         /\ wb.adr = r1.req.addr /\ ~r1.dcbz
    /\ reload =>
         /\ wb.stb /\ wb.cyc /\ wb.we = r1.dcbz /\ (r1.dcbz => wb.dat = 0)
         /\ wb.adr = CellOf(r1.reload_tag, store_index, r1.store_row[2])
         /\ r1.dcbz /\ r0 # None => r0.addr.tag # r1.reload_tag
         /\ ~r1.full /\ ~r1.dcbz => r1.req.op = "LOAD_MISS" /\ r1.req.same_tag
         /\ r1.full => (r1.req.same_tag <=> r1.req.addr.tag = r1.reload_tag)

\* The line under reload is in no other way; its rows come in order, up to the
\* end row.
Reload ==
    /\ r1.write_tag => reload /\ r1.full /\ r1.rows_valid = {}
    /\ reload =>
         /\ <<r1.reload_tag, store_index>> \in Cached
         /\ ~r1.write_tag => cache_tags[store_index][replace_way] = r1.reload_tag
         /\ \A w \in cache_valids[store_index] : w # replace_way =>
               cache_tags[store_index][w] # r1.reload_tag
         /\ \A x \in Row : x \in r1.rows_valid <=> left(x) > left(r1.store_row[2])

\* What memory holds when what is on the bus is done; what the RAM holds when
\* the write in stage 1 is.
Then(a) == IF r1.state = "STORE_WAIT_ACK" /\ a = wb.adr THEN wb.dat
           ELSE IF r1.dcbz /\ Reloaded(a) THEN 0 ELSE mem[a]
Cell(w, i, x) == IF r1.write_bram /\ w = r1.req.hit_way /\ <<i, x>> = get_row(r1.req.addr)
                 THEN r1.req.data ELSE cache_ram[w][<<i, x>>]

\* Line i of way w is valid and not being replaced.
Stands(i, w) == w \in cache_valids[i] /\ ~(reload /\ i = store_index /\ w = replace_way)
Lines ==
    /\ \A i \in Idx, w \in Way : Stands(i, w) =>
         /\ <<cache_tags[i][w], i>> \in Cached
         /\ \A x \in Row : Cell(w, i, x) = Then(CellOf(cache_tags[i][w], i, x))
         /\ \A y \in Way : Stands(i, y) /\ y # w => cache_tags[i][y] # cache_tags[i][w]
    /\ reload => \A x \in r1.rows_valid :
         /\ cache_ram[replace_way][<<store_index, x>>]
              = Then(CellOf(r1.reload_tag, store_index, x))
         /\ r1.dcbz => mem[CellOf(r1.reload_tag, store_index, x)] = 0

\* What the lookup has found of the request q in stage 1 is still so.
Absent(a) == \A w \in Way : Stands(a.idx, w) => cache_tags[a.idx][w] # a.tag
FoundOf(q) ==
    /\ q.op = "STORE_HIT" =>
         /\ Reloaded(q.addr) => q.hit_way = replace_way /\ ~r1.write_tag
         /\ ~Reloaded(q.addr) => /\ Stands(q.addr.idx, q.hit_way)
                                 /\ cache_tags[q.addr.idx][q.hit_way] = q.addr.tag
    /\ q.op # "STORE_HIT" => Absent(q.addr)
    /\ q.op = "STORE_MISS" /\ Reloaded(q.addr) => r1.dcbz
    /\ q.op = "LOAD_NC" => ~Reloaded(q.addr)
    /\ q.op = "LOAD_MISS" /\ Reloaded(q.addr) =>
         ~r1.dcbz /\ q.same_tag /\ q.addr.row \notin r1.rows_valid
    /\ r1.dcbz /\ Reloaded(q.addr) => /\ q.dcbz /\ q.same_tag /\ r1.rows_valid = {}
                                      /\ r1.store_row = get_row(q.addr)
Found == r1.full => FoundOf(r1.req)

\* What memory holds when the request that waits is done as well.
Order ==
    \A a \in Addr : ref[a] =
        IF waiting /\ pend.ok /\ pend.op = "store" /\ a = pend.addr
        THEN IF r1.full THEN r1.req.data ELSE d_data
        ELSE IF waiting /\ pend.ok /\ pend.op = "dcbz" /\ a \in Line(pend.addr)
        THEN 0 ELSE Then(a)

\* The set and the row that have been read for stage 0.
Lookup ==
    r0 # None =>
      /\ cache_tag_set = cache_tags[r0.addr.idx]
      /\ \A w \in Way :
           cache_ram[w][get_row(r0.addr)]
             = IF r1.forward_valid1 /\ w = r1.forward_way1 /\ r1.forward_row1 = get_row(r0.addr)
               THEN r1.forward_data1 ELSE rd_data0[w]

\* The answer is the right one.
Answer ==
    answered =>
      /\ pend # None
      /\ \/ ~pend.ok /\ ~pend.mmu /\ r1.ls_error /\ ~r1.ls_valid /\ ~r1.mmu_done /\ ~r1.mmu_error
         \/ ~pend.ok /\ pend.mmu /\ ~r1.ls_error /\ ~r1.ls_valid /\ ~r1.mmu_done /\ r1.mmu_error
         \/ pend.ok /\ ~pend.mmu /\ ~r1.ls_error /\ r1.ls_valid /\ ~r1.mmu_done /\ ~r1.mmu_error
         \/ pend.ok /\ pend.mmu /\ ~r1.ls_error /\ ~r1.ls_valid /\ r1.mmu_done /\ ~r1.mmu_error
      /\ pend.op = "load" /\ pend.ok => data_out = ref[pend.addr]

IInv == Types /\ Where /\ OnBus /\ Reload /\ Lines /\ Found /\ Order /\ Lookup /\ Answer

-----------------------------------------------------------------------------
(* Rows, addresses, requests.                                              *)

\* The registers' first address is an address.
LEMMA ZeroIsAddr == Zero \in Addr /\ Zero.idx \in Idx /\ Zero.row \in Row
<1>1. PICK t \in Tags, i \in Idx : TRUE
  BY CacheAssumption
<1>2. 0 \in Row
  BY CacheAssumption DEF Row
<1>3. [tag |-> t, idx |-> i, row |-> 0] \in Addr
  BY <1>1, <1>2 DEF Addr
<1>4. Zero \in Addr
  BY <1>3 DEF Zero
<1>. QED  BY <1>4 DEF Addr

\* Rows in a circle: the next row, the row before, the distance to the end row
\* (dcache.py's next_row and end_row_ix wrap around at the end of the line).
LEMMA RowFacts ==
    /\ Row \subseteq Nat /\ 0 \in Row
    /\ \A x \in Row : (x + 1) % Rows \in Row /\ (x + Rows - 1) % Rows \in Row
    /\ \A x, y \in Row : Dist(x, y) \in Nat /\ (Dist(x, y) = 0 <=> x = y)
    /\ \A x, y \in Row : x # y => Dist((x + 1) % Rows, y) = Dist(x, y) - 1
    /\ \A x, y \in Row : y = (x + Rows - 1) % Rows => Dist(x, y) = Rows - 1 /\ x # y
    /\ \A x, y \in Row : Dist(x, y) <= Rows - 1
<1>1. \A x \in Row : (x + 1) % Rows = (IF x = Rows - 1 THEN 0 ELSE x + 1)
  BY CacheAssumption DEF Row
<1>2. \A x \in Row : (x + Rows - 1) % Rows = (IF x = 0 THEN Rows - 1 ELSE x - 1)
  BY CacheAssumption DEF Row
<1>. QED  BY <1>1, <1>2, CacheAssumption DEF Row, Dist

\* Two rows as far from a third are one.
LEMMA DistOnce ==
    ASSUME NEW x \in Row, NEW y \in Row, NEW z \in Row, Dist(x, z) = Dist(y, z)
    PROVE  x = y
BY CacheAssumption DEF Row, Dist

\* The parts of a request that LoadStore1 or the MMU sends.
LEMMA RequestFacts ==
    ASSUME NEW q \in Requests
    PROVE  /\ q # None /\ q.addr \in Addr /\ q.addr.idx \in Idx /\ q.addr.row \in Row
           /\ q.addr.tag \in Tags
           /\ get_row(q.addr) \in Idx \X Row
           /\ q.op \in {"load", "store", "dcbz", "tlb"}
           /\ q.nc \in BOOLEAN /\ q.ok \in BOOLEAN /\ q.mmu \in BOOLEAN
           /\ q.mmu => q.op \in {"load", "tlb"}
           /\ q.op = "tlb" => q.mmu /\ q.ok
           /\ q.nc => q.op # "dcbz" /\ <<q.addr.tag, q.addr.idx>> \notin Cached
           /\ ~q.nc /\ q.op \in {"load", "dcbz"} => <<q.addr.tag, q.addr.idx>> \in Cached
<1>1. q \in Request
  BY RequestAssumption
<1>2. q.addr \in Addr /\ q.addr.idx \in Idx /\ q.addr.row \in Row /\ q.addr.tag \in Tags
  BY <1>1 DEF Request, Addr
<1>3. ~q.nc /\ q.op \in {"load", "dcbz"} => <<q.addr.tag, q.addr.idx>> \in Cached
  BY DEF Cached
<1>. QED  BY <1>1, <1>2, <1>3, RequestAssumption DEF Request, get_row

\* A line that is cached is one of an address.
LEMMA CachedTag ==
    ASSUME NEW t, NEW i, <<t, i>> \in Cached
    PROVE  t \in Tags /\ i \in Idx
<1>1. PICK q \in Requests : t = q.addr.tag /\ i = q.addr.idx
  BY DEF Cached
<1>. QED  BY <1>1, RequestFacts

\* An address is its line and its row.
LEMMA AddrParts ==
    ASSUME NEW a \in Addr
    PROVE  /\ a.tag \in Tags /\ a.idx \in Idx /\ a.row \in Row
           /\ a = CellOf(a.tag, a.idx, a.row)
           /\ get_row(a) \in Idx \X Row /\ get_row(a)[1] = a.idx /\ get_row(a)[2] = a.row
BY DEF Addr, CellOf, get_row

\* A line and a row are an address.
LEMMA CellIsAddr ==
    ASSUME NEW t \in Tags, NEW i \in Idx, NEW x \in Row
    PROVE  /\ CellOf(t, i, x) \in Addr /\ CellOf(t, i, x).tag = t
           /\ CellOf(t, i, x).idx = i /\ CellOf(t, i, x).row = x
BY DEF Addr, CellOf

-----------------------------------------------------------------------------
(* The lookup.                                                             *)

\* The set, the row and the way that the reload works on are within their widths.
LEMMA WireTypes ==
    ASSUME Types
    PROVE  /\ store_index \in Idx /\ r1.store_row[2] \in Row
           /\ r1.store_row = <<store_index, r1.store_row[2]>>
           /\ replace_way \in Way
<1>1. r1.store_row \in Idx \X Row /\ r1.store_way \in Way
  BY DEF Types, Stage1
<1>2. store_index \in Idx /\ r1.store_row[2] \in Row
      /\ r1.store_row = <<store_index, r1.store_row[2]>>
  BY <1>1 DEF store_index
<1>3. replace_way \in Way
  BY <1>1, <1>2 DEF replace_way, Types
<1>. QED  BY <1>2, <1>3

\* What a line that stands is.
LEMMA LineFacts ==
    ASSUME Lines, NEW i \in Idx, NEW w \in Way, Stands(i, w)
    PROVE  /\ <<cache_tags[i][w], i>> \in Cached
           /\ \A x \in Row : Cell(w, i, x) = Then(CellOf(cache_tags[i][w], i, x))
BY DEF Lines

\* Two ways that stand for one line are one way.
LEMMA OneWay ==
    ASSUME Lines, NEW i \in Idx, NEW w \in Way, NEW y \in Way, Stands(i, w), Stands(i, y),
           cache_tags[i][y] = cache_tags[i][w]
    PROVE  y = w
BY DEF Lines

\* A way that hits is the one the line is in, and what it holds is there.
LEMMA HitFacts ==
    ASSUME IInv, r0 # None
    PROVE  /\ r0 \in Requests /\ ~r1.full /\ ~r1.write_tag
           /\ reloading <=> Reloaded(r0.addr)
           /\ ~reloading /\ hits = {} => Absent(r0.addr)
           /\ ~reloading /\ hits # {} =>
                /\ req_hit_way \in Way /\ Stands(r0.addr.idx, req_hit_way)
                /\ cache_tags[r0.addr.idx][req_hit_way] = r0.addr.tag
           /\ reloading => req_hit_way = replace_way
           /\ is_hit => req_hit_way \in Way /\ <<r0.addr.tag, r0.addr.idx>> \in Cached
<1>0. Types /\ Where /\ Reload /\ Lines /\ Lookup
  BY DEF IInv
<1>1. r0 \in Requests /\ ~r1.full /\ ~r1.write_tag
  BY <1>0 DEF Where, Reload, Types
<1>2. reloading <=> Reloaded(r0.addr)
  BY DEF reloading, Reloaded, req_same_tag, reload
<1>3. r0.addr.idx \in Idx /\ r0.addr.tag \in Tags
  BY <1>1, RequestFacts
<1>4. ASSUME ~reloading
      PROVE  hits = {w \in Way : /\ Stands(r0.addr.idx, w)
                                /\ cache_tags[r0.addr.idx][w] = r0.addr.tag}
  <2>1. cache_tag_set = cache_tags[r0.addr.idx] /\ cache_valids[r0.addr.idx] \subseteq Way
    BY <1>0, <1>3 DEF Lookup, Types
  <2>2. ASSUME NEW w \in cache_valids[r0.addr.idx],
               cache_tags[r0.addr.idx][w] = r0.addr.tag
        PROVE  Stands(r0.addr.idx, w)
    BY <1>0, <1>1, <1>2, <1>4, <2>2 DEF Stands, Reload, Reloaded
  <2>. QED  BY <2>1, <2>2 DEF hits, Stands
<1>5. ASSUME ~reloading, hits # {}
      PROVE  /\ req_hit_way \in Way /\ Stands(r0.addr.idx, req_hit_way)
             /\ cache_tags[r0.addr.idx][req_hit_way] = r0.addr.tag
  <2>1. PICK w : w \in hits
    BY <1>5
  <2>0. \A y : y \in hits => /\ y \in Way /\ Stands(r0.addr.idx, y)
                             /\ cache_tags[r0.addr.idx][y] = r0.addr.tag
    BY <1>4, <1>5
  <2>2. \A y \in hits : y = w
    BY <1>0, <1>3, <2>0, <2>1, OneWay
  <2>3. hits = {w} /\ w \in Way /\ w \in Nat
    BY <1>4, <1>5, <2>1, <2>2 DEF Way
  <2>4. \A y \in {w} \cup {0} : w >= y
    BY <2>3
  <2>5. Max({w} \cup {0}) = w
    BY <2>3, <2>4 DEF Max
  <2>. QED  BY <1>5, <2>0, <2>1, <2>3, <2>5 DEF req_hit_way
<1>6. reloading => req_hit_way = replace_way /\ replace_way \in Way
  BY <1>0, WireTypes DEF req_hit_way
<1>7. ASSUME is_hit
      PROVE  req_hit_way \in Way /\ <<r0.addr.tag, r0.addr.idx>> \in Cached
  <2>1. CASE reloading
    BY <1>0, <1>2, <1>6, <2>1 DEF Reload, Reloaded
  <2>2. CASE ~reloading
    <3>1. /\ req_hit_way \in Way /\ Stands(r0.addr.idx, req_hit_way)
          /\ cache_tags[r0.addr.idx][req_hit_way] = r0.addr.tag
      BY <1>5, <1>7, <2>2 DEF is_hit
    <3>. QED  BY <1>0, <1>3, <3>1, LineFacts
  <2>. QED  BY <2>1, <2>2
<1>8. ~reloading /\ hits = {} => Absent(r0.addr)
  BY <1>4 DEF Absent
<1>. QED  BY <1>1, <1>2, <1>5, <1>6, <1>7, <1>8

\* What the lookup makes of a request.
LEMMA OpFacts ==
    ASSUME IInv, r0 # None
    PROVE  /\ r0_valid /\ (go <=> r0.op # "tlb")
           /\ r0.op = "tlb" => req_op = "NONE"
           /\ r0.op # "tlb" /\ ~r0.ok => req_op = "BAD"
           /\ r0.op = "load" /\ r0.ok => 
                 req_op = IF is_hit THEN "LOAD_HIT" ELSE IF r0.nc THEN "LOAD_NC" ELSE "LOAD_MISS"
           /\ r0.op \in {"store", "dcbz"} /\ r0.ok =>
                 req_op = IF is_hit THEN "STORE_HIT" ELSE "STORE_MISS"
           /\ req_op \in Slow \cup {"NONE", "BAD", "LOAD_HIT"}
           /\ is_hit => ~r0.nc
<1>1. r0 \in Requests /\ ~r1.full /\ (is_hit => <<r0.addr.tag, r0.addr.idx>> \in Cached)
  BY HitFacts
<1>2. is_hit => ~r0.nc
  BY <1>1, RequestFacts
<1>3. ~answered
  BY DEF IInv, Where
<1>4. ~r1.ls_error /\ r0_valid
  BY <1>1, <1>3 DEF answered, r0_valid
<1>5. go <=> r0.op # "tlb"
  BY <1>4 DEF go
<1>6. /\ r0.op \in {"load", "store", "dcbz", "tlb"}
      /\ r0.ok \in BOOLEAN /\ r0.nc \in BOOLEAN
  BY <1>1, RequestFacts
<1>. QED  BY <1>2, <1>4, <1>5, <1>6 DEF req_op, Slow, Stores

-----------------------------------------------------------------------------
(* Stage 1: what each field is after a clock.                              *)

\* The fields that s does not change, those that no state overrides, and the
\* others, before the states override them.
Kept(s) ==
    /\ s.state = r1.state /\ s.dcbz = r1.dcbz /\ s.reload_tag = r1.reload_tag
    /\ s.store_row = r1.store_row /\ s.end_row_ix = r1.end_row_ix
    /\ s.rows_valid = r1.rows_valid /\ s.acks_pending = r1.acks_pending
Looked(s, ack) ==
    /\ s.mmu_req = (IF r0_valid THEN r0.mmu ELSE r1.mmu_req)
    /\ s.hit_way = (IF go THEN req_hit_way ELSE r1.hit_way)
    /\ s.ls_error <=> req_op = "BAD" /\ ~r0.mmu
    /\ s.mmu_error <=> req_op = "BAD" /\ r0.mmu
    /\ s.paradox <=> req_op = "BAD" /\ r0.ok
    /\ s.cache_hit = (IF req_op \in {"LOAD_HIT", "STORE_HIT"} THEN {r0.addr.idx} ELSE {})
    /\ s.forward_data2 = r1.forward_data1
    /\ s.forward_data1 = (IF r1.write_bram THEN r1.req.data
                          ELSE IF r1.dcbz THEN 0
                          ELSE IF ack /\ ~wb.we THEN mem[wb.adr] ELSE None)
    /\ s.forward_way1 = (IF r1.write_bram THEN r1.req.hit_way ELSE replace_way)
    /\ s.forward_row1 = (IF r1.write_bram THEN get_row(r1.req.addr) ELSE r1.store_row)
Set(s) ==
    /\ s.full <=> r1.full \/ req_op \in Slow
    /\ s.ls_valid <=> req_op = "LOAD_HIT" /\ ~r0.mmu
    /\ s.mmu_done <=> \/ req_op = "LOAD_HIT" /\ r0.mmu
                      \/ r0_valid /\ r0.op = "tlb"
    /\ s.use_forward1 <=> use_forward1_next
    /\ s.forward_sel <=> use_forward1_next \/ use_forward2_next
    /\ s.forward_valid1 = r1.write_bram
    /\ s.write_bram = FALSE /\ s.inc_acks = FALSE /\ s.dec_acks = FALSE
    /\ s.store_way = replace_way /\ s.write_tag = FALSE
    /\ s.req = (IF ~r1.full /\ req_op \in Slow THEN fresh ELSE r1.req)

\* Each register of stage 1 that a clock sets before the state machine overrides it.
LEMMA StageFields ==
    ASSUME NEW ack, DOMAIN r1 = Fields, NEW s, s = stage1(ack)
    PROVE  DOMAIN s = Fields /\ Kept(s) /\ Looked(s, ack) /\ Set(s)
<1>1. DOMAIN s = Fields
  BY DEF stage1
<1>2. Kept(s)
  BY DEF stage1, Fields, Kept
<1>3. Set(s)
  BY DEF stage1, Fields, Set
<1>4. Looked(s, ack)
  BY DEF stage1, Fields, Looked
<1>. QED  BY <1>1, <1>2, <1>3, <1>4

\* The registers of the line, when a slow request starts.
LEMMA StartFields ==
    ASSUME NEW s, DOMAIN s = Fields, NEW t, t = Start(s)
    PROVE  /\ DOMAIN t = Fields
           /\ \A f \in Fields \ {"dcbz", "store_row", "end_row_ix", "reload_tag", "rows_valid"} :
                 t[f] = s[f]
           /\ t.dcbz = req.dcbz /\ t.store_row = get_row(req.addr)
           /\ t.end_row_ix = (req.addr.row + Rows - 1) % Rows
           /\ t.reload_tag = req.addr.tag /\ t.rows_valid = {}
BY DEF Start, Fields

\* A request is answered; the data of a load has come.
another(ack) == ack /\ req.same_tag /\ req.op \in Stores
fetched(ack) == /\ ack
                /\ \/ reload /\ wanted
                   \/ r1.state = "NC_LOAD_WAIT_ACK"
completes(ack) == \/ r1.state = "IDLE" /\ req.op \in Stores /\ ~req.dcbz
                  \/ r1.state = "STORE_WAIT_ACK" /\ another(ack)
                  \/ fetched(ack)
\* Whether it came from the MMU.
side == IF r1.state = "IDLE" THEN req.mmu
        ELSE IF r1.state = "STORE_WAIT_ACK" THEN FALSE ELSE r1.mmu_req
\* Stage 1 takes a request from stage 0.
taken == ~r1.full /\ req_op \in Slow

\* What happens in every state.
Always(s, ack) ==
    /\ DOMAIN s = Fields /\ Looked(s, ack)
    /\ s.full <=> (r1.full \/ req_op \in Slow) /\ ~completes(ack)
    /\ s.ls_valid <=> \/ req_op = "LOAD_HIT" /\ ~r0.mmu
                      \/ completes(ack) /\ ~side
    /\ s.mmu_done <=> \/ req_op = "LOAD_HIT" /\ r0.mmu
                      \/ r0_valid /\ r0.op = "tlb"
                      \/ completes(ack) /\ side
    /\ s.use_forward1 <=> use_forward1_next \/ fetched(ack)
    /\ s.forward_sel <=> use_forward1_next \/ use_forward2_next \/ fetched(ack)
    /\ s.forward_valid1 = (IF reload THEN ack ELSE r1.write_bram)
    /\ \/ s.store_way = replace_way
       \/ req.op = "STORE_HIT" /\ s.store_way = req.hit_way
    /\ IF r1.state = "IDLE"
       THEN s.req = [(IF taken THEN fresh ELSE r1.req) EXCEPT !.same_tag = TRUE]
       ELSE s.req = IF taken THEN fresh ELSE r1.req

\* What a slow request starts.
Started(s) ==
    /\ s.dcbz = req.dcbz /\ s.store_row = get_row(req.addr)
    /\ s.end_row_ix = (req.addr.row + Rows - 1) % Rows
    /\ s.reload_tag = req.addr.tag /\ s.rows_valid = {}
    /\ s.inc_acks = FALSE /\ s.dec_acks = FALSE

IdleTo(s) ==
    \/ req.op \notin Slow /\ Kept(s) /\ s.write_bram = FALSE /\ s.write_tag = FALSE
    \/ /\ req.op = "LOAD_MISS" /\ Started(s) /\ s.state = "RELOAD_WAIT_ACK"
       /\ s.write_tag = TRUE /\ s.write_bram = FALSE /\ s.acks_pending = r1.acks_pending
    \/ /\ req.op = "LOAD_NC" /\ Started(s) /\ s.state = "NC_LOAD_WAIT_ACK"
       /\ s.write_tag = FALSE /\ s.write_bram = FALSE /\ s.acks_pending = r1.acks_pending
    \/ /\ req.op \in Stores /\ ~req.dcbz /\ Started(s) /\ s.state = "STORE_WAIT_ACK"
       /\ s.acks_pending = 1 /\ s.write_tag = FALSE
       /\ (s.write_bram <=> req.op = "STORE_HIT")
    \/ /\ req.op \in Stores /\ req.dcbz /\ Started(s) /\ s.state = "RELOAD_WAIT_ACK"
       /\ (s.write_tag <=> req.op = "STORE_MISS") /\ s.write_bram = FALSE
       /\ req.op = "STORE_HIT" => s.store_way = req.hit_way
       /\ s.acks_pending = r1.acks_pending

\* What a clock in IDLE leaves in stage 1.
LEMMA IdleStep ==
    ASSUME DOMAIN r1 = Fields, NEW ack, Idle(ack)
    PROVE  Always(r1', ack) /\ IdleTo(r1')
<1>1. PICK s0 : s0 = stage1(ack)
  OBVIOUS
<1>2. DOMAIN s0 = Fields /\ Kept(s0) /\ Looked(s0, ack) /\ Set(s0)
  BY <1>1, StageFields
<1>3. PICK s : s = [s0 EXCEPT !.req.same_tag = TRUE]
  OBVIOUS
<1>4. /\ DOMAIN s = Fields
      /\ s.req = [s0.req EXCEPT !.same_tag = TRUE]
      /\ \A f \in Fields \ {"req"} : s[f] = s0[f]
  BY <1>2, <1>3 DEF Fields
<1>5. Kept(s) /\ Looked(s, ack)
  BY <1>2, <1>4 DEF Kept, Looked, Fields
<1>6. /\ s.full <=> r1.full \/ req_op \in Slow
      /\ s.ls_valid <=> req_op = "LOAD_HIT" /\ ~r0.mmu
      /\ s.mmu_done <=> \/ req_op = "LOAD_HIT" /\ r0.mmu
                        \/ r0_valid /\ r0.op = "tlb"
      /\ s.use_forward1 <=> use_forward1_next
      /\ s.forward_sel <=> use_forward1_next \/ use_forward2_next
      /\ s.forward_valid1 = r1.write_bram
      /\ s.write_bram = FALSE /\ s.inc_acks = FALSE /\ s.dec_acks = FALSE
      /\ s.store_way = replace_way /\ s.write_tag = FALSE
      /\ s.req = [(IF taken THEN fresh ELSE r1.req) EXCEPT !.same_tag = TRUE]
  BY <1>2, <1>4 DEF Set, Fields, taken
<1>7. /\ r1.state = "IDLE" /\ ~reload /\ ~fetched(ack) /\ side = req.mmu
      /\ completes(ack) <=> req.op \in Stores /\ ~req.dcbz
  BY DEF Idle, reload, fetched, completes, side
<1>8. \/ req.op \notin Slow /\ r1' = s
      \/ /\ req.op = "LOAD_MISS"
         /\ r1' = [Start(s) EXCEPT !.state = "RELOAD_WAIT_ACK", !.write_tag = TRUE]
      \/ /\ req.op = "LOAD_NC"
         /\ r1' = [Start(s) EXCEPT !.state = "NC_LOAD_WAIT_ACK"]
      \/ /\ req.op \in Stores /\ ~req.dcbz
         /\ r1' = Complete([Start(s) EXCEPT
                               !.state = "STORE_WAIT_ACK", !.acks_pending = 1,
                               !.write_bram = req.op = "STORE_HIT",
                               !.store_way = IF req.op = "STORE_HIT" THEN req.hit_way
                                             ELSE @], req.mmu)
      \/ /\ req.op \in Stores /\ req.dcbz
         /\ r1' = [Start(s) EXCEPT
                      !.state = "RELOAD_WAIT_ACK",
                      !.write_tag = req.op = "STORE_MISS",
                      !.store_way = IF req.op = "STORE_HIT" THEN req.hit_way ELSE @]
  BY <1>1, <1>3 DEF Idle
<1>9. PICK t : t = Start(s)
  OBVIOUS
<1>10. /\ DOMAIN t = Fields
       /\ \A f \in Fields \ {"dcbz", "store_row", "end_row_ix", "reload_tag", "rows_valid"} :
             t[f] = s[f]
       /\ t.dcbz = req.dcbz /\ t.store_row = get_row(req.addr)
       /\ t.end_row_ix = (req.addr.row + Rows - 1) % Rows
       /\ t.reload_tag = req.addr.tag /\ t.rows_valid = {}
  BY <1>4, <1>9, StartFields
<1>11. CASE req.op \notin Slow
  <2>1. r1' = s /\ ~(req.op \in Stores)
    BY <1>8, <1>11 DEF Slow, Stores
  <2>. QED  BY <1>4, <1>5, <1>6, <1>7, <1>11, <2>1 DEF Always, IdleTo
<1>12. CASE req.op = "LOAD_MISS"
  <2>1. r1' = [t EXCEPT !.state = "RELOAD_WAIT_ACK", !.write_tag = TRUE]
    BY <1>8, <1>9, <1>12 DEF Slow, Stores
  <2>2. /\ DOMAIN r1' = Fields /\ r1'.state = "RELOAD_WAIT_ACK" /\ r1'.write_tag = TRUE
        /\ \A f \in Fields \ {"state", "write_tag"} : r1'[f] = t[f]
    BY <1>10, <2>1 DEF Fields
  <2>3. Started(r1') /\ IdleTo(r1')
    BY <1>5, <1>6, <1>10, <1>12, <2>2 DEF Started, IdleTo, Kept, Fields
  <2>4. Looked(r1', ack)
    BY <1>5, <1>10, <2>2 DEF Looked, Fields
  <2>5. ~completes(ack)
    BY <1>7, <1>12 DEF Stores
  <2>6. Always(r1', ack)
    BY <1>6, <1>7, <1>10, <1>12, <2>2, <2>4, <2>5 DEF Always, Fields
  <2>. QED  BY <2>3, <2>6
<1>13. CASE req.op = "LOAD_NC"
  <2>1. r1' = [t EXCEPT !.state = "NC_LOAD_WAIT_ACK"]
    BY <1>8, <1>9, <1>13 DEF Slow, Stores
  <2>2. /\ DOMAIN r1' = Fields /\ r1'.state = "NC_LOAD_WAIT_ACK"
        /\ \A f \in Fields \ {"state"} : r1'[f] = t[f]
    BY <1>10, <2>1 DEF Fields
  <2>3. Started(r1') /\ IdleTo(r1')
    BY <1>5, <1>6, <1>10, <1>13, <2>2 DEF Started, IdleTo, Kept, Fields
  <2>4. Looked(r1', ack)
    BY <1>5, <1>10, <2>2 DEF Looked, Fields
  <2>5. ~completes(ack)
    BY <1>7, <1>13 DEF Stores
  <2>6. Always(r1', ack)
    BY <1>6, <1>7, <1>10, <1>13, <2>2, <2>4, <2>5 DEF Always, Fields
  <2>. QED  BY <2>3, <2>6
<1>14. CASE req.op \in Stores /\ ~req.dcbz
  <2>1. PICK u : u = [t EXCEPT !.state = "STORE_WAIT_ACK", !.acks_pending = 1,
                               !.write_bram = req.op = "STORE_HIT",
                               !.store_way = IF req.op = "STORE_HIT" THEN req.hit_way
                                             ELSE @]
    OBVIOUS
  <2>2. /\ DOMAIN u = Fields /\ u.state = "STORE_WAIT_ACK" /\ u.acks_pending = 1
        /\ (u.write_bram <=> req.op = "STORE_HIT")
        /\ u.store_way = (IF req.op = "STORE_HIT" THEN req.hit_way ELSE t.store_way)
        /\ \A f \in Fields \ {"state", "acks_pending", "write_bram", "store_way"} : u[f] = t[f]
    BY <1>10, <2>1 DEF Fields
  <2>3. PICK v : v = Complete(u, req.mmu)
    OBVIOUS
  <2>9. r1' = v
    BY <1>8, <1>9, <1>14, <2>1, <2>3 DEF Slow, Stores
  <2>10. /\ DOMAIN v = Fields
         /\ \A f \in Fields \ {"full", "ls_valid", "mmu_done"} : v[f] = u[f]
         /\ v.full = FALSE
         /\ v.ls_valid <=> u.ls_valid \/ ~req.mmu
         /\ v.mmu_done <=> u.mmu_done \/ req.mmu
    BY <2>2, <2>3 DEF Complete, Fields
  <2>4. /\ DOMAIN r1' = Fields
        /\ \A f \in Fields \ {"full", "ls_valid", "mmu_done"} : r1'[f] = u[f]
        /\ r1'.full = FALSE
        /\ r1'.ls_valid <=> u.ls_valid \/ ~req.mmu
        /\ r1'.mmu_done <=> u.mmu_done \/ req.mmu
    BY <2>9, <2>10
  <2>5. Started(r1') /\ IdleTo(r1')
    BY <1>6, <1>10, <1>14, <2>2, <2>4 DEF Started, IdleTo, Fields
  <2>6. Looked(r1', ack)
    BY <1>5, <1>10, <2>2, <2>4 DEF Looked, Fields
  <2>7. completes(ack)
    BY <1>7, <1>14
  <2>8. Always(r1', ack)
    BY <1>6, <1>7, <1>10, <1>14, <2>2, <2>4, <2>6, <2>7 DEF Always, Fields
  <2>. QED  BY <2>5, <2>8
<1>15. CASE req.op \in Stores /\ req.dcbz
  <2>1. r1' = [t EXCEPT !.state = "RELOAD_WAIT_ACK",
                        !.write_tag = req.op = "STORE_MISS",
                        !.store_way = IF req.op = "STORE_HIT" THEN req.hit_way ELSE @]
    BY <1>8, <1>9, <1>15 DEF Slow, Stores
  <2>2. /\ DOMAIN r1' = Fields /\ r1'.state = "RELOAD_WAIT_ACK"
        /\ (r1'.write_tag <=> req.op = "STORE_MISS")
        /\ r1'.store_way = (IF req.op = "STORE_HIT" THEN req.hit_way ELSE t.store_way)
        /\ \A f \in Fields \ {"state", "write_tag", "store_way"} : r1'[f] = t[f]
    BY <1>10, <2>1 DEF Fields
  <2>7. Started(r1') /\ r1'.write_bram = FALSE /\ r1'.acks_pending = r1.acks_pending
    BY <1>5, <1>6, <1>10, <2>2 DEF Started, Kept, Fields
  <2>3. IdleTo(r1')
    BY <1>15, <2>2, <2>7 DEF IdleTo
  <2>4. Looked(r1', ack)
    BY <1>5, <1>10, <2>2 DEF Looked, Fields
  <2>5. ~completes(ack)
    BY <1>7, <1>15
  <2>6. Always(r1', ack)
    BY <1>6, <1>7, <1>10, <1>15, <2>2, <2>4, <2>5 DEF Always, Fields
  <2>. QED  BY <2>3, <2>6
<1>16. req.op \in Slow => req.op \in Stores \/ req.op = "LOAD_MISS" \/ req.op = "LOAD_NC"
  BY DEF Slow
<1>. QED  BY <1>11, <1>12, <1>13, <1>14, <1>15, <1>16

ReloadTo(s, ack) ==
    /\ s.dcbz = r1.dcbz /\ s.reload_tag = r1.reload_tag /\ s.end_row_ix = r1.end_row_ix
    /\ s.acks_pending = r1.acks_pending /\ s.store_way = replace_way
    /\ s.write_bram = FALSE /\ s.write_tag = FALSE
    /\ s.inc_acks = FALSE /\ s.dec_acks = FALSE
    /\ s.rows_valid = (IF ack THEN r1.rows_valid \cup {r1.store_row[2]} ELSE r1.rows_valid)
    /\ s.store_row = (IF ack THEN next_row(r1.store_row) ELSE r1.store_row)
    /\ s.state = (IF lineDone(ack) THEN "IDLE" ELSE "RELOAD_WAIT_ACK")

\* What a clock in RELOAD_WAIT_ACK leaves in stage 1.
LEMMA ReloadingStep ==
    ASSUME DOMAIN r1 = Fields, NEW ack, ReloadWaitAck(ack)
    PROVE  Always(r1', ack) /\ ReloadTo(r1', ack)
<1>1. PICK s0 : s0 = stage1(ack)
  OBVIOUS
<1>2. DOMAIN s0 = Fields /\ Kept(s0) /\ Looked(s0, ack) /\ Set(s0)
  BY <1>1, StageFields
<1>3. PICK s : s = [s0 EXCEPT !.forward_valid1 = ack]
  OBVIOUS
<1>4. /\ DOMAIN s = Fields /\ s.forward_valid1 = ack
      /\ \A f \in Fields \ {"forward_valid1"} : s[f] = s0[f]
  BY <1>2, <1>3 DEF Fields
<1>5. PICK t : t = IF ack /\ wanted
                   THEN [Complete(s, r1.mmu_req) EXCEPT !.forward_sel = TRUE,
                                                        !.use_forward1 = TRUE]
                   ELSE s
  OBVIOUS
<1>6. ASSUME ack /\ wanted
      PROVE  /\ DOMAIN t = Fields /\ t.full = FALSE
             /\ t.forward_sel = TRUE /\ t.use_forward1 = TRUE
             /\ t.ls_valid <=> s.ls_valid \/ ~r1.mmu_req
             /\ t.mmu_done <=> s.mmu_done \/ r1.mmu_req
             /\ \A f \in Fields \ {"full", "ls_valid", "mmu_done", "forward_sel",
                                   "use_forward1"} : t[f] = s[f]
  BY <1>4, <1>5, <1>6 DEF Complete, Fields
<1>7. ~(ack /\ wanted) => t = s
  BY <1>5
<1>8. r1' = [t EXCEPT
                 !.rows_valid = IF ack THEN @ \cup {r1.store_row[2]} ELSE @,
                 !.store_row = IF ack THEN next_row(@) ELSE @,
                 !.state = IF lineDone(ack) THEN "IDLE" ELSE @]
  BY <1>1, <1>3, <1>5 DEF ReloadWaitAck
<1>9. DOMAIN t = Fields
  BY <1>4, <1>6, <1>7
<1>10. /\ DOMAIN r1' = Fields
       /\ r1'.rows_valid = (IF ack THEN t.rows_valid \cup {r1.store_row[2]} ELSE t.rows_valid)
       /\ r1'.store_row = (IF ack THEN next_row(t.store_row) ELSE t.store_row)
       /\ r1'.state = (IF lineDone(ack) THEN "IDLE" ELSE t.state)
       /\ \A f \in Fields \ {"rows_valid", "store_row", "state"} : r1'[f] = t[f]
  BY <1>8, <1>9 DEF Fields
<1>11. /\ r1.state = "RELOAD_WAIT_ACK" /\ reload /\ (fetched(ack) <=> ack /\ wanted)
       /\ (completes(ack) <=> ack /\ wanted) /\ side = r1.mmu_req
  BY DEF ReloadWaitAck, reload, fetched, completes, side
<1>12. \A f \in Fields \ {"full", "ls_valid", "mmu_done", "forward_sel", "use_forward1",
                          "forward_valid1"} : t[f] = s0[f]
  BY <1>4, <1>6, <1>7
<1>13. ReloadTo(r1', ack)
  BY <1>2, <1>10, <1>11, <1>12 DEF ReloadTo, Kept, Set, Fields
<1>14. Looked(r1', ack)
  BY <1>2, <1>10, <1>12 DEF Looked, Fields
<1>15. /\ t.full <=> (r1.full \/ req_op \in Slow) /\ ~completes(ack)
       /\ t.ls_valid <=> \/ req_op = "LOAD_HIT" /\ ~r0.mmu
                         \/ completes(ack) /\ ~side
       /\ t.mmu_done <=> \/ req_op = "LOAD_HIT" /\ r0.mmu
                         \/ r0_valid /\ r0.op = "tlb"
                         \/ completes(ack) /\ side
       /\ t.use_forward1 <=> use_forward1_next \/ fetched(ack)
       /\ t.forward_sel <=> use_forward1_next \/ use_forward2_next \/ fetched(ack)
       /\ t.forward_valid1 = ack
  BY <1>2, <1>4, <1>6, <1>7, <1>11 DEF Set, Fields
<1>16. Always(r1', ack)
  BY <1>2, <1>10, <1>11, <1>12, <1>14, <1>15 DEF Always, Set, Fields, taken
<1>. QED  BY <1>13, <1>16

StoreTo(s, ack) ==
    /\ s.dcbz = r1.dcbz /\ s.reload_tag = r1.reload_tag /\ s.end_row_ix = r1.end_row_ix
    /\ s.rows_valid = r1.rows_valid /\ s.store_row = r1.store_row
    /\ s.acks_pending = 1 /\ (s.dec_acks <=> ack) /\ (s.inc_acks <=> another(ack))
    /\ s.store_way = replace_way /\ s.write_tag = FALSE
    /\ s.write_bram <=> another(ack) /\ req.op = "STORE_HIT"
    /\ s.state = (IF ack /\ ~another(ack) THEN "IDLE" ELSE "STORE_WAIT_ACK")

\* What a clock in STORE_WAIT_ACK leaves in stage 1, with one acknowledge pending.
LEMMA StoringStep ==
    ASSUME DOMAIN r1 = Fields, NEW ack, StoreWaitAck(ack),
           r1.acks_pending + (IF r1.inc_acks THEN 1 ELSE 0)
             - (IF r1.dec_acks THEN 1 ELSE 0) = 1
    PROVE  Always(r1', ack) /\ StoreTo(r1', ack)
<1>1. PICK s0 : s0 = stage1(ack)
  OBVIOUS
<1>2. DOMAIN s0 = Fields /\ Kept(s0) /\ Looked(s0, ack) /\ Set(s0)
  BY <1>1, StageFields
<1>. DEFINE acks == r1.acks_pending + (IF r1.inc_acks THEN 1 ELSE 0)
                                    - (IF r1.dec_acks THEN 1 ELSE 0)
            more == ack /\ acks < 7 /\ req.same_tag /\ req.op \in Stores
            next == [stage1(ack) EXCEPT !.acks_pending = acks, !.dec_acks = ack,
                        !.state = IF ack /\ ~more /\ acks = 1 THEN "IDLE" ELSE @]
<1>17. acks = 1
  OBVIOUS
<1>18. more <=> another(ack)
  BY <1>17 DEF another
<1>19. r1' = IF more THEN [Complete(next, FALSE) EXCEPT !.write_bram = req.op = "STORE_HIT",
                                                       !.inc_acks = TRUE]
                    ELSE next
  BY DEF StoreWaitAck
<1>3. PICK s : s = next
  OBVIOUS
<1>20. next = [s0 EXCEPT !.acks_pending = acks, !.dec_acks = ack,
                        !.state = IF ack /\ ~more /\ acks = 1 THEN "IDLE" ELSE @]
  BY <1>1
<1>5. r1' = IF more THEN [Complete(s, FALSE) EXCEPT !.write_bram = req.op = "STORE_HIT",
                                                    !.inc_acks = TRUE]
                    ELSE s
  BY <1>19, <1>3
<1>. HIDE DEF acks, more
<1>4. /\ DOMAIN s = Fields /\ s.acks_pending = 1 /\ s.dec_acks = ack
      /\ s.state = (IF ack /\ ~another(ack) THEN "IDLE" ELSE s0.state)
      /\ \A f \in Fields \ {"acks_pending", "dec_acks", "state"} : s[f] = s0[f]
  BY <1>2, <1>3, <1>17, <1>18, <1>20 DEF Fields
<1>. HIDE DEF next
<1>6. ASSUME another(ack)
      PROVE  /\ DOMAIN r1' = Fields /\ r1'.full = FALSE
             /\ r1'.inc_acks = TRUE /\ (r1'.write_bram <=> req.op = "STORE_HIT")
             /\ (r1'.ls_valid <=> TRUE)
             /\ r1'.mmu_done <=> s.mmu_done
             /\ \A f \in Fields \ {"full", "ls_valid", "mmu_done", "write_bram",
                                   "inc_acks"} : r1'[f] = s[f]
  BY <1>4, <1>5, <1>6, <1>18 DEF Complete, Fields
<1>7. ~another(ack) => r1' = s
  BY <1>5, <1>18
<1>8. DOMAIN r1' = Fields
  BY <1>4, <1>6, <1>7
<1>11. /\ r1.state = "STORE_WAIT_ACK" /\ ~reload /\ ~fetched(ack)
       /\ (completes(ack) <=> another(ack)) /\ side = FALSE
  BY DEF StoreWaitAck, reload, fetched, completes, side
<1>12. \A f \in Fields \ {"full", "ls_valid", "mmu_done", "acks_pending", "dec_acks", "state",
                          "write_bram", "inc_acks"} : r1'[f] = s0[f]
  BY <1>4, <1>6, <1>7
<1>13. StoreTo(r1', ack)
  <2>1. /\ r1'.acks_pending = 1 /\ (r1'.dec_acks <=> ack)
        /\ r1'.state = (IF ack /\ ~another(ack) THEN "IDLE" ELSE "STORE_WAIT_ACK")
    <3>1. s0.state = "STORE_WAIT_ACK"
      BY <1>2, <1>11 DEF Kept
    <3>2. CASE another(ack)
      BY <1>4, <1>6, <3>1, <3>2 DEF Fields
    <3>3. CASE ~another(ack)
      BY <1>4, <1>7, <3>1, <3>3
    <3>. QED  BY <3>2, <3>3
  <2>2. /\ r1'.write_bram <=> another(ack) /\ req.op = "STORE_HIT"
        /\ r1'.inc_acks <=> another(ack)
    BY <1>2, <1>4, <1>6, <1>7 DEF Set, Fields
  <2>. QED  BY <1>2, <1>12, <2>1, <2>2 DEF StoreTo, Kept, Set, Fields
<1>14. Looked(r1', ack)
  BY <1>2, <1>12 DEF Looked, Fields
<1>15. /\ r1'.full <=> (r1.full \/ req_op \in Slow) /\ ~completes(ack)
       /\ r1'.ls_valid <=> \/ req_op = "LOAD_HIT" /\ ~r0.mmu
                           \/ completes(ack) /\ ~side
       /\ r1'.mmu_done <=> \/ req_op = "LOAD_HIT" /\ r0.mmu
                           \/ r0_valid /\ r0.op = "tlb"
                           \/ completes(ack) /\ side
  <2>1. CASE another(ack)
    BY <1>2, <1>4, <1>6, <1>11, <2>1 DEF Set, Fields
  <2>2. CASE ~another(ack)
    BY <1>2, <1>4, <1>7, <1>11, <2>2 DEF Set, Fields
  <2>. QED  BY <2>1, <2>2
<1>16. Always(r1', ack)
  BY <1>2, <1>8, <1>11, <1>12, <1>14, <1>15 DEF Always, Set, Fields, taken
<1>. QED  BY <1>13, <1>16

NcTo(s, ack) ==
    /\ s.dcbz = r1.dcbz /\ s.write_bram = FALSE /\ s.write_tag = FALSE
    /\ s.inc_acks = FALSE /\ s.dec_acks = FALSE
    /\ s.store_row = r1.store_row /\ s.reload_tag = r1.reload_tag
    /\ s.end_row_ix = r1.end_row_ix /\ s.rows_valid = r1.rows_valid
    /\ s.acks_pending = r1.acks_pending
    /\ s.state = (IF ack THEN "IDLE" ELSE "NC_LOAD_WAIT_ACK")

\* What a clock in NC_LOAD_WAIT_ACK leaves in stage 1.
LEMMA NcStep ==
    ASSUME DOMAIN r1 = Fields, NEW ack, NcLoadWaitAck(ack)
    PROVE  Always(r1', ack) /\ NcTo(r1', ack)
<1>1. PICK s : s = stage1(ack)
  OBVIOUS
<1>2. DOMAIN s = Fields /\ Kept(s) /\ Looked(s, ack) /\ Set(s)
  BY <1>1, StageFields
<1>3. r1' = IF ack
            THEN [Complete(s, r1.mmu_req) EXCEPT
                     !.state = "IDLE", !.forward_sel = TRUE, !.use_forward1 = TRUE]
            ELSE s
  BY <1>1 DEF NcLoadWaitAck
<1>4. ASSUME ack
      PROVE  /\ DOMAIN r1' = Fields /\ r1'.full = FALSE /\ r1'.state = "IDLE"
             /\ r1'.forward_sel = TRUE /\ r1'.use_forward1 = TRUE
             /\ r1'.ls_valid <=> s.ls_valid \/ ~r1.mmu_req
             /\ r1'.mmu_done <=> s.mmu_done \/ r1.mmu_req
             /\ \A f \in Fields \ {"full", "ls_valid", "mmu_done", "forward_sel",
                                   "use_forward1", "state"} : r1'[f] = s[f]
  BY <1>2, <1>3, <1>4 DEF Complete, Fields
<1>5. ~ack => r1' = s
  BY <1>3
<1>6. /\ r1.state = "NC_LOAD_WAIT_ACK" /\ ~reload /\ (fetched(ack) <=> ack)
      /\ (completes(ack) <=> ack) /\ side = r1.mmu_req
  BY DEF NcLoadWaitAck, reload, fetched, completes, side
<1>7. DOMAIN r1' = Fields
  BY <1>2, <1>4, <1>5
<1>8. \A f \in Fields \ {"full", "ls_valid", "mmu_done", "forward_sel", "use_forward1",
                         "state"} : r1'[f] = s[f]
  BY <1>4, <1>5
<1>9. r1'.state = (IF ack THEN "IDLE" ELSE "NC_LOAD_WAIT_ACK")
  BY <1>2, <1>4, <1>5, <1>6 DEF Kept
<1>10. NcTo(r1', ack)
  BY <1>2, <1>8, <1>9 DEF NcTo, Kept, Set, Fields
<1>11. Looked(r1', ack)
  BY <1>2, <1>8 DEF Looked, Fields
<1>12. /\ r1'.full <=> (r1.full \/ req_op \in Slow) /\ ~completes(ack)
       /\ r1'.ls_valid <=> \/ req_op = "LOAD_HIT" /\ ~r0.mmu
                           \/ completes(ack) /\ ~side
       /\ r1'.mmu_done <=> \/ req_op = "LOAD_HIT" /\ r0.mmu
                           \/ r0_valid /\ r0.op = "tlb"
                           \/ completes(ack) /\ side
       /\ r1'.use_forward1 <=> use_forward1_next \/ fetched(ack)
       /\ r1'.forward_sel <=> use_forward1_next \/ use_forward2_next \/ fetched(ack)
  BY <1>2, <1>4, <1>5, <1>6 DEF Set
<1>13. Always(r1', ack)
  BY <1>2, <1>6, <1>7, <1>8, <1>11, <1>12 DEF Always, Set, Fields, taken
<1>. QED  BY <1>10, <1>13

-----------------------------------------------------------------------------
(* The request that stage 1 works on.                                      *)

\* The way of the lookup is a way, hit or miss.
LEMMA HitWay ==
    ASSUME IInv, r0 # None
    PROVE  req_hit_way \in Way
<1>1. CASE reloading
  BY <1>1, HitFacts, WireTypes DEF IInv
<1>2. CASE ~reloading /\ hits # {}
  BY <1>2, HitFacts
<1>3. CASE ~reloading /\ hits = {}
  <2>1. {0} \cup hits = {0} /\ \A y \in {0} : 0 >= y
    BY <1>3
  <2>2. Max(hits \cup {0}) = 0
    BY <2>1 DEF Max
  <2>. QED  BY <1>3, <2>2, CacheAssumption DEF req_hit_way, Way
<1>. QED  BY <1>1, <1>2, <1>3

\* A request waits if and only if stage 0 or stage 1 has it.
LEMMA Waits ==
    ASSUME IInv
    PROVE  waiting <=> r1.full \/ r0 # None
BY DEF IInv, Where, waiting

\* What is taken from stage 0 is as the lookup says.
LEMMA FreshFound ==
    ASSUME IInv, r0 # None, req_op \in Slow
    PROVE  FoundOf(fresh) /\ ~(r1.dcbz /\ Reloaded(r0.addr))
<1>0. Types /\ OnBus /\ Reload
  BY DEF IInv
<1>. DEFINE a == r0.addr
<1>1. /\ fresh.op = req_op /\ fresh.addr = a /\ fresh.hit_way = req_hit_way
      /\ fresh.same_tag <=> a.tag = r1.reload_tag
  BY DEF fresh, req_same_tag
<1>2. /\ r0 \in Requests /\ a.idx \in Idx
      /\ r0.op \in {"load", "store", "dcbz"} /\ r0.ok
  BY HitFacts, OpFacts, RequestFacts DEF Slow, Stores
<1>3. ~(r1.dcbz /\ Reloaded(a))
  BY <1>0 DEF OnBus, Reloaded
<1>4. req_op # "STORE_HIT" => ~is_hit
  BY <1>2, OpFacts DEF Slow, Stores
<1>5. ASSUME ~is_hit
      PROVE  /\ Absent(a)
             /\ Reloaded(a) => r0.op = "load" /\ a.row \notin r1.rows_valid
  <2>1. CASE Reloaded(a)
    <3>1. r0.op = "load" /\ a.row \notin r1.rows_valid
      BY <1>5, <2>1, HitFacts DEF is_hit
    <3>2. \A w \in Way : Stands(a.idx, w) => cache_tags[a.idx][w] # a.tag
      BY <1>0, <2>1 DEF Stands, Reload, Reloaded
    <3>. QED  BY <3>1, <3>2 DEF Absent
  <2>2. CASE ~Reloaded(a)
    <3>1. ~reloading /\ hits = {}
      BY <1>5, <2>2, HitFacts DEF is_hit
    <3>. QED  BY <2>2, <3>1, HitFacts
  <2>. QED  BY <2>1, <2>2
<1>6. ASSUME req_op = "STORE_HIT"
      PROVE  /\ Reloaded(a) => req_hit_way = replace_way /\ ~r1.write_tag
             /\ ~Reloaded(a) => /\ Stands(a.idx, req_hit_way)
                                /\ cache_tags[a.idx][req_hit_way] = a.tag
  <2>1. is_hit
    BY <1>2, <1>6, OpFacts
  <2>2. CASE Reloaded(a)
    BY <2>2, HitFacts
  <2>3. CASE ~Reloaded(a)
    <3>1. ~reloading /\ hits # {}
      BY <2>1, <2>3, HitFacts DEF is_hit
    <3>. QED  BY <2>3, <3>1, HitFacts
  <2>. QED  BY <2>2, <2>3
<1>7. /\ req_op = "STORE_MISS" => r0.op # "load"
      /\ req_op = "LOAD_NC" => r0.nc
  BY <1>2, OpFacts DEF Slow, Stores
<1>8. r0.nc => ~Reloaded(a)
  BY <1>0, <1>2, RequestFacts DEF Reload, Reloaded
<1>9. Reloaded(a) => a.tag = r1.reload_tag
  BY DEF Reloaded
<1>. QED  BY <1>1, <1>3, <1>4, <1>5, <1>6, <1>7, <1>8, <1>9 DEF FoundOf

\* A request that stage 1 works on is the one that waits.
LEMMA ReqFacts ==
    ASSUME IInv, req.op \in Slow
    PROVE  /\ waiting /\ pend \in Requests /\ pend.ok /\ pend.op # "tlb"
           /\ req \in Held /\ req.addr = pend.addr /\ req.mmu = pend.mmu
           /\ pend.mmu = IF r0_valid THEN r0.mmu ELSE r1.mmu_req
           /\ pend.op = "load" => req.op \in {"LOAD_MISS", "LOAD_NC"} /\ ~req.dcbz
           /\ pend.op = "store" => /\ req.op \in Stores /\ ~req.dcbz
                                   /\ req.data = IF r1.full THEN r1.req.data ELSE d_data
           /\ pend.op = "dcbz" => req.op \in Stores /\ req.dcbz /\ req.data = 0
           /\ req.op = "LOAD_MISS" => ~pend.nc
           /\ FoundOf(req)
           /\ req = IF taken THEN fresh ELSE r1.req
           /\ r1.full \/ taken
           /\ req_op \in Slow \cup {"NONE"}
           /\ ~(r0_valid /\ r0.op = "tlb")
<1>0. Types /\ Where /\ Found
  BY DEF IInv
<1>1. CASE r1.full
  <2>1. r0 = None /\ ~r0_valid /\ ~go /\ req_op = "NONE" /\ req = r1.req /\ ~taken
    BY <1>0, <1>1 DEF Where, r0_valid, go, req_op, req, taken, Slow, Stores
  <2>2. pend \in Requests /\ r1.req \in Held
    BY <1>0, <1>1 DEF Where, waiting, Types, Stage1
  <2>. QED  BY <1>0, <1>1, <2>1, <2>2 DEF Where, Found
<1>2. CASE ~r1.full
  <2>1. go /\ r0 # None /\ req = fresh
    BY <1>2 DEF req, NoReq, Slow, Stores, go, r0_valid
  <2>2. req_op \in Slow /\ taken /\ r0_valid /\ r0.op # "tlb"
    BY <1>2, <2>1 DEF fresh, taken, go
  <2>3. pend = r0 /\ r0 \in Requests /\ waiting
    BY <1>0, <2>1, Waits, HitFacts DEF Where
  <2>4. r0.ok /\ r0.op \in {"load", "store", "dcbz"}
    BY <2>1, <2>2, <2>3, OpFacts, RequestFacts DEF Slow, Stores
  <2>5. fresh \in Held
    <3>1. r0.addr \in Addr /\ req_hit_way \in Way /\ r0.mmu \in BOOLEAN /\ d_data \in Vals
      BY <1>0, <2>1, <2>3, HitWay, RequestFacts DEF Types
    <3>2. (r0.op = "dcbz") \in BOOLEAN /\ req_same_tag \in BOOLEAN
      BY DEF req_same_tag
    <3>3. (IF r0.op = "dcbz" THEN 0 ELSE d_data) \in Vals
      BY <3>1, CacheAssumption
    <3>. QED  BY <2>2, <3>1, <3>2, <3>3 DEF fresh, Held
  <2>6. /\ r0.op = "load" => req_op \in {"LOAD_MISS", "LOAD_NC"}
        /\ r0.op \in {"store", "dcbz"} => req_op \in Stores
        /\ req_op = "LOAD_MISS" => ~r0.nc
    BY <2>1, <2>2, <2>4, OpFacts DEF Slow, Stores
  <2>7. /\ fresh.addr = r0.addr /\ fresh.mmu = r0.mmu /\ fresh.op = req_op
        /\ fresh.dcbz <=> r0.op = "dcbz"
        /\ fresh.data = IF r0.op = "dcbz" THEN 0 ELSE d_data
    BY DEF fresh
  <2>. QED  BY <1>2, <2>1, <2>2, <2>3, <2>4, <2>5, <2>6, <2>7, FreshFound
<1>. QED  BY <1>1, <1>2

\* Its tag is the one that is on the bus, or not.
LEMMA SameTag ==
    ASSUME IInv, req.op \in Slow, r1.state \in {"RELOAD_WAIT_ACK", "STORE_WAIT_ACK"}
    PROVE  req.same_tag <=> req.addr.tag = r1.reload_tag
<1>1. CASE taken
  <2>1. req = fresh
    BY <1>1, ReqFacts
  <2>2. fresh.addr = r0.addr /\ fresh.same_tag = (r0.addr.tag = r1.reload_tag)
    BY DEF fresh, req_same_tag
  <2>. QED  BY <2>1, <2>2
<1>2. CASE ~taken
  BY <1>2, ReqFacts DEF IInv, OnBus, reload
<1>. QED  BY <1>1, <1>2

-----------------------------------------------------------------------------
(* A clock.                                                                *)

\* One clock in which nothing goes wrong.
Tick(q, v, ack) == /\ IInv /\ ~spoils(q, ack)
                   /\ q \in Requests \cup {None} /\ v \in Data(q) /\ ack \in BOOLEAN
                   /\ Clock(q, v, ack)

\* While a request waits no other is sent; when none does stage 1 has none.
LEMMA SendStep ==
    ASSUME NEW q, NEW v, NEW ack, Tick(q, v, ack)
    PROVE  /\ v \in Vals /\ d_data' = v
           /\ waiting => /\ q = None /\ r0' = None /\ pend' = pend /\ ref' = ref
                         /\ d_data' = d_data
           /\ ~waiting => /\ r0' = q /\ pend' = q /\ r0 = None /\ ~r1.full
                          /\ ~r0_valid /\ req_op = "NONE" /\ req = NoReq
                          /\ req.op = "NONE"
           /\ q # None => q \in Requests
           /\ q # None => ~untimely(q, ack)
<1>0. /\ Types /\ Send(q, v) /\ v \in Data(q) /\ q \in Requests \cup {None}
      /\ ~spoils(q, ack)
  BY DEF Tick, IInv, Clock
<1>1. ~r0_stall
  BY DEF Tick, IInv, Where, r0_stall
<1>2. v \in Vals /\ d_data' = v
  BY <1>0 DEF Data, Send, Types
<1>3. ASSUME waiting
      PROVE  /\ q = None /\ r0' = None /\ pend' = pend /\ ref' = ref
             /\ d_data' = d_data
  BY <1>0, <1>1, <1>3 DEF waiting, Send, Data
<1>4. ASSUME ~waiting
      PROVE  /\ r0' = q /\ pend' = q /\ r0 = None /\ ~r1.full
             /\ ~r0_valid /\ req_op = "NONE" /\ req = NoReq
             /\ req.op = "NONE"
  <2>1. r0 = None /\ ~r1.full
    BY <1>4, Waits DEF Tick
  <2>2. ~r0_valid /\ ~go
    BY <2>1 DEF r0_valid, go
  <2>3. req_op = "NONE" /\ req = NoReq /\ NoReq.op = "NONE"
    BY <2>1, <2>2 DEF req_op, req, NoReq
  <2>. QED  BY <1>0, <1>1, <1>4, <2>1, <2>2, <2>3 DEF waiting, Send
<1>5. /\ q # None => q \in Requests
      /\ q # None => ~untimely(q, ack)
  BY <1>0 DEF spoils
<1>. QED  BY <1>2, <1>3, <1>4, <1>5

\* Who is answered by stage 1 is the request that waits.
LEMMA Completion ==
    ASSUME NEW q, NEW v, NEW ack, Tick(q, v, ack), completes(ack)
    PROVE  /\ req.op \in Slow /\ waiting /\ (side <=> pend.mmu)
           /\ ~reload => ~fetched(ack) \/ req.op = "LOAD_NC"
           /\ reload /\ fetched(ack) =>
                /\ req.addr = CellOf(r1.reload_tag, store_index, r1.store_row[2])
                /\ r1.dcbz <=> req.dcbz
                /\ ~r1.dcbz => /\ req.op = "LOAD_MISS" /\ r1.req.op = "LOAD_MISS"
                               /\ r1.req.same_tag /\ req.same_tag
<1>0. Types /\ OnBus /\ Where /\ IInv
  BY DEF Tick, IInv
<1>1. CASE r1.state = "IDLE"
  <2>1. req.op \in Slow /\ ~reload /\ ~fetched(ack) /\ side = req.mmu
    BY <1>1 DEF completes, fetched, reload, side, Slow
  <2>. QED  BY <1>0, <2>1, ReqFacts
<1>2. CASE r1.state = "STORE_WAIT_ACK"
  <2>1. req.op \in Stores /\ ~reload /\ ~fetched(ack) /\ side = FALSE
    BY <1>2 DEF completes, fetched, another, reload, side, Slow
  <2>2. req.op \in Slow
    BY <2>1 DEF Slow
  <2>3. /\ pend \in Requests /\ pend.op # "tlb" /\ waiting
        /\ pend.op = "load" => req.op \in {"LOAD_MISS", "LOAD_NC"}
    BY <1>0, <2>2, ReqFacts
  <2>4. ~pend.mmu
    BY <2>1, <2>3, RequestFacts DEF Stores
  <2>. QED  BY <2>1, <2>2, <2>3, <2>4
<1>3. CASE r1.state = "NC_LOAD_WAIT_ACK"
  <2>1. r1.full /\ r1.req.op = "LOAD_NC" /\ ~reload /\ side = r1.mmu_req
    BY <1>0, <1>3 DEF OnBus, reload, side
  <2>2. req = r1.req /\ r1.mmu_req = pend.mmu /\ waiting
    BY <1>0, <2>1 DEF req, Where
  <2>. QED  BY <2>1, <2>2 DEF Slow
<1>4. CASE reload
  <2>1. wanted /\ fetched(ack) /\ ack /\ side = r1.mmu_req
    BY <1>4 DEF completes, fetched, reload, side
  <2>2. ~mistaken
    BY <2>1 DEF Tick, spoils
  <2>3. req.op = r1.req.op /\ req.same_tag /\ req.mmu = r1.mmu_req
    BY <1>4, <2>1, <2>2 DEF mistaken, reload
  <2>4. req.op \in Slow
    <3>1. r1.req \in Held
      BY <1>0 DEF Types, Stage1
    <3>. QED  BY <2>1, <2>3, <3>1 DEF wanted, Held
  <2>5. /\ waiting /\ req.mmu = pend.mmu /\ req.addr \in Addr /\ req.addr = pend.addr
        /\ req \in Held /\ (r1.full \/ taken)
        /\ req = IF taken THEN fresh ELSE r1.req
    BY <1>0, <2>4, ReqFacts DEF Held
  <2>6. req.addr.tag = r1.reload_tag
    BY <1>0, <1>4, <2>3, <2>4, SameTag DEF reload
  <2>7. r1.store_row = get_row(req.addr) /\ r1.req.same_tag
    BY <2>1 DEF wanted
  <2>8. req.addr = CellOf(r1.reload_tag, store_index, r1.store_row[2])
    BY <2>5, <2>6, <2>7, AddrParts DEF store_index
  <2>9. ~r1.dcbz => req.op = "LOAD_MISS" /\ r1.req.op = "LOAD_MISS"
    BY <2>1, <2>3 DEF wanted
  <2>10. pend.op \in {"load", "store", "dcbz"} /\ r1.dcbz \in BOOLEAN
    BY <1>0, <2>4, ReqFacts, RequestFacts DEF Types, Stage1
  <2>11. req.op = "LOAD_MISS" => ~req.dcbz
    BY <1>0, <2>4, <2>10, ReqFacts DEF Stores
  <2>12. r1.dcbz => req.dcbz
    <3>1. SUFFICES ASSUME r1.dcbz PROVE req.dcbz
      OBVIOUS
    <3>2. ~taken
      <4>1. r0 # None => r0.addr.tag # r1.reload_tag
        BY <1>0, <1>4, <3>1 DEF OnBus
      <4>2. taken => r0 # None /\ fresh.addr = r0.addr
        <5>1. taken => r0 # None
          BY DEF taken, req_op, go, r0_valid, Slow, Stores
        <5>. QED  BY <5>1 DEF fresh
      <4>. QED  BY <2>5, <2>6, <4>1, <4>2
    <3>. QED  BY <2>1, <2>5, <3>1, <3>2 DEF wanted
  <2>. QED  BY <1>4, <2>1, <2>3, <2>4, <2>5, <2>7, <2>8, <2>9, <2>10, <2>11, <2>12
<1>. QED  BY <1>0, <1>1, <1>2, <1>3, <1>4 DEF Types, Stage1, States, reload

\* What a clock does in each state, given the invariant.
FromIdle ==
    /\ r1.state = "IDLE" /\ IdleTo(r1') /\ mem' = mem /\ cache_ram' = cache_ram
    /\ cache_tags' = cache_tags /\ cache_valids' = cache_valids
    /\ wb' = IF req.op \in Slow
             THEN [adr |-> req.addr, dat |-> req.data, we |-> req.op \in Stores,
                   cyc |-> TRUE, stb |-> TRUE]
             ELSE wb

done(ack) == ack /\ r1.store_row[2] = r1.end_row_ix
FromReload(ack) ==
    /\ reload /\ ReloadTo(r1', ack) /\ ~r1.write_bram
    /\ r1'.state = (IF done(ack) THEN "IDLE" ELSE "RELOAD_WAIT_ACK")
    /\ wb' \in Bus
    /\ (wb'.stb <=> ~done(ack)) /\ (wb'.cyc <=> ~done(ack))
    /\ wb'.we = wb.we /\ wb'.dat = wb.dat
    /\ wb'.adr = CellOf(r1.reload_tag, store_index, r1'.store_row[2])
    /\ mem' = IF ack /\ r1.dcbz
              THEN [mem EXCEPT ![CellOf(r1.reload_tag, store_index, r1.store_row[2])] = 0]
              ELSE mem
    /\ cache_tags' = IF r1.write_tag
                     THEN [cache_tags EXCEPT ![store_index][replace_way] = r1.reload_tag]
                     ELSE cache_tags
    /\ cache_valids' = IF done(ack)
                       THEN [cache_valids EXCEPT ![store_index] = @ \cup {r1.store_way}]
                       ELSE cache_valids
    /\ cache_ram' =
         IF ack
         THEN [cache_ram EXCEPT ![replace_way][<<store_index, r1.store_row[2]>>] =
                  IF r1.dcbz THEN 0
                  ELSE mem[CellOf(r1.reload_tag, store_index, r1.store_row[2])]]
         ELSE cache_ram

FromStore(ack) ==
    /\ r1.state = "STORE_WAIT_ACK" /\ StoreTo(r1', ack)
    /\ wb' \in Bus
    /\ wb'.stb <=> ~ack \/ another(ack)
    /\ wb'.cyc <=> ~ack \/ another(ack)
    /\ wb'.we /\ (wb'.stb => wb'.adr.tag = wb.adr.tag)
    /\ ~ack => wb' = wb
    /\ another(ack) => wb'.adr = req.addr /\ wb'.dat = req.data /\ req.op \in Slow
    /\ mem' = IF ack THEN [mem EXCEPT ![wb.adr] = wb.dat] ELSE mem
    /\ cache_tags' = cache_tags /\ cache_valids' = cache_valids
    /\ cache_ram' = IF r1.write_bram
                    THEN [cache_ram EXCEPT ![r1.req.hit_way][get_row(r1.req.addr)] = r1.req.data]
                    ELSE cache_ram

FromNc(ack) ==
    /\ r1.state = "NC_LOAD_WAIT_ACK" /\ NcTo(r1', ack) /\ mem' = mem
    /\ cache_tags' = cache_tags /\ cache_valids' = cache_valids /\ cache_ram' = cache_ram
    /\ wb' \in Bus
    /\ ~ack => wb' = wb
    /\ ack => ~wb'.cyc

\* Addresses go on the wires.
LEMMA AddrWires == Addr \subseteq [tag : Nat, idx : Idx, row : Row]
BY CacheAssumption DEF Addr

LEMMA WireRecord ==
    ASSUME NEW a \in [tag : Nat, idx : Idx, row : Row], NEW d \in Vals, NEW w \in BOOLEAN,
           NEW c \in BOOLEAN, NEW s \in BOOLEAN
    PROVE  [adr |-> a, dat |-> d, we |-> w, cyc |-> c, stb |-> s] \in Wires
BY DEF Wires

\* The wishbone registers, put together.
LEMMA BusRecord ==
    ASSUME NEW a \in Addr, NEW d \in Vals, NEW w \in BOOLEAN, NEW c \in BOOLEAN,
           NEW s \in BOOLEAN
    PROVE  [adr |-> a, dat |-> d, we |-> w, cyc |-> c, stb |-> s] \in Bus
<1>1. [adr |-> a, dat |-> d, we |-> w, cyc |-> c, stb |-> s] \in Wires
  BY AddrWires, WireRecord
<1>. QED  BY <1>1 DEF Bus

\* A clock in IDLE: no acknowledge comes, the arrays stay.
LEMMA IdleTick ==
    ASSUME NEW q, NEW v, NEW ack, Tick(q, v, ack), Idle(ack)
    PROVE  ~ack /\ Always(r1', ack) /\ FromIdle
<1>0. Types /\ OnBus /\ Reload /\ Wishbone(ack) /\ Rams(q, ack) /\ TagWrite
  BY DEF Tick, IInv, Clock
<1>1. DOMAIN r1 = Fields
  BY <1>0 DEF Types, Stage1, Fields
<1>2. r1.state = "IDLE" /\ ~ack /\ ~r1.write_bram /\ ~r1.write_tag
  BY <1>0 DEF Idle, OnBus, Wishbone, Reload, reload
<1>3. Always(r1', ack) /\ IdleTo(r1')
  BY <1>1, IdleStep
<1>4. mem' = mem /\ cache_ram' = cache_ram /\ cache_tags' = cache_tags
  BY <1>0, <1>2 DEF Wishbone, Rams, TagWrite
<1>. QED  BY <1>2, <1>3, <1>4 DEF FromIdle, Idle

\* A clock in RELOAD_WAIT_ACK: a row arrives, or not; after the last the line is valid.
LEMMA ReloadTick ==
    ASSUME NEW q, NEW v, NEW ack, Tick(q, v, ack), ReloadWaitAck(ack)
    PROVE  Always(r1', ack) /\ FromReload(ack)
<1>0. Types /\ OnBus /\ Wishbone(ack) /\ Rams(q, ack) /\ TagWrite /\ IInv /\ ack \in BOOLEAN
  BY DEF Tick, IInv, Clock
<1>1. DOMAIN r1 = Fields
  BY <1>0 DEF Types, Stage1, Fields
<1>2. Always(r1', ack) /\ ReloadTo(r1', ack) /\ reload
  BY <1>1, ReloadingStep DEF ReloadWaitAck, reload
<1>3. /\ wb.stb /\ wb.cyc /\ wb.we = r1.dcbz /\ (r1.dcbz => wb.dat = 0)
      /\ wb.adr = CellOf(r1.reload_tag, store_index, r1.store_row[2])
      /\ ~r1.write_bram /\ wb.adr \in Addr /\ r1.end_row_ix \in Row
      /\ wb \in Bus
      /\ r1.dcbz \in BOOLEAN
  BY <1>0, <1>2 DEF OnBus, reload, Types, Stage1, Bus
<1>4. /\ store_index \in Idx /\ r1.store_row[2] \in Row
      /\ r1.store_row = <<store_index, r1.store_row[2]>> /\ replace_way \in Way
  BY <1>0, WireTypes
<1>5. wb.adr.row = r1.store_row[2] /\ wb.adr.tag = r1.reload_tag /\ wb.adr.idx = store_index
  BY <1>3 DEF CellOf
<1>6. (lineDone(ack) <=> done(ack)) /\ (lastStb(ack) <=> done(ack))
  BY <1>3, <1>5 DEF lineDone, lastStb, done
<1>7. r1'.store_row = (IF ack THEN <<store_index, (r1.store_row[2] + 1) % Rows>>
                       ELSE <<store_index, r1.store_row[2]>>)
  BY <1>2, <1>4 DEF ReloadTo, next_row, store_index
<1>8. r1'.store_row[2] = (IF ack THEN (r1.store_row[2] + 1) % Rows ELSE r1.store_row[2])
  BY <1>7
<1>9. wb' = [wb EXCEPT !.stb = @ /\ ~lastStb(ack),
                       !.adr.row = IF ack /\ wb.stb THEN (@ + 1) % Rows ELSE @,
                       !.cyc = @ /\ ~lineDone(ack)]
  BY DEF ReloadWaitAck
<1>10. /\ (wb'.stb <=> ~done(ack)) /\ (wb'.cyc <=> ~done(ack))
       /\ wb'.we = wb.we /\ wb'.dat = wb.dat
  BY <1>3, <1>6, <1>9 DEF Bus, Wires
<1>11. wb'.adr = [wb.adr EXCEPT !.row = IF ack /\ wb.stb THEN (@ + 1) % Rows ELSE @]
  BY <1>3, <1>9
<1>12. wb'.adr = CellOf(r1.reload_tag, store_index, r1'.store_row[2])
  BY <1>3, <1>5, <1>8, <1>11 DEF CellOf
<1>13. wb'.adr \in Addr
  <2>1. wb.adr.tag \in Tags
    BY <1>3, AddrParts
  <2>2. (r1.store_row[2] + 1) % Rows \in Row
    BY <1>4, RowFacts
  <2>3. r1'.store_row[2] \in Row
    BY <1>4, <1>8, <2>2
  <2>. QED  BY <1>4, <1>5, <1>12, <2>1, <2>3, CellIsAddr
<1>14. wb' \in Bus
  <2>2. wb' = [adr |-> wb'.adr, dat |-> wb'.dat, we |-> wb'.we, cyc |-> wb.cyc /\ ~lineDone(ack),
               stb |-> wb.stb /\ ~lastStb(ack)]
    BY <1>3, <1>9 DEF Bus, Wires
  <2>3. /\ wb'.dat \in Vals /\ wb'.we \in BOOLEAN
        /\ (wb.cyc /\ ~lineDone(ack)) \in BOOLEAN /\ (wb.stb /\ ~lastStb(ack)) \in BOOLEAN
    BY <1>3, <1>10 DEF Bus, Wires
  <2>. QED  BY <1>13, <2>2, <2>3, BusRecord
<1>15. cache_valids' = IF done(ack)
                       THEN [cache_valids EXCEPT ![store_index] = @ \cup {r1.store_way}]
                       ELSE cache_valids
  BY <1>6 DEF ReloadWaitAck
<1>16. mem' = IF ack /\ r1.dcbz
              THEN [mem EXCEPT ![CellOf(r1.reload_tag, store_index, r1.store_row[2])] = 0]
              ELSE mem
  BY <1>0, <1>3 DEF Wishbone
<1>17. cache_ram' =
         IF ack
         THEN [cache_ram EXCEPT ![replace_way][<<store_index, r1.store_row[2]>>] =
                  IF r1.dcbz THEN 0
                  ELSE mem[CellOf(r1.reload_tag, store_index, r1.store_row[2])]]
         ELSE cache_ram
  BY <1>0, <1>2, <1>3, <1>4 DEF Rams, reload
<1>18. r1'.state = (IF done(ack) THEN "IDLE" ELSE "RELOAD_WAIT_ACK")
  BY <1>2, <1>6 DEF ReloadTo
<1>. QED  BY <1>0, <1>2, <1>3, <1>10, <1>12, <1>14, <1>15, <1>16, <1>17, <1>18
          DEF FromReload, TagWrite

\* A clock in STORE_WAIT_ACK: the store is done, another one may follow it.
LEMMA StoreTick ==
    ASSUME NEW q, NEW v, NEW ack, Tick(q, v, ack), StoreWaitAck(ack)
    PROVE  Always(r1', ack) /\ FromStore(ack)
<1>0. /\ Types /\ OnBus /\ Reload /\ Wishbone(ack) /\ Rams(q, ack) /\ TagWrite /\ IInv
      /\ Where /\ ack \in BOOLEAN
  BY DEF Tick, IInv, Clock
<1>1. DOMAIN r1 = Fields
  BY <1>0 DEF Types, Stage1, Fields
<1>2. /\ r1.state = "STORE_WAIT_ACK" /\ ~reload /\ ~r1.write_tag
      /\ wb.stb /\ wb.cyc /\ wb.we /\ wb.adr.tag = r1.reload_tag
      /\ r1.acks_pending + (IF r1.inc_acks THEN 1 ELSE 0)
           = 1 + (IF r1.dec_acks THEN 1 ELSE 0)
      /\ wb \in Bus
      /\ r1.acks_pending \in Nat
  BY <1>0 DEF StoreWaitAck, OnBus, reload, Reload, Types, Stage1, Bus
<1>. DEFINE acks == r1.acks_pending + (IF r1.inc_acks THEN 1 ELSE 0)
                                    - (IF r1.dec_acks THEN 1 ELSE 0)
            more == ack /\ acks < 7 /\ req.same_tag /\ req.op \in Stores
<1>3. acks = 1
  BY <1>2
<1>4. Always(r1', ack) /\ StoreTo(r1', ack)
  BY <1>1, <1>3, StoringStep
<1>5. wb' = [wb EXCEPT
                 !.adr = IF ack /\ req.op # "NONE" THEN WithRow(@, req.addr) ELSE @,
                 !.dat = IF ack /\ req.op # "NONE" THEN req.data ELSE @,
                 !.stb = IF ack THEN more ELSE @,
                 !.cyc = @ /\ ~(ack /\ ~more /\ acks = 1)]
  BY DEF StoreWaitAck
<1>6. more <=> another(ack)
  BY <1>3 DEF another
<1>. HIDE DEF acks, more
<1>7. /\ wb'.stb <=> ~ack \/ another(ack)
      /\ wb'.cyc <=> ~ack \/ another(ack)
      /\ wb'.we = wb.we
      /\ wb'.adr = (IF ack /\ req.op # "NONE" THEN WithRow(wb.adr, req.addr) ELSE wb.adr)
      /\ wb'.dat = (IF ack /\ req.op # "NONE" THEN req.data ELSE wb.dat)
      /\ wb' = [adr |-> wb'.adr, dat |-> wb'.dat, we |-> wb.we,
                cyc |-> wb.cyc /\ ~(ack /\ ~more /\ acks = 1),
                stb |-> IF ack THEN more ELSE wb.stb]
  BY <1>2, <1>3, <1>5, <1>6 DEF another, Bus, Wires
<1>8. wb.adr \in Addr /\ wb \in Wires
  BY <1>2 DEF Bus
<1>9. \A n \in Nat : n - (n % 8) \in Nat
  OBVIOUS
<1>10. ASSUME req.op # "NONE"
       PROVE  /\ req.addr \in Addr /\ req.data \in Vals
              /\ WithRow(wb.adr, req.addr) \in [tag : Nat, idx : Idx, row : Row]
  <2>1. req.addr \in Addr /\ req.data \in Vals
    <3>1. CASE req.op \in Slow
      BY <1>0, <3>1, ReqFacts DEF Held
    <3>2. CASE req.op \notin Slow
      <4>1. ~r1.full /\ go
        <5>1. r1.full => r1.req.op \in Slow
          BY <1>0 DEF IInv, Where
        <5>. QED  BY <1>10, <3>2, <5>1 DEF req, NoReq
      <4>2. r0 \in Requests /\ d_data \in Vals
        BY <1>0, <4>1 DEF go, r0_valid, Types
      <4>3. req.addr = r0.addr /\ req.data = IF r0.op = "dcbz" THEN 0 ELSE d_data
        BY <4>1 DEF req, fresh
      <4>. QED  BY <4>2, <4>3, RequestFacts, CacheAssumption
    <3>. QED  BY <3>1, <3>2
  <2>2. req.addr.idx \in Idx /\ req.addr.row \in Row
    BY <2>1, AddrParts
  <2>3. wb.adr.tag \in Nat
    BY <1>8 DEF Wires
  <2>. QED  BY <1>9, <2>1, <2>2, <2>3 DEF WithRow
<1>11. ASSUME another(ack)
       PROVE  /\ req.op \in Slow /\ req.op # "NONE" /\ ack /\ req.addr \in Addr
              /\ req.addr.tag = wb.adr.tag /\ WithRow(wb.adr, req.addr) = req.addr
  <2>1. ack /\ req.op # "NONE" /\ req.op \in Slow /\ req.same_tag /\ req.op \in Stores
    BY <1>11 DEF another, Stores, Slow
  <2>2. req.addr.tag = r1.reload_tag /\ req.addr.tag = wb.adr.tag
    BY <1>0, <1>2, <2>1, SameTag
  <2>3. /\ pend \in Requests /\ pend.op # "tlb" /\ waiting /\ pend.ok
        /\ pend.op = "load" => req.op \in {"LOAD_MISS", "LOAD_NC"}
        /\ pend.addr = req.addr
    BY <1>0, <2>1, ReqFacts
  <2>4. pend.op # "dcbz" /\ Follows(pend)
    BY <1>0, <1>2, <2>3 DEF OnBus
  <2>5. pend.op = "store"
    BY <2>1, <2>3, <2>4, RequestFacts DEF Stores
  <2>6. WithRow(req.addr, req.addr) = req.addr
    BY <2>2, <2>3, <2>4, <2>5 DEF Follows
  <2>7. WithRow(wb.adr, req.addr) = WithRow(req.addr, req.addr)
    BY <2>2 DEF WithRow
  <2>. QED  BY <1>10, <2>1, <2>2, <2>6, <2>7
<1>12. wb' \in Bus
  <2>1. /\ wb.we \in BOOLEAN /\ (wb.cyc /\ ~(ack /\ ~more /\ acks = 1)) \in BOOLEAN
        /\ (IF ack THEN more ELSE wb.stb) \in BOOLEAN
    BY <1>2 DEF Bus, Wires, more
  <2>2. wb'.adr \in [tag : Nat, idx : Idx, row : Row] /\ wb'.dat \in Vals
    BY <1>7, <1>8, <1>10 DEF Wires
  <2>3. wb' \in Wires
    BY <1>7, <2>1, <2>2, WireRecord
  <2>4. wb'.stb => wb'.adr \in Addr
    <3>1. ~ack => wb'.adr = wb.adr
      BY <1>7
    <3>2. another(ack) => wb'.adr \in Addr
      BY <1>7, <1>11
    <3>. QED  BY <1>7, <1>8, <3>1, <3>2
  <2>. QED  BY <2>3, <2>4 DEF Bus
<1>13. ~ack => wb' = wb
  BY <1>2, <1>3, <1>7, <1>8 DEF Wires
<1>14. /\ another(ack) => wb'.adr = req.addr /\ wb'.dat = req.data /\ req.op \in Slow
       /\ wb'.stb => wb'.adr.tag = wb.adr.tag
  <2>1. another(ack) => /\ wb'.adr = req.addr /\ wb'.dat = req.data /\ req.op \in Slow
                        /\ wb'.adr.tag = wb.adr.tag
    BY <1>7, <1>11
  <2>2. ~ack => wb'.adr = wb.adr
    BY <1>7
  <2>. QED  BY <1>7, <2>1, <2>2
<1>15. mem' = IF ack THEN [mem EXCEPT ![wb.adr] = wb.dat] ELSE mem
  BY <1>0, <1>2 DEF Wishbone
<1>16. cache_ram' = IF r1.write_bram
                    THEN [cache_ram EXCEPT ![r1.req.hit_way][get_row(r1.req.addr)] = r1.req.data]
                    ELSE cache_ram
  BY <1>0, <1>2 DEF Rams
<1>17. cache_tags' = cache_tags /\ cache_valids' = cache_valids
  BY <1>0, <1>2 DEF TagWrite, StoreWaitAck
<1>. QED  BY <1>2, <1>4, <1>7, <1>12, <1>13, <1>14, <1>15, <1>16, <1>17 DEF FromStore

\* A clock in NC_LOAD_WAIT_ACK.
LEMMA NcTick ==
    ASSUME NEW q, NEW v, NEW ack, Tick(q, v, ack), NcLoadWaitAck(ack)
    PROVE  Always(r1', ack) /\ FromNc(ack)
<1>0. Types /\ OnBus /\ Reload /\ Wishbone(ack) /\ Rams(q, ack) /\ TagWrite /\ ack \in BOOLEAN
  BY DEF Tick, IInv, Clock
<1>1. DOMAIN r1 = Fields
  BY <1>0 DEF Types, Stage1, Fields
<1>2. /\ r1.state = "NC_LOAD_WAIT_ACK" /\ ~reload /\ ~r1.write_tag /\ ~r1.write_bram
      /\ wb.stb /\ wb.cyc /\ ~wb.we
      /\ wb \in Bus
  BY <1>0 DEF NcLoadWaitAck, OnBus, reload, Reload, Types
<1>3. Always(r1', ack) /\ NcTo(r1', ack)
  BY <1>1, NcStep
<1>4. wb' = [wb EXCEPT !.stb = @ /\ ~ack, !.cyc = @ /\ ~ack]
  BY DEF NcLoadWaitAck
<1>5. wb' = [adr |-> wb.adr, dat |-> wb.dat, we |-> wb.we, cyc |-> wb.cyc /\ ~ack,
             stb |-> wb.stb /\ ~ack]
  BY <1>2, <1>4 DEF Bus, Wires
<1>6. /\ wb' \in Bus
      /\ ~ack => wb' = wb
      /\ ack => ~wb'.cyc
  BY <1>0, <1>2, <1>5 DEF Bus, Wires
<1>7. mem' = mem /\ cache_ram' = cache_ram /\ cache_tags' = cache_tags
      /\ cache_valids' = cache_valids
  BY <1>0, <1>2 DEF Wishbone, Rams, TagWrite, NcLoadWaitAck, reload
<1>. QED  BY <1>2, <1>3, <1>6, <1>7 DEF FromNc

\* A clock, in whatever state.
LEMMA TickStep ==
    ASSUME NEW q, NEW v, NEW ack, Tick(q, v, ack)
    PROVE  /\ Always(r1', ack)
           /\ (FromIdle /\ ~ack) \/ FromReload(ack) \/ FromStore(ack) \/ FromNc(ack)
<1>1. Idle(ack) \/ ReloadWaitAck(ack) \/ StoreWaitAck(ack) \/ NcLoadWaitAck(ack)
  BY DEF Tick, Clock
<1>. QED  BY <1>1, IdleTick, ReloadTick, StoreTick, NcTick

\* A request that waits is answered, or stage 1 has it.
LEMMA AnswerStep ==
    ASSUME NEW q, NEW v, NEW ack, Tick(q, v, ack)
    PROVE  /\ answered' <=> \/ completes(ack)
                            \/ r0 # None /\ (req_op \in {"BAD", "LOAD_HIT"} \/ r0.op = "tlb")
           /\ answered' => waiting
           /\ waiting' <=> IF waiting THEN ~answered' ELSE q # None
           /\ r1'.full <=> waiting /\ ~answered'
           /\ r1'.full => req.op \in Slow /\ ~completes(ack)
           /\ completes(ack) <=> answered' /\ req.op \in Slow
<1>0. IInv /\ Types /\ Where
  BY DEF Tick, IInv
<1>1. Always(r1', ack)
  BY TickStep
<1>2. completes(ack) => waiting /\ req.op \in Slow
  BY Completion
<1>3. answered' <=> \/ completes(ack)
                    \/ r0 # None /\ (req_op \in {"BAD", "LOAD_HIT"} \/ r0.op = "tlb")
  <2>1. answered' <=> r1'.ls_valid \/ r1'.ls_error \/ r1'.mmu_done \/ r1'.mmu_error
    BY DEF answered
  <2>2. /\ r1'.ls_error <=> req_op = "BAD" /\ ~r0.mmu
        /\ r1'.mmu_error <=> req_op = "BAD" /\ r0.mmu
    BY <1>1 DEF Always, Looked
  <2>3. /\ r1'.ls_valid <=> \/ req_op = "LOAD_HIT" /\ ~r0.mmu
                            \/ completes(ack) /\ ~side
        /\ r1'.mmu_done <=> \/ req_op = "LOAD_HIT" /\ r0.mmu
                            \/ r0_valid /\ r0.op = "tlb"
                            \/ completes(ack) /\ side
    BY <1>1 DEF Always
  <2>4. req_op \in {"BAD", "LOAD_HIT"} => r0 # None
    BY DEF req_op, go, r0_valid, Slow, Stores
  <2>5. r0 # None => r0_valid /\ (r0.mmu \in BOOLEAN)
    BY <1>0, OpFacts, RequestFacts DEF Types
  <2>6. r0_valid => r0 # None
    BY DEF r0_valid
  <2>. QED  BY <2>1, <2>2, <2>3, <2>4, <2>5, <2>6
<1>4. answered' => waiting
  BY <1>0, <1>2, <1>3, Waits
<1>5. waiting' <=> IF waiting THEN ~answered' ELSE q # None
  <2>1. CASE waiting
    BY <2>1, SendStep DEF waiting
  <2>2. CASE ~waiting
    BY <1>4, <2>2, SendStep DEF waiting
  <2>. QED  BY <2>1, <2>2
<1>6. r1'.full <=> (r1.full \/ req_op \in Slow) /\ ~completes(ack)
  BY <1>1 DEF Always
<1>7. ASSUME r0 # None
      PROVE  /\ req_op \in Slow \/ req_op \in {"BAD", "LOAD_HIT"} \/ r0.op = "tlb"
             /\ req_op \in Slow => ~(req_op \in {"BAD", "LOAD_HIT"}) /\ r0.op # "tlb"
             /\ ~r1.full
             /\ req.op \in Slow <=> req_op \in Slow
  <2>1. r0 \in Requests /\ ~r1.full
    BY <1>0, <1>7, HitFacts
  <2>2. req.op \in Slow <=> req_op \in Slow
    <3>1. req = IF go THEN fresh ELSE NoReq
      BY <2>1 DEF req
    <3>2. ~go => req_op = "NONE"
      BY DEF req_op
    <3>. QED  BY <3>1, <3>2 DEF fresh, NoReq, Slow, Stores
  <2>3. req_op \in Slow \/ req_op \in {"BAD", "LOAD_HIT"} \/ r0.op = "tlb"
    BY <1>0, <1>7, <2>1, OpFacts, RequestFacts DEF Slow, Stores
  <2>4. req_op \in Slow => ~(req_op \in {"BAD", "LOAD_HIT"}) /\ r0.op # "tlb"
    BY <1>0, <1>7, OpFacts DEF Slow, Stores
  <2>. QED  BY <2>1, <2>2, <2>3, <2>4
<1>8. ASSUME r1.full
      PROVE  r0 = None /\ req_op = "NONE" /\ req = r1.req /\ req.op \in Slow /\ waiting
  BY <1>0, <1>8, Waits DEF Where, req_op, go, r0_valid, req
<1>9. ASSUME ~waiting
      PROVE  ~r1.full /\ req_op = "NONE"
  BY <1>9, SendStep
<1>. QED  BY <1>0, <1>2, <1>3, <1>4, <1>5, <1>6, <1>7, <1>8, <1>9, Waits DEF Slow, Stores

\* What becomes of the request that stays in stage 1.
LEMMA HeldStep ==
    ASSUME NEW q, NEW v, NEW ack, Tick(q, v, ack), r1'.full
    PROVE  /\ req.op \in Slow /\ waiting /\ ~completes(ack) /\ waiting'
           /\ r1'.req.op = req.op /\ r1'.req.addr = req.addr /\ r1'.req.data = req.data
           /\ r1'.req.dcbz = req.dcbz /\ r1'.req.mmu = req.mmu
           /\ r1'.req.hit_way = req.hit_way
           /\ r1'.req.same_tag = IF r1.state = "IDLE" THEN TRUE ELSE req.same_tag
<1>1. req.op \in Slow /\ ~completes(ack) /\ waiting /\ waiting'
  BY AnswerStep
<1>2. req \in Held /\ req = IF taken THEN fresh ELSE r1.req
  BY <1>1, ReqFacts DEF Tick
<1>3. IF r1.state = "IDLE"
      THEN r1'.req = [req EXCEPT !.same_tag = TRUE]
      ELSE r1'.req = req
  BY <1>2, TickStep DEF Always
<1>. QED  BY <1>1, <1>2, <1>3 DEF Held

\* What stage 1 starts to write.
stores(ack) == /\ req.op \in Stores /\ ~req.dcbz
               /\ \/ r1.state = "IDLE"
                  \/ r1.state = "STORE_WAIT_ACK" /\ another(ack)
clears == r1.state = "IDLE" /\ req.op \in Stores /\ req.dcbz

\* Each clock keeps what memory will hold, but for what it starts to write.
LEMMA ThenStep ==
    ASSUME NEW q, NEW v, NEW ack, Tick(q, v, ack), NEW a \in Addr
    PROVE  Then(a)' = IF stores(ack) /\ a = req.addr THEN req.data
                      ELSE IF clears /\ a \in Line(req.addr) THEN 0 ELSE Then(a)
<1>0. Types /\ OnBus /\ Lines /\ Reload /\ IInv
  BY DEF Tick, IInv
<1>1. a.tag \in Tags /\ a.idx \in Idx /\ a.row \in Row /\ a = CellOf(a.tag, a.idx, a.row)
  BY AddrParts
<1>2. Then(a)' = IF r1'.state = "STORE_WAIT_ACK" /\ a = wb'.adr THEN wb'.dat
                 ELSE IF /\ r1'.dcbz /\ r1'.state = "RELOAD_WAIT_ACK"
                         /\ a.tag = r1'.reload_tag /\ a.idx = r1'.store_row[1]
                      THEN 0 ELSE mem'[a]
  BY DEF Then, Reloaded, reload, store_index
<1>3. Then(a) = IF r1.state = "STORE_WAIT_ACK" /\ a = wb.adr THEN wb.dat
                ELSE IF r1.dcbz /\ reload /\ a.tag = r1.reload_tag /\ a.idx = store_index
                     THEN 0 ELSE mem[a]
  BY DEF Then, Reloaded
<1>4. CASE FromIdle
  <2>1. ~reload /\ ~(r1.state = "STORE_WAIT_ACK") /\ Then(a) = mem[a] /\ mem'[a] = mem[a]
    BY <1>3, <1>4 DEF FromIdle, reload
  <2>2. CASE req.op \notin Slow
    <3>1. ~stores(ack) /\ ~clears /\ r1'.state = "IDLE"
      BY <1>4, <2>2 DEF FromIdle, IdleTo, Kept, stores, clears, Slow, Stores
    <3>. QED  BY <1>2, <2>1, <3>1
  <2>3. CASE req.op \in Slow
    <3>1. /\ req \in Held /\ req.addr \in Addr
          /\ req.op \in {"LOAD_MISS", "LOAD_NC"} => ~req.dcbz
      <4>1. req \in Held /\ pend \in Requests /\ pend.op # "tlb"
        BY <1>0, <2>3, ReqFacts
      <4>2. pend.op \in {"load", "store", "dcbz"}
        BY <4>1, RequestFacts
      <4>. QED  BY <1>0, <2>3, <4>1, <4>2, ReqFacts DEF Held, Stores
    <3>2. CASE req.op \in {"LOAD_MISS", "LOAD_NC"}
      <4>1. ~stores(ack) /\ ~clears /\ ~r1'.dcbz /\ r1'.state # "STORE_WAIT_ACK"
        BY <1>4, <2>3, <3>1, <3>2 DEF FromIdle, IdleTo, Started, stores, clears, Stores
      <4>. QED  BY <1>2, <2>1, <4>1
    <3>3. CASE req.op \in Stores /\ ~req.dcbz
      <4>1. /\ stores(ack) /\ ~clears /\ ~r1'.dcbz /\ r1'.state = "STORE_WAIT_ACK"
            /\ wb'.adr = req.addr /\ wb'.dat = req.data
        BY <1>4, <2>3, <3>3 DEF FromIdle, IdleTo, Started, stores, clears, Stores
      <4>. QED  BY <1>2, <2>1, <4>1
    <3>4. CASE req.op \in Stores /\ req.dcbz
      <4>1. /\ ~stores(ack) /\ clears /\ r1'.dcbz /\ r1'.state = "RELOAD_WAIT_ACK"
            /\ r1'.store_row = get_row(req.addr) /\ r1'.reload_tag = req.addr.tag
        BY <1>4, <2>3, <3>4 DEF FromIdle, IdleTo, Started, stores, clears, Stores
      <4>2. r1'.store_row[1] = req.addr.idx
        BY <3>1, <4>1, AddrParts
      <4>3. a \in Line(req.addr) <=> a.tag = req.addr.tag /\ a.idx = req.addr.idx
        BY DEF Line
      <4>. QED  BY <1>2, <2>1, <4>1, <4>2, <4>3
    <3>. QED  BY <2>3, <3>2, <3>3, <3>4 DEF Slow
  <2>. QED  BY <2>2, <2>3
<1>5. CASE FromReload(ack)
  <2>1. ~stores(ack) /\ ~clears /\ reload /\ r1.state # "STORE_WAIT_ACK"
    BY <1>5 DEF FromReload, stores, clears, reload
  <2>2. /\ r1'.dcbz = r1.dcbz /\ r1'.reload_tag = r1.reload_tag
        /\ r1'.state = (IF done(ack) THEN "IDLE" ELSE "RELOAD_WAIT_ACK")
        /\ r1'.store_row[1] = store_index
    BY <1>5 DEF FromReload, ReloadTo, next_row, store_index
  <2>3. CASE ~r1.dcbz
    <3>1. mem'[a] = mem[a]
      BY <1>5, <2>3 DEF FromReload
    <3>. QED  BY <1>2, <1>3, <2>1, <2>2, <2>3, <3>1
  <2>4. CASE r1.dcbz
    <3>. DEFINE here == CellOf(r1.reload_tag, store_index, r1.store_row[2])
    <3>1. mem'[a] = IF ack /\ a = here THEN 0 ELSE mem[a]
      <4>1. mem' = IF ack THEN [mem EXCEPT ![here] = 0] ELSE mem
        BY <1>5, <2>4 DEF FromReload
      <4>2. mem \in [Addr -> Vals]
        BY <1>0 DEF Types
      <4>. QED  BY <4>1, <4>2
    <3>2. here.tag = r1.reload_tag /\ here.idx = store_index
      BY DEF CellOf
    <3>3. CASE ~done(ack)
      BY <1>2, <1>3, <2>1, <2>2, <2>4, <3>1, <3>2, <3>3
    <3>4. CASE done(ack)
      <4>1. Then(a)' = mem'[a]
        BY <1>2, <2>2, <3>4
      <4>2. ASSUME a.tag = r1.reload_tag, a.idx = store_index
            PROVE  mem'[a] = 0
        <5>1. CASE a.row = r1.store_row[2]
          <6>1. a = here
            BY <1>1, <4>2, <5>1
          <6>. QED  BY <3>1, <3>4, <6>1 DEF done
        <5>2. CASE a.row # r1.store_row[2]
          <6>1. r1.store_row[2] = r1.end_row_ix /\ r1.end_row_ix \in Row
            BY <1>0, <3>4, WireTypes DEF done
          <6>2. left(a.row) > left(r1.store_row[2])
            <7>1. Dist(a.row, r1.end_row_ix) \in Nat /\ Dist(a.row, r1.end_row_ix) # 0
                  /\ Dist(r1.end_row_ix, r1.end_row_ix) = 0
              BY <1>1, <5>2, <6>1, RowFacts
            <7>. QED  BY <6>1, <7>1 DEF left
          <6>3. a.row \in r1.rows_valid
            BY <1>0, <1>1, <2>1, <6>2 DEF Reload
          <6>4. mem[CellOf(r1.reload_tag, store_index, a.row)] = 0
            BY <1>0, <2>1, <2>4, <6>3 DEF Lines
          <6>. QED  BY <1>1, <3>1, <4>2, <6>4
        <5>. QED  BY <5>1, <5>2
      <4>3. ~(a.tag = r1.reload_tag /\ a.idx = store_index) => mem'[a] = mem[a]
        BY <3>1, <3>2
      <4>. QED  BY <1>3, <2>1, <2>4, <4>1, <4>2, <4>3
    <3>. QED  BY <3>3, <3>4
  <2>. QED  BY <1>0, <2>3, <2>4 DEF Types, Stage1
<1>6. CASE FromStore(ack)
  <2>1. /\ ~reload /\ r1.state = "STORE_WAIT_ACK" /\ ~clears
        /\ r1'.state = (IF ack /\ ~another(ack) THEN "IDLE" ELSE "STORE_WAIT_ACK")
    BY <1>6 DEF FromStore, StoreTo, reload, clears
  <2>2. Then(a) = IF a = wb.adr THEN wb.dat ELSE mem[a]
    BY <1>3, <2>1
  <2>3. mem'[a] = IF ack THEN Then(a) ELSE mem[a]
    <3>1. mem \in [Addr -> Vals]
      BY <1>0 DEF Types
    <3>. QED  BY <1>6, <2>2, <3>1 DEF FromStore
  <2>4. CASE ~ack
    BY <1>2, <1>6, <2>1, <2>2, <2>3, <2>4 DEF FromStore, stores, another
  <2>5. CASE ack /\ another(ack)
    <3>1. wb'.adr = req.addr /\ wb'.dat = req.data /\ req.op \in Slow /\ req.op \in Stores
      BY <1>6, <2>5 DEF FromStore, another
    <3>2. ~req.dcbz
      <4>1. waiting /\ pend.op # "dcbz" /\ pend.op # "tlb" /\ pend \in Requests
        BY <1>0, <2>1, <3>1, ReqFacts DEF OnBus
      <4>. QED  BY <1>0, <3>1, <4>1, ReqFacts, RequestFacts DEF Stores
    <3>3. stores(ack)
      BY <2>1, <2>5, <3>1, <3>2 DEF stores
    <3>. QED  BY <1>2, <2>1, <2>3, <2>5, <3>1, <3>3
  <2>6. CASE ack /\ ~another(ack)
    BY <1>2, <2>1, <2>3, <2>6 DEF stores
  <2>. QED  BY <2>4, <2>5, <2>6
<1>7. CASE FromNc(ack)
  <2>1. /\ ~stores(ack) /\ ~clears /\ ~reload /\ r1.state # "STORE_WAIT_ACK"
        /\ r1'.state \in {"IDLE", "NC_LOAD_WAIT_ACK"} /\ mem' = mem
    BY <1>7 DEF FromNc, NcTo, stores, clears, reload
  <2>. QED  BY <1>2, <1>3, <2>1
<1>. QED  BY <1>4, <1>5, <1>6, <1>7, TickStep

-----------------------------------------------------------------------------
(* Every clock keeps the invariant.                                        *)

\* The request that waits is in one stage, and stage 1 keeps what it asked for.
LEMMA WhereStep ==
    ASSUME NEW q, NEW v, NEW ack, Tick(q, v, ack)
    PROVE  Where'
<1>0. IInv /\ Types
  BY DEF Tick, IInv
<1>1. r0' # None => pend' = r0' /\ ~answered' /\ ~r1'.full
  BY SendStep, AnswerStep
<1>2. ASSUME r1'.full
      PROVE  /\ waiting' /\ pend'.addr = r1'.req.addr /\ pend'.mmu = r1'.req.mmu /\ pend'.ok
             /\ r1'.mmu_req = pend'.mmu /\ r1'.req.op \in Slow
             /\ pend'.op = "load" => r1'.req.op \in {"LOAD_MISS", "LOAD_NC"} /\ ~r1'.req.dcbz
             /\ pend'.op = "store" => r1'.req.op \in Stores /\ ~r1'.req.dcbz
             /\ pend'.op = "dcbz" =>
                  r1'.req.op \in Stores /\ r1'.req.dcbz /\ r1'.req.data = 0
             /\ pend'.op # "tlb" /\ (r1'.req.op = "LOAD_MISS" => ~pend'.nc)
  <2>1. req.op \in Slow /\ waiting /\ waiting' /\ pend' = pend
    BY <1>2, HeldStep, SendStep
  <2>2. /\ r1'.req.op = req.op /\ r1'.req.addr = req.addr /\ r1'.req.data = req.data
        /\ r1'.req.dcbz = req.dcbz /\ r1'.req.mmu = req.mmu
    BY <1>2, HeldStep
  <2>3. r1'.mmu_req = (IF r0_valid THEN r0.mmu ELSE r1.mmu_req)
    BY TickStep DEF Always, Looked
  <2>. QED  BY <1>0, <2>1, <2>2, <2>3, ReqFacts
<1>3. waiting' => r1'.full \/ r0' # None
  BY SendStep, AnswerStep
<1>. QED  BY <1>1, <1>2, <1>3 DEF Where

\* What a request that waits will have written is what stage 1 starts to write.
LEMMA OrderStep ==
    ASSUME NEW q, NEW v, NEW ack, Tick(q, v, ack)
    PROVE  Order'
<1>0. IInv /\ Types /\ Where /\ Order
  BY DEF Tick, IInv
<1>1. ASSUME NEW a \in Addr
      PROVE  ref'[a] =
                IF waiting' /\ pend'.ok /\ pend'.op = "store" /\ a = pend'.addr
                THEN IF r1'.full THEN r1'.req.data ELSE d_data'
                ELSE IF waiting' /\ pend'.ok /\ pend'.op = "dcbz" /\ a \in Line(pend'.addr)
                THEN 0 ELSE Then(a)'
  <2>1. Then(a)' = IF stores(ack) /\ a = req.addr THEN req.data
                   ELSE IF clears /\ a \in Line(req.addr) THEN 0 ELSE Then(a)
    BY ThenStep
  <2>2. ref[a] = IF waiting /\ pend.ok /\ pend.op = "store" /\ a = pend.addr
                 THEN IF r1.full THEN r1.req.data ELSE d_data
                 ELSE IF waiting /\ pend.ok /\ pend.op = "dcbz" /\ a \in Line(pend.addr)
                 THEN 0 ELSE Then(a)
    BY <1>0 DEF Order
  <2>3. CASE ~waiting
    <3>1. /\ pend' = q /\ req.op = "NONE" /\ ~r1'.full /\ d_data' = v
          /\ waiting' <=> q # None
      BY <2>3, SendStep, AnswerStep
    <3>2. ~stores(ack) /\ ~clears
      BY <3>1 DEF stores, clears, Stores
    <3>3. Then(a)' = ref[a]
      BY <2>1, <2>2, <2>3, <3>2
    <3>4. /\ ref \in [Addr -> Vals] /\ Send(q, v) /\ q \in Requests \cup {None}
      BY <1>0 DEF Types, Tick, Clock
    <3>5. q # None => q.op \in {"load", "store", "dcbz", "tlb"} /\ q.addr \in Addr
      BY <3>4, RequestFacts
    <3>. QED  BY <3>1, <3>3, <3>4, <3>5 DEF Send
  <2>4. CASE waiting
    <3>1. /\ pend' = pend /\ ref' = ref /\ d_data' = d_data /\ pend \in Requests
          /\ waiting' <=> ~answered'
          /\ r1'.full <=> ~answered'
          /\ completes(ack) <=> answered' /\ req.op \in Slow
      BY <1>0, <2>4, SendStep, AnswerStep DEF waiting, Types
    <3>2. CASE req.op \notin Slow
      <4>1. answered' /\ ~completes(ack) /\ ~stores(ack) /\ ~clears
        BY <3>1, <3>2, HeldStep DEF stores, clears, Slow
      <4>2. r0 # None /\ pend = r0 /\ (req_op \in {"BAD", "LOAD_HIT"} \/ r0.op = "tlb")
        BY <1>0, <4>1, AnswerStep DEF Where
      <4>3. pend.ok => pend.op \in {"load", "tlb"}
        BY <1>0, <3>1, <4>2, OpFacts, RequestFacts DEF Slow, Stores
      <4>. QED  BY <2>1, <2>2, <3>1, <4>1, <4>3
    <3>3. CASE req.op \in Slow
      <4>1. /\ pend.ok /\ req.addr = pend.addr
            /\ pend.op = "load" => req.op \in {"LOAD_MISS", "LOAD_NC"} /\ ~req.dcbz
            /\ pend.op = "store" => /\ req.op \in Stores /\ ~req.dcbz
                                    /\ req.data = IF r1.full THEN r1.req.data ELSE d_data
            /\ pend.op = "dcbz" => req.op \in Stores /\ req.dcbz /\ req.data = 0
            /\ pend.op \in {"load", "store", "dcbz"}
        BY <1>0, <3>1, <3>3, ReqFacts, RequestFacts
      <4>2. CASE ~completes(ack)
        <5>1. waiting' /\ r1'.full /\ r1'.req.data = req.data
          BY <3>1, <3>3, <4>2, HeldStep
        <5>2. ~stores(ack)
          BY <4>2 DEF stores, completes
        <5>3. clears => pend.op = "dcbz"
          BY <4>1 DEF clears, Stores
        <5>. QED  BY <2>1, <2>2, <2>4, <3>1, <4>1, <5>1, <5>2, <5>3
      <4>3. CASE completes(ack)
        <5>1. ~waiting'
          BY <3>1, <4>3
        <5>2. CASE pend.op = "load"
          <6>1. ~stores(ack) /\ ~clears
            BY <4>1, <5>2 DEF stores, clears, Stores
          <6>. QED  BY <2>1, <2>2, <3>1, <5>1, <5>2, <6>1
        <5>3. CASE pend.op = "store"
          <6>1. stores(ack)
            <7>1. ~fetched(ack)
              <8>1. reload /\ fetched(ack) => r1.dcbz
                BY <4>1, <4>3, <5>3, Completion DEF Stores
              <8>2. reload /\ fetched(ack) => ~r1.dcbz
                BY <4>1, <4>3, <5>3, Completion
              <8>3. ~reload => ~fetched(ack)
                BY <4>1, <4>3, <5>3, Completion DEF Stores
              <8>. QED  BY <8>1, <8>2, <8>3
            <7>2. req.op \in Stores /\ ~req.dcbz
              BY <4>1, <5>3
            <7>3. \/ r1.state = "IDLE"
                  \/ r1.state = "STORE_WAIT_ACK" /\ another(ack)
              BY <4>3, <7>1 DEF completes
            <7>. QED  BY <7>2, <7>3 DEF stores
          <6>2. ~clears
            BY <4>1, <5>3 DEF clears
          <6>. QED  BY <2>1, <2>2, <2>4, <3>1, <4>1, <5>1, <5>3, <6>1, <6>2
        <5>4. CASE pend.op = "dcbz"
          <6>1. ~stores(ack) /\ ~(r1.state = "STORE_WAIT_ACK")
            BY <1>0, <2>4, <4>1, <5>4 DEF stores, IInv, OnBus
          <6>2. fetched(ack)
            BY <4>1, <4>3, <5>4, <6>1 DEF completes
          <6>3. reload
            BY <4>1, <4>3, <5>4, <6>2, Completion DEF Stores
          <6>4. req.addr.tag = r1.reload_tag /\ req.addr.idx = store_index /\ r1.dcbz
            BY <4>1, <4>3, <5>4, <6>2, <6>3, Completion DEF CellOf
          <6>5. ~clears
            BY <6>3 DEF clears, reload
          <6>6. a \in Line(pend.addr) => Then(a) = 0
            BY <4>1, <6>3, <6>4 DEF Line, Then, Reloaded, reload
          <6>. QED  BY <2>1, <2>2, <3>1, <5>1, <5>4, <6>1, <6>5, <6>6
        <5>. QED  BY <4>1, <5>2, <5>3, <5>4
      <4>. QED  BY <4>2, <4>3
    <3>. QED  BY <3>2, <3>3
  <2>. QED  BY <2>3, <2>4
<1>. QED  BY <1>1 DEF Order


\* The answer goes to who asked; a load gets what memory will hold.
LEMMA AnswerTick ==
    ASSUME NEW q, NEW v, NEW ack, Tick(q, v, ack)
    PROVE  Answer'
<1>0. IInv /\ Types /\ Where /\ Order /\ Lookup /\ Lines /\ OnBus /\ Reload /\ ack \in BOOLEAN
  BY DEF Tick, IInv
<1>1. Always(r1', ack)
  BY TickStep
<1>. SUFFICES ASSUME answered' PROVE
      /\ pend' # None
      /\ \/ /\ ~pend'.ok /\ ~pend'.mmu /\ r1'.ls_error /\ ~r1'.ls_valid
            /\ ~r1'.mmu_done /\ ~r1'.mmu_error
         \/ /\ ~pend'.ok /\ pend'.mmu /\ ~r1'.ls_error /\ ~r1'.ls_valid
            /\ ~r1'.mmu_done /\ r1'.mmu_error
         \/ /\ pend'.ok /\ ~pend'.mmu /\ ~r1'.ls_error /\ r1'.ls_valid
            /\ ~r1'.mmu_done /\ ~r1'.mmu_error
         \/ /\ pend'.ok /\ pend'.mmu /\ ~r1'.ls_error /\ ~r1'.ls_valid
            /\ r1'.mmu_done /\ ~r1'.mmu_error
      /\ pend'.op = "load" /\ pend'.ok => data_out' = ref'[pend'.addr]
  BY DEF Answer
<1>2. waiting /\ pend' = pend /\ ref' = ref /\ pend \in Requests /\ pend # None
  BY <1>0, AnswerStep, SendStep DEF waiting, Types
<1>3. pend.ok \in BOOLEAN /\ pend.mmu \in BOOLEAN /\ pend.addr \in Addr
  BY <1>2, RequestFacts
<1>4. /\ r1'.ls_error <=> req_op = "BAD" /\ ~r0.mmu
      /\ r1'.mmu_error <=> req_op = "BAD" /\ r0.mmu
      /\ r1'.ls_valid <=> \/ req_op = "LOAD_HIT" /\ ~r0.mmu
                          \/ completes(ack) /\ ~side
      /\ r1'.mmu_done <=> \/ req_op = "LOAD_HIT" /\ r0.mmu
                          \/ r0_valid /\ r0.op = "tlb"
                          \/ completes(ack) /\ side
  BY <1>1 DEF Always, Looked
<1>5. pend.op = "load" /\ pend.ok => ref[pend.addr] = Then(pend.addr)
  BY <1>0, <1>3 DEF Order
<1>6. data_out' = IF r1'.forward_sel
                  THEN IF r1'.use_forward1 THEN r1'.forward_data1 ELSE r1'.forward_data2
                  ELSE rd_data_o'[r1'.hit_way]
  BY DEF data_out
<1>7. /\ r1'.use_forward1 <=> use_forward1_next \/ fetched(ack)
      /\ r1'.forward_sel <=> use_forward1_next \/ use_forward2_next \/ fetched(ack)
      /\ r1'.hit_way = (IF go THEN req_hit_way ELSE r1.hit_way)
      /\ r1'.forward_data2 = r1.forward_data1
      /\ r1'.forward_data1 = (IF r1.write_bram THEN r1.req.data
                              ELSE IF r1.dcbz THEN 0
                              ELSE IF ack /\ ~wb.we THEN mem[wb.adr] ELSE None)
      /\ rd_data_o' = rd_data0
  BY <1>1 DEF Always, Looked, Tick, Clock, Rams
<1>8. CASE completes(ack)
  <2>1. /\ req.op \in Slow /\ (side <=> pend.mmu)
        /\ ~reload => ~fetched(ack) \/ req.op = "LOAD_NC"
        /\ reload /\ fetched(ack) =>
             /\ req.addr = CellOf(r1.reload_tag, store_index, r1.store_row[2])
             /\ r1.dcbz <=> req.dcbz
    BY <1>8, Completion
  <2>2. /\ pend.ok /\ req.addr = pend.addr /\ req_op \in Slow \cup {"NONE"}
        /\ ~(r0_valid /\ r0.op = "tlb")
        /\ pend.op = "load" => req.op \in {"LOAD_MISS", "LOAD_NC"} /\ ~req.dcbz
    BY <1>0, <2>1, ReqFacts
  <2>3. pend.op = "load" => data_out' = ref'[pend.addr]
    <3>1. SUFFICES ASSUME pend.op = "load" PROVE data_out' = Then(pend.addr)
      BY <1>2, <1>5, <2>2
    <3>2. req.op \notin Stores /\ ~req.dcbz
      BY <2>2, <3>1 DEF Stores
    <3>3. fetched(ack)
      BY <1>8, <3>2 DEF completes, another
    <3>4. /\ reload \/ r1.state = "NC_LOAD_WAIT_ACK"
          /\ ack
      BY <3>3 DEF fetched
    <3>5. ~r1.write_bram
      BY <1>0, <3>4 DEF OnBus, reload
    <3>6. ~r1.dcbz /\ ~wb.we /\ wb.adr = pend.addr
      <4>1. CASE reload
        BY <1>0, <2>1, <2>2, <3>2, <3>3, <4>1 DEF OnBus
      <4>2. CASE r1.state = "NC_LOAD_WAIT_ACK"
        BY <1>0, <4>2 DEF OnBus, Where
      <4>. QED  BY <3>4, <4>1, <4>2
    <3>7. data_out' = mem[pend.addr]
      BY <1>6, <1>7, <3>3, <3>4, <3>5, <3>6
    <3>. QED  BY <3>4, <3>6, <3>7 DEF Then, reload
  <2>. QED  BY <1>2, <1>3, <1>4, <1>8, <2>1, <2>2, <2>3 DEF Slow, Stores
<1>9. CASE ~completes(ack)
  <2>1. /\ r0 # None /\ pend = r0 /\ r0_valid
        /\ req_op \in {"BAD", "LOAD_HIT"} \/ r0.op = "tlb"
    BY <1>0, <1>9, AnswerStep, OpFacts DEF Where
  <2>2. CASE req_op = "BAD"
    <3>1. ~pend.ok /\ r0.op # "tlb"
      BY <1>0, <1>2, <1>3, <2>1, <2>2, OpFacts, RequestFacts
    <3>. QED  BY <1>2, <1>3, <1>4, <1>9, <2>1, <2>2, <3>1
  <2>3. CASE r0.op = "tlb"
    <3>1. req_op = "NONE" /\ pend.ok /\ pend.mmu
      BY <1>0, <1>2, <2>1, <2>3, OpFacts, RequestFacts
    <3>. QED  BY <1>2, <1>3, <1>4, <1>9, <2>1, <2>3, <3>1
  <2>4. CASE req_op = "LOAD_HIT"
    <3>1. /\ pend.ok /\ pend.op = "load" /\ is_hit /\ go
          /\ pend.addr.idx \in Idx /\ pend.addr.row \in Row
      BY <1>0, <1>2, <1>3, <2>1, <2>4, OpFacts, RequestFacts
    <3>. DEFINE a == r0.addr
                here == get_row(r0.addr)
    <3>2. req_hit_way \in Way /\ here = <<a.idx, a.row>>
      BY <1>0, <2>1, HitWay DEF get_row
    <3>3. ~fetched(ack) /\ ~(r0.op = "tlb")
      BY <1>9, <2>1, <3>1 DEF completes
    <3>4. cache_ram[req_hit_way][here]
            = IF r1.forward_valid1 /\ req_hit_way = r1.forward_way1 /\ r1.forward_row1 = here
              THEN r1.forward_data1 ELSE rd_data0[req_hit_way]
      BY <1>0, <2>1, <3>2 DEF Lookup
    <3>5. data_out' = IF r1.write_bram /\ req_hit_way = r1.req.hit_way /\ here = get_row(r1.req.addr)
                      THEN r1.req.data ELSE cache_ram[req_hit_way][here]
      <4>1. /\ use_forward1_next <=> /\ r1.write_bram /\ r1.req.hit_way = req_hit_way
                                     /\ get_row(r1.req.addr) = here
            /\ use_forward2_next <=> /\ r1.forward_valid1 /\ r1.forward_way1 = req_hit_way
                                     /\ r1.forward_row1 = here
        BY <3>1 DEF use_forward1_next, use_forward2_next
      <4>2. CASE use_forward1_next
        BY <1>6, <1>7, <4>1, <4>2
      <4>3. CASE ~use_forward1_next /\ use_forward2_next
        BY <1>6, <1>7, <3>3, <3>4, <4>1, <4>3
      <4>4. CASE ~use_forward1_next /\ ~use_forward2_next
        BY <1>6, <1>7, <3>1, <3>3, <3>4, <4>1, <4>4
      <4>. QED  BY <4>2, <4>3, <4>4
    <3>6. data_out' = Then(a)
      <4>1. CASE reloading
        <5>1. req_hit_way = replace_way /\ Reloaded(a) /\ ~r1.write_bram
          BY <1>0, <2>1, <4>1, HitFacts DEF OnBus, Reloaded, reload
        <5>2. a.row \in r1.rows_valid
          BY <2>1, <3>1, <4>1 DEF is_hit
        <5>3. reload /\ a.tag = r1.reload_tag /\ a.idx = store_index
          BY <5>1 DEF Reloaded
        <5>4. cache_ram[replace_way][<<store_index, a.row>>]
                = Then(CellOf(r1.reload_tag, store_index, a.row))
          BY <1>0, <5>2, <5>3 DEF Lines
        <5>5. CellOf(r1.reload_tag, store_index, a.row) = a
          BY <1>3, <2>1, <5>3, AddrParts
        <5>. QED  BY <3>2, <3>5, <5>1, <5>3, <5>4, <5>5
      <4>2. CASE ~reloading
        <5>1. Stands(a.idx, req_hit_way) /\ cache_tags[a.idx][req_hit_way] = a.tag
          BY <1>0, <2>1, <3>1, <4>2, HitFacts DEF is_hit
        <5>2. Cell(req_hit_way, a.idx, a.row) = Then(CellOf(a.tag, a.idx, a.row))
          <6>1. a.idx \in Idx /\ a.row \in Row
            BY <2>1, <3>1
          <6>2. \A x \in Row : Cell(req_hit_way, a.idx, x)
                               = Then(CellOf(cache_tags[a.idx][req_hit_way], a.idx, x))
            BY <1>0, <3>2, <5>1, <6>1, LineFacts
          <6>. QED  BY <5>1, <6>1, <6>2
        <5>3. CellOf(a.tag, a.idx, a.row) = a
          BY <1>3, <2>1, AddrParts
        <5>. QED  BY <3>2, <3>5, <5>2, <5>3 DEF Cell
      <4>. QED  BY <4>1, <4>2
    <3>7. data_out' = ref'[pend.addr]
      BY <1>2, <1>5, <2>1, <3>1, <3>6
    <3>. QED  BY <1>2, <1>3, <1>4, <1>9, <2>1, <2>4, <3>1, <3>3, <3>7
  <2>. QED  BY <2>1, <2>2, <2>3, <2>4
<1>. QED  BY <1>8, <1>9

\* What is on the bus is what the state says.
LEMMA BusStep ==
    ASSUME NEW q, NEW v, NEW ack, Tick(q, v, ack)
    PROVE  OnBus'
<1>0. IInv /\ Types /\ Where /\ OnBus /\ ack \in BOOLEAN
  BY DEF Tick, IInv
<1>. DEFINE StoreBus ==
              /\ wb.stb /\ wb.cyc /\ wb.we /\ wb.adr.tag = r1.reload_tag
              /\ r1.acks_pending + (IF r1.inc_acks THEN 1 ELSE 0)
                   = 1 + (IF r1.dec_acks THEN 1 ELSE 0)
              /\ waiting => pend.op # "dcbz" /\ Follows(pend)
              /\ r1.full => (r1.req.same_tag <=> r1.req.addr.tag = r1.reload_tag)
            BramBus == /\ r1.state = "STORE_WAIT_ACK" /\ ~r1.full
                       /\ wb.adr = r1.req.addr /\ wb.dat = r1.req.data
            NcBus == /\ wb.stb /\ wb.cyc /\ ~wb.we /\ r1.full /\ r1.req.op = "LOAD_NC"
                     /\ wb.adr = r1.req.addr /\ ~r1.dcbz
            ReloadBus ==
              /\ wb.stb /\ wb.cyc /\ wb.we = r1.dcbz /\ (r1.dcbz => wb.dat = 0)
              /\ wb.adr = CellOf(r1.reload_tag, store_index, r1.store_row[2])
              /\ r1.dcbz /\ r0 # None => r0.addr.tag # r1.reload_tag
              /\ ~r1.full /\ ~r1.dcbz => r1.req.op = "LOAD_MISS" /\ r1.req.same_tag
              /\ r1.full => (r1.req.same_tag <=> r1.req.addr.tag = r1.reload_tag)
<1>1. SUFFICES /\ r1'.state = "IDLE" => ~wb'.cyc
               /\ r1'.state = "STORE_WAIT_ACK" => StoreBus'
               /\ r1'.write_bram => BramBus'
               /\ r1'.state = "NC_LOAD_WAIT_ACK" => NcBus'
               /\ r1'.state = "RELOAD_WAIT_ACK" => ReloadBus'
  BY DEF OnBus, reload
<1>2. Always(r1', ack)
  BY TickStep
<1>3. /\ waiting => pend' = pend /\ r0' = None
      /\ ~waiting => pend' = q /\ r0' = q
      /\ waiting' => waiting \/ q # None
      /\ q # None => ~untimely(q, ack)
  BY SendStep, AnswerStep
<1>4. CASE FromIdle
  <2>1. CASE req.op \notin Slow
    BY <1>0, <1>4, <2>1 DEF FromIdle, IdleTo, Kept, OnBus, Slow, Stores
  <2>2. CASE req.op \in Slow
    <3>1. /\ req \in Held /\ req.addr \in Addr /\ waiting /\ r1.state = "IDLE"
          /\ req.op \in {"LOAD_MISS", "LOAD_NC"} => ~req.dcbz
          /\ req.dcbz => req.data = 0
          /\ wb'.adr = req.addr /\ wb'.dat = req.data /\ (wb'.we <=> req.op \in Stores)
          /\ wb'.cyc /\ wb'.stb /\ wb'.we \in BOOLEAN
      <4>1. req \in Held /\ pend \in Requests /\ pend.op # "tlb" /\ waiting
        BY <1>0, <2>2, ReqFacts
      <4>2. pend.op \in {"load", "store", "dcbz"}
        BY <4>1, RequestFacts
      <4>3. wb' = [adr |-> req.addr, dat |-> req.data, we |-> req.op \in Stores,
                   cyc |-> TRUE, stb |-> TRUE]
        BY <1>4, <2>2 DEF FromIdle
      <4>4. r1.state = "IDLE"
        BY <1>4 DEF FromIdle
      <4>5. /\ wb'.adr = req.addr /\ wb'.dat = req.data /\ (wb'.we <=> req.op \in Stores)
            /\ wb'.cyc /\ wb'.stb /\ wb'.we \in BOOLEAN
        <5>1. (req.op \in Stores) = TRUE \/ (req.op \in Stores) = FALSE
          BY DEF Stores
        <5>. QED  BY <4>3, <5>1 DEF Stores
      <4>6. /\ req.op \in {"LOAD_MISS", "LOAD_NC"} => ~req.dcbz
            /\ req.dcbz => req.data = 0
        BY <1>0, <2>2, <4>2, ReqFacts DEF Stores
      <4>7. req.addr \in Addr
        BY <4>1 DEF Held
      <4>. QED  BY <4>1, <4>4, <4>5, <4>6, <4>7
    <3>2. r1'.full <=> ~completes(ack)
      BY <1>2, <2>2, <1>0, ReqFacts DEF Always, taken
    <3>3. completes(ack) <=> req.op \in Stores /\ ~req.dcbz
      BY <3>1 DEF completes, reload, fetched
    <3>4. r1'.full => /\ r1'.req.op = req.op /\ r1'.req.addr = req.addr
                      /\ r1'.req.same_tag
      BY <3>1, HeldStep
    <3>5. CASE req.op = "LOAD_MISS"
      <4>1. /\ r1'.full /\ ~r1'.dcbz /\ ~r1'.write_bram /\ r1'.state = "RELOAD_WAIT_ACK"
            /\ r1'.store_row = get_row(req.addr) /\ r1'.reload_tag = req.addr.tag
            /\ r1'.dcbz = req.dcbz
        BY <1>4, <3>1, <3>2, <3>3, <3>5 DEF FromIdle, IdleTo, Started, Slow, Stores
      <4>2. ReloadBus'
        BY <1>3, <3>1, <3>4, <3>5, <4>1, AddrParts DEF store_index, Stores, Held
      <4>. QED  BY <4>1, <4>2
    <3>6. CASE req.op = "LOAD_NC"
      <4>1. /\ r1'.full /\ ~r1'.dcbz /\ ~r1'.write_bram /\ r1'.state = "NC_LOAD_WAIT_ACK"
        BY <1>4, <3>1, <3>2, <3>3, <3>6 DEF FromIdle, IdleTo, Started, Slow, Stores
      <4>2. NcBus'
        BY <3>1, <3>4, <3>6, <4>1 DEF Stores
      <4>. QED  BY <4>1, <4>2
    <3>7. CASE req.op \in Stores /\ ~req.dcbz
      <4>1. /\ ~r1'.full /\ r1'.state = "STORE_WAIT_ACK" /\ r1'.reload_tag = req.addr.tag
            /\ r1'.acks_pending = 1 /\ ~r1'.inc_acks /\ ~r1'.dec_acks
        BY <1>4, <3>1, <3>2, <3>3, <3>7 DEF FromIdle, IdleTo, Started, Slow, Stores
      <4>2. ~waiting'
        BY <3>1, <3>3, <3>7, AnswerStep
      <4>3. StoreBus'
        BY <3>1, <3>7, <4>1, <4>2
      <4>4. r1'.req.addr = req.addr /\ r1'.req.data = req.data
        <5>1. req = IF taken THEN fresh ELSE r1.req
          BY <1>0, <2>2, ReqFacts
        <5>2. r1'.req = [req EXCEPT !.same_tag = TRUE]
          BY <1>2, <3>1, <5>1 DEF Always
        <5>. QED  BY <3>1, <5>2 DEF Held
      <4>. QED  BY <3>1, <4>1, <4>3, <4>4
    <3>8. CASE req.op \in Stores /\ req.dcbz
      <4>1. /\ r1'.full /\ r1'.dcbz /\ ~r1'.write_bram /\ r1'.state = "RELOAD_WAIT_ACK"
            /\ r1'.store_row = get_row(req.addr) /\ r1'.reload_tag = req.addr.tag
            /\ r1'.dcbz = req.dcbz
        BY <1>4, <3>1, <3>2, <3>3, <3>8 DEF FromIdle, IdleTo, Started, Slow, Stores
      <4>2. wb'.we = r1'.dcbz /\ wb'.dat = 0
        BY <3>1, <3>8, <4>1 DEF Held
      <4>3. wb'.adr = CellOf(r1'.reload_tag, store_index', r1'.store_row[2])
        BY <3>1, <4>1, AddrParts DEF store_index
      <4>4. r0' = None
        BY <1>3, <3>1
      <4>5. ReloadBus'
        BY <3>1, <3>4, <4>1, <4>2, <4>3, <4>4
      <4>. QED  BY <4>1, <4>5
    <3>. QED  BY <2>2, <3>5, <3>6, <3>7, <3>8 DEF Slow
  <2>. QED  BY <2>1, <2>2
<1>5. CASE FromReload(ack)
  <2>1. /\ reload /\ ~r1'.write_bram /\ r1'.dcbz = r1.dcbz /\ r1'.reload_tag = r1.reload_tag
        /\ r1'.state = (IF done(ack) THEN "IDLE" ELSE "RELOAD_WAIT_ACK")
        /\ (wb'.stb <=> ~done(ack)) /\ (wb'.cyc <=> ~done(ack))
        /\ wb'.we = wb.we /\ wb'.dat = wb.dat
        /\ wb'.adr = CellOf(r1.reload_tag, store_index, r1'.store_row[2])
        /\ r1'.store_row[1] = store_index /\ r1.state = "RELOAD_WAIT_ACK"
    BY <1>5 DEF FromReload, ReloadTo, next_row, store_index, reload
  <2>2. wb.we = r1.dcbz /\ (r1.dcbz => wb.dat = 0)
    BY <1>0, <2>1 DEF OnBus
  <2>3. r1.dcbz /\ r0' # None => r0'.addr.tag # r1.reload_tag
    BY <1>3, <2>1 DEF untimely
  <2>4. r1'.full => (r1'.req.same_tag <=> r1'.req.addr.tag = r1.reload_tag)
    BY <1>0, <2>1, HeldStep, SameTag
  <2>5. ASSUME ~r1'.full, ~r1.dcbz
        PROVE  r1'.req.op = "LOAD_MISS" /\ r1'.req.same_tag
    <3>1. r1'.req = IF taken THEN fresh ELSE r1.req
      BY <1>2, <2>1 DEF Always
    <3>2. CASE completes(ack)
      <4>1. fetched(ack)
        BY <2>1, <3>2 DEF completes
      <4>2. /\ req.op = "LOAD_MISS" /\ r1.req.op = "LOAD_MISS"
            /\ r1.req.same_tag /\ req.same_tag /\ req.op \in Slow
        BY <2>1, <2>5, <3>2, <4>1, Completion
      <4>3. req = IF taken THEN fresh ELSE r1.req
        BY <1>0, <4>2, ReqFacts
      <4>. QED  BY <3>1, <4>2, <4>3
    <3>3. CASE ~completes(ack)
      <4>1. ~r1.full /\ ~taken
        BY <1>2, <2>5, <3>3 DEF Always, taken
      <4>. QED  BY <1>0, <2>1, <2>5, <3>1, <4>1 DEF OnBus
    <3>. QED  BY <3>2, <3>3
  <2>6. ReloadBus' \/ r1'.state = "IDLE"
    BY <2>1, <2>2, <2>3, <2>4, <2>5 DEF store_index
  <2>. QED  BY <2>1, <2>6
<1>6. CASE FromStore(ack)
  <2>1. /\ r1.state = "STORE_WAIT_ACK" /\ r1'.reload_tag = r1.reload_tag
        /\ r1'.acks_pending = 1 /\ (r1'.dec_acks <=> ack) /\ (r1'.inc_acks <=> another(ack))
        /\ r1'.state = (IF ack /\ ~another(ack) THEN "IDLE" ELSE "STORE_WAIT_ACK")
        /\ (r1'.write_bram <=> another(ack) /\ req.op = "STORE_HIT")
        /\ wb'.we /\ (wb'.stb => wb'.adr.tag = wb.adr.tag)
        /\ wb'.stb <=> ~ack \/ another(ack)
        /\ wb'.cyc <=> ~ack \/ another(ack)
        /\ another(ack) => wb'.adr = req.addr /\ wb'.dat = req.data /\ req.op \in Slow
    BY <1>6 DEF FromStore, StoreTo
  <2>2. another(ack) => ack
    BY DEF another
  <2>3. wb.adr.tag = r1.reload_tag /\ (waiting => pend.op # "dcbz" /\ Follows(pend))
    BY <1>0, <2>1 DEF OnBus
  <2>4. waiting' /\ r1'.state = "STORE_WAIT_ACK" => pend'.op # "dcbz" /\ Follows(pend)'
    <3>1. SUFFICES ASSUME waiting', r1'.state = "STORE_WAIT_ACK"
                   PROVE  pend'.op # "dcbz" /\ Follows(pend)'
      OBVIOUS
    <3>2. CASE waiting
      BY <1>3, <2>1, <2>3, <3>2 DEF Follows
    <3>3. CASE ~waiting
      <4>1. /\ pend' = q /\ q # None /\ ~untimely(q, ack) /\ req.op = "NONE"
        BY <1>3, <3>1, <3>3, SendStep
      <4>2. ~ack
        BY <2>1, <3>1, <4>1 DEF another, Stores
      <4>. QED  BY <2>1, <4>1, <4>2 DEF untimely, Follows
    <3>. QED  BY <3>2, <3>3
  <2>5. r1'.full => (r1'.req.same_tag <=> r1'.req.addr.tag = r1.reload_tag)
    BY <1>0, <2>1, HeldStep, SameTag
  <2>6. r1'.state = "STORE_WAIT_ACK" => StoreBus'
    <3>1. r1'.state = "STORE_WAIT_ACK" => (ack <=> another(ack))
      BY <2>1, <2>2
    <3>. QED  BY <2>1, <2>3, <2>4, <2>5, <3>1
  <2>7. r1'.write_bram => BramBus'
    <3>1. SUFFICES ASSUME another(ack) PROVE BramBus'
      BY <2>1
    <3>2. completes(ack)
      BY <2>1, <3>1 DEF completes
    <3>3. ~r1'.full
      BY <1>2, <3>2 DEF Always
    <3>4. r1'.req = req
      BY <1>0, <1>2, <2>1, <3>1, ReqFacts DEF Always
    <3>. QED  BY <2>1, <3>1, <3>3, <3>4
  <2>. QED  BY <2>1, <2>2, <2>6, <2>7
<1>7. CASE FromNc(ack)
  <2>1. /\ r1.state = "NC_LOAD_WAIT_ACK" /\ ~r1'.write_bram /\ r1'.dcbz = r1.dcbz
        /\ r1'.state = (IF ack THEN "IDLE" ELSE "NC_LOAD_WAIT_ACK")
        /\ ~ack => wb' = wb
        /\ ack => ~wb'.cyc
    BY <1>7 DEF FromNc, NcTo
  <2>2. NcBus /\ r1.full
    BY <1>0, <2>1 DEF OnBus
  <2>3. ~ack => /\ r1'.full /\ r1'.req.op = r1.req.op /\ r1'.req.addr = r1.req.addr
    <3>1. ~ack => ~completes(ack)
      BY <2>1 DEF completes, fetched
    <3>2. ~ack => r1'.full
      BY <1>2, <2>2, <3>1 DEF Always
    <3>3. req = r1.req
      BY <2>2 DEF req
    <3>. QED  BY <3>2, <3>3, HeldStep
  <2>4. ~ack => NcBus'
    BY <2>1, <2>2, <2>3
  <2>. QED  BY <2>1, <2>4
<1>. QED  BY <1>4, <1>5, <1>6, <1>7, TickStep

\* The set and the row read for the request that comes are the ones that are
\* there; the row that is being written is forwarded.
LEMMA LookupStep ==
    ASSUME NEW q, NEW v, NEW ack, Tick(q, v, ack)
    PROVE  Lookup'
<1>0. IInv /\ Types /\ OnBus /\ Reload /\ ack \in BOOLEAN
  BY DEF Tick, IInv
<1>. SUFFICES ASSUME r0' # None
              PROVE  /\ cache_tag_set' = cache_tags'[r0'.addr.idx]
                     /\ \A w \in Way :
                          cache_ram'[w][get_row(r0'.addr)]
                            = IF /\ r1'.forward_valid1 /\ w = r1'.forward_way1
                                 /\ r1'.forward_row1 = get_row(r0'.addr)
                              THEN r1'.forward_data1 ELSE rd_data0'[w]
  BY DEF Lookup, get_row
<1>1. ~waiting /\ r0' = q /\ q # None /\ r0 = None /\ ~r1.full
  BY SendStep
<1>2. ~r1.write_tag /\ ~r0_stall
  BY <1>0, <1>1 DEF Reload, r0_stall
<1>3. q \in Requests /\ q.addr.idx \in Idx /\ get_row(q.addr) \in Idx \X Row
  BY <1>1, SendStep, RequestFacts
<1>4. cache_tag_set' = cache_tags'[q.addr.idx]
  BY <1>1, <1>2 DEF Tick, Clock, TagRead, TagWrite
<1>5. ASSUME NEW w \in Way
      PROVE  cache_ram'[w][get_row(q.addr)]
               = IF r1'.forward_valid1 /\ w = r1'.forward_way1 /\ r1'.forward_row1 = get_row(q.addr)
                 THEN r1'.forward_data1 ELSE rd_data0'[w]
  <2>. DEFINE here == get_row(q.addr)
  <2>1. rd_data0'[w] = cache_ram[w][here]
    BY <1>1, <1>2 DEF Tick, Clock, Rams
  <2>2. /\ r1'.forward_data1 = (IF r1.write_bram THEN r1.req.data
                                ELSE IF r1.dcbz THEN 0
                                ELSE IF ack /\ ~wb.we THEN mem[wb.adr] ELSE None)
        /\ r1'.forward_way1 = (IF r1.write_bram THEN r1.req.hit_way ELSE replace_way)
        /\ r1'.forward_row1 = (IF r1.write_bram THEN get_row(r1.req.addr) ELSE r1.store_row)
        /\ r1'.forward_valid1 = (IF reload THEN ack ELSE r1.write_bram)
    BY TickStep DEF Always, Looked
  <2>3. cache_ram \in [Way -> [Idx \X Row -> Datum]] /\ cache_ram[w] \in [Idx \X Row -> Datum]
    BY <1>0 DEF Types
  <2>4. Rams(q, ack)
    BY DEF Tick, Clock
  <2>5. CASE reload
    <3>1. ~r1.write_bram /\ wb.we = r1.dcbz /\ r1.dcbz \in BOOLEAN
      BY <1>0, <2>5 DEF OnBus, reload, Types, Stage1
    <3>2. cache_ram' = IF ack
                       THEN [cache_ram EXCEPT ![replace_way][r1.store_row] =
                                IF r1.dcbz THEN 0 ELSE mem[wb.adr]]
                       ELSE cache_ram
      BY <2>4, <2>5, <3>1 DEF Rams, reload
    <3>3. replace_way \in Way /\ r1.store_row \in Idx \X Row
      BY <1>0, WireTypes
    <3>4. CASE ~ack
      BY <2>1, <2>2, <2>5, <3>2, <3>4
    <3>5. CASE ack
      <4>1. cache_ram'[w][here] = IF w = replace_way /\ here = r1.store_row
                                  THEN IF r1.dcbz THEN 0 ELSE mem[wb.adr]
                                  ELSE cache_ram[w][here]
        BY <1>3, <2>3, <3>2, <3>3, <3>5
      <4>. QED  BY <2>1, <2>2, <2>5, <3>1, <3>5, <4>1
    <3>. QED  BY <1>0, <3>4, <3>5
  <2>6. CASE ~reload
    <3>1. CASE ~r1.write_bram
      <4>1. cache_ram' = cache_ram
        BY <2>4, <2>6, <3>1 DEF Rams, reload
      <4>. QED  BY <2>1, <2>2, <2>6, <3>1, <4>1
    <3>2. CASE r1.write_bram
      <4>1. cache_ram' = [cache_ram EXCEPT ![r1.req.hit_way][get_row(r1.req.addr)] = r1.req.data]
        BY <2>4, <3>2 DEF Rams
      <4>2. r1.req \in Held
        BY <1>0 DEF Types, Stage1
      <4>3. r1.req.hit_way \in Way /\ get_row(r1.req.addr) \in Idx \X Row
        BY <4>2, AddrParts DEF Held
      <4>4. cache_ram'[w][here] = IF w = r1.req.hit_way /\ here = get_row(r1.req.addr)
                                  THEN r1.req.data ELSE cache_ram[w][here]
        BY <1>3, <2>3, <4>1, <4>3
      <4>. QED  BY <2>1, <2>2, <2>6, <3>2, <4>4
    <3>. QED  BY <3>1, <3>2
  <2>. QED  BY <2>5, <2>6
<1>. QED  BY <1>1, <1>4, <1>5

\* The way a reload fills, while it lasts and when it ends.
LEMMA ReplaceWay ==
    ASSUME NEW q, NEW v, NEW ack, Tick(q, v, ack), FromReload(ack)
    PROVE  /\ r1'.state = "RELOAD_WAIT_ACK" => replace_way' = replace_way
           /\ store_index' = store_index /\ ~r1'.write_tag
           /\ done(ack) => ~r1.write_tag /\ r1.store_way = replace_way /\ r1.rows_valid # {}
<1>0. Types /\ Reload
  BY DEF Tick, IInv
<1>1. /\ reload /\ ~r1'.write_tag /\ r1'.store_way = replace_way
      /\ r1'.store_row[1] = store_index
  BY DEF FromReload, ReloadTo, next_row, store_index
<1>2. done(ack) => r1.rows_valid # {}
  <2>1. r1.end_row_ix \in Row /\ r1.store_row[2] \in Row
    BY <1>0, WireTypes DEF Types, Stage1
  <2>2. PICK x \in Row : x # r1.end_row_ix
    BY <2>1, CacheAssumption DEF Row
  <2>3. Dist(x, r1.end_row_ix) \in Nat /\ Dist(x, r1.end_row_ix) # 0
        /\ Dist(r1.end_row_ix, r1.end_row_ix) = 0
    BY <2>1, <2>2, RowFacts
  <2>4. done(ack) => left(x) > left(r1.store_row[2])
    BY <2>3 DEF done, left
  <2>. QED  BY <1>0, <1>1, <2>4 DEF Reload
<1>3. done(ack) => ~r1.write_tag
  BY <1>0, <1>2 DEF Reload
<1>. QED  BY <1>1, <1>2, <1>3 DEF replace_way, store_index

\* The line under reload stays in one way, its rows come in order.
LEMMA ReloadStep ==
    ASSUME NEW q, NEW v, NEW ack, Tick(q, v, ack)
    PROVE  Reload'
<1>0. IInv /\ Types /\ Where /\ Reload /\ Lines /\ ack \in BOOLEAN
  BY DEF Tick, IInv
<1>. DEFINE Others == \A w \in cache_valids[store_index] : w # replace_way =>
                         cache_tags[store_index][w] # r1.reload_tag
            InOrder == \A x \in Row : x \in r1.rows_valid <=> left(x) > left(r1.store_row[2])
            Line0 == /\ <<r1.reload_tag, store_index>> \in Cached
                     /\ ~r1.write_tag => cache_tags[store_index][replace_way] = r1.reload_tag
<1>1. SUFFICES /\ r1'.write_tag => r1'.state = "RELOAD_WAIT_ACK" /\ r1'.full /\ r1'.rows_valid = {}
               /\ r1'.state = "RELOAD_WAIT_ACK" => Line0' /\ Others' /\ InOrder'
  BY DEF Reload, reload
<1>2. CASE FromIdle
  <2>1. ~reload /\ r1.state = "IDLE" /\ cache_tags' = cache_tags /\ cache_valids' = cache_valids
    BY <1>2 DEF FromIdle, reload
  <2>2. CASE ~((req.op = "LOAD_MISS") \/ (req.op \in Stores /\ req.dcbz))
    BY <1>0, <1>2, <2>1, <2>2 DEF FromIdle, IdleTo, Kept, Slow, Stores
  <2>3. CASE (req.op = "LOAD_MISS") \/ (req.op \in Stores /\ req.dcbz)
    <3>1. /\ r1'.state = "RELOAD_WAIT_ACK" /\ Started(r1')
          /\ (r1'.write_tag <=> req.op \in {"LOAD_MISS", "STORE_MISS"})
          /\ req.op = "STORE_HIT" => r1'.store_way = req.hit_way
          /\ req.op \in Slow
      <4>1. req.op \in Slow
        BY <2>3 DEF Slow
      <4>. QED  BY <1>2, <2>3, <4>1 DEF FromIdle, IdleTo, Slow, Stores
    <3>2. /\ pend \in Requests /\ pend.ok /\ pend.op \in {"load", "store", "dcbz"} /\ FoundOf(req)
          /\ req \in Held /\ req.addr = pend.addr
      BY <1>0, <3>1, ReqFacts, RequestFacts
    <3>3. pend.op \in {"load", "dcbz"} /\ ~pend.nc
      <4>1. CASE req.op = "LOAD_MISS"
        BY <1>0, <3>1, <3>2, <4>1, ReqFacts DEF Stores
      <4>2. CASE req.op \in Stores /\ req.dcbz
        BY <1>0, <3>1, <3>2, <4>2, ReqFacts, RequestFacts DEF Stores
      <4>. QED  BY <2>3, <4>1, <4>2
    <3>. DEFINE a == req.addr
    <3>4. a \in Addr /\ a.tag \in Tags /\ a.idx \in Idx /\ a.row \in Row
          /\ <<a.tag, a.idx>> \in Cached
      BY <3>2, <3>3, RequestFacts
    <3>5. /\ store_index' = a.idx /\ r1'.reload_tag = a.tag /\ r1'.rows_valid = {}
          /\ r1'.store_row[2] = a.row /\ r1'.end_row_ix = (a.row + Rows - 1) % Rows
      BY <3>1, <3>4, AddrParts DEF Started, store_index
    <3>6. ~Reloaded(a)
      BY <2>1 DEF Reloaded
    <3>7. req.op # "STORE_HIT" => Absent(a)
      BY <3>2 DEF FoundOf
    <3>8. req.op = "STORE_HIT" =>
             /\ Stands(a.idx, req.hit_way) /\ cache_tags[a.idx][req.hit_way] = a.tag
             /\ replace_way' = req.hit_way /\ req.hit_way \in Way /\ ~r1'.write_tag
      BY <3>1, <3>2, <3>6 DEF FoundOf, replace_way, Held
    <3>9. Line0'
      <4>1. ~r1'.write_tag => req.op = "STORE_HIT"
        BY <2>3, <3>1 DEF Stores
      <4>. QED  BY <2>1, <3>4, <3>5, <3>8, <4>1
    <3>10. Others'
      <4>. SUFFICES ASSUME NEW w \in cache_valids[a.idx], w # replace_way'
                    PROVE  cache_tags[a.idx][w] # a.tag
        BY <2>1, <3>5
      <4>0. w \in Way
        BY <1>0, <3>4 DEF Types
      <4>1. Stands(a.idx, w)
        BY <2>1, <4>0 DEF Stands
      <4>2. CASE req.op # "STORE_HIT"
        BY <3>7, <4>0, <4>1, <4>2 DEF Absent
      <4>3. CASE req.op = "STORE_HIT"
        BY <1>0, <3>4, <3>8, <4>0, <4>1, <4>3, OneWay
      <4>. QED  BY <4>2, <4>3
    <3>11. InOrder'
      <4>1. /\ r1'.end_row_ix \in Row
            /\ \A x \in Row : /\ Dist(x, r1'.end_row_ix) <= Rows - 1
                              /\ Dist(x, r1'.end_row_ix) \in Nat
            /\ Dist(a.row, r1'.end_row_ix) = Rows - 1
        <5>1. r1'.end_row_ix \in Row
          <6>1. (a.row + Rows - 1) % Rows \in Row
            BY <3>4, RowFacts
          <6>. QED  BY <3>5, <6>1
        <5>2. \A x \in Row : /\ Dist(x, r1'.end_row_ix) <= Rows - 1
                             /\ Dist(x, r1'.end_row_ix) \in Nat
          BY <5>1, RowFacts
        <5>3. Dist(a.row, r1'.end_row_ix) = Rows - 1
          BY <3>4, <3>5, <5>1, RowFacts
        <5>. QED  BY <5>1, <5>2, <5>3
      <4>2. \A x \in Row : ~(Dist(x, r1'.end_row_ix) > Dist(a.row, r1'.end_row_ix))
        BY <4>1, CacheAssumption
      <4>. QED  BY <3>5, <4>2 DEF left
    <3>12. r1'.full
      <4>1. ~completes(ack)
        BY <2>1, <2>3 DEF completes, fetched, reload, Stores
      <4>2. r1.full \/ req_op \in Slow
        BY <1>0, <3>1, ReqFacts DEF taken
      <4>. QED  BY <4>1, <4>2, TickStep DEF Always
    <3>. QED  BY <3>1, <3>5, <3>9, <3>10, <3>11, <3>12
  <2>. QED  BY <2>2, <2>3
<1>3. CASE FromReload(ack)
  <2>1. /\ reload /\ ~r1'.write_tag /\ r1'.reload_tag = r1.reload_tag
        /\ r1'.end_row_ix = r1.end_row_ix
        /\ r1'.rows_valid = (IF ack THEN r1.rows_valid \cup {r1.store_row[2]} ELSE r1.rows_valid)
        /\ r1'.state = (IF done(ack) THEN "IDLE" ELSE "RELOAD_WAIT_ACK")
        /\ r1'.store_row = (IF ack THEN next_row(r1.store_row) ELSE r1.store_row)
    BY <1>3 DEF FromReload, ReloadTo
  <2>2. SUFFICES ASSUME ~done(ack) PROVE Line0' /\ Others' /\ InOrder'
    BY <2>1
  <2>3. store_index' = store_index /\ replace_way' = replace_way
    BY <1>3, <2>1, <2>2, ReplaceWay
  <2>4. /\ store_index \in Idx /\ replace_way \in Way /\ r1.store_row[2] \in Row
        /\ r1.end_row_ix \in Row
        /\ cache_tags \in [Idx -> [Way -> Tags \cup {None}]]
    BY <1>0, WireTypes DEF Types, Stage1
  <2>5. cache_tags[store_index] \in [Way -> Tags \cup {None}]
    BY <2>4
  <2>6. cache_valids' = cache_valids
        /\ cache_tags' = IF r1.write_tag
                         THEN [cache_tags EXCEPT ![store_index][replace_way] = r1.reload_tag]
                         ELSE cache_tags
    BY <1>3, <2>2 DEF FromReload
  <2>7. /\ cache_tags'[store_index][replace_way] = r1.reload_tag
        /\ \A w \in Way : w # replace_way =>
             cache_tags'[store_index][w] = cache_tags[store_index][w]
    BY <1>0, <2>1, <2>4, <2>5, <2>6 DEF Reload
  <2>8. Line0'
    BY <1>0, <2>1, <2>3, <2>7 DEF Reload
  <2>9. Others'
    <3>1. \A w \in cache_valids[store_index] : w # replace_way =>
             cache_tags[store_index][w] # r1.reload_tag
      BY <1>0, <2>1 DEF Reload
    <3>2. cache_valids[store_index] \subseteq Way
      BY <1>0, <2>4 DEF Types
    <3>. QED  BY <2>1, <2>3, <2>6, <2>7, <3>1, <3>2
  <2>10. InOrder'
    <3>1. \A x \in Row : x \in r1.rows_valid <=> left(x) > left(r1.store_row[2])
      BY <1>0, <2>1 DEF Reload
    <3>2. CASE ~ack
      BY <2>1, <3>1, <3>2 DEF left
    <3>3. CASE ack
      <4>. DEFINE s == r1.store_row[2]
                  e == r1.end_row_ix
      <4>1. s # e /\ r1'.store_row[2] = (s + 1) % Rows
        BY <2>1, <2>2, <3>3 DEF done, next_row
      <4>2. Dist((s + 1) % Rows, e) = Dist(s, e) - 1 /\ Dist(s, e) \in Nat
        BY <2>4, <4>1, RowFacts
      <4>3. ASSUME NEW x \in Row
            PROVE  x \in r1'.rows_valid <=> Dist(x, e) > Dist((s + 1) % Rows, e)
        <5>1. Dist(x, e) \in Nat /\ (Dist(x, e) = Dist(s, e) => x = s)
          <6>1. Dist(x, e) \in Nat
            BY <2>4, RowFacts
          <6>2. Dist(x, e) = Dist(s, e) => x = s
            BY <2>4, DistOnce
          <6>. QED  BY <6>1, <6>2
        <5>2. x \in r1.rows_valid <=> Dist(x, e) > Dist(s, e)
          BY <3>1 DEF left
        <5>3. x \in r1'.rows_valid <=> x \in r1.rows_valid \/ x = s
          BY <2>1, <3>3
        <5>. QED  BY <4>2, <5>1, <5>2, <5>3
      <4>. QED  BY <2>1, <4>1, <4>3 DEF left
    <3>. QED  BY <1>0, <3>2, <3>3
  <2>. QED  BY <2>8, <2>9, <2>10
<1>4. CASE FromStore(ack)
  BY <1>4 DEF FromStore, StoreTo
<1>5. CASE FromNc(ack)
  BY <1>5 DEF FromNc, NcTo
<1>. QED  BY <1>2, <1>3, <1>4, <1>5, TickStep

\* What is in a line that stands is what will be there when the write in
\* stage 1 is done; a line comes when its reload ends.
LEMMA StandStep ==
    ASSUME NEW q, NEW v, NEW ack, Tick(q, v, ack), NEW i \in Idx, NEW w \in Way
    PROVE  /\ Stands(i, w)' => \/ Stands(i, w)
                               \/ FromReload(ack) /\ done(ack) /\ i = store_index /\ w = replace_way
           /\ FromReload(ack) /\ done(ack) /\ i = store_index /\ w = replace_way =>
                Stands(i, w)' /\ cache_tags'[i][w] = r1.reload_tag
           /\ Stands(i, w) => /\ r1.state # "IDLE" => Stands(i, w)'
                              /\ cache_tags'[i][w] = cache_tags[i][w]
                              /\ \A x \in Row : cache_ram'[w][<<i, x>>] = Cell(w, i, x)
<1>0. IInv /\ Types /\ OnBus /\ Reload /\ ack \in BOOLEAN
  BY DEF Tick, IInv
<1>1. /\ cache_ram[w] \in [Idx \X Row -> Datum] /\ cache_ram \in [Way -> [Idx \X Row -> Datum]]
      /\ cache_tags[i] \in [Way -> Tags \cup {None}]
      /\ cache_tags \in [Idx -> [Way -> Tags \cup {None}]]
      /\ cache_valids \in [Idx -> SUBSET Way]
      /\ \A x \in Row : <<i, x>> \in Idx \X Row
  BY <1>0 DEF Types
<1>2. /\ store_index \in Idx /\ replace_way \in Way /\ <<store_index, r1.store_row[2]>> \in Idx \X Row
  BY <1>0, WireTypes
<1>3. CASE FromReload(ack)
  <2>1. /\ reload /\ r1.state = "RELOAD_WAIT_ACK" /\ ~r1.write_bram
        /\ r1'.state = (IF done(ack) THEN "IDLE" ELSE "RELOAD_WAIT_ACK")
        /\ cache_tags' = IF r1.write_tag
                         THEN [cache_tags EXCEPT ![store_index][replace_way] = r1.reload_tag]
                         ELSE cache_tags
        /\ cache_valids' = IF done(ack)
                           THEN [cache_valids EXCEPT ![store_index] = @ \cup {r1.store_way}]
                           ELSE cache_valids
    BY <1>3 DEF FromReload, reload
  <2>2. /\ r1'.state = "RELOAD_WAIT_ACK" => replace_way' = replace_way
        /\ store_index' = store_index
        /\ done(ack) => ~r1.write_tag /\ r1.store_way = replace_way
    BY <1>3, ReplaceWay
  <2>3. Stands(i, w) <=> w \in cache_valids[i] /\ ~(i = store_index /\ w = replace_way)
    BY <2>1 DEF Stands
  <2>4. CASE ~done(ack)
    <3>1. Stands(i, w)' <=> w \in cache_valids[i] /\ ~(i = store_index /\ w = replace_way)
      BY <2>1, <2>2, <2>4 DEF Stands, reload
    <3>2. Stands(i, w) => cache_tags'[i][w] = cache_tags[i][w]
      BY <1>1, <1>2, <2>1, <2>3
    <3>3. Stands(i, w) => \A x \in Row : cache_ram'[w][<<i, x>>] = cache_ram[w][<<i, x>>]
      BY <1>1, <1>2, <1>3, <2>3 DEF FromReload
    <3>. QED  BY <2>1, <2>3, <2>4, <3>1, <3>2, <3>3 DEF Cell
  <2>5. CASE done(ack)
    <3>1. Stands(i, w)' <=> w \in cache_valids'[i]
      BY <2>1, <2>5 DEF Stands, reload
    <3>2. w \in cache_valids'[i] <=>
             w \in cache_valids[i] \/ (i = store_index /\ w = replace_way)
      BY <1>1, <1>2, <2>1, <2>2, <2>5
    <3>3. cache_tags' = cache_tags
      BY <2>1, <2>2, <2>5
    <3>4. Stands(i, w) => \A x \in Row : cache_ram'[w][<<i, x>>] = cache_ram[w][<<i, x>>]
      BY <1>1, <1>2, <1>3, <2>3 DEF FromReload
    <3>5. cache_tags[store_index][replace_way] = r1.reload_tag
      BY <1>0, <2>1, <2>2, <2>5 DEF Reload
    <3>. QED  BY <1>3, <2>1, <2>3, <2>5, <3>1, <3>2, <3>3, <3>4, <3>5 DEF Cell
  <2>. QED  BY <2>4, <2>5
<1>4. CASE ~FromReload(ack)
  <2>1. ~reload /\ cache_tags' = cache_tags /\ cache_valids' = cache_valids
    BY <1>4, TickStep DEF FromIdle, FromStore, FromNc, reload
  <2>2. Stands(i, w) <=> w \in cache_valids[i]
    BY <2>1 DEF Stands
  <2>3. Stands(i, w)' => w \in cache_valids[i]
    BY <2>1 DEF Stands
  <2>4. r1.state # "IDLE" => r1'.state # "RELOAD_WAIT_ACK"
    BY <1>4, TickStep DEF FromIdle, FromStore, StoreTo, FromNc, NcTo
  <2>5. r1.state # "IDLE" /\ Stands(i, w) => Stands(i, w)'
    BY <2>1, <2>2, <2>4 DEF Stands, reload
  <2>6. \A x \in Row : cache_ram'[w][<<i, x>>] = Cell(w, i, x)
    <3>1. CASE FromStore(ack)
      <4>1. cache_ram' = IF r1.write_bram
                         THEN [cache_ram EXCEPT
                                  ![r1.req.hit_way][get_row(r1.req.addr)] = r1.req.data]
                         ELSE cache_ram
        BY <3>1 DEF FromStore
      <4>2. r1.req \in Held
        BY <1>0 DEF Types, Stage1
      <4>3. r1.req.hit_way \in Way /\ get_row(r1.req.addr) \in Idx \X Row
        BY <4>2, AddrParts DEF Held
      <4>. QED  BY <1>1, <4>1, <4>3 DEF Cell
    <3>2. CASE FromIdle \/ FromNc(ack)
      <4>1. cache_ram' = cache_ram /\ r1.state # "STORE_WAIT_ACK"
        BY <3>2 DEF FromIdle, FromNc
      <4>2. ~r1.write_bram
        BY <1>0, <4>1 DEF OnBus
      <4>. QED  BY <4>1, <4>2 DEF Cell
    <3>. QED  BY <1>4, <3>1, <3>2, TickStep
  <2>. QED  BY <1>4, <2>1, <2>2, <2>3, <2>5, <2>6
<1>. QED  BY <1>3, <1>4

\* A row that arrives is what memory will hold.
LEMMA FillStep ==
    ASSUME NEW q, NEW v, NEW ack, Tick(q, v, ack), FromReload(ack)
    PROVE  /\ \A x \in r1'.rows_valid :
                /\ x \in Row
                /\ cache_ram'[replace_way][<<store_index, x>>]
                     = Then(CellOf(r1.reload_tag, store_index, x))
                /\ r1.dcbz => mem'[CellOf(r1.reload_tag, store_index, x)] = 0
           /\ done(ack) => \A x \in Row : x \in r1'.rows_valid
           /\ r1.reload_tag \in Tags
<1>0. IInv /\ Types /\ OnBus /\ Reload /\ Lines /\ ack \in BOOLEAN
  BY DEF Tick, IInv
<1>. DEFINE s == r1.store_row[2]
<1>1. reload /\ r1.state = "RELOAD_WAIT_ACK"
  BY DEF FromReload, reload
<1>2. store_index \in Idx /\ replace_way \in Way /\ s \in Row /\ r1.reload_tag \in Tags
  BY <1>0, <1>1, WireTypes, CachedTag DEF Reload
<1>3. r1'.rows_valid = IF ack THEN r1.rows_valid \cup {s} ELSE r1.rows_valid
  BY DEF FromReload, ReloadTo
<1>4. r1.rows_valid \subseteq Row /\ r1.end_row_ix \in Row
  BY <1>0 DEF Types, Stage1
<1>5. ASSUME NEW x \in r1'.rows_valid
      PROVE  /\ x \in Row
             /\ cache_ram'[replace_way][<<store_index, x>>]
                  = Then(CellOf(r1.reload_tag, store_index, x))
             /\ r1.dcbz => mem'[CellOf(r1.reload_tag, store_index, x)] = 0
  <2>. DEFINE c == CellOf(r1.reload_tag, store_index, x)
              here == CellOf(r1.reload_tag, store_index, s)
  <2>1. x \in Row /\ (x \in r1.rows_valid \/ (ack /\ x = s))
    BY <1>2, <1>3, <1>4, <1>5
  <2>2. c \in Addr /\ here \in Addr /\ c.tag = r1.reload_tag /\ c.idx = store_index
        /\ (c = here <=> x = s)
    <3>1. c \in Addr /\ c.tag = r1.reload_tag /\ c.idx = store_index /\ c.row = x
      BY <1>2, <2>1, CellIsAddr
    <3>2. here \in Addr /\ here.row = s
      BY <1>2, CellIsAddr
    <3>. QED  BY <3>1, <3>2
  <2>3. /\ cache_ram' = IF ack
                        THEN [cache_ram EXCEPT ![replace_way][<<store_index, s>>] =
                                 IF r1.dcbz THEN 0 ELSE mem[here]]
                        ELSE cache_ram
        /\ mem' = IF ack /\ r1.dcbz THEN [mem EXCEPT ![here] = 0] ELSE mem
    BY DEF FromReload
  <2>4. /\ cache_ram \in [Way -> [Idx \X Row -> Datum]] /\ mem \in [Addr -> Vals]
        /\ cache_ram[replace_way] \in [Idx \X Row -> Datum]
        /\ <<store_index, x>> \in Idx \X Row /\ <<store_index, s>> \in Idx \X Row
    BY <1>0, <1>2, <2>1 DEF Types
  <2>5. CASE ack /\ x = s
    <3>1. cache_ram'[replace_way][<<store_index, x>>] = IF r1.dcbz THEN 0 ELSE mem[here]
      BY <1>2, <2>3, <2>4, <2>5
    <3>2. r1.dcbz => mem'[c] = 0
      BY <2>2, <2>3, <2>4, <2>5
    <3>3. Then(c) = IF r1.dcbz THEN 0 ELSE mem[c]
      BY <1>1, <2>2 DEF Then, Reloaded
    <3>. QED  BY <2>1, <2>2, <2>5, <3>1, <3>2, <3>3
  <2>6. CASE ~(ack /\ x = s)
    <3>1. x \in r1.rows_valid
      BY <2>1, <2>6
    <3>2. cache_ram[replace_way][<<store_index, x>>] = Then(c) /\ (r1.dcbz => mem[c] = 0)
      BY <1>0, <1>1, <3>1 DEF Lines
    <3>3. cache_ram'[replace_way][<<store_index, x>>] = cache_ram[replace_way][<<store_index, x>>]
      <4>1. x # s => <<store_index, x>> # <<store_index, s>>
        OBVIOUS
      <4>. QED  BY <1>0, <1>2, <2>3, <2>4, <2>6, <4>1
    <3>4. mem'[c] = mem[c]
      BY <1>0, <2>2, <2>3, <2>4, <2>6
    <3>. QED  BY <2>1, <3>2, <3>3, <3>4
  <2>. QED  BY <2>5, <2>6
<1>6. ASSUME done(ack), NEW x \in Row
      PROVE  x \in r1'.rows_valid
  <2>1. ack /\ s = r1.end_row_ix
    BY <1>6 DEF done
  <2>2. CASE x = s
    BY <1>3, <2>1, <2>2
  <2>3. CASE x # s
    <3>1. Dist(x, r1.end_row_ix) \in Nat /\ Dist(x, r1.end_row_ix) # 0
      BY <1>4, <2>1, <2>3, RowFacts
    <3>2. Dist(r1.end_row_ix, r1.end_row_ix) = 0
      BY <1>4, RowFacts
    <3>3. left(x) > left(s)
      BY <2>1, <3>1, <3>2 DEF left
    <3>4. x \in r1.rows_valid
      BY <1>0, <1>1, <3>3 DEF Reload
    <3>. QED  BY <1>3, <2>1, <3>4
  <2>. QED  BY <2>2, <2>3
<1>. QED  BY <1>2, <1>5, <1>6

\* A store that hits, and no other, writes the RAM in the next clock.
LEMMA BramStep ==
    ASSUME NEW q, NEW v, NEW ack, Tick(q, v, ack)
    PROVE  /\ r1'.write_bram <=> stores(ack) /\ req.op = "STORE_HIT"
           /\ stores(ack) => /\ r1'.req.addr = req.addr /\ r1'.req.data = req.data
                             /\ r1'.req.hit_way = req.hit_way
<1>0. IInv
  BY DEF Tick
<1>1. stores(ack) => req.op \in Slow
  BY DEF stores, Slow
<1>2. stores(ack) => /\ r1'.req.addr = req.addr /\ r1'.req.data = req.data
                     /\ r1'.req.hit_way = req.hit_way
  <2>. SUFFICES ASSUME stores(ack)
                PROVE  /\ r1'.req.addr = req.addr /\ r1'.req.data = req.data
                       /\ r1'.req.hit_way = req.hit_way
    OBVIOUS
  <2>1. req \in Held /\ req = IF taken THEN fresh ELSE r1.req
    BY <1>0, <1>1, ReqFacts
  <2>2. IF r1.state = "IDLE"
        THEN r1'.req = [req EXCEPT !.same_tag = TRUE]
        ELSE r1'.req = req
    BY <2>1, TickStep DEF Always
  <2>. QED  BY <2>1, <2>2 DEF Held
<1>3. CASE FromIdle
  <2>1. r1.state = "IDLE"
    BY <1>3 DEF FromIdle
  <2>2. stores(ack) <=> req.op \in Stores /\ ~req.dcbz
    BY <2>1 DEF stores
  <2>. QED  BY <1>2, <1>3, <2>2 DEF FromIdle, IdleTo, Slow, Stores
<1>4. CASE FromReload(ack)
  BY <1>2, <1>4 DEF FromReload, ReloadTo, reload, stores
<1>5. CASE FromStore(ack)
  <2>1. /\ r1.state = "STORE_WAIT_ACK" /\ (another(ack) => req.op \in Slow)
        /\ r1'.write_bram <=> another(ack) /\ req.op = "STORE_HIT"
    BY <1>5 DEF FromStore, StoreTo
  <2>2. another(ack) => ~req.dcbz /\ req.op \in Stores
    <3>. SUFFICES ASSUME another(ack) PROVE ~req.dcbz /\ req.op \in Stores
      OBVIOUS
    <3>1. req.op \in Stores /\ waiting /\ pend.op # "tlb" /\ pend \in Requests
      BY <1>0, <2>1, ReqFacts DEF another
    <3>2. pend.op # "dcbz"
      BY <1>0, <2>1, <3>1 DEF IInv, OnBus
    <3>. QED  BY <1>0, <2>1, <3>1, <3>2, ReqFacts, RequestFacts DEF Stores
  <2>. QED  BY <1>2, <2>1, <2>2 DEF stores
<1>6. CASE FromNc(ack)
  BY <1>2, <1>6 DEF FromNc, NcTo, stores
<1>. QED  BY <1>3, <1>4, <1>5, <1>6, TickStep

\* Every line that stands keeps holding what memory will.
LEMMA LinesStep ==
    ASSUME NEW q, NEW v, NEW ack, Tick(q, v, ack)
    PROVE  Lines'
<1>0. IInv /\ Types /\ Reload /\ Lines /\ ack \in BOOLEAN
  BY DEF Tick, IInv
<1>. DEFINE comes(i, w) == FromReload(ack) /\ done(ack) /\ i = store_index /\ w = replace_way
<1>1. \A i \in Idx, w \in Way :
        /\ Stands(i, w)' => Stands(i, w) \/ comes(i, w)
        /\ comes(i, w) => cache_tags'[i][w] = r1.reload_tag
        /\ Stands(i, w) => /\ cache_tags'[i][w] = cache_tags[i][w]
                           /\ \A x \in Row : cache_ram'[w][<<i, x>>] = Cell(w, i, x)
  BY StandStep
<1>2. ASSUME NEW i \in Idx, NEW w \in Way, Stands(i, w)', Stands(i, w)
      PROVE  /\ <<cache_tags'[i][w], i>> \in Cached
             /\ \A x \in Row : Cell(w, i, x)' = Then(CellOf(cache_tags[i][w], i, x))'
  <2>. DEFINE t == cache_tags[i][w]
  <2>1. cache_tags'[i][w] = t /\ <<t, i>> \in Cached /\ t \in Tags
    BY <1>0, <1>1, <1>2, LineFacts, CachedTag
  <2>2. ASSUME NEW x \in Row
        PROVE  Cell(w, i, x)' = Then(CellOf(t, i, x))'
    <3>. DEFINE c == CellOf(t, i, x)
    <3>1. c \in Addr /\ c.tag = t /\ c.idx = i /\ c.row = x
      BY <2>1, CellIsAddr
    <3>2. Then(c)' = IF stores(ack) /\ c = req.addr THEN req.data
                     ELSE IF clears /\ c \in Line(req.addr) THEN 0 ELSE Then(c)
      <4>1. c' = CellOf(t', i, x)
        OBVIOUS
      <4>2. \A a \in Addr : Then(a)' = IF stores(ack) /\ a = req.addr THEN req.data
                                       ELSE IF clears /\ a \in Line(req.addr) THEN 0 ELSE Then(a)
        BY ThenStep
      <4>. QED  BY <2>1, <3>1, <4>2
    <3>3. Cell(w, i, x) = Then(c) /\ cache_ram'[w][<<i, x>>] = Cell(w, i, x)
      <4>1. \A y \in Row : Cell(w, i, y) = Then(CellOf(cache_tags[i][w], i, y))
        BY <1>0, <1>2, LineFacts
      <4>. QED  BY <1>1, <1>2, <4>1
    <3>4. Cell(w, i, x)' = IF /\ r1'.write_bram /\ w = r1'.req.hit_way
                              /\ <<i, x>> = get_row(r1'.req.addr)
                           THEN r1'.req.data ELSE cache_ram'[w][<<i, x>>]
      BY DEF Cell, get_row
    <3>5. CASE ~stores(ack) /\ ~clears
      BY <3>2, <3>3, <3>4, <3>5, BramStep
    <3>6. CASE stores(ack)
      <4>1. /\ req.op \in Slow /\ req.op \in Stores /\ r1.state \in {"IDLE", "STORE_WAIT_ACK"}
            /\ ~reload
        BY <3>6 DEF stores, Slow, reload
      <4>2. FoundOf(req) /\ req.addr \in Addr /\ ~Reloaded(req.addr)
        BY <1>0, <4>1, ReqFacts DEF Held, Reloaded
      <4>3. /\ r1'.req.addr = req.addr /\ r1'.req.data = req.data /\ r1'.req.hit_way = req.hit_way
            /\ r1'.write_bram <=> req.op = "STORE_HIT"
        BY <3>6, BramStep
      <4>4. get_row(req.addr) = <<req.addr.idx, req.addr.row>> /\ req.addr.idx \in Idx
            /\ req.addr = CellOf(req.addr.tag, req.addr.idx, req.addr.row)
        BY <4>2, AddrParts DEF get_row
      <4>5. CASE req.op = "STORE_HIT"
        <5>1. /\ Stands(req.addr.idx, req.hit_way) /\ req.hit_way \in Way
              /\ cache_tags[req.addr.idx][req.hit_way] = req.addr.tag
          BY <1>0, <4>1, <4>2, <4>5, ReqFacts DEF FoundOf, Held
        <5>2. c = req.addr <=> w = req.hit_way /\ <<i, x>> = <<req.addr.idx, req.addr.row>>
          <6>1. ASSUME c = req.addr
                PROVE  w = req.hit_way /\ <<i, x>> = <<req.addr.idx, req.addr.row>>
            <7>1. i = req.addr.idx /\ x = req.addr.row /\ t = req.addr.tag
              BY <3>1, <6>1
            <7>. QED  BY <1>0, <1>2, <5>1, <7>1, OneWay
          <6>2. ASSUME w = req.hit_way, <<i, x>> = <<req.addr.idx, req.addr.row>>
                PROVE  c = req.addr
            BY <4>4, <5>1, <6>2
          <6>. QED  BY <6>1, <6>2
        <5>3. ~clears
          BY <3>6 DEF stores, clears
        <5>. QED  BY <3>2, <3>3, <3>4, <3>6, <4>3, <4>4, <4>5, <5>2, <5>3
      <4>6. CASE req.op # "STORE_HIT"
        <5>1. Absent(req.addr)
          BY <4>2, <4>6 DEF FoundOf
        <5>2. c # req.addr
          BY <1>2, <3>1, <5>1 DEF Absent
        <5>3. ~clears
          BY <3>6 DEF stores, clears
        <5>. QED  BY <3>2, <3>3, <3>4, <4>3, <4>6, <5>2, <5>3
      <4>. QED  BY <4>5, <4>6
    <3>7. CASE clears
      <4>1. /\ req.op \in Slow /\ req.op \in Stores /\ r1.state = "IDLE" /\ req.dcbz
            /\ ~reload /\ ~stores(ack)
        BY <3>7 DEF clears, stores, Slow, reload
      <4>2. FoundOf(req) /\ req.addr \in Addr /\ ~Reloaded(req.addr)
        BY <1>0, <4>1, ReqFacts DEF Held, Reloaded
      <4>3. c \notin Line(req.addr)
        <5>1. SUFFICES ASSUME t = req.addr.tag, i = req.addr.idx PROVE FALSE
          BY <3>1 DEF Line
        <5>2. CASE req.op # "STORE_HIT"
          BY <1>2, <4>2, <5>1, <5>2 DEF FoundOf, Absent
        <5>3. CASE req.op = "STORE_HIT"
          <6>1. /\ Stands(req.addr.idx, req.hit_way) /\ req.hit_way \in Way
                /\ cache_tags[req.addr.idx][req.hit_way] = req.addr.tag
            BY <1>0, <4>1, <4>2, <5>3, ReqFacts DEF FoundOf, Held
          <6>2. w = req.hit_way
            BY <1>0, <1>2, <5>1, <6>1, OneWay
          <6>3. FromIdle
            BY <4>1, TickStep DEF FromIdle, FromReload, reload, FromStore, FromNc
          <6>4. /\ r1'.state = "RELOAD_WAIT_ACK" /\ ~r1'.write_tag /\ r1'.store_way = req.hit_way
                /\ r1'.store_row = get_row(req.addr)
            BY <4>1, <5>3, <6>3 DEF FromIdle, IdleTo, Started, Slow, Stores
          <6>5. store_index' = req.addr.idx /\ replace_way' = req.hit_way
            BY <4>2, <6>4, AddrParts DEF store_index, replace_way
          <6>. QED  BY <1>2, <5>1, <6>2, <6>4, <6>5 DEF Stands, reload
        <5>. QED  BY <5>2, <5>3
      <4>. QED  BY <3>2, <3>3, <3>4, <4>1, <4>3, BramStep
    <3>. QED  BY <3>5, <3>6, <3>7
  <2>. QED  BY <2>1, <2>2
<1>3. ASSUME NEW i \in Idx, NEW w \in Way, comes(i, w)
      PROVE  /\ <<cache_tags'[i][w], i>> \in Cached
             /\ \A x \in Row : Cell(w, i, x)' = Then(CellOf(cache_tags[i][w], i, x))'
  <2>1. /\ cache_tags'[i][w] = r1.reload_tag /\ reload
        /\ ~stores(ack) /\ ~clears /\ <<r1.reload_tag, i>> \in Cached
    <3>1. FromReload(ack) /\ i = store_index
      BY <1>3
    <3>2. reload /\ ~stores(ack) /\ ~clears
      BY <3>1 DEF FromReload, reload, stores, clears
    <3>. QED  BY <1>0, <1>1, <1>3, <3>1, <3>2 DEF Reload
  <2>2. ASSUME NEW x \in Row
        PROVE  Cell(w, i, x)' = Then(CellOf(cache_tags[i][w], i, x))'
    <3>. DEFINE c == CellOf(r1.reload_tag, i, x)
    <3>1. c \in Addr
      BY <1>3, FillStep, CellIsAddr
    <3>2. \A a \in Addr : Then(a)' = Then(a)
      BY <2>1, ThenStep
    <3>3. cache_ram'[w][<<i, x>>] = Then(c)
      BY <1>3, FillStep
    <3>4. ~r1'.write_bram
      BY <2>1, BramStep
    <3>5. Cell(w, i, x)' = cache_ram'[w][<<i, x>>]
      BY <3>4 DEF Cell
    <3>6. CellOf(cache_tags[i][w], i, x)' = c
      BY <2>1 DEF CellOf
    <3>. QED  BY <3>1, <3>2, <3>3, <3>5, <3>6
  <2>. QED  BY <2>1, <2>2
<1>4. ASSUME NEW i \in Idx, NEW w \in Way, NEW y \in Way, Stands(i, w)', Stands(i, y)', y # w
      PROVE  cache_tags'[i][y] # cache_tags'[i][w]
  <2>1. CASE Stands(i, w) /\ Stands(i, y)
    BY <1>0, <1>1, <1>4, <2>1, OneWay
  <2>2. ASSUME NEW u \in Way, NEW z \in Way, comes(i, u), Stands(i, z), z # u
        PROVE  cache_tags'[i][z] # cache_tags'[i][u]
    <3>1. cache_tags'[i][z] = cache_tags[i][z] /\ cache_tags'[i][u] = r1.reload_tag
      BY <1>1, <2>2
    <3>2. reload /\ i = store_index /\ u = replace_way
      BY <2>2 DEF FromReload
    <3>3. z \in cache_valids[store_index] /\ z # replace_way
      BY <2>2, <3>2 DEF Stands
    <3>. QED  BY <1>0, <3>1, <3>2, <3>3 DEF Reload
  <2>3. ~(comes(i, w) /\ comes(i, y))
    BY <1>4
  <2>. QED  BY <1>1, <1>4, <2>1, <2>2, <2>3
<1>5. ASSUME r1'.state = "RELOAD_WAIT_ACK", NEW x \in r1'.rows_valid
      PROVE  /\ cache_ram'[replace_way'][<<store_index', x>>]
                  = Then(CellOf(r1.reload_tag, store_index, x))'
             /\ r1'.dcbz => mem'[CellOf(r1'.reload_tag, store_index', x)] = 0
  <2>1. CASE FromIdle
    <3>1. r1.state = "IDLE"
      BY <2>1 DEF FromIdle
    <3>2. r1'.rows_valid = {}
      BY <1>5, <2>1, <3>1 DEF FromIdle, IdleTo, Started, Kept
    <3>. QED  BY <1>5, <3>2
  <2>2. CASE FromReload(ack)
    <3>1. /\ replace_way' = replace_way /\ store_index' = store_index
          /\ r1'.reload_tag = r1.reload_tag /\ r1'.dcbz = r1.dcbz
      BY <1>5, <2>2, ReplaceWay DEF FromReload, ReloadTo
    <3>2. /\ x \in Row /\ r1.reload_tag \in Tags
          /\ cache_ram'[replace_way][<<store_index, x>>]
               = Then(CellOf(r1.reload_tag, store_index, x))
          /\ r1.dcbz => mem'[CellOf(r1.reload_tag, store_index, x)] = 0
      BY <1>5, <2>2, FillStep
    <3>. DEFINE c == CellOf(r1.reload_tag, store_index, x)
    <3>3. c \in Addr
      BY <1>0, <3>2, WireTypes, CellIsAddr
    <3>4. ~stores(ack) /\ ~clears
      BY <2>2 DEF FromReload, reload, stores, clears
    <3>5. \A a \in Addr : Then(a)' = Then(a)
      BY <3>4, ThenStep
    <3>6. CellOf(r1.reload_tag, store_index, x)' = c
      BY <3>1 DEF CellOf
    <3>. QED  BY <3>1, <3>2, <3>3, <3>5, <3>6
  <2>3. CASE FromStore(ack) \/ FromNc(ack)
    BY <1>5, <2>3 DEF FromStore, StoreTo, FromNc, NcTo
  <2>. QED  BY <2>1, <2>2, <2>3, TickStep
<1>6. \A i \in Idx, w \in Way : Stands(i, w)' =>
         /\ <<cache_tags'[i][w], i>> \in Cached
         /\ \A x \in Row : Cell(w, i, x)' = Then(CellOf(cache_tags[i][w], i, x))'
         /\ \A y \in Way : Stands(i, y)' /\ y # w => cache_tags'[i][y] # cache_tags'[i][w]
  <2>. SUFFICES ASSUME NEW i \in Idx, NEW w \in Way, Stands(i, w)'
                PROVE  /\ <<cache_tags'[i][w], i>> \in Cached
                       /\ \A x \in Row : Cell(w, i, x)' = Then(CellOf(cache_tags[i][w], i, x))'
                       /\ \A y \in Way : Stands(i, y)' /\ y # w =>
                             cache_tags'[i][y] # cache_tags'[i][w]
    OBVIOUS
  <2>1. Stands(i, w) \/ comes(i, w)
    BY <1>1
  <2>2. /\ <<cache_tags'[i][w], i>> \in Cached
        /\ \A x \in Row : Cell(w, i, x)' = Then(CellOf(cache_tags[i][w], i, x))'
    BY <1>2, <1>3, <2>1
  <2>. QED  BY <1>4, <2>2
<1>. QED  BY <1>5, <1>6 DEF Lines, reload

\* What the lookup found of the request in stage 1 stays so until it is served.
LEMMA FoundStep ==
    ASSUME NEW q, NEW v, NEW ack, Tick(q, v, ack)
    PROVE  Found'
<1>0. IInv /\ Types /\ OnBus /\ Reload /\ Lines /\ ack \in BOOLEAN
  BY DEF Tick, IInv
<1>1. SUFFICES ASSUME r1'.full PROVE FoundOf(r1.req)'
  BY DEF Found
<1>a. PICK a : a = req.addr
  OBVIOUS
<1>h. PICK h : h = req.hit_way
  OBVIOUS
<1>2. /\ req.op \in Slow /\ ~completes(ack) /\ waiting
      /\ r1'.req.op = req.op /\ r1'.req.addr = a /\ r1'.req.hit_way = h
      /\ r1'.req.dcbz = req.dcbz
      /\ r1'.req.same_tag = IF r1.state = "IDLE" THEN TRUE ELSE req.same_tag
  BY <1>1, <1>a, <1>h, HeldStep
<1>3. /\ FoundOf(req) /\ req \in Held /\ a \in Addr /\ a.idx \in Idx /\ a.tag \in Tags
      /\ a.row \in Row /\ h \in Way
      /\ req = IF taken THEN fresh ELSE r1.req
      /\ get_row(a) = <<a.idx, a.row>>
  BY <1>0, <1>2, <1>a, <1>h, ReqFacts, AddrParts DEF Held, get_row
<1>4. \A w \in Way :
         /\ Stands(a.idx, w)' =>
              \/ Stands(a.idx, w)
              \/ FromReload(ack) /\ done(ack) /\ a.idx = store_index /\ w = replace_way
         /\ FromReload(ack) /\ done(ack) /\ a.idx = store_index /\ w = replace_way =>
              Stands(a.idx, w)' /\ cache_tags'[a.idx][w] = r1.reload_tag
         /\ Stands(a.idx, w) => /\ r1.state # "IDLE" => Stands(a.idx, w)'
                                /\ cache_tags'[a.idx][w] = cache_tags[a.idx][w]
  BY <1>3, StandStep
<1>5. /\ req.op = "STORE_HIT" =>
           /\ Reloaded(a) => h = replace_way /\ ~r1.write_tag
           /\ ~Reloaded(a) => Stands(a.idx, h) /\ cache_tags[a.idx][h] = a.tag
      /\ req.op # "STORE_HIT" => \A w \in Way : Stands(a.idx, w) => cache_tags[a.idx][w] # a.tag
      /\ req.op = "STORE_MISS" /\ Reloaded(a) => r1.dcbz
      /\ req.op = "LOAD_NC" => ~Reloaded(a)
      /\ req.op = "LOAD_MISS" /\ Reloaded(a) =>
           ~r1.dcbz /\ req.same_tag /\ a.row \notin r1.rows_valid
      /\ r1.dcbz /\ Reloaded(a) => /\ req.dcbz /\ req.same_tag /\ r1.rows_valid = {}
                                   /\ r1.store_row = get_row(a)
  BY <1>3, <1>a, <1>h DEF FoundOf, Absent
<1>6. SUFFICES
      /\ req.op = "STORE_HIT" =>
           /\ Reloaded(a)' => h = replace_way' /\ ~r1'.write_tag
           /\ ~Reloaded(a)' => Stands(a.idx, h)' /\ cache_tags'[a.idx][h] = a.tag
      /\ req.op # "STORE_HIT" => \A w \in Way : Stands(a.idx, w)' => cache_tags'[a.idx][w] # a.tag
      /\ req.op = "STORE_MISS" /\ Reloaded(a)' => r1'.dcbz
      /\ req.op = "LOAD_NC" => ~Reloaded(a)'
      /\ req.op = "LOAD_MISS" /\ Reloaded(a)' =>
           ~r1'.dcbz /\ r1'.req.same_tag /\ a.row \notin r1'.rows_valid
      /\ r1'.dcbz /\ Reloaded(a)' => /\ req.dcbz /\ r1'.req.same_tag /\ r1'.rows_valid = {}
                                     /\ r1'.store_row = get_row(a)
  BY <1>2 DEF FoundOf, Absent
<1>7. Reloaded(a)' <=> /\ r1'.state = "RELOAD_WAIT_ACK" /\ a.tag = r1'.reload_tag
                       /\ a.idx = store_index'
  BY DEF Reloaded, reload
<1>8. CASE FromIdle
  <2>1. r1.state = "IDLE" /\ ~Reloaded(a) /\ ~FromReload(ack)
    BY <1>8 DEF FromIdle, Reloaded, FromReload, reload
  <2>2. ~(req.op \in Stores /\ ~req.dcbz)
    BY <1>2, <2>1 DEF completes
  <2>3. req.op # "STORE_HIT" => \A w \in Way : Stands(a.idx, w)' => cache_tags'[a.idx][w] # a.tag
    BY <1>4, <1>5, <2>1
  <2>4. CASE req.op = "LOAD_NC"
    <3>1. r1'.state # "RELOAD_WAIT_ACK"
      BY <1>2, <1>8, <2>4 DEF FromIdle, IdleTo, Slow, Stores
    <3>. QED  BY <1>7, <2>3, <2>4, <3>1
  <2>5. CASE req.op \in Stores \cup {"LOAD_MISS"}
    <3>1. Started(r1') /\ r1'.state = "RELOAD_WAIT_ACK" /\ r1'.req.same_tag
          /\ (req.op = "STORE_HIT" => r1'.store_way = req.hit_way /\ ~r1'.write_tag)
      BY <1>2, <1>8, <2>1, <2>2, <2>5 DEF FromIdle, IdleTo, Slow, Stores
    <3>2. /\ r1'.store_row = get_row(a) /\ r1'.rows_valid = {} /\ r1'.reload_tag = a.tag
          /\ r1'.dcbz = req.dcbz /\ store_index' = a.idx
      BY <1>3, <1>a, <3>1, AddrParts DEF Started, store_index
    <3>3. Reloaded(a)'
      BY <1>7, <3>1, <3>2
    <3>4. req.op = "STORE_HIT" => h = replace_way' /\ ~r1'.write_tag
      BY <1>h, <3>1 DEF replace_way
    <3>5. req.op \in Stores => req.dcbz
      BY <2>2
    <3>6. req.op = "LOAD_MISS" => ~req.dcbz
      <4>1. pend.op \in {"load", "store", "dcbz"}
        BY <1>0, <1>2, ReqFacts, RequestFacts
      <4>. QED  BY <1>0, <1>2, <4>1, ReqFacts DEF Stores
    <3>. QED  BY <2>3, <2>5, <3>1, <3>2, <3>3, <3>4, <3>5, <3>6 DEF Stores
  <2>. QED  BY <1>2, <2>4, <2>5 DEF Slow
<1>9. CASE FromReload(ack)
  <2>1. /\ reload /\ r1.state = "RELOAD_WAIT_ACK" /\ r1'.dcbz = r1.dcbz
        /\ r1'.reload_tag = r1.reload_tag /\ store_index' = store_index /\ ~r1'.write_tag
        /\ r1'.rows_valid = (IF ack THEN r1.rows_valid \cup {r1.store_row[2]} ELSE r1.rows_valid)
        /\ r1'.state = (IF done(ack) THEN "IDLE" ELSE "RELOAD_WAIT_ACK")
        /\ r1'.store_row = (IF ack THEN next_row(r1.store_row) ELSE r1.store_row)
        /\ ~done(ack) => replace_way' = replace_way
        /\ done(ack) => r1.rows_valid # {}
    BY <1>9, ReplaceWay DEF FromReload, ReloadTo, reload
  <2>2. /\ Reloaded(a) <=> a.tag = r1.reload_tag /\ a.idx = store_index
        /\ Reloaded(a)' <=> Reloaded(a) /\ ~done(ack)
    BY <1>7, <2>1 DEF Reloaded
  <2>3. r1.store_row = <<store_index, r1.store_row[2]>> /\ replace_way \in Way
    BY <1>0, WireTypes
  \* The row the request waits for would answer it.
  <2>4. ASSUME ack, r1.store_row = get_row(a), Reloaded(a), req.same_tag,
               IF r1.dcbz THEN req.dcbz ELSE req.op = "LOAD_MISS"
        PROVE  FALSE
    <3>1. r1.req.same_tag /\ (IF r1.dcbz THEN r1.req.dcbz ELSE r1.req.op = "LOAD_MISS")
      <4>1. CASE ~taken
        BY <1>3, <2>4, <4>1
      <4>2. CASE taken
        <5>1. ~r1.full /\ r0 # None
          BY <4>2 DEF taken, req_op, go, r0_valid, Slow, Stores
        <5>2. a = r0.addr
          BY <1>3, <1>a, <4>2 DEF fresh
        <5>3. ~r1.dcbz
          BY <1>0, <2>1, <2>2, <2>4, <5>1, <5>2 DEF OnBus
        <5>. QED  BY <1>0, <2>1, <5>1, <5>3 DEF OnBus
      <4>. QED  BY <4>1, <4>2
    <3>2. wanted
      BY <1>2, <1>a, <2>4, <3>1 DEF wanted, Slow, Stores
    <3>. QED  BY <1>2, <2>1, <2>4, <3>2 DEF completes, fetched
  <2>5. req.op = "LOAD_MISS" /\ Reloaded(a) /\ ack => a.row # r1.store_row[2]
    BY <1>3, <1>5, <2>2, <2>3, <2>4
  <2>6. r1.dcbz /\ Reloaded(a) => ~ack
    BY <1>5, <2>4
  <2>7. ASSUME req.op # "STORE_HIT", done(ack)
        PROVE  ~Reloaded(a)
    <3>1. req.op \in {"STORE_MISS", "LOAD_NC", "LOAD_MISS"} /\ ack
      BY <1>2, <2>7 DEF Slow, Stores, done
    <3>2. CASE req.op = "STORE_MISS"
      BY <1>5, <2>6, <3>1, <3>2
    <3>3. CASE req.op = "LOAD_NC"
      BY <1>5, <3>3
    <3>4. CASE req.op = "LOAD_MISS"
      <4>1. SUFFICES ASSUME Reloaded(a) PROVE FALSE
        OBVIOUS
      <4>2. a.row \in r1'.rows_valid
        BY <1>3, <1>9, <2>7, FillStep
      <4>. QED  BY <1>5, <2>1, <2>5, <3>1, <3>4, <4>1, <4>2
    <3>. QED  BY <3>1, <3>2, <3>3, <3>4
  <2>8. req.op = "STORE_HIT" =>
           /\ Reloaded(a)' => h = replace_way' /\ ~r1'.write_tag
           /\ ~Reloaded(a)' => Stands(a.idx, h)' /\ cache_tags'[a.idx][h] = a.tag
    <3>1. SUFFICES ASSUME req.op = "STORE_HIT"
                   PROVE  /\ Reloaded(a)' => h = replace_way' /\ ~r1'.write_tag
                          /\ ~Reloaded(a)' => Stands(a.idx, h)' /\ cache_tags'[a.idx][h] = a.tag
      OBVIOUS
    <3>2. CASE Reloaded(a)
      BY <1>3, <1>4, <1>5, <1>9, <2>1, <2>2, <3>1, <3>2
    <3>3. CASE ~Reloaded(a)
      BY <1>3, <1>4, <1>5, <2>1, <2>2, <3>1, <3>3
    <3>. QED  BY <3>2, <3>3
  <2>9. req.op # "STORE_HIT" => \A w \in Way : Stands(a.idx, w)' => cache_tags'[a.idx][w] # a.tag
    <3>. SUFFICES ASSUME req.op # "STORE_HIT", NEW w \in Way, Stands(a.idx, w)'
                  PROVE  cache_tags'[a.idx][w] # a.tag
      OBVIOUS
    <3>1. CASE Stands(a.idx, w)
      BY <1>4, <1>5, <3>1
    <3>2. CASE ~Stands(a.idx, w)
      BY <1>4, <2>2, <2>7, <3>2
    <3>. QED  BY <3>1, <3>2
  <2>10. req.op = "LOAD_MISS" /\ Reloaded(a)' =>
            ~r1'.dcbz /\ r1'.req.same_tag /\ a.row \notin r1'.rows_valid
    BY <1>2, <1>5, <2>1, <2>2, <2>5
  <2>11. r1'.dcbz /\ Reloaded(a)' => /\ req.dcbz /\ r1'.req.same_tag /\ r1'.rows_valid = {}
                                     /\ r1'.store_row = get_row(a)
    BY <1>2, <1>5, <2>1, <2>2, <2>6
  <2>. QED  BY <1>5, <2>1, <2>2, <2>8, <2>9, <2>10, <2>11
<1>10. CASE FromStore(ack) \/ FromNc(ack)
  <2>1. r1.state # "IDLE" /\ ~Reloaded(a) /\ ~FromReload(ack) /\ r1'.state # "RELOAD_WAIT_ACK"
    BY <1>10 DEF FromStore, StoreTo, FromNc, NcTo, Reloaded, reload, FromReload
  <2>2. ~Reloaded(a)'
    BY <1>7, <2>1
  <2>. QED  BY <1>3, <1>4, <1>5, <2>1, <2>2
<1>. QED  BY <1>8, <1>9, <1>10, TickStep

-----------------------------------------------------------------------------
(* The types.                                                              *)

\* The request that stage 1 keeps.
LEMMA KeptRequest ==
    ASSUME NEW q, NEW v, NEW ack, Tick(q, v, ack)
    PROVE  r1'.req \in Held
<1>0. IInv /\ Always(r1', ack) /\ r1.req \in Held
  BY TickStep DEF Tick, IInv, Types, Stage1
<1>1. (IF taken THEN fresh ELSE r1.req) \in Held
  <2>1. ASSUME taken PROVE fresh \in Held
    <3>1. go /\ ~r1.full
      BY <2>1 DEF taken, req_op, Slow, Stores
    <3>2. req = fresh /\ req.op = req_op
      BY <3>1 DEF req, fresh
    <3>. QED  BY <1>0, <2>1, <3>2, ReqFacts DEF taken
  <2>. QED  BY <1>0, <2>1
<1>2. \A x \in Held : [x EXCEPT !.same_tag = TRUE] \in Held
  BY DEF Held
<1>. QED  BY <1>0, <1>1, <1>2 DEF Always

\* The registers of the line that stage 1 works on.
LineRegisters(s) == /\ s.state \in States /\ s.dcbz \in BOOLEAN
                    /\ s.store_row \in Idx \X Row /\ s.end_row_ix \in Row
                    /\ s.rows_valid \subseteq Row /\ s.acks_pending \in Nat

\* They keep their types.
LEMMA LineRegistersStep ==
    ASSUME NEW q, NEW v, NEW ack, Tick(q, v, ack)
    PROVE  LineRegisters(r1')
<1>0. /\ IInv /\ Types
      /\ (FromIdle /\ ~ack) \/ FromReload(ack) \/ FromStore(ack) \/ FromNc(ack)
      /\ LineRegisters(r1)
  BY TickStep DEF Tick, IInv, Types, Stage1, LineRegisters
<1>1. ASSUME req.op \in Slow, Started(r1'), r1'.state \in States,
             r1'.acks_pending \in Nat
      PROVE  LineRegisters(r1')
  <2>1. req \in Held
    BY <1>0, <1>1, ReqFacts
  <2>2. req.addr \in Addr /\ req.dcbz \in BOOLEAN
    BY <2>1 DEF Held
  <2>3. get_row(req.addr) \in Idx \X Row /\ req.addr.row \in Row
    BY <2>2, AddrParts
  <2>4. (req.addr.row + Rows - 1) % Rows \in Row
    BY <2>3, RowFacts
  <2>. QED  BY <1>1, <2>2, <2>3, <2>4 DEF Started, LineRegisters
<1>2. CASE FromIdle
  <2>1. IdleTo(r1')
    BY <1>2 DEF FromIdle
  <2>2. CASE req.op \notin Slow
    BY <1>0, <2>1, <2>2 DEF IdleTo, Kept, LineRegisters, Slow, Stores
  <2>3. CASE req.op \in Slow
    <3>1. r1'.acks_pending \in Nat
      BY <1>0, <2>1, <2>3 DEF IdleTo, LineRegisters
    <3>2. Started(r1') /\ r1'.state \in States
      BY <2>1, <2>3 DEF IdleTo, States
    <3>. QED  BY <1>1, <2>3, <3>1, <3>2
  <2>. QED  BY <2>2, <2>3
<1>3. CASE FromReload(ack)
  <2>1. /\ r1.store_row[2] \in Row /\ store_index \in Idx
        /\ r1.store_row = <<store_index, r1.store_row[2]>>
    BY <1>0, WireTypes
  <2>2. (r1.store_row[2] + 1) % Rows \in Row
    BY <2>1, RowFacts
  <2>3. next_row(r1.store_row) \in Idx \X Row
    BY <2>1, <2>2 DEF next_row, store_index
  <2>. QED  BY <1>0, <1>3, <2>1, <2>3 DEF FromReload, ReloadTo, LineRegisters, States
<1>4. CASE FromStore(ack)
  BY <1>0, <1>4 DEF FromStore, StoreTo, LineRegisters, States
<1>5. CASE FromNc(ack)
  BY <1>0, <1>5 DEF FromNc, NcTo, LineRegisters, States
<1>. QED  BY <1>0, <1>2, <1>3, <1>4, <1>5

\* The wishbone registers keep theirs.
LEMMA BusTypeStep ==
    ASSUME NEW q, NEW v, NEW ack, Tick(q, v, ack)
    PROVE  wb' \in Bus
<1>0. /\ IInv /\ wb \in Bus
      /\ (FromIdle /\ ~ack) \/ FromReload(ack) \/ FromStore(ack) \/ FromNc(ack)
  BY TickStep DEF Tick, IInv, Types
<1>1. CASE FromIdle /\ req.op \in Slow
  <2>1. req.addr \in Addr /\ req.data \in Vals
    BY <1>0, <1>1, ReqFacts DEF Held
  <2>2. (req.op \in Stores) \in BOOLEAN
    BY DEF Stores
  <2>3. [adr |-> req.addr, dat |-> req.data, we |-> req.op \in Stores,
         cyc |-> TRUE, stb |-> TRUE] \in Bus
    BY <2>1, <2>2, BusRecord
  <2>. QED  BY <1>1, <2>3 DEF FromIdle
<1>2. CASE FromIdle /\ req.op \notin Slow
  BY <1>0, <1>2 DEF FromIdle
<1>. QED  BY <1>0, <1>1, <1>2 DEF FromReload, FromStore, FromNc

\* The RAMs, the tags, the victims and memory.
LEMMA ArraysStep ==
    ASSUME NEW q, NEW v, NEW ack, Tick(q, v, ack)
    PROVE  /\ cache_tags' \in [Idx -> [Way -> Tags \cup {None}]]
           /\ cache_valids' \in [Idx -> SUBSET Way] /\ plru_victim' \in [Idx -> Way]
           /\ cache_ram' \in [Way -> [Idx \X Row -> Datum]]
           /\ rd_data0' \in [Way -> Datum]
           /\ mem' \in [Addr -> Vals]
<1>0. /\ IInv /\ Types /\ Clock(q, v, ack)
      /\ (FromIdle /\ ~ack) \/ FromReload(ack) \/ FromStore(ack) \/ FromNc(ack)
      /\ q \in Requests \cup {None} /\ Vals \subseteq Datum /\ None \in Datum
      /\ wb \in Bus
  BY TickStep DEF Tick, IInv, Datum, Types
<1>00. 0 \in Vals
  BY CacheAssumption
<1>1. store_index \in Idx /\ r1.store_row \in Idx \X Row /\ replace_way \in Way
  BY <1>0, WireTypes DEF Types, Stage1
<1>2. cache_tags' \in [Idx -> [Way -> Tags \cup {None}]]
  <2>1. CASE cache_tags' = cache_tags
    BY <1>0, <2>1 DEF Types
  <2>2. CASE FromReload(ack) /\ r1.write_tag
    <3>1. r1.reload_tag \in Tags
      BY <2>2, FillStep
    <3>2. cache_tags' = [cache_tags EXCEPT ![store_index][replace_way] = r1.reload_tag]
      BY <2>2 DEF FromReload
    <3>3. cache_tags[store_index] \in [Way -> Tags \cup {None}]
      BY <1>0, <1>1 DEF Types
    <3>4. [cache_tags[store_index] EXCEPT ![replace_way] = r1.reload_tag]
             \in [Way -> Tags \cup {None}]
      BY <1>1, <3>1, <3>3
    <3>. QED  BY <1>0, <1>1, <3>2, <3>4 DEF Types
  <2>. QED  BY <1>0, <2>1, <2>2 DEF FromIdle, FromReload, FromStore, FromNc
<1>3. cache_valids' \in [Idx -> SUBSET Way]
  <2>1. cache_valids \in [Idx -> SUBSET Way] /\ r1.store_way \in Way
    BY <1>0 DEF Types, Stage1
  <2>2. cache_valids[store_index] \cup {r1.store_way} \in SUBSET Way
    BY <1>1, <2>1
  <2>3. [cache_valids EXCEPT ![store_index] = @ \cup {r1.store_way}] \in [Idx -> SUBSET Way]
    BY <2>1, <2>2
  <2>. QED  BY <1>0, <2>1, <2>3 DEF FromIdle, FromReload, FromStore, FromNc
<1>4. plru_victim' \in [Idx -> Way]
  <2>1. plru_victim \in [Idx -> Way] /\ Plru
    BY <1>0 DEF Types, Clock
  <2>2. \A i, w \in Way : [plru_victim EXCEPT ![i] = w] \in [Idx -> Way]
    BY <2>1
  <2>. QED  BY <2>1, <2>2 DEF Plru
<1>5. ASSUME NEW w \in Way, NEW x \in Idx \X Row, NEW d \in Datum
      PROVE  [cache_ram EXCEPT ![w][x] = d] \in [Way -> [Idx \X Row -> Datum]]
  <2>1. cache_ram \in [Way -> [Idx \X Row -> Datum]]
    BY <1>0 DEF Types
  <2>2. [cache_ram[w] EXCEPT ![x] = d] \in [Idx \X Row -> Datum]
    BY <2>1
  <2>. QED  BY <2>1, <2>2
<1>6. cache_ram' \in [Way -> [Idx \X Row -> Datum]]
  <2>1. CASE cache_ram' = cache_ram
    BY <1>0, <2>1 DEF Types
  <2>2. CASE r1.write_bram
    <3>1. r1.req.hit_way \in Way /\ r1.req.addr \in Addr /\ r1.req.data \in Datum
      BY <1>0 DEF Types, Stage1, Held
    <3>2. get_row(r1.req.addr) \in Idx \X Row
      BY <3>1, AddrParts
    <3>3. cache_ram' = [cache_ram EXCEPT ![r1.req.hit_way][get_row(r1.req.addr)] = r1.req.data]
      BY <1>0, <2>2 DEF Clock, Rams
    <3>. QED  BY <1>5, <3>1, <3>2, <3>3
  <2>3. CASE ~r1.write_bram /\ cache_ram' # cache_ram
    <3>1. cache_ram' = [cache_ram EXCEPT ![replace_way][r1.store_row] =
                                            IF r1.dcbz THEN 0 ELSE mem[wb.adr]]
      BY <1>0, <2>3 DEF Clock, Rams
    <3>2. wb.stb
      BY <1>0, <2>3 DEF Clock, Rams, Wishbone
    <3>3. (IF r1.dcbz THEN 0 ELSE mem[wb.adr]) \in Datum
      BY <1>0, <1>00, <3>2 DEF Types, Bus
    <3>. QED  BY <1>1, <1>5, <3>1, <3>3
  <2>. QED  BY <2>1, <2>2, <2>3
<1>7. rd_data0' \in [Way -> Datum]
  <2>1. cache_ram \in [Way -> [Idx \X Row -> Datum]] /\ r0 \in Requests \cup {None}
    BY <1>0 DEF Types
  <2>2. r0_stall => get_row(r0.addr) \in Idx \X Row
    BY <2>1, RequestFacts DEF r0_stall
  <2>3. q # None => get_row(q.addr) \in Idx \X Row
    BY <1>0, RequestFacts
  <2>4. \A w \in Way : (IF r0_stall THEN cache_ram[w][get_row(r0.addr)]
                        ELSE IF q # None THEN cache_ram[w][get_row(q.addr)]
                        ELSE None) \in Datum
    BY <1>0, <2>1, <2>2, <2>3
  <2>5. rd_data0' = [w \in Way |-> IF r0_stall THEN cache_ram[w][get_row(r0.addr)]
                                   ELSE IF q # None THEN cache_ram[w][get_row(q.addr)]
                                   ELSE None]
    BY <1>0 DEF Clock, Rams
  <2>. QED  BY <2>4, <2>5
<1>8. mem' \in [Addr -> Vals]
  <2>1. mem \in [Addr -> Vals] /\ wb.dat \in Vals /\ Wishbone(ack)
    BY <1>0 DEF Types, Bus, Wires, Clock
  <2>2. [mem EXCEPT ![wb.adr] = wb.dat] \in [Addr -> Vals]
    BY <2>1
  <2>. QED  BY <2>1, <2>2 DEF Wishbone
<1>. QED  BY <1>2, <1>3, <1>4, <1>6, <1>7, <1>8

\* What memory is to hold stays a memory.
LEMMA RefStep ==
    ASSUME NEW q, NEW v, NEW ack, Tick(q, v, ack)
    PROVE  ref' \in [Addr -> Vals]
<1>1. /\ ref \in [Addr -> Vals] /\ v \in Vals /\ Send(q, v) /\ 0 \in Vals
  BY SendStep, CacheAssumption DEF Tick, IInv, Types, Clock
<1>2. [ref EXCEPT ![q.addr] = v] \in [Addr -> Vals]
  BY <1>1
<1>3. [a \in Addr |-> IF a \in Line(q.addr) THEN 0 ELSE ref[a]] \in [Addr -> Vals]
  BY <1>1
<1>. QED  BY <1>1, <1>2, <1>3 DEF Send

\* Every variable keeps its type.
LEMMA TypesStep ==
    ASSUME NEW q, NEW v, NEW ack, Tick(q, v, ack)
    PROVE  Types'
<1>0. IInv /\ Types /\ Always(r1', ack)
  BY TickStep DEF Tick, IInv
<1>1. r0' \in Requests \cup {None} /\ d_data' \in Vals /\ pend' \in Requests \cup {None}
  BY <1>0, SendStep DEF Types
<1>2. r1'.store_way \in Way
  <2>1. replace_way \in Way
    BY <1>0, WireTypes
  <2>2. req.op = "STORE_HIT" => req.hit_way \in Way
    <3>1. req.op = "STORE_HIT" => req.op \in Slow
      BY DEF Slow, Stores
    <3>. QED  BY <1>0, <3>1, ReqFacts DEF Held
  <2>. QED  BY <1>0, <2>1, <2>2 DEF Always
<1>3. Stage1'
  BY <1>0, <1>2, KeptRequest, LineRegistersStep DEF Stage1, Always, LineRegisters
<1>. QED  BY <1>1, <1>3, BusTypeStep, ArraysStep, RefStep DEF Types

-----------------------------------------------------------------------------
(* The invariant.                                                          *)

\* The invariant holds after reset.
LEMMA InitInv == Init => IInv
<1>. SUFFICES ASSUME Init PROVE IInv
  OBVIOUS
<1>1. /\ Zero \in Addr /\ Zero.idx \in Idx /\ Zero.row \in Row /\ 0 \in Vals /\ None \in Datum
      /\ 0 \in Way /\ 0 \in Row /\ Ways - 1 \in Way /\ get_row(Zero) \in Idx \X Row
  <2>1. Zero \in Addr /\ Zero.idx \in Idx /\ Zero.row \in Row /\ 0 \in Row
    BY ZeroIsAddr, RowFacts
  <2>2. 0 \in Vals /\ None \in Datum /\ 0 \in Way /\ Ways - 1 \in Way
    BY CacheAssumption DEF Datum, Way
  <2>. QED  BY <2>1, <2>2 DEF get_row
<1>2. NoReq \in Held
  BY <1>1 DEF NoReq, Held
<1>3. /\ DOMAIN r1 = Fields /\ r1.state = "IDLE" /\ r1.full = FALSE /\ r1.req = NoReq
      /\ r1.dcbz = FALSE /\ r1.store_way = 0 /\ r1.store_row = get_row(Zero)
      /\ r1.end_row_ix = 0 /\ r1.rows_valid = {} /\ r1.acks_pending = 0
      /\ r1.write_bram = FALSE /\ r1.write_tag = FALSE
      /\ r1.ls_valid = FALSE /\ r1.ls_error = FALSE
      /\ r1.mmu_done = FALSE /\ r1.mmu_error = FALSE
  BY DEF Init, Fields
<1>4. Stage1
  <2>1. /\ DOMAIN r1 = Fields /\ r1.state \in States /\ r1.req \in Held
        /\ r1.dcbz \in BOOLEAN /\ r1.store_way \in Way
    BY <1>1, <1>2, <1>3 DEF States
  <2>2. /\ r1.store_row \in Idx \X Row /\ r1.end_row_ix \in Row
        /\ r1.rows_valid \subseteq Row /\ r1.acks_pending \in Nat
    BY <1>1, <1>3
  <2>. QED  BY <2>1, <2>2 DEF Stage1
<1>5. wb \in Bus /\ wb.cyc = FALSE
  BY <1>1, BusRecord DEF Init
<1>6. Types
  <2>1. /\ cache_tags \in [Idx -> [Way -> Tags \cup {None}]]
        /\ cache_valids \in [Idx -> SUBSET Way] /\ plru_victim \in [Idx -> Way]
        /\ cache_ram \in [Way -> [Idx \X Row -> Datum]]
        /\ rd_data0 \in [Way -> Datum]
    BY <1>1 DEF Init
  <2>2. mem \in [Addr -> Vals] /\ ref \in [Addr -> Vals]
    BY <1>1 DEF Init
  <2>3. r0 = None /\ pend = None /\ d_data \in Vals
    BY <1>1 DEF Init
  <2>. QED  BY <1>4, <1>5, <2>1, <2>2, <2>3 DEF Types
<1>7. r0 = None /\ pend = None /\ ~waiting /\ ~reload /\ ~answered
  BY <1>3 DEF Init, waiting, reload, answered
<1>8. Where /\ Lookup /\ Answer /\ Found
  BY <1>3, <1>7 DEF Where, Lookup, Answer, Found
<1>9. OnBus /\ Reload
  BY <1>3, <1>5, <1>7 DEF OnBus, Reload
<1>10. Lines
  <2>1. \A i \in Idx, w \in Way : ~Stands(i, w)
    BY DEF Init, Stands
  <2>. QED  BY <1>7, <2>1 DEF Lines
<1>11. Order
  <2>1. \A a \in Addr : Then(a) = mem[a]
    BY <1>3 DEF Then
  <2>. QED  BY <1>7, <2>1 DEF Order, Init
<1>. QED  BY <1>6, <1>8, <1>9, <1>10, <1>11 DEF IInv

\* Every clock in which nothing goes wrong keeps it.
LEMMA TickInv ==
    ASSUME NEW q, NEW v, NEW ack, Tick(q, v, ack)
    PROVE  IInv'
<1>1. Types' /\ Where' /\ OnBus'
  BY TypesStep, WhereStep, BusStep
<1>2. Reload' /\ Lines' /\ Found'
  BY ReloadStep, LinesStep, FoundStep
<1>3. Order' /\ Lookup' /\ Answer'
  BY OrderStep, LookupStep, AnswerTick
<1>. QED  BY <1>1, <1>2, <1>3 DEF IInv

\* So does one that nobody acts in.
LEMMA StutterInv ==
    ASSUME IInv, UNCHANGED vars
    PROVE  IInv'
<1>0. /\ r0' = r0 /\ d_data' = d_data /\ cache_tags' = cache_tags
      /\ cache_valids' = cache_valids /\ cache_ram' = cache_ram
      /\ plru_victim' = plru_victim /\ cache_tag_set' = cache_tag_set
      /\ rd_data0' = rd_data0 /\ rd_data_o' = rd_data_o /\ r1' = r1 /\ wb' = wb
      /\ mem' = mem /\ pend' = pend /\ ref' = ref
  BY DEF vars
<1>1. /\ waiting' = waiting /\ answered' = answered /\ reload' = reload
      /\ store_index' = store_index
  BY <1>0 DEF waiting, answered, reload, store_index
<1>2. replace_way' = replace_way /\ data_out' = data_out
  BY <1>0, <1>1 DEF replace_way, data_out
<1>3. \A a : Reloaded(a)' = Reloaded(a)
  BY <1>0, <1>1 DEF Reloaded
<1>4. \A a : Then(a)' = Then(a)
  BY <1>0, <1>3 DEF Then
<1>5. \A i, w : Stands(i, w)' = Stands(i, w)
  BY <1>0, <1>1, <1>2 DEF Stands
<1>6. \A w, i, x : Cell(w, i, x)' = Cell(w, i, x)
  BY <1>0 DEF Cell
<1>7. \A x : left(x)' = left(x)
  BY <1>0 DEF left
<1>8. \A a : Absent(a)' = Absent(a)
  BY <1>0, <1>5 DEF Absent
<1>9. \A x : FoundOf(x)' = FoundOf(x)
  BY <1>0, <1>2, <1>3, <1>5, <1>8 DEF FoundOf
<1>10. Types' /\ Where'
  BY <1>0, <1>1 DEF IInv, Types, Stage1, Where
<1>11. OnBus' /\ Reload'
  BY <1>0, <1>1, <1>2, <1>7 DEF IInv, OnBus, Follows, Reload
<1>12. Lines' /\ Found'
  BY <1>0, <1>1, <1>2, <1>4, <1>5, <1>6, <1>9 DEF IInv, Lines, Found
<1>13. Order' /\ Lookup' /\ Answer'
  BY <1>0, <1>1, <1>2, <1>4 DEF IInv, Order, Lookup, Answer
<1>. QED  BY <1>10, <1>11, <1>12, <1>13 DEF IInv
-----------------------------------------------------------------------------
(* The behaviours, and whether the code has gone wrong in one yet.         *)

VARIABLE spoiled
HInit == Init /\ spoiled = FALSE
HNext == \E ack \in BOOLEAN, q \in Requests \cup {None} :
             \E v \in Data(q) : /\ Clock(q, v, ack)
                               /\ spoiled' = (spoiled \/ spoils(q, ack))
HSpec == HInit /\ [][HNext]_<<vars, spoiled>>

\* It takes a clock that goes wrong to lose the invariant.
LEMMA NextInv ==
    ASSUME spoiled \in BOOLEAN, ~spoiled => IInv, [HNext]_<<vars, spoiled>>
    PROVE  spoiled' \in BOOLEAN /\ (~spoiled' => IInv')
<1>1. CASE HNext
  <2>1. PICK ack \in BOOLEAN, q \in Requests \cup {None} :
                \E v \in Data(q) : /\ Clock(q, v, ack)
                                  /\ spoiled' = (spoiled \/ spoils(q, ack))
    BY <1>1 DEF HNext
  <2>2. PICK v \in Data(q) : Clock(q, v, ack) /\ spoiled' = (spoiled \/ spoils(q, ack))
    BY <2>1
  <2>3. spoiled' \in BOOLEAN /\ (~spoiled' => ~spoiled /\ ~spoils(q, ack))
    BY <2>2
  <2>4. ~spoiled' => Tick(q, v, ack)
    BY <2>1, <2>2, <2>3 DEF Tick
  <2>. QED  BY <2>3, <2>4, TickInv
<1>2. CASE UNCHANGED <<vars, spoiled>>
  BY <1>2, StutterInv
<1>. QED  BY <1>1, <1>2

\* Until a clock goes wrong the invariant holds in every state of every cache: any
\* number of sets, ways and rows, any tags, values and requests.
THEOREM IInvAlways == HSpec => [](~spoiled => IInv)
<1>. DEFINE Kept1 == spoiled \in BOOLEAN /\ (~spoiled => IInv)
<1>1. HInit => Kept1
  BY InitInv DEF HInit
<1>2. Kept1 /\ [HNext]_<<vars, spoiled>> => Kept1'
  BY NextInv
<1>. QED  BY <1>1, <1>2, PTL DEF HSpec

\* The invariant has the right answer in it.
LEMMA InvAnswers == IInv => Answers
<1>. SUFFICES ASSUME IInv, answered PROVE
      /\ pend # None
      /\ Cardinality({x \in {"ls_valid", "ls_error", "mmu_done", "mmu_error"} : r1[x]}) = 1
      /\ pend.mmu <=> r1.mmu_done \/ r1.mmu_error
      /\ pend.ok <=> r1.ls_valid \/ r1.mmu_done
      /\ pend.op = "load" /\ pend.ok => data_out = ref[pend.addr]
  BY DEF Answers
<1>1. /\ pend # None
      /\ \/ ~pend.ok /\ ~pend.mmu /\ r1.ls_error /\ ~r1.ls_valid /\ ~r1.mmu_done /\ ~r1.mmu_error
         \/ ~pend.ok /\ pend.mmu /\ ~r1.ls_error /\ ~r1.ls_valid /\ ~r1.mmu_done /\ r1.mmu_error
         \/ pend.ok /\ ~pend.mmu /\ ~r1.ls_error /\ r1.ls_valid /\ ~r1.mmu_done /\ ~r1.mmu_error
         \/ pend.ok /\ pend.mmu /\ ~r1.ls_error /\ ~r1.ls_valid /\ r1.mmu_done /\ ~r1.mmu_error
      /\ pend.op = "load" /\ pend.ok => data_out = ref[pend.addr]
  BY DEF IInv, Answer
<1>. DEFINE ups == {x \in {"ls_valid", "ls_error", "mmu_done", "mmu_error"} : r1[x]}
<1>2. \E x : ups = {x}
  <2>1. CASE r1.ls_error /\ ~r1.ls_valid /\ ~r1.mmu_done /\ ~r1.mmu_error
    <3>1. ups = {"ls_error"}
      BY <2>1
    <3>. QED  BY <3>1
  <2>2. CASE ~r1.ls_error /\ ~r1.ls_valid /\ ~r1.mmu_done /\ r1.mmu_error
    <3>1. ups = {"mmu_error"}
      BY <2>2
    <3>. QED  BY <3>1
  <2>3. CASE ~r1.ls_error /\ r1.ls_valid /\ ~r1.mmu_done /\ ~r1.mmu_error
    <3>1. ups = {"ls_valid"}
      BY <2>3
    <3>. QED  BY <3>1
  <2>4. CASE ~r1.ls_error /\ ~r1.ls_valid /\ r1.mmu_done /\ ~r1.mmu_error
    <3>1. ups = {"mmu_done"}
      BY <2>4
    <3>. QED  BY <3>1
  <2>. QED  BY <1>1, <2>1, <2>2, <2>3, <2>4
<1>3. Cardinality(ups) = 1
  BY <1>2, FS_Singleton
<1>. QED  BY <1>1, <1>3

\* With nothing on its way, what memory will hold is what it holds.
LEMMA InvCoherent == IInv => Coherent
<1>. SUFFICES ASSUME IInv, r1.state = "IDLE", ~r1.full, ~r1.write_bram, r0 = None PROVE
      /\ mem = ref
      /\ \A i \in Idx : \A w \in cache_valids[i] :
          /\ \A x \in Row : cache_ram[w][<<i, x>>] =
                  mem[[tag |-> cache_tags[i][w], idx |-> i, row |-> x]]
          /\ \A y \in cache_valids[i] \ {w} : cache_tags[i][w] # cache_tags[i][y]
  BY DEF Coherent
<1>0. Types /\ Lines /\ Order /\ ~waiting /\ ~reload
  BY Waits DEF IInv, reload
<1>1. \A a : Then(a) = mem[a]
  BY <1>0 DEF Then, Reloaded
<1>2. mem = ref
  <2>1. \A a \in Addr : ref[a] = mem[a]
    BY <1>0, <1>1 DEF Order
  <2>. QED  BY <1>0, <2>1 DEF Types
<1>3. ASSUME NEW i \in Idx, NEW w \in cache_valids[i]
      PROVE  /\ \A x \in Row : cache_ram[w][<<i, x>>] =
                     mem[[tag |-> cache_tags[i][w], idx |-> i, row |-> x]]
             /\ \A y \in cache_valids[i] \ {w} : cache_tags[i][w] # cache_tags[i][y]
  <2>1. cache_valids[i] \subseteq Way
    BY <1>0 DEF Types
  <2>2. w \in Way /\ Stands(i, w)
    BY <1>0, <2>1 DEF Stands
  <2>3. \A y \in cache_valids[i] : y \in Way /\ Stands(i, y)
    BY <1>0, <2>1 DEF Stands
  <2>4. \A x \in Row : Cell(w, i, x) = Then(CellOf(cache_tags[i][w], i, x))
    BY <1>0, <2>2, LineFacts
  <2>5. \A x \in Row : Cell(w, i, x) = cache_ram[w][<<i, x>>]
    BY DEF Cell
  <2>6. \A x \in Row : Then(CellOf(cache_tags[i][w], i, x))
                         = mem[[tag |-> cache_tags[i][w], idx |-> i, row |-> x]]
    BY <1>1 DEF CellOf
  <2>7. \A y \in cache_valids[i] \ {w} : cache_tags[i][w] # cache_tags[i][y]
    BY <1>0, <2>2, <2>3, OneWay
  <2>. QED  BY <2>4, <2>5, <2>6, <2>7
<1>. QED  BY <1>2, <1>3

\* Until a clock goes wrong each request is answered once, to the side that sent it,
\* with an error if and only if it has no access, and a load with the data of the last
\* store before it: from the RAM, the two forwarded writes or the row that is being
\* reloaded.
THEOREM AnswersAlways == HSpec => [](~spoiled => Answers)
<1>1. (~spoiled => IInv) => (~spoiled => Answers)
  BY InvAnswers
<1>. QED  BY <1>1, IInvAlways, PTL

\* Write-through, until a clock goes wrong: when nothing is on its way memory has every
\* store, each valid line holds what memory does, and no set holds a line in two ways.
THEOREM CoherentAlways == HSpec => [](~spoiled => Coherent)
<1>1. (~spoiled => IInv) => (~spoiled => Coherent)
  BY InvCoherent
<1>. QED  BY <1>1, IInvAlways, PTL
=============================================================================
