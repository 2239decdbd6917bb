---------------------------- MODULE ICacheProofs ----------------------------
(***************************************************************************)
(* Theorems about ICache, for every number of sets, ways, rows and words,  *)
(* every page table and any memory: what a fetch hits is what it asked     *)
(* for.                                                                    *)
(***************************************************************************)
EXTENDS ICacheMC, FiniteSetTheorems, SequenceTheorems, TLAPS

-----------------------------------------------------------------------------
(* The invariant.                                                          *)

\* Rows are reloaded in a circle: how many there are from a to b.
Dist(a, b) == IF a <= b THEN b - a ELSE b - a + Rows
left(x) == Dist(x, r.end_row_ix)
reloaded == <<r.store_tag, r.store_index>>

Types ==
    /\ mode \in Modes
    /\ i_in \in [req : BOOLEAN, nia : Nias(mode), sequential : BOOLEAN]
    /\ hit \in [valid : BOOLEAN, way : Way, nia : Nias(mode)]
    /\ itlb \in [0 .. 1 -> Entry \cup {None}]
    /\ pagetable \in [Pages -> Pte]
    /\ cache_tags \in [Idx -> [Way -> Frames \cup {None}]]
    /\ cache_valid_bits \in [Idx -> SUBSET Way]
    /\ ram \in [Way -> [Idx \X Row -> Cells \cup {None}]]
    /\ plru_victim \in [Idx -> Way]
    /\ accepted \in Seq(Cells)
    /\ r \in [state : {"IDLE", "CLR_TAG", "WAIT_ACK"}, stb : BOOLEAN,
              adr_row : Row, store_way : Way, store_index : Idx \cup {None},
              store_row : Row, store_tag : Frames \cup {None},
              store_valid : BOOLEAN, end_row_ix : Row, rows_valid : SUBSET Row]

\* c is the row of the line, up to date unless the line is among the changed.
Good(c, line, row, changed) == /\ c \in Cells /\ c.line = line /\ c.row = row
                               /\ c.stale => line \in changed

\* A valid line is complete, and is in one way.
Valid ==
    \A x \in Idx : \A w \in cache_valid_bits[x] :
        /\ \A row \in Row : Good(ram[w][<<x, row>>], <<cache_tags[x][w], x>>, row, dirty)
        /\ \A y \in cache_valid_bits[x] : y # w => cache_tags[x][y] # cache_tags[x][w]

\* The line under reload is in no valid way; its rows come in order, up to the
\* end row; those that have come are there.
Reload ==
    /\ r.state = "IDLE" => ~r.stb /\ accepted = <<>> /\ late = {} /\ r.rows_valid = {}
    /\ r.state # "IDLE" =>
         /\ r.store_index \in Idx /\ r.store_tag \in Frames
         /\ \A w \in cache_valid_bits[r.store_index] :
               cache_tags[r.store_index][w] # r.store_tag
         /\ r.store_valid => late = {}
         /\ \A x \in Row \ r.rows_valid : left(x) <= left(r.store_row)
         /\ left(r.store_row) + 1 = Len(accepted) + (IF r.stb THEN left(r.adr_row) + 1 ELSE 0)
         /\ \A k \in 1 .. Len(accepted) :
              /\ Good(accepted[k], reloaded, accepted[k].row, dirty \cup late)
              /\ left(accepted[k].row) = left(r.store_row) - (k - 1)
    /\ r.state = "CLR_TAG" => /\ i_in.nia.idx = r.store_index /\ r.rows_valid = {}
                              /\ accepted = <<>> /\ late = {}
    /\ r.state = "WAIT_ACK" =>
         /\ r.store_way \notin cache_valid_bits[r.store_index]
         /\ cache_tags[r.store_index][r.store_way] = r.store_tag
         /\ \A x \in r.rows_valid :
               Good(ram[r.store_way][<<r.store_index, x>>], reloaded, x, dirty \cup late)

\* The TLB agrees with the tables, but for pages that have changed.
Tlb ==
    \A p \in Pages :
        itlb[hash_ea(p)] # None /\ itlb[hash_ea(p)].tag = ttag(p)
            => p \in pdirty \/ itlb[hash_ea(p)].pte = pagetable[p]

\* What goes to decode; a sequential fetch is the word after it.
Decode ==
    /\ hit.valid => /\ rd_data \in Cells
                    /\ rd_data.row = hit.nia.row /\ rd_data.line[2] = hit.nia.idx
    /\ i_in.sequential => i_in.nia.word # 0 /\ Next4(hit.nia, i_in.nia)

IInv == Types /\ Valid /\ Reload /\ Tlb /\ Decode

-----------------------------------------------------------------------------
(* Rows, pages, modes.                                                     *)

Up(x) == (x + 1) % Rows

LEMMA RowFacts ==
    /\ Row \subseteq Nat
    /\ \A x \in Row : Up(x) = (IF x = Rows - 1 THEN 0 ELSE x + 1) /\ Up(x) \in Row
    /\ \A x \in Row : (x + Rows - 1) % Rows \in Row
    /\ \A x, y \in Row : Dist(x, y) \in Row /\ (Dist(x, y) = 0 <=> x = y)
    /\ \A x, y \in Row : x # y => Dist(Up(x), y) = Dist(x, y) - 1
    /\ \A x, y \in Row : y = (x + Rows - 1) % Rows => Dist(x, y) = Rows - 1
BY ICacheAssumption DEF Up, Row, Dist

LEMMA DistOnce ==
    ASSUME NEW x \in Row, NEW y \in Row, NEW z \in Row, Dist(x, z) = Dist(y, z)
    PROVE  x = y
BY ICacheAssumption DEF Row, Dist

LEMMA PageFacts ==
    /\ \A p \in Pages : hash_ea(p) \in 0 .. 1 /\ ttag(p) \in (0 .. 1) \X (0 .. 1)
    /\ \A p, q \in Pages : hash_ea(p) = hash_ea(q) /\ ttag(p) = ttag(q) => p = q
BY ICacheAssumption DEF hash_ea, ttag

LEMMA NiaFacts ==
    ASSUME NEW m \in Modes
    PROVE  /\ Nias(m) # {}
           /\ \A n \in Nias(m) : /\ n.idx \in Idx /\ n.row \in Row
                                 /\ n.word \in 0 .. Words - 1
                                 /\ m.virt => n.page \in Pages
                                 /\ ~m.virt => n.page \in Frames
BY ICacheAssumption

\* A word that is not the first of its row follows one of the same row.
LEMMA SameRow ==
    ASSUME NEW m \in Modes, NEW n \in Nias(m), NEW k \in Nias(m), Next4(n, k), k.word # 0
    PROVE  k.row = n.row /\ k.idx = n.idx
<1>. DEFINE a == n.row
            b == k.row
            v == n.word
            w == k.word
<1>1. /\ a \in Nat /\ b \in Nat /\ v \in 0 .. Words - 1 /\ w \in 0 .. Words - 1 /\ w # 0
      /\ b * Words + w = a * Words + v + 1 /\ k.idx = n.idx
      /\ Words \in Nat
  BY NiaFacts, ICacheAssumption DEF Next4, Row
<1>. HIDE DEF a, b, v, w
<1>2. CASE b >= a + 1
  <2>1. b * Words >= a * Words + Words
    BY <1>1, <1>2
  <2>. QED  BY <1>1, <2>1
<1>3. CASE a >= b + 1
  <2>1. a * Words >= b * Words + Words
    BY <1>1, <1>3
  <2>. QED  BY <1>1, <2>1
<1>4. a = b
  BY <1>1, <1>2, <1>3
<1>. QED  BY <1>1, <1>4 DEF a, b

-----------------------------------------------------------------------------
(* The lookup.                                                             *)

LEMMA Translated ==
    ASSUME Types, Tlb, access_ok
    PROVE  /\ real_frame \in Frames
           /\ \/ mode.virt /\ i_in.nia.page \in pdirty
              \/ real_frame = IF mode.virt THEN pagetable[i_in.nia.page].frame
                              ELSE i_in.nia.page
<1>1. mode \in Modes /\ i_in.nia \in Nias(mode)
  BY DEF Types
<1>2. CASE ~mode.virt
  BY <1>1, <1>2, NiaFacts DEF real_frame
<1>3. CASE mode.virt
  <2>. DEFINE p == i_in.nia.page
              t == itlb[hash_ea(p)]
  <2>1. p \in Pages /\ hash_ea(p) \in 0 .. 1
    BY <1>1, <1>3, NiaFacts, PageFacts
  <2>2. t # None /\ t.tag = ttag(p)
    BY <1>3 DEF access_ok, ra_valid, entry
  <2>3. t \in Entry
    BY <2>1, <2>2 DEF Types
  <2>4. p \in pdirty \/ t.pte = pagetable[p]
    BY <2>1, <2>2 DEF Tlb
  <2>5. real_frame = t.pte.frame
    BY <1>3, <2>2 DEF real_frame, entry
  <2>6. t.pte.frame \in Frames
    BY <2>3 DEF Entry, Pte
  <2>. QED  BY <1>3, <2>4, <2>5, <2>6
<1>. QED  BY <1>2, <1>3

\* A way that hits holds the row, of the line asked for.
LEMMA HitGood ==
    ASSUME Types, Valid, Reload, NEW w \in hits
    PROVE  /\ w \in Way
           /\ Good(ram[w][<<req_index, i_in.nia.row>>], <<real_frame, req_index>>,
                   i_in.nia.row, dirty \cup late)
           /\ \A y \in hits : y = w
<1>1. req_index \in Idx /\ i_in.nia.row \in Row
  BY NiaFacts DEF Types, req_index
<1>2. \A y \in hits : /\ y \in Way /\ cache_tags[req_index][y] = real_frame
                      /\ \/ y \in cache_valid_bits[req_index]
                         \/ hitcond /\ y = r.store_way
  BY DEF hits
<1>3. CASE w \in cache_valid_bits[req_index]
  <2>1. Good(ram[w][<<req_index, i_in.nia.row>>], <<real_frame, req_index>>,
             i_in.nia.row, dirty)
    BY <1>1, <1>2, <1>3 DEF Valid
  <2>2. \A y \in cache_valid_bits[req_index] :
           cache_tags[req_index][y] = real_frame => y = w
    <3>1. \A y \in cache_valid_bits[req_index] :
             y # w => cache_tags[req_index][y] # cache_tags[req_index][w]
      BY <1>1, <1>3 DEF Valid
    <3>. QED  BY <1>2, <3>1
  <2>3. hitcond => cache_tags[req_index][w] # r.store_tag
                   /\ cache_tags[req_index][r.store_way] = r.store_tag
    BY <1>3 DEF hitcond, Reload
  <2>. QED  BY <1>2, <2>1, <2>2, <2>3 DEF Good
<1>4. CASE w \notin cache_valid_bits[req_index]
  <2>1. hitcond /\ w = r.store_way
    BY <1>2, <1>4
  <2>2. /\ r.store_tag = real_frame /\ req_index = r.store_index
        /\ i_in.nia.row \in r.rows_valid
    BY <1>2, <2>1 DEF hitcond, Reload
  <2>3. Good(ram[w][<<req_index, i_in.nia.row>>], <<real_frame, req_index>>,
             i_in.nia.row, dirty \cup late)
    BY <2>1, <2>2 DEF hitcond, Reload, reloaded
  <2>4. \A y \in cache_valid_bits[req_index] : cache_tags[req_index][y] # real_frame
    BY <2>1, <2>2 DEF hitcond, Reload
  <2>. QED  BY <1>2, <2>1, <2>3, <2>4
<1>. QED  BY <1>3, <1>4

\* The way read is the one that hits.
LEMMA HitWay ==
    ASSUME Types, Valid, Reload, hits # {}
    PROVE  req_hit_way \in hits /\ hits = {req_hit_way}
<1>1. PICK w : w \in hits
  OBVIOUS
<1>2. hits = {w} /\ w \in Way
  BY <1>1, HitGood
<1>3. w \in Nat
  BY <1>2 DEF Way
<1>4. w \in {w} \cup {0} /\ \A y \in {w} \cup {0} : w >= y
  BY <1>3
<1>5. Max({w} \cup {0}) = w
  BY <1>3, <1>4 DEF Max
<1>. QED  BY <1>2, <1>5 DEF req_hit_way

LEMMA InvFetched == IInv => Fetched
<1>. SUFFICES ASSUME IInv PROVE Fetched
  OBVIOUS
<1>. USE DEF IInv
<1>1. Cardinality(hits) <= 1
  <2>1. CASE hits = {}
    BY <2>1, FS_EmptySet
  <2>2. CASE hits # {}
    BY <2>2, HitWay, FS_Singleton
  <2>. QED  BY <2>1, <2>2
<1>2. ASSUME is_hit, access_ok
      PROVE  LET c == ram[req_hit_way][<<req_index, i_in.nia.row>>]
                 p == i_in.nia.page IN
             /\ c # None
             /\ \/ mode.virt /\ p \in pdirty
                \/ c.line = <<IF mode.virt THEN pagetable[p].frame ELSE p, req_index>>
             /\ c.row = i_in.nia.row
             /\ c.stale => c.line \in dirty \cup late
  <2>. DEFINE c == ram[req_hit_way][<<req_index, i_in.nia.row>>]
  <2>1. Good(c, <<real_frame, req_index>>, i_in.nia.row, dirty \cup late)
    BY <1>2, HitWay, HitGood DEF is_hit
  <2>2. c # None
    BY <2>1, ICacheAssumption DEF Good
  <2>3. \/ mode.virt /\ i_in.nia.page \in pdirty
        \/ real_frame = IF mode.virt THEN pagetable[i_in.nia.page].frame ELSE i_in.nia.page
    BY <1>2, Translated
  <2>. QED  BY <2>1, <2>2, <2>3 DEF Good
<1>3. hit.valid => rd_data.row = hit.nia.row /\ rd_data.line[2] = hit.nia.idx
  BY DEF Decode
<1>. QED  BY <1>1, <1>2, <1>3 DEF Fetched

-----------------------------------------------------------------------------
(* What changes outside the reload.                                        *)

LEMMA EventFacts ==
    ASSUME NEW m \in Modes, NEW e \in Events(m)
    PROVE  /\ e.op = "map" => e.page \in Pages /\ e.pte \in Pte
           /\ e.op \in {"tlbld", "tlbie"} => e.page \in Pages
           /\ e.op = "write" => e.line \in Frames \X Idx
<1>1. e \in Event /\ \A p \in Pages : Ptes(p) \subseteq Pte
  BY ICacheAssumption
<1>2. CASE e \in UNION {[op : {"map"}, page : {p}, pte : Ptes(p)] : p \in Pages}
  BY <1>1, <1>2
<1>3. CASE e \notin UNION {[op : {"map"}, page : {p}, pte : Ptes(p)] : p \in Pages}
  <2>1. e \in [op : {"none", "flush", "stall", "inval", "tlbie_all"}]
              \cup [op : {"write"}, line : Frames \X Idx]
              \cup [op : {"tlbld", "tlbie"}, page : Pages]
    BY <1>1, <1>3 DEF Event
  <2>. QED  BY <2>1
<1>. QED  BY <1>2, <1>3

LEMMA TlbStep ==
    ASSUME Types, Tlb, NEW e \in Events(mode), NEW ack, NEW stall, HistClock(e, ack, stall)
    PROVE  /\ Tlb'
           /\ itlb' \in [0 .. 1 -> Entry \cup {None}] /\ pagetable' \in [Pages -> Pte]
<1>1. /\ e.op = "map" => e.page \in Pages /\ e.pte \in Pte
      /\ e.op \in {"tlbld", "tlbie"} => e.page \in Pages
  BY EventFacts DEF Types
<1>2. pagetable' = IF e.op = "map" THEN [pagetable EXCEPT ![e.page] = e.pte] ELSE pagetable
  BY DEF HistClock, Clock
<1>3. pagetable' \in [Pages -> Pte]
  BY <1>1, <1>2 DEF Types
<1>4. itlb_update(e)
  BY DEF HistClock, Clock
<1>5. itlb' \in [0 .. 1 -> Entry \cup {None}]
  <2>1. CASE e.op = "tlbie_all"
    BY <1>4, <2>1 DEF itlb_update, Types
  <2>2. CASE e.op = "tlbie"
    BY <1>1, <1>4, <2>2, PageFacts DEF itlb_update, Types
  <2>3. CASE e.op = "tlbld"
    <3>1. [tag |-> ttag(e.page), pte |-> pagetable[e.page]] \in Entry
      BY <1>1, <2>3, PageFacts DEF Types, Entry
    <3>. QED  BY <1>1, <1>4, <2>3, <3>1, PageFacts DEF itlb_update, Types
  <2>4. CASE e.op \notin {"tlbie_all", "tlbie", "tlbld"}
    BY <1>4, <2>4 DEF itlb_update, Types
  <2>. QED  BY <2>1, <2>2, <2>3, <2>4
<1>6. ASSUME NEW p \in Pages, itlb'[hash_ea(p)] # None, itlb'[hash_ea(p)].tag = ttag(p)
      PROVE  p \in pdirty' \/ itlb'[hash_ea(p)].pte = pagetable'[p]
  <2>1. hash_ea(p) \in 0 .. 1 /\ itlb \in [0 .. 1 -> Entry \cup {None}]
        /\ pagetable \in [Pages -> Pte]
    BY PageFacts DEF Types
  <2>2. CASE e.op = "tlbie_all"
    BY <1>4, <1>6, <2>1, <2>2 DEF itlb_update
  <2>3. CASE e.op = "tlbie"
    <3>1. hash_ea(p) # hash_ea(e.page) /\ itlb'[hash_ea(p)] = itlb[hash_ea(p)]
      BY <1>1, <1>4, <1>6, <2>1, <2>3, PageFacts DEF itlb_update
    <3>2. p # e.page /\ pdirty' = pdirty \ {e.page} /\ pagetable' = pagetable
      BY <1>2, <2>3, <3>1 DEF HistClock
    <3>. QED  BY <1>6, <3>1, <3>2 DEF Tlb
  <2>4. CASE e.op = "tlbld"
    <3>1. pdirty' = pdirty \ {e.page} /\ pagetable' = pagetable
      BY <1>2, <2>4 DEF HistClock
    <3>2. CASE hash_ea(p) = hash_ea(e.page)
      <4>1. itlb'[hash_ea(p)] = [tag |-> ttag(e.page), pte |-> pagetable[e.page]]
        BY <1>1, <1>4, <2>1, <2>4, <3>2, PageFacts DEF itlb_update
      <4>2. p = e.page
        BY <1>1, <1>6, <2>4, <3>2, <4>1, PageFacts
      <4>. QED  BY <3>1, <4>1, <4>2
    <3>3. CASE hash_ea(p) # hash_ea(e.page)
      <4>1. itlb'[hash_ea(p)] = itlb[hash_ea(p)] /\ p # e.page
        BY <1>1, <1>4, <2>1, <2>4, <3>3, PageFacts DEF itlb_update
      <4>. QED  BY <1>6, <3>1, <4>1 DEF Tlb
    <3>. QED  BY <3>2, <3>3
  <2>5. CASE e.op = "map"
    <3>1. itlb' = itlb /\ pdirty' = pdirty \cup {e.page}
      BY <1>4, <2>5 DEF itlb_update, HistClock
    <3>2. p # e.page => pagetable'[p] = pagetable[p]
      BY <1>1, <1>2, <2>1, <2>5
    <3>. QED  BY <1>6, <3>1, <3>2 DEF Tlb
  <2>6. CASE e.op \notin {"tlbie_all", "tlbie", "tlbld", "map"}
    <3>1. itlb' = itlb /\ pdirty' = pdirty /\ pagetable' = pagetable
      BY <1>2, <1>4, <2>6 DEF itlb_update, HistClock
    <3>. QED  BY <1>6, <3>1 DEF Tlb
  <2>. QED  BY <2>2, <2>3, <2>4, <2>5, <2>6
<1>. QED  BY <1>3, <1>5, <1>6 DEF Tlb

\* Memory changes: what was not stale and becomes it is among the changed.
LEMMA StaleGood ==
    ASSUME NEW c, NEW line, NEW row, NEW S, NEW T, NEW e, Good(c, line, row, S),
           line \in S => line \in T, e.op = "write" /\ e.line = line => line \in T
    PROVE  Good(Stale(c, e), line, row, T)
BY DEF Good, Stale, Cells

LEMMA StaleType ==
    ASSUME NEW c \in Cells \cup {None}, NEW e
    PROVE  Stale(c, e) \in Cells \cup {None}
BY DEF Stale, Cells

LEMMA Changed ==
    ASSUME NEW e, NEW ack, NEW stall, HistClock(e, ack, stall)
    PROVE  /\ e.op # "inval" => dirty \subseteq dirty'
           /\ e.op = "write" => e.line \in dirty'
           /\ r.state # "IDLE" /\ r'.state # "IDLE" =>
                /\ e.op # "inval" => late' = late
                /\ reloaded \in dirty \cup late => reloaded \in dirty' \cup late'
           /\ r.state = "IDLE" \/ r'.state = "IDLE" => late' = {}
BY DEF HistClock, reloaded

-----------------------------------------------------------------------------
(* Fetch and decode.                                                       *)

LEMMA HitStep ==
    ASSUME IInv, NEW e, NEW ack, NEW stall, HistClock(e, ack, stall)
    PROVE  /\ hit' \in [valid : BOOLEAN, way : Way, nia : Nias(mode)]
           /\ hit'.valid => /\ rd_data' \in Cells
                            /\ rd_data'.row = hit'.nia.row
                            /\ rd_data'.line[2] = hit'.nia.idx
<1>. USE DEF IInv
<1>. DEFINE hold == e.op = "stall" \/ use_previous
            valid == IF hold THEN hit.valid /\ e.op # "flush" ELSE req_is_hit(e.op = "flush")
            read == IF hold THEN rd_data ELSE ram[req_hit_way][<<req_index, i_in.nia.row>>]
<1>1. /\ mode \in Modes /\ i_in.nia \in Nias(mode) /\ hit.nia \in Nias(mode)
      /\ hit.way \in Way /\ hit.valid \in BOOLEAN
  BY DEF Types
<1>2. hit' = IF ~valid THEN NoHit(mode)
             ELSE [valid |-> TRUE,
                   way |-> IF hold THEN hit.way ELSE req_hit_way,
                   nia |-> IF e.op = "stall" THEN hit.nia ELSE i_in.nia]
  BY DEF HistClock, Clock, icache_hit
<1>3. rd_data' = IF hit'.valid THEN Stale(read, e) ELSE None
  BY DEF HistClock, Clock, rams, CacheRam
<1>4. CASE ~valid
  <2>1. (CHOOSE n \in Nias(mode) : TRUE) \in Nias(mode)
    BY <1>1, NiaFacts
  <2>2. 0 \in Way
    BY ICacheAssumption DEF Way
  <2>. QED  BY <1>2, <1>4, <2>1, <2>2 DEF NoHit
<1>5. CASE valid /\ hold
  <2>1. rd_data \in Cells /\ rd_data.row = hit.nia.row /\ rd_data.line[2] = hit.nia.idx
    BY <1>5 DEF Decode
  <2>2. Stale(rd_data, e) \in Cells /\ Stale(rd_data, e).row = rd_data.row
        /\ Stale(rd_data, e).line = rd_data.line
    BY <2>1 DEF Stale, Cells
  <2>3. e.op # "stall" => i_in.nia.row = hit.nia.row /\ i_in.nia.idx = hit.nia.idx
    BY <1>1, <1>5, SameRow DEF use_previous, Decode
  <2>4. hit' = [valid |-> TRUE, way |-> hit.way,
                nia |-> IF e.op = "stall" THEN hit.nia ELSE i_in.nia]
    BY <1>2, <1>5
  <2>. HIDE DEF hold, valid
  <2>5. rd_data' = Stale(rd_data, e)
    BY <1>3, <1>5, <2>4
  <2>. QED  BY <1>1, <2>1, <2>2, <2>3, <2>4, <2>5
<1>6. CASE valid /\ ~hold
  <2>1. hits # {}
    BY <1>6 DEF req_is_hit, is_hit
  <2>2. /\ req_hit_way \in Way
        /\ Good(ram[req_hit_way][<<req_index, i_in.nia.row>>], <<real_frame, req_index>>,
                i_in.nia.row, dirty \cup late)
    BY <2>1, HitWay, HitGood
  <2>. DEFINE c == ram[req_hit_way][<<req_index, i_in.nia.row>>]
  <2>3. c \in Cells /\ c.row = i_in.nia.row /\ c.line[2] = i_in.nia.idx
    BY <2>2 DEF Good, req_index
  <2>. HIDE DEF c
  <2>4. Stale(c, e) \in Cells /\ Stale(c, e).row = c.row /\ Stale(c, e).line = c.line
    BY <2>3 DEF Stale, Cells
  <2>5. hit' = [valid |-> TRUE, way |-> req_hit_way, nia |-> i_in.nia]
    BY <1>2, <1>6
  <2>6. rd_data' = Stale(c, e)
    BY <1>3, <1>6, <2>5 DEF c
  <2>. QED  BY <1>1, <2>2, <2>3, <2>4, <2>5, <2>6
<1>. QED  BY <1>4, <1>5, <1>6

LEMMA FetchStep ==
    ASSUME IInv, NEW e, NEW ack, NEW stall, HistClock(e, ack, stall)
    PROVE  /\ mode' = mode
           /\ i_in' \in [req : BOOLEAN, nia : Nias(mode), sequential : BOOLEAN]
           /\ i_in'.sequential => i_in'.nia.word # 0 /\ Next4(hit'.nia, i_in'.nia)
<1>. USE DEF IInv
<1>1. mode' = mode /\ Fetch1(e) /\ icache_hit(e)
  BY DEF HistClock, Clock
<1>2. /\ mode \in Modes /\ hit.valid \in BOOLEAN
      /\ i_in \in [req : BOOLEAN, nia : Nias(mode), sequential : BOOLEAN]
  BY DEF Types
<1>3. CASE i_in' = [i_in EXCEPT !.sequential = FALSE]
  BY <1>1, <1>2, <1>3
<1>4. CASE i_in' = NoFetch(mode)
  <2>1. (CHOOSE n \in Nias(mode) : TRUE) \in Nias(mode)
    BY <1>2, NiaFacts
  <2>. QED  BY <1>1, <1>4, <2>1 DEF NoFetch
<1>5. ASSUME e.op = "flush" \/ ~i_in.req \/ ~(e.op = "stall" \/ stall_out),
             NEW n \in Nias(mode),
             i_in' = [req |-> TRUE, nia |-> n,
                      sequential |-> n.word # 0 /\ e.op # "flush" /\ i_in.req
                                     /\ Next4(i_in.nia, n)]
      PROVE  /\ i_in' \in [req : BOOLEAN, nia : Nias(mode), sequential : BOOLEAN]
             /\ i_in'.sequential => i_in'.nia.word # 0 /\ Next4(hit'.nia, i_in'.nia)
  <2>1. i_in'.sequential <=> n.word # 0 /\ e.op # "flush" /\ i_in.req /\ Next4(i_in.nia, n)
    BY <1>5
  <2>2. ASSUME i_in'.sequential
        PROVE  hit'.nia = i_in.nia
    <3>1. is_hit /\ access_ok /\ e.op # "stall" /\ e.op # "flush" /\ i_in.req
      BY <1>5, <2>1, <2>2 DEF stall_out
    <3>2. use_previous => hit.valid
      BY DEF use_previous
    <3>. QED  BY <1>1, <3>1, <3>2 DEF icache_hit, req_is_hit
  <2>3. i_in'.sequential \in BOOLEAN
    BY <1>5
  <2>. QED  BY <1>2, <1>5, <2>1, <2>2, <2>3
<1>. QED  BY <1>1, <1>3, <1>4, <1>5 DEF Fetch1

LEMMA PlruStep ==
    ASSUME Types, NEW e, NEW ack, NEW stall, HistClock(e, ack, stall)
    PROVE  plru_victim' \in [Idx -> Way]
BY DEF HistClock, Clock, maybe_plrus, PLRU, Types

-----------------------------------------------------------------------------
(* The reload: what is on its way.                                         *)

loading == r.state # "IDLE"
Count(b) == IF b THEN 1 ELSE 0

LEMMA LeftFacts ==
    ASSUME Types, NEW x \in Row
    PROVE  /\ left(x) \in Row /\ left(x) \in Nat /\ r.end_row_ix \in Row
           /\ (left(x) = 0 <=> x = r.end_row_ix)
           /\ x # r.end_row_ix => left(Up(x)) = left(x) - 1
           /\ \A y \in Row : left(y) = left(x) => y = x
<1>1. r.end_row_ix \in Row
  BY DEF Types
<1>2. left(x) \in Row /\ left(x) \in Nat /\ (left(x) = 0 <=> x = r.end_row_ix)
  BY <1>1, RowFacts DEF left
<1>3. x # r.end_row_ix => left(Up(x)) = left(x) - 1
  BY <1>1, RowFacts DEF left
<1>4. \A y \in Row : left(y) = left(x) => y = x
  BY <1>1, DistOnce DEF left
<1>. QED  BY <1>1, <1>2, <1>3, <1>4

LEMMA RegTypes ==
    ASSUME Types
    PROVE  /\ r.store_row \in Row /\ r.adr_row \in Row /\ r.end_row_ix \in Row
           /\ r.store_way \in Way /\ r.rows_valid \subseteq Row
           /\ r.stb \in BOOLEAN /\ r.store_valid \in BOOLEAN
           /\ r.state \in {"IDLE", "CLR_TAG", "WAIT_ACK"}
           /\ accepted \in Seq(Cells) /\ Len(accepted) \in Nat
BY DEF Types

\* Every read that memory has accepted or accepts in this clock.
LEMMA SentFacts ==
    ASSUME Types, Reload, loading, NEW stall \in BOOLEAN
    PROVE  /\ sent(stall) \in Seq(Cells)
           /\ Len(sent(stall)) = IF r.stb /\ ~stall THEN Len(accepted) + 1 ELSE Len(accepted)
           /\ \A k \in 1 .. Len(sent(stall)) :
                /\ Good(sent(stall)[k], reloaded, sent(stall)[k].row, dirty \cup late)
                /\ left(sent(stall)[k].row) = left(r.store_row) - (k - 1)
<1>. DEFINE c == Cell(<<r.store_tag, r.store_index>>, r.adr_row)
<1>1. /\ accepted \in Seq(Cells)
      /\ \A k \in 1 .. Len(accepted) :
           /\ Good(accepted[k], reloaded, accepted[k].row, dirty \cup late)
           /\ left(accepted[k].row) = left(r.store_row) - (k - 1)
  BY DEF Types, Reload, loading
<1>2. CASE r.stb /\ ~stall
  <2>1. sent(stall) = Append(accepted, c)
    BY <1>2 DEF sent
  <2>2. Good(c, reloaded, c.row, dirty \cup late) /\ c.row = r.adr_row
    BY DEF Types, Reload, loading, Good, Cell, Cells, reloaded
  <2>3. left(r.adr_row) = left(r.store_row) - Len(accepted)
    <3>1. left(r.store_row) + 1 = Len(accepted) + (left(r.adr_row) + 1)
      BY <1>2 DEF Reload, loading
    <3>2. left(r.store_row) \in Int /\ left(r.adr_row) \in Int
      BY LeftFacts, RegTypes
    <3>3. Len(accepted) \in Int
      BY <1>1
    <3>. QED  BY <3>1, <3>2, <3>3
  <2>4. c \in Cells
    BY <2>2 DEF Good
  <2>. HIDE DEF c
  <2>5. /\ sent(stall) \in Seq(Cells) /\ Len(sent(stall)) = Len(accepted) + 1
        /\ \A k \in 1 .. Len(accepted) : sent(stall)[k] = accepted[k]
        /\ sent(stall)[Len(accepted) + 1] = c
    BY <1>1, <2>1, <2>4
  <2>6. Len(accepted) \in Nat
    BY <1>1
  <2>7. ASSUME NEW k \in 1 .. Len(sent(stall))
        PROVE  /\ Good(sent(stall)[k], reloaded, sent(stall)[k].row, dirty \cup late)
               /\ left(sent(stall)[k].row) = left(r.store_row) - (k - 1)
    <3>1. CASE k = Len(accepted) + 1
      BY <2>2, <2>3, <2>5, <2>6, <3>1
    <3>2. CASE k \in 1 .. Len(accepted)
      BY <1>1, <2>5, <3>2
    <3>. QED  BY <2>5, <2>6, <3>1, <3>2
  <2>. QED  BY <1>2, <2>5, <2>7
<1>3. CASE ~(r.stb /\ ~stall)
  <2>1. sent(stall) = accepted
    BY <1>3 DEF sent
  <2>. QED  BY <1>1, <1>3, <2>1
<1>. QED  BY <1>2, <1>3

\* What arrives is the row that is expected.
LEMMA Arrives ==
    ASSUME Types, Reload, loading, NEW e, NEW ack \in BOOLEAN, NEW stall \in BOOLEAN,
           Wishbone(e, ack, stall), ack
    PROVE  Good(Head(sent(stall)), reloaded, r.store_row, dirty \cup late)
<1>. DEFINE s == sent(stall)
<1>1. s # <<>> /\ s \in Seq(Cells)
  BY SentFacts DEF Wishbone
<1>2. Len(s) >= 1 /\ Head(s) = s[1] /\ 1 \in 1 .. Len(s)
  BY <1>1
<1>3. Good(s[1], reloaded, s[1].row, dirty \cup late) /\ left(s[1].row) = left(r.store_row)
  <2>1. /\ Good(s[1], reloaded, s[1].row, dirty \cup late)
        /\ left(s[1].row) = left(r.store_row) - (1 - 1)
    BY <1>2, SentFacts
  <2>2. left(r.store_row) \in Int
    BY LeftFacts, RegTypes
  <2>. QED  BY <2>1, <2>2
<1>4. s[1].row \in Row
  BY <1>3 DEF Good, Cells
<1>5. s[1].row = r.store_row
  BY <1>3, <1>4, LeftFacts, RegTypes
<1>. QED  BY <1>2, <1>3, <1>5

\* What is left on its way after the clock.
LEMMA AcceptedStep ==
    ASSUME Types, Reload, loading, NEW e, NEW ack \in BOOLEAN, NEW stall \in BOOLEAN,
           Wishbone(e, ack, stall)
    PROVE  /\ accepted' \in Seq(Cells)
           /\ Len(accepted') = Len(sent(stall)) - Count(ack)
           /\ \A k \in 1 .. Len(accepted') :
                 accepted'[k] = Stale(sent(stall)[k + Count(ack)], e)
<1>. DEFINE s == sent(stall)
            rest == IF ack THEN Tail(s) ELSE s
<1>1. s \in Seq(Cells) /\ (ack => s # <<>>)
  BY SentFacts DEF Wishbone
<1>2. /\ rest \in Seq(Cells) /\ Len(rest) = Len(s) - Count(ack)
      /\ \A k \in 1 .. Len(rest) : rest[k] = s[k + Count(ack)]
  <2>1. CASE ack
    BY <1>1, <2>1, HeadTailProperties DEF Count
  <2>2. CASE ~ack
    BY <1>1, <2>2 DEF Count
  <2>. QED  BY <2>1, <2>2
<1>3. accepted' = [k \in DOMAIN rest |-> Stale(rest[k], e)]
  BY DEF Wishbone
<1>. HIDE DEF rest
<1>4. DOMAIN rest = 1 .. Len(rest) /\ Len(rest) \in Nat /\ \A k \in 1 .. Len(rest) : rest[k] \in Cells
  BY <1>2
<1>5. \A k \in 1 .. Len(rest) : Stale(rest[k], e) \in Cells
  BY <1>4 DEF Stale, Cells
<1>6. accepted' \in [1 .. Len(rest) -> Cells]
  BY <1>3, <1>4, <1>5
<1>7. accepted' \in Seq(Cells) /\ Len(accepted') = Len(rest)
  BY <1>4, <1>6
<1>. QED  BY <1>2, <1>3, <1>4, <1>7

-----------------------------------------------------------------------------
(* The reload: registers, tags, valid bits and RAM.                        *)

LEMMA NoAnswer ==
    ASSUME Reload, ~loading, NEW e, NEW ack, NEW stall, Wishbone(e, ack, stall)
    PROVE  ~ack
BY DEF Wishbone, sent, Reload, loading

\* Without a reload nothing arrives; a miss starts one.
LEMMA IdleStep ==
    ASSUME IInv, ~loading, NEW e, NEW ack \in BOOLEAN, NEW stall \in BOOLEAN,
           HistClock(e, ack, stall)
    PROVE  /\ ~ack /\ accepted' = <<>>
           /\ cache_tags' = cache_tags
           /\ cache_valid_bits' = Invalidated(e.op = "inval")
           /\ \/ r' = r
              \/ /\ i_in.req /\ access_ok /\ ~is_hit /\ e.op # "flush"
                 /\ r' = [r EXCEPT !.store_index = req_index, !.store_row = i_in.nia.row,
                                   !.store_tag = real_frame, !.store_valid = TRUE,
                                   !.end_row_ix = (i_in.nia.row + Rows - 1) % Rows,
                                   !.adr_row = i_in.nia.row, !.stb = TRUE,
                                   !.state = "CLR_TAG"]
<1>. USE DEF IInv
<1>1. r.state = "IDLE" /\ ~r.stb /\ accepted = <<>>
  BY DEF loading, Reload
<1>2. Wishbone(e, ack, stall) /\ icache_miss(e, ack, stall)
  BY DEF HistClock, Clock
<1>3. sent(stall) = <<>>
  BY <1>1 DEF sent
<1>4. ~ack
  BY <1>2, <1>3 DEF Wishbone
<1>5. accepted' = <<>>
  <2>1. accepted' = [x \in DOMAIN <<>> |-> Stale(<<>>[x], e)]
    BY <1>2, <1>3, <1>4 DEF Wishbone
  <2>. QED  BY <2>1
<1>6. /\ cache_tags' = cache_tags
      /\ cache_valid_bits' = Invalidated(e.op = "inval")
  BY <1>1, <1>2 DEF icache_miss
<1>7. r' = [Miss(e.op = "flush") EXCEPT !.store_valid = @ /\ TRUE]
  BY <1>1, <1>2 DEF icache_miss
<1>8. CASE ~req_is_miss(e.op = "flush")
  <2>1. r' = [r EXCEPT !.store_valid = r.store_valid /\ TRUE]
    BY <1>7, <1>8 DEF Miss
  <2>2. r' = r
    BY <2>1 DEF Types
  <2>. QED  BY <1>4, <1>5, <1>6, <2>2
<1>9. CASE req_is_miss(e.op = "flush")
  <2>1. r' = [r EXCEPT !.store_index = req_index, !.store_row = i_in.nia.row,
                       !.store_tag = real_frame, !.store_valid = TRUE,
                       !.end_row_ix = (i_in.nia.row + Rows - 1) % Rows,
                       !.adr_row = i_in.nia.row, !.stb = TRUE,
                       !.state = "CLR_TAG"]
    BY <1>7, <1>9 DEF Miss, Types
  <2>. QED  BY <1>4, <1>5, <1>6, <1>9, <2>1 DEF req_is_miss
<1>. QED  BY <1>8, <1>9

\* The registers while a line is reloaded.
LEMMA RegsStep ==
    ASSUME IInv, loading, NEW e, NEW ack \in BOOLEAN, NEW stall \in BOOLEAN,
           HistClock(e, ack, stall)
    PROVE  /\ r' \in [state : {"IDLE", "CLR_TAG", "WAIT_ACK"}, stb : BOOLEAN,
                      adr_row : Row, store_way : Way, store_index : Idx \cup {None},
                      store_row : Row, store_tag : Frames \cup {None},
                      store_valid : BOOLEAN, end_row_ix : Row, rows_valid : SUBSET Row]
           /\ replace_way \in Way
           /\ lineDone(ack, stall) => r'.state = "IDLE" /\ ~r'.stb /\ r'.rows_valid = {}
           /\ ~lineDone(ack, stall) =>
                /\ r'.state = "WAIT_ACK" /\ r'.store_way = replace_way
                /\ r'.store_index = r.store_index /\ r'.store_tag = r.store_tag
                /\ r'.end_row_ix = r.end_row_ix
                /\ r'.store_valid => r.store_valid /\ e.op # "inval"
                /\ r'.stb <=> r.stb /\ ~lastStb(stall)
                /\ r'.adr_row = IF ~stall /\ r.stb THEN Up(r.adr_row) ELSE r.adr_row
                /\ r'.store_row = IF ack THEN Up(r.store_row) ELSE r.store_row
                /\ r'.rows_valid = IF ack THEN r.rows_valid \cup {r.store_row}
                                   ELSE r.rows_valid
<1>. USE DEF IInv
<1>. DEFINE R == [state : {"IDLE", "CLR_TAG", "WAIT_ACK"}, stb : BOOLEAN,
                  adr_row : Row, store_way : Way, store_index : Idx \cup {None},
                  store_row : Row, store_tag : Frames \cup {None},
                  store_valid : BOOLEAN, end_row_ix : Row, rows_valid : SUBSET Row]
<1>1. r \in R /\ r.state \in {"CLR_TAG", "WAIT_ACK"}
  BY DEF Types, loading
<1>2. replace_way \in Way
  <2>1. r.store_index \in Idx
    BY DEF Reload, loading
  <2>. QED  BY <2>1, RegTypes DEF replace_way, Types
<1>3. icache_miss(e, ack, stall)
  BY DEF HistClock, Clock
<1>. DEFINE base == IF r.state = "CLR_TAG" THEN [r EXCEPT !.store_way = replace_way] ELSE r
<1>4. r' = [WaitAck(base, ack, stall) EXCEPT !.store_valid = @ /\ e.op # "inval"]
  BY <1>1, <1>3 DEF icache_miss
<1>5. base \in R /\ base.store_way = replace_way /\ base.store_valid = r.store_valid
      /\ base.store_index = r.store_index /\ base.store_tag = r.store_tag
      /\ base.end_row_ix = r.end_row_ix /\ base.stb = r.stb /\ base.adr_row = r.adr_row
      /\ base.store_row = r.store_row /\ base.rows_valid = r.rows_valid
  BY <1>1, <1>2 DEF replace_way
<1>. HIDE DEF base
<1>6. CASE lineDone(ack, stall)
  <2>1. r' = [NoReload EXCEPT !.store_valid = FALSE]
    BY <1>4, <1>6 DEF WaitAck, NoReload
  <2>2. 0 \in Row /\ 0 \in Way
    BY ICacheAssumption DEF Row, Way
  <2>. QED  BY <1>2, <1>6, <2>1, <2>2 DEF NoReload
<1>7. CASE ~lineDone(ack, stall)
  <2>1. r' = [base EXCEPT
                !.stb = base.stb /\ ~lastStb(stall),
                !.adr_row = IF ~stall /\ r.stb THEN (base.adr_row + 1) % Rows
                            ELSE base.adr_row,
                !.rows_valid = IF ack THEN base.rows_valid \cup {r.store_row}
                               ELSE base.rows_valid,
                !.store_row = IF ack THEN (base.store_row + 1) % Rows ELSE base.store_row,
                !.state = "WAIT_ACK",
                !.store_valid = base.store_valid /\ e.op # "inval"]
    BY <1>4, <1>5, <1>7 DEF WaitAck
  <2>2. Up(r.adr_row) \in Row /\ Up(r.store_row) \in Row /\ r.store_row \in Row
    BY RegTypes, RowFacts
  <2>. QED  BY <1>2, <1>5, <1>7, <2>1, <2>2 DEF Up
<1>. QED  BY <1>6, <1>7


\* Tags and valid bits: the way that is reloaded is not valid until it is done.
LEMMA ArraysStep ==
    ASSUME IInv, Gentle, loading, NEW e, NEW ack \in BOOLEAN, NEW stall \in BOOLEAN,
           HistClock(e, ack, stall)
    PROVE  /\ \A x \in Idx, w \in Way :
                 cache_tags'[x][w] = IF x = r.store_index /\ w = replace_way
                                     THEN r.store_tag ELSE cache_tags[x][w]
           /\ lineDone(ack, stall) =>
                /\ e.op # "inval"
                /\ \A x \in Idx : cache_valid_bits'[x] =
                      IF x # r.store_index THEN cache_valid_bits[x]
                      ELSE IF r.store_valid THEN cache_valid_bits[x] \cup {replace_way}
                      ELSE cache_valid_bits[x] \ {replace_way}
           /\ ~lineDone(ack, stall) =>
                /\ \A x \in Idx : cache_valid_bits'[x] \subseteq cache_valid_bits[x]
                /\ replace_way \notin cache_valid_bits'[r.store_index]
                /\ e.op = "inval" => \A x \in Idx : cache_valid_bits'[x] = {}
           /\ cache_tags' \in [Idx -> [Way -> Frames \cup {None}]]
           /\ cache_valid_bits' \in [Idx -> SUBSET Way]
<1>. USE DEF IInv
<1>1. /\ r.store_index \in Idx /\ r.store_tag \in Frames /\ replace_way \in Way
      /\ cache_tags \in [Idx -> [Way -> Frames \cup {None}]]
      /\ cache_valid_bits \in [Idx -> SUBSET Way]
      /\ r.state \in {"CLR_TAG", "WAIT_ACK"}
  <2>1. replace_way \in Way
    BY RegsStep
  <2>2. r.store_index \in Idx /\ r.store_tag \in Frames
    BY DEF Reload, loading
  <2>3. r.state \in {"CLR_TAG", "WAIT_ACK"}
    BY RegTypes DEF loading
  <2>4. /\ cache_tags \in [Idx -> [Way -> Frames \cup {None}]]
        /\ cache_valid_bits \in [Idx -> SUBSET Way]
    BY DEF Types
  <2>. QED  BY <2>1, <2>2, <2>3, <2>4
<1>2. icache_miss(e, ack, stall)
  BY DEF HistClock, Clock
<1>3. e.op = "inval" => r.state = "WAIT_ACK" /\ ~lineDone(ack, stall)
  BY <1>1 DEF HistClock, Clock, untimely
<1>4. /\ cache_tags' \in [Idx -> [Way -> Frames \cup {None}]]
      /\ \A x \in Idx, w \in Way :
            cache_tags'[x][w] = IF x = r.store_index /\ w = replace_way
                                THEN r.store_tag ELSE cache_tags[x][w]
  <2>1. CASE r.state = "CLR_TAG"
    <3>1. cache_tags' = [cache_tags EXCEPT ![r.store_index][replace_way] = r.store_tag]
      BY <1>2, <2>1 DEF icache_miss
    <3>. QED  BY <1>1, <3>1
  <2>2. CASE r.state = "WAIT_ACK"
    <3>1. cache_tags' = cache_tags
      BY <1>2, <2>2 DEF icache_miss
    <3>2. cache_tags[r.store_index][replace_way] = r.store_tag
      BY <2>2 DEF Reload, replace_way
    <3>. QED  BY <1>1, <3>1, <3>2
  <2>. QED  BY <1>1, <2>1, <2>2
<1>5. CASE lineDone(ack, stall)
  <2>1. e.op # "inval" /\ Invalidated(e.op = "inval") = cache_valid_bits
    BY <1>3, <1>5 DEF Invalidated
  <2>2. cache_valid_bits' =
           [cache_valid_bits EXCEPT ![r.store_index] =
              IF r.store_valid
              THEN cache_valid_bits[r.store_index] \cup {replace_way}
              ELSE cache_valid_bits[r.store_index] \ {replace_way}]
    BY <1>1, <1>2, <1>5, <2>1 DEF icache_miss
  <2>3. cache_valid_bits' \in [Idx -> SUBSET Way]
    BY <1>1, <2>2
  <2>4. \A x \in Idx : cache_valid_bits'[x] =
           IF x # r.store_index THEN cache_valid_bits[x]
           ELSE IF r.store_valid THEN cache_valid_bits[x] \cup {replace_way}
           ELSE cache_valid_bits[x] \ {replace_way}
    BY <1>1, <2>2
  <2>. QED  BY <1>4, <1>5, <2>1, <2>3, <2>4
<1>6. CASE ~lineDone(ack, stall) /\ r.state = "CLR_TAG"
  <2>1. e.op # "inval" /\ Invalidated(e.op = "inval") = cache_valid_bits
    BY <1>3, <1>6 DEF Invalidated
  <2>2. req_index = r.store_index
    BY <1>6 DEF Reload, req_index
  <2>3. cache_valid_bits' =
           [cache_valid_bits EXCEPT ![r.store_index] =
              cache_valid_bits[r.store_index] \ {replace_way}]
    BY <1>2, <1>6, <2>1, <2>2 DEF icache_miss
  <2>. QED  BY <1>1, <1>4, <1>6, <2>1, <2>3
<1>7. CASE ~lineDone(ack, stall) /\ r.state = "WAIT_ACK"
  <2>1. cache_valid_bits' = Invalidated(e.op = "inval")
    BY <1>2, <1>7 DEF icache_miss
  <2>2. replace_way \notin cache_valid_bits[r.store_index]
    BY <1>7 DEF Reload, replace_way
  <2>. QED  BY <1>1, <1>4, <1>7, <2>1, <2>2 DEF Invalidated
<1>. QED  BY <1>1, <1>5, <1>6, <1>7

\* The RAM: what arrives is written; memory may change behind any row.
LEMMA RamStep ==
    ASSUME IInv, NEW e, NEW ack \in BOOLEAN, NEW stall \in BOOLEAN,
           HistClock(e, ack, stall)
    PROVE  /\ ram' \in [Way -> [Idx \X Row -> Cells \cup {None}]]
           /\ \A w \in Way, x \in Idx, row \in Row :
                 ~forget(w, x) =>
                   ram'[w][<<x, row>>] =
                     Stale(IF ack /\ w = replace_way /\ x = r.store_index /\ row = r.store_row
                           THEN Head(sent(stall)) ELSE ram[w][<<x, row>>], e)
<1>. USE DEF IInv
<1>. DEFINE new == IF ack THEN [ram EXCEPT ![replace_way][<<r.store_index, r.store_row>>] =
                                   Head(sent(stall))]
                   ELSE ram
<1>1. ram \in [Way -> [Idx \X Row -> Cells \cup {None}]]
  BY DEF Types
<1>2. ack => loading
  BY NoAnswer DEF HistClock, Clock
<1>3. ack => /\ replace_way \in Way /\ <<r.store_index, r.store_row>> \in Idx \X Row
             /\ Head(sent(stall)) \in Cells
  <2>1. ack => replace_way \in Way
    BY <1>2, RegsStep
  <2>2. ack => r.store_index \in Idx /\ r.store_row \in Row
    BY <1>2, RegTypes DEF Reload, loading
  <2>3. ack => Head(sent(stall)) \in Cells
    BY <1>2, Arrives DEF HistClock, Clock, Good
  <2>. QED  BY <2>1, <2>2, <2>3
<1>4. /\ new \in [Way -> [Idx \X Row -> Cells \cup {None}]]
      /\ \A w \in Way, x \in Idx, row \in Row :
            new[w][<<x, row>>] =
              IF ack /\ w = replace_way /\ x = r.store_index /\ row = r.store_row
              THEN Head(sent(stall)) ELSE ram[w][<<x, row>>]
  <2>1. CASE ack
    BY <1>1, <1>3, <2>1
  <2>2. CASE ~ack
    BY <1>1, <2>2
  <2>. QED  BY <2>1, <2>2
<1>5. ram' = [w \in Way |-> [x \in Idx \X Row |->
                IF forget(w, x[1]) THEN None ELSE Stale(new[w][x], e)]]
  BY DEF HistClock, Clock, rams
<1>. HIDE DEF new
<1>6. \A w \in Way : \A x \in Idx \X Row : Stale(new[w][x], e) \in Cells \cup {None}
  BY <1>4, StaleType
<1>7. ram' \in [Way -> [Idx \X Row -> Cells \cup {None}]]
  BY <1>5, <1>6
<1>8. ASSUME NEW w \in Way, NEW x \in Idx, NEW row \in Row, ~forget(w, x)
      PROVE  ram'[w][<<x, row>>] = Stale(new[w][<<x, row>>], e)
  <2>1. <<x, row>> \in Idx \X Row /\ <<x, row>>[1] = x
    OBVIOUS
  <2>2. ~forget(w, <<x, row>>[1])
    BY <1>8, <2>1
  <2>. HIDE DEF forget
  <2>. QED  BY <1>5, <2>1, <2>2
<1>9. ASSUME NEW w \in Way, NEW x \in Idx, NEW row \in Row, ~forget(w, x)
      PROVE  ram'[w][<<x, row>>] =
               Stale(IF ack /\ w = replace_way /\ x = r.store_index /\ row = r.store_row
                     THEN Head(sent(stall)) ELSE ram[w][<<x, row>>], e)
  BY <1>4, <1>8, <1>9
<1>. QED  BY <1>7, <1>9

\* A way that stays valid keeps its line.
LEMMA KeptStep ==
    ASSUME IInv, Gentle, NEW e, NEW ack \in BOOLEAN, NEW stall \in BOOLEAN,
           HistClock(e, ack, stall),
           NEW x \in Idx, NEW w \in cache_valid_bits[x], w \in cache_valid_bits'[x],
           e.op # "inval", ~(loading /\ x = r.store_index /\ w = replace_way)
    PROVE  /\ cache_tags'[x][w] = cache_tags[x][w]
           /\ \A row \in Row : Good(ram'[w][<<x, row>>], <<cache_tags[x][w], x>>, row, dirty')
<1>1. w \in Way
  BY DEF IInv, Types
<1>2. cache_tags'[x][w] = cache_tags[x][w]
  <2>1. CASE loading
    BY <1>1, <2>1, ArraysStep
  <2>2. CASE ~loading
    BY <2>2, IdleStep
  <2>. QED  BY <2>1, <2>2
<1>3. ASSUME NEW row \in Row
      PROVE  Good(ram'[w][<<x, row>>], <<cache_tags[x][w], x>>, row, dirty')
  <2>1. ack => loading
    BY NoAnswer DEF IInv, HistClock, Clock
  <2>2. ~forget(w, x)
    BY DEF forget
  <2>3. ram'[w][<<x, row>>] = Stale(ram[w][<<x, row>>], e)
    BY <1>1, <2>1, <2>2, RamStep
  <2>4. Good(ram[w][<<x, row>>], <<cache_tags[x][w], x>>, row, dirty)
    BY DEF IInv, Valid
  <2>5. dirty \subseteq dirty' /\ (e.op = "write" => e.line \in dirty')
    BY Changed
  <2>. QED  BY <2>3, <2>4, <2>5, StaleGood
<1>. QED  BY <1>2, <1>3

LEMMA DoneBits ==
    ASSUME IInv, Gentle, loading, NEW e, NEW ack \in BOOLEAN, NEW stall \in BOOLEAN,
           HistClock(e, ack, stall), lineDone(ack, stall)
    PROVE  /\ e.op # "inval"
           /\ r.store_valid => replace_way \in cache_valid_bits'[r.store_index]
<1>1. r.store_index \in Idx
  BY DEF IInv, Reload, loading
<1>2. ASSUME NEW x \in Idx
      PROVE  /\ e.op # "inval"
             /\ cache_valid_bits'[x] =
                  IF x # r.store_index THEN cache_valid_bits[x]
                  ELSE IF r.store_valid THEN cache_valid_bits[x] \cup {replace_way}
                  ELSE cache_valid_bits[x] \ {replace_way}
  BY ArraysStep
<1>. QED  BY <1>1, <1>2

\* The line whose last row arrives is complete.
LEMMA DoneStep ==
    ASSUME IInv, Gentle, loading, NEW e, NEW ack \in BOOLEAN, NEW stall \in BOOLEAN,
           HistClock(e, ack, stall), lineDone(ack, stall), r.store_valid,
           NEW row \in Row
    PROVE  Good(ram'[replace_way][<<r.store_index, row>>], reloaded, row, dirty')
<1>1. r.store_index \in Idx /\ late = {}
  BY DEF IInv, Reload, loading
<1>2. replace_way \in Way
  BY RegsStep
<1>3. e.op # "inval" /\ replace_way \in cache_valid_bits'[r.store_index]
  BY DoneBits
<1>4. ~forget(replace_way, r.store_index)
  BY <1>3 DEF forget
<1>5. dirty \subseteq dirty' /\ (e.op = "write" => e.line \in dirty')
  BY <1>3, Changed
<1>6. ack /\ r.store_row = r.end_row_ix
  BY DEF lineDone
<1>7. CASE row = r.store_row
  <2>1. ram'[replace_way][<<r.store_index, row>>] = Stale(Head(sent(stall)), e)
    <3>1. ram'[replace_way][<<r.store_index, row>>] =
            Stale(IF ack /\ replace_way = replace_way /\ r.store_index = r.store_index
                       /\ row = r.store_row
                  THEN Head(sent(stall)) ELSE ram[replace_way][<<r.store_index, row>>], e)
      BY <1>1, <1>2, <1>4, RamStep
    <3>. QED  BY <1>6, <1>7, <3>1
  <2>2. Good(Head(sent(stall)), reloaded, row, dirty \cup late)
    BY <1>6, <1>7, Arrives DEF IInv, HistClock, Clock
  <2>. QED  BY <1>1, <1>5, <2>1, <2>2, StaleGood
<1>8. CASE row # r.store_row
  <2>1. row \in r.rows_valid
    <3>1. left(r.store_row) = 0 /\ left(row) # 0 /\ left(row) \in Nat
      BY <1>6, <1>8, LeftFacts, RegTypes DEF IInv
    <3>2. row \notin r.rows_valid => left(row) <= left(r.store_row)
      BY DEF IInv, Reload, loading
    <3>. QED  BY <3>1, <3>2
  <2>2. r.state = "WAIT_ACK"
    BY <2>1, RegTypes DEF IInv, Reload, loading
  <2>3. replace_way = r.store_way
    BY <2>2 DEF replace_way
  <2>4. Good(ram[replace_way][<<r.store_index, row>>], reloaded, row, dirty \cup late)
    BY <2>1, <2>2, <2>3 DEF IInv, Reload
  <2>5. ram'[replace_way][<<r.store_index, row>>] =
           Stale(ram[replace_way][<<r.store_index, row>>], e)
    BY <1>1, <1>2, <1>4, <1>8, RamStep
  <2>. QED  BY <1>1, <1>5, <2>4, <2>5, StaleGood
<1>. QED  BY <1>7, <1>8

LEMMA ValidStep ==
    ASSUME IInv, Gentle, NEW e, NEW ack \in BOOLEAN, NEW stall \in BOOLEAN,
           HistClock(e, ack, stall)
    PROVE  Valid'
<1>. DEFINE old(x, w) == /\ w \in cache_valid_bits[x]
                         /\ ~(loading /\ x = r.store_index /\ w = replace_way)
            new(x, w) == /\ loading /\ lineDone(ack, stall) /\ r.store_valid
                         /\ x = r.store_index /\ w = replace_way
<1>1. ASSUME NEW x \in Idx, NEW w \in cache_valid_bits'[x]
      PROVE  e.op # "inval" /\ (old(x, w) \/ new(x, w))
  <2>1. CASE ~loading
    <3>1. cache_valid_bits' = Invalidated(e.op = "inval")
      BY <2>1, IdleStep
    <3>2. e.op # "inval"
      BY <1>1, <3>1 DEF Invalidated
    <3>. QED  BY <1>1, <2>1, <3>1, <3>2 DEF Invalidated
  <2>2. CASE loading /\ ~lineDone(ack, stall)
    <3>1. /\ cache_valid_bits'[x] \subseteq cache_valid_bits[x]
          /\ replace_way \notin cache_valid_bits'[r.store_index]
          /\ e.op = "inval" => cache_valid_bits'[x] = {}
      BY <2>2, ArraysStep
    <3>. QED  BY <1>1, <3>1
  <2>3. CASE loading /\ lineDone(ack, stall)
    <3>1. /\ e.op # "inval"
          /\ cache_valid_bits'[x] =
                      IF x # r.store_index THEN cache_valid_bits[x]
                      ELSE IF r.store_valid THEN cache_valid_bits[x] \cup {replace_way}
                      ELSE cache_valid_bits[x] \ {replace_way}
      BY <2>3, ArraysStep
    <3>. QED  BY <1>1, <2>3, <3>1
  <2>. QED  BY <2>1, <2>2, <2>3
<1>2. ASSUME NEW x \in Idx, NEW w \in cache_valid_bits'[x], old(x, w)
      PROVE  /\ cache_tags'[x][w] = cache_tags[x][w]
             /\ \A row \in Row : Good(ram'[w][<<x, row>>], <<cache_tags[x][w], x>>, row, dirty')
  BY <1>1, <1>2, KeptStep
<1>3. ASSUME NEW x \in Idx, NEW w \in cache_valid_bits'[x], new(x, w)
      PROVE  /\ cache_tags'[x][w] = r.store_tag
             /\ \A row \in Row : Good(ram'[w][<<x, row>>], <<r.store_tag, x>>, row, dirty')
  <2>1. replace_way \in Way
    BY <1>3, RegsStep
  <2>2. cache_tags'[x][w] = r.store_tag
    BY <1>3, <2>1, ArraysStep
  <2>. QED  BY <1>3, <2>2, DoneStep DEF reloaded
<1>4. ASSUME NEW x \in Idx, NEW w \in cache_valid_bits'[x],
             NEW y \in cache_valid_bits'[x], y # w
      PROVE  cache_tags'[x][y] # cache_tags'[x][w]
  <2>1. old(x, w) /\ old(x, y) => cache_tags[x][y] # cache_tags[x][w]
    BY <1>4 DEF IInv, Valid
  <2>2. ASSUME NEW v \in {w, y}, old(x, v), loading, x = r.store_index
        PROVE  cache_tags[x][v] # r.store_tag
    BY <2>2 DEF IInv, Reload, loading
  <2>3. (old(x, w) \/ new(x, w)) /\ (old(x, y) \/ new(x, y))
    BY <1>1
  <2>4. CASE old(x, w) /\ old(x, y)
    BY <1>2, <2>1, <2>4
  <2>5. CASE old(x, w) /\ new(x, y)
    BY <1>2, <1>3, <2>2, <2>5
  <2>6. CASE new(x, w) /\ old(x, y)
    BY <1>2, <1>3, <2>2, <2>6
  <2>7. CASE new(x, w) /\ new(x, y)
    BY <1>4, <2>7
  <2>. QED  BY <2>3, <2>4, <2>5, <2>6, <2>7
<1>5. ASSUME NEW x \in Idx, NEW w \in cache_valid_bits'[x], NEW row \in Row
      PROVE  Good(ram'[w][<<x, row>>], <<cache_tags'[x][w], x>>, row, dirty')
  <2>1. CASE old(x, w)
    BY <1>2, <2>1
  <2>2. CASE new(x, w)
    BY <1>3, <2>2
  <2>. QED  BY <1>1, <2>1, <2>2
<1>. QED  BY <1>4, <1>5 DEF Valid, Good

-----------------------------------------------------------------------------
(* The reload: what is on its way, step by step.                           *)

\* A miss: all rows of the line are to come.
LEMMA MissStep ==
    ASSUME IInv, ~loading, NEW e, NEW ack \in BOOLEAN, NEW stall \in BOOLEAN,
           HistClock(e, ack, stall)
    PROVE  Reload'
<1>1. r.state = "IDLE" /\ ~r.stb /\ r.rows_valid = {}
  BY DEF IInv, Reload, loading
<1>2. accepted' = <<>> /\ cache_tags' = cache_tags
      /\ cache_valid_bits' = Invalidated(e.op = "inval")
  BY IdleStep
<1>3. late' = {}
  BY <1>1, Changed
<1>4. CASE r' = r
  BY <1>1, <1>2, <1>3, <1>4 DEF Reload
<1>5. ASSUME i_in.req, access_ok, ~is_hit, e.op # "flush",
             r' = [r EXCEPT !.store_index = req_index, !.store_row = i_in.nia.row,
                            !.store_tag = real_frame, !.store_valid = TRUE,
                            !.end_row_ix = (i_in.nia.row + Rows - 1) % Rows,
                            !.adr_row = i_in.nia.row, !.stb = TRUE,
                            !.state = "CLR_TAG"]
      PROVE  Reload'
  <2>. DEFINE row == i_in.nia.row
              end == (row + Rows - 1) % Rows
  <2>1. row \in Row /\ req_index \in Idx
    BY NiaFacts DEF IInv, Types, req_index
  <2>2. real_frame \in Frames
    BY <1>5, Translated DEF IInv
  <2>3. /\ r'.state = "CLR_TAG" /\ r'.store_index = req_index /\ r'.store_tag = real_frame
        /\ r'.stb /\ r'.rows_valid = {} /\ r'.store_row = row /\ r'.adr_row = row
        /\ r'.end_row_ix = end
    <3>1. r \in [state : {"IDLE", "CLR_TAG", "WAIT_ACK"}, stb : BOOLEAN,
              adr_row : Row, store_way : Way, store_index : Idx \cup {None},
              store_row : Row, store_tag : Frames \cup {None},
              store_valid : BOOLEAN, end_row_ix : Row, rows_valid : SUBSET Row]
      BY DEF IInv, Types
    <3>. QED  BY <1>1, <1>5, <3>1
  <2>4. ASSUME NEW w \in cache_valid_bits'[req_index]
        PROVE  cache_tags'[req_index][w] # real_frame
    <3>1. w \in cache_valid_bits[req_index]
      BY <1>2, <2>1, <2>4 DEF Invalidated
    <3>2. hits = {} /\ w \in Way
      BY <1>5, <2>1, <3>1 DEF is_hit, IInv, Types
    <3>. QED  BY <1>2, <3>1, <3>2 DEF hits
  <2>5. i_in'.nia.idx = req_index
    <3>1. Fetch1(e) /\ stall_out
      BY <1>5 DEF stall_out, HistClock, Clock
    <3>2. i_in' = [i_in EXCEPT !.sequential = FALSE]
      BY <1>5, <3>1 DEF Fetch1
    <3>3. i_in \in [req : BOOLEAN, nia : Nias(mode), sequential : BOOLEAN]
      BY DEF IInv, Types
    <3>. QED  BY <3>2, <3>3 DEF req_index
  <2>. HIDE DEF row, end
  <2>6. end \in Row /\ Dist(row, end) = Rows - 1
        /\ \A x \in Row : Dist(x, end) \in Row
    BY <2>1, RowFacts DEF end
  <2>7. /\ \A x \in Row : Dist(x, end) <= Dist(row, end)
        /\ Dist(row, end) + 1 = 0 + (Dist(row, end) + 1)
    BY <2>6, ICacheAssumption DEF Row
  <2>8. \A x : left(x)' = Dist(x, end)
    BY <2>3 DEF left
  <2>9. /\ r'.store_index \in Idx /\ r'.store_tag \in Frames
        /\ \A w \in cache_valid_bits'[r'.store_index] :
              cache_tags'[r'.store_index][w] # r'.store_tag
    BY <2>1, <2>2, <2>3, <2>4
  <2>10. Len(accepted') = 0
    BY <1>2
  <2>11. \A x \in Row \ r'.rows_valid : Dist(x, end) <= Dist(r'.store_row, end)
    BY <2>3, <2>7
  <2>12. Dist(r'.store_row, end) + 1 =
            Len(accepted') + (IF r'.stb THEN Dist(r'.adr_row, end) + 1 ELSE 0)
    BY <2>3, <2>7, <2>10
  <2>13. 1 .. Len(accepted') = {}
    BY <2>10
  <2>14. left(r.store_row)' = Dist(r'.store_row, end) /\ left(r.adr_row)' = Dist(r'.adr_row, end)
    BY <2>3 DEF left
  <2>. QED  BY <1>2, <1>3, <2>3, <2>5, <2>8, <2>9, <2>11, <2>12, <2>13, <2>14 DEF Reload
<1>. QED  BY <1>4, <1>5, IdleStep

\* The last row: nothing is left on its way.
LEMMA LastStep ==
    ASSUME IInv, loading, NEW e, NEW ack \in BOOLEAN, NEW stall \in BOOLEAN,
           HistClock(e, ack, stall), lineDone(ack, stall)
    PROVE  Reload'
<1>1. r'.state = "IDLE" /\ ~r'.stb /\ r'.rows_valid = {}
  BY RegsStep
<1>2. late' = {}
  BY <1>1, Changed
<1>3. accepted' = <<>>
  <2>1. ack /\ left(r.store_row) = 0 /\ (r.stb => ~stall)
    BY LeftFacts, RegTypes DEF lineDone, lastStb, IInv
  <2>2. 1 = Len(accepted) + (IF r.stb THEN left(r.adr_row) + 1 ELSE 0)
    BY <2>1 DEF IInv, Reload, loading
  <2>3. Len(accepted) \in Nat /\ left(r.adr_row) \in Nat
    BY LeftFacts, RegTypes DEF IInv
  <2>4. Len(sent(stall)) = IF r.stb /\ ~stall THEN Len(accepted) + 1 ELSE Len(accepted)
    BY SentFacts DEF IInv
  <2>5. Len(sent(stall)) = 1
    BY <2>1, <2>2, <2>3, <2>4
  <2>6. accepted' \in Seq(Cells) /\ Len(accepted') = Len(sent(stall)) - Count(ack)
    BY AcceptedStep DEF IInv, HistClock, Clock
  <2>. QED  BY <2>1, <2>5, <2>6 DEF Count
<1>. QED  BY <1>1, <1>2, <1>3 DEF Reload

\* While rows are to come, the end row does not arrive.
LEMMA NotLast ==
    ASSUME IInv, loading, NEW e, NEW ack \in BOOLEAN, NEW stall \in BOOLEAN,
           HistClock(e, ack, stall), ~lineDone(ack, stall), ack
    PROVE  r.store_row # r.end_row_ix
<1>. SUFFICES ASSUME r.store_row = r.end_row_ix
              PROVE  FALSE
  OBVIOUS
<1>1. r.stb /\ ~lastStb(stall) /\ left(r.store_row) = 0
  BY LeftFacts, RegTypes DEF lineDone, IInv
<1>2. 1 = Len(accepted) + (left(r.adr_row) + 1)
  BY <1>1 DEF IInv, Reload, loading
<1>3. Len(accepted) \in Nat /\ left(r.adr_row) \in Nat
  BY LeftFacts, RegTypes DEF IInv
<1>4. Len(accepted) = 0 /\ left(r.adr_row) = 0
  BY <1>2, <1>3
<1>5. r.adr_row = r.end_row_ix
  BY <1>4, LeftFacts, RegTypes DEF IInv
<1>6. stall
  BY <1>1, <1>5 DEF lastStb
<1>7. accepted = <<>>
  BY <1>4, RegTypes DEF IInv
<1>. QED  BY <1>6, <1>7 DEF HistClock, Clock, Wishbone, sent

\* What is left, and how many reads are on their way or still to be sent.
LEMMA CountStep ==
    ASSUME IInv, loading, NEW e, NEW ack \in BOOLEAN, NEW stall \in BOOLEAN,
           HistClock(e, ack, stall), ~lineDone(ack, stall)
    PROVE  /\ left(r'.store_row) = left(r.store_row) - Count(ack)
           /\ \A x \in Row \ r'.rows_valid : left(x) <= left(r'.store_row)
           /\ left(r'.store_row) + 1 =
                 Len(accepted') + (IF r'.stb THEN left(r'.adr_row) + 1 ELSE 0)
<1>1. /\ r'.stb <=> r.stb /\ ~lastStb(stall)
      /\ r'.adr_row = IF ~stall /\ r.stb THEN Up(r.adr_row) ELSE r.adr_row
      /\ r'.store_row = IF ack THEN Up(r.store_row) ELSE r.store_row
      /\ r'.rows_valid = IF ack THEN r.rows_valid \cup {r.store_row} ELSE r.rows_valid
  BY RegsStep
<1>2. /\ r.store_row \in Row /\ r.adr_row \in Row
      /\ left(r.store_row) \in Nat /\ left(r.adr_row) \in Nat
  BY LeftFacts, RegTypes DEF IInv
<1>3. left(r'.store_row) = left(r.store_row) - Count(ack)
  <2>1. CASE ack
    BY <1>1, <1>2, <2>1, NotLast, LeftFacts DEF Count, IInv
  <2>2. CASE ~ack
    BY <1>1, <1>2, <2>2 DEF Count
  <2>. QED  BY <2>1, <2>2
<1>4. ASSUME NEW x \in Row \ r'.rows_valid
      PROVE  left(x) <= left(r'.store_row)
  <2>1. x \notin r.rows_valid /\ (ack => x # r.store_row)
    BY <1>1, <1>4
  <2>2. left(x) <= left(r.store_row)
    BY <2>1 DEF IInv, Reload, loading
  <2>3. left(x) \in Nat /\ (left(x) = left(r.store_row) => x = r.store_row)
    BY <1>2, LeftFacts DEF IInv
  <2>. QED  BY <1>2, <1>3, <2>1, <2>2, <2>3 DEF Count
<1>5. left(r.store_row) + 1 = Len(accepted) + (IF r.stb THEN left(r.adr_row) + 1 ELSE 0)
  BY DEF IInv, Reload, loading
<1>6. Len(sent(stall)) = (IF r.stb /\ ~stall THEN Len(accepted) + 1 ELSE Len(accepted))
  BY SentFacts DEF IInv
<1>7. Len(accepted') = Len(sent(stall)) - Count(ack) /\ Len(accepted) \in Nat
  <2>1. Wishbone(e, ack, stall)
    BY DEF HistClock, Clock
  <2>. QED  BY <2>1, AcceptedStep, RegTypes DEF IInv
<1>8. left(r.store_row) + 1 = Len(sent(stall)) + (IF r'.stb THEN left(r'.adr_row) + 1 ELSE 0)
  <2>1. CASE ~r.stb \/ stall
    BY <1>1, <1>2, <1>5, <1>6, <1>7, <2>1 DEF lastStb
  <2>2. CASE r.stb /\ ~stall /\ r.adr_row = r.end_row_ix
    <3>1. left(r.adr_row) = 0
      BY <1>2, <2>2, LeftFacts DEF IInv
    <3>. QED  BY <1>1, <1>2, <1>5, <1>6, <1>7, <2>2, <3>1 DEF lastStb
  <2>3. CASE r.stb /\ ~stall /\ r.adr_row # r.end_row_ix
    <3>1. left(r'.adr_row) = left(r.adr_row) - 1
      BY <1>1, <1>2, <2>3, LeftFacts DEF IInv
    <3>. QED  BY <1>1, <1>2, <1>5, <1>6, <1>7, <2>3, <3>1 DEF lastStb
  <2>. QED  BY <2>1, <2>2, <2>3
<1>9. left(r'.store_row) + 1 = Len(accepted') + (IF r'.stb THEN left(r'.adr_row) + 1 ELSE 0)
  <2>. DEFINE q == IF r'.stb THEN left(r'.adr_row) + 1 ELSE 0
              a == left(r.store_row)
              b == Len(sent(stall))
              c == Count(ack)
  <2>1. Count(ack) \in Nat /\ Len(sent(stall)) \in Nat
    BY <1>6, <1>7 DEF Count
  <2>2. q \in Int
    <3>1. r'.adr_row \in Row
      BY <1>1, <1>2, RowFacts
    <3>2. left(r'.adr_row) \in Nat
      BY <3>1, LeftFacts DEF IInv
    <3>. QED  BY <3>2
  <2>3. /\ a + 1 = b + q /\ left(r'.store_row) = a - c /\ Len(accepted') = b - c
        /\ a \in Int /\ b \in Int /\ c \in Int /\ q \in Int
    BY <1>2, <1>3, <1>7, <1>8, <2>1, <2>2
  <2>. HIDE DEF a, b, c, q
  <2>4. (a - c) + 1 = (b - c) + q
    BY <2>3
  <2>5. left(r'.store_row) + 1 = Len(accepted') + q
    BY <2>3, <2>4
  <2>. QED  BY <2>5 DEF q
<1>. QED  BY <1>3, <1>4, <1>9

\* Rows that come, or are on their way, are rows of the line.
LEMMA RowsStep ==
    ASSUME IInv, Gentle, loading, NEW e, NEW ack \in BOOLEAN, NEW stall \in BOOLEAN,
           HistClock(e, ack, stall), ~lineDone(ack, stall)
    PROVE  /\ \A k \in 1 .. Len(accepted') :
                /\ Good(accepted'[k], reloaded, accepted'[k].row, dirty' \cup late')
                /\ left(accepted'[k].row) = left(r'.store_row) - (k - 1)
           /\ \A x \in r'.rows_valid :
                Good(ram'[replace_way][<<r.store_index, x>>], reloaded, x, dirty' \cup late')
<1>1. /\ r'.state = "WAIT_ACK" /\ r'.store_way = replace_way
      /\ r'.store_index = r.store_index /\ replace_way \in Way
      /\ r'.rows_valid = IF ack THEN r.rows_valid \cup {r.store_row} ELSE r.rows_valid
  BY RegsStep
<1>2. r.state # "IDLE" /\ r.store_index \in Idx
  BY DEF loading, IInv, Reload
<1>3. /\ reloaded \in dirty \cup late => reloaded \in dirty' \cup late'
      /\ e.op = "write" /\ e.line = reloaded => reloaded \in dirty' \cup late'
  BY <1>1, <1>2, Changed
<1>4. Wishbone(e, ack, stall)
  BY DEF HistClock, Clock
<1>5. ASSUME NEW k \in 1 .. Len(accepted')
      PROVE  /\ Good(accepted'[k], reloaded, accepted'[k].row, dirty' \cup late')
             /\ left(accepted'[k].row) = left(r'.store_row) - (k - 1)
  <2>. DEFINE j == k + Count(ack)
              c == sent(stall)[j]
  <2>1. /\ Len(accepted') = Len(sent(stall)) - Count(ack)
        /\ accepted'[k] = Stale(c, e)
    BY <1>4, AcceptedStep DEF IInv
  <2>2. sent(stall) \in Seq(Cells)
    BY SentFacts DEF IInv
  <2>3. j \in 1 .. Len(sent(stall)) /\ j - 1 = k - 1 + Count(ack) /\ Count(ack) \in {0, 1}
        /\ k \in Nat
    BY <2>1, <2>2 DEF Count
  <2>4. /\ Good(c, reloaded, c.row, dirty \cup late)
        /\ left(c.row) = left(r.store_row) - (j - 1)
    BY <2>3, SentFacts DEF IInv
  <2>. HIDE DEF c, j
  <2>5. Good(Stale(c, e), reloaded, c.row, dirty' \cup late')
    BY <1>3, <2>4, StaleGood
  <2>6. accepted'[k].row = c.row
    BY <2>1, <2>5 DEF Good
  <2>7. left(r.store_row) \in Nat /\ left(r'.store_row) = left(r.store_row) - Count(ack)
    BY CountStep, LeftFacts, RegTypes DEF IInv
  <2>. QED  BY <2>1, <2>3, <2>4, <2>5, <2>6, <2>7
<1>6. ASSUME NEW x \in r'.rows_valid
      PROVE  Good(ram'[replace_way][<<r.store_index, x>>], reloaded, x, dirty' \cup late')
  <2>. DEFINE comes == ack /\ x = r.store_row
  <2>1. ~forget(replace_way, r.store_index)
    BY <1>1 DEF forget
  <2>2. x \in Row /\ (~comes => x \in r.rows_valid)
    BY <1>1, <1>6, RegTypes DEF IInv
  <2>3. ram'[replace_way][<<r.store_index, x>>] =
            Stale(IF ack /\ replace_way = replace_way /\ r.store_index = r.store_index
                       /\ x = r.store_row
                  THEN Head(sent(stall)) ELSE ram[replace_way][<<r.store_index, x>>], e)
    <3>. HIDE DEF comes
    <3>1. /\ replace_way \in Way /\ r.store_index \in Idx /\ x \in Row
          /\ ~forget(replace_way, r.store_index)
      BY <1>1, <1>2, <2>1, <2>2
    <3>. QED  BY <3>1, RamStep
  <2>4. CASE comes
    <3>1. Good(Head(sent(stall)), reloaded, x, dirty \cup late)
      BY <1>4, <2>4, Arrives DEF IInv
    <3>2. ram'[replace_way][<<r.store_index, x>>] = Stale(Head(sent(stall)), e)
      BY <2>3, <2>4
    <3>. QED  BY <1>3, <3>1, <3>2, StaleGood
  <2>5. CASE ~comes
    <3>1. r.state = "WAIT_ACK" /\ replace_way = r.store_way
      <4>1. r.state = "WAIT_ACK"
        BY <1>2, <2>2, <2>5, RegTypes DEF IInv, Reload
      <4>. QED  BY <4>1 DEF replace_way
    <3>2. Good(ram[replace_way][<<r.store_index, x>>], reloaded, x, dirty \cup late)
      BY <2>2, <2>5, <3>1 DEF IInv, Reload
    <3>3. ram'[replace_way][<<r.store_index, x>>] =
             Stale(ram[replace_way][<<r.store_index, x>>], e)
      BY <2>3, <2>5
    <3>. QED  BY <1>3, <3>2, <3>3, StaleGood
  <2>. QED  BY <2>4, <2>5
<1>. QED  BY <1>5, <1>6

\* The way under reload stays apart from the valid ones.
LEMMA ApartStep ==
    ASSUME IInv, Gentle, loading, NEW e, NEW ack \in BOOLEAN, NEW stall \in BOOLEAN,
           HistClock(e, ack, stall), ~lineDone(ack, stall)
    PROVE  /\ \A w \in cache_valid_bits'[r.store_index] :
                 cache_tags'[r.store_index][w] # r.store_tag
           /\ replace_way \notin cache_valid_bits'[r.store_index]
           /\ cache_tags'[r.store_index][replace_way] = r.store_tag
<1>1. r.store_index \in Idx /\ \A w \in cache_valid_bits[r.store_index] :
                                  cache_tags[r.store_index][w] # r.store_tag
  BY DEF loading, IInv, Reload
<1>2. replace_way \in Way
  BY RegsStep
<1>3. /\ \A x \in Idx : cache_valid_bits'[x] \subseteq cache_valid_bits[x]
      /\ replace_way \notin cache_valid_bits'[r.store_index]
  BY ArraysStep
<1>4. ASSUME NEW w \in Way
      PROVE  cache_tags'[r.store_index][w] =
                IF r.store_index = r.store_index /\ w = replace_way
                THEN r.store_tag ELSE cache_tags[r.store_index][w]
  BY <1>1, ArraysStep
<1>5. cache_valid_bits[r.store_index] \subseteq Way
  BY <1>1 DEF IInv, Types
<1>. QED  BY <1>1, <1>2, <1>3, <1>4, <1>5

LEMMA ReloadStep ==
    ASSUME IInv, Gentle, NEW e, NEW ack \in BOOLEAN, NEW stall \in BOOLEAN,
           HistClock(e, ack, stall)
    PROVE  Reload'
<1>1. CASE ~loading
  BY <1>1, MissStep
<1>2. CASE loading /\ lineDone(ack, stall)
  BY <1>2, LastStep
<1>3. CASE loading /\ ~lineDone(ack, stall)
  <2>1. /\ r'.state = "WAIT_ACK" /\ r'.store_way = replace_way
        /\ r'.store_index = r.store_index /\ r'.store_tag = r.store_tag
        /\ r'.end_row_ix = r.end_row_ix
        /\ r'.store_valid => r.store_valid /\ e.op # "inval"
    BY <1>3, RegsStep
  <2>2. /\ r.store_index \in Idx /\ r.store_tag \in Frames /\ (r.store_valid => late = {})
        /\ r.state # "IDLE"
    BY <1>3 DEF loading, IInv, Reload
  <2>3. r'.store_valid => late' = {}
    BY <2>1, <2>2, Changed
  <2>4. /\ \A x : left(x)' = left(x)
        /\ left(r.store_row)' = left(r'.store_row) /\ left(r.adr_row)' = left(r'.adr_row)
        /\ reloaded' = reloaded
    BY <2>1 DEF left, reloaded
  <2>5. /\ \A x \in Row \ r'.rows_valid : left(x)' <= left(r.store_row)'
        /\ left(r.store_row)' + 1 =
              Len(accepted') + (IF r'.stb THEN left(r.adr_row)' + 1 ELSE 0)
    BY <1>3, <2>4, CountStep
  <2>6. \A k \in 1 .. Len(accepted') :
           /\ Good(accepted'[k], reloaded, accepted'[k].row, dirty' \cup late')
           /\ left(accepted'[k].row) = left(r'.store_row) - (k - 1)
    BY <1>3, RowsStep
  <2>7. \A k \in 1 .. Len(accepted') :
           /\ Good(accepted'[k], reloaded', accepted'[k].row, dirty' \cup late')
           /\ left(accepted[k].row)' = left(r.store_row)' - (k - 1)
    <3>1. ASSUME NEW k \in 1 .. Len(accepted')
          PROVE  left(accepted[k].row)' = left(accepted'[k].row)
      BY <2>1 DEF left
    <3>. QED  BY <2>4, <2>6, <3>1
  <2>8. \A x \in r'.rows_valid :
           Good(ram'[r'.store_way][<<r'.store_index, x>>], reloaded', x, dirty' \cup late')
    BY <1>3, <2>1, <2>4, RowsStep
  <2>9. /\ \A w \in cache_valid_bits'[r'.store_index] :
              cache_tags'[r'.store_index][w] # r'.store_tag
        /\ r'.store_way \notin cache_valid_bits'[r'.store_index]
        /\ cache_tags'[r'.store_index][r'.store_way] = r'.store_tag
    BY <1>3, <2>1, ApartStep
  <2>. QED  BY <2>1, <2>2, <2>3, <2>5, <2>7, <2>8, <2>9 DEF Reload, Good
<1>. QED  BY <1>1, <1>2, <1>3

LEMMA TypesStep ==
    ASSUME IInv, Gentle, NEW e \in Events(mode), NEW ack \in BOOLEAN, NEW stall \in BOOLEAN,
           HistClock(e, ack, stall)
    PROVE  Types'
<1>1. mode' = mode /\ mode \in Modes
  BY FetchStep DEF IInv, Types
<1>2. i_in' \in [req : BOOLEAN, nia : Nias(mode), sequential : BOOLEAN]
  BY FetchStep
<1>3. hit' \in [valid : BOOLEAN, way : Way, nia : Nias(mode)]
  BY HitStep
<1>4. itlb' \in [0 .. 1 -> Entry \cup {None}] /\ pagetable' \in [Pages -> Pte]
  BY TlbStep DEF IInv
<1>5. /\ cache_tags' \in [Idx -> [Way -> Frames \cup {None}]]
      /\ cache_valid_bits' \in [Idx -> SUBSET Way]
  <2>1. CASE loading
    BY <2>1, ArraysStep
  <2>2. CASE ~loading
    <3>1. cache_tags' = cache_tags /\ cache_valid_bits' = Invalidated(e.op = "inval")
      BY <2>2, IdleStep
    <3>. QED  BY <3>1 DEF Invalidated, IInv, Types
  <2>. QED  BY <2>1, <2>2
<1>6. ram' \in [Way -> [Idx \X Row -> Cells \cup {None}]]
  BY RamStep
<1>7. plru_victim' \in [Idx -> Way]
  BY PlruStep DEF IInv
<1>8. accepted' \in Seq(Cells)
  <2>1. CASE loading
    BY <2>1, AcceptedStep DEF IInv, HistClock, Clock
  <2>2. CASE ~loading
    <3>1. accepted' = <<>>
      BY <2>2, IdleStep
    <3>. QED  BY <3>1
  <2>. QED  BY <2>1, <2>2
<1>9. r' \in [state : {"IDLE", "CLR_TAG", "WAIT_ACK"}, stb : BOOLEAN,
              adr_row : Row, store_way : Way, store_index : Idx \cup {None},
              store_row : Row, store_tag : Frames \cup {None},
              store_valid : BOOLEAN, end_row_ix : Row, rows_valid : SUBSET Row]
  <2>1. CASE loading
    BY <2>1, RegsStep
  <2>2. ASSUME ~loading, access_ok,
               r' = [r EXCEPT !.store_index = req_index, !.store_row = i_in.nia.row,
                              !.store_tag = real_frame, !.store_valid = TRUE,
                              !.end_row_ix = (i_in.nia.row + Rows - 1) % Rows,
                              !.adr_row = i_in.nia.row, !.stb = TRUE,
                              !.state = "CLR_TAG"]
        PROVE  r' \in [state : {"IDLE", "CLR_TAG", "WAIT_ACK"}, stb : BOOLEAN,
                       adr_row : Row, store_way : Way, store_index : Idx \cup {None},
                       store_row : Row, store_tag : Frames \cup {None},
                       store_valid : BOOLEAN, end_row_ix : Row, rows_valid : SUBSET Row]
    <3>1. req_index \in Idx /\ i_in.nia.row \in Row
      BY <1>1, NiaFacts DEF IInv, Types, req_index
    <3>2. (i_in.nia.row + Rows - 1) % Rows \in Row
      BY <3>1, RowFacts
    <3>3. real_frame \in Frames
      BY <2>2, Translated DEF IInv
    <3>4. r \in [state : {"IDLE", "CLR_TAG", "WAIT_ACK"}, stb : BOOLEAN,
              adr_row : Row, store_way : Way, store_index : Idx \cup {None},
              store_row : Row, store_tag : Frames \cup {None},
              store_valid : BOOLEAN, end_row_ix : Row, rows_valid : SUBSET Row]
      BY DEF IInv, Types
    <3>. QED  BY <2>2, <3>1, <3>2, <3>3, <3>4
  <2>3. CASE ~loading /\ r' = r
    BY <2>3 DEF IInv, Types
  <2>. QED  BY <2>1, <2>2, <2>3, IdleStep
<1>. QED  BY <1>1, <1>2, <1>3, <1>4, <1>5, <1>6, <1>7, <1>8, <1>9 DEF Types

-----------------------------------------------------------------------------
(* The theorems.                                                           *)

LEMMA InitIInv == HistInit => IInv
<1>. SUFFICES ASSUME HistInit PROVE IInv
  OBVIOUS
<1>. USE DEF HistInit, Init
<1>1. (CHOOSE n \in Nias(mode) : TRUE) \in Nias(mode)
  BY NiaFacts
<1>2. 0 \in Way /\ 0 \in Row
  BY ICacheAssumption DEF Way, Row
<1>3. \A p \in Pages : (CHOOSE t \in Ptes(p) : TRUE) \in Pte
  BY ICacheAssumption
<1>4. Types
  <2>1. mode \in Modes /\ accepted \in Seq(Cells)
    OBVIOUS
  <2>2. i_in \in [req : BOOLEAN, nia : Nias(mode), sequential : BOOLEAN]
    BY <1>1 DEF NoFetch
  <2>3. hit \in [valid : BOOLEAN, way : Way, nia : Nias(mode)]
    BY <1>1, <1>2 DEF NoHit
  <2>4. itlb \in [0 .. 1 -> Entry \cup {None}] /\ pagetable \in [Pages -> Pte]
    BY <1>3
  <2>5. /\ cache_tags \in [Idx -> [Way -> Frames \cup {None}]]
        /\ cache_valid_bits \in [Idx -> SUBSET Way]
        /\ ram \in [Way -> [Idx \X Row -> Cells \cup {None}]]
        /\ plru_victim \in [Idx -> Way]
    BY <1>2
  <2>6. r \in [state : {"IDLE", "CLR_TAG", "WAIT_ACK"}, stb : BOOLEAN,
              adr_row : Row, store_way : Way, store_index : Idx \cup {None},
              store_row : Row, store_tag : Frames \cup {None},
              store_valid : BOOLEAN, end_row_ix : Row, rows_valid : SUBSET Row]
    BY <1>2 DEF NoReload
  <2>. HIDE DEF HistInit, Init
  <2>. QED  BY <2>1, <2>2, <2>3, <2>4, <2>5, <2>6 DEF Types
<1>5. Valid
  BY DEF Valid
<1>6. Reload
  BY DEF Reload, NoReload
<1>7. Tlb
  BY PageFacts DEF Tlb
<1>8. Decode
  BY DEF Decode, NoHit, NoFetch
<1>. QED  BY <1>4, <1>5, <1>6, <1>7, <1>8 DEF IInv

LEMMA StepIInv == Gentle /\ IInv /\ [HistNext]_hvars => IInv'
<1>. SUFFICES ASSUME Gentle, IInv, [HistNext]_hvars PROVE IInv'
  OBVIOUS
<1>1. ASSUME NEW e \in Events(mode), NEW ack \in BOOLEAN, NEW stall \in BOOLEAN,
             HistClock(e, ack, stall)
      PROVE  IInv'
  <2>1. Types' /\ Valid' /\ Reload' /\ Tlb'
    BY <1>1, TypesStep, ValidStep, ReloadStep, TlbStep DEF IInv
  <2>2. Decode'
    BY <1>1, HitStep, FetchStep DEF Decode
  <2>. QED  BY <2>1, <2>2 DEF IInv
<1>2. CASE UNCHANGED hvars
  <2>. USE <1>2 DEF hvars, vars, IInv
  <2>1. Types'
    BY DEF Types
  <2>2. Valid'
    BY DEF Valid
  <2>3. Reload'
    BY DEF Reload, left, reloaded
  <2>4. Tlb'
    BY DEF Tlb
  <2>5. Decode'
    BY DEF Decode
  <2>. QED  BY <2>1, <2>2, <2>3, <2>4, <2>5
<1>. QED  BY <1>1, <1>2 DEF HistNext

\* In an I-cache that is not invalidated in the very clock in which its reload
\* writes valid bits, the invariant holds always.
THEOREM IInvAlways ==
    ASSUME Gentle
    PROVE  HistSpec => []IInv
<1>1. HistInit => IInv
  BY InitIInv
<1>2. IInv /\ [HistNext]_hvars => IInv'
  BY StepIInv
<1>. QED  BY <1>1, <1>2, PTL DEF HistSpec

\* What a fetch hits is the row of memory it asked for, with the translation of
\* the page tables, and decode gets the row of its address (icache_comb,
\* itlb_lookup, icache_miss), for any size of the cache, memory and tables.
THEOREM FetchedAlways ==
    ASSUME Gentle
    PROVE  HistSpec => []Fetched
BY IInvAlways, InvFetched, PTL
=============================================================================
