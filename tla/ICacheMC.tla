------------------------------ MODULE ICacheMC ------------------------------
(* What ICache must satisfy, and small instances of it. *)
EXTENDS ICache

\* History: pages and lines that have changed and have not been invalidated
\* since; lines whose invalidation met their reload; whether nothing but
\* fetches happens from now on (in a virtual mode).
VARIABLES pdirty, dirty, late, calm
hvars == <<vars, pdirty, dirty, late, calm>>

HistClock(e, ack, stall) ==
    /\ calm => e.op = "none"
    /\ e.op = "write" => e.line \notin dirty
    /\ e.op = "map" => e.page \notin pdirty /\ e.pte # pagetable[e.page]
    /\ Clock(e, ack, stall)
    /\ pdirty' = CASE e.op = "map" -> pdirty \cup {e.page}
                   [] e.op = "tlbie_all" -> {}
                   [] e.op \in {"tlbie", "tlbld"} -> pdirty \ {e.page}
                   [] OTHER -> pdirty
    /\ dirty' = CASE e.op = "write" -> dirty \cup {e.line}
                  [] e.op = "inval" -> {}
                  [] OTHER -> dirty
    /\ late' = IF r.state = "IDLE" \/ r'.state = "IDLE" THEN {}
               ELSE IF e.op = "inval"
               THEN (late \cup dirty) \cap {<<r.store_tag, r.store_index>>}
               ELSE late
    /\ calm' \in IF e.op = "none" /\ mode.virt THEN {calm, TRUE} ELSE {FALSE}

HistNext == \E e \in Events(mode), ack, stall \in BOOLEAN : HistClock(e, ack, stall)

HistInit == Init /\ pdirty = {} /\ dirty = {} /\ late = {} /\ calm = FALSE
HistSpec == HistInit /\ [][HistNext]_hvars

\* The clock ticks; memory accepts, and answers what it has accepted.
Tick(ack) == calm /\ HistClock([op |-> "none"], ack, FALSE)
FairSpec == /\ HistSpec /\ WF_hvars(Tick(TRUE) \/ Tick(FALSE)) /\ WF_hvars(Tick(TRUE))

Line == Frames \X Idx
TypeOK ==
    /\ mode \in Modes /\ i_in.nia \in Nias(mode)
    /\ \A x \in Idx : cache_tags[x] \in [Way -> Frames \cup {None}]
    /\ cache_valid_bits \in [Idx -> SUBSET Way] /\ plru_victim \in [Idx -> Way]
    /\ hit.nia \in Nias(mode) /\ hit.way \in Way /\ r.store_way \in Way
    /\ r.state \in {"IDLE", "CLR_TAG", "WAIT_ACK"}
    /\ {r.store_row, r.adr_row, r.end_row_ix} \subseteq Row /\ r.rows_valid \subseteq Row
    /\ r.stb => r.state # "IDLE"
    /\ Len(accepted) <= Rows /\ (r.state = "IDLE" => accepted = <<>>)

\* What a fetch hits is the row of memory it asked for, with the translation
\* of the page tables, the rows of a line under reload included; unless table
\* or memory has changed and not been invalidated (icache_comb, itlb_lookup).
\* Decode gets the row of its address, also when the row of the previous fetch
\* is used again (use_previous).  No fetch hits two ways ("Add multi-hit error
\* detection", the TODO at the head of the source).
Fetched ==
    /\ Cardinality(hits) <= 1
    /\ is_hit /\ access_ok =>
        LET c == ram[req_hit_way][<<req_index, i_in.nia.row>>]
            p == i_in.nia.page IN
        /\ c # None
        /\ \/ mode.virt /\ p \in pdirty
           \/ c.line = <<IF mode.virt THEN pagetable[p].frame ELSE p, req_index>>
        /\ c.row = i_in.nia.row
        /\ c.stale => c.line \in dirty \cup late
    /\ hit.valid => /\ rd_data.row = hit.nia.row
                      /\ rd_data.line[2] = hit.nia.idx

\* A fetch with access is delivered, once the pipeline is left alone.
Fetches == calm /\ i_in.req /\ access_ok ~> hit.valid

-----------------------------------------------------------------------------
Nia(page, idx, row, word) == [page |-> page, idx |-> idx, row |-> row, word |-> word]

MCModes == {[virt |-> FALSE, priv |-> TRUE], [virt |-> TRUE, priv |-> FALSE]}

\* Two pages of one TLB index, of different tags; the first may move.
P0 == <<0, 0, 0>>
P3 == <<1, 1, 0>>
MCPages == {P0, P3}
MCNias(m) == IF m.virt
             THEN {Nia(P0, 0, 0, 0), Nia(P0, 0, 0, 1), Nia(P3, 1, 1, 0)}
             ELSE {Nia(f, 0, 0, 0) : f \in Frames}
MCPtes(p) == [frame : IF p = P0 THEN {"A", "B"} ELSE {"B"}, priv : {FALSE}]
Ops(S) == {[op |-> x] : x \in S}
MCEvents(m) ==
    IF m.virt
    THEN Ops({"none", "flush", "stall", "tlbie_all"})
         \cup {[op |-> "tlbie", page |-> P0]} \cup {[op |-> "tlbld", page |-> p] : p \in MCPages}
         \cup {[op |-> "map", page |-> P0, pte |-> t] : t \in MCPtes(P0)}
    ELSE Ops({"none", "flush", "inval"}) \cup {[op |-> "write", line |-> <<"A", 0>>]}
=============================================================================
