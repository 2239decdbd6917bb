------------------------------- MODULE ICache -------------------------------
(***************************************************************************)
(* The instruction cache (src/soc/experiment/icache.py): instruction TLB,  *)
(* lookup and reload, between a fetch unit, the MMU and a pipelined        *)
(* wishbone memory.                                                        *)
(*                                                                         *)
(* One step is one clock.  An address is a page (in real mode, a frame),   *)
(* the index of the line and the row in it, and the word in the row.  What *)
(* a row holds is the name of what was read, [line, row], and whether      *)
(* memory has changed since.  Registers that nothing reads until they are  *)
(* written again have a fixed value, for fewer states.                     *)
(***************************************************************************)
EXTENDS Naturals, FiniteSets, FiniteSetsExt, Sequences, SequencesExt

CONSTANTS Modes,        \* [virt, priv]: address translation, privilege
          Nias(_),      \* addresses fetched in a mode
          Pages,        \* bits of the pages that are fetched, low bit first
          Ptes(_),      \* translations a page may have: [frame, priv]
          Events(_),    \* what else happens in a mode, see Event
          Frames, Idx,  \* frames (tags of lines); indices of sets
          Rows, Words,  \* ROW_PER_LINE, INSN_PER_ROW
          Ways,         \* NUM_WAYS
          Gentle,       \* TRUE: what follows never happens
          None

\* Fetch is redirected, decode stalls, the cache is invalidated; memory is
\* written; the MMU loads or drops translations, or a table changes.
Event == [op : {"none", "flush", "stall", "inval", "tlbie_all"}]
         \cup [op : {"write"}, line : Frames \X Idx]
         \cup [op : {"tlbld", "tlbie"}, page : Pages]
         \cup UNION {[op : {"map"}, page : {p}, pte : Ptes(p)] : p \in Pages}

Way == 0 .. Ways - 1
Row == 0 .. Rows - 1
Pte == [frame : Frames, priv : BOOLEAN]
\* What is in a row, and what is in the TLB (the tag is two bits of a page).
Cells == [line : Frames \X Idx, row : Row, stale : BOOLEAN]
Entry == [tag : (0 .. 1) \X (0 .. 1), pte : Pte]

ASSUME ICacheAssumption ==
    /\ Rows \in Nat \ {0} /\ Words \in Nat \ {0}
    /\ Ways \in Nat \ {0, 1} /\ Gentle \in BOOLEAN
    /\ Modes \subseteq [virt : BOOLEAN, priv : BOOLEAN]
    /\ Pages \subseteq (0 .. 1) \X (0 .. 1) \X (0 .. 1)
    /\ None \notin Cells /\ None \notin Entry
    /\ \A p \in Pages : Ptes(p) # {} /\ Ptes(p) \subseteq Pte
    /\ \A m \in Modes :
         /\ Events(m) \subseteq Event
         /\ Nias(m) # {}
         /\ Nias(m) \subseteq [page : IF m.virt THEN Pages ELSE Frames,
                              idx : Idx, row : Row, word : 0 .. Words - 1]

VARIABLES
    mode, i_in,                   \* what fetch asks for
    itlb, pagetable,              \* the TLB; what the MMU would load
    cache_tags, cache_valid_bits, ram, plru_victim,
    rd_data,                      \* the row that the hit way read
    hit, fetch_failed,            \* what goes to decode
    r,                            \* the reload's registers
    accepted                      \* reads that memory has not answered yet

vars == <<mode, i_in, itlb, pagetable, cache_tags, cache_valid_bits, ram,
          plru_victim, rd_data, hit, fetch_failed, r, accepted>>

Cell(line, row) == [line |-> line, row |-> row, stale |-> FALSE]

NoReload == [state |-> "IDLE", stb |-> FALSE, adr_row |-> 0, store_way |-> 0,
             store_index |-> None, store_row |-> 0, store_tag |-> None,
             store_valid |-> FALSE, end_row_ix |-> 0, rows_valid |-> {}]
NoHit(m) == [valid |-> FALSE, way |-> 0, nia |-> CHOOSE n \in Nias(m) : TRUE]
NoFetch(m) == [req |-> FALSE, nia |-> CHOOSE n \in Nias(m) : TRUE, sequential |-> FALSE]

Init ==
    /\ mode \in Modes
    /\ i_in = NoFetch(mode)
    /\ itlb = [x \in 0 .. 1 |-> None]
    /\ pagetable = [p \in Pages |-> CHOOSE e \in Ptes(p) : TRUE]
    /\ cache_tags = [x \in Idx |-> [w \in Way |-> None]]
    /\ cache_valid_bits = [x \in Idx |-> {}]
    /\ ram = [w \in Way |-> [x \in Idx \X Row |-> None]]
    /\ plru_victim = [x \in Idx |-> 0]
    /\ rd_data = None /\ accepted = <<>>
    /\ hit = NoHit(mode) /\ fetch_failed = FALSE /\ r = NoReload

-----------------------------------------------------------------------------
(* The TLB, direct mapped: its index is the exclusive or of three fields   *)
(* of the page's number, here of one bit, its tag the upper two.           *)

hash_ea(page) == (page[1] + page[2] + page[3]) % 2
ttag(page) == <<page[2], page[3]>>

entry == itlb[hash_ea(i_in.nia.page)]
ra_valid == ~mode.virt \/ (entry # None /\ entry.tag = ttag(i_in.nia.page))
real_frame == IF mode.virt THEN IF entry = None THEN None ELSE entry.pte.frame
              ELSE i_in.nia.page
priv_fault == (mode.virt /\ entry # None => entry.pte.priv) /\ ~mode.priv
access_ok == ra_valid /\ ~priv_fault

\* e is what the MMU does in this clock, among other events.
itlb_update(e) ==
    itlb' = CASE e.op = "tlbie_all" -> [x \in DOMAIN itlb |-> None]
              [] e.op = "tlbie" -> [itlb EXCEPT ![hash_ea(e.page)] = None]
              [] e.op = "tlbld" -> [itlb EXCEPT ![hash_ea(e.page)] =
                                       [tag |-> ttag(e.page), pte |-> pagetable[e.page]]]
              [] OTHER -> itlb

-----------------------------------------------------------------------------
(* The lookup.                                                             *)

req_index == i_in.nia.idx
use_previous == i_in.nia.word # 0 /\ i_in.sequential /\ hit.valid

\* Rows that have not arrived yet (mutant).
hitcond_early == r.state = "WAIT_ACK" /\ req_index = r.store_index

\* A row of the line under reload that has arrived.
hitcond == /\ r.state = "WAIT_ACK" /\ req_index = r.store_index
           /\ i_in.nia.row \in r.rows_valid

\* Any way under reload (mutant).
hits_any == {w \in Way : (w \in cache_valid_bits[req_index] \/ hitcond)
                 /\ cache_tags[req_index][w] = real_frame}

hits == {w \in Way : /\ w \in cache_valid_bits[req_index]
                        \/ (hitcond /\ w = r.store_way)
                     /\ cache_tags[req_index][w] = real_frame}
is_hit == i_in.req /\ hits # {}
req_hit_way == Max(hits \cup {0})

req_is_hit(flush) == i_in.req /\ access_ok /\ ~flush /\ is_hit
req_is_miss(flush) == i_in.req /\ access_ok /\ ~flush /\ ~is_hit

\* The way to replace: what the PLRU says in the clock the tag is written.
replace_way == IF r.state = "CLR_TAG" THEN plru_victim[r.store_index] ELSE r.store_way

stall_out == ~(is_hit /\ access_ok)

\* What goes to decode.  A stop mark, passed along, is left out.
icache_hit(e) ==
    LET hold == e.op = "stall" \/ use_previous
        valid == IF hold THEN hit.valid /\ e.op # "flush" ELSE req_is_hit(e.op = "flush")
    IN hit' = IF ~valid THEN NoHit(mode)
              ELSE [valid |-> TRUE,
                    way |-> IF hold THEN hit.way ELSE req_hit_way,
                    nia |-> IF e.op = "stall" THEN hit.nia ELSE i_in.nia]

\* TLB miss or protection fault.
FetchFailed(e) ==
    fetch_failed' = /\ fetch_failed \/ (i_in.req /\ ~access_ok /\ e.op # "stall")
                    /\ e.op \notin {"flush", "tlbld"}

-----------------------------------------------------------------------------
(* The reload.                                                             *)

Miss(flush) ==
    IF req_is_miss(flush)
    THEN [r EXCEPT !.store_index = req_index, !.store_row = i_in.nia.row,
                   !.store_tag = real_frame, !.store_valid = TRUE,
                   !.end_row_ix = (i_in.nia.row + Rows - 1) % Rows,
                   !.adr_row = i_in.nia.row, !.stb = TRUE, !.state = "CLR_TAG"]
    ELSE r

\* The last request is given up when memory stalls (mutant).
lastStb_stalled(stall) == r.stb /\ r.adr_row = r.end_row_ix

lastStb(stall) == ~stall /\ r.stb /\ r.adr_row = r.end_row_ix

lineDone(ack, stall) == /\ ack /\ (~r.stb \/ lastStb(stall))
                        /\ r.store_row = r.end_row_ix

\* Requests go out, rows come in; in CLR_TAG as well.
WaitAck(s, ack, stall) ==
    IF lineDone(ack, stall) THEN NoReload
    ELSE [s EXCEPT !.stb = @ /\ ~lastStb(stall),
                   !.adr_row = IF ~stall /\ r.stb THEN (@ + 1) % Rows ELSE @,
                   !.rows_valid = IF ack THEN @ \cup {r.store_row} ELSE @,
                   !.store_row = IF ack THEN (@ + 1) % Rows ELSE @,
                   !.state = "WAIT_ACK"]

\* An invalidation in this clock comes first, what the reload does to the set
\* overrides it.
Invalidated(inval) == IF inval THEN [x \in Idx |-> {}] ELSE cache_valid_bits

icache_miss(e, ack, stall) ==
    LET inval == e.op = "inval"
        s == CASE r.state = "IDLE" -> Miss(e.op = "flush")
               [] r.state = "CLR_TAG" ->
                    WaitAck([r EXCEPT !.store_way = replace_way], ack, stall)
               [] OTHER -> WaitAck(r, ack, stall)
    IN
    /\ r' = [s EXCEPT !.store_valid = @ /\ (inval => r.state = "IDLE")]
    /\ cache_tags' = IF r.state = "CLR_TAG"
                     THEN [cache_tags EXCEPT ![r.store_index][replace_way] = r.store_tag]
                     ELSE cache_tags
    /\ cache_valid_bits' =
         CASE r.state # "IDLE" /\ lineDone(ack, stall) ->
                [Invalidated(inval) EXCEPT ![r.store_index] =
                    IF r.store_valid /\ ~inval
                    THEN cache_valid_bits[r.store_index] \cup {replace_way}
                    ELSE cache_valid_bits[r.store_index] \ {replace_way}]
           [] r.state = "CLR_TAG" /\ ~lineDone(ack, stall) ->
                [Invalidated(inval) EXCEPT ![req_index] =
                    cache_valid_bits[req_index] \ {replace_way}]
           [] OTHER -> Invalidated(inval)

-----------------------------------------------------------------------------
(* RAM, PLRU and memory.                                                   *)

Stale(c, e) == IF e.op = "write" /\ c # None /\ c.line = e.line
               THEN [c EXCEPT !.stale = TRUE] ELSE c

\* Nobody reads a way that is not valid.
forget(w, x) == w \notin cache_valid_bits'[x] /\ ~(r'.state = "WAIT_ACK" /\ w = r'.store_way
                                                 /\ x = r'.store_index)

\* Memory accepts a read, or stalls; it answers in order, at the earliest in
\* the same clock.
sent(stall) == IF r.stb /\ ~stall
               THEN Append(accepted, Cell(<<r.store_tag, r.store_index>>, r.adr_row))
               ELSE accepted

Wishbone(e, ack, stall) ==
    /\ ack => sent(stall) # <<>>
    /\ ~r.stb => ~stall
    /\ LET left == IF ack THEN Tail(sent(stall)) ELSE sent(stall)
       IN accepted' = [x \in DOMAIN left |-> Stale(left[x], e)]

\* The registered read of a RAM, without a buffer: what was there before the
\* write of this clock, kept while the read is not enabled.
CacheRam(e) ==
    LET read == IF e.op = "stall" \/ use_previous THEN rd_data
                ELSE ram[req_hit_way][<<req_index, i_in.nia.row>>]
    IN rd_data' = IF hit'.valid THEN Stale(read, e) ELSE None

rams(e, ack, stall) ==
    LET new == IF ack THEN [ram EXCEPT ![replace_way][<<r.store_index, r.store_row>>] =
                                           Head(sent(stall))]
               ELSE ram IN
    /\ CacheRam(e)
    /\ ram' = [w \in Way |-> [x \in Idx \X Row |->
                 IF forget(w, x[1]) THEN None ELSE Stale(new[w][x], e)]]

\* The victim is any way but the one used last.  (As built, its complement.)
PLRU(used) == Way \ {used}

maybe_plrus ==
    \/ ~hit.valid /\ UNCHANGED plru_victim
    \/ /\ hit.valid
       /\ \E w \in PLRU(hit.way) :
             plru_victim' = [plru_victim EXCEPT ![hit.nia.idx] = w]

-----------------------------------------------------------------------------
(* The fetch unit and what else happens, at most one event in a clock.     *)

Next4(n, m) == /\ m.page = n.page /\ m.idx = n.idx
               /\ m.row * Words + m.word = n.row * Words + n.word + 1

\* Fetch holds its request while stalled; a flush redirects it.
Fetch1(e) ==
    \/ e.op # "flush" /\ i_in.req /\ (e.op = "stall" \/ stall_out)
         /\ i_in' = [i_in EXCEPT !.sequential = FALSE]
    \/ /\ e.op = "flush" \/ ~i_in.req \/ ~(e.op = "stall" \/ stall_out)
       /\ \/ i_in' = NoFetch(mode)
          \/ \E n \in Nias(mode) :
                i_in' = [req |-> TRUE, nia |-> n,
                         sequential |-> n.word # 0 /\ e.op # "flush" /\ i_in.req
                                        /\ Next4(i_in.nia, n)]

\* An invalidation in a clock in which the reload writes valid bits.
untimely(e, ack, stall) ==
    e.op = "inval" /\ (r.state = "CLR_TAG" \/ lineDone(ack, stall))

Clock(e, ack, stall) ==
    /\ Wishbone(e, ack, stall)
    /\ Gentle => ~untimely(e, ack, stall)
    /\ icache_miss(e, ack, stall) /\ icache_hit(e) /\ FetchFailed(e)
    /\ itlb_update(e) /\ rams(e, ack, stall) /\ maybe_plrus
    /\ Fetch1(e)
    /\ pagetable' = IF e.op = "map" THEN [pagetable EXCEPT ![e.page] = e.pte] ELSE pagetable
    /\ UNCHANGED mode

Next == \E e \in Events(mode), ack, stall \in BOOLEAN : Clock(e, ack, stall)

Spec == Init /\ [][Next]_vars
=============================================================================
