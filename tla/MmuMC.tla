------------------------------- MODULE MmuMC -------------------------------
(* What Mmu must satisfy, and small instances of it. *)
EXTENDS Mmu

Bad(mbits, left) == mbits < MinBits \/ mbits > MaxBits \/ mbits > left
RootOf(m, s, ea) == m[<<s.prtbl, effpid(s.pid, ea)>>]

\* An entry of the tables m; there is none where m has no table.
NoTable == [kind |-> "none"]
EntryAt(m, at) == IF at \in DOMAIN m THEN m[at] ELSE NoTable

\* The entry of a table that an address selects with mbits of its bits, left are
\* the bits below them: in the architecture, and by what the MMU shifts out.
IndexOf(by, ea, mbits, left) ==
    IF by = "index" THEN (ea.p \div 2 ^ left) % 2 ^ mbits ELSE addrsh % 2 ^ mbits

\* What m gives for an address from the entry e on, below which it has so many
\* bits left: a leaf, with the part of its page that belongs to the address, or
\* an error.
Below(by, m, ea) ==
    LET step[left \in Nat] ==
          [e \in {m[x] : x \in DOMAIN m} \cup {NoTable} |->
             CASE e.kind = "none" -> [kind |-> "invalid"]
               [] e.kind = "leaf" ->
                    [e EXCEPT !.page = (@ \div 2 ^ left) * 2 ^ left + (ea.p % 2 ^ left)]
               [] e.kind = "dir" /\ Bad(e.mbits, left) -> [kind |-> "badtree"]
               [] OTHER -> step[left - e.mbits][EntryAt(m,
                             <<e.base, IndexOf(by, ea, e.mbits, left - e.mbits)>>)]]
    IN step

\* What the tables m give for an address, if each level is indexed so.
WalkBy(by, m, s, ea) ==
    LET root == RootOf(m, s, ea)
    IN CASE root.mbits = 0 -> [kind |-> "invalid"]
         [] root.mbits # 0 /\ (ea.q \in {1, 2} \/ ea.p \div 2 ^ (root.rts + LowBits) # 0) ->
              [kind |-> "segerror"]
         [] OTHER -> Below(by, m, ea)[root.rts + LowBits][root]
Walk(m, s, ea) == WalkBy("addrsh", m, s, ea)

\* History: halves of the address space whose process table entry the core has
\* changed and not invalidated since; pages that it has changed, or loaded while
\* their half was so, and not invalidated since.
VARIABLES dirty, ptDirty

hvars == <<vars, dirty, ptDirty>>

HistNext ==
    /\ Next
    /\ dirty' = CASE mem' # mem ->
                       dirty \cup {ea \in Addrs : \E by \in {"addrsh", "index"} :
                          WalkBy(by, mem', spr, ea) # WalkBy(by, mem, spr, ea)}
                  [] done /\ fsm.op.op = "tlbie" ->
                       IF fsm.op.all THEN {} ELSE dirty \ {fsm.op.ea}
                  [] done /\ fsm.op.op \in Mtspr -> {}
                  [] r0.op = "tlbld" ->
                       IF top(r0.ea) \in ptDirty THEN dirty \cup {r0.ea}
                                                 ELSE dirty \ {r0.ea}
                  [] OTHER -> dirty
    /\ ptDirty' = CASE mem' # mem ->
                         ptDirty \cup {top(ea) : ea \in {x \in Addrs :
                            RootOf(mem', spr, x) # RootOf(mem, spr, x)}}
                    [] done /\ fsm.op.op = "tlbie" /\ fsm.op.ric2 -> {}
                    [] done /\ fsm.op.op = "mtprtbl" -> {}
                    [] done /\ fsm.op.op = "mtpid" -> ptDirty \ {FALSE}
                    [] OTHER -> ptDirty

HistInit == Init /\ dirty = {} /\ ptDirty = {}
HistSpec == HistInit /\ [][HistNext]_hvars

\* The clock ticks, and memory answers.
FairSpec == /\ HistSpec /\ WF_hvars(HistNext)
            /\ WF_hvars(Clock(None, mem, TRUE) /\ HistNext)

States == {"IDLE", "DO_TLBIE", "TLB_WAIT", "PROC_TBL_READ", "PROC_TBL_WAIT",
           "SEGMENT_CHECK", "RADIX_LOOKUP", "RADIX_READ_WAIT", "RADIX_LOAD_TLB",
           "RADIX_FINISH"}
TypeOK ==
    /\ r.state \in States /\ r.addr \in Addrs /\ r.pid \in Pids /\ r.prtbl \in Prtbls
    /\ r.shift \in Nat /\ r.mask_size \in Nat
    /\ r.error \in {"none", "invalid", "badtree", "segerror", "perm_err", "rc_error"}
    /\ r.done => r.error = "none"
    /\ fsm.busy => fsm.op \in Requests
    /\ ls.state \in {"IDLE", "ACK_WAIT", "MMU_LOOKUP"} /\ ls.ldst_r.ea \in Addrs
    /\ \A s \in DOMAIN dtlb : \A w \in 1 .. Ways :
          dtlb[s][w].ea = None \/ (dtlb[s][w].ea \in Addrs /\ TlbSet(dtlb[s][w].ea) = s)
    /\ cur \in Requests \cup {None} /\ idle \in 0 .. Gap /\ mem \in Mems

\* Done, or the error that a walk meets first.
Outcome(w, store) ==
    CASE w.kind # "leaf" -> w.kind
      [] w.kind = "leaf" /\ (w.priv \/ ~(w.wr \/ (w.rd /\ ~store))) -> "perm_err"
      [] OTHER -> IF w.ref /\ (w.chg \/ ~store) THEN "none" ELSE "rc_error"

\* What the D-cache and the MMU answer is what the walk of the tables gives.
TranslatedBy(by) ==
    /\ granted => \/ r0.ea \in dirty
                  \/ tlb_way[tlb_hit_way].pte = WalkBy(by, mem, spr, r0.ea)
    /\ ls.state = "MMU_LOOKUP" /\ cur # None /\ cur.op \in Access
         /\ (r.done \/ r.error # "none") =>
       \/ top(cur.ea) \in ptDirty
       \/ r.error = Outcome(WalkBy(by, mem, spr, cur.ea), cur.op = "store")

\* An access that the D-cache lets through is translated as the tables say, for
\* the PID and PRTBL that were set last, or the core has not invalidated what
\* it changed: no entry of the TLB outlives a tlbie, an MTSPR or a PID, though
\* MTSPR is done before the MMU has flushed (tlb_search, tlb_update, IDLE).  And
\* the MMU answers a miss with what the walk of the tables gives: done, or the
\* error that it meets first (radix_read_wait, segment_check, proc_tbl_wait).
\* The walk takes the entry that pgtb_adr selects in each table.
Translated == TranslatedBy("addrsh")

\* So it would be if each level took its own bits of the address ("supports
\* 4-level trees as in arch 3.0B").
TranslatedByIndex == TranslatedBy("index")

\* The MMU and the D-cache agree: after a successful walk the access is let
\* through, as LoadStore1 has forgotten what a second walk would be for
\* (loadstore.py's MMU_LOOKUP, tlb_search, dcache_request).
RetryGranted == ls.state = "ACK_WAIT" /\ ~ls.ldst_r.virt => d.ls # "error"

\* Every instruction ends, and so do TLBIE and MTSPR before the next access.
Ends == cur # None ~> cur = None

-----------------------------------------------------------------------------
EA(q, p) == [q |-> q, p |-> p]
To(op, q, p) == [op |-> op, ea |-> EA(q, p)]
Tlbie1(q, p) == [op |-> "tlbie", ea |-> EA(q, p), all |-> FALSE, ric2 |-> FALSE]

MCTree(mbits, base) == [kind |-> "dir", rts |-> 2, mbits |-> mbits, base |-> base]
MCDir(mbits, base) == [kind |-> "dir", mbits |-> mbits, base |-> base]
Leaf(page) == [kind |-> "leaf", page |-> page, priv |-> FALSE, rd |-> TRUE,
               wr |-> TRUE, ref |-> TRUE, chg |-> TRUE]

\* Trees of eight pages.  Pages 0 and 1 are one large page, pages 2 and 3 the one
\* that the second entry of table B has.
MCPids == {0, 1}
MCAddrs == {EA(0, 0), EA(0, 3), EA(3, 0), EA(0, 8)}
Mem(root0, root1, a0, b0) ==
    [x \in {<<"T", 0>>, <<"T", 1>>, <<"A", 0>>, <<"B", 0>>, <<"B", 1>>} |->
        CASE x = <<"T", 0>> -> root0 [] x = <<"T", 1>> -> root1
          [] x = <<"A", 0>> -> a0 [] x = <<"B", 0>> -> b0 [] OTHER -> Leaf(4)]
MCMems ==
    {Mem(MCTree(1, "A"), MCTree(1, "B"), MCDir(1, "B"), Leaf(8)),
     Mem(MCTree(1, "A"), MCTree(1, "B"), MCDir(1, "B"), [Leaf(16) EXCEPT !.chg = FALSE]),
     Mem(MCTree(0, "A"), MCTree(1, "A"), MCDir(3, "B"), Leaf(8)),
     Mem(MCTree(1, "B"), MCTree(1, "A"), [kind |-> "none"], [Leaf(8) EXCEPT !.wr = FALSE])}
MCRequests ==
    {To("load", 0, 0), To("store", 0, 0), To("load", 0, 3), To("load", 3, 0),
     To("load", 0, 8), Tlbie1(0, 0),
     [Tlbie1(0, 0) EXCEPT !.all = TRUE],
     [Tlbie1(0, 0) EXCEPT !.all = TRUE, !.ric2 = TRUE],
     [op |-> "mtpid", val |-> 0], [op |-> "mtpid", val |-> 1],
     [op |-> "mtprtbl", val |-> "T"], [op |-> "local"]}

\* Pages of two entries of one table.
IndexRequests == {To("load", 0, 0), To("load", 0, 3)}
=============================================================================
