------------------------------ MODULE DCacheMC ------------------------------
(* What DCache must satisfy, and small instances of it. *)
EXTENDS DCache

\* The clock ticks, and memory answers.
FairSpec == /\ Spec /\ WF_vars(Next)
            /\ WF_vars(\E q \in Requests \cup {None} : \E v \in Data(q) : Clock(q, v, TRUE))

Datum == Vals \cup {None}
TypeOK ==
    /\ r0 \in Request \cup {None} /\ d_data \in Vals
    /\ \A i \in Idx : cache_tags[i] \in [Way -> Tags \cup {None}]
    /\ cache_valids \in [Idx -> SUBSET Way] /\ plru_victim \in [Idx -> Way]
    /\ \A w \in Way : cache_ram[w] \in [Idx \X Row -> Datum]
    /\ rd_data0 \in [Way -> Datum] /\ rd_data_o \in [Way -> Datum]
    /\ r1.req.addr \in Addr /\ r1.req.data \in Vals /\ r1.req.hit_way \in Way
    /\ r1.store_row \in Idx \X Row /\ r1.rows_valid \subseteq Row
    /\ {r1.hit_way, r1.store_way, r1.forward_way1} \subseteq Way
    /\ {r1.forward_data1, r1.forward_data2} \subseteq Datum
    /\ r1.acks_pending \in 0 .. 7
    /\ (wb.stb => wb.adr \in Addr) /\ wb.dat \in Vals /\ mem \in [Addr -> Vals]

\* Each request is answered once, to the side that sent it, with an error if
\* and only if it has no access; and a load with the value memory holds when
\* requests are done in order: through the RAM, the forwarding of the last two
\* writes or the row just reloaded (writeback_control, dcache_slow).
Answers ==
    answered =>
      /\ pend # None
      /\ Cardinality({x \in {"ls_valid", "ls_error", "mmu_done", "mmu_error"} : r1[x]}) = 1
      /\ pend.mmu <=> r1.mmu_done \/ r1.mmu_error
      /\ pend.ok <=> r1.ls_valid \/ r1.mmu_done
      /\ pend.op = "load" /\ pend.ok => data_out = ref[pend.addr]

\* "Set associative dcache write-through": when nothing is on its way, memory
\* has every store; each valid line holds what memory does, and no set holds a
\* line twice, of which stores would update one (dcache_slow, rams).
Coherent ==
    r1.state = "IDLE" /\ ~r1.full /\ ~r1.write_bram /\ r0 = None =>
      /\ mem = ref
      /\ \A i \in Idx : \A w \in cache_valids[i] :
          /\ \A x \in Row : cache_ram[w][<<i, x>>] =
                  mem[[tag |-> cache_tags[i][w], idx |-> i, row |-> x]]
          /\ \A y \in cache_valids[i] \ {w} : cache_tags[i][w] # cache_tags[i][y]

\* Every request is answered, also one that finds a reload, a store or
\* a DCBZ of another in progress.
Answered == (pend # None) ~> answered

-----------------------------------------------------------------------------
To(op, tag, row) == [op |-> op, addr |-> [tag |-> tag, idx |-> 0, row |-> row],
                     nc |-> FALSE, ok |-> TRUE, mmu |-> FALSE]

\* Tags 0 and 1 compete for the ways; tag 16 is a peripheral's, whose loads
\* are not cached.
MCTags == {0, 1, 16}
MCIdx == {0}
MCRequests ==
    {To("load", 0, 0), To("load", 0, 1), To("load", 1, 0), To("store", 1, 0), To("store", 0, 0),
     To("dcbz", 0, 0), [To("load", 16, 0) EXCEPT !.nc = TRUE],
     [To("load", 0, 0) EXCEPT !.ok = FALSE], [To("load", 0, 0) EXCEPT !.mmu = TRUE],
     [To("tlb", 0, 0) EXCEPT !.mmu = TRUE]}
=============================================================================
