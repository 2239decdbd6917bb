----------------------------- MODULE MmuProofs -----------------------------
(***************************************************************************)
(* Theorems about Mmu, for every set of addresses and of tables, every     *)
(* instruction stream and every size of the TLB: an access that missed the *)
(* TLB is let through after its walk, and what the MMU and the TLB answer  *)
(* is what the tables in memory say.                                       *)
(***************************************************************************)
EXTENDS MmuMC, WellFoundedInduction, TLAPS

-----------------------------------------------------------------------------
(* The invariant.                                                          *)

Errors == {"none", "invalid", "badtree", "segerror", "perm_err", "rc_error"}

\* The MMU's registers, and what they hold in a walk.
Registers == [state : States, addr : Addrs, store : BOOLEAN, inval_all : BOOLEAN,
              prtbl : Prtbls, pid : Pids, pgtbl0 : Tree \cup {None},
              pgtbl3 : Tree \cup {None}, shift : Nat, mask_size : Nat,
              pgbase : Bases \cup {None}, pde : Entries \cup {None},
              done : BOOLEAN, error : Errors]

WalkInv ==
    /\ r.state \in {"SEGMENT_CHECK", "RADIX_LOOKUP"} => r.pgbase \in Bases
    /\ r.state = "RADIX_LOOKUP" => r.mask_size \in MinBits .. MaxBits
    /\ r.state = "RADIX_LOAD_TLB" =>
         r.pde \in Pte /\ perm_ok(r.pde, r.store) /\ rc_ok(r.pde, r.store)
    /\ r.done => r.state = "RADIX_FINISH" /\ r.error = "none"
    /\ r.error # "none" => r.state = "RADIX_FINISH"
    /\ r.state = "RADIX_FINISH" => r.done \/ r.error # "none"

\* What the D-cache has been asked, and has answered, in each state of the MMU.
PortInv ==
    /\ r.state \notin {"IDLE", "TLB_WAIT", "PROC_TBL_WAIT", "RADIX_READ_WAIT"} =>
         r0.op = "none" /\ ~d.done
    /\ r.state = "IDLE" => r0.op \in Access \cup {"none"} /\ ~d.done
    /\ r.state = "TLB_WAIT" =>
         IF d.done THEN r0.op = "none" ELSE r0.op \in {"tlbie", "tlbld"}
    /\ r.state = "PROC_TBL_WAIT" =>
         IF d.done THEN r0.op = "none" /\ d.data \in Tree
                   ELSE r0.op = "read" /\ r0.at \in Roots
    /\ r.state = "RADIX_READ_WAIT" =>
         IF d.done THEN r0.op = "none" /\ d.data \in Entries
                   ELSE r0.op = "read" /\ r0.at \in Slots

\* No page is in two ways, and the ways read with a request are those that
\* its answer finds.
TlbInv ==
    /\ DOMAIN dtlb = 0 .. Sets - 1
    /\ \A s \in 0 .. Sets - 1 :
         /\ DOMAIN dtlb[s] = 1 .. Ways
         /\ \A w, x \in 1 .. Ways :
              dtlb[s][w].ea = dtlb[s][x].ea /\ dtlb[s][w].ea # None => w = x
    /\ r0.op \notin {"none", "read"} => r0.ea \in Addrs /\ tlb_way = dtlb[TlbSet(r0.ea)]

\* Nothing runs: at most the flush that an MTSPR has left behind, which is
\* over before the next instruction; or a fault has stopped the core.
QuietInv ==
    cur = None =>
      /\ ~fsm.busy /\ d.ls = None /\ r0.op \notin Access \cup {"tlbld"}
      /\ ls.state \in {"IDLE", "MMU_LOOKUP"}
      /\ ls.state = "MMU_LOOKUP" => r.state = "IDLE"
      /\ r.state \in {"IDLE", "DO_TLBIE", "TLB_WAIT", "RADIX_FINISH"}
      /\ r.state = "DO_TLBIE" => idle = 0
      /\ r.state = "TLB_WAIT" => idle <= (IF d.done THEN 2 ELSE 1)

\* The function unit has an instruction, or LoadStore1.
UnitInv ==
    cur # None /\ cur.op \notin Access =>
      /\ fsm.busy /\ fsm.op = cur
      /\ d.ls = None /\ r0.op \notin Access \cup {"tlbld"}
      /\ ls.state = "IDLE"
      /\ r.state \in {"IDLE", "DO_TLBIE", "TLB_WAIT", "RADIX_FINISH"}
      /\ cur.op # "tlbie" => r.state = "IDLE"

\* LoadStore1's latched request.
LoadStores == [state : {"IDLE", "ACK_WAIT", "MMU_LOOKUP"},
               ldst_r : [op : Access, ea : Addrs, virt : BOOLEAN]]

\* The TLB has an entry of the page that gives the access.
Loaded(ea, op) ==
    \E w \in 1 .. Ways : /\ dtlb[TlbSet(ea)][w].ea = ea
                         /\ access_ok(dtlb[TlbSet(ea)][w].pte, op)

AccessInv ==
    cur # None /\ cur.op \in Access =>
      /\ ~fsm.busy
      /\ ls.state \in {"ACK_WAIT", "MMU_LOOKUP"}
      /\ ls.state = "ACK_WAIT" =>
           /\ r.state = "IDLE" /\ (r0.op \in Access <=> d.ls = None)
           /\ d.ls \in {None, "valid", "error"}
           /\ ~ls.ldst_r.virt => d.ls # "error" /\ (r0.op \in Access => granted)
      /\ ls.state = "MMU_LOOKUP" =>
           /\ d.ls = None /\ r.state \notin {"IDLE", "DO_TLBIE"}
           /\ r.addr = ls.ldst_r.ea /\ r.store = (ls.ldst_r.op = "store")
           /\ r.state = "TLB_WAIT" =>
                IF d.done THEN Loaded(ls.ldst_r.ea, ls.ldst_r.op)
                ELSE /\ r0.op = "tlbld" /\ r0.ea = ls.ldst_r.ea
                     /\ access_ok(r0.pte, ls.ldst_r.op)
           /\ r.done => Loaded(ls.ldst_r.ea, ls.ldst_r.op)

MmuInv ==
    /\ r \in Registers /\ WalkInv /\ PortInv /\ TlbInv
    /\ ls \in LoadStores /\ mem \in Mems /\ cur \in Requests \cup {None} /\ idle \in 0 .. Gap
    /\ QuietInv /\ UnitInv /\ AccessInv
\* The core as it is in a run without a fault: it gives an MTSPR the clocks to
\* flush, and does not go on after a fault.
Sequential == Gap >= 3 /\ ~Resume

Step(q, m, ack) ==
    /\ MmuInv
    /\ q \in Requests \cup {None} /\ m \in Mems /\ (q # None => Ready)
    /\ Clock(q, m, ack)

-----------------------------------------------------------------------------
(* What memory holds, and the ends of a walk.                              *)

\* Entries are told apart by their kind.
LEMMA EntryFields ==
    ASSUME NEW e \in Entries
    PROVE  /\ e.kind = "leaf" => e \in Pte
           /\ e.kind = "dir" => e.mbits \in Nat /\ e.base \in Bases
           /\ e.kind \in {"none", "leaf", "dir"}
BY DEF Entries, Pte, Dir, Tree

LEMMA TreeFields ==
    ASSUME NEW t \in Tree
    PROVE  t.rts \in Nat /\ t.mbits \in Nat /\ t.base \in Bases /\ t # None
BY TablesAssumption DEF Tree, Entries

\* What a clock starts from: the registers, without the last outcome.
LEMMA Cleared ==
    ASSUME r \in Registers
    PROVE  /\ v \in Registers /\ v.done = FALSE /\ v.error = "none"
           /\ v.state = r.state /\ v.addr = r.addr /\ v.store = r.store
           /\ v.pgbase = r.pgbase /\ v.mask_size = r.mask_size /\ v.shift = r.shift
           /\ v.pde = r.pde
BY DEF Registers, v, Errors

LEMMA FinishDone ==
    ASSUME NEW s \in Registers
    PROVE  /\ Finish(s, "none") \in Registers /\ Finish(s, "none").state = "RADIX_FINISH"
           /\ Finish(s, "none").done = TRUE /\ Finish(s, "none").error = "none"
           /\ Finish(s, "none").addr = s.addr /\ Finish(s, "none").store = s.store
<1>1. Finish(s, "none") =
        [s EXCEPT !.state = "RADIX_FINISH", !.error = "none", !.done = TRUE]
  BY DEF Finish
<1> QED BY <1>1 DEF Registers, States, Errors

LEMMA FinishError ==
    ASSUME NEW s \in Registers, NEW e \in Errors \ {"none"}
    PROVE  /\ Finish(s, e) \in Registers /\ Finish(s, e).state = "RADIX_FINISH"
           /\ Finish(s, e).done = FALSE /\ Finish(s, e).error # "none"
           /\ Finish(s, e).addr = s.addr /\ Finish(s, e).store = s.store
<1>1. Finish(s, e) =
        [s EXCEPT !.state = "RADIX_FINISH", !.error = e, !.done = FALSE]
  BY DEF Finish
<1> QED BY <1>1 DEF Registers, States, Errors

LEMMA RootMoves ==
    ASSUME NEW s \in Registers, s.done = FALSE, s.error = "none", NEW t \in Tree
    PROVE  /\ Root(s, t) \in Registers /\ Root(s, t).done = FALSE
           /\ Root(s, t).addr = s.addr /\ Root(s, t).store = s.store
           /\ \/ Root(s, t).state = "RADIX_FINISH" /\ Root(s, t).error # "none"
              \/ /\ Root(s, t).state = "SEGMENT_CHECK" /\ Root(s, t).error = "none"
                 /\ Root(s, t).pgbase \in Bases
<1> DEFINE u == [s EXCEPT !.shift = t.rts, !.mask_size = t.mbits, !.pgbase = t.base]
<1>1. u \in Registers /\ u.done = FALSE /\ u.error = "none" /\ u.addr = s.addr /\ u.store = s.store /\ u.pgbase \in Bases
  BY TreeFields DEF Registers
<1>2. Root(s, t) = IF t.mbits = 0 THEN Finish(u, "invalid")
                   ELSE [u EXCEPT !.state = "SEGMENT_CHECK"]
  BY DEF Root
<1> HIDE DEF u
<1>3. "invalid" \in Errors \ {"none"}
  BY DEF Errors
<1>4. CASE t.mbits = 0
  <2>1. Root(s, t) = Finish(u, "invalid")
    BY <1>2, <1>4
  <2>2. /\ Finish(u, "invalid") \in Registers /\ Finish(u, "invalid").done = FALSE
        /\ Finish(u, "invalid").state = "RADIX_FINISH"
        /\ Finish(u, "invalid").error # "none"
        /\ Finish(u, "invalid").addr = u.addr /\ Finish(u, "invalid").store = u.store
    BY <1>1, <1>3, FinishError
  <2> QED BY <1>1, <1>3, <2>1, <2>2
<1>5. CASE t.mbits # 0
  BY <1>1, <1>2, <1>5 DEF Registers, States
<1> QED BY <1>4, <1>5
-----------------------------------------------------------------------------
(* The MMU's input, and its moves.                                         *)

LEMMA InsnFields ==
    ASSUME NEW q \in Requests
    PROVE  /\ q.op \in Op /\ q # None
           /\ q.op \in Access => q.ea \in Addrs
           /\ q.op = "mtpid" => q.val \in Pids
           /\ q.op = "mtprtbl" => q.val \in Prtbls
           /\ q.op = "tlbie" => q.ea \in Addrs /\ q.all \in BOOLEAN /\ q.ric2 \in BOOLEAN
<1>1. q \in Instruction /\ q # None
  BY MmuAssumption
<1> QED BY <1>1 DEF Instruction, Op, Access, Mtspr

\* The MMU sees what the instruction in progress asks for.
LEMMA Input ==
    ASSUME MmuInv
    PROVE  /\ cur = None => l_in = Nothing
           /\ cur # None /\ cur.op \notin Access =>
                l_in = IF cur.op = "local" THEN Nothing ELSE cur
           /\ cur # None /\ cur.op \in Access =>
                l_in = IF mmureq THEN ls.ldst_r ELSE Nothing
<1>1. CASE cur = None
  BY <1>1, MmuAssumption DEF MmuInv, QuietInv, l_in, valid, mmureq
<1>2. CASE cur # None /\ cur.op \notin Access
  <2>1. cur.op \in Mtspr \cup {"tlbie", "local"} /\ fsm.busy /\ fsm.op = cur /\ ~mmureq
    BY <1>2, InsnFields DEF MmuInv, UnitInv, Op, mmureq
  <2> QED BY <1>2, <2>1 DEF l_in, valid, Mtspr
<1>3. CASE cur # None /\ cur.op \in Access
  BY <1>3 DEF MmuInv, AccessInv, l_in, valid
<1> QED BY <1>1, <1>2, <1>3

LEMMA InputType ==
    ASSUME MmuInv
    PROVE  /\ l_in.op \in {"none", "tlbie"} \cup Mtspr \cup Access
           /\ l_in.op \in Access => l_in.ea \in Addrs
           /\ l_in.op = "mtpid" => l_in.val \in Pids
           /\ l_in.op = "mtprtbl" => l_in.val \in Prtbls
           /\ l_in.op = "tlbie" => l_in.ea \in Addrs /\ l_in.all \in BOOLEAN
                                   /\ l_in.ric2 \in BOOLEAN
<1>1. CASE cur = None
  BY <1>1, Input DEF Nothing, Access, Mtspr
<1>2. CASE cur # None /\ cur.op \notin Access
  BY <1>2, Input, InsnFields DEF MmuInv, Nothing, Access, Mtspr, Op
<1>3. CASE cur # None /\ cur.op \in Access
  <2>1. mmureq => ls.ldst_r.op \in Access /\ ls.ldst_r.ea \in Addrs
    BY DEF MmuInv, LoadStores
  <2> QED BY <1>3, <2>1, Input DEF Nothing, Access, Mtspr
<1> QED BY <1>1, <1>2, <1>3

\* MTSPR and TLBIE lead to the TLB's flush, an access to a walk.
LEMMA IdleMoves ==
    ASSUME MmuInv, r.state = "IDLE", MMU
    PROVE  /\ r' \in Registers /\ r'.done = FALSE
           /\ l_in.op = "none" => r'.state = "IDLE" /\ r'.error = "none"
           /\ l_in.op \in Mtspr => r'.state = "DO_TLBIE" /\ r'.error = "none"
           /\ l_in.op = "tlbie" => r'.state \in {"IDLE", "DO_TLBIE"} /\ r'.error = "none"
           /\ l_in.op \in Access =>
                /\ r'.addr = l_in.ea /\ r'.store = (l_in.op = "store")
                /\ \/ r'.state = "PROC_TBL_READ" /\ r'.error = "none"
                   \/ r'.state = "SEGMENT_CHECK" /\ r'.error = "none" /\ r'.pgbase \in Bases
                   \/ r'.state = "RADIX_FINISH" /\ r'.error # "none"
<1> USE DEF Access, Mtspr
<1>0. r \in Registers
  BY DEF MmuInv
<1>1. Idle
  BY DEF MMU, DoTlbie, TlbWait, ProcTblRead, ProcTblWait, SegmentCheck, RadixLookup,
         RadixReadWait, RadixLoadTlb, RadixFinish
<1>2. CASE l_in.op \in Mtspr /\ r' = MoveToSpr
  <2>1. CASE l_in.op = "mtpid"
    <3>1. r' = [v EXCEPT !.pid = l_in.val, !.prtbl = v.prtbl, !.pgtbl3 = v.pgtbl3,
                         !.pgtbl0 = None, !.inval_all = TRUE, !.state = "DO_TLBIE"]
      BY <1>2, <2>1 DEF MoveToSpr
    <3>2. /\ v \in Registers /\ v.done = FALSE /\ v.error = "none" /\ l_in.val \in Pids
      BY <1>0, <2>1, Cleared, InputType
    <3>3. r' \in Registers /\ r'.done = FALSE /\ r'.error = "none" /\ r'.state = "DO_TLBIE"
      BY <3>1, <3>2 DEF Registers, States
    <3> QED BY <2>1, <3>3
  <2>2. CASE l_in.op = "mtprtbl"
    <3>1. r' = [v EXCEPT !.pid = v.pid, !.prtbl = l_in.val, !.pgtbl3 = None,
                         !.pgtbl0 = None, !.inval_all = TRUE, !.state = "DO_TLBIE"]
      BY <1>2, <2>2 DEF MoveToSpr
    <3>2. /\ v \in Registers /\ v.done = FALSE /\ v.error = "none" /\ l_in.val \in Prtbls
      BY <1>0, <2>2, Cleared, InputType
    <3>3. r' \in Registers /\ r'.done = FALSE /\ r'.error = "none" /\ r'.state = "DO_TLBIE"
      BY <3>1, <3>2 DEF Registers, States
    <3> QED BY <2>2, <3>3
  <2> QED BY <1>2, <2>1, <2>2
<1>3. CASE l_in.op = "tlbie" /\ blip /\ r' = Tlbie
  BY <1>0, <1>3, Cleared, InputType DEF Tlbie, Registers, States
<1>4. CASE l_in.op \in Access /\ r' = Translate
  <2> DEFINE st == l_in.op = "store"
             s == [v EXCEPT !.addr = l_in.ea, !.store = st]
             pgtbl == IF top(l_in.ea) THEN r.pgtbl3 ELSE r.pgtbl0
  <2>1. /\ s \in Registers /\ s.done = FALSE /\ s.error = "none"
        /\ s.addr = l_in.ea /\ s.store = st
    <3>1. st \in BOOLEAN /\ l_in.ea \in Addrs
      BY <1>4, InputType
    <3> HIDE DEF st
    <3> QED BY <1>0, <3>1, Cleared DEF Registers
  <2>2. r' = IF pgtbl = None THEN [s EXCEPT !.state = "PROC_TBL_READ"] ELSE Root(s, pgtbl)
    BY <1>4 DEF Translate
  <2>3. pgtbl \in Tree \cup {None}
    BY <1>0 DEF Registers
  <2> HIDE DEF s, pgtbl
  <2>4. CASE pgtbl = None
    BY <1>4, <2>1, <2>2, <2>4 DEF Registers, States
  <2>5. CASE pgtbl # None
    <3>1. pgtbl \in Tree /\ r' = Root(s, pgtbl)
      BY <2>2, <2>3, <2>5
    <3>2. /\ r' \in Registers /\ r'.done = FALSE
          /\ r'.addr = l_in.ea /\ r'.store = st
          /\ \/ r'.state = "RADIX_FINISH" /\ r'.error # "none"
             \/ /\ r'.state = "SEGMENT_CHECK" /\ r'.error = "none"
                /\ r'.pgbase \in Bases
      BY <2>1, <3>1, RootMoves
    <3> QED BY <1>4, <3>2
  <2> QED BY <2>4, <2>5
<1>5. CASE (l_in.op = "none" \/ (l_in.op = "tlbie" /\ ~blip)) /\ r' = v
  BY <1>0, <1>5, Cleared
<1> QED BY <1>1, <1>2, <1>3, <1>4, <1>5 DEF Idle
\* The clocks in which the MMU waits for nothing.
LEMMA FixedMoves ==
    ASSUME MmuInv, MMU,
           r.state \in {"DO_TLBIE", "PROC_TBL_READ", "RADIX_LOOKUP", "RADIX_LOAD_TLB",
                        "RADIX_FINISH"}
    PROVE  /\ r' \in Registers /\ r'.done = FALSE /\ r'.error = "none"
           /\ r.state = "DO_TLBIE" => r'.state = "TLB_WAIT"
           /\ r.state = "PROC_TBL_READ" => r'.state = "PROC_TBL_WAIT"
           /\ r.state = "RADIX_LOOKUP" => r'.state = "RADIX_READ_WAIT"
           /\ r.state = "RADIX_LOAD_TLB" => r'.state = "TLB_WAIT"
           /\ r.state = "RADIX_FINISH" => r'.state = "IDLE"
           /\ r.state # "RADIX_FINISH" => r'.addr = r.addr /\ r'.store = r.store
<1>0. r \in Registers
  BY DEF MmuInv
<1>1. CASE r.state = "RADIX_FINISH"
  <2>1. r' = [v EXCEPT !.state = "IDLE", !.addr = Zero, !.store = FALSE, !.shift = 0,
                       !.mask_size = 0, !.pgbase = None, !.pde = None]
    BY <1>1 DEF MMU, Idle, DoTlbie, TlbWait, ProcTblRead, ProcTblWait, SegmentCheck,
                RadixLookup, RadixReadWait, RadixLoadTlb, RadixFinish
  <2>2. Zero \in Addrs
    BY MmuAssumption DEF Zero
  <2> QED BY <1>0, <1>1, <2>1, <2>2, Cleared DEF Registers, States
<1>2. CASE r.state # "RADIX_FINISH"
  <2>1. r' = [v EXCEPT !.state = CASE r.state = "DO_TLBIE" -> "TLB_WAIT"
                                   [] r.state = "PROC_TBL_READ" -> "PROC_TBL_WAIT"
                                   [] r.state = "RADIX_LOOKUP" -> "RADIX_READ_WAIT"
                                   [] r.state = "RADIX_LOAD_TLB" -> "TLB_WAIT"]
    BY <1>2 DEF MMU, Idle, DoTlbie, TlbWait, ProcTblRead, ProcTblWait, SegmentCheck,
                RadixLookup, RadixReadWait, RadixLoadTlb, RadixFinish
  <2> QED BY <1>0, <1>2, <2>1, Cleared DEF Registers, States
<1> QED BY <1>1, <1>2

\* The clocks in which it waits, and the D-cache has not answered.
LEMMA WaitMoves ==
    ASSUME MmuInv, MMU, ~d.done,
           r.state \in {"TLB_WAIT", "PROC_TBL_WAIT", "RADIX_READ_WAIT"}
    PROVE  r' = v
BY DEF MMU, Idle, DoTlbie, TlbWait, ProcTblRead, ProcTblWait, SegmentCheck,
       RadixLookup, RadixReadWait, RadixLoadTlb, RadixFinish

LEMMA TlbWaitMoves ==
    ASSUME MmuInv, MMU, d.done, r.state = "TLB_WAIT"
    PROVE  /\ r' \in Registers /\ r'.state = "RADIX_FINISH"
           /\ r'.done = TRUE /\ r'.error = "none"
           /\ r'.addr = r.addr /\ r'.store = r.store
<1>1. r' = Finish(v, "none")
  BY DEF MMU, Idle, DoTlbie, TlbWait, ProcTblRead, ProcTblWait, SegmentCheck,
         RadixLookup, RadixReadWait, RadixLoadTlb, RadixFinish
<1>2. r \in Registers
  BY DEF MmuInv
<1> QED BY <1>1, <1>2, Cleared, FinishDone

LEMMA ProcTblMoves ==
    ASSUME MmuInv, MMU, d.done, r.state = "PROC_TBL_WAIT"
    PROVE  /\ r' \in Registers /\ r'.done = FALSE
           /\ r'.addr = r.addr /\ r'.store = r.store
           /\ \/ r'.state = "RADIX_FINISH" /\ r'.error # "none"
              \/ r'.state = "SEGMENT_CHECK" /\ r'.error = "none" /\ r'.pgbase \in Bases
<1>0. r \in Registers /\ d.data \in Tree
  BY DEF MmuInv, PortInv
<1>1. \/ r' = Root([v EXCEPT !.pgtbl3 = d.data], d.data)
      \/ r' = Root([v EXCEPT !.pgtbl0 = d.data], d.data)
  BY DEF MMU, Idle, DoTlbie, TlbWait, ProcTblRead, ProcTblWait, SegmentCheck,
         RadixLookup, RadixReadWait, RadixLoadTlb, RadixFinish
<1>2. ASSUME NEW s \in {[v EXCEPT !.pgtbl3 = d.data], [v EXCEPT !.pgtbl0 = d.data]}
      PROVE  /\ s \in Registers /\ s.done = FALSE /\ s.error = "none"
             /\ s.addr = r.addr /\ s.store = r.store
  BY <1>0, <1>2, Cleared DEF Registers
<1>3. PICK s \in {[v EXCEPT !.pgtbl3 = d.data], [v EXCEPT !.pgtbl0 = d.data]} :
         r' = Root(s, d.data)
  BY <1>1
<1>4. /\ s \in Registers /\ s.done = FALSE /\ s.error = "none"
      /\ s.addr = r.addr /\ s.store = r.store
  BY <1>2
<1>5. /\ Root(s, d.data) \in Registers /\ Root(s, d.data).done = FALSE
      /\ Root(s, d.data).addr = s.addr /\ Root(s, d.data).store = s.store
      /\ \/ Root(s, d.data).state = "RADIX_FINISH" /\ Root(s, d.data).error # "none"
         \/ /\ Root(s, d.data).state = "SEGMENT_CHECK"
            /\ Root(s, d.data).error = "none" /\ Root(s, d.data).pgbase \in Bases
  BY <1>0, <1>4, RootMoves
<1> QED BY <1>3, <1>4, <1>5

LEMMA SegmentMoves ==
    ASSUME MmuInv, MMU, r.state = "SEGMENT_CHECK"
    PROVE  /\ r' \in Registers /\ r'.done = FALSE
           /\ r'.addr = r.addr /\ r'.store = r.store
           /\ \/ r'.state = "RADIX_FINISH" /\ r'.error # "none"
              \/ /\ r'.state = "RADIX_LOOKUP" /\ r'.error = "none" /\ r'.pgbase \in Bases
                 /\ r'.mask_size \in MinBits .. MaxBits
<1>0. r \in Registers /\ r.pgbase \in Bases
  BY DEF MmuInv, WalkInv
<1>1. SegmentCheck
  BY DEF MMU, Idle, DoTlbie, TlbWait, ProcTblRead, ProcTblWait, SegmentCheck,
         RadixLookup, RadixReadWait, RadixLoadTlb, RadixFinish
<1>2. \/ r' = Finish(v, "segerror") \/ r' = Finish(v, "badtree")
      \/ /\ ~(\/ r.mask_size < MinBits \/ r.mask_size > MaxBits
              \/ r.mask_size > r.shift + LowBits)
         /\ r' = [v EXCEPT !.shift = r.shift + LowBits - r.mask_size,
                           !.state = "RADIX_LOOKUP"]
  BY <1>1 DEF SegmentCheck
<1>3. CASE r' = Finish(v, "segerror") \/ r' = Finish(v, "badtree")
  <2> DEFINE s == v
  <2>1. PICK e \in Errors \ {"none"} : r' = Finish(s, e)
    BY <1>3 DEF Errors
  <2>2. s \in Registers /\ s.addr = r.addr /\ s.store = r.store
    BY <1>0, Cleared
  <2> HIDE DEF s
  <2>3. /\ r' \in Registers /\ r'.done = FALSE /\ r'.state = "RADIX_FINISH"
        /\ r'.error # "none" /\ r'.addr = s.addr /\ r'.store = s.store
    BY <2>1, <2>2, FinishError
  <2> QED BY <2>1, <2>2, <2>3
<1>4. CASE /\ ~(\/ r.mask_size < MinBits \/ r.mask_size > MaxBits
                \/ r.mask_size > r.shift + LowBits)
           /\ r' = [v EXCEPT !.shift = r.shift + LowBits - r.mask_size,
                             !.state = "RADIX_LOOKUP"]
  <2>1. r.mask_size \in MinBits .. MaxBits /\ r.shift + LowBits - r.mask_size \in Nat
    BY <1>0, <1>4, MmuAssumption DEF Registers
  <2> QED BY <1>0, <1>4, <2>1, Cleared DEF Registers, States
<1> QED BY <1>2, <1>3, <1>4

\* An entry is loaded if the access has its permissions; the walk goes on in
\* the next table if its sizes are right.
LEMMA RadixMoves ==
    ASSUME MmuInv, MMU, d.done, r.state = "RADIX_READ_WAIT"
    PROVE  /\ r' \in Registers /\ r'.done = FALSE
           /\ r'.addr = r.addr /\ r'.store = r.store
           /\ \/ r'.state = "RADIX_FINISH" /\ r'.error # "none"
              \/ /\ r'.state = "RADIX_LOOKUP" /\ r'.error = "none" /\ r'.pgbase \in Bases
                 /\ r'.mask_size \in MinBits .. MaxBits
              \/ /\ r'.state = "RADIX_LOAD_TLB" /\ r'.error = "none" /\ r'.pde \in Pte
                 /\ perm_ok(r'.pde, r.store) /\ rc_ok(r'.pde, r.store)
<1> DEFINE pde == d.data
           s == [v EXCEPT !.pde = pde]
<1>0. r \in Registers /\ pde \in Entries
  BY DEF MmuInv, PortInv
<1>1. /\ s \in Registers /\ s.done = FALSE /\ s.error = "none"
      /\ s.addr = r.addr /\ s.store = r.store /\ s.pde = pde /\ s.shift = r.shift
  BY <1>0, Cleared DEF Registers
<1>2. /\ pde.kind = "leaf" => pde \in Pte
      /\ pde.kind = "dir" => pde.mbits \in Nat /\ pde.base \in Bases
  BY <1>0, EntryFields
<1>3. \/ r' = Finish(s, "invalid")
      \/ r' = Finish(s, "perm_err")
      \/ r' = Finish(s, "rc_error")
      \/ r' = Finish(s, "badtree")
      \/ /\ pde.kind = "leaf" /\ perm_ok(pde, r.store) /\ rc_ok(pde, r.store)
         /\ r' = [s EXCEPT !.state = "RADIX_LOAD_TLB"]
      \/ /\ pde.kind = "dir"
         /\ ~(\/ pde.mbits < MinBits \/ pde.mbits > MaxBits \/ pde.mbits > r.shift)
         /\ r' = [s EXCEPT !.shift = s.shift - pde.mbits, !.mask_size = pde.mbits,
                           !.pgbase = pde.base, !.state = "RADIX_LOOKUP"]
  BY DEF MMU, Idle, DoTlbie, TlbWait, ProcTblRead, ProcTblWait, SegmentCheck,
         RadixLookup, RadixReadWait, RadixLoadTlb, RadixFinish
<1> HIDE DEF s, pde
<1>4. CASE \/ r' = Finish(s, "invalid")
           \/ r' = Finish(s, "perm_err")
           \/ r' = Finish(s, "rc_error")
           \/ r' = Finish(s, "badtree")
  <2>1. PICK e \in Errors \ {"none"} : r' = Finish(s, e)
    BY <1>4 DEF Errors
  <2>2. /\ r' \in Registers /\ r'.done = FALSE /\ r'.state = "RADIX_FINISH"
        /\ r'.error # "none" /\ r'.addr = s.addr /\ r'.store = s.store
    BY <1>1, <2>1, FinishError
  <2> QED BY <1>1, <2>1, <2>2
<1>5. CASE /\ pde.kind = "leaf" /\ perm_ok(pde, r.store) /\ rc_ok(pde, r.store)
           /\ r' = [s EXCEPT !.state = "RADIX_LOAD_TLB"]
  <2>1. /\ r' \in Registers /\ r'.done = FALSE /\ r'.error = "none"
        /\ r'.state = "RADIX_LOAD_TLB"
        /\ r'.addr = r.addr /\ r'.store = r.store /\ r'.pde = pde
    BY <1>1, <1>5 DEF Registers, States
  <2> QED BY <1>2, <1>5, <2>1
<1>6. CASE /\ pde.kind = "dir"
           /\ ~(\/ pde.mbits < MinBits \/ pde.mbits > MaxBits \/ pde.mbits > r.shift)
           /\ r' = [s EXCEPT !.shift = s.shift - pde.mbits, !.mask_size = pde.mbits,
                             !.pgbase = pde.base, !.state = "RADIX_LOOKUP"]
  <2>1. r.shift \in Nat
    BY <1>0 DEF Registers
  <2>2. /\ pde.mbits \in MinBits .. MaxBits /\ pde.mbits \in Nat /\ pde.base \in Bases
        /\ s.shift - pde.mbits \in Nat
    BY <1>1, <1>2, <1>6, <2>1, MmuAssumption
  <2>3. /\ r' \in Registers /\ r'.done = FALSE /\ r'.error = "none"
        /\ r'.state = "RADIX_LOOKUP" /\ r'.mask_size = pde.mbits /\ r'.pgbase = pde.base
        /\ r'.addr = r.addr /\ r'.store = r.store
    BY <1>1, <1>6, <2>2 DEF Registers, States
  <2> QED BY <2>2, <2>3
<1> QED BY <1>3, <1>4, <1>5, <1>6

LEMMA MmuMoves ==
    ASSUME MmuInv, MMU
    PROVE  r' \in Registers /\ WalkInv'
<1>0. r \in Registers /\ r.state \in States
  BY DEF MmuInv, Registers
<1>1. CASE r.state = "IDLE"
  BY <1>1, IdleMoves, InputType DEF WalkInv, Access, Mtspr
<1>2. CASE r.state \in {"DO_TLBIE", "PROC_TBL_READ", "RADIX_LOOKUP", "RADIX_LOAD_TLB",
                        "RADIX_FINISH"}
  BY <1>2, FixedMoves DEF WalkInv
<1>3. CASE r.state \in {"TLB_WAIT", "PROC_TBL_WAIT", "RADIX_READ_WAIT"} /\ ~d.done
  BY <1>0, <1>3, WaitMoves, Cleared DEF WalkInv
<1>4. CASE r.state = "TLB_WAIT" /\ d.done
  BY <1>4, TlbWaitMoves DEF WalkInv
<1>5. CASE r.state = "PROC_TBL_WAIT" /\ d.done
  BY <1>5, ProcTblMoves DEF WalkInv
<1>6. CASE r.state = "SEGMENT_CHECK"
  BY <1>6, SegmentMoves DEF WalkInv
<1>7. CASE r.state = "RADIX_READ_WAIT" /\ d.done
  BY <1>7, RadixMoves DEF WalkInv
<1> QED BY <1>0, <1>1, <1>2, <1>3, <1>4, <1>5, <1>6, <1>7 DEF States

-----------------------------------------------------------------------------
(* What the D-cache is asked.                                              *)

\* An instruction comes when nothing is left of those before it.
LEMMA ReadyQuiet ==
    ASSUME Sequential, MmuInv, Ready
    PROVE  cur = None /\ ls.state = "IDLE" /\ r.state \in {"IDLE", "RADIX_FINISH"}
<1>1. cur = None /\ idle = Gap /\ ls.state = "IDLE"
  BY DEF Ready, Sequential
<1>2. r.state # "DO_TLBIE" /\ r.state # "TLB_WAIT"
  BY <1>1, MmuAssumption DEF MmuInv, QuietInv, Sequential
<1> QED BY <1>1, <1>2 DEF MmuInv, QuietInv

LEMMA RetryWhen ==
    ASSUME MmuInv, retry
    PROVE  cur # None /\ cur.op \in Access /\ r.state = "RADIX_FINISH"
BY DEF MmuInv, WalkInv, QuietInv, UnitInv, retry

\* LoadStore1's request, by the state of the MMU.
LEMMA Asked ==
    ASSUME Sequential, NEW q, NEW m, NEW ack, Step(q, m, ack)
    PROVE  /\ q # None => d_in(q) = IF q.op \in Access THEN q ELSE Nothing
           /\ q = None => d_in(q) = IF retry THEN ls.ldst_r ELSE Nothing
           /\ r.state \notin {"IDLE", "RADIX_FINISH"} => q = None /\ d_in(q) = Nothing
           /\ q # None => ~retry
<1>1. q # None => ~retry
  BY ReadyQuiet, RetryWhen DEF Step
<1>2. r.state \notin {"IDLE", "RADIX_FINISH"} => q = None /\ ~retry
  BY ReadyQuiet, RetryWhen DEF Step
<1> QED BY <1>1, <1>2 DEF d_in

\* What stage 0 of the D-cache holds next.
LEMMA StageMoves ==
    ASSUME Sequential, NEW q, NEW m, NEW ack, Step(q, m, ack)
    PROVE  /\ r.state = "DO_TLBIE" =>
                r0' = [op |-> "tlbie", ea |-> r.addr, all |-> r.inval_all]
           /\ r.state = "RADIX_LOAD_TLB" =>
                r0' = [op |-> "tlbld", ea |-> r.addr, pte |-> pte]
           /\ r.state = "PROC_TBL_READ" => r0'.op = "read" /\ r0'.at \in Roots
           /\ r.state = "RADIX_LOOKUP" => r0'.op = "read" /\ r0'.at \in Slots
           /\ r.state \in {"IDLE", "RADIX_FINISH"} => r0' = d_in(q)
           /\ r.state = "SEGMENT_CHECK" => r0' = Nothing
           /\ r.state = "TLB_WAIT" => r0' = Nothing
           /\ r.state \in {"PROC_TBL_WAIT", "RADIX_READ_WAIT"} =>
                r0' = IF r0.op = "read" /\ ~ack THEN r0 ELSE Nothing
           /\ r0'.op \notin {"none", "read"} => tlb_way' = dtlb[TlbSet(r0'.ea)]
<1>1. /\ r \in Registers /\ WalkInv /\ PortInv
      /\ Stage0(q) /\ Answer(ack)
  BY DEF Step, MmuInv, Clock
<1>2. /\ r.state = "DO_TLBIE" =>
           m_in = [op |-> "tlbie", ea |-> r.addr, all |-> r.inval_all]
      /\ r.state = "RADIX_LOAD_TLB" => m_in = [op |-> "tlbld", ea |-> r.addr, pte |-> pte]
      /\ r.state = "PROC_TBL_READ" => m_in = [op |-> "read", at |-> prtb_adr]
      /\ r.state = "RADIX_LOOKUP" => m_in = [op |-> "read", at |-> pgtb_adr]
      /\ r.state \notin {"DO_TLBIE", "RADIX_LOAD_TLB", "PROC_TBL_READ", "RADIX_LOOKUP"} =>
           m_in = Nothing
  BY DEF m_in
<1>3. prtb_adr \in Roots
  BY <1>1, MmuAssumption DEF prtb_adr, effpid, Roots, Registers
<1>4. r.state = "RADIX_LOOKUP" => pgtb_adr \in Slots
  BY <1>1 DEF WalkInv, pgtb_adr, Slots
<1>5. d'.done = (ack \/ r0.op \in {"tlbie", "tlbld"})
  BY <1>1 DEF Answer
<1>6. r.state \notin {"PROC_TBL_WAIT", "RADIX_READ_WAIT"} => r0.op # "read"
  BY <1>1 DEF PortInv, Access
<1> DEFINE req == IF m_in.op # "none" THEN m_in ELSE d_in(q)
<1>7. /\ r0.op = "read" /\ ~ack => r0' = r0
      /\ ~(r0.op = "read" /\ ~ack) =>
           r0' = req /\ (req.op \notin {"none", "read"} => tlb_way' = dtlb[TlbSet(req.ea)])
  BY <1>1, <1>5 DEF Stage0
<1>8. /\ r.state \in {"IDLE", "RADIX_FINISH"} => req = d_in(q)
      /\ r.state \in {"SEGMENT_CHECK", "TLB_WAIT", "PROC_TBL_WAIT", "RADIX_READ_WAIT"} =>
           req = Nothing
      /\ r.state \in {"DO_TLBIE", "RADIX_LOAD_TLB", "PROC_TBL_READ", "RADIX_LOOKUP"} =>
           req = m_in
  BY <1>2, Asked DEF Nothing
<1> HIDE DEF req
<1> QED BY <1>2, <1>3, <1>4, <1>6, <1>7, <1>8

\* LoadStore1 asks again for what the D-cache has refused, and only that.
LEMMA AskedType ==
    ASSUME Sequential, NEW q, NEW m, NEW ack, Step(q, m, ack)
    PROVE  /\ d_in(q).op \in Access \cup {"none"}
           /\ d_in(q).op \in Access => d_in(q).ea \in Addrs
<1>1. CASE q # None
  <2>1. q \in Requests
    BY <1>1 DEF Step
  <2> QED BY <1>1, <2>1, Asked, InsnFields DEF Nothing, Access
<1>2. CASE q = None
  <2>1. retry => ls.ldst_r.op \in Access /\ ls.ldst_r.ea \in Addrs
    BY DEF Step, MmuInv, LoadStores
  <2> QED BY <1>2, <2>1, Asked DEF Nothing, Access
<1> QED BY <1>1, <1>2

LEMMA PortStep ==
    ASSUME Sequential, NEW q, NEW m, NEW ack, Step(q, m, ack)
    PROVE  PortInv'
<1>1. MmuInv /\ MMU /\ r.state \in States
  BY DEF Step, Clock, MmuInv, Registers
<1>2. /\ ack \/ r0.op \in {"tlbie", "tlbld"} => d'.done
      /\ ~ack /\ r0.op \notin {"tlbie", "tlbld"} => ~d'.done
      /\ ack => r0.op = "read" /\ d'.data = mem[r0.at]
  BY DEF Step, Clock, Answer
<1>3. mem \in Mems /\ PortInv
  BY DEF Step, MmuInv
<1>4. CASE r.state = "IDLE"
  <2>1. d'.done = FALSE /\ r0' = d_in(q)
    BY <1>2, <1>3, <1>4, StageMoves DEF PortInv, Access
  <2>2. /\ l_in.op \in Mtspr \cup {"tlbie"} \cup Access => d_in(q) = Nothing
        /\ l_in.op \in {"none", "tlbie"} \cup Mtspr \cup Access
    <3>1. l_in.op # "none" => cur # None /\ ~retry
      BY <1>1, <1>4, Input, RetryWhen DEF Nothing
    <3>2. l_in.op # "none" => q = None
      BY <3>1 DEF Step, Ready
    <3> QED BY <1>1, <3>1, <3>2, Asked, InputType DEF Mtspr, Access
  <2>3. /\ l_in.op = "none" => r'.state = "IDLE"
        /\ l_in.op # "none" => r'.state \in {"IDLE", "DO_TLBIE", "PROC_TBL_READ",
                                            "SEGMENT_CHECK", "RADIX_FINISH"}
    BY <1>1, <1>4, <2>2, IdleMoves
  <2>4. d_in(q).op \in Access \cup {"none"}
    BY AskedType
  <2> QED BY <2>1, <2>2, <2>3, <2>4 DEF PortInv, Nothing
<1>5. CASE r.state \in {"DO_TLBIE", "RADIX_LOAD_TLB"}
  <2>1. r0'.op \in {"tlbie", "tlbld"} /\ ~d'.done
    BY <1>2, <1>3, <1>5, StageMoves DEF PortInv
  <2>2. r'.state = "TLB_WAIT"
    BY <1>1, <1>5, FixedMoves
  <2> QED BY <2>1, <2>2 DEF PortInv
<1>6. CASE r.state \in {"PROC_TBL_READ", "RADIX_LOOKUP"}
  <2>1. /\ r0'.op = "read" /\ ~d'.done
        /\ r.state = "PROC_TBL_READ" => r0'.at \in Roots
        /\ r.state = "RADIX_LOOKUP" => r0'.at \in Slots
    BY <1>2, <1>3, <1>6, StageMoves DEF PortInv
  <2>2. r'.state = IF r.state = "PROC_TBL_READ" THEN "PROC_TBL_WAIT" ELSE "RADIX_READ_WAIT"
    BY <1>1, <1>6, FixedMoves
  <2> QED BY <1>6, <2>1, <2>2 DEF PortInv
<1>7. CASE r.state = "RADIX_FINISH"
  <2>1. r0'.op \in Access \cup {"none"} /\ ~d'.done
    BY <1>2, <1>3, <1>7, StageMoves, AskedType DEF PortInv
  <2>2. r'.state = "IDLE"
    BY <1>1, <1>7, FixedMoves
  <2> QED BY <2>1, <2>2 DEF PortInv
<1>8. CASE r.state = "SEGMENT_CHECK"
  <2>1. r0'.op = "none" /\ ~d'.done
    BY <1>2, <1>3, <1>8, StageMoves DEF PortInv, Nothing
  <2>2. r'.state \in {"RADIX_FINISH", "RADIX_LOOKUP"}
    BY <1>1, <1>8, SegmentMoves
  <2> QED BY <2>1, <2>2 DEF PortInv
<1>9. CASE r.state = "TLB_WAIT"
  <2>1. r0'.op = "none"
    BY <1>9, StageMoves DEF Nothing
  <2>2. d.done => ~d'.done /\ r'.state = "RADIX_FINISH"
    BY <1>1, <1>2, <1>3, <1>9, TlbWaitMoves DEF PortInv
  <2>3. ~d.done => d'.done /\ r'.state = "TLB_WAIT"
    BY <1>1, <1>2, <1>3, <1>9, WaitMoves, Cleared DEF PortInv, MmuInv
  <2> QED BY <2>1, <2>2, <2>3 DEF PortInv
<1>10. CASE r.state = "PROC_TBL_WAIT"
  <2>1. d.done => /\ ~d'.done /\ r0'.op = "none"
                  /\ r'.state \in {"RADIX_FINISH", "SEGMENT_CHECK"}
    <3>1. d.done => ~d'.done /\ r0'.op = "none"
      BY <1>2, <1>3, <1>10, StageMoves DEF PortInv, Nothing
    <3> QED BY <1>1, <1>10, <3>1, ProcTblMoves
  <2>2. ~d.done => /\ r'.state = "PROC_TBL_WAIT"
                   /\ r0.op = "read" /\ r0.at \in Roots /\ mem[r0.at] \in Tree
    BY <1>1, <1>3, <1>10, WaitMoves, Cleared, TablesAssumption DEF PortInv, MmuInv
  <2>3. ~d.done /\ ack => d'.done /\ d'.data \in Tree /\ r0'.op = "none"
    <3>1. ack => r0' = Nothing
      BY <1>10, StageMoves
    <3> QED BY <1>2, <2>2, <3>1 DEF Nothing
  <2>4. ~d.done /\ ~ack => ~d'.done /\ r0' = r0
    BY <1>2, <1>10, <2>2, StageMoves
  <2> QED BY <2>1, <2>2, <2>3, <2>4 DEF PortInv
<1>11. CASE r.state = "RADIX_READ_WAIT"
  <2>1. d.done => /\ ~d'.done /\ r0'.op = "none"
                  /\ r'.state \in {"RADIX_FINISH", "RADIX_LOOKUP", "RADIX_LOAD_TLB"}
    <3>1. d.done => ~d'.done /\ r0'.op = "none"
      BY <1>2, <1>3, <1>11, StageMoves DEF PortInv, Nothing
    <3> QED BY <1>1, <1>11, <3>1, RadixMoves
  <2>2. ~d.done => /\ r'.state = "RADIX_READ_WAIT"
                   /\ r0.op = "read" /\ r0.at \in Slots /\ mem[r0.at] \in Entries
    BY <1>1, <1>3, <1>11, WaitMoves, Cleared, TablesAssumption DEF PortInv, MmuInv
  <2>3. ~d.done /\ ack => d'.done /\ d'.data \in Entries /\ r0'.op = "none"
    <3>1. ack => r0' = Nothing
      BY <1>11, StageMoves
    <3> QED BY <1>2, <2>2, <3>1 DEF Nothing
  <2>4. ~d.done /\ ~ack => ~d'.done /\ r0' = r0
    BY <1>2, <1>11, <2>2, StageMoves
  <2> QED BY <2>1, <2>2, <2>3, <2>4 DEF PortInv
<1> QED BY <1>1, <1>4, <1>5, <1>6, <1>7, <1>8, <1>9, <1>10, <1>11 DEF States

-----------------------------------------------------------------------------
(* The TLB.                                                                *)

LEMMA SetRange == ASSUME NEW ea \in Addrs PROVE TlbSet(ea) \in 0 .. Sets - 1
<1>1. ea.p \in Nat /\ Sets \in Nat \ {0}
  BY MmuAssumption
<1> DEFINE p == ea.p
<1>2. p % Sets \in 0 .. Sets - 1
  <2> HIDE DEF p
  <2>1. p \in Nat /\ Sets \in Nat \ {0} => p % Sets \in 0 .. Sets - 1
    OBVIOUS
  <2> QED BY <1>1, <2>1 DEF p
<1> QED BY <1>2 DEF TlbSet

Unique(t) ==
    /\ DOMAIN t = 0 .. Sets - 1
    /\ \A s \in 0 .. Sets - 1 :
         /\ DOMAIN t[s] = 1 .. Ways
         /\ \A w, x \in 1 .. Ways : t[s][w].ea = t[s][x].ea /\ t[s][w].ea # None => w = x

\* The one way with the page, if there is one, is the hit way.
LEMMA OneHit ==
    ASSUME NEW t, Unique(t), NEW ea \in Addrs, NEW w \in 1 .. Ways,
           t[TlbSet(ea)][w].ea = ea
    PROVE  {x \in 1 .. Ways : t[TlbSet(ea)][x].ea = ea} = {w}
<1>1. TlbSet(ea) \in 0 .. Sets - 1 /\ ea # None
  BY SetRange, MmuAssumption
<1> QED BY <1>1 DEF Unique

LEMMA LastOf == ASSUME NEW w \in Nat
                PROVE  (CHOOSE x \in {w} : \A y \in {w} : y <= x) = w
OBVIOUS

LEMMA HitWay ==
    ASSUME Unique(dtlb), r0.ea \in Addrs, tlb_way = dtlb[TlbSet(r0.ea)],
           NEW w \in 1 .. Ways, tlb_way[w].ea = r0.ea
    PROVE  hits = {w} /\ tlb_hit_way = w
<1>1. hits = {w}
  BY OneHit DEF hits
<1> QED BY <1>1, LastOf DEF tlb_hit_way

LEMMA TlbShape == TlbInv <=> /\ Unique(dtlb)
                             /\ r0.op \notin {"none", "read"} =>
                                  r0.ea \in Addrs /\ tlb_way = dtlb[TlbSet(r0.ea)]
BY DEF TlbInv, Unique

\* An entry may be put where it is the only one of its page.
LEMMA PutEntry ==
    ASSUME NEW t, Unique(t), NEW s \in 0 .. Sets - 1, NEW w \in 1 .. Ways, NEW e,
           \A x \in 1 .. Ways : x # w => t[s][x].ea # e.ea \/ e.ea = None
    PROVE  Unique([t EXCEPT ![s][w] = e])
<1> DEFINE u == [t EXCEPT ![s][w] = e]
<1>1. /\ DOMAIN u = 0 .. Sets - 1
      /\ \A y \in 0 .. Sets - 1 : DOMAIN u[y] = 1 .. Ways
      /\ \A y \in 0 .. Sets - 1 : \A x \in 1 .. Ways :
            u[y][x] = IF y = s /\ x = w THEN e ELSE t[y][x]
  BY DEF Unique
<1> HIDE DEF u
<1>2. Unique(u)
  BY <1>1 DEF Unique
<1> QED BY <1>2 DEF u

\* Only a TLBIE and a load of the TLB change it; no page gets into two ways.
LEMMA TlbMoves ==
    ASSUME TlbInv, TlbUpdate
    PROVE  /\ Unique(dtlb')
           /\ r0.op \notin {"tlbie", "tlbld"} => dtlb' = dtlb
           /\ r0.op = "tlbld" =>
                \E w \in 1 .. Ways :
                   dtlb'[TlbSet(r0.ea)][w] = [ea |-> r0.ea, pte |-> r0.pte]
<1>0. Unique(dtlb)
  BY TlbShape
<1>1. r0.op \in {"tlbie", "tlbld"} =>
        /\ r0.ea \in Addrs /\ r0.ea # None /\ tlb_way = dtlb[TlbSet(r0.ea)]
        /\ TlbSet(r0.ea) \in 0 .. Sets - 1
  BY SetRange, MmuAssumption DEF TlbInv
<1>2. NoEntry.ea = None /\ \A w \in 1 .. Ways : NoEntries[w].ea = None
  BY DEF NoEntry, NoEntries
<1>3. DOMAIN NoEntries = 1 .. Ways
  BY DEF NoEntries
<1>4. ASSUME r0.op \in {"tlbie", "tlbld"}, NEW w \in hits
      PROVE  w \in 1 .. Ways /\ tlb_way[w].ea = r0.ea /\ tlb_hit_way = w /\ hits = {w}
  <2>1. w \in 1 .. Ways /\ tlb_way[w].ea = r0.ea
    BY DEF hits
  <2> QED BY <1>0, <1>1, <1>4, <2>1, HitWay
<1>5. CASE r0.op \notin {"tlbie", "tlbld"}
  BY <1>0, <1>5 DEF TlbUpdate
<1>6. CASE r0.op = "tlbie"
  <2>1. \/ dtlb' = [s \in DOMAIN dtlb |-> NoEntries]
        \/ hits # {} /\ dtlb' = [dtlb EXCEPT ![TlbSet(r0.ea)][tlb_hit_way] = NoEntry]
        \/ dtlb' = dtlb
    BY <1>6 DEF TlbUpdate, tlbie
  <2>2. CASE dtlb' = [s \in DOMAIN dtlb |-> NoEntries]
    BY <1>0, <1>2, <1>3, <1>6, <2>2 DEF Unique
  <2>3. CASE hits # {} /\ dtlb' = [dtlb EXCEPT ![TlbSet(r0.ea)][tlb_hit_way] = NoEntry]
    <3>1. tlb_hit_way \in 1 .. Ways
      BY <1>4, <1>6, <2>3
    <3> QED BY <1>0, <1>1, <1>2, <1>6, <2>3, <3>1, PutEntry
  <2> QED BY <1>0, <1>6, <2>1, <2>2, <2>3
<1>7. CASE r0.op = "tlbld"
  <2> DEFINE e == [ea |-> r0.ea, pte |-> r0.pte]
  <2>1. PICK w \in IF hits # {} THEN {tlb_hit_way} ELSE tlb_plru_victim :
           dtlb' = [dtlb EXCEPT ![TlbSet(r0.ea)][w] = e]
    BY <1>7 DEF TlbUpdate
  <2>2. w \in 1 .. Ways /\ (hits # {} => hits = {w})
    BY <1>4, <1>7, <2>1 DEF tlb_plru_victim
  <2>3. \A x \in 1 .. Ways : x # w => tlb_way[x].ea # r0.ea
    BY <2>2 DEF hits
  <2>4. e.ea = r0.ea
    OBVIOUS
  <2> HIDE DEF e
  <2>5. Unique(dtlb') /\ dtlb'[TlbSet(r0.ea)][w] = e
    <3> DEFINE s == TlbSet(r0.ea)
    <3>1. /\ s \in 0 .. Sets - 1 /\ w \in 1 .. Ways
          /\ \A x \in 1 .. Ways : x # w => dtlb[s][x].ea # e.ea \/ e.ea = None
      BY <1>1, <1>7, <2>2, <2>3, <2>4
    <3>2. dtlb' = [dtlb EXCEPT ![s][w] = e]
      BY <2>1
    <3> HIDE DEF s
    <3>3. Unique(dtlb')
      BY <1>0, <3>1, <3>2, PutEntry
    <3>4. dtlb'[s][w] = e
      BY <1>0, <3>1, <3>2 DEF Unique
    <3> QED BY <3>3, <3>4 DEF s
  <2> QED BY <1>7, <2>2, <2>5 DEF e
<1> QED BY <1>5, <1>6, <1>7

LEMMA TlbStep ==
    ASSUME Sequential, NEW q, NEW m, NEW ack, Step(q, m, ack)
    PROVE  TlbInv'
<1>1. /\ r \in Registers /\ r.state \in States /\ PortInv /\ TlbInv /\ TlbUpdate
      /\ r.addr \in Addrs
  BY DEF Step, Clock, MmuInv, Registers
<1>2. r0'.op \notin {"none", "read"} => r0.op \notin {"tlbie", "tlbld"} /\ r0'.ea \in Addrs
  <2>1. CASE r.state \in {"IDLE", "RADIX_FINISH"}
    BY <1>1, <2>1, StageMoves, AskedType DEF PortInv, Access
  <2>2. CASE r.state \in {"DO_TLBIE", "RADIX_LOAD_TLB"}
    BY <1>1, <2>2, StageMoves DEF PortInv
  <2>3. CASE r.state \in {"PROC_TBL_READ", "RADIX_LOOKUP", "SEGMENT_CHECK", "TLB_WAIT"}
    BY <2>3, StageMoves DEF Nothing
  <2>4. CASE r.state \in {"PROC_TBL_WAIT", "RADIX_READ_WAIT"}
    BY <2>4, StageMoves DEF Nothing
  <2> QED BY <1>1, <2>1, <2>2, <2>3, <2>4 DEF States
<1>3. /\ Unique(dtlb')
      /\ r0.op \notin {"tlbie", "tlbld"} => dtlb' = dtlb
  BY <1>1, TlbMoves
<1>4. r0'.op \notin {"none", "read"} => tlb_way' = dtlb[TlbSet(r0'.ea)]
  BY StageMoves
<1>5. r0'.op \notin {"none", "read"} => tlb_way' = dtlb'[TlbSet(r0'.ea)]
  BY <1>2, <1>3, <1>4
<1>6. TlbSet(r0'.ea) = TlbSet(r0.ea)'
  BY DEF TlbSet
<1> QED BY <1>2, <1>3, <1>5, <1>6 DEF TlbInv, Unique

-----------------------------------------------------------------------------
(* Who asks: nobody, the function unit, LoadStore1.                        *)

\* What the core and the units do in a clock without a new instruction.
LEMMA CoreMoves ==
    ASSUME MmuInv, NEW m, Core(None, m), FSMMMUStage(None)
    PROVE  /\ cur = None => cur' = None /\ fsm'.busy = FALSE
           /\ cur # None => idle' = 0
           /\ cur # None /\ cur.op \notin Access =>
                IF cur.op = "tlbie" /\ ~r.done
                THEN cur' = cur /\ fsm'.busy = TRUE /\ fsm'.op = cur
                ELSE cur' = None /\ fsm'.busy = FALSE
           /\ cur # None /\ cur.op \in Access =>
                /\ fsm'.busy = FALSE
                /\ cur' = IF \/ d.ls = "valid"
                             \/ ls.state = "MMU_LOOKUP" /\ r.error # "none"
                          THEN None ELSE cur
<1>1. CASE cur = None
  <2>1. ~fsm.busy /\ ~done
    BY <1>1 DEF MmuInv, QuietInv, done
  <2> QED BY <1>1, <2>1 DEF Core, FSMMMUStage, ends, accessed
<1>2. CASE cur # None /\ cur.op \notin Access
  <2>1. fsm.busy /\ fsm.op = cur /\ (done <=> (cur.op = "tlbie" => r.done))
    BY <1>2 DEF MmuInv, UnitInv, done
  <2> QED BY <1>2, <2>1 DEF Core, FSMMMUStage, ends, accessed
<1>3. CASE cur # None /\ cur.op \in Access
  <2>1. ~fsm.busy /\ ~done
    BY <1>3 DEF MmuInv, AccessInv, done
  <2> QED BY <1>3, <2>1 DEF Core, FSMMMUStage, ends, accessed
<1> QED BY <1>1, <1>2, <1>3

LEMMA LsMoves ==
    ASSUME LoadStore1(None)
    PROVE  /\ ls.state = "ACK_WAIT" /\ d.ls = "valid" =>
                ls' = [state |-> "IDLE", ldst_r |-> NoRequest]
           /\ ls.state = "ACK_WAIT" /\ d.ls = "error" =>
                ls' = [ls EXCEPT !.state = "MMU_LOOKUP"]
           /\ retry => ls' = [state |-> "ACK_WAIT", ldst_r |-> NoRequest]
           /\ ~retry /\ (ls.state = "ACK_WAIT" => d.ls \notin {"valid", "error"}) => ls' = ls
BY DEF LoadStore1, mmureq, retry

\* The D-cache answers accesses, and only those.
LEMMA AnswerMoves ==
    ASSUME NEW ack, Answer(ack)
    PROVE  /\ r0.op \notin Access => d'.ls = None
           /\ r0.op \in Access => d'.ls = IF granted THEN "valid" ELSE "error"
           /\ ack \/ r0.op \in {"tlbie", "tlbld"} => d'.done
           /\ ~ack /\ r0.op \notin {"tlbie", "tlbld"} => ~d'.done
BY DEF Answer

\* A new instruction.
LEMMA IssueStep ==
    ASSUME Sequential, NEW q, NEW m, NEW ack, Step(q, m, ack), q # None
    PROVE  QuietInv' /\ UnitInv' /\ AccessInv'
<1>1. /\ cur = None /\ ls.state = "IDLE" /\ r.state \in {"IDLE", "RADIX_FINISH"}
      /\ q \in Requests /\ q.op \in Op /\ MmuInv /\ MMU
      /\ q.op \in Access => q.ea \in Addrs
  BY ReadyQuiet, InsnFields DEF Step, Clock
<1>2. ~fsm.busy /\ r0.op \notin Access /\ ~done /\ d.ls = None /\ ~mmureq
  BY <1>1 DEF MmuInv, QuietInv, done, mmureq
<1>3. cur' = q
  BY DEF Step, Clock, Core
<1>4. r'.state = "IDLE" /\ r'.done = FALSE
  <2>1. l_in.op = "none"
    BY <1>1, Input DEF Nothing
  <2> QED BY <1>1, <2>1, IdleMoves, FixedMoves
<1>5. /\ r0' = IF q.op \in Access THEN q ELSE Nothing
      /\ d'.ls = None
  BY <1>1, <1>2, StageMoves, Asked, AnswerMoves DEF Step, Clock
<1>6. /\ q.op \in Access => fsm'.busy = FALSE
      /\ q.op \notin Access => fsm'.busy = TRUE /\ fsm'.op = q
  BY <1>2 DEF Step, Clock, FSMMMUStage
<1>7. ls' = IF q.op \in Access
            THEN [state |-> "ACK_WAIT", ldst_r |-> [op |-> q.op, ea |-> q.ea, virt |-> TRUE]]
            ELSE ls
  <2>1. ~retry
    BY Asked
  <2> QED BY <1>1, <1>2, <2>1 DEF Step, Clock, LoadStore1
<1>8. QuietInv'
  BY <1>1, <1>3, InsnFields DEF QuietInv
<1>9. UnitInv'
  BY <1>1, <1>3, <1>4, <1>5, <1>6, <1>7 DEF UnitInv, Nothing, Access
<1>10. AccessInv'
  BY <1>1, <1>3, <1>4, <1>5, <1>6, <1>7 DEF AccessInv
<1> QED BY <1>8, <1>9, <1>10

\* No instruction: what an MTSPR has left goes on.
LEMMA QuietStep ==
    ASSUME Sequential, NEW m, NEW ack, Step(None, m, ack), cur = None
    PROVE  QuietInv' /\ UnitInv' /\ AccessInv'
<1>1. /\ MmuInv /\ MMU /\ PortInv /\ r.state \in {"IDLE", "DO_TLBIE", "TLB_WAIT", "RADIX_FINISH"}
      /\ ls.state \in {"IDLE", "MMU_LOOKUP"} /\ r0.op \notin Access \cup {"tlbld"}
      /\ d.ls = None /\ idle \in 0 .. Gap
      /\ ls.state = "MMU_LOOKUP" => r.state = "IDLE"
      /\ r.state = "DO_TLBIE" => idle = 0
      /\ r.state = "TLB_WAIT" /\ ~d.done => idle <= 1
  BY DEF Step, Clock, MmuInv, QuietInv
<1>2. cur' = None /\ fsm'.busy = FALSE
  BY CoreMoves DEF Step, Clock
<1>3. idle' = IF idle < Gap THEN idle + 1 ELSE Gap
  BY DEF Step, Clock, Core
<1>4. l_in.op = "none" /\ ~retry /\ ~mmureq
  BY <1>1, Input, RetryWhen DEF Nothing, mmureq
<1>5. /\ r.state \in {"IDLE", "RADIX_FINISH"} => r'.state = "IDLE"
      /\ r.state = "DO_TLBIE" => r'.state = "TLB_WAIT"
      /\ r.state = "TLB_WAIT" => r'.state = IF d.done THEN "RADIX_FINISH" ELSE "TLB_WAIT"
  <2>1. r.state \in {"IDLE", "RADIX_FINISH"} => r'.state = "IDLE"
    BY <1>1, <1>4, IdleMoves, FixedMoves
  <2>2. r.state = "DO_TLBIE" => r'.state = "TLB_WAIT"
    BY <1>1, FixedMoves
  <2>3. r.state = "TLB_WAIT" => r'.state = IF d.done THEN "RADIX_FINISH" ELSE "TLB_WAIT"
    BY <1>1, TlbWaitMoves, WaitMoves, Cleared DEF MmuInv
  <2> QED BY <2>1, <2>2, <2>3
<1>6. r0'.op \notin Access \cup {"tlbld"}
  <2>1. d_in(None) = Nothing
    BY <1>4, Asked
  <2> QED BY <1>1, <2>1, StageMoves DEF Nothing, Access
<1>7. /\ d'.ls = None
      /\ r.state = "TLB_WAIT" /\ ~d.done => d'.done
      /\ r.state = "DO_TLBIE" => ~d'.done
  <2>1. r.state = "TLB_WAIT" /\ ~d.done => r0.op \in {"tlbie", "tlbld"}
    BY <1>1 DEF PortInv
  <2>2. r.state = "DO_TLBIE" => r0.op \notin {"tlbie", "tlbld", "read"}
    BY <1>1 DEF PortInv
  <2>3. Answer(ack) /\ (ack => r0.op = "read")
    BY DEF Step, Clock, Answer
  <2> QED BY <1>1, <2>1, <2>2, <2>3, AnswerMoves
<1>8. ls' = ls
  BY <1>1, <1>4 DEF Step, Clock, LoadStore1
<1>9. r'.state = "TLB_WAIT" => idle' <= (IF d'.done THEN 2 ELSE 1)
  <2>1. idle \in Nat /\ idle' <= idle + 1
    BY <1>1, <1>3, MmuAssumption
  <2>2. r.state = "DO_TLBIE" => ~d'.done /\ idle' <= 1
    BY <1>1, <1>7, <2>1
  <2>3. r.state = "TLB_WAIT" /\ ~d.done => d'.done /\ idle' <= 2
    <3> HIDE <1>3
    <3>1. idle <= 1 /\ idle \in Nat /\ idle' <= idle + 1 /\ idle' \in Nat => idle' <= 2
      OBVIOUS
    <3>2. idle' \in Nat
      BY <1>1, <1>3, MmuAssumption
    <3> QED BY <1>1, <1>7, <2>1, <3>1, <3>2
  <2> QED BY <1>1, <1>5, <2>2, <2>3
<1>10. QuietInv'
  BY <1>1, <1>2, <1>5, <1>6, <1>7, <1>8, <1>9 DEF QuietInv
<1> QED BY <1>2, <1>10 DEF UnitInv, AccessInv

\* The function unit's instruction: done at once, or when the MMU is.
LEMMA UnitStep ==
    ASSUME Sequential, NEW m, NEW ack, Step(None, m, ack),
           cur # None, cur.op \notin Access
    PROVE  QuietInv' /\ UnitInv' /\ AccessInv'
<1>1. /\ MmuInv /\ MMU /\ PortInv /\ WalkInv
      /\ r.state \in {"IDLE", "DO_TLBIE", "TLB_WAIT", "RADIX_FINISH"}
      /\ cur.op # "tlbie" => r.state = "IDLE"
      /\ ls.state = "IDLE" /\ r0.op \notin Access \cup {"tlbld"} /\ d.ls = None
      /\ cur.op \in Op
  BY InsnFields DEF Step, Clock, MmuInv, UnitInv
<1>2. /\ idle' = 0
      /\ IF cur.op = "tlbie" /\ ~r.done
         THEN cur' = cur /\ fsm'.busy = TRUE /\ fsm'.op = cur
         ELSE cur' = None /\ fsm'.busy = FALSE
  BY CoreMoves DEF Step, Clock
<1>3. ~retry /\ ~mmureq
  BY <1>1 DEF retry, mmureq
<1>4. l_in = IF cur.op = "local" THEN Nothing ELSE cur
  BY <1>1, Input
<1>5. /\ r.state = "IDLE" => r'.state \in {"IDLE", "DO_TLBIE"}
      /\ r.state = "RADIX_FINISH" => r'.state = "IDLE"
      /\ r.state = "DO_TLBIE" => r'.state = "TLB_WAIT"
      /\ r.state = "TLB_WAIT" => r'.state \in {"RADIX_FINISH", "TLB_WAIT"}
  <2>1. r.state = "IDLE" => r'.state \in {"IDLE", "DO_TLBIE"}
    BY <1>1, <1>4, IdleMoves DEF Nothing, Op, Access, Mtspr
  <2>2. r.state = "RADIX_FINISH" => r'.state = "IDLE"
    BY <1>1, FixedMoves
  <2>3. r.state = "DO_TLBIE" => r'.state = "TLB_WAIT"
    BY <1>1, FixedMoves
  <2>4. r.state = "TLB_WAIT" => r'.state \in {"RADIX_FINISH", "TLB_WAIT"}
    BY <1>1, TlbWaitMoves, WaitMoves, Cleared DEF MmuInv
  <2> QED BY <2>1, <2>2, <2>3, <2>4
<1>6. r0'.op \notin Access \cup {"tlbld"}
  <2>1. d_in(None) = Nothing
    BY <1>3, Asked
  <2> QED BY <1>1, <2>1, StageMoves DEF Nothing, Access
<1>7. d'.ls = None
  BY <1>1, AnswerMoves DEF Step, Clock
<1>8. ls' = ls
  BY <1>1, <1>3 DEF Step, Clock, LoadStore1
<1>9. CASE cur.op = "tlbie" /\ ~r.done
  BY <1>1, <1>2, <1>5, <1>6, <1>7, <1>8, <1>9 DEF QuietInv, UnitInv, AccessInv, Access
<1>10. CASE ~(cur.op = "tlbie" /\ ~r.done)
  <2>1. cur' = None /\ fsm'.busy = FALSE
    BY <1>2, <1>10
  <2>2. r'.state \in {"IDLE", "DO_TLBIE"}
    BY <1>1, <1>5, <1>10 DEF WalkInv
  <2> QED BY <1>1, <1>2, <1>6, <1>7, <1>8, <2>1, <2>2 DEF QuietInv, UnitInv, AccessInv
<1> QED BY <1>9, <1>10

\* LoadStore1 waits for the D-cache.
LEMMA AckStep ==
    ASSUME Sequential, NEW m, NEW ack, Step(None, m, ack),
           cur # None, cur.op \in Access, ls.state = "ACK_WAIT"
    PROVE  QuietInv' /\ UnitInv' /\ AccessInv'
<1>1. /\ MmuInv /\ MMU /\ r.state = "IDLE"
      /\ r0.op \in Access <=> d.ls = None
      /\ d.ls \in {None, "valid", "error"}
      /\ ls \in LoadStores /\ ls.ldst_r.op \in Access /\ ls.ldst_r.ea \in Addrs
      /\ ~ls.ldst_r.virt => d.ls # "error" /\ (r0.op \in Access => granted)
  BY DEF Step, Clock, MmuInv, AccessInv, LoadStores
<1>2. /\ fsm'.busy = FALSE /\ idle' = 0
      /\ cur' = IF d.ls = "valid" THEN None ELSE cur
  BY CoreMoves DEF Step, Clock
<1>3. ~retry
  BY DEF retry
<1>4. r0' = Nothing
  BY <1>1, <1>3, StageMoves, Asked
<1>5. /\ r0.op \notin Access => d'.ls = None
      /\ r0.op \in Access => d'.ls = IF granted THEN "valid" ELSE "error"
  BY AnswerMoves DEF Step, Clock
<1>6. None \notin {"valid", "error"}
  BY MmuAssumption
<1>7. CASE d.ls = None
  <2>1. r'.state = "IDLE"
    BY <1>1, <1>6, <1>7, Input, IdleMoves DEF mmureq, Nothing
  <2>2. ls' = ls /\ cur' = cur
    BY <1>2, <1>3, <1>6, <1>7 DEF Step, Clock, LoadStore1, mmureq
  <2>3. r0.op \in Access /\ d'.ls \in {"valid", "error"} /\ (granted => d'.ls = "valid")
    BY <1>1, <1>5, <1>7
  <2> QED BY <1>1, <1>2, <1>4, <1>6, <2>1, <2>2, <2>3
          DEF QuietInv, UnitInv, AccessInv, Nothing, Access
<1>8. CASE d.ls = "valid"
  <2>1. r'.state = "IDLE"
    BY <1>1, <1>8, Input, IdleMoves DEF mmureq, Nothing
  <2>2. ls'.state = "IDLE" /\ cur' = None /\ d'.ls = None
    BY <1>1, <1>2, <1>5, <1>6, <1>8, LsMoves DEF Step, Clock, NoRequest
  <2> QED BY <1>2, <1>4, <2>1, <2>2 DEF QuietInv, UnitInv, AccessInv, Nothing, Access
<1>9. CASE d.ls = "error"
  <2>1. ls.ldst_r.op \in Access /\ ls.ldst_r.ea \in Addrs /\ l_in = ls.ldst_r
    BY <1>1, <1>9, Input DEF mmureq
  <2>2. /\ r'.addr = ls.ldst_r.ea /\ r'.store = (ls.ldst_r.op = "store")
        /\ r'.done = FALSE
        /\ r'.state \in {"PROC_TBL_READ", "SEGMENT_CHECK", "RADIX_FINISH"}
    BY <1>1, <2>1, IdleMoves
  <2>3. ls'.state = "MMU_LOOKUP" /\ ls'.ldst_r = ls.ldst_r
    BY <1>1, <1>9, LsMoves DEF Step, Clock, LoadStores
  <2>4. cur' = cur /\ d'.ls = None
    BY <1>1, <1>2, <1>5, <1>6, <1>9
  <2> QED BY <1>2, <2>1, <2>2, <2>3, <2>4 DEF QuietInv, UnitInv, AccessInv
<1> QED BY <1>1, <1>7, <1>8, <1>9

LEMMA AccessOk ==
    ASSUME r \in Registers, r.pde \in Pte, perm_ok(r.pde, r.store), rc_ok(r.pde, r.store),
           NEW op \in Access, r.store = (op = "store")
    PROVE  access_ok(pte, op)
<1>1. /\ pte.priv = r.pde.priv /\ pte.rd = r.pde.rd /\ pte.wr = r.pde.wr
      /\ pte.ref = r.pde.ref /\ pte.chg = r.pde.chg
  BY DEF pte, Pte
<1> HIDE DEF pte
<1> QED BY <1>1 DEF perm_ok, rc_ok, access_ok, Access, Pte

\* LoadStore1 waits for the MMU: the walk ends in an error, or in an entry of
\* the TLB that the access hits when it is sent again.
LEMMA LookupStep ==
    ASSUME Sequential, NEW m, NEW ack, Step(None, m, ack),
           cur # None, cur.op \in Access, ls.state = "MMU_LOOKUP"
    PROVE  QuietInv' /\ UnitInv' /\ AccessInv'
<1> DEFINE ea == ls.ldst_r.ea
           op == ls.ldst_r.op
<1>1. /\ MmuInv /\ MMU /\ PortInv /\ WalkInv /\ TlbInv /\ TlbUpdate
      /\ op \in Access /\ ea \in Addrs
      /\ d.ls = None /\ r.state \in States \ {"IDLE", "DO_TLBIE"}
      /\ r \in Registers /\ r.addr = ea /\ r.store = (op = "store")
      /\ r.state = "TLB_WAIT" =>
           IF d.done THEN Loaded(ea, op)
           ELSE r0.op = "tlbld" /\ r0.ea = ea /\ access_ok(r0.pte, op)
      /\ r.done => Loaded(ea, op)
  BY DEF Step, Clock, MmuInv, AccessInv, LoadStores, Registers
<1>2. /\ fsm'.busy = FALSE /\ idle' = 0
      /\ cur' = IF r.error # "none" THEN None ELSE cur
  BY <1>1, CoreMoves, MmuAssumption DEF Step, Clock
<1>3. r0.op \notin Access
  BY <1>1 DEF PortInv, Access
<1>4. d'.ls = None
  BY <1>3, AnswerMoves DEF Step, Clock
<1>5. d_in(None) = IF retry THEN ls.ldst_r ELSE Nothing
  BY Asked
<1>6. retry <=> r.done
  BY DEF retry
<1>7. CASE r.state = "RADIX_FINISH" /\ r.error # "none"
  <2>1. ~r.done /\ r'.state = "IDLE" /\ r'.done = FALSE
    BY <1>1, <1>7, FixedMoves DEF WalkInv
  <2>2. r0' = Nothing
    BY <1>5, <1>6, <1>7, <2>1, StageMoves
  <2>3. ls' = ls
    BY <1>6, <2>1, LsMoves DEF Step, Clock
  <2> QED BY <1>2, <1>4, <1>7, <2>1, <2>2, <2>3 DEF QuietInv, UnitInv, AccessInv, Nothing, Access
<1>8. CASE r.state = "RADIX_FINISH" /\ r.error = "none"
  <2>1. r.done /\ r'.state = "IDLE" /\ r'.done = FALSE
    BY <1>1, <1>8, FixedMoves DEF WalkInv
  <2>2. r0' = ls.ldst_r /\ tlb_way' = dtlb[TlbSet(ea)]
    BY <1>1, <1>5, <1>6, <1>8, <2>1, StageMoves DEF Access
  <2>3. ls'.state = "ACK_WAIT" /\ ls'.ldst_r.virt = FALSE
    BY <1>6, <2>1, LsMoves DEF Step, Clock, NoRequest
  <2>4. granted'
    <3>1. PICK w \in 1 .. Ways : /\ dtlb[TlbSet(ea)][w].ea = ea
                                 /\ access_ok(dtlb[TlbSet(ea)][w].pte, op)
      BY <1>1, <2>1 DEF Loaded
    <3>2. /\ r0'.op = op /\ r0'.ea = ea
          /\ tlb_way'[w].ea = ea /\ access_ok(tlb_way'[w].pte, op)
      BY <2>2, <3>1
    <3>3. r0'.op \in Access /\ r0'.ea \in Addrs /\ Unique(dtlb')
          /\ tlb_way' = dtlb'[TlbSet(r0'.ea)]
      <4>1. TlbInv'
        BY TlbStep
      <4> QED BY <1>1, <3>2, <4>1 DEF TlbInv, Unique, Access
    <3>4. (hits = {w})'
      BY <3>2, <3>3, OneHit DEF hits
    <3>5. tlb_hit_way' = w
      BY <3>4, LastOf DEF tlb_hit_way
    <3>6. (hits # {})'
      BY <3>4
    <3>7. access_ok(tlb_way'[tlb_hit_way'].pte, r0'.op)
      BY <3>2, <3>5
    <3> QED BY <3>3, <3>6, <3>7 DEF granted, access_ok
  <2>5. cur' = cur /\ r0'.op \in Access
    BY <1>1, <1>2, <1>8, <2>2
  <2> QED BY <1>2, <1>4, <1>8, <2>1, <2>3, <2>4, <2>5, MmuAssumption
          DEF QuietInv, UnitInv, AccessInv
<1>9. CASE r.state # "RADIX_FINISH"
  <2>1. ~r.done /\ r.error = "none" /\ ~retry
    BY <1>1, <1>6, <1>9 DEF WalkInv
  <2>2. ls' = ls /\ cur' = cur
    BY <1>2, <2>1, LsMoves DEF Step, Clock
  <2>3. r'.addr = ea /\ r'.store = (op = "store") /\ r'.state \notin {"IDLE", "DO_TLBIE"}
    <3>1. CASE r.state \in {"PROC_TBL_READ", "RADIX_LOOKUP", "RADIX_LOAD_TLB"}
      BY <1>1, <3>1, FixedMoves
    <3>2. CASE r.state \in {"TLB_WAIT", "PROC_TBL_WAIT", "RADIX_READ_WAIT"} /\ ~d.done
      BY <1>1, <3>2, WaitMoves, Cleared
    <3>3. CASE r.state = "TLB_WAIT" /\ d.done
      BY <1>1, <3>3, TlbWaitMoves
    <3>4. CASE r.state = "PROC_TBL_WAIT" /\ d.done
      BY <1>1, <3>4, ProcTblMoves
    <3>5. CASE r.state = "SEGMENT_CHECK"
      BY <1>1, <3>5, SegmentMoves
    <3>6. CASE r.state = "RADIX_READ_WAIT" /\ d.done
      BY <1>1, <3>6, RadixMoves
    <3> QED BY <1>1, <1>9, <3>1, <3>2, <3>3, <3>4, <3>5, <3>6 DEF States
  <2>4. r'.state = "TLB_WAIT" =>
          \/ r.state = "RADIX_LOAD_TLB"
          \/ r.state = "TLB_WAIT" /\ ~d.done
    <3>1. CASE r.state \in {"PROC_TBL_READ", "RADIX_LOOKUP"}
      BY <1>1, <3>1, FixedMoves
    <3>2. CASE r.state \in {"PROC_TBL_WAIT", "RADIX_READ_WAIT"} /\ ~d.done
      BY <1>1, <3>2, WaitMoves, Cleared
    <3>3. CASE r.state = "TLB_WAIT" /\ d.done
      BY <1>1, <3>3, TlbWaitMoves
    <3>4. CASE r.state = "PROC_TBL_WAIT" /\ d.done
      BY <1>1, <3>4, ProcTblMoves
    <3>5. CASE r.state = "SEGMENT_CHECK"
      BY <1>1, <3>5, SegmentMoves
    <3>6. CASE r.state = "RADIX_READ_WAIT" /\ d.done
      BY <1>1, <3>6, RadixMoves
    <3> QED BY <1>1, <1>9, <3>1, <3>2, <3>3, <3>4, <3>5, <3>6 DEF States
  <2>5. r'.done => r.state = "TLB_WAIT" /\ d.done
    <3>1. CASE r.state \in {"PROC_TBL_READ", "RADIX_LOOKUP", "RADIX_LOAD_TLB"}
      BY <1>1, <3>1, FixedMoves
    <3>2. CASE r.state \in {"TLB_WAIT", "PROC_TBL_WAIT", "RADIX_READ_WAIT"} /\ ~d.done
      BY <1>1, <3>2, WaitMoves, Cleared
    <3>4. CASE r.state = "PROC_TBL_WAIT" /\ d.done
      BY <1>1, <3>4, ProcTblMoves
    <3>5. CASE r.state = "SEGMENT_CHECK"
      BY <1>1, <3>5, SegmentMoves
    <3>6. CASE r.state = "RADIX_READ_WAIT" /\ d.done
      BY <1>1, <3>6, RadixMoves
    <3> QED BY <1>1, <1>9, <3>1, <3>2, <3>4, <3>5, <3>6 DEF States
  <2>6. r.state = "RADIX_LOAD_TLB" =>
          ~d'.done /\ r0'.op = "tlbld" /\ r0'.ea = ea /\ access_ok(r0'.pte, op)
    <3>1. r.state = "RADIX_LOAD_TLB" => access_ok(pte, op)
      BY <1>1, AccessOk DEF WalkInv
    <3>2. r.state = "RADIX_LOAD_TLB" => ~d'.done
      <4>1. Answer(ack) /\ (ack => r0.op = "read")
        BY DEF Step, Clock, Answer
      <4> QED BY <1>1, <4>1, AnswerMoves DEF PortInv
    <3>3. r.state = "RADIX_LOAD_TLB" => r0' = [op |-> "tlbld", ea |-> r.addr, pte |-> pte]
      BY StageMoves
    <3> QED BY <1>1, <3>1, <3>2, <3>3
  <2>7. r.state = "TLB_WAIT" /\ ~d.done => d'.done /\ Loaded(ea, op)'
    <3> SUFFICES ASSUME r.state = "TLB_WAIT", ~d.done
                 PROVE  d'.done /\ Loaded(ea, op)'
      OBVIOUS
    <3>1. r0.op = "tlbld" /\ r0.ea = ea /\ access_ok(r0.pte, op)
      BY <1>1
    <3>2. PICK w \in 1 .. Ways : dtlb'[TlbSet(ea)][w] = [ea |-> r0.ea, pte |-> r0.pte]
      BY <1>1, <3>1, TlbMoves
    <3>3. ea' = ea /\ op' = op
      BY <2>2
    <3>4. d'.done
      BY <3>1, AnswerMoves DEF Step, Clock
    <3> HIDE DEF ea, op
    <3>5. dtlb'[TlbSet(ea)][w].ea = ea /\ access_ok(dtlb'[TlbSet(ea)][w].pte, op)
      BY <3>1, <3>2
    <3>6. TlbSet(ea)' = TlbSet(ea)
      BY <3>3 DEF TlbSet
    <3> QED BY <3>3, <3>4, <3>5, <3>6 DEF Loaded, access_ok
  <2>8. r.state = "TLB_WAIT" /\ d.done => Loaded(ea, op)'
    <3>1. r.state = "TLB_WAIT" /\ d.done => Loaded(ea, op) /\ dtlb' = dtlb
      BY <1>1, TlbMoves DEF PortInv
    <3>2. ea' = ea /\ op' = op
      BY <2>2
    <3> QED BY <3>1, <3>2 DEF Loaded, access_ok, TlbSet
  <2>9. r'.state = "TLB_WAIT" =>
          IF d'.done THEN Loaded(ea, op)'
          ELSE r0'.op = "tlbld" /\ r0'.ea = ea /\ access_ok(r0'.pte, op)
    BY <2>4, <2>6, <2>7
  <2>10. r'.done => Loaded(ea, op)'
    BY <2>5, <2>8
  <2>11. access_ok(r0'.pte, op) = access_ok(r0.pte, op)'
    BY <2>2 DEF access_ok
  <2>12. QuietInv' /\ UnitInv'
    BY <2>2 DEF QuietInv, UnitInv
  <2>13. AccessInv'
    BY <1>2, <1>4, <2>2, <2>3, <2>9, <2>10, <2>11 DEF AccessInv
  <2> QED BY <2>12, <2>13
<1> QED BY <1>7, <1>8, <1>9

-----------------------------------------------------------------------------
(* The theorem.                                                            *)

LEMMA MmuInvInit == ASSUME Init PROVE MmuInv
<1>1. r \in Registers
  BY MmuAssumption DEF Init, Registers, States, Errors, Zero
<1>2. WalkInv /\ PortInv
  BY DEF Init, WalkInv, PortInv, Nothing, Access
<1>3. TlbInv
  BY DEF Init, TlbInv, NoEntries, NoEntry, Nothing
<1>4. ls \in LoadStores
  BY MmuAssumption DEF Init, LoadStores, NoRequest, Zero, Access
<1>5. mem \in Mems /\ cur \in Requests \cup {None} /\ idle \in 0 .. Gap
  BY MmuAssumption DEF Init
<1>6. QuietInv /\ UnitInv /\ AccessInv
  BY DEF Init, QuietInv, UnitInv, AccessInv, Nothing, Access
<1> QED BY <1>1, <1>2, <1>3, <1>4, <1>5, <1>6 DEF MmuInv

LEMMA MmuInvStep ==
    ASSUME Sequential, NEW q, NEW m, NEW ack, Step(q, m, ack)
    PROVE  MmuInv'
<1>1. MmuInv /\ MMU /\ LoadStore1(q) /\ Core(q, m) /\ q \in Requests \cup {None} /\ m \in Mems
  BY DEF Step, Clock
<1>2. r' \in Registers /\ WalkInv'
  BY <1>1, MmuMoves
<1>3. PortInv' /\ TlbInv'
  BY PortStep, TlbStep
<1>4. ls' \in LoadStores
  <2>1. CASE q # None
    <3>1. q \in Requests /\ ls.state = "IDLE" /\ ls \in LoadStores
      BY <1>1, <2>1, ReadyQuiet DEF Step, MmuInv
    <3>2. ~mmureq /\ ~retry
      BY <3>1 DEF mmureq, retry
    <3>3. \/ ls' = ls
          \/ /\ q.op \in Access
             /\ ls' = [state |-> "ACK_WAIT",
                       ldst_r |-> [op |-> q.op, ea |-> q.ea, virt |-> TRUE]]
      BY <1>1, <2>1, <3>1, <3>2 DEF LoadStore1
    <3>4. q.op \in Access => q.ea \in Addrs
      BY <3>1, InsnFields
    <3>5. q.op \in Access =>
            [op |-> q.op, ea |-> q.ea, virt |-> TRUE] \in [op : Access, ea : Addrs, virt : BOOLEAN]
      BY <3>4
    <3> DEFINE new == [op |-> q.op, ea |-> q.ea, virt |-> TRUE]
    <3>6. new \in [op : Access, ea : Addrs, virt : BOOLEAN] =>
            [state |-> "ACK_WAIT", ldst_r |-> new] \in LoadStores
      <4> HIDE DEF new
      <4> QED BY DEF LoadStores
    <3> QED BY <3>1, <3>3, <3>5, <3>6
  <2>2. CASE q = None
    <3>1. ls \in LoadStores /\ LoadStore1(None)
      BY <1>1, <2>2 DEF MmuInv
    <3>2. NoRequest \in [op : Access, ea : Addrs, virt : BOOLEAN]
      BY MmuAssumption DEF NoRequest, Zero, Access
    <3>3. \/ ls' = [state |-> "IDLE", ldst_r |-> NoRequest]
          \/ ls' = [ls EXCEPT !.state = "MMU_LOOKUP"]
          \/ ls' = [state |-> "ACK_WAIT", ldst_r |-> NoRequest]
          \/ ls' = ls
      BY <3>1, LsMoves
    <3> QED BY <3>1, <3>2, <3>3 DEF LoadStores
  <2> QED BY <2>1, <2>2
<1>5. mem' \in Mems /\ cur' \in Requests \cup {None} /\ idle' \in 0 .. Gap
  <2>1. mem' = m /\ (cur' = q \/ cur' = None \/ cur' = cur)
    BY <1>1 DEF Core
  <2>2. idle' = 0 \/ (idle < Gap /\ idle' = idle + 1) \/ idle' = Gap
    BY <1>1 DEF Core
  <2>3. Gap \in Nat /\ idle \in 0 .. Gap
    BY <1>1, MmuAssumption DEF MmuInv
  <2> QED BY <1>1, <2>1, <2>2, <2>3 DEF MmuInv
<1>6. QuietInv' /\ UnitInv' /\ AccessInv'
  <2>1. CASE q # None
    BY <2>1, IssueStep
  <2>2. CASE q = None /\ cur = None
    BY <2>2, QuietStep
  <2>3. CASE q = None /\ cur # None /\ cur.op \notin Access
    BY <2>3, UnitStep
  <2>4. CASE q = None /\ cur # None /\ cur.op \in Access
    <3>1. ls.state \in {"ACK_WAIT", "MMU_LOOKUP"}
      BY <1>1, <2>4 DEF MmuInv, AccessInv
    <3> QED BY <2>4, <3>1, AckStep, LookupStep
  <2> QED BY <2>1, <2>2, <2>3, <2>4
<1> QED BY <1>2, <1>3, <1>4, <1>5, <1>6 DEF MmuInv

LEMMA MmuInvStays == ASSUME MmuInv, UNCHANGED hvars PROVE MmuInv'
<1> USE DEF hvars, vars, MmuInv
<1>1. r' \in Registers /\ WalkInv'
  BY DEF WalkInv
<1>2. PortInv'
  BY DEF PortInv
<1>3. TlbInv'
  BY DEF TlbInv, TlbSet
<1>4. /\ ls' \in LoadStores /\ mem' \in Mems /\ cur' \in Requests \cup {None}
      /\ idle' \in 0 .. Gap
  OBVIOUS
<1>5. QuietInv' /\ UnitInv'
  BY DEF QuietInv, UnitInv
<1>6. AccessInv'
  BY DEF AccessInv, Loaded, TlbSet, granted, hits, tlb_hit_way, access_ok
<1> QED BY <1>1, <1>2, <1>3, <1>4, <1>5, <1>6

\* The invariant holds for every set of addresses, tables and instructions, and
\* every size of the TLB (mmu.py, dcache.py, loadstore.py).
THEOREM MmuInvAlways == ASSUME Sequential PROVE HistSpec => []MmuInv
<1>1. HistInit => MmuInv
  BY MmuInvInit DEF HistInit
<1>2. MmuInv /\ [HistNext]_hvars => MmuInv'
  <2> SUFFICES ASSUME MmuInv, [HistNext]_hvars
               PROVE  MmuInv'
    OBVIOUS
  <2>1. CASE Next
    <3>1. PICK ack \in BOOLEAN :
            \/ Clock(None, mem, ack)
            \/ Ready /\ \E q \in Requests : Clock(q, mem, ack)
            \/ Ready /\ \E m \in Mems \ {mem} : Clock(None, m, ack)
      BY <2>1 DEF Next
    <3>2. mem \in Mems
      BY DEF MmuInv
    <3>3. \E q, m : Step(q, m, ack)
      BY <3>1, <3>2 DEF Step
    <3> QED BY <3>3, MmuInvStep
  <2>2. CASE UNCHANGED hvars
    BY <2>2, MmuInvStays
  <2> QED BY <2>1, <2>2 DEF HistNext
<1> QED BY <1>1, <1>2, PTL DEF HistSpec

\* After a successful walk the D-cache lets the access through: what the MMU
\* has loaded is what the second request finds, and it has the permissions
\* that the walk has checked (loadstore.py's MMU_LOOKUP, tlb_search).
THEOREM RetryGrantedAlways == ASSUME Sequential PROVE HistSpec => []RetryGranted
<1>1. MmuInv => RetryGranted
  BY InsnFields DEF MmuInv, QuietInv, UnitInv, AccessInv, RetryGranted
<1> QED BY <1>1, MmuInvAlways, PTL

-----------------------------------------------------------------------------
(* Translation.                                                            *)

\* The MMU has PID and PRTBL as the core set them last.
SprInv ==
    /\ spr \in [pid : Pids, prtbl : Prtbls]
    /\ r.pid = spr.pid /\ r.prtbl = spr.prtbl

\* It caches the process table entry of a half of the address space, unless the
\* core has changed it.
cached(ea) == IF top(ea) THEN r.pgtbl3 ELSE r.pgtbl0
RootsInv ==
    \A ea \in Addrs : top(ea) \in ptDirty \/ cached(ea) \in {None, RootOf(mem, spr, ea)}

\* A flush of the whole TLB is on its way.
Flushing == \/ r.state = "DO_TLBIE" /\ r.inval_all
            \/ r0.op = "tlbie" /\ r0.all

\* An entry is in the set of its page.
PlaceInv == \A s \in 0 .. Sets - 1, w \in 1 .. Ways :
              LET e == dtlb[s][w] IN e.ea = None \/ (e.ea \in Addrs /\ TlbSet(e.ea) = s)

\* The entries of the TLB are those of a walk, or it is about to lose them.
Right(e) == e.ea = None \/ e.ea \in dirty \/ e.pte = Walk(mem, spr, e.ea)
PtesInv == Flushing \/ \A s \in 0 .. Sets - 1, w \in 1 .. Ways : Right(dtlb[s][w])

\* What a TLBIE leaves in the TLB.
Invalidated(q) ==
    \A s \in 0 .. Sets - 1, w \in 1 .. Ways :
        dtlb[s][w].ea = None \/ (~q.all /\ dtlb[s][w].ea # q.ea)

\* What a TLBIE has done until it is done.
TlbieInv ==
    cur # None /\ cur.op = "tlbie" =>
      /\ r.state # "IDLE" /\ cur.ric2 => r.pgtbl0 = None /\ r.pgtbl3 = None
      /\ r.state = "DO_TLBIE" => r.addr = cur.ea /\ r.inval_all = cur.all
      /\ r.state = "TLB_WAIT" => IF d.done THEN Invalidated(cur)
                                 ELSE r0.ea = cur.ea /\ r0.all = cur.all
      /\ r.state = "RADIX_FINISH" => Invalidated(cur)

\* LoadStore1's request is the instruction's, until the retry.
OwnInv ==
    cur # None /\ cur.op \in Access =>
      /\ ls.state = "MMU_LOOKUP" => ls.ldst_r.virt
      /\ ls.ldst_r.virt => ls.ldst_r.ea = cur.ea /\ ls.ldst_r.op = cur.op

\* An entry on the way of r.addr's walk: what is below it is the translation.
OnWay(at) ==
    /\ at \in Slots
    /\ Walk(mem, spr, r.addr) = Below("addrsh", mem, r.addr)[r.shift][mem[at]]

\* How far a walk has come.
WayInv ==
    cur # None /\ cur.op \in Access /\ ls.state = "MMU_LOOKUP" =>
      /\ r.state = "PROC_TBL_WAIT" =>
           IF d.done THEN d.data = RootOf(mem, spr, r.addr) ELSE r0.at = prtb_adr
      /\ r.state = "RADIX_READ_WAIT" =>
           IF d.done THEN d.data = mem[pgtb_adr] ELSE r0.at = pgtb_adr
      /\ top(r.addr) \in ptDirty
         \/ /\ r.state = "SEGMENT_CHECK" =>
                 LET root == RootOf(mem, spr, r.addr)
                 IN  /\ root.mbits # 0 /\ r.shift = root.rts
                     /\ r.mask_size = root.mbits /\ r.pgbase = root.base
            /\ r.state \in {"RADIX_LOOKUP", "RADIX_READ_WAIT"} => OnWay(pgtb_adr)
            /\ r.state = "RADIX_LOAD_TLB" => pte = Walk(mem, spr, r.addr)
            /\ r.state = "TLB_WAIT" =>
                 /\ Outcome(Walk(mem, spr, r.addr), r.store) = "none"
                 /\ ~d.done => r0.pte = Walk(mem, spr, r.addr)
            /\ r.state = "RADIX_FINISH" =>
                 r.error = Outcome(Walk(mem, spr, r.addr), r.store)

TransInv == /\ MmuInv /\ SprInv /\ RootsInv /\ PlaceInv /\ PtesInv /\ TlbieInv /\ OwnInv /\ WayInv
            /\ dirty \subseteq Addrs

\* A clock, and what it makes of the history.
HStep(q, m, ack) ==
    /\ TransInv /\ HistNext
    /\ Step(q, m, ack) /\ (m # mem => Ready)

-----------------------------------------------------------------------------
(* What is below an entry is well defined.                                 *)

LEMMA LeastNotIn ==
    ASSUME NEW S, \A n \in Nat : (\A j \in 0 .. n - 1 : j \in S) => n \in S
    PROVE  Nat \subseteq S
<1>1. CASE Nat \ S = {}
  BY <1>1
<1>2. CASE Nat \ S # {}
  <2> DEFINE T == Nat \ S
  <2>1. T \subseteq Nat /\ T # {}
    BY <1>2
  <2> HIDE DEF T
  <2>2. PICK m \in T : \A k \in T : ~ (<<k, m>> \in OpToRel(<, Nat))
    BY <2>1, WFMin, NatLessThanWellFounded
  <2>3. m \in Nat /\ m \notin S
    BY DEF T
  <2>4. ASSUME NEW j \in 0 .. m - 1 PROVE j \in S
    <3>1. SUFFICES ASSUME j \in T PROVE FALSE
      BY <2>3 DEF T
    <3>2. <<j, m>> \in OpToRel(<, Nat)
      BY <2>3, SMT DEF OpToRel
    <3> QED BY <2>2, <3>1, <3>2
  <2> QED BY <2>3, <2>4
<1> QED BY <1>1, <1>2

EntriesOf(m) == {m[x] : x \in DOMAIN m} \cup {NoTable}

\* One level of Below, given the levels f under it.
Level(by, m, ea, f, left) ==
    [e \in EntriesOf(m) |->
       CASE e.kind = "none" -> [kind |-> "invalid"]
         [] e.kind = "leaf" ->
              [e EXCEPT !.page = (@ \div 2 ^ left) * 2 ^ left + (ea.p % 2 ^ left)]
         [] e.kind = "dir" /\ Bad(e.mbits, left) -> [kind |-> "badtree"]
         [] OTHER -> f[left - e.mbits][EntryAt(m,
                       <<e.base, IndexOf(by, ea, e.mbits, left - e.mbits)>>)]]

LEMMA EntriesType == ASSUME NEW m \in Mems PROVE EntriesOf(m) \subseteq Entries
BY TablesAssumption DEF EntriesOf, NoTable, Entries

LEMMA LevelLocal ==
    ASSUME NEW by, NEW m \in Mems, NEW ea, NEW left \in Nat, NEW f, NEW h,
           \A j \in 0 .. left - 1 : f[j] = h[j]
    PROVE  Level(by, m, ea, f, left) = Level(by, m, ea, h, left)
<1>1. ASSUME NEW e \in EntriesOf(m)
      PROVE  \/ e.kind \in {"none", "leaf"}
             \/ e.kind = "dir" /\ Bad(e.mbits, left)
             \/ e.kind = "dir" /\ f[left - e.mbits] = h[left - e.mbits]
  <2>1. e.kind \in {"none", "leaf", "dir"} /\ (e.kind = "dir" => e.mbits \in Nat)
    BY EntriesType, EntryFields
  <2>2. e.kind = "dir" /\ ~Bad(e.mbits, left) => left - e.mbits \in 0 .. left - 1
    BY <2>1, MmuAssumption DEF Bad
  <2> QED BY <2>1, <2>2
<1>2. ASSUME NEW e \in EntriesOf(m)
      PROVE  Level(by, m, ea, f, left)[e] = Level(by, m, ea, h, left)[e]
  BY <1>1 DEF Level
<1> QED BY <1>2 DEF Level

LEMMA BelowExists ==
    ASSUME NEW by, NEW m \in Mems, NEW ea
    PROVE  \E g : g = [left \in Nat |-> Level(by, m, ea, g, left)]
<1> DEFINE Ok(f, k) == f = [left \in 0 .. k |-> Level(by, m, ea, f, left)]
           Same(n) == \A f, h : \A i, k \in Nat :
                        Ok(f, i) /\ Ok(h, k) /\ n <= i /\ n <= k => f[n] = h[n]
<1>1. \A n \in Nat : Same(n)
  <2> DEFINE S == {n \in Nat : Same(n)}
  <2>1. ASSUME NEW n \in Nat, \A j \in 0 .. n - 1 : j \in S
        PROVE  n \in S
    <3> SUFFICES ASSUME NEW f, NEW h, NEW i \in Nat, NEW k \in Nat,
                        Ok(f, i), Ok(h, k), n <= i, n <= k
                 PROVE  f[n] = h[n]
      OBVIOUS
    <3>1. \A j \in 0 .. n - 1 : f[j] = h[j]
      <4> TAKE j \in 0 .. n - 1
      <4>1. j \in Nat /\ j <= i /\ j <= k /\ Same(j)
        BY <2>1
      <4> HIDE DEF Ok
      <4> QED BY <4>1
    <3>2. Level(by, m, ea, f, n) = Level(by, m, ea, h, n)
      <4> HIDE DEF Ok, Same, S
      <4> QED BY <3>1, LevelLocal
    <3>3. f[n] = Level(by, m, ea, f, n) /\ h[n] = Level(by, m, ea, h, n)
      BY n \in 0 .. i, n \in 0 .. k
    <3> QED BY <3>2, <3>3
  <2> HIDE DEF S
  <2>2. Nat \subseteq S
    BY <2>1, LeastNotIn
  <2> QED BY <2>2 DEF S
<1>2. \A n \in Nat : \E f : Ok(f, n)
  <2> DEFINE S == {n \in Nat : \E f : Ok(f, n)}
  <2>1. ASSUME NEW n \in Nat, \A j \in 0 .. n - 1 : j \in S
        PROVE  n \in S
    <3>1. CASE n = 0
      <4> DEFINE f == [left \in 0 .. 0 |-> Level(by, m, ea, <<>>, 0)]
      <4>1. Level(by, m, ea, <<>>, 0) = Level(by, m, ea, f, 0)
        <5> HIDE DEF f
        <5>1. \A j \in 0 .. 0 - 1 : <<>>[j] = f[j]
          OBVIOUS
        <5> QED BY <5>1, LevelLocal
      <4>2. Ok(f, 0)
        <5>1. f = [left \in 0 .. 0 |-> Level(by, m, ea, f, 0)]
          BY <4>1
        <5> HIDE DEF f
        <5>2. \A left \in 0 .. 0 : left = 0
          OBVIOUS
        <5> QED BY <5>1, <5>2
      <4> HIDE DEF Ok, f
      <4> QED BY <3>1, <4>2
    <3>2. CASE n # 0
      <4>1. n - 1 \in Nat /\ n - 1 \in S
        BY <2>1, <3>2
      <4>2. PICK f : Ok(f, n - 1)
        BY <4>1
      <4> DEFINE h == [left \in 0 .. n |-> IF left = n THEN Level(by, m, ea, f, n) ELSE f[left]]
      <4>3. \A left \in 0 .. n : h[left] = Level(by, m, ea, h, left)
        <5> TAKE left \in 0 .. n
        <5>1. \A j \in 0 .. left - 1 : f[j] = h[j]
          OBVIOUS
        <5>2. h[left] = Level(by, m, ea, f, left)
          BY <4>2
        <5> HIDE DEF h
        <5>3. Level(by, m, ea, f, left) = Level(by, m, ea, h, left)
          BY <5>1, LevelLocal
        <5> QED BY <5>2, <5>3
      <4>4. Ok(h, n)
        <5>1. h = [left \in 0 .. n |-> h[left]]
          OBVIOUS
        <5> HIDE DEF h
        <5> QED BY <4>3, <5>1
      <4> HIDE DEF Ok, h
      <4> QED BY <4>4
    <3> QED BY <3>1, <3>2
  <2> HIDE DEF S
  <2>2. Nat \subseteq S
    BY <2>1, LeastNotIn
  <2> QED BY <2>2 DEF S
<1> DEFINE F(n) == CHOOSE f : Ok(f, n)
           g == [left \in Nat |-> F(left)[left]]
<1>3. \A n \in Nat : Ok(F(n), n)
  BY <1>2
<1>4. \A left \in Nat : g[left] = Level(by, m, ea, g, left)
  <2> TAKE left \in Nat
  <2>1. F(left)[left] = Level(by, m, ea, F(left), left)
    <3> DEFINE f == F(left)
    <3>1. Ok(f, left)
      BY <1>3
    <3> HIDE DEF f
    <3>2. f[left] = Level(by, m, ea, f, left)
      BY <3>1
    <3> QED BY <3>2 DEF f
  <2>2. \A j \in 0 .. left - 1 : F(left)[j] = g[j]
    <3> TAKE j \in 0 .. left - 1
    <3>1. j \in Nat /\ j <= left /\ j <= j
      OBVIOUS
    <3> HIDE DEF F, Ok
    <3>2. Ok(F(left), left) /\ Ok(F(j), j)
      BY <1>3, <3>1
    <3> HIDE DEF Same
    <3>3. Same(j)
      BY <1>1, <3>1
    <3> QED BY <3>1, <3>2, <3>3 DEF Same
  <2> HIDE DEF F, g
  <2>3. Level(by, m, ea, F(left), left) = Level(by, m, ea, g, left)
    BY <2>2, LevelLocal
  <2>4. g[left] = F(left)[left]
    BY DEF g
  <2> QED BY <2>1, <2>3, <2>4
<1>5. g = [left \in Nat |-> g[left]]
  OBVIOUS
<1> HIDE DEF g
<1> QED BY <1>4, <1>5

\* Below is the function that it is defined as.
LEMMA BelowIs ==
    ASSUME NEW by, NEW m \in Mems, NEW ea, NEW left \in Nat, NEW e \in EntriesOf(m)
    PROVE  Below(by, m, ea)[left][e] = Level(by, m, ea, Below(by, m, ea), left)[e]
<1> DEFINE g == Below(by, m, ea)
<1>1. g = CHOOSE h : h = [k \in Nat |-> Level(by, m, ea, h, k)]
  BY DEF Below, Level, EntriesOf
<1>2. g = [k \in Nat |-> Level(by, m, ea, g, k)]
  <2>1. \E h : h = [k \in Nat |-> Level(by, m, ea, h, k)]
    BY BelowExists
  <2> HIDE DEF g
  <2> QED BY <1>1, <2>1
<1> HIDE DEF g
<1> QED BY <1>2 DEF g

-----------------------------------------------------------------------------
(* What the MMU keeps, and what it caches.                                 *)

\* The registers that outlive a walk.
Kept(s, t) == /\ s.pid = t.pid /\ s.prtbl = t.prtbl
              /\ s.pgtbl0 = t.pgtbl0 /\ s.pgtbl3 = t.pgtbl3

LEMMA FinishKeeps ==
    ASSUME NEW s \in Registers, NEW e \in Errors
    PROVE  Kept(Finish(s, e), s) /\ Finish(s, e).error = e
           /\ Finish(s, e).state = "RADIX_FINISH" /\ Finish(s, e).addr = s.addr
           /\ Finish(s, e).store = s.store
<1> DEFINE b == e = "none"
<1>1. Finish(s, e) = [s EXCEPT !.state = "RADIX_FINISH", !.error = e, !.done = b]
  BY DEF Finish
<1> HIDE DEF b
<1> QED BY <1>1 DEF Registers, Kept

LEMMA RootKeeps ==
    ASSUME NEW s \in Registers, s.done = FALSE, s.error = "none", NEW t \in Tree
    PROVE  /\ Kept(Root(s, t), s) /\ Root(s, t).addr = s.addr /\ Root(s, t).store = s.store
           /\ t.mbits = 0 => /\ Root(s, t).state = "RADIX_FINISH"
                             /\ Root(s, t).error = "invalid"
           /\ t.mbits # 0 => /\ Root(s, t).state = "SEGMENT_CHECK"
                             /\ Root(s, t).shift = t.rts /\ Root(s, t).mask_size = t.mbits
                             /\ Root(s, t).pgbase = t.base
<1> DEFINE u == [s EXCEPT !.shift = t.rts, !.mask_size = t.mbits, !.pgbase = t.base]
<1>1. /\ u \in Registers /\ Kept(u, s) /\ u.addr = s.addr /\ u.store = s.store
      /\ u.shift = t.rts /\ u.mask_size = t.mbits /\ u.pgbase = t.base
  BY TreeFields DEF Registers, Kept
<1>2. Root(s, t) = IF t.mbits = 0 THEN Finish(u, "invalid")
                   ELSE [u EXCEPT !.state = "SEGMENT_CHECK"]
  BY DEF Root
<1> HIDE DEF u
<1>3. CASE t.mbits = 0
  <2> DEFINE f == Finish(u, "invalid")
  <2>1. /\ Kept(f, u) /\ f.error = "invalid" /\ f.state = "RADIX_FINISH"
        /\ f.addr = u.addr /\ f.store = u.store
    BY <1>1, FinishKeeps, "invalid" \in Errors DEF Errors
  <2>2. Root(s, t) = f
    BY <1>2, <1>3
  <2> HIDE DEF f
  <2> QED BY <1>1, <1>3, <2>1, <2>2 DEF Kept
<1>4. CASE t.mbits # 0
  BY <1>1, <1>2, <1>4 DEF Registers, Kept
<1> QED BY <1>3, <1>4

LEMMA ClearedKeeps == ASSUME r \in Registers PROVE Kept(v, r)
BY DEF v, Kept, Registers

\* An access begins with the cached root of its half, or with none.
LEMMA TranslateKeeps ==
    ASSUME MmuInv, MMU, r.state = "IDLE", l_in.op \in Access
    PROVE  /\ Kept(r', r)
           /\ cached(l_in.ea) = None => r'.state = "PROC_TBL_READ"
           /\ LET t == cached(l_in.ea) IN t # None =>
                /\ t.mbits = 0 => r'.state = "RADIX_FINISH" /\ r'.error = "invalid"
                /\ t.mbits # 0 => /\ r'.state = "SEGMENT_CHECK"
                                  /\ r'.shift = t.rts /\ r'.mask_size = t.mbits
                                  /\ r'.pgbase = t.base
<1> DEFINE t == cached(l_in.ea)
           st == l_in.op = "store"
           s == [v EXCEPT !.addr = l_in.ea, !.store = st]
<1>1. r \in Registers /\ t \in Tree \cup {None} /\ l_in.ea \in Addrs
  BY InputType DEF MmuInv, Registers, cached
<1>2. r' = IF t = None THEN [s EXCEPT !.state = "PROC_TBL_READ"] ELSE Root(s, t)
  BY DEF MMU, Idle, DoTlbie, TlbWait, ProcTblRead, ProcTblWait, SegmentCheck, RadixLookup,
         RadixReadWait, RadixLoadTlb, RadixFinish, Translate, cached, Access, Mtspr
<1>3. s \in Registers /\ s.done = FALSE /\ s.error = "none" /\ Kept(s, v)
  <2>1. st \in BOOLEAN
    OBVIOUS
  <2> HIDE DEF st
  <2> QED BY <1>1, <2>1, Cleared DEF Registers, Kept
<1>4. Kept(v, r)
  BY <1>1, ClearedKeeps
<1> HIDE DEF s, t
<1>5. CASE t = None
  <2>1. r'.state = "PROC_TBL_READ" /\ Kept(r', s)
    BY <1>2, <1>3, <1>5 DEF Registers, Kept
  <2> QED BY <1>3, <1>4, <1>5, <2>1 DEF t, Kept
<1>6. CASE t # None
  <2>1. /\ r' = Root(s, t) /\ t \in Tree
    BY <1>1, <1>2, <1>6
  <2>2. /\ Kept(Root(s, t), s)
        /\ t.mbits = 0 => Root(s, t).state = "RADIX_FINISH" /\ Root(s, t).error = "invalid"
        /\ t.mbits # 0 => /\ Root(s, t).state = "SEGMENT_CHECK"
                          /\ Root(s, t).shift = t.rts /\ Root(s, t).mask_size = t.mbits
                          /\ Root(s, t).pgbase = t.base
    BY <1>3, <2>1, RootKeeps
  <2>3. Kept(r', r)
    BY <1>3, <1>4, <2>1, <2>2 DEF Kept
  <2> QED BY <1>6, <2>1, <2>2, <2>3 DEF t
<1> QED BY <1>5, <1>6

\* MTSPR and TLBIE drop the roots that they may have changed.
LEMMA MtsprKeeps ==
    ASSUME MmuInv, MMU, r.state = "IDLE", l_in.op \in Mtspr
    PROVE  /\ r'.state = "DO_TLBIE" /\ r'.inval_all = TRUE /\ r'.pgtbl0 = None
           /\ l_in.op = "mtpid" => /\ r'.pid = l_in.val /\ r'.prtbl = r.prtbl
                                   /\ r'.pgtbl3 = r.pgtbl3
           /\ l_in.op = "mtprtbl" => /\ r'.pid = r.pid /\ r'.prtbl = l_in.val
                                     /\ r'.pgtbl3 = None
<1>0. r \in Registers /\ v \in Registers /\ Kept(v, r)
  BY Cleared, ClearedKeeps DEF MmuInv
<1>1. r' = MoveToSpr
  BY DEF MMU, Idle, DoTlbie, TlbWait, ProcTblRead, ProcTblWait, SegmentCheck, RadixLookup,
         RadixReadWait, RadixLoadTlb, RadixFinish, Access, Mtspr
<1>2. CASE l_in.op = "mtpid"
  <2>1. r' = [v EXCEPT !.pid = l_in.val, !.prtbl = v.prtbl, !.pgtbl3 = v.pgtbl3,
                       !.pgtbl0 = None, !.inval_all = TRUE, !.state = "DO_TLBIE"]
    BY <1>1, <1>2 DEF MoveToSpr
  <2> QED BY <1>0, <1>2, <2>1 DEF Registers, Kept
<1>3. CASE l_in.op = "mtprtbl"
  <2>1. r' = [v EXCEPT !.pid = v.pid, !.prtbl = l_in.val, !.pgtbl3 = None,
                       !.pgtbl0 = None, !.inval_all = TRUE, !.state = "DO_TLBIE"]
    BY <1>1, <1>3 DEF MoveToSpr
  <2> QED BY <1>0, <1>3, <2>1 DEF Registers, Kept
<1> QED BY <1>2, <1>3 DEF Mtspr

LEMMA TlbieKeeps ==
    ASSUME MmuInv, MMU, r.state = "IDLE", l_in.op = "tlbie"
    PROVE  /\ r'.pid = r.pid /\ r'.prtbl = r.prtbl
           /\ r'.pgtbl0 \in {None, r.pgtbl0} /\ r'.pgtbl3 \in {None, r.pgtbl3}
           /\ r'.state = "DO_TLBIE" => /\ r'.addr = l_in.ea /\ r'.inval_all = l_in.all
                                       /\ l_in.ric2 => r'.pgtbl0 = None /\ r'.pgtbl3 = None
<1>0. r \in Registers /\ v \in Registers /\ Kept(v, r) /\ v.state = r.state
  BY Cleared, ClearedKeeps DEF MmuInv
<1>1. r' = Tlbie \/ r' = v
  BY DEF MMU, Idle, DoTlbie, TlbWait, ProcTblRead, ProcTblWait, SegmentCheck, RadixLookup,
         RadixReadWait, RadixLoadTlb, RadixFinish, Access, Mtspr
<1>2. CASE r' = v
  BY <1>0, <1>2 DEF Kept
<1>3. CASE r' = Tlbie
  <2>1. l_in.ea \in Addrs /\ l_in.all \in BOOLEAN /\ l_in.ric2 \in BOOLEAN
    BY InputType
  <2> QED BY <1>0, <1>3, <2>1 DEF Tlbie, Registers, Kept
<1> QED BY <1>1, <1>2, <1>3

LEMMA NothingKeeps ==
    ASSUME MmuInv, MMU, r.state = "IDLE", l_in.op = "none"
    PROVE  r' = v
BY DEF MMU, Idle, DoTlbie, TlbWait, ProcTblRead, ProcTblWait, SegmentCheck, RadixLookup,
       RadixReadWait, RadixLoadTlb, RadixFinish, Access, Mtspr

\* The process table entry that was read becomes the root of its half.
LEMMA ProcTblKeeps ==
    ASSUME MmuInv, MMU, r.state = "PROC_TBL_WAIT", d.done
    PROVE  /\ r'.pid = r.pid /\ r'.prtbl = r.prtbl /\ d.data \in Tree
           /\ r'.pgtbl3 = IF top(r.addr) THEN d.data ELSE r.pgtbl3
           /\ r'.pgtbl0 = IF top(r.addr) THEN r.pgtbl0 ELSE d.data
           /\ d.data.mbits = 0 => r'.state = "RADIX_FINISH" /\ r'.error = "invalid"
           /\ d.data.mbits # 0 => /\ r'.state = "SEGMENT_CHECK"
                                  /\ r'.shift = d.data.rts /\ r'.mask_size = d.data.mbits
                                  /\ r'.pgbase = d.data.base
<1> DEFINE t == d.data
           s == IF top(r.addr) THEN [v EXCEPT !.pgtbl3 = t] ELSE [v EXCEPT !.pgtbl0 = t]
<1>0. r \in Registers /\ t \in Tree /\ Kept(v, r)
  BY ClearedKeeps DEF MmuInv, PortInv
<1>1. r' = Root(s, t)
  BY DEF MMU, Idle, DoTlbie, TlbWait, ProcTblRead, ProcTblWait, SegmentCheck, RadixLookup,
         RadixReadWait, RadixLoadTlb, RadixFinish
<1> HIDE DEF t
<1>2. /\ s \in Registers /\ s.done = FALSE /\ s.error = "none"
      /\ s.pid = v.pid /\ s.prtbl = v.prtbl
      /\ s.pgtbl3 = IF top(r.addr) THEN t ELSE v.pgtbl3
      /\ s.pgtbl0 = IF top(r.addr) THEN v.pgtbl0 ELSE t
  BY <1>0, Cleared DEF Registers
<1> HIDE DEF s
<1>3. /\ Kept(Root(s, t), s)
      /\ t.mbits = 0 => Root(s, t).state = "RADIX_FINISH" /\ Root(s, t).error = "invalid"
      /\ t.mbits # 0 => /\ Root(s, t).state = "SEGMENT_CHECK"
                        /\ Root(s, t).shift = t.rts /\ Root(s, t).mask_size = t.mbits
                        /\ Root(s, t).pgbase = t.base
  BY <1>0, <1>2, RootKeeps
<1> QED BY <1>0, <1>1, <1>2, <1>3 DEF Kept, t

\* The checks of the tree.
LEMMA SegmentKeeps ==
    ASSUME MmuInv, MMU, r.state = "SEGMENT_CHECK"
    PROVE  /\ Kept(r', r)
           /\ LET far == r.addr.q \in {1, 2} \/ nonzero(r.addr.p, r.shift)
                  bad == Bad(r.mask_size, r.shift + LowBits)
              IN  /\ far => r'.state = "RADIX_FINISH" /\ r'.error = "segerror"
                  /\ ~far /\ bad => r'.state = "RADIX_FINISH" /\ r'.error = "badtree"
                  /\ ~far /\ ~bad => /\ r'.state = "RADIX_LOOKUP" /\ r'.pgbase = r.pgbase
                                     /\ r'.mask_size = r.mask_size
                                     /\ r'.shift = r.shift + LowBits - r.mask_size
<1> DEFINE far == r.addr.q \in {1, 2} \/ nonzero(r.addr.p, r.shift)
           bad == Bad(r.mask_size, r.shift + LowBits)
<1>0. /\ r \in Registers /\ v \in Registers /\ Kept(v, r) /\ v.pgbase = r.pgbase
      /\ v.mask_size = r.mask_size
  BY Cleared, ClearedKeeps DEF MmuInv
<1>1. /\ far => r' = Finish(v, "segerror")
      /\ ~far /\ bad => r' = Finish(v, "badtree")
      /\ ~far /\ ~bad => r' = [v EXCEPT !.shift = r.shift + LowBits - r.mask_size,
                                        !.state = "RADIX_LOOKUP"]
  BY DEF MMU, Idle, DoTlbie, TlbWait, ProcTblRead, ProcTblWait, SegmentCheck, RadixLookup,
         RadixReadWait, RadixLoadTlb, RadixFinish, Bad
<1> HIDE DEF far, bad
<1>2. CASE far \/ bad
  <2> DEFINE e == IF far THEN "segerror" ELSE "badtree"
             f == Finish(v, e)
  <2>1. e \in Errors
    BY DEF Errors
  <2>2. Kept(f, v) /\ f.error = e /\ f.state = "RADIX_FINISH"
    <3> HIDE DEF e
    <3> QED BY <1>0, <2>1, FinishKeeps
  <2>3. r' = f
    BY <1>1, <1>2
  <2>4. Kept(r', r) /\ r'.error = e /\ r'.state = "RADIX_FINISH"
    <3> HIDE DEF f
    <3> QED BY <1>0, <2>2, <2>3 DEF Kept
  <2> QED BY <1>2, <2>4 DEF far, bad
<1>3. CASE ~far /\ ~bad
  <2>1. r' = [v EXCEPT !.shift = r.shift + LowBits - r.mask_size, !.state = "RADIX_LOOKUP"]
    BY <1>1, <1>3
  <2>2. /\ Kept(r', r) /\ r'.state = "RADIX_LOOKUP" /\ r'.pgbase = r.pgbase
        /\ r'.mask_size = r.mask_size /\ r'.shift = r.shift + LowBits - r.mask_size
    BY <1>0, <2>1 DEF Registers, Kept
  <2> QED BY <1>3, <2>2 DEF far, bad
<1> QED BY <1>2, <1>3

\* A level of the walk.
LEMMA RadixKeeps ==
    ASSUME MmuInv, MMU, r.state = "RADIX_READ_WAIT", d.done
    PROVE  /\ Kept(r', r) /\ d.data \in Entries
           /\ LET pde == d.data
                  granting == perm_ok(pde, r.store)
                  marked == rc_ok(pde, r.store)
              IN  /\ pde.kind = "none" => r'.state = "RADIX_FINISH" /\ r'.error = "invalid"
                  /\ pde.kind = "leaf" =>
                       /\ ~granting => r'.state = "RADIX_FINISH" /\ r'.error = "perm_err"
                       /\ granting /\ ~marked =>
                            r'.state = "RADIX_FINISH" /\ r'.error = "rc_error"
                       /\ granting /\ marked =>
                            r'.state = "RADIX_LOAD_TLB" /\ r'.pde = pde /\ r'.shift = r.shift
                  /\ pde.kind = "dir" =>
                       IF Bad(pde.mbits, r.shift)
                       THEN r'.state = "RADIX_FINISH" /\ r'.error = "badtree"
                       ELSE /\ r'.state = "RADIX_LOOKUP" /\ r'.shift = r.shift - pde.mbits
                            /\ r'.mask_size = pde.mbits /\ r'.pgbase = pde.base
<1> DEFINE pde == d.data
           s == [v EXCEPT !.pde = pde]
           granting == perm_ok(pde, r.store)
           marked == rc_ok(pde, r.store)
           bad == Bad(pde.mbits, r.shift)
<1>0. r \in Registers /\ pde \in Entries /\ Kept(v, r)
  BY ClearedKeeps DEF MmuInv, PortInv
<1>1. s \in Registers /\ Kept(s, r) /\ s.shift = r.shift /\ s.pde = pde
  BY <1>0, Cleared DEF Registers, Kept
<1>2. /\ pde.kind = "none" => r' = Finish(s, "invalid")
      /\ pde.kind = "leaf" => /\ ~granting => r' = Finish(s, "perm_err")
                              /\ granting /\ ~marked => r' = Finish(s, "rc_error")
                              /\ granting /\ marked => r' = [s EXCEPT !.state = "RADIX_LOAD_TLB"]
      /\ pde.kind = "dir" =>
           IF bad THEN r' = Finish(s, "badtree")
           ELSE r' = [s EXCEPT !.shift = s.shift - pde.mbits, !.mask_size = pde.mbits,
                               !.pgbase = pde.base, !.state = "RADIX_LOOKUP"]
  BY DEF MMU, Idle, DoTlbie, TlbWait, ProcTblRead, ProcTblWait, SegmentCheck, RadixLookup,
         RadixReadWait, RadixLoadTlb, RadixFinish, Bad
<1>3. pde.kind \in {"none", "leaf", "dir"}
  BY <1>0, EntryFields
<1> HIDE DEF s, granting, marked, bad
<1>4. ASSUME NEW e \in {"invalid", "perm_err", "rc_error", "badtree"}, r' = Finish(s, e)
      PROVE  Kept(r', r) /\ r'.state = "RADIX_FINISH" /\ r'.error = e
  <2> DEFINE f == Finish(s, e)
  <2>1. Kept(f, s) /\ f.state = "RADIX_FINISH" /\ f.error = e
    BY <1>1, FinishKeeps DEF Errors
  <2> HIDE DEF f
  <2> QED BY <1>1, <1>4, <2>1 DEF Kept, f
<1>5. ASSUME r' = [s EXCEPT !.state = "RADIX_LOAD_TLB"]
      PROVE  Kept(r', r) /\ r'.state = "RADIX_LOAD_TLB" /\ r'.pde = pde /\ r'.shift = r.shift
  BY <1>1, <1>5 DEF Registers, Kept
<1>6. ASSUME r' = [s EXCEPT !.shift = s.shift - pde.mbits, !.mask_size = pde.mbits,
                            !.pgbase = pde.base, !.state = "RADIX_LOOKUP"]
      PROVE  /\ Kept(r', r) /\ r'.state = "RADIX_LOOKUP" /\ r'.shift = r.shift - pde.mbits
             /\ r'.mask_size = pde.mbits /\ r'.pgbase = pde.base
  BY <1>1, <1>6 DEF Registers, Kept
<1>7. CASE pde.kind = "none"
  BY <1>0, <1>2, <1>4, <1>7
<1>8. CASE pde.kind = "leaf"
  BY <1>0, <1>2, <1>4, <1>5, <1>8 DEF granting, marked
<1>9. CASE pde.kind = "dir"
  BY <1>0, <1>2, <1>4, <1>6, <1>9 DEF bad
<1> QED BY <1>3, <1>7, <1>8, <1>9

\* The other clocks.
LEMMA OtherKeeps ==
    ASSUME MmuInv, MMU,
           \/ r.state \in {"DO_TLBIE", "PROC_TBL_READ", "RADIX_LOOKUP", "RADIX_LOAD_TLB",
                           "RADIX_FINISH"}
           \/ r.state = "TLB_WAIT"
           \/ r.state \in {"PROC_TBL_WAIT", "RADIX_READ_WAIT"} /\ ~d.done
    PROVE  /\ Kept(r', r)
           /\ r.state # "RADIX_FINISH" =>
                /\ r'.shift = r.shift /\ r'.mask_size = r.mask_size /\ r'.pgbase = r.pgbase
                /\ r'.pde = r.pde
<1>0. /\ r \in Registers /\ v \in Registers /\ Kept(v, r)
      /\ v.shift = r.shift /\ v.mask_size = r.mask_size /\ v.pgbase = r.pgbase
      /\ v.pde = r.pde
  BY Cleared, ClearedKeeps DEF MmuInv
<1>1. CASE r.state = "RADIX_FINISH"
  <2>1. r' = [v EXCEPT !.state = "IDLE", !.addr = Zero, !.store = FALSE, !.shift = 0,
                       !.mask_size = 0, !.pgbase = None, !.pde = None]
    BY <1>1 DEF MMU, Idle, DoTlbie, TlbWait, ProcTblRead, ProcTblWait, SegmentCheck,
                RadixLookup, RadixReadWait, RadixLoadTlb, RadixFinish
  <2> QED BY <1>0, <1>1, <2>1 DEF Registers, Kept
<1>2. CASE r.state = "TLB_WAIT" /\ d.done
  <2>1. r' = Finish(v, "none")
    BY <1>2 DEF MMU, Idle, DoTlbie, TlbWait, ProcTblRead, ProcTblWait, SegmentCheck,
                RadixLookup, RadixReadWait, RadixLoadTlb, RadixFinish
  <2>2. r' = [v EXCEPT !.state = "RADIX_FINISH", !.error = "none", !.done = TRUE]
    BY <2>1 DEF Finish
  <2> QED BY <1>0, <2>2 DEF Registers, Kept
<1>3. CASE r.state # "RADIX_FINISH" /\ ~(r.state = "TLB_WAIT" /\ d.done)
  <2>1. \E s : r' = [v EXCEPT !.state = s]
    <3>1. v = [v EXCEPT !.state = v.state]
      BY <1>0 DEF Registers
    <3> QED BY <1>3, <3>1, Zenon DEF MMU, Idle, DoTlbie, TlbWait, ProcTblRead, ProcTblWait,
                SegmentCheck, RadixLookup, RadixReadWait, RadixLoadTlb, RadixFinish
  <2> QED BY <1>0, <2>1 DEF Registers, Kept
<1> QED BY <1>1, <1>2, <1>3

-----------------------------------------------------------------------------
(* What a clock does to the history.                                       *)

LEMMA MemMoves ==
    ASSUME NEW q, NEW m, NEW ack, HStep(q, m, ack)
    PROVE  mem' \in Mems /\ (cur # None => mem' = mem /\ q = None)
<1>1. mem' = m /\ m \in Mems /\ (q # None => Ready) /\ (m # mem => Ready)
  BY DEF HStep, Step, Clock, Core
<1> QED BY <1>1 DEF Ready

LEMMA DoneWhen ==
    ASSUME MmuInv
    PROVE  /\ done <=> cur # None /\ cur.op \notin Access /\ (cur.op = "tlbie" => r.done)
           /\ done => fsm.op = cur
<1>1. CASE cur = None
  BY <1>1 DEF MmuInv, QuietInv, done
<1>2. CASE cur # None /\ cur.op \notin Access
  BY <1>2 DEF MmuInv, UnitInv, done
<1>3. CASE cur # None /\ cur.op \in Access
  BY <1>3 DEF MmuInv, AccessInv, done
<1> QED BY <1>1, <1>2, <1>3

LEMMA SprMoves ==
    ASSUME NEW q, NEW m, NEW ack, HStep(q, m, ack)
    PROVE  /\ cur # None /\ cur.op = "mtpid" => spr' = [spr EXCEPT !.pid = cur.val]
           /\ cur # None /\ cur.op = "mtprtbl" => spr' = [spr EXCEPT !.prtbl = cur.val]
           /\ ~(cur # None /\ cur.op \in Mtspr) => spr' = spr
<1>1. MmuInv
  BY DEF HStep, TransInv
<1>2. spr' = CASE done /\ fsm.op.op = "mtpid" -> [spr EXCEPT !.pid = fsm.op.val]
               [] done /\ fsm.op.op = "mtprtbl" -> [spr EXCEPT !.prtbl = fsm.op.val]
               [] OTHER -> spr
  BY DEF HStep, Step, Clock, Core
<1> QED BY <1>1, <1>2, DoneWhen DEF Mtspr, Access

\* With no instruction in progress the tables may change.
LEMMA QuietHistory ==
    ASSUME NEW q, NEW m, NEW ack, HStep(q, m, ack), cur = None
    PROVE  /\ spr' = spr
           /\ dirty \subseteq dirty' /\ dirty' \subseteq Addrs
           /\ \A ea \in Addrs \ dirty' : Walk(mem', spr', ea) = Walk(mem, spr, ea)
           /\ ptDirty \subseteq ptDirty'
           /\ \A ea \in Addrs : top(ea) \notin ptDirty' =>
                RootOf(mem', spr', ea) = RootOf(mem, spr, ea)
<1>1. ~done /\ r0.op # "tlbld" /\ spr' = spr /\ dirty \subseteq Addrs
  BY DoneWhen, SprMoves DEF HStep, TransInv, MmuInv, QuietInv
<1>2. CASE mem' = mem
  <2>1. dirty' = dirty /\ ptDirty' = ptDirty
    BY <1>1, <1>2 DEF HStep, HistNext
  <2> QED BY <1>1, <1>2, <2>1
<1>3. CASE mem' # mem
  <2> DEFINE walks == {ea \in Addrs : \E by \in {"addrsh", "index"} :
                         WalkBy(by, mem', spr, ea) # WalkBy(by, mem, spr, ea)}
             roots == {top(ea) : ea \in {x \in Addrs : RootOf(mem', spr, x) # RootOf(mem, spr, x)}}
  <2>1. dirty' = dirty \cup walks /\ ptDirty' = ptDirty \cup roots
    BY <1>1, <1>3 DEF HStep, HistNext
  <2>2. /\ walks \subseteq Addrs
        /\ \A ea \in Addrs \ walks : Walk(mem', spr, ea) = Walk(mem, spr, ea)
        /\ \A ea \in Addrs : top(ea) \notin roots => RootOf(mem', spr, ea) = RootOf(mem, spr, ea)
    BY DEF Walk
  <2> HIDE DEF walks, roots
  <2> QED BY <1>1, <2>1, <2>2
<1> QED BY <1>2, <1>3

LEMMA AccessHistory ==
    ASSUME NEW q, NEW m, NEW ack, HStep(q, m, ack), cur # None, cur.op \in Access
    PROVE  /\ mem' = mem /\ spr' = spr /\ ptDirty' = ptDirty
           /\ dirty' = IF r0.op = "tlbld"
                       THEN IF top(r0.ea) \in ptDirty THEN dirty \cup {r0.ea} ELSE dirty \ {r0.ea}
                       ELSE dirty
<1>1. mem' = mem /\ spr' = spr /\ ~done
  BY MemMoves, SprMoves, DoneWhen DEF HStep, TransInv, Access, Mtspr
<1> QED BY <1>1 DEF HStep, HistNext

LEMMA UnitHistory ==
    ASSUME NEW q, NEW m, NEW ack, HStep(q, m, ack), cur # None, cur.op \notin Access
    PROVE  /\ mem' = mem
           /\ cur.op \in Mtspr => dirty' = {}
           /\ cur.op = "mtpid" => ptDirty' = ptDirty \ {FALSE}
           /\ cur.op = "mtprtbl" => ptDirty' = {}
           /\ cur.op = "tlbie" /\ r.done =>
                /\ dirty' = IF cur.all THEN {} ELSE dirty \ {cur.ea}
                /\ ptDirty' = IF cur.ric2 THEN {} ELSE ptDirty
           /\ cur.op = "local" \/ (cur.op = "tlbie" /\ ~r.done) =>
                dirty' = dirty /\ ptDirty' = ptDirty
<1>1. /\ mem' = mem /\ r0.op # "tlbld" /\ fsm.op = cur
      /\ done <=> (cur.op = "tlbie" => r.done)
  BY MemMoves, DoneWhen DEF HStep, TransInv, MmuInv, UnitInv
<1>2. cur.op \in Mtspr \cup {"tlbie", "local"}
  BY InsnFields DEF HStep, TransInv, MmuInv, Op
<1>3. dirty' = CASE done /\ cur.op = "tlbie" -> IF cur.all THEN {} ELSE dirty \ {cur.ea}
                 [] done /\ cur.op \in Mtspr -> {}
                 [] OTHER -> dirty
  BY <1>1, <1>2 DEF HStep, HistNext, Mtspr
<1>4. ptDirty' = CASE done /\ cur.op = "tlbie" /\ cur.ric2 -> {}
                   [] done /\ cur.op = "mtprtbl" -> {}
                   [] done /\ cur.op = "mtpid" -> ptDirty \ {FALSE}
                   [] OTHER -> ptDirty
  BY <1>1, <1>2 DEF HStep, HistNext, Mtspr
<1> QED BY <1>1, <1>2, <1>3, <1>4 DEF Mtspr

-----------------------------------------------------------------------------
(* PID, PRTBL and the roots.                                               *)

LEMMA Inputs ==
    ASSUME MmuInv
    PROVE  /\ cur = None => l_in.op = "none"
           /\ cur # None /\ cur.op \in Mtspr => l_in = cur /\ r.state = "IDLE"
           /\ cur # None /\ cur.op = "tlbie" => l_in = cur
           /\ cur # None /\ cur.op = "local" => l_in.op = "none" /\ r.state = "IDLE"
           /\ cur # None /\ cur.op \in Access /\ l_in.op # "none" =>
                l_in = ls.ldst_r /\ l_in.op \in Access /\ l_in.ea \in Addrs
<1>1. /\ cur # None /\ cur.op \in Mtspr \cup {"local"} => r.state = "IDLE"
      /\ ls.ldst_r.op \in Access /\ ls.ldst_r.ea \in Addrs
  BY DEF MmuInv, UnitInv, LoadStores, Access, Mtspr
<1> QED BY <1>1, Input DEF Nothing, Access, Mtspr

\* Only an MTSPR changes what the MMU walks from; the roots it caches go, or
\* come from the table.
LEMMA RootsKept ==
    ASSUME MmuInv, MMU, ~(cur # None /\ cur.op \in Mtspr)
    PROVE  /\ r'.pid = r.pid /\ r'.prtbl = r.prtbl
           /\ ~(r.state = "PROC_TBL_WAIT" /\ d.done) =>
                r'.pgtbl0 \in {None, r.pgtbl0} /\ r'.pgtbl3 \in {None, r.pgtbl3}
<1>1. r \in Registers /\ r.state \in States
  BY DEF MmuInv, Registers
<1>2. CASE r.state = "IDLE"
  <2>1. l_in.op \in {"none", "tlbie"} \cup Access
    <3>1. cur # None => cur.op \in Op
      BY InsnFields DEF MmuInv
    <3> QED BY <3>1, Inputs DEF Op, Access, Mtspr
  <2> QED BY <1>1, <1>2, <2>1, NothingKeeps, ClearedKeeps, TlbieKeeps, TranslateKeeps DEF Kept
<1>3. CASE r.state = "PROC_TBL_WAIT" /\ d.done
  BY <1>3, ProcTblKeeps
<1>4. CASE r.state = "SEGMENT_CHECK"
  BY <1>4, SegmentKeeps DEF Kept
<1>5. CASE r.state = "RADIX_READ_WAIT" /\ d.done
  BY <1>5, RadixKeeps DEF Kept
<1>6. CASE \/ r.state \in {"DO_TLBIE", "PROC_TBL_READ", "RADIX_LOOKUP", "RADIX_LOAD_TLB",
                           "RADIX_FINISH"}
           \/ r.state = "TLB_WAIT"
           \/ r.state \in {"PROC_TBL_WAIT", "RADIX_READ_WAIT"} /\ ~d.done
  BY <1>6, OtherKeeps DEF Kept
<1> QED BY <1>1, <1>2, <1>3, <1>4, <1>5, <1>6 DEF States

LEMMA SprStep ==
    ASSUME NEW q, NEW m, NEW ack, HStep(q, m, ack)
    PROVE  SprInv'
<1>1. /\ MmuInv /\ MMU /\ spr \in [pid : Pids, prtbl : Prtbls]
      /\ r.pid = spr.pid /\ r.prtbl = spr.prtbl
  BY DEF HStep, TransInv, Step, Clock, SprInv
<1>2. CASE cur # None /\ cur.op \in Mtspr
  <2>1. l_in = cur /\ r.state = "IDLE"
    BY <1>1, <1>2, Inputs
  <2>2. cur.op = "mtpid" \/ cur.op = "mtprtbl"
    BY <1>2 DEF Mtspr
  <2>3. /\ cur.op = "mtpid" => cur.val \in Pids
        /\ cur.op = "mtprtbl" => cur.val \in Prtbls
    BY <1>1, <1>2, InsnFields DEF MmuInv
  <2>4. /\ cur.op = "mtpid" => r'.pid = cur.val /\ r'.prtbl = r.prtbl
        /\ cur.op = "mtprtbl" => r'.pid = r.pid /\ r'.prtbl = cur.val
    BY <1>1, <1>2, <2>1, MtsprKeeps
  <2> QED BY <1>1, <1>2, <2>2, <2>3, <2>4, SprMoves DEF SprInv
<1>3. CASE ~(cur # None /\ cur.op \in Mtspr)
  BY <1>1, <1>3, RootsKept, SprMoves DEF SprInv
<1> QED BY <1>2, <1>3

\* The halves of the address space have a root each.
LEMMA RootOfHalf ==
    ASSUME NEW m, NEW s, NEW a, NEW b, top(a) = top(b)
    PROVE  RootOf(m, s, a) = RootOf(m, s, b)
BY DEF RootOf, effpid

LEMMA RootsStep ==
    ASSUME NEW q, NEW m, NEW ack, HStep(q, m, ack)
    PROVE  RootsInv'
<1>1. MmuInv /\ MMU /\ SprInv /\ RootsInv /\ TlbieInv /\ WayInv
  BY DEF HStep, TransInv, Step, Clock
<1> SUFFICES ASSUME NEW ea \in Addrs
             PROVE  top(ea) \in ptDirty' \/ cached(ea)' \in {None, RootOf(mem', spr', ea)}
  BY DEF RootsInv
<1>2. top(ea) \in ptDirty \/ cached(ea) \in {None, RootOf(mem, spr, ea)}
  BY <1>1 DEF RootsInv
<1>3. ASSUME ~(cur # None /\ cur.op \in Mtspr), ~(r.state = "PROC_TBL_WAIT" /\ d.done)
      PROVE  cached(ea)' \in {None, cached(ea)}
  BY <1>1, <1>3, RootsKept DEF cached
<1>4. CASE cur = None
  <2>1. ~(r.state = "PROC_TBL_WAIT" /\ d.done)
    BY <1>1, <1>4 DEF MmuInv, QuietInv
  <2> QED BY <1>2, <1>3, <1>4, <2>1, QuietHistory
<1>5. CASE cur # None /\ cur.op \in Mtspr
  <2>1. l_in = cur /\ r.state = "IDLE" /\ mem' = mem
    BY <1>1, <1>5, Inputs, MemMoves
  <2>2. CASE cur.op = "mtpid"
    <3>1. r'.pgtbl0 = None /\ r'.pgtbl3 = r.pgtbl3
      BY <1>1, <1>5, <2>1, <2>2, MtsprKeeps
    <3>2. ptDirty' = ptDirty \ {FALSE} /\ spr' = [spr EXCEPT !.pid = cur.val]
      BY <1>5, <2>2, UnitHistory, SprMoves DEF Access
    <3>3. CASE top(ea)
      <4>1. RootOf(mem', spr', ea) = RootOf(mem, spr, ea)
        BY <1>1, <2>1, <3>2, <3>3 DEF RootOf, effpid, SprInv
      <4> QED BY <1>2, <3>1, <3>2, <3>3, <4>1 DEF cached
    <3>4. CASE ~top(ea)
      BY <3>1, <3>4 DEF cached
    <3> QED BY <3>3, <3>4
  <2>3. CASE cur.op = "mtprtbl"
    <3>1. r'.pgtbl0 = None /\ r'.pgtbl3 = None
      BY <1>1, <1>5, <2>1, <2>3, MtsprKeeps
    <3> QED BY <3>1 DEF cached
  <2> QED BY <1>5, <2>2, <2>3 DEF Mtspr
<1>6. CASE cur # None /\ cur.op \notin Access \cup Mtspr
  <2>1. /\ ~(r.state = "PROC_TBL_WAIT" /\ d.done) /\ spr' = spr /\ mem' = mem
        /\ cur.op \in {"tlbie", "local"}
    BY <1>1, <1>6, InsnFields, SprMoves, MemMoves DEF MmuInv, UnitInv, Op
  <2>2. CASE cur.op = "tlbie" /\ r.done /\ cur.ric2
    <3>1. r.state = "RADIX_FINISH"
      BY <1>1, <2>2 DEF MmuInv, WalkInv
    <3>2. r.pgtbl0 = None /\ r.pgtbl3 = None
      BY <1>1, <1>6, <2>2, <3>1 DEF TlbieInv
    <3> QED BY <1>3, <1>6, <2>1, <3>2 DEF cached
  <2>3. CASE ~(cur.op = "tlbie" /\ r.done /\ cur.ric2)
    <3>1. ptDirty' = ptDirty
      BY <1>6, <2>1, <2>3, UnitHistory
    <3> QED BY <1>2, <1>3, <1>6, <2>1, <3>1
  <2> QED BY <2>2, <2>3
<1>7. CASE cur # None /\ cur.op \in Access
  <2>1. mem' = mem /\ spr' = spr /\ ptDirty' = ptDirty
    BY <1>7, AccessHistory
  <2>2. CASE r.state = "PROC_TBL_WAIT" /\ d.done
    <3>1. d.data = RootOf(mem, spr, r.addr)
      BY <1>1, <1>7, <2>2 DEF MmuInv, AccessInv, WayInv
    <3>2. CASE top(ea) = top(r.addr)
      <4>1. cached(ea)' = d.data
        BY <1>1, <2>2, <3>2, ProcTblKeeps DEF cached, top
      <4>2. RootOf(mem, spr, ea) = RootOf(mem, spr, r.addr)
        BY <3>2, RootOfHalf
      <4> QED BY <2>1, <3>1, <4>1, <4>2
    <3>3. CASE top(ea) # top(r.addr)
      <4>1. cached(ea)' = cached(ea)
        BY <1>1, <2>2, <3>3, ProcTblKeeps DEF cached, top
      <4> QED BY <1>2, <2>1, <4>1
    <3> QED BY <3>2, <3>3
  <2>3. CASE ~(r.state = "PROC_TBL_WAIT" /\ d.done)
    <3>1. cached(ea)' \in {None, cached(ea)}
      BY <1>3, <1>7, <2>3 DEF Access, Mtspr
    <3> QED BY <1>2, <2>1, <3>1
  <2> QED BY <2>2, <2>3
<1> QED BY <1>4, <1>5, <1>6, <1>7

-----------------------------------------------------------------------------
(* The entries of the TLB.                                                 *)

\* What a clock leaves in the TLB.
LEMMA TlbEntries ==
    ASSUME TlbInv, TlbUpdate, NEW s \in 0 .. Sets - 1, NEW w \in 1 .. Ways
    PROVE  /\ r0.op \notin {"tlbie", "tlbld"} => dtlb'[s][w] = dtlb[s][w]
           /\ r0.op = "tlbie" =>
                \/ dtlb'[s][w].ea = None
                \/ /\ ~r0.all /\ dtlb'[s][w] = dtlb[s][w]
                   /\ s = TlbSet(r0.ea) => dtlb[s][w].ea # r0.ea
           /\ r0.op = "tlbld" =>
                \/ /\ dtlb'[s][w] = dtlb[s][w]
                   /\ s = TlbSet(r0.ea) => dtlb[s][w].ea # r0.ea
                \/ s = TlbSet(r0.ea) /\ dtlb'[s][w] = [ea |-> r0.ea, pte |-> r0.pte]
<1>0. Unique(dtlb)
  BY TlbShape
<1>1. r0.op \in {"tlbie", "tlbld"} =>
        /\ r0.ea \in Addrs /\ tlb_way = dtlb[TlbSet(r0.ea)]
        /\ TlbSet(r0.ea) \in 0 .. Sets - 1
  BY SetRange DEF TlbInv
<1>2. ASSUME r0.op \in {"tlbie", "tlbld"}
      PROVE  \/ hits = {} /\ \A x \in 1 .. Ways : dtlb[TlbSet(r0.ea)][x].ea # r0.ea
             \/ /\ tlb_hit_way \in 1 .. Ways /\ hits = {tlb_hit_way}
                /\ \A x \in 1 .. Ways :
                     x # tlb_hit_way => dtlb[TlbSet(r0.ea)][x].ea # r0.ea
  <2>1. CASE hits = {}
    BY <1>1, <1>2, <2>1 DEF hits
  <2>2. CASE hits # {}
    <3>1. PICK x \in hits : TRUE
      BY <2>2
    <3>2. x \in 1 .. Ways /\ tlb_way[x].ea = r0.ea
      BY <3>1 DEF hits
    <3>3. hits = {x} /\ tlb_hit_way = x
      BY <1>0, <1>1, <1>2, <3>2, HitWay
    <3> QED BY <1>1, <1>2, <3>2, <3>3 DEF hits
  <2> QED BY <2>1, <2>2
<1>3. CASE r0.op \notin {"tlbie", "tlbld"}
  BY <1>3 DEF TlbUpdate
<1>4. CASE r0.op = "tlbie"
  <2>1. dtlb' = tlbie
    BY <1>4 DEF TlbUpdate
  <2>2. CASE r0.all
    BY <1>0, <1>4, <2>1, <2>2 DEF tlbie, Unique, NoEntries, NoEntry
  <2>3. CASE ~r0.all /\ hits = {}
    BY <1>2, <1>4, <2>1, <2>3 DEF tlbie
  <2>4. CASE ~r0.all /\ hits # {}
    <3> DEFINE h == tlb_hit_way
               t == TlbSet(r0.ea)
    <3>1. /\ dtlb' = [dtlb EXCEPT ![t][h] = NoEntry]
          /\ h \in 1 .. Ways /\ t \in 0 .. Sets - 1
          /\ \A x \in 1 .. Ways : x # h => dtlb[t][x].ea # r0.ea
      BY <1>1, <1>2, <1>4, <2>1, <2>4 DEF tlbie
    <3> HIDE DEF h, t
    <3>2. dtlb'[s][w] = IF s = t /\ w = h THEN NoEntry ELSE dtlb[s][w]
      BY <1>0, <3>1 DEF Unique
    <3> QED BY <1>4, <2>4, <3>1, <3>2 DEF NoEntry, t
  <2> QED BY <2>2, <2>3, <2>4
<1>5. CASE r0.op = "tlbld"
  <2> DEFINE t == TlbSet(r0.ea)
             e == [ea |-> r0.ea, pte |-> r0.pte]
  <2>1. PICK y \in IF hits # {} THEN {tlb_hit_way} ELSE tlb_plru_victim :
           dtlb' = [dtlb EXCEPT ![t][y] = e]
    BY <1>5 DEF TlbUpdate
  <2>2. /\ y \in 1 .. Ways /\ t \in 0 .. Sets - 1
        /\ \A x \in 1 .. Ways : x # y => dtlb[t][x].ea # r0.ea
    BY <1>1, <1>2, <1>5, <2>1 DEF tlb_plru_victim
  <2> HIDE DEF t, e
  <2>3. dtlb'[s][w] = IF s = t /\ w = y THEN e ELSE dtlb[s][w]
    BY <1>0, <2>1, <2>2 DEF Unique
  <2> QED BY <1>5, <2>2, <2>3 DEF t, e
<1> QED BY <1>3, <1>4, <1>5

LEMMA PlaceStep ==
    ASSUME NEW q, NEW m, NEW ack, HStep(q, m, ack)
    PROVE  PlaceInv'
<1>1. TlbInv /\ TlbUpdate /\ PlaceInv
  BY DEF HStep, TransInv, MmuInv, Step, Clock
<1> SUFFICES ASSUME NEW s \in 0 .. Sets - 1, NEW w \in 1 .. Ways
             PROVE  \/ dtlb'[s][w].ea = None
                    \/ dtlb'[s][w].ea \in Addrs /\ TlbSet(dtlb'[s][w].ea) = s
  BY DEF PlaceInv, TlbSet
<1>2. dtlb[s][w].ea = None \/ (dtlb[s][w].ea \in Addrs /\ TlbSet(dtlb[s][w].ea) = s)
  BY <1>1 DEF PlaceInv
<1>3. r0.op = "tlbld" => r0.ea \in Addrs
  BY <1>1 DEF TlbInv
<1> QED BY <1>1, <1>2, <1>3, TlbEntries

\* Only a walk loads the TLB.
LEMMA LoadsWhen ==
    ASSUME MmuInv, r0.op = "tlbld"
    PROVE  /\ cur # None /\ cur.op \in Access /\ ls.state = "MMU_LOOKUP"
           /\ r.state = "TLB_WAIT" /\ ~d.done /\ r0.ea = r.addr /\ r0.ea \in Addrs
<1>1. r.state = "TLB_WAIT" /\ ~d.done
  BY DEF MmuInv, PortInv, Registers, States, Access
<1>2. cur # None /\ cur.op \in Access
  BY DEF MmuInv, QuietInv, UnitInv
<1>3. ls.state = "MMU_LOOKUP"
  BY <1>1, <1>2 DEF MmuInv, AccessInv
<1> QED BY <1>1, <1>2, <1>3 DEF MmuInv, AccessInv, TlbInv

\* An entry that stays is still right.
LEMMA RightStays ==
    ASSUME NEW q, NEW m, NEW ack, HStep(q, m, ack), ~(cur # None /\ cur.op \in Mtspr),
           ~Flushing, NEW s \in 0 .. Sets - 1, NEW w \in 1 .. Ways,
           r0.op = "tlbld" => dtlb[s][w].ea # r0.ea
    PROVE  \/ dtlb[s][w].ea = None \/ dtlb[s][w].ea \in dirty'
           \/ dtlb[s][w].pte = Walk(mem', spr', dtlb[s][w].ea)
<1> DEFINE e == dtlb[s][w]
<1>1. MmuInv /\ PlaceInv /\ PtesInv /\ TlbieInv
  BY DEF HStep, TransInv
<1>2. /\ e.ea = None \/ e.ea \in Addrs
      /\ e.ea = None \/ e.ea \in dirty \/ e.pte = Walk(mem, spr, e.ea)
  BY <1>1 DEF PlaceInv, PtesInv, Right
<1>3. CASE cur = None
  <2> HIDE DEF e
  <2>1. \/ e.ea = None \/ e.ea \in dirty' \/ e.pte = Walk(mem', spr', e.ea)
    BY <1>2, <1>3, QuietHistory
  <2> QED BY <2>1 DEF e
<1>4. CASE cur # None /\ cur.op \in Access
  BY <1>2, <1>4, AccessHistory
<1>5. CASE cur # None /\ cur.op \notin Access
  <2>1. mem' = mem /\ spr' = spr /\ cur.op \in {"tlbie", "local"}
    BY <1>1, <1>5, SprMoves, UnitHistory, InsnFields DEF MmuInv, Op
  <2>2. CASE cur.op = "tlbie" /\ r.done
    <3>1. r.state = "RADIX_FINISH"
      BY <1>1, <2>2 DEF MmuInv, WalkInv
    <3>2. Invalidated(cur)
      BY <1>1, <1>5, <2>2, <3>1 DEF TlbieInv
    <3>3. e.ea = None \/ (~cur.all /\ e.ea # cur.ea)
      BY <3>2 DEF Invalidated
    <3> QED BY <1>2, <1>5, <2>1, <2>2, <3>3, UnitHistory
  <2>3. CASE ~(cur.op = "tlbie" /\ r.done)
    BY <1>2, <1>5, <2>1, <2>3, UnitHistory
  <2> QED BY <2>2, <2>3
<1> QED BY <1>3, <1>4, <1>5

LEMMA PtesStep ==
    ASSUME Sequential, NEW q, NEW m, NEW ack, HStep(q, m, ack)
    PROVE  PtesInv'
<1>1. MmuInv /\ MMU /\ TlbInv /\ TlbUpdate /\ PlaceInv /\ WayInv /\ Step(q, m, ack)
  BY DEF HStep, TransInv, MmuInv, Step, Clock
<1>2. CASE cur # None /\ cur.op \in Mtspr
  <2>1. r'.state = "DO_TLBIE" /\ r'.inval_all
    BY <1>1, <1>2, Inputs, MtsprKeeps
  <2> QED BY <2>1 DEF PtesInv, Flushing
<1>3. CASE r.state = "DO_TLBIE" /\ r.inval_all
  <2>1. r0'.op = "tlbie" /\ r0'.all
    BY <1>1, <1>3, StageMoves
  <2> QED BY <2>1 DEF PtesInv, Flushing
<1>4. CASE r0.op = "tlbie" /\ r0.all
  <2>1. \A s \in 0 .. Sets - 1, w \in 1 .. Ways : dtlb'[s][w].ea = None
    BY <1>1, <1>4, TlbEntries
  <2> QED BY <2>1 DEF PtesInv, Right
<1>5. CASE ~(cur # None /\ cur.op \in Mtspr) /\ ~Flushing
  <2> SUFFICES ASSUME NEW s \in 0 .. Sets - 1, NEW w \in 1 .. Ways
               PROVE  \/ dtlb'[s][w].ea = None \/ dtlb'[s][w].ea \in dirty'
                      \/ dtlb'[s][w].pte = Walk(mem', spr', dtlb'[s][w].ea)
    BY DEF PtesInv, Right
  <2>1. CASE r0.op # "tlbld"
    <3>1. dtlb'[s][w].ea = None \/ dtlb'[s][w] = dtlb[s][w]
      BY <1>1, <2>1, TlbEntries
    <3>2. \/ dtlb[s][w].ea = None \/ dtlb[s][w].ea \in dirty'
          \/ dtlb[s][w].pte = Walk(mem', spr', dtlb[s][w].ea)
      BY <1>5, <2>1, RightStays
    <3> QED BY <3>1, <3>2
  <2>2. CASE r0.op = "tlbld"
    <3>1. /\ cur # None /\ cur.op \in Access /\ ls.state = "MMU_LOOKUP"
          /\ r.state = "TLB_WAIT" /\ ~d.done /\ r0.ea = r.addr /\ r0.ea \in Addrs
      BY <1>1, <2>2, LoadsWhen
    <3>2. top(r0.ea) \in ptDirty \/ r0.pte = Walk(mem, spr, r0.ea)
      BY <1>1, <3>1 DEF WayInv
    <3>3. /\ mem' = mem /\ spr' = spr
          /\ dirty' = IF top(r0.ea) \in ptDirty THEN dirty \cup {r0.ea} ELSE dirty \ {r0.ea}
      BY <2>2, <3>1, AccessHistory
    <3>4. \/ dtlb'[s][w] = [ea |-> r0.ea, pte |-> r0.pte]
          \/ /\ dtlb'[s][w] = dtlb[s][w]
             /\ s = TlbSet(r0.ea) => dtlb[s][w].ea # r0.ea
      BY <1>1, <2>2, TlbEntries
    <3>5. CASE dtlb'[s][w] = [ea |-> r0.ea, pte |-> r0.pte]
      <4>1. dtlb'[s][w].ea = r0.ea /\ dtlb'[s][w].pte = r0.pte
        BY <3>5
      <4> QED BY <3>2, <3>3, <4>1
    <3>6. CASE /\ dtlb'[s][w] = dtlb[s][w]
               /\ s = TlbSet(r0.ea) => dtlb[s][w].ea # r0.ea
      <4>1. dtlb[s][w].ea = None \/ TlbSet(dtlb[s][w].ea) = s
        BY <1>1 DEF PlaceInv
      <4>2. dtlb[s][w].ea = None \/ dtlb[s][w].ea # r0.ea
        BY <3>6, <4>1
      <4>3. \/ dtlb[s][w].ea = None \/ dtlb[s][w].ea \in dirty'
            \/ dtlb[s][w].pte = Walk(mem', spr', dtlb[s][w].ea)
        <5>1. CASE dtlb[s][w].ea = None
          BY <5>1
        <5>2. CASE dtlb[s][w].ea # r0.ea
          BY <1>5, <5>2, RightStays
        <5> QED BY <4>2, <5>1, <5>2
      <4> QED BY <3>6, <4>3
    <3> QED BY <3>4, <3>5, <3>6
  <2> QED BY <2>1, <2>2
<1> QED BY <1>2, <1>3, <1>4, <1>5 DEF Flushing

-----------------------------------------------------------------------------
(* TLBIE, and LoadStore1's request.                                        *)

\* An instruction comes when the MMU has finished.
LEMMA IssueMoves ==
    ASSUME Sequential, NEW q, NEW m, NEW ack, Step(q, m, ack), q # None
    PROVE  /\ cur' = q /\ r'.state = "IDLE" /\ ls.state = "IDLE"
           /\ q.op \in Access =>
                ls' = [state |-> "ACK_WAIT", ldst_r |-> [op |-> q.op, ea |-> q.ea, virt |-> TRUE]]
<1>1. /\ MmuInv /\ MMU /\ cur = None /\ ls.state = "IDLE"
      /\ r.state \in {"IDLE", "RADIX_FINISH"} /\ LoadStore1(q) /\ Core(q, m)
  BY ReadyQuiet DEF Step, Clock
<1>2. l_in.op = "none"
  BY <1>1, Inputs
<1>3. r'.state = "IDLE"
  BY <1>1, <1>2, IdleMoves, FixedMoves
<1>4. ~mmureq /\ ~retry
  BY <1>1 DEF mmureq, retry
<1> QED BY <1>1, <1>3, <1>4 DEF LoadStore1, Core

\* TLBIE is done when the entries are gone.
LEMMA TlbieStep ==
    ASSUME Sequential, NEW q, NEW m, NEW ack, HStep(q, m, ack)
    PROVE  TlbieInv'
<1>1. /\ MmuInv /\ MMU /\ TlbInv /\ TlbUpdate /\ PortInv /\ PlaceInv /\ TlbieInv
      /\ Step(q, m, ack)
  BY DEF HStep, TransInv, MmuInv, Step, Clock
<1> SUFFICES ASSUME cur' # None, cur'.op = "tlbie"
             PROVE  /\ r'.state # "IDLE" /\ cur'.ric2 => r'.pgtbl0 = None /\ r'.pgtbl3 = None
                    /\ r'.state = "DO_TLBIE" => r'.addr = cur'.ea /\ r'.inval_all = cur'.all
                    /\ r'.state = "TLB_WAIT" =>
                         IF d'.done THEN Invalidated(cur)'
                         ELSE r0'.ea = cur'.ea /\ r0'.all = cur'.all
                    /\ r'.state = "RADIX_FINISH" => Invalidated(cur)'
  BY DEF TlbieInv
<1>2. CASE q # None
  <2>1. r'.state = "IDLE"
    BY <1>1, <1>2, IssueMoves
  <2> QED BY <2>1
<1>3. CASE q = None
  <2>1. cur # None /\ cur' = cur /\ cur.op = "tlbie" /\ ~r.done
    <3>1. Core(None, m) /\ FSMMMUStage(None)
      BY <1>1, <1>3 DEF Step, Clock
    <3> QED BY <1>1, <3>1, CoreMoves DEF Access
  <2>2. /\ r.state \in {"IDLE", "DO_TLBIE", "TLB_WAIT", "RADIX_FINISH"}
        /\ r0.op \notin Access \cup {"tlbld"} /\ l_in = cur
    BY <1>1, <2>1, Inputs DEF MmuInv, UnitInv, Access
  <2>3. /\ r0.op \notin Access => d'.ls = None
        /\ ack \/ r0.op \in {"tlbie", "tlbld"} => d'.done
        /\ ~ack /\ r0.op \notin {"tlbie", "tlbld"} => ~d'.done
        /\ ack => r0.op = "read"
    BY <1>1, AnswerMoves DEF Step, Clock, Answer
  <2>4. CASE r.state = "IDLE"
    <3>1. r'.state \in {"IDLE", "DO_TLBIE"}
      BY <1>1, <2>1, <2>2, <2>4, IdleMoves
    <3>2. r'.state = "DO_TLBIE" => /\ r'.addr = cur.ea /\ r'.inval_all = cur.all
                                   /\ cur.ric2 => r'.pgtbl0 = None /\ r'.pgtbl3 = None
      BY <1>1, <2>1, <2>2, <2>4, TlbieKeeps
    <3> QED BY <2>1, <3>1, <3>2
  <2>5. CASE r.state = "DO_TLBIE"
    <3>1. r'.state = "TLB_WAIT" /\ Kept(r', r)
      BY <1>1, <2>5, FixedMoves, OtherKeeps
    <3>2. r0'.ea = cur.ea /\ r0'.all = cur.all
      BY <1>1, <2>1, <2>5, StageMoves DEF TlbieInv
    <3>3. ~d'.done
      BY <1>1, <2>3, <2>5 DEF PortInv
    <3>4. cur.ric2 => r.pgtbl0 = None /\ r.pgtbl3 = None
      BY <1>1, <2>1, <2>5 DEF TlbieInv
    <3> QED BY <2>1, <3>1, <3>2, <3>3, <3>4 DEF Kept
  <2>6. CASE r.state = "TLB_WAIT" /\ ~d.done
    <3>1. r'.state = "TLB_WAIT" /\ Kept(r', r)
      BY <1>1, <2>6, WaitMoves, Cleared, OtherKeeps DEF MmuInv
    <3>2. r0.op = "tlbie" /\ r0.ea = cur.ea /\ r0.all = cur.all /\ d'.done
      BY <1>1, <2>1, <2>2, <2>3, <2>6 DEF PortInv, TlbieInv
    <3>3. cur.ric2 => r.pgtbl0 = None /\ r.pgtbl3 = None
      BY <1>1, <2>1, <2>6 DEF TlbieInv
    <3>4. Invalidated(cur)'
      <4> SUFFICES ASSUME NEW s \in 0 .. Sets - 1, NEW w \in 1 .. Ways
                   PROVE  dtlb'[s][w].ea = None \/ (~cur.all /\ dtlb'[s][w].ea # cur.ea)
        BY <2>1 DEF Invalidated
      <4>1. \/ dtlb'[s][w].ea = None
            \/ /\ ~r0.all /\ dtlb'[s][w] = dtlb[s][w]
               /\ s = TlbSet(r0.ea) => dtlb[s][w].ea # r0.ea
        BY <1>1, <3>2, TlbEntries
      <4>2. dtlb[s][w].ea = None \/ TlbSet(dtlb[s][w].ea) = s
        BY <1>1 DEF PlaceInv
      <4> QED BY <3>2, <4>1, <4>2
    <3> QED BY <2>1, <3>1, <3>2, <3>3, <3>4 DEF Kept
  <2>7. CASE r.state = "TLB_WAIT" /\ d.done
    <3>1. r'.state = "RADIX_FINISH" /\ Kept(r', r)
      BY <1>1, <2>7, TlbWaitMoves, OtherKeeps
    <3>2. Invalidated(cur)'
      <4>1. dtlb' = dtlb
        BY <1>1, <2>7, TlbMoves DEF PortInv
      <4> QED BY <1>1, <2>1, <2>7, <4>1 DEF TlbieInv, Invalidated
    <3>3. cur.ric2 => r.pgtbl0 = None /\ r.pgtbl3 = None
      BY <1>1, <2>1, <2>7 DEF TlbieInv
    <3> QED BY <2>1, <3>1, <3>2, <3>3 DEF Kept
  <2>8. CASE r.state = "RADIX_FINISH"
    <3>1. r'.state = "IDLE"
      BY <1>1, <2>8, FixedMoves
    <3> QED BY <3>1
  <2> QED BY <2>2, <2>4, <2>5, <2>6, <2>7, <2>8
<1> QED BY <1>2, <1>3

LEMMA OwnStep ==
    ASSUME Sequential, NEW q, NEW m, NEW ack, HStep(q, m, ack)
    PROVE  OwnInv'
<1>1. /\ MmuInv /\ OwnInv /\ Step(q, m, ack)
  BY DEF HStep, TransInv, Step
<1> SUFFICES ASSUME cur' # None, cur'.op \in Access
             PROVE  /\ ls'.state = "MMU_LOOKUP" => ls'.ldst_r.virt
                    /\ ls'.ldst_r.virt => ls'.ldst_r.ea = cur'.ea /\ ls'.ldst_r.op = cur'.op
  BY DEF OwnInv
<1>2. CASE q # None
  BY <1>1, <1>2, IssueMoves
<1>3. CASE q = None
  <2>1. cur # None /\ cur' = cur /\ cur.op \in Access /\ d.ls # "valid"
    <3>1. Core(None, m) /\ FSMMMUStage(None)
      BY <1>1, <1>3 DEF Step, Clock
    <3>2. cur # None /\ cur.op \in Access
      BY <1>1, <3>1, CoreMoves
    <3> QED BY <1>1, <3>1, <3>2, CoreMoves
  <2>2. /\ ls.state \in {"ACK_WAIT", "MMU_LOOKUP"}
        /\ ls.state = "ACK_WAIT" /\ d.ls = "error" => ls.ldst_r.virt
        /\ ls.state = "ACK_WAIT" => d.ls \in {None, "valid", "error"}
        /\ ls \in LoadStores
    BY <1>1, <2>1 DEF MmuInv, AccessInv
  <2>3. LoadStore1(None)
    BY <1>1, <1>3 DEF Step, Clock
  <2>4. /\ ls.state = "MMU_LOOKUP" => ls.ldst_r.virt
        /\ ls.ldst_r.virt => ls.ldst_r.ea = cur.ea /\ ls.ldst_r.op = cur.op
    BY <1>1, <2>1 DEF OwnInv
  <2>5. CASE ls.state = "ACK_WAIT" /\ d.ls = "error"
    <3>1. ls'.ldst_r = ls.ldst_r
      BY <2>2, <2>3, <2>5, LsMoves DEF LoadStores
    <3> QED BY <2>1, <2>2, <2>4, <2>5, <3>1
  <2>6. CASE retry
    <3>1. ls' = [state |-> "ACK_WAIT", ldst_r |-> NoRequest]
      BY <2>3, <2>6, LsMoves
    <3> QED BY <3>1 DEF NoRequest
  <2>7. CASE ~retry /\ ~(ls.state = "ACK_WAIT" /\ d.ls = "error")
    <3>1. ls' = ls
      BY <2>1, <2>2, <2>3, <2>7, LsMoves
    <3> QED BY <2>1, <2>4, <3>1
  <2> QED BY <2>5, <2>6, <2>7
<1> QED BY <1>2, <1>3

LEMMA DirtyStep ==
    ASSUME NEW q, NEW m, NEW ack, HStep(q, m, ack)
    PROVE  dirty' \subseteq Addrs
<1>1. MmuInv /\ dirty \subseteq Addrs
  BY DEF HStep, TransInv
<1>2. CASE cur = None
  BY <1>2, QuietHistory
<1>3. CASE cur # None /\ cur.op \in Access
  <2>1. r0.op = "tlbld" => r0.ea \in Addrs
    BY <1>1, LoadsWhen
  <2> QED BY <1>1, <1>3, <2>1, AccessHistory
<1>4. CASE cur # None /\ cur.op \notin Access
  <2>1. cur.op \in Mtspr \cup {"tlbie", "local"}
    BY <1>1, <1>4, InsnFields DEF MmuInv, Op
  <2>2. CASE cur.op = "tlbie" /\ r.done
    <3>1. dirty' = IF cur.all THEN {} ELSE dirty \ {cur.ea}
      BY <1>4, <2>2, UnitHistory
    <3> QED BY <1>1, <3>1
  <2> QED BY <1>1, <1>4, <2>1, <2>2, UnitHistory
<1> QED BY <1>2, <1>3, <1>4

-----------------------------------------------------------------------------
(* What the tables give for an address.                                    *)

LEMMA RootIs ==
    ASSUME NEW m \in Mems, NEW s \in [pid : Pids, prtbl : Prtbls], NEW ea
    PROVE  RootOf(m, s, ea) \in Tree /\ RootOf(m, s, ea) \in EntriesOf(m)
<1>1. <<s.prtbl, effpid(s.pid, ea)>> \in Roots
  BY MmuAssumption DEF effpid, Roots
<1> QED BY <1>1, TablesAssumption DEF RootOf, EntriesOf

LEMMA BelowEnds ==
    ASSUME NEW by, NEW m \in Mems, NEW ea, NEW left \in Nat, NEW e \in EntriesOf(m)
    PROVE  /\ e.kind = "none" => Below(by, m, ea)[left][e] = [kind |-> "invalid"]
           /\ e.kind = "dir" /\ Bad(e.mbits, left) =>
                Below(by, m, ea)[left][e] = [kind |-> "badtree"]
<1> DEFINE g == Below(by, m, ea)
<1>1. g[left][e] = Level(by, m, ea, g, left)[e]
  BY BelowIs
<1> HIDE DEF g
<1>2. /\ e.kind = "none" => g[left][e] = [kind |-> "invalid"]
      /\ e.kind = "dir" /\ Bad(e.mbits, left) => g[left][e] = [kind |-> "badtree"]
  BY <1>1 DEF Level
<1> QED BY <1>2 DEF g

\* The translation of a leaf: the address's part of its page.
Mapped(e, ea, left) ==
    [e EXCEPT !.page = (e.page \div 2 ^ left) * 2 ^ left + (ea.p % 2 ^ left)]

LEMMA BelowLeaf ==
    ASSUME NEW by, NEW m \in Mems, NEW ea, NEW left \in Nat, NEW e \in EntriesOf(m),
           e.kind = "leaf"
    PROVE  Below(by, m, ea)[left][e] = Mapped(e, ea, left)
<1> DEFINE g == Below(by, m, ea)
           w == Mapped(e, ea, left)
<1>1. g[left][e] = Level(by, m, ea, g, left)[e]
  BY BelowIs
<1> HIDE DEF g
<1>2. Level(by, m, ea, g, left)[e] = w
  BY DEF Level, Mapped
<1> HIDE DEF w
<1>3. g[left][e] = w
  BY <1>1, <1>2
<1> QED BY <1>3 DEF g, w

LEMMA BelowDir ==
    ASSUME NEW by, NEW m \in Mems, NEW ea, NEW left \in Nat, NEW e \in EntriesOf(m),
           e.kind = "dir", ~Bad(e.mbits, left), NEW at,
           EntryAt(m, <<e.base, IndexOf(by, ea, e.mbits, left - e.mbits)>>) = at
    PROVE  Below(by, m, ea)[left][e] = Below(by, m, ea)[left - e.mbits][at]
<1> DEFINE g == Below(by, m, ea)
           x == EntryAt(m, <<e.base, IndexOf(by, ea, e.mbits, left - e.mbits)>>)
<1>1. g[left][e] = Level(by, m, ea, g, left)[e]
  BY BelowIs
<1> HIDE DEF g
<1>2. Level(by, m, ea, g, left)[e] = g[left - e.mbits][x]
  BY DEF Level
<1>3. x = at
  OBVIOUS
<1> HIDE DEF x
<1> QED BY <1>1, <1>2, <1>3 DEF g

\* The walk goes on in the entry that the MMU reads.
LEMMA DirStep ==
    ASSUME NEW m \in Mems, NEW ea, NEW left \in Nat,
           NEW e \in EntriesOf(m), e.kind = "dir", ~Bad(e.mbits, left)
    PROVE  LET at == <<e.base, addrsh % 2 ^ e.mbits>>
           IN  /\ at \in Slots /\ m[at] \in EntriesOf(m) /\ left - e.mbits \in Nat
               /\ Below("addrsh", m, ea)[left][e] = Below("addrsh", m, ea)[left - e.mbits][m[at]]
<1> DEFINE at == <<e.base, addrsh % 2 ^ e.mbits>>
<1>1. e.mbits \in MinBits .. MaxBits /\ e.base \in Bases /\ left - e.mbits \in Nat
  <2>1. e \in Entries
    BY EntriesType
  <2> QED BY <2>1, EntryFields, MmuAssumption DEF Bad
<1>2. at \in Slots
  BY <1>1 DEF Slots
<1>3. at \in DOMAIN m /\ m[at] \in EntriesOf(m)
  BY <1>2, TablesAssumption DEF EntriesOf
<1>4. IndexOf("addrsh", ea, e.mbits, left - e.mbits) = addrsh % 2 ^ e.mbits
  BY DEF IndexOf
<1>5. EntryAt(m, <<e.base, IndexOf("addrsh", ea, e.mbits, left - e.mbits)>>) = m[at]
  BY <1>3, <1>4 DEF EntryAt
<1>6. Below("addrsh", m, ea)[left][e] = Below("addrsh", m, ea)[left - e.mbits][m[at]]
  <2> DEFINE f == m[at]
  <2>1. EntryAt(m, <<e.base, IndexOf("addrsh", ea, e.mbits, left - e.mbits)>>) = f
    BY <1>5
  <2> HIDE DEF f
  <2>2. Below("addrsh", m, ea)[left][e] = Below("addrsh", m, ea)[left - e.mbits][f]
    BY <2>1, BelowDir
  <2> QED BY <2>2 DEF f
<1> QED BY <1>1, <1>2, <1>3, <1>6

\* The permissions of a translation are those of its entry.
LEMMA OutcomeLeaf ==
    ASSUME NEW e \in Pte, NEW p, NEW store \in BOOLEAN
    PROVE  Outcome([e EXCEPT !.page = p], store) =
             IF ~perm_ok(e, store) THEN "perm_err"
             ELSE IF ~rc_ok(e, store) THEN "rc_error" ELSE "none"
<1> DEFINE w == [e EXCEPT !.page = p]
<1>1. /\ w.kind = "leaf" /\ w.priv = e.priv /\ w.rd = e.rd /\ w.wr = e.wr
      /\ w.ref = e.ref /\ w.chg = e.chg
      /\ e.priv \in BOOLEAN /\ e.rd \in BOOLEAN /\ e.wr \in BOOLEAN /\ e.ref \in BOOLEAN
      /\ e.chg \in BOOLEAN
  BY DEF Pte
<1> HIDE DEF w
<1>2. Outcome(w, store) = IF ~perm_ok(e, store) THEN "perm_err"
                          ELSE IF ~rc_ok(e, store) THEN "rc_error" ELSE "none"
  BY <1>1 DEF Outcome, perm_ok, rc_ok
<1> QED BY <1>2 DEF w

LEMMA OutcomeOf ==
    /\ \A store : Outcome([kind |-> "invalid"], store) = "invalid"
    /\ \A store : Outcome([kind |-> "badtree"], store) = "badtree"
    /\ \A store : Outcome([kind |-> "segerror"], store) = "segerror"
BY DEF Outcome

-----------------------------------------------------------------------------
(* The walk.                                                               *)

\* Nothing that a walk depends on changes.
LEMMA WalkFrame ==
    ASSUME Sequential, NEW m, NEW ack, HStep(None, m, ack), cur # None, cur.op \in Access,
           ls'.state = "MMU_LOOKUP", cur' # None
    PROVE  /\ mem' = mem /\ spr' = spr /\ ptDirty' = ptDirty /\ mem \in Mems
           /\ spr \in [pid : Pids, prtbl : Prtbls]
           /\ r \in Registers /\ r.addr \in Addrs /\ r.store \in BOOLEAN
           /\ r' \in Registers
           /\ prtb_adr' = <<r'.prtbl, effpid(r'.pid, r'.addr)>>
           /\ pgtb_adr' = <<r'.pgbase, addrsh % 2 ^ r'.mask_size>>
<1>1. MmuInv /\ MMU /\ SprInv
  BY DEF HStep, TransInv, Step, Clock
<1>2. r' \in Registers
  BY <1>1, MmuMoves
<1> QED BY <1>1, <1>2, AccessHistory DEF MmuInv, SprInv, Registers, prtb_adr, pgtb_adr

\* A root found leads to the checks of the tree, or to the end.
Rooted(t, a, s) ==
    /\ t.mbits = 0 => s.state = "RADIX_FINISH" /\ s.error = "invalid"
    /\ t.mbits # 0 => /\ s.state = "SEGMENT_CHECK" /\ s.shift = t.rts
                      /\ s.mask_size = t.mbits /\ s.pgbase = t.base
    /\ s.addr = a

LEMMA RootedWay ==
    ASSUME Sequential, NEW m, NEW ack, HStep(None, m, ack), cur # None, cur.op \in Access,
           ls'.state = "MMU_LOOKUP", cur' # None, NEW t, NEW a, Rooted(t, a, r'),
           top(a) \in ptDirty \/ t = RootOf(mem, spr, a)
    PROVE  WayInv'
<1> DEFINE W == Walk(mem, spr, a)
<1>1. mem' = mem /\ spr' = spr /\ ptDirty' = ptDirty /\ r'.addr = a
  BY WalkFrame DEF Rooted
<1>2. \/ t.mbits = 0 /\ r'.state = "RADIX_FINISH" /\ r'.error = "invalid"
      \/ /\ t.mbits # 0 /\ r'.state = "SEGMENT_CHECK" /\ r'.shift = t.rts
         /\ r'.mask_size = t.mbits /\ r'.pgbase = t.base
  BY DEF Rooted
<1>3. t.mbits = 0 /\ t = RootOf(mem, spr, a) => Outcome(W, r'.store) = "invalid"
  BY OutcomeOf DEF Walk, WalkBy
<1> HIDE DEF W
<1>4. Walk(mem', spr', r'.addr) = W /\ RootOf(mem', spr', r'.addr) = RootOf(mem, spr, a)
  BY <1>1 DEF W
<1>5. CASE top(a) \in ptDirty
  BY <1>1, <1>2, <1>5 DEF WayInv
<1>6. CASE t = RootOf(mem, spr, a)
  BY <1>1, <1>2, <1>3, <1>4, <1>6 DEF WayInv
<1> QED BY <1>5, <1>6

\* An access that missed begins a walk at the root that the MMU caches, if any.
LEMMA MissWay ==
    ASSUME Sequential, NEW m, NEW ack, HStep(None, m, ack), cur # None, cur.op \in Access,
           ls'.state = "MMU_LOOKUP", cur' # None, ls.state = "ACK_WAIT"
    PROVE  WayInv'
<1>1. /\ MmuInv /\ MMU /\ RootsInv /\ r.state = "IDLE" /\ ls \in LoadStores
      /\ d.ls \in {None, "valid", "error"}
  BY DEF HStep, TransInv, Step, Clock, MmuInv, AccessInv
<1>2. d.ls = "error"
  <2>1. LoadStore1(None) /\ ~retry
    BY DEF HStep, Step, Clock, retry
  <2> QED BY <1>1, <2>1, LsMoves, MmuAssumption DEF NoRequest
<1>3. l_in = ls.ldst_r /\ l_in.op \in Access /\ l_in.ea \in Addrs
  BY <1>1, <1>2, Input DEF mmureq, LoadStores
<1> DEFINE a == l_in.ea
           t == cached(a)
<1>4. r'.addr = a
  BY <1>1, <1>3, IdleMoves
<1>5. CASE t = None
  <2>1. r'.state = "PROC_TBL_READ"
    BY <1>1, <1>3, <1>5, TranslateKeeps
  <2> QED BY <2>1 DEF WayInv
<1>6. CASE t # None
  <2>1. Rooted(t, a, r')
    BY <1>1, <1>3, <1>4, <1>6, TranslateKeeps DEF Rooted
  <2>2. top(a) \in ptDirty \/ t = RootOf(mem, spr, a)
    BY <1>1, <1>3, <1>6 DEF RootsInv
  <2> HIDE DEF a, t
  <2> QED BY <2>1, <2>2, RootedWay
<1> QED BY <1>5, <1>6

LEMMA ProcTblWay ==
    ASSUME Sequential, NEW m, NEW ack, HStep(None, m, ack), cur # None, cur.op \in Access,
           ls'.state = "MMU_LOOKUP", cur' # None, ls.state = "MMU_LOOKUP",
           r.state = "PROC_TBL_READ" \/ r.state = "PROC_TBL_WAIT"
    PROVE  WayInv'
<1>1. /\ MmuInv /\ MMU /\ PortInv /\ SprInv /\ WayInv /\ Step(None, m, ack)
  BY DEF HStep, TransInv, Step, Clock, MmuInv
<1>2. /\ mem' = mem /\ spr' = spr /\ ptDirty' = ptDirty
      /\ prtb_adr' = <<r'.prtbl, effpid(r'.pid, r'.addr)>>
  BY WalkFrame
<1>3. /\ d'.done <=> ack \/ r0.op \in {"tlbie", "tlbld"}
      /\ ack => d'.data = mem[r0.at] /\ r0.op = "read"
  BY <1>1 DEF Step, Clock, Answer
<1>4. mem[prtb_adr] = RootOf(mem, spr, r.addr)
  BY <1>1 DEF prtb_adr, RootOf, SprInv
<1>5. CASE r.state = "PROC_TBL_READ"
  <2>1. r'.state = "PROC_TBL_WAIT" /\ r'.addr = r.addr /\ Kept(r', r)
    BY <1>1, <1>5, FixedMoves, OtherKeeps
  <2>2. r0'.at = prtb_adr
    <3>1. m_in = [op |-> "read", at |-> prtb_adr] /\ r0.op # "read"
      BY <1>1, <1>5 DEF m_in, PortInv
    <3> QED BY <1>1, <3>1 DEF Step, Clock, Stage0
  <2>3. ~d'.done
    BY <1>1, <1>3, <1>5 DEF PortInv
  <2>4. prtb_adr' = prtb_adr
    BY <1>2, <2>1 DEF prtb_adr, Kept
  <2> QED BY <2>1, <2>2, <2>3, <2>4 DEF WayInv
<1>6. CASE r.state = "PROC_TBL_WAIT" /\ ~d.done
  <2>1. r'.state = "PROC_TBL_WAIT" /\ r'.addr = r.addr /\ Kept(r', r)
    BY <1>1, <1>6, WaitMoves, Cleared, OtherKeeps DEF MmuInv
  <2>2. r0.op = "read" /\ r0.at = prtb_adr
    BY <1>1, <1>6 DEF WayInv, PortInv
  <2>3. r0' = IF ack THEN Nothing ELSE r0
    BY <1>1, <1>6, <2>2, StageMoves
  <2>4. prtb_adr' = prtb_adr
    BY <1>2, <2>1 DEF prtb_adr, Kept
  <2>5. RootOf(mem', spr', r'.addr) = RootOf(mem, spr, r.addr)
    BY <1>2, <2>1
  <2>6. IF d'.done THEN d'.data = RootOf(mem', spr', r'.addr) ELSE r0'.at = prtb_adr'
    <3>1. CASE ack
      BY <1>3, <1>4, <2>2, <2>5, <3>1
    <3>2. CASE ~ack
      BY <1>3, <2>2, <2>3, <2>4, <3>2
    <3> QED BY <3>1, <3>2
  <2> QED BY <2>1, <2>6 DEF WayInv
<1>7. CASE r.state = "PROC_TBL_WAIT" /\ d.done
  <2> DEFINE t == d.data
  <2>1. t = RootOf(mem, spr, r.addr)
    BY <1>1, <1>7 DEF WayInv
  <2>2. Rooted(t, r.addr, r')
    BY <1>1, <1>7, ProcTblKeeps, ProcTblMoves DEF Rooted
  <2> HIDE DEF t
  <2> QED BY <2>1, <2>2, RootedWay
<1> QED BY <1>5, <1>6, <1>7

-----------------------------------------------------------------------------
(* The checks of the tree, and its levels.                                 *)

\* What WayInv says of a walk for a from root s on, in the states in which no
\* read is in progress.
Ahead(m, sp, a, s) ==
    /\ s.addr = a
    /\ s.state = "RADIX_LOOKUP" =>
         LET at == <<s.pgbase, addrsh % 2 ^ s.mask_size>>
         IN  /\ at \in Slots /\ Walk(m, sp, a) = Below("addrsh", m, a)[s.shift][m[at]]
    /\ s.state = "RADIX_FINISH" => s.error = Outcome(Walk(m, sp, a), s.store)
    /\ s.state \in {"RADIX_LOOKUP", "RADIX_FINISH"}

LEMMA AheadWay ==
    ASSUME Sequential, NEW m, NEW ack, HStep(None, m, ack), cur # None, cur.op \in Access,
           ls'.state = "MMU_LOOKUP", cur' # None, NEW a, Ahead(mem, spr, a, r')
    PROVE  WayInv'
<1>1. /\ mem' = mem /\ spr' = spr
      /\ pgtb_adr' = <<r'.pgbase, addrsh % 2 ^ r'.mask_size>>
  BY WalkFrame
<1>2. r'.addr = a /\ r'.state \in {"RADIX_LOOKUP", "RADIX_FINISH"}
  BY DEF Ahead
<1>3. r'.state = "RADIX_LOOKUP" => OnWay(pgtb_adr)'
  BY <1>1, <1>2 DEF Ahead, OnWay
<1>4. r'.state = "RADIX_FINISH" => r'.error = Outcome(Walk(mem', spr', r'.addr), r'.store)
  BY <1>1, <1>2 DEF Ahead
<1> QED BY <1>2, <1>3, <1>4 DEF WayInv

LEMMA AnyWay ==
    ASSUME Sequential, NEW m, NEW ack, HStep(None, m, ack), cur # None, cur.op \in Access,
           ls'.state = "MMU_LOOKUP", cur' # None, top(r'.addr) \in ptDirty,
           r'.state \notin {"PROC_TBL_WAIT", "RADIX_READ_WAIT"}
    PROVE  WayInv'
BY WalkFrame DEF WayInv

\* The checks of the tree come to what the tables say.
LEMMA SegmentWay ==
    ASSUME Sequential, NEW m, NEW ack, HStep(None, m, ack), cur # None, cur.op \in Access,
           ls'.state = "MMU_LOOKUP", cur' # None, ls.state = "MMU_LOOKUP",
           r.state = "SEGMENT_CHECK"
    PROVE  WayInv'
<1> DEFINE a == r.addr
           root == RootOf(mem, spr, a)
           left == root.rts + LowBits
<1>1. /\ MmuInv /\ MMU /\ WayInv
  BY DEF HStep, TransInv, Step, Clock
<1>2. /\ mem \in Mems /\ spr \in [pid : Pids, prtbl : Prtbls] /\ a \in Addrs
      /\ r.store \in BOOLEAN
  BY WalkFrame
<1>3. r'.addr = a /\ r'.state \in {"RADIX_FINISH", "RADIX_LOOKUP"}
  BY <1>1, SegmentMoves
<1>4. CASE top(a) \in ptDirty
  BY <1>3, <1>4, AnyWay
<1>5. CASE top(a) \notin ptDirty
  <2>1. /\ root.mbits # 0 /\ r.shift = root.rts /\ r.mask_size = root.mbits
        /\ r.pgbase = root.base
    BY <1>1, <1>5 DEF WayInv
  <2>2. /\ root \in EntriesOf(mem) /\ root.kind = "dir" /\ root.rts \in Nat
        /\ root.mbits \in Nat /\ left \in Nat
    BY <1>2, RootIs, TreeFields, MmuAssumption DEF Tree
  <2> DEFINE far == a.q \in {1, 2} \/ nonzero(a.p, root.rts)
             bad == Bad(root.mbits, left)
  <2>3. nonzero(a.p, root.rts) <=> a.p \div 2 ^ left # 0
    <3>1. LowBits + root.rts = left
      BY <2>2, MmuAssumption
    <3> HIDE DEF left
    <3> QED BY <3>1 DEF nonzero
  <2>4. Walk(mem, spr, a) = IF far THEN [kind |-> "segerror"] ELSE Below("addrsh", mem, a)[left][root]
    BY <2>1, <2>3 DEF Walk, WalkBy
  <2>5. /\ far => r'.state = "RADIX_FINISH" /\ r'.error = "segerror"
        /\ ~far /\ bad => r'.state = "RADIX_FINISH" /\ r'.error = "badtree"
        /\ ~far /\ ~bad => /\ r'.state = "RADIX_LOOKUP" /\ r'.pgbase = root.base
                           /\ r'.mask_size = root.mbits /\ r'.shift = left - root.mbits
    <3> DEFINE off == a.q \in {1, 2} \/ nonzero(a.p, r.shift)
               wrong == Bad(r.mask_size, r.shift + LowBits)
    <3>1. /\ off => r'.state = "RADIX_FINISH" /\ r'.error = "segerror"
          /\ ~off /\ wrong => r'.state = "RADIX_FINISH" /\ r'.error = "badtree"
          /\ ~off /\ ~wrong => /\ r'.state = "RADIX_LOOKUP" /\ r'.pgbase = r.pgbase
                               /\ r'.mask_size = r.mask_size
                               /\ r'.shift = r.shift + LowBits - r.mask_size
      BY <1>1, SegmentKeeps
    <3>2. (off <=> far) /\ (wrong <=> bad) /\ r.shift + LowBits = left
      <4> HIDE DEF root
      <4> QED BY <2>1
    <3>3. r.shift + LowBits - r.mask_size = left - root.mbits
      <4> HIDE DEF root
      <4> QED BY <2>1, <2>2, MmuAssumption
    <3> HIDE DEF off, wrong, far, bad, root, left
    <3> QED BY <2>1, <3>1, <3>2, <3>3, Zenon
  <2>6. CASE far
    BY <1>3, <2>4, <2>5, <2>6, OutcomeOf, AheadWay DEF Ahead
  <2>7. CASE ~far /\ bad
    <3>1. Below("addrsh", mem, a)[left][root] = [kind |-> "badtree"]
      <4> HIDE DEF left, root, a
      <4> QED BY <1>2, <2>2, <2>7, BelowEnds
    <3> QED BY <1>3, <2>4, <2>5, <2>7, <3>1, OutcomeOf, AheadWay DEF Ahead
  <2>8. CASE ~far /\ ~bad
    <3> DEFINE at == <<root.base, addrsh % 2 ^ root.mbits>>
    <3>2. /\ at \in Slots
          /\ Below("addrsh", mem, a)[left][root] = Below("addrsh", mem, a)[left - root.mbits][mem[at]]
      <4>1. /\ mem \in Mems /\ a \in Addrs /\ left \in Nat /\ root \in EntriesOf(mem)
            /\ root.kind = "dir" /\ ~Bad(root.mbits, left)
        BY <1>2, <2>2, <2>8
      <4> HIDE DEF left, root, a, far, bad
      <4> QED BY <4>1, DirStep
    <3>3. Walk(mem, spr, a) = Below("addrsh", mem, a)[left - root.mbits][mem[at]]
      BY <2>4, <2>8, <3>2
    <3>4. /\ r'.state = "RADIX_LOOKUP" /\ r'.pgbase = root.base
          /\ r'.mask_size = root.mbits /\ r'.shift = left - root.mbits
      BY <2>5, <2>8
    <3>5. Ahead(mem, spr, a, r')
      <4> HIDE DEF left, root, a
      <4> QED BY <1>3, <3>2, <3>3, <3>4 DEF Ahead
    <3> QED BY <3>5, AheadWay
  <2> QED BY <2>6, <2>7, <2>8
<1> QED BY <1>4, <1>5

\* An entry comes from memory.
LEMMA RadixWay ==
    ASSUME Sequential, NEW m, NEW ack, HStep(None, m, ack), cur # None, cur.op \in Access,
           ls'.state = "MMU_LOOKUP", cur' # None, ls.state = "MMU_LOOKUP",
           r.state = "RADIX_LOOKUP" \/ (r.state = "RADIX_READ_WAIT" /\ ~d.done)
    PROVE  WayInv'
<1>1. /\ MmuInv /\ MMU /\ PortInv /\ WayInv /\ Step(None, m, ack)
  BY DEF HStep, TransInv, Step, Clock, MmuInv
<1>2. /\ mem' = mem /\ spr' = spr /\ ptDirty' = ptDirty
      /\ pgtb_adr' = <<r'.pgbase, addrsh % 2 ^ r'.mask_size>>
  BY WalkFrame
<1>3. /\ d'.done <=> ack \/ r0.op \in {"tlbie", "tlbld"}
      /\ ack => d'.data = mem[r0.at] /\ r0.op = "read"
  BY <1>1 DEF Step, Clock, Answer
<1>4. /\ r'.state = "RADIX_READ_WAIT" /\ r'.addr = r.addr
      /\ r'.shift = r.shift /\ r'.mask_size = r.mask_size /\ r'.pgbase = r.pgbase
  <2>1. CASE r.state = "RADIX_LOOKUP"
    BY <1>1, <2>1, FixedMoves, OtherKeeps
  <2>2. CASE r.state = "RADIX_READ_WAIT" /\ ~d.done
    BY <1>1, <2>2, WaitMoves, Cleared, OtherKeeps DEF MmuInv
  <2> QED BY <2>1, <2>2
<1>5. pgtb_adr' = pgtb_adr
  BY <1>2, <1>4 DEF pgtb_adr
<1>6. IF d'.done THEN d'.data = mem'[pgtb_adr'] ELSE r0'.at = pgtb_adr'
  <2>1. CASE r.state = "RADIX_LOOKUP"
    <3>1. m_in = [op |-> "read", at |-> pgtb_adr] /\ r0.op = "none"
      BY <1>1, <2>1 DEF m_in, PortInv
    <3>2. r0'.at = pgtb_adr
      BY <1>1, <3>1 DEF Step, Clock, Stage0
    <3> QED BY <1>3, <1>5, <3>1, <3>2
  <2>2. CASE r.state = "RADIX_READ_WAIT" /\ ~d.done
    <3>1. r0.op = "read" /\ r0.at = pgtb_adr
      BY <1>1, <2>2 DEF WayInv, PortInv
    <3>2. r0' = IF ack THEN Nothing ELSE r0
      BY <1>1, <2>2, <3>1, StageMoves
    <3>3. CASE ack
      BY <1>2, <1>3, <1>5, <3>1, <3>3
    <3>4. CASE ~ack
      BY <1>3, <1>5, <3>1, <3>2, <3>4
    <3> QED BY <3>3, <3>4
  <2> QED BY <2>1, <2>2
<1>7. top(r'.addr) \in ptDirty' \/ OnWay(pgtb_adr)'
  <2>1. top(r.addr) \in ptDirty \/ OnWay(pgtb_adr)
    BY <1>1 DEF WayInv
  <2> QED BY <1>2, <1>4, <1>5, <2>1 DEF OnWay
<1> QED BY <1>4, <1>6, <1>7 DEF WayInv

\* The MMU takes the entry for what the tables say.
LEMMA EntryWay ==
    ASSUME Sequential, NEW m, NEW ack, HStep(None, m, ack), cur # None, cur.op \in Access,
           ls'.state = "MMU_LOOKUP", cur' # None, ls.state = "MMU_LOOKUP",
           r.state = "RADIX_READ_WAIT", d.done
    PROVE  WayInv'
<1> DEFINE a == r.addr
           e == d.data
           left == r.shift
<1>1. /\ MmuInv /\ MMU /\ WayInv
  BY DEF HStep, TransInv, Step, Clock
<1>2. /\ mem \in Mems /\ a \in Addrs /\ r.store \in BOOLEAN /\ left \in Nat
      /\ r' \in Registers /\ mem' = mem /\ spr' = spr
  BY WalkFrame DEF Registers
<1>3. /\ r'.addr = a /\ r'.store = r.store
      /\ r'.state \in {"RADIX_FINISH", "RADIX_LOOKUP", "RADIX_LOAD_TLB"}
  BY <1>1, RadixMoves
<1>4. CASE top(a) \in ptDirty
  BY <1>3, <1>4, AnyWay
<1>5. CASE top(a) \notin ptDirty
  <2>1. /\ e = mem[pgtb_adr] /\ pgtb_adr \in Slots
        /\ Walk(mem, spr, a) = Below("addrsh", mem, a)[left][e]
    BY <1>1, <1>5 DEF WayInv, OnWay
  <2>2. e \in EntriesOf(mem) /\ e \in Entries
    BY <1>2, <2>1, EntriesType, TablesAssumption DEF EntriesOf
  <2>3. e.kind \in {"none", "leaf", "dir"} /\ (e.kind = "leaf" => e \in Pte)
    BY <2>2, EntryFields
  <2>4. /\ e.kind = "none" => r'.state = "RADIX_FINISH" /\ r'.error = "invalid"
        /\ e.kind = "leaf" =>
             /\ ~perm_ok(e, r.store) => r'.state = "RADIX_FINISH" /\ r'.error = "perm_err"
             /\ perm_ok(e, r.store) /\ ~rc_ok(e, r.store) =>
                  r'.state = "RADIX_FINISH" /\ r'.error = "rc_error"
             /\ perm_ok(e, r.store) /\ rc_ok(e, r.store) =>
                  r'.state = "RADIX_LOAD_TLB" /\ r'.pde = e /\ r'.shift = left
        /\ e.kind = "dir" =>
             IF Bad(e.mbits, left) THEN r'.state = "RADIX_FINISH" /\ r'.error = "badtree"
             ELSE /\ r'.state = "RADIX_LOOKUP" /\ r'.shift = left - e.mbits
                  /\ r'.mask_size = e.mbits /\ r'.pgbase = e.base
    BY <1>1, RadixKeeps
  <2> HIDE DEF a, e, left
  <2>5. CASE e.kind = "none"
    <3>1. Walk(mem, spr, a) = [kind |-> "invalid"]
      BY <1>2, <2>1, <2>2, <2>5, BelowEnds
    <3> QED BY <1>3, <2>4, <2>5, <3>1, OutcomeOf, AheadWay DEF Ahead
  <2>6. CASE e.kind = "leaf"
    <3> DEFINE p == (e.page \div 2 ^ left) * 2 ^ left + (a.p % 2 ^ left)
               w == [e EXCEPT !.page = p]
    <3>1. Walk(mem, spr, a) = w
      <4>1. e \in EntriesOf(mem) /\ e.kind = "leaf" /\ mem \in Mems /\ left \in Nat
        BY <1>2, <2>2, <2>6
      <4>2. Below("addrsh", mem, a)[left][e] = Mapped(e, a, left)
        BY <4>1, BelowLeaf
      <4>3. Mapped(e, a, left) = w
        BY DEF Mapped
      <4> HIDE DEF w
      <4> QED BY <2>1, <4>2, <4>3
    <3>2. Outcome(w, r.store) = IF ~perm_ok(e, r.store) THEN "perm_err"
                                ELSE IF ~rc_ok(e, r.store) THEN "rc_error" ELSE "none"
      <4> HIDE DEF p
      <4> QED BY <1>2, <2>3, <2>6, OutcomeLeaf
    <3>3. CASE perm_ok(e, r.store) /\ rc_ok(e, r.store)
      <4>1. r'.state = "RADIX_LOAD_TLB" /\ r'.pde = e /\ r'.shift = left
        BY <2>4, <2>6, <3>3
      <4>2. pte' = w
        BY <1>3, <4>1 DEF pte
      <4>3. pte' = Walk(mem', spr', r'.addr)
        <5> HIDE DEF w
        <5> QED BY <1>2, <1>3, <3>1, <4>2
      <4> QED BY <4>1, <4>3 DEF WayInv
    <3>4. CASE ~(perm_ok(e, r.store) /\ rc_ok(e, r.store))
      <4> HIDE DEF w
      <4>1. r'.state = "RADIX_FINISH" /\ r'.error = Outcome(w, r.store)
        BY <2>4, <2>6, <3>2, <3>4
      <4>2. Ahead(mem, spr, a, r')
        BY <1>3, <3>1, <4>1 DEF Ahead
      <4> QED BY <4>2, AheadWay
    <3> QED BY <3>3, <3>4
  <2>7. CASE e.kind = "dir" /\ Bad(e.mbits, left)
    <3>1. Walk(mem, spr, a) = [kind |-> "badtree"]
      BY <1>2, <2>1, <2>2, <2>7, BelowEnds
    <3> QED BY <1>3, <2>4, <2>7, <3>1, OutcomeOf, AheadWay DEF Ahead
  <2>8. CASE e.kind = "dir" /\ ~Bad(e.mbits, left)
    <3> DEFINE at == <<e.base, addrsh % 2 ^ e.mbits>>
    <3>1. /\ at \in Slots
          /\ Below("addrsh", mem, a)[left][e] = Below("addrsh", mem, a)[left - e.mbits][mem[at]]
      <4>1. e.kind = "dir" /\ ~Bad(e.mbits, left) /\ e \in EntriesOf(mem)
        BY <2>2, <2>8
      <4> QED BY <1>2, <4>1, DirStep
    <3>2. Walk(mem, spr, a) = Below("addrsh", mem, a)[left - e.mbits][mem[at]]
      BY <2>1, <3>1
    <3>3. /\ r'.state = "RADIX_LOOKUP" /\ r'.pgbase = e.base
          /\ r'.mask_size = e.mbits /\ r'.shift = left - e.mbits
      BY <2>4, <2>8
    <3>4. Ahead(mem, spr, a, r')
      BY <1>3, <3>1, <3>2, <3>3 DEF Ahead
    <3> QED BY <3>4, AheadWay
  <2> QED BY <2>3, <2>5, <2>6, <2>7, <2>8
<1> QED BY <1>4, <1>5

\* The entry goes to the TLB, and the walk ends.
LEMMA LoadWay ==
    ASSUME Sequential, NEW m, NEW ack, HStep(None, m, ack), cur # None, cur.op \in Access,
           ls'.state = "MMU_LOOKUP", cur' # None, ls.state = "MMU_LOOKUP",
           r.state = "RADIX_LOAD_TLB" \/ r.state = "TLB_WAIT"
    PROVE  WayInv'
<1> DEFINE W == Walk(mem, spr, r.addr)
<1>1. /\ MmuInv /\ MMU /\ PortInv /\ WalkInv /\ WayInv /\ Step(None, m, ack)
  BY DEF HStep, TransInv, Step, Clock, MmuInv
<1>2. mem' = mem /\ spr' = spr /\ ptDirty' = ptDirty /\ r.store \in BOOLEAN
  BY WalkFrame
<1>3. d'.done <=> ack \/ r0.op \in {"tlbie", "tlbld"}
  BY <1>1 DEF Step, Clock, Answer
<1>4. CASE r.state = "RADIX_LOAD_TLB"
  <2>1. r'.state = "TLB_WAIT" /\ r'.addr = r.addr /\ r'.store = r.store
    BY <1>1, <1>4, FixedMoves
  <2>2. r0'.pte = pte
    BY <1>1, <1>4, StageMoves
  <2>3. Outcome(pte, r.store) = "none"
    <3>1. r.pde \in Pte /\ perm_ok(r.pde, r.store) /\ rc_ok(r.pde, r.store)
      BY <1>1, <1>4 DEF WalkInv
    <3> DEFINE p == (r.pde.page \div 2 ^ r.shift) * 2 ^ r.shift + (r.addr.p % 2 ^ r.shift)
    <3>2. pte = [r.pde EXCEPT !.page = p]
      BY DEF pte
    <3> HIDE DEF p
    <3> QED BY <1>2, <3>1, <3>2, OutcomeLeaf
  <2>4. top(r.addr) \in ptDirty \/ pte = W
    BY <1>1, <1>4 DEF WayInv
  <2>5. Walk(mem', spr', r'.addr) = W
    BY <1>2, <2>1
  <2> HIDE DEF W
  <2> QED BY <1>2, <2>1, <2>2, <2>3, <2>4, <2>5 DEF WayInv
<1>5. CASE r.state = "TLB_WAIT"
  <2>1. /\ r'.addr = r.addr /\ r'.store = r.store
        /\ IF d.done THEN r'.state = "RADIX_FINISH" /\ r'.error = "none"
                     ELSE r'.state = "TLB_WAIT" /\ d'.done
    <3>1. CASE d.done
      BY <1>1, <1>5, <3>1, TlbWaitMoves
    <3>2. CASE ~d.done
      BY <1>1, <1>3, <1>5, <3>2, WaitMoves, Cleared DEF MmuInv, PortInv
    <3> QED BY <3>1, <3>2
  <2>2. top(r.addr) \in ptDirty \/ Outcome(W, r.store) = "none"
    BY <1>1, <1>5 DEF WayInv
  <2>3. Walk(mem', spr', r'.addr) = W
    BY <1>2, <2>1
  <2> HIDE DEF W
  <2> QED BY <1>2, <2>1, <2>2, <2>3 DEF WayInv
<1> QED BY <1>4, <1>5

LEMMA WayStep ==
    ASSUME Sequential, NEW q, NEW m, NEW ack, HStep(q, m, ack)
    PROVE  WayInv'
<1> SUFFICES ASSUME cur' # None, cur'.op \in Access, ls'.state = "MMU_LOOKUP"
             PROVE  WayInv'
  BY DEF WayInv
<1>1. MmuInv /\ MMU /\ Step(q, m, ack)
  BY DEF HStep, TransInv, Step, Clock
<1>2. CASE q # None
  BY <1>1, <1>2, IssueMoves
<1>3. CASE q = None
  <2>1. HStep(None, m, ack)
    BY <1>3
  <2>2. cur # None /\ cur' = cur /\ cur.op \in Access
    <3>1. Core(None, m) /\ FSMMMUStage(None)
      BY <1>1, <1>3 DEF Step, Clock
    <3> QED BY <1>1, <3>1, CoreMoves
  <2>3. /\ ls.state \in {"ACK_WAIT", "MMU_LOOKUP"} /\ r.state \in States
        /\ ls.state = "MMU_LOOKUP" => r.state \notin {"IDLE", "DO_TLBIE"}
    BY <1>1, <2>2 DEF MmuInv, AccessInv, Registers
  <2>4. CASE ls.state = "ACK_WAIT"
    BY <2>1, <2>2, <2>4, MissWay
  <2>5. CASE ls.state = "MMU_LOOKUP" /\ r.state \in {"PROC_TBL_READ", "PROC_TBL_WAIT"}
    BY <2>1, <2>2, <2>5, ProcTblWay
  <2>6. CASE ls.state = "MMU_LOOKUP" /\ r.state = "SEGMENT_CHECK"
    BY <2>1, <2>2, <2>6, SegmentWay
  <2>7. CASE /\ ls.state = "MMU_LOOKUP"
             /\ r.state = "RADIX_LOOKUP" \/ (r.state = "RADIX_READ_WAIT" /\ ~d.done)
    BY <2>1, <2>2, <2>7, RadixWay
  <2>8. CASE ls.state = "MMU_LOOKUP" /\ r.state = "RADIX_READ_WAIT" /\ d.done
    BY <2>1, <2>2, <2>8, EntryWay
  <2>9. CASE ls.state = "MMU_LOOKUP" /\ r.state \in {"RADIX_LOAD_TLB", "TLB_WAIT"}
    BY <2>1, <2>2, <2>9, LoadWay
  <2>10. CASE ls.state = "MMU_LOOKUP" /\ r.state = "RADIX_FINISH"
    <3>1. r'.state = "IDLE"
      BY <1>1, <2>10, FixedMoves
    <3> QED BY <3>1 DEF WayInv
  <2> QED BY <2>3, <2>4, <2>5, <2>6, <2>7, <2>8, <2>9, <2>10 DEF States
<1> QED BY <1>2, <1>3

-----------------------------------------------------------------------------
(* The theorem.                                                            *)

LEMMA TransInvInit == ASSUME HistInit PROVE TransInv
<1>1. MmuInv /\ dirty = {} /\ ptDirty = {} /\ Init
  BY MmuInvInit DEF HistInit
<1>2. /\ spr \in [pid : Pids, prtbl : Prtbls] /\ r.pid = spr.pid /\ r.prtbl = spr.prtbl
      /\ r.pgtbl0 = None /\ r.pgtbl3 = None /\ cur = None
      /\ dtlb = [s \in 0 .. Sets - 1 |-> NoEntries]
  BY <1>1 DEF Init
<1>3. SprInv /\ RootsInv
  BY <1>2 DEF SprInv, RootsInv, cached
<1>4. \A s \in 0 .. Sets - 1, w \in 1 .. Ways : dtlb[s][w].ea = None
  BY <1>2 DEF NoEntries, NoEntry
<1>5. PlaceInv /\ PtesInv
  BY <1>4 DEF PlaceInv, PtesInv, Right
<1>6. TlbieInv /\ OwnInv /\ WayInv
  BY <1>2 DEF TlbieInv, OwnInv, WayInv
<1> QED BY <1>1, <1>3, <1>5, <1>6 DEF TransInv

LEMMA TransInvStep ==
    ASSUME Sequential, TransInv, [HistNext]_hvars
    PROVE  TransInv'
<1>1. CASE HistNext
  <2>1. PICK ack \in BOOLEAN :
          \/ Clock(None, mem, ack)
          \/ Ready /\ \E q \in Requests : Clock(q, mem, ack)
          \/ Ready /\ \E m \in Mems \ {mem} : Clock(None, m, ack)
    BY <1>1 DEF HistNext, Next
  <2>2. MmuInv /\ mem \in Mems
    BY DEF TransInv, MmuInv
  <2>3. PICK q, m : HStep(q, m, ack)
    BY <1>1, <2>1, <2>2 DEF HStep, Step
  <2>4. MmuInv'
    BY <2>3, MmuInvStep DEF HStep
  <2>5. /\ SprInv' /\ RootsInv' /\ PlaceInv' /\ PtesInv' /\ TlbieInv' /\ OwnInv' /\ WayInv'
        /\ dirty' \subseteq Addrs
    BY <2>3, SprStep, RootsStep, PlaceStep, PtesStep, TlbieStep, OwnStep, WayStep, DirtyStep
  <2> QED BY <2>4, <2>5 DEF TransInv
<1>2. CASE UNCHANGED hvars
  <2>1. /\ r' = r /\ fsm' = fsm /\ ls' = ls /\ dtlb' = dtlb /\ r0' = r0 /\ tlb_way' = tlb_way
        /\ d' = d /\ mem' = mem /\ spr' = spr /\ cur' = cur /\ idle' = idle
        /\ dirty' = dirty /\ ptDirty' = ptDirty
    BY <1>2 DEF hvars, vars
  <2>2. MmuInv'
    <3>1. MmuInv
      BY DEF TransInv
    <3> QED BY <1>2, <3>1, MmuInvStays
  <2>3. SprInv' /\ RootsInv' /\ dirty' \subseteq Addrs
    BY <2>1 DEF TransInv, SprInv, RootsInv, cached
  <2>4. PlaceInv' /\ PtesInv' /\ TlbieInv' /\ OwnInv'
    BY <2>1 DEF TransInv, PlaceInv, PtesInv, Right, Flushing, TlbieInv, Invalidated, OwnInv
  <2>5. WayInv'
    BY <2>1 DEF TransInv, WayInv, OnWay, prtb_adr, pgtb_adr, pte
  <2> QED BY <2>2, <2>3, <2>4, <2>5 DEF TransInv
<1> QED BY <1>1, <1>2

\* The MMU answers what the tables give: the invariant, with the ends of a
\* walk and the entries that the D-cache finds.
LEMMA TransInvTranslated == ASSUME TransInv PROVE Translated
<1>1. MmuInv /\ TlbInv /\ PortInv /\ WalkInv /\ PtesInv /\ OwnInv /\ WayInv /\ PlaceInv
  BY DEF TransInv, MmuInv
<1>2. ASSUME granted
      PROVE  r0.ea \in dirty \/ tlb_way[tlb_hit_way].pte = Walk(mem, spr, r0.ea)
  <2>1. r0.op \in Access /\ hits # {}
    BY <1>2 DEF granted
  <2>2. r0.ea \in Addrs /\ tlb_way = dtlb[TlbSet(r0.ea)] /\ Unique(dtlb)
    BY <1>1, <2>1, TlbShape DEF TlbInv, Access
  <2>3. PICK w \in 1 .. Ways : tlb_way[w].ea = r0.ea
    BY <2>1 DEF hits
  <2>4. tlb_hit_way = w
    BY <2>2, <2>3, HitWay
  <2>5. TlbSet(r0.ea) \in 0 .. Sets - 1 /\ r0.ea # None
    BY <2>2, SetRange, MmuAssumption
  <2>6. ~Flushing
    <3>1. r.state = "IDLE"
      BY <1>1, <2>1 DEF PortInv, MmuInv, Registers, States, Access
    <3> QED BY <2>1, <3>1 DEF Flushing, Access
  <2>7. Right(dtlb[TlbSet(r0.ea)][w])
    BY <1>1, <2>5, <2>6 DEF PtesInv
  <2> QED BY <2>2, <2>3, <2>4, <2>5, <2>7 DEF Right
<1>3. ASSUME ls.state = "MMU_LOOKUP", cur # None, cur.op \in Access, r.done \/ r.error # "none"
      PROVE  top(cur.ea) \in ptDirty \/ r.error = Outcome(Walk(mem, spr, cur.ea), cur.op = "store")
  <2>1. r.state = "RADIX_FINISH"
    BY <1>1, <1>3 DEF WalkInv
  <2>2. r.addr = cur.ea /\ r.store = (cur.op = "store")
    BY <1>1, <1>3 DEF MmuInv, AccessInv, OwnInv
  <2> QED BY <1>1, <1>3, <2>1, <2>2 DEF WayInv
<1> QED BY <1>2, <1>3 DEF Translated, TranslatedBy, Walk

\* The invariant of the translation holds, for every address and all tables, if
\* the walk takes the entry that addrsh selects in each table (mmu.py's pgtb_adr,
\* dcache.py, loadstore.py).
THEOREM TransInvAlways ==
    ASSUME Sequential
    PROVE  HistSpec => []TransInv
<1>1. HistInit => TransInv
  BY TransInvInit
<1>2. TransInv /\ [HistNext]_hvars => TransInv'
  BY TransInvStep
<1> QED BY <1>1, <1>2, PTL DEF HistSpec

\* An access that is let through has the translation that the tables give, with
\* the index that the MMU takes, under the PID and PRTBL that were set last,
\* unless the core has yet to invalidate it, and a miss is answered with what the
\* walk meets (mmu.py's radix_read_wait, segment_check and proc_tbl_wait;
\* dcache.py's tlb_update).
THEOREM TranslatedAlways ==
    ASSUME Sequential
    PROVE  HistSpec => []Translated
<1>1. TransInv => Translated
  BY TransInvTranslated
<1> QED BY <1>1, TransInvAlways, PTL
-----------------------------------------------------------------------------
(* The architecture's walk.                                                *)

\* R holds the entries that a walk for ea meets in the tables m, with the bits
\* below them, and the address selects in each table the entry that addrsh does.
Follows(m, ea, R) ==
    \A e \in EntriesOf(m), left \in Nat :
        <<e, left>> \in R /\ e.kind = "dir" /\ ~Bad(e.mbits, left) =>
          LET i == IndexOf("addrsh", ea, e.mbits, left - e.mbits)
          IN  /\ IndexOf("index", ea, e.mbits, left - e.mbits) = i
              /\ <<EntryAt(m, <<e.base, i>>), left - e.mbits>> \in R
Selected(m, s, ea) ==
    \E R : /\ Follows(m, ea, R)
           /\ <<RootOf(m, s, ea), RootOf(m, s, ea).rts + LowBits>> \in R

LEMMA SameBelow ==
    ASSUME NEW m \in Mems, NEW ea, NEW R, Follows(m, ea, R)
    PROVE  \A left \in Nat : \A e \in EntriesOf(m) :
             <<e, left>> \in R => Below("index", m, ea)[left][e] = Below("addrsh", m, ea)[left][e]
<1> DEFINE f == Below("index", m, ea)
           h == Below("addrsh", m, ea)
           Same(n) == \A e \in EntriesOf(m) : <<e, n>> \in R => f[n][e] = h[n][e]
           S == {n \in Nat : Same(n)}
<1>1. ASSUME NEW n \in Nat, \A j \in 0 .. n - 1 : j \in S
      PROVE  n \in S
  <2> SUFFICES ASSUME NEW e \in EntriesOf(m), <<e, n>> \in R PROVE f[n][e] = h[n][e]
    OBVIOUS
  <2>1. /\ f[n][e] = Level("index", m, ea, f, n)[e]
        /\ h[n][e] = Level("addrsh", m, ea, h, n)[e]
    BY BelowIs
  <2>2. \/ e.kind \in {"none", "leaf"}
        \/ e.kind = "dir" /\ Bad(e.mbits, n)
        \/ e.kind = "dir" /\ ~Bad(e.mbits, n)
    BY EntriesType, EntryFields
  <2>3. CASE e.kind \in {"none", "leaf"} \/ (e.kind = "dir" /\ Bad(e.mbits, n))
    <3> HIDE DEF f, h
    <3> QED BY <2>1, <2>3 DEF Level
  <2>4. CASE e.kind = "dir" /\ ~Bad(e.mbits, n)
    <3> DEFINE k == n - e.mbits
               x == EntryAt(m, <<e.base, IndexOf("addrsh", ea, e.mbits, k)>>)
    <3>1. k \in 0 .. n - 1 /\ k \in Nat
      <4>1. e.mbits \in Nat
        BY <2>4, EntriesType, EntryFields
      <4> QED BY <2>4, <4>1, MmuAssumption DEF Bad
    <3>2. IndexOf("index", ea, e.mbits, k) = IndexOf("addrsh", ea, e.mbits, k) /\ <<x, k>> \in R
      BY <2>4 DEF Follows
    <3>3. x \in EntriesOf(m)
      BY DEF EntryAt, EntriesOf
    <3>4. f[n][e] = f[k][x] /\ h[n][e] = h[k][x]
      <4> HIDE DEF f, h
      <4> QED BY <2>1, <2>4, <3>2 DEF Level
    <3>5. f[k][x] = h[k][x]
      <4>1. Same(k)
        BY <1>1, <3>1
      <4> HIDE DEF f, h, k, x
      <4> QED BY <3>2, <3>3, <4>1
    <3> QED BY <3>4, <3>5
  <2> QED BY <2>2, <2>3, <2>4
<1> HIDE DEF S
<1>2. Nat \subseteq S
  BY <1>1, LeastNotIn
<1> QED BY <1>2 DEF S

LEMMA SameWalk ==
    ASSUME NEW m \in Mems, NEW s \in [pid : Pids, prtbl : Prtbls], NEW ea, Selected(m, s, ea)
    PROVE  WalkBy("index", m, s, ea) = Walk(m, s, ea)
<1> DEFINE root == RootOf(m, s, ea)
           left == root.rts + LowBits
<1>1. PICK R : Follows(m, ea, R) /\ <<root, left>> \in R
  BY DEF Selected
<1>2. root \in EntriesOf(m) /\ left \in Nat
  BY RootIs, MmuAssumption DEF Tree
<1>3. Below("index", m, ea)[left][root] = Below("addrsh", m, ea)[left][root]
  <2> HIDE DEF root, left
  <2> QED BY <1>1, <1>2, SameBelow
<1> QED BY <1>3 DEF WalkBy, Walk

\* An access that is let through has the translation that the architecture
\* gives, if its address selects in each table the entry that the MMU reads
\* (mmu.py's pgtb_adr, whose addrsh nothing drives).
THEOREM TranslatedByIndexWhere ==
    ASSUME Sequential
    PROVE  HistSpec => [](granted /\ Selected(mem, spr, r0.ea) =>
                            \/ r0.ea \in dirty
                            \/ tlb_way[tlb_hit_way].pte = WalkBy("index", mem, spr, r0.ea))
<1>1. TransInv => (granted /\ Selected(mem, spr, r0.ea) =>
                     \/ r0.ea \in dirty
                     \/ tlb_way[tlb_hit_way].pte = WalkBy("index", mem, spr, r0.ea))
  <2> SUFFICES ASSUME TransInv, granted, Selected(mem, spr, r0.ea)
               PROVE  \/ r0.ea \in dirty
                      \/ tlb_way[tlb_hit_way].pte = WalkBy("index", mem, spr, r0.ea)
    OBVIOUS
  <2>1. mem \in Mems /\ spr \in [pid : Pids, prtbl : Prtbls]
    BY DEF TransInv, MmuInv, SprInv
  <2>2. WalkBy("index", mem, spr, r0.ea) = Walk(mem, spr, r0.ea)
    BY <2>1, SameWalk
  <2>3. r0.ea \in dirty \/ tlb_way[tlb_hit_way].pte = Walk(mem, spr, r0.ea)
    BY TransInvTranslated DEF Translated, TranslatedBy, Walk
  <2> QED BY <2>2, <2>3
<1> QED BY <1>1, TransInvAlways, PTL
=============================================================================
