-------------------------------- MODULE Mmu --------------------------------
(***************************************************************************)
(* The radix MMU (src/soc/experiment/mmu.py), its function unit            *)
(* FSMMMUStage, the D-cache's TLB and LoadStore1's retry after a TLB miss, *)
(* under a core that executes one instruction at a time and keeps the      *)
(* translation tables in memory.                                           *)
(*                                                                         *)
(* One step is one clock.  An effective address is its quadrant (bits 63   *)
(* and 62) and its page; physical addresses are pages.  Widths are scaled  *)
(* down, the arithmetic is the code's.  The MMU's reads have access, so    *)
(* the D-cache never answers them with an error; nothing drives iside,     *)
(* slbia or the privilege of a request to the MMU.                         *)
(***************************************************************************)
EXTENDS Naturals, FiniteSets

CONSTANTS Addrs,            \* effective addresses [q, p]
          Pids, Prtbls,     \* values of PID (0 is the kernel's) and PRTBL
          Mems,             \* contents of the tables
          Requests,         \* instructions of the core, see Op
          LowBits,          \* page bits that every tree translates: 31 - 12
          MinBits, MaxBits, \* index bits of a table: 5, 16
          Sets, Ways,       \* TLB_SET_SIZE, TLB_NUM_WAYS
          Gap,              \* clocks between instructions
          Resume,           \* TRUE: the core goes on after a fault
          None

Access == {"load", "store"}
Mtspr == {"mtpid", "mtprtbl"}
Op == Access \cup Mtspr \cup {"tlbie", "local"}

\* The core's instructions; "local" is one that the MMU does not see.
Instruction == [op : Access, ea : Addrs] \cup [op : {"local"}]
               \cup [op : {"mtpid"}, val : Pids] \cup [op : {"mtprtbl"}, val : Prtbls]
               \cup [op : {"tlbie"}, ea : Addrs, all : BOOLEAN, ric2 : BOOLEAN]

ASSUME MmuAssumption == /\ LowBits \in Nat /\ MinBits \in Nat \ {0}
                        /\ MaxBits \in Nat /\ MinBits <= MaxBits
                        /\ Sets \in Nat \ {0} /\ Ways \in Nat \ {0} /\ Gap \in Nat
                        /\ Resume \in BOOLEAN /\ 0 \in Pids
                        /\ Addrs \subseteq [q : 0 .. 3, p : Nat]
                        /\ [q |-> 0, p |-> 0] \in Addrs
                        /\ Requests \subseteq Instruction
                        /\ None \notin Requests /\ None \notin Addrs
                        /\ None \notin {"valid", "error"}

VARIABLES
    r,            \* the MMU's registers
    fsm,          \* FSMMMUStage: busy, its operation, last clock's "valid"
    ls,           \* LoadStore1: state and latched request
    dtlb,         \* the D-cache's TLB
    r0, tlb_way,  \* the D-cache's stage 0: a request and the ways read with it
    d,            \* the D-cache's registered answers
    mem, spr,     \* tables in memory; PID and PRTBL as last set
    cur, idle     \* instruction in progress; clocks since the last one

vars == <<r, fsm, ls, dtlb, r0, tlb_way, d, mem, spr, cur, idle>>

Zero == [q |-> 0, p |-> 0]
top(ea) == ea.q >= 2
effpid(pid, ea) == IF top(ea) THEN 0 ELSE pid
TlbSet(ea) == ea.p % Sets

\* No valid request; a set of the TLB with no valid entry.
Nothing == [op |-> "none"]
NoEntry == [ea |-> None, pte |-> None]
NoEntries == [w \in 1 .. Ways |-> NoEntry]

\* A cleared LDSTRequest.
NoRequest == [op |-> "store", ea |-> Zero, virt |-> FALSE]

Init ==
    /\ spr \in [pid : Pids, prtbl : Prtbls]
    /\ r = [state |-> "IDLE", addr |-> Zero, store |-> FALSE, inval_all |-> FALSE,
            prtbl |-> spr.prtbl, pid |-> spr.pid, pgtbl0 |-> None, pgtbl3 |-> None,
            shift |-> 0, mask_size |-> 0, pgbase |-> None, pde |-> None,
            done |-> FALSE, error |-> "none"]
    /\ fsm = [busy |-> FALSE, op |-> None, valid_1 |-> FALSE]
    /\ ls = [state |-> "IDLE", ldst_r |-> NoRequest]
    /\ dtlb = [s \in 0 .. Sets - 1 |-> NoEntries]
    /\ r0 = Nothing /\ tlb_way = NoEntries
    /\ d = [ls |-> None, done |-> FALSE, data |-> None]
    /\ mem \in Mems
    /\ cur = None /\ idle = Gap

-----------------------------------------------------------------------------
(* What the core asks the MMU.                                             *)

\* FSMMMUStage: MTSPR and TLBIE pulse the MMU; MTSPR is done at once.
valid == fsm.busy /\ fsm.op.op \in Mtspr \cup {"tlbie"}
blip == valid /\ ~fsm.valid_1
done == fsm.busy /\ (fsm.op.op = "tlbie" => r.done)

\* LoadStore1: the D-cache refused the access.
mmureq == ls.state = "ACK_WAIT" /\ d.ls = "error"

\* The MMU's input; the function unit comes before LoadStore1.
l_in == CASE valid -> fsm.op
          [] ~valid /\ mmureq -> ls.ldst_r
          [] OTHER -> Nothing

-----------------------------------------------------------------------------
(* The MMU.                                                                *)

v == [r EXCEPT !.done = FALSE, !.error = "none", !.inval_all = FALSE]

Finish(s, e) == [s EXCEPT !.state = "RADIX_FINISH", !.error = e, !.done = e = "none"]

\* A walk starts at the root pt of a process table entry.
Root(s, pt) ==
    LET t == [s EXCEPT !.shift = pt.rts, !.mask_size = pt.mbits, !.pgbase = pt.base]
    IN IF pt.mbits = 0 THEN Finish(t, "invalid") ELSE [t EXCEPT !.state = "SEGMENT_CHECK"]

Translate ==
    LET pgtbl == IF top(l_in.ea) THEN r.pgtbl3 ELSE r.pgtbl0
        s == [v EXCEPT !.addr = l_in.ea, !.store = l_in.op = "store"] IN
    IF pgtbl = None THEN [s EXCEPT !.state = "PROC_TBL_READ"] ELSE Root(s, pgtbl)

\* RIC=2 flushes the process table caches as well.
Tlbie == [v EXCEPT !.addr = l_in.ea, !.inval_all = l_in.all,
                   !.pgtbl0 = IF l_in.ric2 THEN None ELSE @,
                   !.pgtbl3 = IF l_in.ric2 THEN None ELSE @,
                   !.state = "DO_TLBIE"]

\* The cached root of the old PID survives (mutant).
MoveToSpr_cached ==
    [v EXCEPT !.pid = IF l_in.op = "mtpid" THEN l_in.val ELSE @,
              !.prtbl = IF l_in.op = "mtprtbl" THEN l_in.val ELSE @,
              !.pgtbl3 = IF l_in.op = "mtprtbl" THEN None ELSE @,
              !.inval_all = TRUE, !.state = "DO_TLBIE"]

MoveToSpr ==
    [v EXCEPT !.pid = IF l_in.op = "mtpid" THEN l_in.val ELSE @,
              !.prtbl = IF l_in.op = "mtprtbl" THEN l_in.val ELSE @,
              !.pgtbl3 = IF l_in.op = "mtprtbl" THEN None ELSE @,
              !.pgtbl0 = None, !.inval_all = TRUE, !.state = "DO_TLBIE"]

\* MTSPR needs no valid; nothing else is taken without.
Idle ==
    /\ r.state = "IDLE"
    /\ \/ l_in.op \in Mtspr /\ r' = MoveToSpr
       \/ l_in.op = "tlbie" /\ blip /\ r' = Tlbie
       \/ l_in.op \in Access /\ r' = Translate
       \/ (l_in.op = "none" \/ (l_in.op = "tlbie" /\ ~blip)) /\ r' = v

DoTlbie == r.state = "DO_TLBIE" /\ r' = [v EXCEPT !.state = "TLB_WAIT"]

TlbWait == /\ r.state = "TLB_WAIT"
           /\ r' = IF d.done THEN Finish(v, "none") ELSE v

ProcTblRead == r.state = "PROC_TBL_READ" /\ r' = [v EXCEPT !.state = "PROC_TBL_WAIT"]

ProcTblWait ==
    /\ r.state = "PROC_TBL_WAIT"
    /\ r' = CASE ~d.done -> v
              [] d.done /\ top(r.addr) -> Root([v EXCEPT !.pgtbl3 = d.data], d.data)
              [] d.done /\ ~top(r.addr) -> Root([v EXCEPT !.pgtbl0 = d.data], d.data)

\* The tree translates LowBits + shift bits; the address may not have more.
nonzero(p, shift) == p \div 2 ^ (LowBits + shift) # 0

SegmentCheck ==
    /\ r.state = "SEGMENT_CHECK"
    /\ r' = CASE r.addr.q \in {1, 2} \/ nonzero(r.addr.p, r.shift) -> Finish(v, "segerror")
              [] OTHER ->
                   IF \/ r.mask_size < MinBits \/ r.mask_size > MaxBits
                      \/ r.mask_size > r.shift + LowBits
                   THEN Finish(v, "badtree")
                   ELSE [v EXCEPT !.shift = r.shift + LowBits - r.mask_size,
                                  !.state = "RADIX_LOOKUP"]

RadixLookup == r.state = "RADIX_LOOKUP" /\ r' = [v EXCEPT !.state = "RADIX_READ_WAIT"]

\* A store that needs no write permission (mutant).
perm_ok_read(pde, store) == ~pde.priv /\ (pde.wr \/ pde.rd)

\* No access has a privilege.
perm_ok(pde, store) == ~pde.priv /\ (pde.wr \/ (pde.rd /\ ~store))
rc_ok(pde, store) == pde.ref /\ (pde.chg \/ ~store)

RadixReadWait ==
    LET pde == d.data
        s == [v EXCEPT !.pde = pde] IN
    /\ r.state = "RADIX_READ_WAIT"
    /\ \/ ~d.done /\ r' = v
       \/ d.done /\ pde.kind = "none" /\ r' = Finish(s, "invalid")
       \/ /\ d.done /\ pde.kind = "leaf"
          /\ r' = CASE ~perm_ok(pde, r.store) -> Finish(s, "perm_err")
                    [] perm_ok(pde, r.store) /\ ~rc_ok(pde, r.store) -> Finish(s, "rc_error")
                    [] OTHER -> [s EXCEPT !.state = "RADIX_LOAD_TLB"]
       \/ /\ d.done /\ pde.kind = "dir"
          /\ r' = IF \/ pde.mbits < MinBits \/ pde.mbits > MaxBits
                     \/ pde.mbits > r.shift
                  THEN Finish(s, "badtree")
                  ELSE [s EXCEPT !.shift = @ - pde.mbits, !.mask_size = pde.mbits,
                                 !.pgbase = pde.base, !.state = "RADIX_LOOKUP"]

RadixLoadTlb == r.state = "RADIX_LOAD_TLB" /\ r' = [v EXCEPT !.state = "TLB_WAIT"]

\* Nothing reads the registers of a walk after it: they are cleared, for fewer
\* states.
RadixFinish ==
    /\ r.state = "RADIX_FINISH"
    /\ r' = [v EXCEPT !.state = "IDLE", !.addr = Zero, !.store = FALSE, !.shift = 0,
                      !.mask_size = 0, !.pgbase = None, !.pde = None]

MMU == \/ Idle \/ DoTlbie \/ TlbWait \/ ProcTblRead \/ ProcTblWait \/ SegmentCheck
       \/ RadixLookup \/ RadixReadWait \/ RadixLoadTlb \/ RadixFinish

prtb_adr == <<r.prtbl, effpid(r.pid, r.addr)>>

\* addrsh, the address bits that select the entry, is not driven: it is 0.
addrsh == 0
pgtb_adr == <<r.pgbase, addrsh % 2 ^ r.mask_size>>

\* Entries of the tables: nothing, a translation, a table, a tree.
Pte == [kind : {"leaf"}, page : Nat, priv : BOOLEAN, rd : BOOLEAN, wr : BOOLEAN,
        ref : BOOLEAN, chg : BOOLEAN]
Bases == UNION {{m[x].base : x \in {y \in DOMAIN m : m[y].kind = "dir"}} : m \in Mems}
Dir == [kind : {"dir"}, mbits : Nat, base : Bases]
Tree == [kind : {"dir"}, rts : Nat, mbits : Nat, base : Bases]
Entries == [kind : {"none"}] \cup Pte \cup Dir \cup Tree

\* Memory holds entries, and one wherever a walk reads.
Roots == Prtbls \X Pids
Slots == {<<b, addrsh % 2 ^ k>> : b \in Bases, k \in MinBits .. MaxBits}
ASSUME TablesAssumption ==
    /\ None \notin Entries
    /\ \A m \in Mems :
         /\ \A at \in DOMAIN m : m[at] \in Entries
         /\ \A at \in Roots : at \in DOMAIN m /\ m[at] \in Tree
         /\ Slots \subseteq DOMAIN m

\* Of a page larger than 4K, the part that the address is in.
pte == [r.pde EXCEPT !.page = (@ \div 2 ^ r.shift) * 2 ^ r.shift
                                + (r.addr.p % 2 ^ r.shift)]

\* The TLB is loaded without a request to the D-cache (mutant).
m_in_noload == IF r.state = "DO_TLBIE"
               THEN [op |-> "tlbie", ea |-> r.addr, all |-> r.inval_all]
               ELSE IF r.state = "PROC_TBL_READ" THEN [op |-> "read", at |-> prtb_adr]
               ELSE IF r.state = "RADIX_LOOKUP" THEN [op |-> "read", at |-> pgtb_adr]
               ELSE Nothing

m_in == CASE r.state = "DO_TLBIE" -> [op |-> "tlbie", ea |-> r.addr, all |-> r.inval_all]
          [] r.state = "PROC_TBL_READ" -> [op |-> "read", at |-> prtb_adr]
          [] r.state = "RADIX_LOOKUP" -> [op |-> "read", at |-> pgtb_adr]
          [] r.state = "RADIX_LOAD_TLB" -> [op |-> "tlbld", ea |-> r.addr, pte |-> pte]
          [] OTHER -> Nothing

-----------------------------------------------------------------------------
(* The D-cache's TLB.                                                      *)

\* LoadStore1 sends an access when it is issued and again after a walk.
retry == ls.state = "MMU_LOOKUP" /\ r.done
d_in(q) == CASE q # None /\ q.op \in Access -> q
             [] ~(q # None /\ q.op \in Access) /\ retry -> ls.ldst_r
             [] OTHER -> Nothing

\* The entry of r0's page among the ways that were read with the request.
hits == {w \in 1 .. Ways : tlb_way[w].ea = r0.ea}
tlb_hit_way == CHOOSE w \in hits : \A x \in hits : x <= w

access_ok(e, op) ==
    /\ ~e.priv /\ (e.wr \/ (op = "load" /\ e.rd))
    /\ e.ref /\ (op = "load" \/ e.chg)
granted == /\ r0.op \in Access
           /\ hits # {} /\ access_ok(tlb_way[tlb_hit_way].pte, r0.op)

\* A request of the MMU goes first; the one of LoadStore1 would be lost.  The
\* ways are read with the request (none, for fewer states, if it needs none).
Stage0(q) ==
    LET req == IF m_in.op # "none" THEN m_in ELSE d_in(q) IN
    IF r0.op = "read" /\ ~d'.done THEN UNCHANGED <<r0, tlb_way>>
    ELSE /\ r0' = req
         /\ tlb_way' = IF req.op \in {"none", "read"} THEN NoEntries
                       ELSE dtlb[TlbSet(req.ea)]

\* What a tlbie leaves: of one page the other entries, of all pages none;
\* or the others always (mutant).
tlbie_one ==
    IF hits # {} THEN [dtlb EXCEPT ![TlbSet(r0.ea)][tlb_hit_way] = NoEntry] ELSE dtlb
tlbie == IF r0.all THEN [s \in DOMAIN dtlb |-> NoEntries]
         ELSE IF hits # {} THEN [dtlb EXCEPT ![TlbSet(r0.ea)][tlb_hit_way] = NoEntry]
         ELSE dtlb

\* The victim may be any way: what the PLRU has seen is left out.
tlb_plru_victim == 1 .. Ways

\* A new entry takes the place of the one of its page, or of the victim.
TlbUpdate ==
    \/ r0.op \notin {"tlbie", "tlbld"} /\ UNCHANGED dtlb
    \/ r0.op = "tlbie" /\ dtlb' = tlbie
    \/ /\ r0.op = "tlbld"
       /\ \E w \in IF hits # {} THEN {tlb_hit_way} ELSE tlb_plru_victim :
             dtlb' = [dtlb EXCEPT ![TlbSet(r0.ea)][w] = [ea |-> r0.ea, pte |-> r0.pte]]

\* Reads of the tables take any time; the rest is answered in the next clock.
Answer(ack) ==
    /\ ack => r0.op = "read"
    /\ d' = [ls |-> IF r0.op \in Access
                    THEN IF granted THEN "valid" ELSE "error" ELSE None,
             done |-> ack \/ r0.op \in {"tlbie", "tlbld"},
             data |-> IF ack THEN mem[r0.at] ELSE None]

-----------------------------------------------------------------------------
(* The function unit, LoadStore1 and the core.                             *)

FSMMMUStage(q) ==
    fsm' = [busy |-> IF fsm.busy THEN ~done ELSE q # None /\ q.op \notin Access,
            op |-> IF q # None /\ q.op \notin Access THEN q
                   ELSE IF done THEN None ELSE fsm.op,
            valid_1 |-> valid]

\* After an error of the MMU it stays in MMU_LOOKUP.
LoadStore1(q) ==
    ls' = CASE q # None /\ q.op \in Access /\ ls.state = "IDLE" ->
                 [state |-> "ACK_WAIT", ldst_r |-> [op |-> q.op, ea |-> q.ea, virt |-> TRUE]]
            [] ls.state = "ACK_WAIT" /\ d.ls = "valid" ->
                 [state |-> "IDLE", ldst_r |-> NoRequest]
            [] mmureq -> [ls EXCEPT !.state = "MMU_LOOKUP"]
            [] retry -> [state |-> "ACK_WAIT", ldst_r |-> NoRequest]
            [] OTHER -> ls

\* An instruction ends: a load or store, with a fault or without; another.
accessed == cur # None /\ cur.op \in Access /\
            (d.ls = "valid" \/ (ls.state = "MMU_LOOKUP" /\ r.error # "none"))
ends == accessed \/ (cur # None /\ done)

\* Instructions come one after the other; in between the tables change to m.
Ready == cur = None /\ idle = Gap /\ (Resume \/ ls.state = "IDLE")

Core(q, m) ==
    /\ mem' = m
    /\ cur' = IF q # None THEN q ELSE IF ends THEN None ELSE cur
    /\ idle' = IF cur # None \/ q # None THEN 0 ELSE IF idle < Gap THEN idle + 1 ELSE Gap
    /\ spr' = CASE done /\ fsm.op.op = "mtpid" -> [spr EXCEPT !.pid = fsm.op.val]
                 [] done /\ fsm.op.op = "mtprtbl" -> [spr EXCEPT !.prtbl = fsm.op.val]
                 [] OTHER -> spr

Clock(q, m, ack) ==
    /\ Core(q, m)
    /\ MMU /\ Answer(ack) /\ Stage0(q) /\ TlbUpdate
    /\ FSMMMUStage(q) /\ LoadStore1(q)

Next == \E ack \in BOOLEAN :
            \/ Clock(None, mem, ack)
            \/ Ready /\ \E q \in Requests : Clock(q, mem, ack)
            \/ Ready /\ \E m \in Mems \ {mem} : Clock(None, m, ack)

Spec == Init /\ [][Next]_vars
=============================================================================
