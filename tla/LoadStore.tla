----------------------------- MODULE LoadStore -----------------------------
(***************************************************************************)
(* The load/store path of the core, as ConfigMemoryPortInterface           *)
(* (src/soc/config/loadstore.py) wires it: LDSTCompUnit, L0CacheBuffer and *)
(* the port, and behind it either LoadStore1, with the D-cache and the MMU *)
(* as what they answer, in any number of clocks, or the Wishbone bus.      *)
(* One step is one clock of all of them.                                   *)
(***************************************************************************)
EXTENDS MemPort, WbPort

CONSTANTS Resume,   \* the core issues another instruction after a fault
          Gap       \* clocks from the unit's end to the next issue, at least

ASSUME LoadStoreAssumption == Resume \in BOOLEAN /\ Gap \in Nat

VARIABLES
    ldst_ifacetype,  \* what is behind the port: "mmu_cache_wb" or "bare_wb"
    dcache,      \* the request in the D-cache, or None
    idle,        \* clocks since the unit was busy, at most Gap
    walk,        \* the MMU walks the page tables for LoadStore1
    op,          \* history: the instruction issued last, or None
    regs,        \* history: what it wrote to RT and RA
    access,      \* history: the accesses memory performed for it
    outcome      \* history: "run", "done" or "fault"

cacheVars == <<loadStore1Vars, dcache, walk>>
vars == <<unitVars, portVars, busVars, cacheVars, ldst_ifacetype, idle,
          op, regs, access, outcome>>
cached_core == ldst_ifacetype = "mmu_cache_wb"

\* A request in the D-cache: "new" in the clock after it came, when the data
\* of a store is taken; translated, if it is the retry after a page walk.
InDcache == [new : BOOLEAN, req : Request, translated : BOOLEAN, data : Token]
NoWrite == <<None, None>>
Performed == [load : BOOLEAN, addr : Token \X Token, data : Token]

ASSUME NoAccess == None \notin InDcache \cup Performed

TypeOK ==
    /\ UnitTypeOK /\ PortTypeOK /\ LoadStore1TypeOK /\ WbTypeOK
    /\ ldst_ifacetype \in {"mmu_cache_wb", "bare_wb"}
    /\ dcache \in InDcache \cup {None}
    /\ walk \in BOOLEAN /\ idle \in 0 .. Gap
    /\ op \in Ops \cup {None}
    /\ \A d \in Dst : regs[d] \in {NoWrite} \cup (Token \X Token)
    /\ outcome \in {"run", "done", "fault"}

Init ==
    /\ UnitInit /\ PortInit /\ LoadStore1Init /\ WbInit
    /\ ldst_ifacetype \in {"mmu_cache_wb", "bare_wb"}
    /\ cached_core => cvt = "NONE"
    /\ dcache = None /\ walk = FALSE /\ idle = Gap
    /\ op = None
    /\ regs = [d \in Dst |-> NoWrite]
    /\ access = <<>>
    /\ outcome = "done"

\* The D-cache answers a request it has had for a clock: it is performed, it
\* cannot be translated, or it hits although it is not cacheable.
DcacheAnswers ==
    {"none"} \cup (IF dcache = None \/ (dcache # None /\ dcache.new) THEN {}
                   ELSE IF dcache.translated THEN {"valid", "paradox"}
                   ELSE {"valid", "paradox", "error"})

MmuAnswers == IF walk THEN {"none", "done", "err"} ELSE {"none"}

Dcache(exc, d, mmu) ==
    LET out == d_out(exc, mmu)
    IN  dcache' =
          IF out.valid
            THEN [new |-> TRUE, req |-> out.req,
                  translated |-> mmu = "done", data |-> Zero]
            ELSE IF d # "none" THEN None
            ELSE IF dcache # None /\ dcache.new
              THEN [dcache EXCEPT !.new = FALSE,
                                  !.data = IF dcache.req.load THEN Zero ELSE st_data]
            ELSE dcache

Mmu(d, mmu) == walk' = (mmureq(d) \/ (walk /\ mmu = "none"))

-----------------------------------------------------------------------------
(* History: what the registers and the memory have seen of the instruction. *)

Begin(i) ==
    /\ op' = i
    /\ regs' = [r \in Dst |-> NoWrite]
    /\ access' = <<>>
    /\ outcome' = "run"

\* performed: the access memory carries out in this clock, or None.
Seen(performed, exc, ldok_, data) ==
    LET uexc == l0_q /\ exc
        go == go_wr(FALSE, ldok_, uexc)
    IN  /\ op' = op
        /\ regs' = [r \in Dst |-> IF r \notin go THEN regs[r]
                                  ELSE IF r = 1 THEN ldd(ldok_, data)
                                  ELSE ea(FALSE, uexc)]
        /\ access' = IF performed # None /\ Len(access) < 2
                       THEN Append(access, performed) ELSE access
        /\ outcome' =
             IF uexc /\ busy_o THEN "fault"
             ELSE IF done_o(FALSE, l0_q /\ addr_ok_o, ldok_, uexc,
                            l0_q /\ busy_q(exc)) THEN "done"
             ELSE outcome

\* One clock of the unit, the buffer and the port.
PathClock(i, exc, ldok_, stok_, data, performed) ==
    /\ UnitClock(i, l0_q /\ addr_ok_o, l0_q /\ ld_data_ok(ldok_), data,
                 l0_q /\ exc, l0_q /\ busy_q(exc))
    /\ L0Clock(exc)
    /\ PortClock(exc, ldok_, stok_)
    /\ idle' = IF busy_o \/ i # None THEN 0
               ELSE IF idle < Gap THEN idle + 1 ELSE Gap
    /\ IF i # None THEN Begin(i)
       ELSE Seen(performed, exc, l0_q /\ ld_data_ok(ldok_), data)
    /\ UNCHANGED ldst_ifacetype

-----------------------------------------------------------------------------
(* One clock: i is issued (None: nothing is).                              *)

\* d and mmu are the answers of the D-cache and the MMU.
CacheClock(i, d, mmu) ==
    \E exc \in Exceptions(d, mmu) :
        /\ PathClock(i, exc, done(d), done(d),
                     IF dcache = None THEN <<Zero, Zero>> ELSE dcache.req.addr,
                     IF d # "valid" THEN None
                     ELSE [load |-> dcache.req.load, addr |-> dcache.req.addr,
                           data |-> dcache.data])
        /\ LoadStoreClock(exc, d, mmu)
        /\ Dcache(exc, d, mmu)
        /\ Mmu(d, mmu)
        /\ UNCHANGED busVars

\* Pi2LSUI raises no exception; ready: the memory acknowledges.
WbClock(i, ready) ==
    /\ PathClock(i, FALSE, ldok, stok, BusData(ld_data),
                 IF ~mack THEN None
                 ELSE [load |-> ~dbus.we, addr |-> dbus.adr, data |-> dbus.dat_w])
    /\ LsuiClock /\ ConvertClock /\ BusClock /\ MemoryClock(ready)
    /\ UNCHANGED cacheVars

\* The core issues the next instruction when the unit is not busy.
MayIssue(i) ==
    /\ ~busy_o /\ idle = Gap
    /\ outcome = "fault" => Resume
    /\ op = None \/ (op # None /\ i.tag # op.tag)

IssueCached == \E i \in Ops, d \in DcacheAnswers, mmu \in MmuAnswers :
                   MayIssue(i) /\ cached_core /\ CacheClock(i, d, mmu)
\* Pi2LSUI ignores misalign: the bytes of the second doubleword are lost.
IssueBare == \E i \in {o \in Ops : ~o.misalign}, ready \in BOOLEAN :
                 MayIssue(i) /\ ~cached_core /\ WbClock(i, ready)

WorkCached == \E d \in DcacheAnswers, mmu \in MmuAnswers :
                  cached_core /\ CacheClock(None, d, mmu)
WorkBare == \E ready \in BOOLEAN : ~cached_core /\ WbClock(None, ready)
Work == WorkCached \/ WorkBare

Next == IssueCached \/ IssueBare \/ Work

\* Clocks in which whoever was asked answers.
Answer ==
    \/ \E d \in DcacheAnswers, mmu \in MmuAnswers :
           /\ cached_core
           /\ d = "none" => DcacheAnswers = {"none"}
           /\ mmu = "none" => ~walk
           /\ CacheClock(None, d, mmu)
    \/ ~cached_core /\ WbClock(None, TRUE)

Spec == Init /\ [][Next]_vars
FairSpec == Spec /\ WF_vars(Work) /\ WF_vars(Answer)
=============================================================================
