----------------------------- MODULE RegsProofs -----------------------------
(***************************************************************************)
(* Theorems about the registers that instructions and the world outside    *)
(* share: about CoreRegs, for every register file, set of instructions and *)
(* modulus of the timer, and, in the second half, about Xics, for every    *)
(* number of sources and of priorities.                                    *)
(***************************************************************************)
EXTENDS CoreRegsMC, XicsMC, WellFoundedInduction, TLAPS

-----------------------------------------------------------------------------
(* The pickers: of the requests of one unit, one for each port.            *)

LEMMA RankDecides ==
    ASSUME NEW x, NEW y, PortOf(x) = PortOf(y), Rank(x) = Rank(y)
    PROVE  x = y
<1>1. \A z : (\E n \in DOMAIN Merged : Merged[n] = z)
             => Rank(z) \in 1 .. 7 /\ Merged[Rank(z)] = z
  <2>. SUFFICES ASSUME NEW z, NEW n \in DOMAIN Merged, Merged[n] = z
                PROVE  Rank(z) \in 1 .. 7 /\ Merged[Rank(z)] = z
    OBVIOUS
  <2>1. DOMAIN Merged = 1 .. 7
    BY DEF Merged
  <2>2. Rank(z) \in DOMAIN Merged /\ Merged[Rank(z)] = z
    BY Zenon DEF Rank
  <2>. QED  BY <2>1, <2>2
<1>2. \A z : z \in {"rb", "rc", "ra", "fast1", "fast2", "o", "o1"}
             => \E n \in DOMAIN Merged : Merged[n] = z
  <2>1. /\ DOMAIN Merged = 1 .. 7
        /\ Merged[1] = "rb" /\ Merged[2] = "rc" /\ Merged[3] = "ra"
        /\ Merged[4] = "fast1" /\ Merged[5] = "fast2"
        /\ Merged[6] = "o" /\ Merged[7] = "o1"
    BY DEF Merged
  <2>. QED  BY <2>1
<1>3. \A z : ~ (\E n \in DOMAIN Merged : Merged[n] = z) => Rank(z) = 0
  BY Zenon DEF Rank
<1>4. CASE \E n \in DOMAIN Merged : Merged[n] = x
  <2>1. Rank(x) \in 1 .. 7 /\ Merged[Rank(x)] = x
    BY <1>1, <1>4
  <2>2. \E n \in DOMAIN Merged : Merged[n] = y
    BY <1>3, <2>1
  <2>. QED  BY <1>1, <2>1, <2>2
<1>5. CASE ~ (\E n \in DOMAIN Merged : Merged[n] = x)
  <2>1. ~ (\E n \in DOMAIN Merged : Merged[n] = y)
    BY <1>1, <1>3, <1>5
  <2>2. PortOf(x) = x
    BY <1>2, <1>5 DEF PortOf
  <2>3. PortOf(y) = y
    BY <1>2, <2>1 DEF PortOf
  <2>. QED  BY <2>2, <2>3
<1>. QED  BY <1>4, <1>5

LEMMA OnePerPort ==
    ASSUME NEW i \in Insns, NEW accesses \in {i.rd, i.wr}, NEW some \in SUBSET accesses,
           NEW a \in Picked(some), NEW b \in Picked(some), PortOf(a.name) = PortOf(b.name)
    PROVE  a = b
<1>1. Named(accesses)
  BY CoreRegsAssumption
<1>2. \A c \in some : Rank(c.name) \in Nat
  <2>1. DOMAIN Merged \subseteq Nat
    BY DEF Merged
  <2>. QED  BY <2>1, Zenon DEF Rank
<1>3. a \in some /\ b \in some
  BY DEF Picked
<1>4. Rank(a.name) <= Rank(b.name) /\ Rank(b.name) <= Rank(a.name)
  BY <1>3 DEF Picked
<1>5. Rank(a.name) = Rank(b.name)
  BY <1>2, <1>3, <1>4
<1>6. a.name = b.name
  BY <1>5, RankDecides
<1>. QED  BY <1>1, <1>3, <1>6 DEF Named

-----------------------------------------------------------------------------
(* The function unit and its ports.                                        *)

Unit ==
    /\ insn \in Insns \cup {None}
    /\ insn = None => rel = {} /\ req = {} /\ delay_pick = {}
    /\ insn # None => rel \subseteq insn.rd /\ req \subseteq insn.wr
                      /\ delay_pick \subseteq insn.rd
    /\ req # {} => /\ delay_pick = {} /\ rel = {}
                   /\ \A a \in req : \A r \in a.regs : res[r] \in 0 .. Dec - 1
    /\ req = {} => wr_pick_1 = {}
    /\ req \cap wr_pick_1 = {}

\* A result that is picked is driven in that clock.
LEMMA PickedIsDriven ==
    ASSUME Unit
    PROVE  wr_pick = go_wr /\ wr_pick \subseteq req
BY DEF Unit, wr_pick, go_wr, Picked

LEMMA BusOfOne ==
    ASSUME Unit, NEW a \in wr_pick, NEW r \in a.regs
    PROVE  Bus(a)[r] = res[r]
<1>1. a \in go_wr /\ a \in req /\ insn \in Insns
  BY PickedIsDriven DEF Unit
<1>2. \A b \in go_wr : PortOf(b.name) = PortOf(a.name) => b = a
  <2>. SUFFICES ASSUME NEW b \in go_wr, PortOf(b.name) = PortOf(a.name)
                PROVE  b = a
    OBVIOUS
  <2>1. req \in SUBSET insn.wr /\ a \in Picked(req) /\ b \in Picked(req)
    BY <1>1, PickedIsDriven DEF Unit, wr_pick
  <2>. QED  BY <1>1, <2>1, OnePerPort
<1>3. {b \in driving : PortOf(b.name) = PortOf(a.name)} = {a}
  BY <1>1, <1>2 DEF driving
<1>4. Bus(a) = [q \in a.regs |-> res[q]]
  BY <1>3 DEF Bus
<1>. QED  BY <1>4

\* What the write ports leave in a register.
LEMMA Written ==
    ASSUME Unit, NEW timer_last \in BOOLEAN, RegsWrite(timer_last), NEW r \in Reg
    PROVE  \/ r \in DOMAIN timer_writes /\ regs'[r] = timer_writes[r]
           \/ (\E a \in go_wr : r \in a.regs) /\ regs'[r] = res[r]
           \/ /\ r \notin DOMAIN timer_writes /\ ~ (\E a \in go_wr : r \in a.regs)
              /\ regs'[r] = regs[r]
<1>. DEFINE by == {a \in wr_pick : r \in a.regs}
            held == IF r \in DOMAIN timer_writes /\ (by = {} \/ timer_last)
                      THEN timer_writes[r]
                    ELSE IF by # {} THEN Bus(CHOOSE a \in by : TRUE)[r] ELSE regs[r]
<1>1. regs'[r] = held
  BY DEF RegsWrite
<1>2. CASE by = {}
  BY <1>1, <1>2, PickedIsDriven
<1>3. CASE by # {}
  <2>1. PICK a \in by : a = CHOOSE b \in by : TRUE
    BY <1>3
  <2>2. Bus(a)[r] = res[r] /\ a \in go_wr /\ r \in a.regs
    BY <2>1, BusOfOne, PickedIsDriven
  <2>. QED  BY <1>1, <1>3, <2>1, <2>2
<1>. QED  BY <1>2, <1>3

LEMMA UnitStep ==
    ASSUME Unit, program \in Programs, Next
    PROVE  Unit'
<1>1. CASE Idle
  BY <1>1 DEF Idle, coreVars, Unit
<1>2. ASSUME NEW i \in program, Issue(i)
      PROVE  Unit'
  <2>1. i \in Insns /\ i # None
    BY CoreRegsAssumption DEF Insns
  <2>. QED  BY <1>2, <2>1 DEF Issue, Unit
<1>3. CASE ReadOrWait
  BY <1>3 DEF ReadOrWait, rd_pick, Picked, Unit
<1>4. CASE Complete
  <2>1. PICK f \in Results(insn) : res' = f
    BY <1>4 DEF Complete
  <2>2. \A a \in insn.wr : \A r \in a.regs : res'[r] \in 0 .. Dec - 1
    BY <2>1 DEF Results
  <2>. QED  BY <1>4, <2>2 DEF Complete, Unit
<1>5. CASE Write
  <2>1. wr_pick \subseteq req /\ go_wr = wr_pick
    BY PickedIsDriven
  <2>2. CASE req' = {}
    BY <1>5, <2>2 DEF Write, Unit
  <2>3. CASE req' # {}
    BY <1>5, <2>1, <2>3 DEF Write, Unit
  <2>. QED  BY <2>2, <2>3
<1>. QED  BY <1>1, <1>2, <1>3, <1>4, <1>5 DEF Next

\* The granted read has the port in the next clock.
LEMMA OperandStep ==
    ASSUME Unit, Next
    PROVE  OperandsRead'
<1>1. SUFFICES ASSUME NEW a \in delay_pick'
               PROVE  port_q'[PortOf(a.name)] = [r \in a.regs |-> regs'[r]]
  BY <1>1 DEF OperandsRead, Values_
<1>2. delay_pick' = rd_pick /\ insn \in Insns
  BY <1>1 DEF Next, Idle, ReadOrWait, Complete, Write, Issue, coreVars, Unit
<1>3. a \in Picked(rel \ delay_pick) /\ rel \ delay_pick \in SUBSET insn.rd /\ a \in insn.rd
  BY <1>1, <1>2, CoreRegsAssumption DEF rd_pick, Picked, Unit
<1>4. PortOf(a.name) \in OperandPorts
  BY <1>2, <1>3, CoreRegsAssumption
<1>5. \A b \in rd_pick : PortOf(b.name) = PortOf(a.name) => b = a
  BY <1>2, <1>3, OnePerPort DEF rd_pick
<1>6. {b \in rd_pick : PortOf(b.name) = PortOf(a.name)} = {a}
  BY <1>1, <1>2, <1>5
<1>7. Selected(PortOf(a.name)) = a.regs
  BY <1>4, <1>6 DEF Selected, OperandPorts
<1>. QED  BY <1>4, <1>7 DEF Next, PortsRead, ReadPorts

-----------------------------------------------------------------------------
(* The timer and the debugger.                                             *)

Timer ==
    /\ timer \in {"DEC_READ", "DEC_WRITE", "TB_READ", "TB_WRITE"}
    /\ timer = "DEC_WRITE" => port_q["issue"]["DEC"] = regs["DEC"]
    /\ timer = "TB_WRITE" => port_q["issue"]["TB"] = regs["TB"]

Debugger ==
    /\ d_req \in Requests
    /\ d_delay /\ d_req # {} =>
          /\ port_q["dmi"] = [r \in d_req \cap INT |-> regs[r]]
          /\ port_q["full_cr_dbg"] = [r \in d_req \cap CR |-> regs[r]]

LEMMA TimerStep ==
    ASSUME Timer, Next
    PROVE  Timer'
<1>1. port_q'["issue"] = [r \in timer_reads |-> regs'[r]]
  BY DEF Next, PortsRead, ReadPorts, Selected
<1>2. timer' \in {"DEC_READ", "DEC_WRITE", "TB_READ", "TB_WRITE"}
  BY DEF Next, TimerClock, Timer
<1>3. timer' = "DEC_WRITE" => timer_reads = {"DEC"}
  BY DEF Next, TimerClock, Timer, timer_reads
<1>4. timer' = "TB_WRITE" => timer_reads = {"TB"}
  BY DEF Next, TimerClock, Timer, timer_reads
<1>. QED  BY <1>1, <1>2, <1>3, <1>4 DEF Timer

LEMMA DebuggerStep ==
    ASSUME Debugger, Next
    PROVE  Debugger'
<1>1. PICK request \in Requests : DebugClock(request)
  BY DEF Next
<1>2. d_req' \in Requests
  BY <1>1 DEF DebugClock, Debugger, Requests
<1>3. /\ port_q'["dmi"] = [r \in d_req \cap INT |-> regs'[r]]
      /\ port_q'["full_cr_dbg"] = [r \in d_req \cap CR |-> regs'[r]]
  BY DEF Next, PortsRead, ReadPorts, Selected
<1>4. d_delay' /\ d_req' # {} => d_req' = d_req
  BY <1>1 DEF DebugClock
<1>. QED  BY <1>2, <1>3, <1>4 DEF Debugger

-----------------------------------------------------------------------------
(* The theorems.                                                           *)

IInv == /\ program \in Programs
        /\ Unit
        /\ OperandsRead
        /\ Timer
        /\ Debugger

LEMMA IInvStep ==
    ASSUME IInv, [Next]_vars
    PROVE  IInv'
<1>1. CASE Next
  <2>1. program' \in Programs
    BY <1>1 DEF IInv, Next
  <2>. QED  BY <1>1, <2>1, UnitStep, OperandStep, TimerStep, DebuggerStep DEF IInv
<1>2. CASE UNCHANGED vars
  BY <1>2 DEF vars, coreVars, IInv, Unit, OperandsRead, Values_, Timer, Debugger
<1>. QED  BY <1>1, <1>2

THEOREM IInvAlways == Spec => []IInv
<1>1. Init => IInv
  BY DEF Init, IInv, Unit, OperandsRead, Values_, Timer, Debugger, Requests
<1>. QED  BY <1>1, IInvStep, PTL DEF Spec

\* OperandsRead for every set of instructions whose units name each operand once:
\* of the merged ports' requests one is picked, and the port selects its registers.
THEOREM OperandsReadAlways == Spec => []OperandsRead
<1>1. IInv => OperandsRead
  BY DEF IInv
<1>. QED  BY <1>1, IInvAlways, PTL

\* DebugReads: while the request is held the debugger's port follows its register.
THEOREM DebugReadsAlways == Spec => []DebugReads
<1>1. IInv => DebugReads
  BY DEF IInv, Debugger, DebugReads, d_ack, d_data, Values_, Requests
<1>. QED  BY <1>1, IInvAlways, PTL

\* ResultsWritten: a result that is picked has not been picked in the clock
\* before, so it is driven, and it has the bus of its port for itself.
THEOREM ResultsWrittenAlways == Spec => ResultsWritten
<1>1. ASSUME IInv, [Next]_vars
      PROVE  [\A r \in Reg \ DOMAIN timer_writes :
                 LET by == {a \in go_wr : r \in a.regs}
                 IN  regs'[r] = IF by = {} THEN regs[r] ELSE res[r]]_vars
  <2>1. CASE Next
    <3>1. PICK timer_last \in BOOLEAN : RegsWrite(timer_last)
      BY <2>1 DEF Next
    <3>2. ASSUME NEW r \in Reg \ DOMAIN timer_writes
          PROVE  regs'[r] = IF {a \in go_wr : r \in a.regs} = {} THEN regs[r] ELSE res[r]
      BY <1>1, <3>1, Written DEF IInv
    <3>. QED  BY <3>2
  <2>2. CASE UNCHANGED vars
    BY <2>2
  <2>. QED  BY <1>1, <2>1, <2>2
<1>. QED  BY <1>1, IInvAlways, PTL DEF Spec, ResultsWritten

-----------------------------------------------------------------------------
(* The values of the registers.                                            *)

LEMMA TimerValues ==
    ASSUME Timer, regs \in [Reg -> 0 .. Dec - 1]
    PROVE  /\ timer = "DEC_WRITE" => new_dec = (regs["DEC"] + Dec - 1) % Dec
                                     /\ new_dec \in 0 .. Dec - 1
           /\ timer = "TB_WRITE" => new_tb = (regs["TB"] + 1) % Dec
                                    /\ new_tb \in 0 .. Dec - 1
<1>1. regs["DEC"] \in Nat /\ regs["TB"] \in Nat /\ Dec \in Nat \ {0}
  BY CoreRegsAssumption DEF Reg, FAST
<1>2. \A n \in Nat : n % Dec \in 0 .. Dec - 1
  BY <1>1
<1>3. regs["DEC"] + Dec - 1 \in Nat /\ regs["TB"] + 1 \in Nat
  BY <1>1
<1>. QED  BY <1>2, <1>3 DEF Timer, new_dec, new_tb

LEMMA RegsType ==
    ASSUME IInv, regs \in [Reg -> 0 .. Dec - 1], spr_dec \in 0 .. Dec - 1, Next
    PROVE  regs' \in [Reg -> 0 .. Dec - 1] /\ spr_dec' \in 0 .. Dec - 1
<1>1. PICK timer_last \in BOOLEAN : RegsWrite(timer_last)
  BY DEF Next
<1>2. ASSUME NEW r \in Reg
      PROVE  regs'[r] \in 0 .. Dec - 1
  <2>1. r \in DOMAIN timer_writes => timer_writes[r] \in 0 .. Dec - 1
    BY TimerValues DEF IInv, Timer, timer_writes, Nothing
  <2>2. (\E a \in go_wr : r \in a.regs) => res[r] \in 0 .. Dec - 1
    BY PickedIsDriven DEF IInv, Unit
  <2>. QED  BY <1>1, <2>1, <2>2, Written DEF IInv
<1>3. regs' \in [Reg -> 0 .. Dec - 1]
  BY <1>1, <1>2 DEF RegsWrite
<1>4. spr_dec' \in 0 .. Dec - 1
  BY TimerValues DEF IInv, Next, TimerClock
<1>. QED  BY <1>3, <1>4

UnitSets == /\ {rel, delay_pick} \subseteq SUBSET (UNION {i.rd : i \in Insns})
            /\ req \in SUBSET (UNION {i.wr : i \in Insns})
            /\ insn \in Insns \cup {None}

LEMMA UnitTypes == Unit => UnitSets
<1>. SUFFICES ASSUME Unit  PROVE UnitSets
  OBVIOUS
<1>. USE DEF UnitSets
<1>1. CASE insn = None
  BY <1>1 DEF Unit
<1>2. CASE insn # None
  <2>1. insn \in Insns
    BY <1>2 DEF Unit
  <2>2. insn.rd \subseteq UNION {i.rd : i \in Insns}
    BY <2>1
  <2>3. insn.wr \subseteq UNION {i.wr : i \in Insns}
    BY <2>1
  <2>. QED  BY <1>2, <2>1, <2>2, <2>3 DEF Unit
<1>. QED  BY <1>1, <1>2

LEMMA TypeStep ==
    ASSUME IInv, TypeOK, [Next]_vars
    PROVE  TypeOK'
<1>1. CASE Next
  <2>1. IInv' /\ Unit'
    BY IInvStep DEF IInv
  <2>2. regs' \in [Reg -> 0 .. Dec - 1] /\ spr_dec' \in 0 .. Dec - 1
    BY <1>1, RegsType DEF TypeOK
  <2>3. UnitSets'
    BY <2>1, UnitTypes, PTL
  <2>4. wr_pick_1' \in SUBSET (UNION {i.wr : i \in Insns})
    <3>1. wr_pick \subseteq req
      BY PickedIsDriven DEF IInv
    <3>2. wr_pick_1' = {} \/ wr_pick_1' = wr_pick \/ wr_pick_1' = wr_pick_1
      BY <1>1 DEF Next, Idle, coreVars, Issue, ReadOrWait, Complete, Write
    <3>. QED  BY <3>1, <3>2 DEF TypeOK
  <2>5. d_delay' \in BOOLEAN
    <3>1. PICK request \in Requests : DebugClock(request)
      BY <1>1 DEF Next
    <3>2. d_delay' = (d_req # {})
      BY <3>1 DEF DebugClock
    <3>. QED  BY <3>2
  <2>. QED  BY <2>1, <2>2, <2>3, <2>4, <2>5 DEF IInv, TypeOK, UnitSets, Timer, Debugger
<1>2. CASE UNCHANGED vars
  BY <1>2 DEF vars, coreVars, TypeOK
<1>. QED  BY <1>1, <1>2

\* Every register of the files holds a value of its width: no result reaches a
\* register mixed with another on the bus.
THEOREM TypeAlways == Spec => []TypeOK
<1>1. Init => TypeOK
  <2>1. ASSUME Init  PROVE d_delay \in BOOLEAN
    BY <2>1, Zenon DEF Init
  <2>2. ASSUME Init
        PROVE  /\ regs \in [Reg -> 0 .. Dec - 1] /\ spr_dec \in 0 .. Dec - 1
               /\ timer \in {"DEC_READ", "DEC_WRITE", "TB_READ", "TB_WRITE"}
               /\ d_req \in Requests
    BY <2>2, CoreRegsAssumption DEF Init, Requests
  <2>. QED  BY <2>1, <2>2 DEF Init, TypeOK
<1>. QED  BY <1>1, TypeStep, IInvAlways, PTL DEF Spec

\* TimerCounts for every modulus: what the timer writes is one step from what the
\* register holds, because the read a clock earlier saw that clock's writes.
THEOREM TimerCountsAlways == Spec => TimerCounts
<1>. DEFINE by(r) == {res[s] : s \in {r} \cap UNION {a.regs : a \in go_wr}}
            Counts ==
               /\ regs'["DEC"] \in {regs["DEC"], (regs["DEC"] + Dec - 1) % Dec} \cup by("DEC")
               /\ regs'["TB"] \in {regs["TB"], (regs["TB"] + 1) % Dec} \cup by("TB")
               /\ spr_dec' # spr_dec => \/ spr_dec' = regs'["DEC"]
                                        \/ by("DEC") # {}
<1>1. ASSUME IInv, TypeOK, [Next]_vars
      PROVE  [Counts]_vars
  <2>1. CASE Next
    <3>1. PICK timer_last \in BOOLEAN : RegsWrite(timer_last)
      BY <2>1 DEF Next
    <3>2. /\ timer = "DEC_WRITE" => new_dec = (regs["DEC"] + Dec - 1) % Dec
          /\ timer = "TB_WRITE" => new_tb = (regs["TB"] + 1) % Dec
      BY <1>1, TimerValues DEF IInv, TypeOK
    <3>3. /\ "DEC" \in DOMAIN timer_writes <=> timer = "DEC_WRITE"
          /\ "TB" \in DOMAIN timer_writes <=> timer = "TB_WRITE"
          /\ timer = "DEC_WRITE" => timer_writes["DEC"] = new_dec
          /\ timer = "TB_WRITE" => timer_writes["TB"] = new_tb
      BY <1>1 DEF IInv, Timer, timer_writes, Nothing
    <3>4. \A r : (\E a \in go_wr : r \in a.regs) => by(r) = {res[r]}
      OBVIOUS
    <3>5. {"DEC", "TB"} \subseteq Reg
      BY DEF Reg, FAST
    <3>6. \/ "DEC" \in DOMAIN timer_writes /\ regs'["DEC"] = timer_writes["DEC"]
          \/ (\E a \in go_wr : "DEC" \in a.regs) /\ regs'["DEC"] = res["DEC"]
          \/ timer # "DEC_WRITE" /\ regs'["DEC"] = regs["DEC"]
      BY <1>1, <3>1, <3>3, <3>5, Written DEF IInv
    <3>7. \/ "TB" \in DOMAIN timer_writes /\ regs'["TB"] = timer_writes["TB"]
          \/ (\E a \in go_wr : "TB" \in a.regs) /\ regs'["TB"] = res["TB"]
          \/ regs'["TB"] = regs["TB"]
      BY <1>1, <3>1, <3>3, <3>5, Written DEF IInv
    <3>8. spr_dec' # spr_dec => timer = "DEC_WRITE" /\ spr_dec' = new_dec
      BY <2>1 DEF Next, TimerClock
    <3>. HIDE DEF by
    <3>. QED  BY <3>2, <3>3, <3>4, <3>6, <3>7, <3>8
  <2>2. CASE UNCHANGED vars
    BY <2>2
  <2>. QED  BY <1>1, <2>1, <2>2
<1>2. [][Counts]_vars => TimerCounts
  BY DEF TimerCounts
<1>. QED  BY <1>1, <1>2, IInvAlways, TypeAlways, PTL DEF Spec

-----------------------------------------------------------------------------
(* Induction over a set of numbers, and the functions it defines.          *)

LEMMA NatSetInduction ==
    ASSUME NEW S, 0 \in S, \A n \in Nat : n \in S => n + 1 \in S
    PROVE  Nat \subseteq S
<1>1. CASE Nat \ S = {}
  BY <1>1
<1>2. CASE Nat \ S # {}
  <2>. DEFINE T == Nat \ S
  <2>0. T \subseteq Nat /\ T # {}
    BY <1>2
  <2>. HIDE DEF T
  <2>1. PICK m \in T : \A k \in T : ~ (<<k, m>> \in OpToRel(<, Nat))
    BY <2>0, WFMin, NatLessThanWellFounded
  <2>2. m \in Nat /\ m \notin S /\ m # 0
    BY DEF T
  <2>3. m - 1 \in Nat /\ m - 1 < m /\ (m - 1) + 1 = m
    BY <2>2
  <2>4. m - 1 \in S
    <3>1. SUFFICES ASSUME m - 1 \in T  PROVE FALSE
      BY <2>3 DEF T
    <3>2. <<m - 1, m>> \in OpToRel(<, Nat)
      BY <2>2, <2>3, SMT DEF OpToRel
    <3>. QED  BY <2>1, <3>1, <3>2
  <2>. QED  BY <2>2, <2>3, <2>4
<1>. QED  BY <1>1, <1>2

\* A value for each of 0 .. n, each computed from the one before.
Computes(f, n, base, step) ==
    f[0] = base /\ \A i \in 1 .. n : f[i] = step[<<i, f[i - 1]>>]

LEMMA IntervalRecursion ==
    ASSUME NEW n \in Nat, NEW V, NEW base \in V, NEW step \in [Nat \X V -> V]
    PROVE  \E f \in [0 .. n -> V] : Computes(f, n, base, step)
<1>. DEFINE Ok(k, f) == Computes(f, k, base, step)
            S == {k \in Nat : \E f \in [0 .. k -> V] : Ok(k, f)}
<1>. USE DEF Computes
<1>1. 0 \in S
  <2>1. [i \in 0 .. 0 |-> base] \in [0 .. 0 -> V] /\ Ok(0, [i \in 0 .. 0 |-> base])
    OBVIOUS
  <2>. QED  BY <2>1
<1>2. ASSUME NEW k \in Nat, k \in S
      PROVE  k + 1 \in S
  <2>1. PICK f \in [0 .. k -> V] : Ok(k, f)
    BY <1>2
  <2>. DEFINE g == [i \in 0 .. k + 1 |-> IF i = k + 1 THEN step[<<k + 1, f[k]>>] ELSE f[i]]
  <2>2. g \in [0 .. k + 1 -> V]
    BY <2>1
  <2>3. g[0] = base
    BY <2>1
  <2>4. ASSUME NEW i \in 1 .. k + 1
        PROVE  g[i] = step[<<i, g[i - 1]>>]
    <3>1. CASE i = k + 1
      <4>1. i - 1 = k /\ g[i - 1] = f[k] /\ i \in 0 .. k + 1
        BY <3>1
      <4>. QED  BY <3>1, <4>1
    <3>2. CASE i # k + 1
      <4>1. i \in 1 .. k /\ g[i] = f[i] /\ g[i - 1] = f[i - 1]
        BY <3>2
      <4>. QED  BY <2>1, <4>1
    <3>. QED  BY <3>1, <3>2
  <2>5. Ok(k + 1, g)
    BY <2>3, <2>4
  <2>. HIDE DEF Ok, g
  <2>6. \E h \in [0 .. k + 1 -> V] : Ok(k + 1, h)
    BY <2>2, <2>5
  <2>. QED  BY <2>6
<1>3. n \in S
  <2>. HIDE DEF S
  <2>. QED  BY <1>1, <1>2, NatSetInduction
<1>. QED  BY <1>3, Zenon

-----------------------------------------------------------------------------
(* The chain of comparators of the source unit.                            *)

ChainType == [src : Source, pri : Pri]

\* One comparator: the i-th, after what the chain g holds below it.
Comparator(g, i) ==
    IF i = 0 THEN [src |-> 0, pri |-> Masked]
    ELSE IF i - 1 \in int_level_l /\ a_mf_b(xive[i - 1], g[i - 1].pri)
           THEN [src |-> i - 1, pri |-> xive[i - 1]] ELSE g[i - 1]

LEMMA ChainStep ==
    ASSUME XicsTypeOK
    PROVE  /\ Chain \in [0 .. SRC_NUM -> ChainType]
           /\ \A i \in 0 .. SRC_NUM : Chain[i] = Comparator(Chain, i)
<1>. DEFINE base == [src |-> 0, pri |-> Masked]
            step == [p \in Nat \X ChainType |->
                        IF p[1] - 1 \in int_level_l /\ xive[p[1] - 1] < p[2].pri
                          THEN [src |-> p[1] - 1, pri |-> xive[p[1] - 1]] ELSE p[2]]
<1>1. SRC_NUM \in Nat /\ base \in ChainType
  BY XicsAssumption DEF ChainType, Source, Pri
<1>2. \A p \in Nat \X ChainType : p[1] - 1 \in int_level_l => p[1] - 1 \in Source
  BY DEF XicsTypeOK
<1>3. step \in [Nat \X ChainType -> ChainType]
  BY <1>2 DEF XicsTypeOK, ChainType
<1>4. PICK f \in [0 .. SRC_NUM -> ChainType] : Computes(f, SRC_NUM, base, step)
  <2>. HIDE DEF base, step
  <2>. QED  BY <1>1, <1>3, IntervalRecursion
<1>5. ASSUME NEW i \in 0 .. SRC_NUM
      PROVE  f[i] = Comparator(f, i)
  <2>1. CASE i = 0
    BY <1>4, <2>1 DEF Computes, Comparator
  <2>2. CASE i # 0
    <3>1. i \in 1 .. SRC_NUM /\ i \in Nat /\ i - 1 \in 0 .. SRC_NUM
      BY <1>1, <2>2
    <3>2. f[i] = step[<<i, f[i - 1]>>] /\ f[i - 1] \in ChainType
      BY <1>4, <3>1 DEF Computes
    <3>. QED  BY <2>2, <3>1, <3>2 DEF Comparator, a_mf_b
  <2>. QED  BY <2>1, <2>2
<1>6. f = [i \in 0 .. SRC_NUM |-> Comparator(f, i)]
  BY <1>4, <1>5
<1>7. Chain = [i \in 0 .. SRC_NUM |-> Comparator(Chain, i)]
  BY <1>6 DEF Chain, Comparator
<1>8. \A i \in 0 .. SRC_NUM : Chain[i] = Comparator(Chain, i)
  BY <1>7, Zenon
<1>9. \A i \in 0 .. SRC_NUM : Chain[i] \in ChainType
  <2>. DEFINE S == {i \in Nat : i \in 0 .. SRC_NUM => Chain[i] \in ChainType}
  <2>1. 0 \in S
    BY <1>1, <1>8 DEF Comparator
  <2>2. ASSUME NEW n \in Nat, n \in S
        PROVE  n + 1 \in S
    <3>1. SUFFICES ASSUME n + 1 \in 0 .. SRC_NUM
                   PROVE  Chain[n + 1] \in ChainType
      OBVIOUS
    <3>2. n \in 0 .. SRC_NUM /\ n + 1 # 0 /\ (n + 1) - 1 = n
      BY <3>1, <1>1
    <3>3. Chain[n] \in ChainType
      BY <2>2, <3>2
    <3>4. Chain[n + 1] = IF n \in int_level_l /\ a_mf_b(xive[n], Chain[n].pri)
                           THEN [src |-> n, pri |-> xive[n]] ELSE Chain[n]
      BY <1>8, <3>1, <3>2 DEF Comparator
    <3>5. n \in int_level_l => n \in Source /\ xive[n] \in Pri
      BY DEF XicsTypeOK
    <3>. QED  BY <3>3, <3>4, <3>5 DEF ChainType
  <2>. HIDE DEF S
  <2>3. Nat \subseteq S
    BY <2>1, <2>2, NatSetInduction
  <2>. QED  BY <2>3, <1>1 DEF S
<1>. QED  BY <1>7, <1>8, <1>9

\* The sources below n that may interrupt, and the most favoured of them.
Below(n) == {s \in int_level_l : xive[s] < Masked /\ s < n}
Best(n) ==
    /\ \A t \in Below(n) : \/ Chain[n].pri < xive[t]
                           \/ Chain[n].pri = xive[t] /\ Chain[n].src <= t
    /\ Chain[n].pri # Masked => /\ Chain[n].src \in Below(n)
                                /\ Chain[n].pri = xive[Chain[n].src]

LEMMA ChainBest ==
    ASSUME XicsTypeOK
    PROVE  \A n \in 0 .. SRC_NUM : Best(n)
<1>. DEFINE S == {n \in Nat : n \in 0 .. SRC_NUM => Best(n)}
<1>1. SRC_NUM \in Nat /\ Masked \in Nat
  BY XicsAssumption
<1>2. /\ \A i \in 0 .. SRC_NUM : Chain[i] \in [src : Source, pri : Pri]
      /\ \A i \in 0 .. SRC_NUM : Chain[i] = Comparator(Chain, i)
  BY ChainStep DEF ChainType
<1>3. \A s \in int_level_l : s \in Nat /\ xive[s] \in Nat
  BY DEF XicsTypeOK, Source, Pri
<1>4. 0 \in S
  <2>1. Below(0) = {}
    BY <1>3 DEF Below
  <2>2. Chain[0].pri = Masked
    <3>1. 0 \in 0 .. SRC_NUM
      BY <1>1
    <3>2. Chain[0] = Comparator(Chain, 0)
      BY <1>2, <3>1
    <3>. QED  BY <3>2 DEF Comparator
  <2>. QED  BY <2>1, <2>2 DEF Best
<1>5. ASSUME NEW n \in Nat, n \in S
      PROVE  n + 1 \in S
  <2>1. SUFFICES ASSUME n + 1 \in 0 .. SRC_NUM
                 PROVE  Best(n + 1)
    OBVIOUS
  <2>2. n \in 0 .. SRC_NUM /\ n + 1 # 0 /\ (n + 1) - 1 = n /\ Best(n)
    BY <2>1, <1>1, <1>5
  <2>3. Chain[n + 1] = IF n \in int_level_l /\ xive[n] < Chain[n].pri
                         THEN [src |-> n, pri |-> xive[n]] ELSE Chain[n]
    BY <1>2, <2>1, <2>2 DEF Comparator, a_mf_b
  <2>4. Chain[n].src \in Nat /\ Chain[n].pri \in 0 .. Masked
    BY <1>2, <2>2 DEF Source, Pri
  <2>5. \A t : t \in Below(n + 1) <=> t \in Below(n)
                                      \/ (t = n /\ n \in int_level_l /\ xive[n] < Masked)
    <3>. SUFFICES ASSUME NEW t
                  PROVE  t \in Below(n + 1) <=> t \in Below(n)
                                      \/ (t = n /\ n \in int_level_l /\ xive[n] < Masked)
      OBVIOUS
    <3>1. CASE t \in int_level_l
      <4>1. t \in Nat /\ (t < n + 1 <=> t < n \/ t = n) /\ ~ n < n
        BY <1>3, <3>1
      <4>2. \A k : t \in Below(k) <=> t \in int_level_l /\ xive[t] < Masked /\ t < k
        BY Zenon DEF Below
      <4>. QED  BY <3>1, <4>1, <4>2, Zenon
    <3>2. CASE t \notin int_level_l
      BY <3>2 DEF Below
    <3>. QED  BY <3>1, <3>2
  <2>6. CASE n \in int_level_l /\ xive[n] < Chain[n].pri
    <3>1. n \in Below(n + 1) /\ Chain[n + 1].src = n /\ Chain[n + 1].pri = xive[n]
      BY <1>1, <1>3, <2>3, <2>4, <2>5, <2>6
    <3>2. \A t \in Below(n) : xive[n] < xive[t]
      BY <1>3, <2>2, <2>4, <2>6 DEF Best, Below
    <3>. QED  BY <1>3, <2>5, <3>1, <3>2 DEF Best
  <2>7. CASE ~ (n \in int_level_l /\ xive[n] < Chain[n].pri)
    <3>1. Chain[n + 1] = Chain[n]
      BY <2>3, <2>7
    <3>2. ASSUME n \in int_level_l, xive[n] < Masked
          PROVE  \/ Chain[n].pri < xive[n]
                 \/ Chain[n].pri = xive[n] /\ Chain[n].src <= n
      <4>1. Chain[n].pri <= xive[n] /\ xive[n] \in Nat
        BY <1>3, <2>4, <2>7, <3>2
      <4>2. Chain[n].pri # Masked
        BY <1>1, <2>4, <3>2, <4>1
      <4>3. Chain[n].src < n
        BY <2>2, <4>2 DEF Best, Below
      <4>. QED  BY <2>4, <4>1, <4>3
    <3>3. \A t \in Below(n + 1) : \/ Chain[n].pri < xive[t]
                                  \/ Chain[n].pri = xive[t] /\ Chain[n].src <= t
      BY <2>2, <2>5, <3>2 DEF Best
    <3>4. Chain[n].pri # Masked => /\ Chain[n].src \in Below(n + 1)
                                   /\ Chain[n].pri = xive[Chain[n].src]
      <4>1. SUFFICES ASSUME Chain[n].pri # Masked
                     PROVE  /\ Chain[n].src \in Below(n + 1)
                            /\ Chain[n].pri = xive[Chain[n].src]
        OBVIOUS
      <4>2. Chain[n].src \in Below(n) /\ Chain[n].pri = xive[Chain[n].src]
        BY <2>2, <4>1 DEF Best
      <4>. QED  BY <2>5, <4>2, Zenon
    <3>. QED  BY <3>1, <3>3, <3>4 DEF Best
  <2>. QED  BY <2>6, <2>7
<1>6. Nat \subseteq S
  <2>. HIDE DEF S
  <2>. QED  BY <1>4, <1>5, NatSetInduction
<1>. QED  BY <1>1, <1>6

\* What the source unit presents at the end of a clock.
LEMMA ChainEndBest ==
    ASSUME XicsTypeOK
    PROVE  /\ ChainEnd \in [src : Source, pri : Pri]
           /\ \A t \in int_level_l :
                 xive[t] < Masked => \/ ChainEnd.pri < xive[t]
                                     \/ ChainEnd.pri = xive[t] /\ ChainEnd.src <= t
           /\ ChainEnd.pri # Masked => /\ ChainEnd.src \in int_level_l
                                       /\ xive[ChainEnd.src] < Masked
                                       /\ ChainEnd.pri = xive[ChainEnd.src]
<1>1. SRC_NUM \in 0 .. SRC_NUM
  BY XicsAssumption
<1>2. \A t \in int_level_l : t < SRC_NUM
  BY XicsAssumption DEF XicsTypeOK, Source
<1>3. ChainEnd \in [src : Source, pri : Pri]
  BY <1>1, ChainStep DEF ChainEnd, ChainType
<1>4. Best(SRC_NUM)
  BY <1>1, ChainBest
<1>. QED  BY <1>2, <1>3, <1>4 DEF Best, Below, ChainEnd

-----------------------------------------------------------------------------
(* The clock.                                                              *)

LEMMA TickIsNext ==
    ASSUME MCNext
    PROVE  XicsNext /\ icp_o' = ChainEnd
<1>1. XicsNext
  BY DEF MCNext, WatchIrq, WatchLines, WatchClaims, XicsNext
<1>. QED  BY <1>1 DEF XicsNext, Reset, IcpAccess, XiveWrite, IcsClock

LEMMA MinPri ==
    ASSUME XicsTypeOK
    PROVE  /\ min_pri \in Pri /\ min_pri <= icp_o.pri /\ min_pri <= mfrr
           /\ icp_o.src \in Source /\ icp_o.pri \in Pri
BY XicsAssumption DEF XicsTypeOK, Pri, min_pri, ipi, pending_priority

LEMMA IcpTypes ==
    ASSUME XicsTypeOK, NEW a \in XicsAccess, IcpClock(a)
    PROVE  /\ xisr' \in {NoSrc, Ipi} \cup {Xisr(s) : s \in Source}
           /\ cppr' \in Pri /\ mfrr' \in Pri
           /\ irq' \in BOOLEAN /\ core_irq_o' \in BOOLEAN
<1>1. min_pri \in Pri /\ icp_o.src \in Source
  BY MinPri
<1>2. a.op \in {"writeCppr", "writeMfrr"} => a.pri \in Pri
  BY DEF XicsAccess
<1>3. NextXisr \in {NoSrc, Ipi} \cup {Xisr(s) : s \in Source}
  BY <1>1 DEF NextXisr
<1>4. cppr' \in Pri /\ mfrr' \in Pri
  BY <1>1, <1>2 DEF IcpClock, NextCppr, XicsTypeOK
<1>5. irq' \in BOOLEAN /\ core_irq_o' \in BOOLEAN
  <2>1. Irq(a) \in BOOLEAN
    BY DEF Irq
  <2>. QED  BY <2>1, Zenon DEF IcpClock, XicsTypeOK
<1>. QED  BY <1>3, <1>4, <1>5 DEF IcpClock

\* The registers of the two units keep to their widths.
LEMMA XicsTypeStep ==
    ASSUME XicsTypeOK, XicsNext
    PROVE  XicsTypeOK'
<1>1. int_level_i' \subseteq Source
  BY DEF XicsNext, Lines
<1>2. int_level_l' \subseteq Source
  BY DEF XicsNext, Reset, IcpAccess, XiveWrite, IcsClock, XicsTypeOK
<1>3. xive' \in [Source -> Pri]
  BY XicsAssumption DEF XicsNext, Reset, IcpAccess, XiveWrite, XicsTypeOK, Pri
<1>4. icp_o' \in [src : Source, pri : Pri]
  BY ChainEndBest DEF XicsNext, Reset, IcpAccess, XiveWrite, IcsClock
<1>5. /\ xisr' \in {NoSrc, Ipi} \cup {Xisr(s) : s \in Source}
      /\ cppr' \in Pri /\ mfrr' \in Pri
      /\ irq' \in BOOLEAN /\ core_irq_o' \in BOOLEAN
  <2>1. CASE Reset
    <3>1. cppr' \in Pri /\ mfrr' \in Pri /\ xisr' = NoSrc
      BY <2>1, XicsAssumption DEF Reset, Pri
    <3>2. irq' \in BOOLEAN /\ core_irq_o' \in BOOLEAN
      BY <2>1, Zenon DEF Reset
    <3>. QED  BY <3>1, <3>2
  <2>2. CASE \E a \in XicsAccess : IcpAccess(a)
    BY <2>2, IcpTypes DEF IcpAccess
  <2>3. CASE \E s \in Source, p \in Pri : XiveWrite(s, p)
    <3>1. NoAccess \in XicsAccess
      BY DEF NoAccess, XicsAccess
    <3>. QED  BY <2>3, <3>1, IcpTypes DEF XiveWrite
  <2>. QED  BY <2>1, <2>2, <2>3 DEF XicsNext
<1>. QED  BY <1>1, <1>2, <1>3, <1>4, <1>5 DEF XicsTypeOK

LEMMA XicsTypeInit ==
    ASSUME XicsInit
    PROVE  XicsTypeOK
<1>1. /\ int_level_i \subseteq Source /\ int_level_l \subseteq Source
      /\ xive \in [Source -> Pri] /\ icp_o \in [src : Source, pri : Pri]
      /\ cppr \in Pri /\ mfrr \in Pri /\ xisr = NoSrc
  BY XicsAssumption DEF XicsInit, Source, Pri
<1>2. irq \in BOOLEAN /\ core_irq_o \in BOOLEAN
  BY Zenon DEF XicsInit
<1>. QED  BY <1>1, <1>2 DEF XicsTypeOK

\* Every register holds a value of its width, always: the interrupt
\* controller has no reachable state outside XicsTypeOK.
THEOREM XicsTypeAlways == MCSpec => []XicsTypeOK
<1>1. HistInit => XicsTypeOK
  BY XicsTypeInit DEF HistInit
<1>2. XicsTypeOK /\ [MCNext]_<<xicsVars, history>> => XicsTypeOK'
  <2>1. CASE MCNext
    BY <2>1, TickIsNext, XicsTypeStep
  <2>2. CASE UNCHANGED <<xicsVars, history>>
    BY <2>2 DEF xicsVars, icsVars, icpVars, XicsTypeOK
  <2>. QED  BY <2>1, <2>2
<1>. QED  BY <1>1, <1>2, PTL DEF MCSpec

\* Whatever the number of sources, the chain of comparators presents the most
\* favoured line, the first of equals, or none.
THEOREM FavouredAlways == MCSpec => PresentsFavoured
<1>1. ASSUME XicsTypeOK, [MCNext]_<<xicsVars, history>>
      PROVE  [watch = "irq" => FavouredSource]_xicsVars
  <2>1. CASE MCNext
    <3>1. icp_o' = ChainEnd
      BY <2>1, TickIsNext
    <3>2. \A s \in int_level_l : s \in Nat /\ xive[s] \in Nat
      BY <1>1 DEF XicsTypeOK, Source, Pri
    <3>3. Masked \in Nat /\ ChainEnd.pri \in Nat /\ ChainEnd.pri <= Masked
          /\ ChainEnd.src \in Nat
      BY <1>1, ChainEndBest, XicsAssumption DEF Source, Pri
    <3>. DEFINE c == {s \in int_level_l : xive[s] < Masked}
                best == {s \in c : \A t \in c : \/ xive[s] < xive[t]
                                                \/ xive[s] = xive[t] /\ s <= t}
    <3>4. CASE ChainEnd.pri = Masked
      <4>1. c = {}
        BY <1>1, <3>2, <3>3, <3>4, ChainEndBest
      <4>. QED  BY <3>1, <3>4, <4>1 DEF FavouredSource
    <3>5. CASE ChainEnd.pri # Masked
      <4>1. ChainEnd.src \in c /\ ChainEnd.pri = xive[ChainEnd.src]
        BY <1>1, <3>5, ChainEndBest
      <4>2. ChainEnd.src \in best
        BY <1>1, <4>1, ChainEndBest
      <4>. QED  BY <3>1, <4>1, <4>2 DEF FavouredSource
    <3>. QED  BY <3>4, <3>5
  <2>2. CASE UNCHANGED <<xicsVars, history>>
    BY <2>2
  <2>. QED  BY <1>1, <2>1, <2>2
<1>. QED  BY <1>1, XicsTypeAlways, PTL DEF MCSpec, PresentsFavoured

-----------------------------------------------------------------------------
(* No phantom: a line that went down works its way out of the registers.   *)

LineAges ==
    /\ gone \in [Source -> 0 .. 3]
    /\ \A s \in int_level_l : gone[s] = 0
    /\ icp_o.pri # Masked => gone[icp_o.src] <= 1
    /\ \A s \in Source : xisr = Xisr(s) => gone[s] <= 2
LInv == watch = "lines" => LineAges

\* NoPhantom for every number of sources: with the ages of the registered lines
\* and of the presented source it is inductive.
THEOREM NoPhantomAlways == MCSpec => []NoPhantom
<1>1. ASSUME HistInit
      PROVE  LInv
  <2>1. gone \in [Source -> 0 .. 3] /\ gone[0] = 0
    BY <1>1, XicsAssumption DEF HistInit, XicsInit, Source
  <2>. QED  BY <1>1, <2>1 DEF HistInit, XicsInit, LInv, LineAges, NoSrc, Xisr, Source
<1>2. ASSUME XicsTypeOK, LInv, [MCNext]_<<xicsVars, history>>
      PROVE  LInv'
  <2>1. CASE MCNext
    <3>1. watch' = watch
      BY <2>1 DEF MCNext, WatchIrq, WatchLines, WatchClaims, Claims, history
    <3>2. SUFFICES ASSUME watch = "lines"
                   PROVE  LineAges'
      BY <3>1 DEF LInv
    <3>3. LineAges /\ XicsNext /\ icp_o' = ChainEnd
      BY <1>2, <2>1, <3>2, TickIsNext DEF LInv
    <3>4. gone' = [s \in Source |-> IF up(s) THEN 0 ELSE least(gone[s] + 1, 3)]
      BY <2>1, <3>2 DEF MCNext, WatchIrq, WatchLines, WatchClaims
    <3>5. \A s \in Source : gone[s] \in 0 .. 3 /\ gone'[s] \in 0 .. 3
                            /\ gone'[s] <= gone[s] + 1
                            /\ (s \in int_level_i => gone'[s] = 0)
      BY <3>3, <3>4 DEF LineAges, least, up
    <3>6. gone' \in [Source -> 0 .. 3]
      BY <3>4, <3>5
    <3>7. \A s \in int_level_l' : gone'[s] = 0
      BY <1>2, <3>3, <3>5 DEF XicsNext, Reset, IcpAccess, XiveWrite, IcsClock, XicsTypeOK
    <3>8. icp_o'.pri # Masked => gone'[icp_o'.src] <= 1
      BY <1>2, <3>3, <3>5, ChainEndBest DEF LineAges, XicsTypeOK
    <3>9. ASSUME NEW s \in Source, xisr' = Xisr(s)
          PROVE  gone'[s] <= 2
      <4>1. xisr' = NoSrc \/ xisr' = Ipi \/ (ics_pending /\ xisr' = Xisr(icp_o.src))
        BY <3>3 DEF XicsNext, Reset, IcpAccess, XiveWrite, IcpClock, NextXisr
      <4>2. icp_o.src \in Source
        BY <1>2, MinPri
      <4>3. ics_pending /\ icp_o.src = s
        BY <3>9, <4>1, <4>2, XicsAssumption DEF Xisr, NoSrc, Ipi, Source
      <4>. QED  BY <3>3, <3>5, <4>3 DEF LineAges, ics_pending
    <3>. QED  BY <3>6, <3>7, <3>8, <3>9 DEF LineAges, Xisr
  <2>2. CASE UNCHANGED <<xicsVars, history>>
    BY <1>2, <2>2 DEF xicsVars, icsVars, icpVars, history, LInv, LineAges, Xisr
  <2>. QED  BY <1>2, <2>1, <2>2
<1>3. LInv => NoPhantom
  BY DEF LInv, LineAges, NoPhantom
<1>. QED  BY <1>1, <1>2, <1>3, XicsTypeAlways, PTL DEF MCSpec

-----------------------------------------------------------------------------
(* What was handed out is masked.                                          *)

ClaimsMasked ==
    /\ steady \in [Intr -> 0 .. 2]
    /\ \A s \in Source : steady[s] >= 1 => s \in int_level_l \/ xive[s] = Masked
    /\ \A s \in Source : steady[s] = 2 => icp_o.pri <= xive[s]
    /\ claimed \subseteq Intr
    /\ \A i \in claimed : steady[i] = 2 /\ cppr <= priOf(i)
CInv == /\ watch = "claims" => ClaimsMasked
        /\ watch # "claims" => claimed = {}

\* What an accept takes is at least as favoured as every steady interrupt.
LEMMA MinPriFavoured ==
    ASSUME XicsTypeOK, ClaimsMasked, NEW i \in Intr, steady[i] = 2
    PROVE  min_pri <= priOf(i) /\ priOf(i) \in Nat /\ min_pri \in Nat
<1>1. /\ min_pri \in Nat /\ min_pri <= icp_o.pri /\ min_pri <= mfrr
      /\ icp_o.pri \in Nat /\ mfrr \in Nat /\ \A s \in Source : xive[s] \in Nat
  BY MinPri DEF XicsTypeOK, Pri
<1>2. CASE i = SRC_NUM
  BY <1>1, <1>2 DEF priOf
<1>3. CASE i # SRC_NUM
  <2>1. i \in Source /\ priOf(i) = xive[i]
    BY <1>3 DEF Intr, priOf
  <2>. QED  BY <1>1, <2>1 DEF ClaimsMasked
<1>. QED  BY <1>2, <1>3

\* The history keeps ClaimsMasked through a clock that accepts, that writes
\* CPPR (a reset counts as that), or that leaves CPPR alone.
LEMMA ClaimsStep ==
    ASSUME XicsTypeOK, ClaimsMasked, NEW op, Claims(op), XicsNext, icp_o' = ChainEnd,
           op \in {"writeCppr", "accept"} \/ cppr' = cppr,
           op = "accept" => cppr' = min_pri
    PROVE  ClaimsMasked'
<1>1. \A i \in Intr : /\ steady[i] \in 0 .. 2 /\ steady'[i] \in 0 .. 2
                      /\ (steady'[i] # 0 => still(i))
                      /\ (steady'[i] = 2 => steady[i] >= 1)
                      /\ (still(i) /\ steady[i] = 2 => steady'[i] = 2)
  BY DEF ClaimsMasked, Claims, least
<1>2. steady' \in [Intr -> 0 .. 2]
  BY <1>1 DEF Claims
<1>3. Source \subseteq Intr /\ SRC_NUM \notin Source
  BY XicsAssumption DEF Intr, Source
<1>4. \A s \in Source : still(s) => /\ s \in int_level_i /\ xive'[s] = xive[s]
  BY <1>3 DEF still, up, priOf
<1>5. ASSUME NEW s \in Source, steady'[s] >= 1
      PROVE  s \in int_level_l' \/ xive'[s] = Masked
  <2>1. s \in int_level_i
    BY <1>1, <1>3, <1>4, <1>5
  <2>. QED  BY <2>1 DEF XicsNext, Reset, IcpAccess, XiveWrite, IcsClock
<1>6. ASSUME NEW s \in Source, steady'[s] = 2
      PROVE  icp_o'.pri <= xive'[s]
  <2>1. (s \in int_level_l \/ xive[s] = Masked) /\ xive'[s] = xive[s]
    BY <1>1, <1>3, <1>4, <1>6 DEF ClaimsMasked
  <2>2. xive[s] \in Nat /\ xive[s] <= Masked /\ Masked \in Nat
        /\ ChainEnd.pri \in Nat /\ ChainEnd.pri <= Masked
    BY ChainEndBest, XicsAssumption DEF XicsTypeOK, Pri
  <2>. QED  BY <2>1, <2>2, ChainEndBest
<1>7. claimed' \subseteq Intr
  BY DEF Claims
<1>8. ASSUME NEW i \in claimed'
      PROVE  steady'[i] = 2 /\ cppr' <= priOf(i)'
  <2>1. i \in Intr /\ still(i) /\ op # "writeCppr" /\ steady[i] = 2
        /\ (i \in claimed \/ op = "accept")
    BY <1>8 DEF Claims, ClaimsMasked
  <2>2. steady'[i] = 2 /\ priOf(i)' = priOf(i)
    BY <1>1, <2>1 DEF still
  <2>3. CASE op = "accept"
    BY <2>1, <2>2, <2>3, MinPriFavoured
  <2>4. CASE op # "accept"
    BY <2>1, <2>2, <2>4 DEF ClaimsMasked
  <2>. QED  BY <2>2, <2>3, <2>4
<1>. QED  BY <1>2, <1>5, <1>6, <1>7, <1>8 DEF ClaimsMasked

\* MasksItself for every number of sources and every priority: CPPR stays at or
\* below the priority of what was claimed, and irq does not rise for it (XISR
\* presents it whatever CPPR is, XICS_ICP.elaborate).  The registered line and
\* the presented priority of an interrupt that has been steady for one and for
\* two clocks are what makes it inductive.
THEOREM MasksItselfAlways == MCSpec => []MasksItself
<1>1. ASSUME HistInit
      PROVE  CInv
  <2>1. steady \in [Intr -> 0 .. 2] /\ claimed = {} /\ \A i \in Intr : steady[i] = 0
    BY <1>1 DEF HistInit
  <2>2. \A s \in Source : s \in Intr
    BY DEF Intr
  <2>. QED  BY <2>1, <2>2 DEF CInv, ClaimsMasked
<1>2. ASSUME XicsTypeOK, CInv, [MCNext]_<<xicsVars, history>>
      PROVE  CInv'
  <2>1. CASE MCNext
    <3>1. watch' = watch
      BY <2>1 DEF MCNext, WatchIrq, WatchLines, WatchClaims, Claims, history
    <3>2. SUFFICES ASSUME watch = "claims"
                   PROVE  ClaimsMasked'
      <4>1. watch # "claims" => claimed' = claimed
        BY <2>1 DEF MCNext, WatchIrq, WatchLines, WatchClaims, history
      <4>. QED  BY <1>2, <3>1, <4>1 DEF CInv
    <3>3. ClaimsMasked /\ XicsNext /\ icp_o' = ChainEnd
      BY <1>2, <2>1, <3>2, TickIsNext DEF CInv
    <3>4. WatchClaims
      BY <2>1, <3>2 DEF MCNext, WatchIrq, WatchLines
    <3>5. CASE Reset /\ Claims("writeCppr")
      BY <1>2, <3>3, <3>5, ClaimsStep
    <3>6. ASSUME NEW a \in XicsAccess, IcpAccess(a), Claims(a.op)
          PROVE  ClaimsMasked'
      <4>1. a.op \in {"none", "accept", "writeCppr", "writeMfrr"}
        BY DEF XicsAccess
      <4>2. cppr' = NextCppr(a)
        BY <3>6 DEF IcpAccess, IcpClock
      <4>3. a.op = "accept" => cppr' = min_pri
        BY <4>2 DEF NextCppr
      <4>4. a.op \in {"writeCppr", "accept"} \/ cppr' = cppr
        BY <4>1, <4>2 DEF NextCppr
      <4>. QED  BY <1>2, <3>3, <3>6, <4>1, <4>3, <4>4, ClaimsStep
    <3>7. ASSUME NEW s \in Source, NEW p \in Pri, XiveWrite(s, p), Claims("none")
          PROVE  ClaimsMasked'
      <4>1. cppr' = cppr
        BY <3>7 DEF XiveWrite, IcpClock, NextCppr, NoAccess
      <4>. QED  BY <1>2, <3>3, <3>7, <4>1, ClaimsStep
    <3>. QED  BY <3>4, <3>5, <3>6, <3>7 DEF WatchClaims
  <2>2. CASE UNCHANGED <<xicsVars, history>>
    BY <1>2, <2>2 DEF xicsVars, icsVars, icpVars, history, CInv, ClaimsMasked, priOf
  <2>. QED  BY <1>2, <2>1, <2>2
<1>3. CInv => MasksItself
  BY DEF CInv, ClaimsMasked, MasksItself
<1>. QED  BY <1>1, <1>2, <1>3, XicsTypeAlways, PTL DEF MCSpec
=============================================================================
