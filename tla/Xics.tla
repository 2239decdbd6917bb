-------------------------------- MODULE Xics --------------------------------
(***************************************************************************)
(* The interrupt controller (src/soc/interrupts/xics.py): the source unit  *)
(* XICS_ICS, the presenter XICS_ICP, and what drives them.                 *)
(*                                                                         *)
(* One step is one clock, with at most one bus access (wb_rw.py: stb is up *)
(* for one clock).  What a read returns is the state it reads: <<xisr,     *)
(* cppr>>, mfrr or a XIVE.  A lower priority is more favoured; Masked      *)
(* (0xff) is never presented.  All priorities are bytes: prio_pack and     *)
(* prio_unpack keep them as they are.                                      *)
(***************************************************************************)
EXTENDS Naturals

CONSTANTS SRC_NUM, Masked
ASSUME XicsAssumption == SRC_NUM \in Nat \ {0} /\ Masked \in Nat \ {0}

VARIABLES
    int_level_i,       \* the interrupt lines
    int_level_l, xive, \* ICS: lines, registered; priority of each source
    icp_o,             \* ICS to ICP: the favoured source and its priority
    xisr, cppr, mfrr,  \* ICP: presented source; processor's and IPI's priority
    irq, core_irq_o

icsVars == <<int_level_i, int_level_l, xive, icp_o>>
icpVars == <<xisr, cppr, mfrr, irq, core_irq_o>>
xicsVars == <<icsVars, icpVars>>

Source == 0 .. SRC_NUM - 1
Pri == 0 .. Masked
NoSrc == 0
Ipi == 2
Xisr(s) == 16 + s

XicsTypeOK ==
    /\ int_level_i \subseteq Source /\ int_level_l \subseteq Source
    /\ xive \in [Source -> Pri]
    /\ icp_o \in [src : Source, pri : Pri]
    /\ xisr \in {NoSrc, Ipi} \cup {Xisr(s) : s \in Source}
    /\ cppr \in Pri /\ mfrr \in Pri
    /\ irq \in BOOLEAN /\ core_irq_o \in BOOLEAN

XicsInit ==
    /\ int_level_i = {} /\ int_level_l = {}
    /\ xive = [s \in Source |-> Masked]
    /\ icp_o = [src |-> 0, pri |-> 0]
    /\ xisr = NoSrc /\ cppr = 0 /\ mfrr = Masked
    /\ irq = FALSE /\ core_irq_o = FALSE

-----------------------------------------------------------------------------
(* The source unit.                                                        *)

\* Mutant: an equal is more favoured.
a_mf_b_equal(a, b) == a <= b
a_mf_b(a, b) == a < b

\* The chain max_pri, max_idx after the sources below i.
Chain[i \in 0 .. SRC_NUM] ==
    IF i = 0 THEN [src |-> 0, pri |-> Masked]
    ELSE IF i - 1 \in int_level_l /\ a_mf_b(xive[i - 1], Chain[i - 1].pri)
           THEN [src |-> i - 1, pri |-> xive[i - 1]] ELSE Chain[i - 1]

ChainEnd == Chain[SRC_NUM]

IcsClock == int_level_l' = int_level_i /\ icp_o' = ChainEnd

-----------------------------------------------------------------------------
(* The presenter.  An access is a read of all of XIRR ("accept"), a write  *)
(* of CPPR or MFRR, or "none": XIRR_POLL, a byte of XIRR, MFRR, no access. *)

XicsAccess == [op : {"none", "accept"}, pri : {0}]
          \cup [op : {"writeCppr", "writeMfrr"}, pri : Pri]

ics_pending == icp_o.pri # Masked
pending_priority == icp_o.pri
ipi == mfrr < pending_priority
min_pri == IF ipi THEN mfrr ELSE pending_priority

\* Mutants: the old XISR stays when nothing is pending; accept ignores MFRR.
NextXisr_sticky == CASE ipi -> Ipi
                     [] ~ipi /\ ics_pending -> Xisr(icp_o.src)
                     [] OTHER -> xisr
NextCppr_noipi(a) == CASE a.op = "writeCppr" -> a.pri
                       [] a.op = "accept" -> pending_priority
                       [] OTHER -> cppr

NextXisr == CASE ipi -> Ipi
              [] ~ipi /\ ics_pending -> Xisr(icp_o.src)
              [] OTHER -> NoSrc
NextCppr(a) == CASE a.op = "writeCppr" -> a.pri
                 [] a.op = "accept" -> min_pri
                 [] OTHER -> cppr

\* Mutant: not cleared.
Irq_latched(a) == irq \/ min_pri < NextCppr(a)
Irq(a) == min_pri < NextCppr(a)

IcpClock(a) == /\ xisr' = NextXisr
               /\ cppr' = NextCppr(a)
               /\ mfrr' = IF a.op = "writeMfrr" THEN a.pri ELSE mfrr
               /\ irq' = Irq(a)
               /\ core_irq_o' = irq

-----------------------------------------------------------------------------
NoAccess == [op |-> "none", pri |-> 0]

IcpAccess(a) == IcsClock /\ xive' = xive /\ IcpClock(a)

XiveWrite(s, p) == /\ IcsClock
                   /\ xive' = [xive EXCEPT ![s] = p]
                   /\ IcpClock(NoAccess)

\* The core's reset; icp_o is reset_less.
Reset == /\ int_level_l' = {} /\ icp_o' = ChainEnd
         /\ xive' = [s \in Source |-> Masked]
         /\ xisr' = NoSrc /\ cppr' = 0 /\ mfrr' = Masked
         /\ irq' = FALSE /\ core_irq_o' = FALSE

Lines == int_level_i' \in SUBSET Source

XicsNext ==
    /\ Lines
    /\ \/ Reset
       \/ \E a \in XicsAccess : IcpAccess(a)
       \/ \E s \in Source, p \in Pri : XiveWrite(s, p)

XicsSpec == XicsInit /\ [][XicsNext]_xicsVars
=============================================================================
