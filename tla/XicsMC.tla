------------------------------- MODULE XicsMC -------------------------------
(* What the interrupt lines, the core, and software that reads XIRR see of *)
(* the interrupt controller.                                               *)
EXTENDS Xics

\* An interrupt is a source, or the IPI (written SRC_NUM).
Intr == Source \cup {SRC_NUM}
priOf(i) == IF i = SRC_NUM THEN mfrr ELSE xive[i]
ident(i) == IF i = SRC_NUM THEN Ipi ELSE Xisr(i)
up(i) == i \in int_level_i \cup {SRC_NUM}

\* History; a behaviour keeps one.  gone: the clocks (at most 3) since a line was
\* last up.  steady: the clocks (at most 2) an interrupt has been up at the same
\* priority; claimed: what was handed out and has been steady ever since, with
\* CPPR not written.
VARIABLES watch, steady, gone, claimed
history == <<watch, steady, gone, claimed>>

HistInit ==
    /\ XicsInit
    /\ watch \in {"irq", "lines", "claims"}
    /\ steady = [i \in Intr |-> 0]
    /\ gone = [s \in Source |-> IF s = icp_o.src THEN 0 ELSE 3]
    /\ claimed = {}

still(i) == up(i) /\ up(i)' /\ priOf(i)' = priOf(i)
least(a, b) == IF a < b THEN a ELSE b

WatchLines ==
    /\ watch = "lines"
    /\ XicsNext
    /\ gone' = [s \in Source |-> IF up(s) THEN 0 ELSE least(gone[s] + 1, 3)]
    /\ UNCHANGED <<watch, steady, claimed>>

Claims(op) ==
    /\ steady' = [i \in Intr |-> IF still(i) THEN least(steady[i] + 1, 2) ELSE 0]
    /\ claimed' = IF op = "writeCppr" THEN {}
                  ELSE {i \in Intr : /\ still(i)
                                     /\ \/ i \in claimed
                                        \/ /\ op = "accept" /\ ident(i) = xisr
                                           /\ steady[i] = 2}
    /\ UNCHANGED <<watch, gone>>

WatchClaims ==
    /\ watch = "claims"
    /\ Lines
    /\ \/ Reset /\ Claims("writeCppr")
       \/ \E a \in XicsAccess : IcpAccess(a) /\ Claims(a.op)
       \/ \E s \in Source, p \in Pri : XiveWrite(s, p) /\ Claims("none")

WatchIrq == watch = "irq" /\ XicsNext /\ UNCHANGED history

\* The clock ticks.
MCNext == WatchIrq \/ WatchLines \/ WatchClaims
MCSpec == /\ HistInit
          /\ [][MCNext]_<<xicsVars, history>>
          /\ WF_xicsVars(WatchIrq)

-----------------------------------------------------------------------------
\* The source unit presents the most favoured of the lines that are up, the
\* first of equals, or none (the chain of XICS_ICS.elaborate).
FavouredSource ==
    LET c == {s \in int_level_l : xive[s] < Masked}
        best == {s \in c : \A t \in c : \/ xive[s] < xive[t]
                                        \/ xive[s] = xive[t] /\ s <= t}
    IN  IF c = {} THEN icp_o'.pri = Masked
        ELSE icp_o'.src \in best /\ icp_o'.pri = xive[icp_o'.src]
PresentsFavoured == [][watch = "irq" => FavouredSource]_xicsVars

\* An interrupt that stays up and favoured interrupts the core for good; when
\* the lines that are up, and the IPI, stay masked by CPPR, it goes away
\* (irq's set and clear through the four registers of the two units).
IrqFollows ==
    watch = "irq" =>
    \A c \in Pri \ {0} :
    /\ \A i \in Intr :
         <>[](up(i) /\ priOf(i) < c /\ c <= cppr) => <>[]core_irq_o
    /\ \A S \in SUBSET Source :
         <>[]( /\ cppr = c /\ mfrr >= c /\ int_level_i \subseteq S
               /\ \A s \in S : xive[s] >= c) => <>[]~core_irq_o

\* What XIRR presents was up a few clocks before, whatever became of the line,
\* its XIVE or the core's reset since: no phantom source.
NoPhantom == watch = "lines" => \A s \in Source : xisr = Xisr(s) => gone[s] <= 2

\* An interrupt that was handed out does not interrupt its own handler: as
\* long as it is steady CPPR masks it, also when XISR and the priority taken at
\* the accept belong to different sources, and through nested accepts, until
\* CPPR is written (min_pri and xirr_accept_rd of XICS_ICP.elaborate).
MasksItself == \A i \in claimed : cppr <= priOf(i)
=============================================================================
