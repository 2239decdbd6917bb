-------------------------- MODULE ScoreboardProofs --------------------------
(***************************************************************************)
(* Theorems about Scoreboard, for every number of units, registers and     *)
(* operands and every set of instructions: what an instruction reads, and  *)
(* what is left in the registers, is what the program says.                *)
(***************************************************************************)
EXTENDS ScoreboardMC, TLAPS

-----------------------------------------------------------------------------
(* The invariant.                                                          *)

Phase == {"idle", "read", "run", "write", "done", "lost"}
Live == {"read", "run", "write"}

Types ==
    /\ dest_c \in [Unit -> SUBSET Reg]
    /\ src_c \in [Unit -> [Src -> SUBSET Reg]]
    /\ wr_c \in [Unit -> SUBSET Unit]
    /\ shadow \in [Unit -> SUBSET Unit]
    /\ phase \in [Unit -> Phase] /\ to_read \in [Unit -> SUBSET Src]
    /\ result \in [Unit -> Value] /\ regs \in [Reg -> Value]
    /\ golden \in [Reg -> Value] /\ expect \in [Unit -> [Src -> Value]]
    /\ wrong \subseteq Unit /\ bshadow \subseteq Unit
    /\ good_r \subseteq Unit /\ fail_r \subseteq Unit
    /\ program \subseteq Insns

\* A row of the FU-Reg matrix is set from the issue to the read or the write; that
\* of an immediate stays, and may hold several registers.
Row(u) ==
    /\ dest_c[u] # {} => phase[u] \in Live
    /\ \A i \in Src : i \in to_read[u] => phase[u] = "read" /\ dest_c[u] # {}
Rows == \A u \in Unit : Row(u)

\* Of two units that have still to write one casts its shadow on the other.
Ordered ==
    \A u, v \in Unit : dest_c[u] # {} /\ dest_c[v] # {} /\ u # v
                         => u \in shadow[v] \/ v \in shadow[u]

\* The branch's shadow is on the units of both paths until it is decided;
\* those on the path not taken are under it, or write nowhere.
Speculation ==
    /\ bshadow = good_r \cup fail_r
    /\ good_r \cap fail_r = {}
    /\ active => phase[Branch] \in Live
    /\ ~active => bshadow = {}
    /\ \A u \in bshadow : phase[u] \in Live /\ u # Branch
    /\ \A u \in good_r : u \in wrong <=> result[Branch] # 1
    /\ \A u \in fail_r : u \in wrong <=> result[Branch] = 1
    /\ \A u \in wrong : u \in bshadow \/ dest_c[u] = {}

\* The units that will write r; those of them in front of u.
Pend(r) == {w \in Unit \ wrong : r \in dest_c[w]}
Older(u, r) == Pend(r) \cap shadow[u]

\* v is what the last of Q will write, or, when there is none, what is there.
Holds(Q, v, now, res, sh) ==
    \/ Q = {} /\ v = now
    \/ \E w \in Q : v = res[w] /\ \A x \in Q \ {w} : x \in sh[w]

Values ==
    /\ \A r \in Reg : Holds(Pend(r), golden[r], regs[r], result, shadow)
    /\ \A u \in Unit \ wrong : \A i \in to_read[u] : \A r \in Reg : src_c[u][i] = {r} =>
          /\ Older(u, r) \subseteq wr_c[u]
          /\ Holds(Older(u, r), expect[u][i], regs[r], result, shadow)

IInv == Types /\ Rows /\ Ordered /\ Speculation /\ Values

-----------------------------------------------------------------------------
(* The pickers and the wires.                                              *)

LEMMA UnitIsNat == Unit \subseteq Nat /\ None \notin Unit /\ Branch \in Unit
BY BoardAssumption DEF None

LEMMA PickedOne ==
    ASSUME NEW R \in SUBSET Unit
    PROVE  /\ Picked(R) \subseteq R
           /\ \A u, v \in Picked(R) : u = v
BY UnitIsNat DEF Picked

LEMMA GoWrite ==
    ASSUME Types
    PROVE  /\ \A u \in go_wr : /\ u \in Unit /\ phase[u] = "write"
                               /\ shadow[u] = {} /\ u \notin bshadow
           /\ \A u, v \in go_wr : u = v
<1>1. writable \cap wr_rel \in SUBSET Unit
  BY DEF writable
<1>. QED  BY <1>1, PickedOne DEF go_wr, wr_rel, shadown

LEMMA GoRead ==
    ASSUME Types, NEW i \in Src, NEW u \in go_rd(i)
    PROVE  u \in Unit /\ wr_c[u] = {} /\ phase[u] = "read" /\ i \in to_read[u]
<1>1. readable \cap rd_rel(i) \in SUBSET Unit
  BY DEF readable
<1>. QED  BY <1>1, PickedOne DEF go_rd, rd_rel, readable

LEMMA GoDie ==
    ASSUME Types, Speculation
    PROVE  /\ go_die \subseteq bshadow /\ go_die \subseteq wrong
           /\ br_i => bshadow = match_g \cup match_f /\ match_g \cap wrong = {}
           /\ ~br_i => go_die = {} /\ match_g = {} /\ match_f = {}
BY DEF go_die, match_f, match_g, br_ok, Speculation, Types

\* What a register holds at the end of the clock.
LEMMA RegsNow ==
    ASSUME Types, NEW r \in Reg
    PROVE  \/ \E w \in go_wr : r \in dest_c[w] /\ regs_now[r] = result[w]
           \/ (\A w \in go_wr : r \notin dest_c[w]) /\ regs_now[r] = regs[r]
<1>1. CASE r \in dest_rsel
  <2>1. PICK w \in go_wr : r \in dest_c[w]
    BY <1>1 DEF dest_rsel
  <2>2. w = CHOOSE u \in go_wr : TRUE
    BY GoWrite
  <2>. QED  BY <1>1, <2>1, <2>2 DEF regs_now
<1>2. CASE r \notin dest_rsel
  BY <1>2 DEF dest_rsel, regs_now
<1>. QED  BY <1>1, <1>2

-----------------------------------------------------------------------------
(* A clock, for a unit that is not given an instruction, and for the one   *)
(* that is.                                                                *)

Goes(u, fin) ==
    /\ dest_c'[u] = IF u \in go_wr \cup go_die THEN {} ELSE dest_c[u]
    /\ \A i \in Src : src_c'[u][i] = IF u \in go_rd(i) \cup go_die THEN {} ELSE src_c[u][i]
    /\ wr_c'[u] = wr_c[u] \ (go_wr \cup go_die)
    /\ shadow'[u] = IF u \in go_die THEN {} ELSE shadow[u] \cap busy
    /\ to_read'[u] = IF u \in go_die THEN {} ELSE {i \in to_read[u] : u \notin go_rd(i)}
    /\ phase'[u] = NextPhase(u, fin)
    /\ result'[u] = IF NextPhase(u, fin) = "idle" THEN 0 ELSE result[u]

Takes(u, in, value) ==
    /\ dest_c'[u] = {in.dest}
    /\ \A i \in Src : src_c'[u][i] = src_c[u][i] \cup {in.src[i]}
    /\ wr_c'[u] \subseteq Unit
    /\ \A w \in Unit \ {u} : \A i \in Src : in.src[i] \in dest_c'[w] => w \in wr_c'[u]
    /\ shadow'[u] = busy \ {u}
    /\ to_read'[u] = Src \ in.imm
    /\ phase'[u] = "read"
    /\ result'[u] = value

LEMMA GoesStep ==
    ASSUME Types, NEW iss, NEW fin, Clock(iss, fin), NEW u \in Unit, u # iss.unit
    PROVE  Goes(u, fin)
<1>1. \A x : Given(iss, u, x) = {}
  BY DEF Given
<1>2. dest_c'[u] = IF u \in go_wr \cup go_die THEN {} ELSE dest_c[u]
  BY <1>1 DEF Clock, FURegDepMatrix, dest_q, dest_qlq
<1>3. \A i \in Src : src_c'[u][i] = IF u \in go_rd(i) \cup go_die THEN {} ELSE src_c[u][i]
  BY <1>1 DEF Clock, FURegDepMatrix, src_q, src_qlq
<1>4. wr_c'[u] = wr_c[u] \ (go_wr \cup go_die)
  BY DEF Clock, FUFUDepMatrix, Waits
<1>5. shadow'[u] = IF u \in go_die THEN {} ELSE shadow[u] \cap busy
  BY DEF Clock, OrderShadows
<1>6. /\ to_read'[u] = IF u \in go_die THEN {} ELSE {i \in to_read[u] : u \notin go_rd(i)}
      /\ phase'[u] = NextPhase(u, fin)
      /\ result'[u] = IF NextPhase(u, fin) = "idle" THEN 0 ELSE result[u]
  BY DEF Clock, Units
<1>. QED  BY <1>2, <1>3, <1>4, <1>5, <1>6 DEF Goes

LEMMA TakesStep ==
    ASSUME Types, Rows, Speculation, NEW in \in Insns, NEW value \in Value, NEW fin,
           Issue(in, value, fin)
    PROVE  LET n == Issued(in, value).unit
           IN  /\ n \in Unit /\ n \in Group(in.br) /\ phase[n] = "idle"
               /\ Takes(n, in, value)
<1>. DEFINE iss == Issued(in, value)
            n == iss.unit
<1>1. n \in fn_issue(in.br)
  BY DEF Issue, Issued
<1>2. n \in Group(in.br) \ busy /\ Group(in.br) \subseteq Unit
  <2>1. Group(in.br) \subseteq Unit
    BY UnitIsNat DEF Group
  <2>. QED  BY <1>1, <2>1, PickedOne DEF fn_issue
<1>3. n \in Unit /\ phase[n] = "idle"
  BY <1>2 DEF busy
<1>4. dest_c[n] = {}
  BY <1>3, Zenon DEF Rows, Row, Live
<1>5. n \notin go_wr /\ n \notin go_die /\ \A i \in Src : n \notin go_rd(i)
  BY <1>3, GoWrite, GoRead, GoDie DEF Speculation, Live
<1>6. /\ iss.dest = in.dest /\ iss.src = in.src /\ iss.imm = in.imm /\ iss.value = value
  BY DEF Issued
<1>. HIDE DEF iss
<1>7. Clock(iss, fin)
  BY DEF Issue, iss
<1>8. \A x : Given(iss, n, x) = x
  BY DEF Given
<1>9. dest_c'[n] = {in.dest}
  BY <1>3, <1>4, <1>5, <1>6, <1>7, <1>8 DEF Clock, FURegDepMatrix, dest_q, dest_qlq
<1>10. \A i \in Src : src_c'[n][i] = src_c[n][i] \cup {in.src[i]}
  BY <1>3, <1>5, <1>6, <1>7, <1>8 DEF Clock, FURegDepMatrix, src_q, src_qlq
<1>11. wr_c'[n] = (wr_c[n] \ (go_wr \cup go_die)) \cup (wr_pend(iss) \ {n})
  BY <1>3, <1>7 DEF Clock, FUFUDepMatrix, Waits
<1>12. wr_c'[n] \subseteq Unit
  BY <1>3, <1>11 DEF wr_pend, Types
<1>13. ASSUME NEW w \in Unit \ {n}, NEW i \in Src, in.src[i] \in dest_c'[w]
       PROVE  w \in wr_c'[n]
  <2>1. in.src[i] \in src_qlq(iss, n, i)
    BY <1>6, <1>8 DEF src_qlq
  <2>2. in.src[i] \in g_rd_pend(iss)
    BY <1>3, <2>1 DEF g_rd_pend
  <2>3. in.src[i] \in dest_q(iss, w)
    BY <1>7, <1>13 DEF Clock, FURegDepMatrix
  <2>4. w \in wr_pend(iss)
    BY <2>2, <2>3 DEF wr_pend
  <2>. QED  BY <1>11, <2>4
<1>14. shadow'[n] = busy \ {n}
  BY <1>3, <1>5, <1>7 DEF Clock, OrderShadows, prev_shadow
<1>15. to_read'[n] = Src \ in.imm /\ phase'[n] = "read" /\ result'[n] = value
  BY <1>3, <1>5, <1>6, <1>7 DEF Clock, Units
<1>16. Takes(n, in, value)
  BY <1>9, <1>10, <1>12, <1>13, <1>14, <1>15 DEF Takes
<1>. QED  BY <1>2, <1>3, <1>16 DEF iss

-----------------------------------------------------------------------------
(* Each part is kept.  One clock: every unit goes on but the one, if there *)
(* is one, that takes an instruction.                                      *)

Waits1(fin) == HistWait(fin) /\ program' = program /\ \A u \in Unit : Goes(u, fin)
Issues1(in, value, fin, n) ==
    /\ HistIssue(in, value, fin) /\ program' = program /\ n = Issued(in, value).unit
    /\ n \in Group(in.br) /\ phase[n] = "idle" /\ Takes(n, in, value)
    /\ \A u \in Unit \ {n} : Goes(u, fin)
Step(fin) ==
    \/ Waits1(fin)
    \/ \E in \in Insns, value \in Value, n \in Unit : Issues1(in, value, fin, n)

LEMMA Steps ==
    ASSUME Types, Rows, Speculation, HistNext
    PROVE  \E fin \in SUBSET running : Step(fin)
<1>. program' = program
  BY DEF HistNext
<1>1. PICK fin \in SUBSET running :
         \/ HistWait(fin)
         \/ \E in \in Insns, value \in Value : HistIssue(in, value, fin)
  BY DEF HistNext, Types
<1>2. CASE HistWait(fin)
  <2>1. \A u \in Unit : u # Nothing.unit
    BY UnitIsNat DEF Nothing
  <2>. QED  BY <1>2, <2>1, GoesStep DEF HistWait, Wait, Step, Waits1
<1>3. ASSUME NEW in \in Insns, NEW value \in Value, HistIssue(in, value, fin)
      PROVE  Step(fin)
  <2>. DEFINE n == Issued(in, value).unit
  <2>1. Issue(in, value, fin) /\ Clock(Issued(in, value), fin)
    BY <1>3 DEF HistIssue, Issue
  <2>2. n \in Unit /\ n \in Group(in.br) /\ phase[n] = "idle" /\ Takes(n, in, value)
    BY <2>1, TakesStep
  <2>3. \A u \in Unit \ {n} : Goes(u, fin)
    BY <2>1, GoesStep
  <2>4. Issues1(in, value, fin, n)
    BY <1>3, <2>2, <2>3 DEF Issues1
  <2>. QED  BY <2>2, <2>4 DEF Step
<1>. QED  BY <1>1, <1>2, <1>3

\* What the two have in common.
LEMMA EachUnit ==
    ASSUME NEW fin, Step(fin), NEW u \in Unit
    PROVE  \/ Goes(u, fin)
           \/ \E in \in Insns, value \in Value : phase[u] = "idle" /\ Takes(u, in, value)
BY DEF Step, Waits1, Issues1

LEMMA Domains ==
    ASSUME NEW fin, Step(fin)
    PROVE  /\ dest_c' = [u \in Unit |-> dest_c'[u]]
           /\ src_c' = [u \in Unit |-> [i \in Src |-> src_c'[u][i]]]
           /\ wr_c' = [u \in Unit |-> wr_c'[u]]
           /\ shadow' = [u \in Unit |-> shadow'[u]]
           /\ phase' = [u \in Unit |-> phase'[u]]
           /\ to_read' = [u \in Unit |-> to_read'[u]]
           /\ result' = [u \in Unit |-> result'[u]]
           /\ regs' = regs_now
<1>1. PICK iss : Clock(iss, fin)
  BY DEF Step, Waits1, Issues1, HistWait, Wait, HistIssue, Issue
<1>. QED  BY <1>1 DEF Clock, Units, FURegDepMatrix, FUFUDepMatrix, OrderShadows, Waits

LEMMA UnitTypes ==
    ASSUME Types, NEW fin, Step(fin), NEW u \in Unit
    PROVE  /\ dest_c'[u] \in SUBSET Reg
           /\ \A i \in Src : src_c'[u][i] \in SUBSET Reg
           /\ wr_c'[u] \in SUBSET Unit /\ shadow'[u] \in SUBSET Unit
           /\ phase'[u] \in Phase /\ to_read'[u] \in SUBSET Src
           /\ result'[u] \in Value
<1>1. CASE Goes(u, fin)
  <2>1. NextPhase(u, fin) \in Phase
    BY DEF NextPhase, Types, Phase
  <2>2. /\ dest_c'[u] \in SUBSET Reg
        /\ \A i \in Src : src_c'[u][i] \in SUBSET Reg
    BY <1>1 DEF Goes, Types
  <2>3. wr_c'[u] \in SUBSET Unit /\ shadow'[u] \in SUBSET Unit
    BY <1>1 DEF Goes, Types
  <2>4. to_read'[u] \in SUBSET Src
    BY <1>1 DEF Goes, Types
  <2>5. result'[u] \in Value
    BY <1>1 DEF Goes, Types, Value
  <2>. QED  BY <1>1, <2>1, <2>2, <2>3, <2>4, <2>5 DEF Goes
<1>2. ASSUME NEW in \in Insns, NEW value \in Value, Takes(u, in, value)
      PROVE  /\ dest_c'[u] \in SUBSET Reg
             /\ \A i \in Src : src_c'[u][i] \in SUBSET Reg
             /\ wr_c'[u] \in SUBSET Unit /\ shadow'[u] \in SUBSET Unit
             /\ phase'[u] \in Phase /\ to_read'[u] \in SUBSET Src
             /\ result'[u] \in Value
  <2>1. in.dest \in Reg /\ \A i \in Src : in.src[i] \in Reg
    BY BoardAssumption
  <2>2. \A i \in Src : src_c[u][i] \in SUBSET Reg
    BY DEF Types
  <2>3. \A i \in Src : src_c'[u][i] \in SUBSET Reg
    BY <1>2, <2>1, <2>2 DEF Takes
  <2>. QED  BY <1>2, <2>1, <2>3 DEF Takes, busy, Phase
<1>. QED  BY <1>1, <1>2, EachUnit

LEMMA TypesStep ==
    ASSUME Types, Rows, Speculation, NEW fin, Step(fin)
    PROVE  Types'
<1>1. /\ dest_c' \in [Unit -> SUBSET Reg]
      /\ src_c' \in [Unit -> [Src -> SUBSET Reg]]
      /\ wr_c' \in [Unit -> SUBSET Unit]
      /\ shadow' \in [Unit -> SUBSET Unit]
      /\ phase' \in [Unit -> Phase] /\ to_read' \in [Unit -> SUBSET Src]
      /\ result' \in [Unit -> Value]
  BY Domains, UnitTypes
<1>2. regs' \in [Reg -> Value]
  <2>1. \A r \in Reg : regs_now[r] \in Value
    BY RegsNow, GoWrite DEF Types
  <2>. QED  BY <2>1, Domains DEF regs_now
<1>3. golden' \in [Reg -> Value] /\ expect' \in [Unit -> [Src -> Value]] /\ wrong' \subseteq Unit
  <2>1. CASE Waits1(fin)
    BY <2>1 DEF Waits1, HistWait, Types, Value
  <2>2. ASSUME NEW in \in Insns, NEW value \in Value, NEW n \in Unit,
               Issues1(in, value, fin, n)
        PROVE  golden' \in [Reg -> Value] /\ expect' \in [Unit -> [Src -> Value]]
               /\ wrong' \subseteq Unit
    <3>1. [i \in Src |-> golden[in.src[i]]] \in [Src -> Value]
      BY BoardAssumption DEF Types
    <3>. QED  BY <2>2, <3>1 DEF Issues1, HistIssue, Types
  <2>. QED  BY <2>1, <2>2 DEF Step
<1>4. bshadow' \subseteq Unit /\ good_r' \subseteq Unit /\ fail_r' \subseteq Unit
  <2>1. PICK iss : BranchShadow(iss) /\ (iss.unit # None => iss.unit \in Unit)
    <3>1. CASE Waits1(fin)
      BY <3>1 DEF Waits1, HistWait, Wait, Clock, Nothing
    <3>2. CASE \E in \in Insns, value \in Value, n \in Unit : Issues1(in, value, fin, n)
      BY <3>2 DEF Issues1, HistIssue, Issue, Clock
    <3>. QED  BY <3>1, <3>2 DEF Step
  <2>. QED  BY <2>1 DEF BranchShadow, Types
<1>5. program' \subseteq Insns
  BY DEF Step, Waits1, Issues1, Types
<1>. QED  BY <1>1, <1>2, <1>3, <1>4, <1>5 DEF Types

LEMMA RowsStep ==
    ASSUME Types, Rows, Speculation, NEW fin, Step(fin)
    PROVE  Rows'
<1>. SUFFICES ASSUME NEW u \in Unit
              PROVE  Row(u)'
  BY DEF Rows
<1>1. CASE Goes(u, fin)
  <2>1. dest_c'[u] # {} => phase'[u] \in Live
    BY <1>1 DEF Goes, NextPhase, Rows, Row, Live
  <2>2. ASSUME NEW i \in Src, i \in to_read'[u]
        PROVE  phase'[u] = "read" /\ dest_c'[u] # {}
    <3>1. i \in to_read[u] /\ u \notin go_rd(i) /\ u \notin go_die
      BY <1>1, <2>2 DEF Goes
    <3>2. phase[u] = "read" /\ dest_c[u] # {}
      BY <1>1, <3>1 DEF Goes, Rows, Row
    <3>3. u \notin go_wr
      BY <3>2, GoWrite
    <3>4. ~ AllRead(u)
      BY <3>1 DEF AllRead
    <3>. QED  BY <1>1, <3>1, <3>2, <3>3, <3>4 DEF Goes, NextPhase
  <2>. QED  BY <2>1, <2>2 DEF Row
<1>2. CASE \E in \in Insns, value \in Value : Takes(u, in, value)
  BY <1>2 DEF Takes, Row, Live
<1>. QED  BY <1>1, <1>2, EachUnit

LEMMA OrderedStep ==
    ASSUME Types, Rows, Ordered, Speculation, NEW fin, Step(fin)
    PROVE  Ordered'
<1>. SUFFICES ASSUME NEW u \in Unit, NEW v \in Unit,
                     dest_c'[u] # {}, dest_c'[v] # {}, u # v
              PROVE  u \in shadow'[v] \/ v \in shadow'[u]
  BY DEF Ordered
<1>1. \A x \in Unit : Goes(x, fin) /\ dest_c'[x] # {} =>
         dest_c[x] # {} /\ x \in busy /\ shadow'[x] = shadow[x] \cap busy
  BY DEF Goes, Rows, Row, busy, Live
<1>2. CASE Goes(u, fin) /\ Goes(v, fin)
  BY <1>1, <1>2 DEF Ordered
<1>3. ASSUME NEW x \in Unit, NEW y \in Unit, x # y, dest_c'[x] # {}, ~ Goes(y, fin)
      PROVE  x \in shadow'[y]
  <2>1. Goes(x, fin)
    BY <1>3 DEF Step, Waits1, Issues1
  <2>2. shadow'[y] = busy \ {y}
    BY <1>3, EachUnit DEF Takes
  <2>. QED  BY <1>1, <1>3, <2>1, <2>2
<1>. QED  BY <1>2, <1>3

-----------------------------------------------------------------------------
(* The branch.                                                             *)

\* A unit under the branch's shadow writes only after the branch is decided.
LEMMA UnderBranch ==
    ASSUME Types, Speculation, NEW fin, NEW u \in Unit, Goes(u, fin),
           phase[u] \in Live, u \notin go_wr, u \notin go_die
    PROVE  phase'[u] \in Live /\ result'[u] = result[u]
BY DEF Goes, NextPhase, Live

LEMMA BranchDecided ==
    ASSUME Types, Rows, Speculation, NEW fin, Step(fin), br_i
    PROVE  Speculation'
<1>1. /\ bshadow' = {} /\ good_r' = {} /\ fail_r' = {} /\ active' = FALSE
  <2>1. CASE Waits1(fin)
    BY <2>1, GoDie DEF Waits1, HistWait, Wait, Clock, BranchShadow, Nothing, Types
  <2>2. ASSUME NEW in \in Insns, NEW value \in Value, NEW n \in Unit,
               Issues1(in, value, fin, n)
        PROVE  /\ bshadow' = {} /\ good_r' = {} /\ fail_r' = {} /\ active' = FALSE
    <3>1. in.path = "none" /\ Issued(in, value).path = in.path
      BY <2>2 DEF Issues1, HistIssue, Issue, bactive, Issued
    <3>2. BranchShadow(Issued(in, value))
      BY <2>2 DEF Issues1, HistIssue, Issue, Clock
    <3>. QED  BY <3>1, <3>2, GoDie DEF BranchShadow, Types
  <2>. QED  BY <2>1, <2>2 DEF Step
<1>2. ASSUME NEW u \in wrong'
      PROVE  dest_c'[u] = {}
  <2>1. CASE Waits1(fin)
    <3>1. u \in wrong /\ u \in Unit /\ Goes(u, fin)
      BY <1>2, <2>1 DEF Waits1, HistWait, Types
    <3>2. u \in bshadow => u \in go_die
      BY <3>1, GoDie DEF go_die
    <3>. QED  BY <3>1, <3>2 DEF Goes, Speculation
  <2>2. ASSUME NEW in \in Insns, NEW value \in Value, NEW n \in Unit,
               Issues1(in, value, fin, n)
        PROVE  dest_c'[u] = {}
    <3>1. in.path = "none"
      BY <2>2 DEF Issues1, HistIssue, Issue, bactive
    <3>2. u \in wrong /\ u \in Unit /\ u # n /\ Goes(u, fin)
      BY <1>2, <2>2, <3>1 DEF Issues1, HistIssue, Wrong, Types
    <3>3. u \in bshadow => u \in go_die
      BY <3>2, GoDie DEF go_die
    <3>. QED  BY <3>2, <3>3 DEF Goes, Speculation
  <2>. QED  BY <2>1, <2>2 DEF Step
<1>. QED  BY <1>1, <1>2 DEF Speculation

LEMMA BranchWaits ==
    ASSUME Types, Rows, Speculation, NEW fin, Waits1(fin), ~br_i
    PROVE  Speculation'
<1>1. /\ bshadow' = bshadow /\ good_r' = good_r /\ fail_r' = fail_r /\ active' = active
      /\ go_die = {}
  BY GoDie, UnitIsNat DEF Waits1, HistWait, Wait, Clock, BranchShadow, Nothing, Types
<1>2. \A u \in bshadow : u \in Unit /\ phase'[u] \in Live
  BY <1>1, GoWrite, UnderBranch DEF Waits1, Speculation, Types
<1>3. active => phase'[Branch] \in Live /\ result'[Branch] = result[Branch]
  BY <1>1, UnitIsNat, UnderBranch DEF Waits1, Speculation, br_i
<1>4. \A u \in bshadow : u \in wrong' <=> u \in wrong
  BY <1>2 DEF Waits1, HistWait, Live
<1>5. \A u \in wrong' : u \in bshadow \/ dest_c'[u] = {}
  BY DEF Waits1, HistWait, Goes, Speculation, Types
<1>6. bshadow # {} => result'[Branch] = result[Branch]
  BY <1>3 DEF Speculation
<1>. QED  BY <1>1, <1>2, <1>3, <1>4, <1>5, <1>6 DEF Speculation

LEMMA BranchIssues ==
    ASSUME Types, Rows, Speculation, NEW fin, ~br_i,
           NEW in \in Insns, NEW value \in Value, NEW n \in Unit,
           Issues1(in, value, fin, n)
    PROVE  Speculation'
<1>. DEFINE new == IF in.path = "none" THEN {} ELSE {n}
<1>1. /\ BranchShadow(Issued(in, value)) /\ Issued(in, value).path = in.path
      /\ Issued(in, value).unit = n /\ n # None /\ go_die = {}
  BY GoDie, UnitIsNat DEF Issues1, HistIssue, Issue, Clock, Issued
<1>2. in.path \in {"none", "succ", "fail"}
  BY BoardAssumption
<1>3. in.path # "none" => active
  BY DEF Issues1, HistIssue, Issue, bactive
<1>4. /\ bshadow' = bshadow \cup new
      /\ good_r' = good_r \cup (IF in.path = "succ" THEN {n} ELSE {})
      /\ fail_r' = fail_r \cup (IF in.path = "fail" THEN {n} ELSE {})
  BY <1>1, <1>2, <1>3, GoDie DEF BranchShadow, Types
<1>5. (active \/ n = Branch => active') /\ (active' => active \/ n = Branch)
  BY <1>1 DEF BranchShadow
<1>6. n \notin bshadow /\ (active => n # Branch)
  BY DEF Issues1, Speculation, Live
<1>7. \A u \in bshadow : u \in Unit /\ phase'[u] \in Live
  BY <1>1, <1>6, GoWrite, UnderBranch DEF Issues1, Speculation, Types
<1>8. active => phase'[Branch] \in Live /\ result'[Branch] = result[Branch]
  BY <1>1, <1>6, UnitIsNat, UnderBranch DEF Issues1, Speculation, br_i
<1>9. phase'[n] \in Live
  BY DEF Issues1, Takes, Live
<1>10. wrong' = IF Wrong(in) THEN wrong \cup {n} ELSE wrong \ {n}
  BY DEF Issues1, HistIssue
<1>11. \A u \in wrong' : u \in bshadow' \/ dest_c'[u] = {}
  <2>1. \A u \in wrong : u # n => u \in bshadow \/ dest_c'[u] = {}
    BY DEF Issues1, Goes, Speculation, Types
  <2>2. Wrong(in) => n \in new
    BY DEF Wrong
  <2>. QED  BY <1>4, <1>10, <2>1, <2>2
<1>12. in.path = "succ" => (n \in wrong' <=> result[Branch] # 1)
  BY <1>10 DEF Wrong, br_ok
<1>13. in.path = "fail" => (n \in wrong' <=> result[Branch] = 1)
  BY <1>10 DEF Wrong, br_ok
<1>14. good_r' \cap fail_r' = {} /\ bshadow' = good_r' \cup fail_r'
  BY <1>2, <1>4, <1>6 DEF Speculation
<1>15. active' => phase'[Branch] \in Live
  BY <1>5, <1>8, <1>9
<1>16. ~active' => bshadow' = {}
  BY <1>3, <1>4, <1>5 DEF Speculation
<1>17. \A u \in bshadow' : phase'[u] \in Live /\ u # Branch
  BY <1>3, <1>4, <1>6, <1>7, <1>9 DEF Speculation
<1>18. bshadow' # {} => result'[Branch] = result[Branch]
  BY <1>3, <1>4, <1>8 DEF Speculation
<1>19. \A u \in good_r' : u \in wrong' <=> result'[Branch] # 1
  BY <1>4, <1>6, <1>10, <1>12, <1>14, <1>18 DEF Speculation
<1>20. \A u \in fail_r' : u \in wrong' <=> result'[Branch] = 1
  BY <1>4, <1>6, <1>10, <1>13, <1>14, <1>18 DEF Speculation
<1>. QED  BY <1>11, <1>14, <1>15, <1>16, <1>17, <1>19, <1>20 DEF Speculation

LEMMA SpeculationStep ==
    ASSUME Types, Rows, Speculation, NEW fin, Step(fin)
    PROVE  Speculation'
<1>1. CASE br_i
  BY <1>1, BranchDecided
<1>2. CASE ~br_i /\ Waits1(fin)
  BY <1>2, BranchWaits
<1>3. CASE ~br_i /\ ~Waits1(fin)
  BY <1>3, BranchIssues DEF Step
<1>. QED  BY <1>1, <1>2, <1>3

-----------------------------------------------------------------------------
(* The values.                                                             *)

\* A register is written by one unit, the one in front of its other writers.
LEMMA WritesInFront ==
    ASSUME Types, Speculation, NEW r \in Reg
    PROVE  /\ \/ go_wr \cap Pend(r) = {} /\ regs_now[r] = regs[r]
              \/ \E w \in Pend(r) : /\ go_wr \cap Pend(r) = {w}
                                    /\ regs_now[r] = result[w] /\ shadow[w] = {}
           /\ \A w \in go_wr : r \in dest_c[w] => w \in Pend(r)
<1>1. ASSUME NEW w \in go_wr, r \in dest_c[w]
      PROVE  w \in Pend(r)
  BY <1>1, GoWrite DEF Speculation, Pend
<1>2. CASE \E w \in go_wr : r \in dest_c[w] /\ regs_now[r] = result[w]
  <2>1. PICK w \in go_wr : r \in dest_c[w] /\ regs_now[r] = result[w]
    BY <1>2
  <2>. QED  BY <1>1, <2>1, GoWrite
<1>3. CASE (\A w \in go_wr : r \notin dest_c[w]) /\ regs_now[r] = regs[r]
  BY <1>3 DEF Pend
<1>. QED  BY <1>1, <1>2, <1>3, RegsNow

\* The units that will write r after a clock: those that will have to but the
\* one that has, and the one that takes an instruction.
LEMMA PendStep ==
    ASSUME Types, Rows, Speculation, NEW fin, Step(fin), NEW r \in Reg,
           NEW u \in Unit, Goes(u, fin)
    PROVE  /\ u \in Pend(r)' <=> u \in Pend(r) \ go_wr
           /\ u \in Pend(r) \ go_wr => /\ u \in busy /\ result'[u] = result[u]
                                       /\ shadow'[u] = shadow[u] \cap busy
<1>1. go_die \subseteq wrong
  BY GoDie
<1>2. dest_c[u] # {} => phase[u] \in Live /\ u \in busy
  BY DEF Rows, Row, busy, Live
<1>3. u \in Pend(r) \ go_wr => result'[u] = result[u] /\ phase'[u] \in Live
                               /\ shadow'[u] = shadow[u] \cap busy /\ u \in busy
                               /\ r \in dest_c'[u]
  BY <1>1, <1>2, UnderBranch DEF Pend, Goes
<1>4. r \in dest_c'[u] => r \in dest_c[u] /\ u \notin go_wr /\ u \notin go_die
  BY DEF Goes
<1>5. r \in dest_c'[u] => (u \in wrong' <=> u \in wrong)
  <2>1. CASE Waits1(fin)
    <3>1. r \in dest_c'[u] => phase'[u] \in Live
      BY <1>2, <1>4, UnderBranch
    <3>. QED  BY <2>1, <3>1 DEF Waits1, HistWait, Live
  <2>2. ASSUME NEW in \in Insns, NEW value \in Value, NEW n \in Unit,
               Issues1(in, value, fin, n)
        PROVE  r \in dest_c'[u] => (u \in wrong' <=> u \in wrong)
    <3>1. r \in dest_c'[u] => u # n
      BY <1>2, <1>4, <2>2 DEF Issues1, Live
    <3>. QED  BY <2>2, <3>1 DEF Issues1, HistIssue
  <2>. QED  BY <2>1, <2>2 DEF Step
<1>. QED  BY <1>3, <1>4, <1>5 DEF Pend

\* The one that takes an instruction: it is behind all others.
LEMMA PendTaken ==
    ASSUME Types, Rows, Speculation, NEW fin, NEW in \in Insns, NEW value \in Value,
           NEW n \in Unit, Issues1(in, value, fin, n), NEW r \in Reg
    PROVE  /\ n \in Pend(r)' <=> ~Wrong(in) /\ in.dest = r
           /\ n \notin Pend(r) /\ n \notin busy
           /\ Pend(r)' \ {n} = Pend(r) \ go_wr
           /\ Pend(r) \subseteq shadow'[n]
<1>1. n \notin busy /\ dest_c[n] = {}
  BY DEF Issues1, Rows, Row, Live, busy
<1>2. n \in wrong' <=> Wrong(in)
  BY DEF Issues1, HistIssue
<1>3. n \in Pend(r)' <=> ~Wrong(in) /\ in.dest = r
  BY <1>2 DEF Pend, Issues1, Takes
<1>4. Step(fin)
  BY DEF Step
<1>5. \A u \in Unit \ {n} : u \in Pend(r)' <=> u \in Pend(r) \ go_wr
  BY <1>4, PendStep DEF Issues1
<1>6. \A u \in Pend(r) : u \in busy /\ u \in Unit /\ u # n
  BY <1>1 DEF Pend, Rows, Row, busy, Live
<1>7. Pend(r)' \subseteq Unit
  BY DEF Pend
<1>8. shadow'[n] = busy \ {n}
  BY DEF Issues1, Takes
<1>. QED  BY <1>1, <1>3, <1>5, <1>6, <1>7, <1>8

\* A clock leaves Holds true of units that are still to write r, if the one that
\* writes it now is one of them: it is in front of the others, so it is the last
\* only when it is alone.
LEMMA HoldsStep ==
    ASSUME IInv, NEW fin, Step(fin), NEW r \in Reg, NEW Q \in SUBSET Pend(r), NEW v,
           go_wr \cap Pend(r) \subseteq Q, Holds(Q, v, regs[r], result, shadow)
    PROVE  Holds(Q \ go_wr, v, regs'[r], result', shadow')
<1>. USE DEF IInv
<1>1. \A w \in Q \ go_wr : /\ result'[w] = result[w]
                            /\ \A x \in Q : x \in shadow[w] => x \in shadow'[w]
  <2>1. \A w \in Pend(r) : w \in Unit /\ w \in busy /\ phase[w] # "idle"
    BY DEF Pend, Rows, Row, busy, Live
  <2>2. \A w \in Pend(r) : Goes(w, fin)
    BY <2>1, EachUnit
  <2>. QED  BY <2>1, <2>2, PendStep
<1>2. \/ go_wr \cap Q = {} /\ regs'[r] = regs[r]
      \/ \E w \in Q : go_wr \cap Q = {w} /\ regs'[r] = result[w] /\ shadow[w] = {}
  <2>1. regs'[r] = regs_now[r]
    BY Domains
  <2>2. go_wr \cap Q = go_wr \cap Pend(r)
    OBVIOUS
  <2>. QED  BY <2>1, <2>2, WritesInFront
<1>. QED  BY <1>1, <1>2 DEF Holds

\* The program's registers.
LEMMA GoldenStep ==
    ASSUME IInv, NEW fin, Step(fin), NEW r \in Reg
    PROVE  Holds(Pend(r), golden[r], regs[r], result, shadow)'
<1>. USE DEF IInv
<1>1. Holds(Pend(r) \ go_wr, golden[r], regs'[r], result', shadow')
  BY HoldsStep DEF Values
<1>2. CASE Waits1(fin)
  <2>1. golden'[r] = golden[r]
    BY <1>2 DEF Waits1, HistWait
  <2>2. Pend(r)' = Pend(r) \ go_wr
    <3>1. Pend(r) \subseteq Unit /\ Pend(r)' \subseteq Unit
      BY DEF Pend
    <3>. QED  BY <1>2, <3>1, PendStep DEF Waits1
  <2>. QED  BY <1>1, <2>1, <2>2
<1>3. ASSUME NEW in \in Insns, NEW value \in Value, NEW n \in Unit,
             Issues1(in, value, fin, n)
      PROVE  Holds(Pend(r), golden[r], regs[r], result, shadow)'
  <2>1. golden'[r] = IF ~Wrong(in) /\ in.dest = r THEN value ELSE golden[r]
    BY <1>3 DEF Issues1, HistIssue, Types
  <2>2. /\ n \in Pend(r)' <=> ~Wrong(in) /\ in.dest = r
        /\ n \notin Pend(r)
        /\ Pend(r)' \ {n} = Pend(r) \ go_wr
        /\ Pend(r) \subseteq shadow'[n]
    BY <1>3, PendTaken
  <2>3. CASE ~Wrong(in) /\ in.dest = r
    <3>1. result'[n] = value
      BY <1>3 DEF Issues1, Takes
    <3>2. \A x \in Pend(r)' \ {n} : x \in shadow'[n]
      BY <2>2
    <3>. QED  BY <2>1, <2>2, <2>3, <3>1, <3>2 DEF Holds
  <2>4. CASE ~(~Wrong(in) /\ in.dest = r)
    <3>1. Pend(r)' = Pend(r) \ go_wr
      BY <2>2, <2>4
    <3>. QED  BY <1>1, <2>1, <2>4, <3>1
  <2>. QED  BY <2>3, <2>4
<1>. QED  BY <1>2, <1>3 DEF Step

\* A unit that goes on waiting for an operand.
LEMMA WaitingGoes ==
    ASSUME IInv, Rows', NEW fin, Step(fin), NEW u \in Unit, Goes(u, fin), u \notin wrong',
           NEW i \in to_read'[u], NEW r \in Reg, src_c'[u][i] = {r}
    PROVE  /\ Older(u, r)' \subseteq wr_c'[u]
           /\ Holds(Older(u, r), expect[u][i], regs[r], result, shadow)'
<1>. USE DEF IInv
<1>1. /\ i \in Src /\ i \in to_read[u] /\ src_c[u][i] = {r}
      /\ u \notin go_die
  <2>1. i \in to_read[u] /\ u \notin go_die
    BY DEF Goes
  <2>2. i \in Src
    BY <2>1 DEF Types
  <2>3. src_c'[u][i] = src_c[u][i]
    BY <2>1, <2>2 DEF Goes
  <2>. QED  BY <2>1, <2>2, <2>3 DEF Types
<1>2. phase[u] = "read" /\ dest_c[u] # {} /\ dest_c'[u] # {}
  BY <1>1 DEF Rows, Row
<1>3. u \notin wrong
  <2>1. PICK d \in Reg : d \in dest_c'[u]
    BY <1>2 DEF Goes, Types
  <2>2. u \in Pend(d)'
    BY <2>1 DEF Pend
  <2>. QED  BY <2>2, PendStep DEF Pend
<1>4. Older(u, r)' = Older(u, r) \ go_wr
  <2>1. shadow'[u] = shadow[u] \cap busy
    BY <1>1 DEF Goes
  <2>2. ASSUME NEW x \in Unit
        PROVE  x \in Older(u, r)' <=> x \in Older(u, r) \ go_wr
    <3>1. CASE Goes(x, fin)
      BY <1>1, <2>1, <3>1, PendStep DEF Older
    <3>2. CASE phase[x] = "idle"
      BY <2>1, <3>2 DEF Older, Pend, Rows, Row, busy, Live
    <3>. QED  BY <3>1, <3>2, EachUnit
  <2>3. Older(u, r)' \subseteq Unit /\ Older(u, r) \subseteq Unit
    BY DEF Older, Pend
  <2>. QED  BY <2>2, <2>3
<1>5. go_wr \cap Pend(r) \subseteq Older(u, r)
  <2>1. ASSUME NEW w \in go_wr, w \in Pend(r)
        PROVE  w \in shadow[u]
    <3>1. w \in Unit /\ w # u /\ shadow[w] = {} /\ dest_c[w] # {}
      BY <1>2, <2>1, GoWrite DEF Pend
    <3>. QED  BY <1>2, <3>1 DEF Ordered
  <2>. QED  BY <2>1 DEF Older
<1>6. expect'[u][i] = expect[u][i]
  <2>1. CASE Waits1(fin)
    BY <1>1, <2>1 DEF Waits1, HistWait
  <2>2. ASSUME NEW in \in Insns, NEW value \in Value, NEW n \in Unit,
               Issues1(in, value, fin, n)
        PROVE  expect'[u][i] = expect[u][i]
    BY <1>2, <2>2 DEF Issues1, HistIssue, Types
  <2>. QED  BY <2>1, <2>2 DEF Step
<1>7. /\ Older(u, r) \subseteq wr_c[u]
      /\ Holds(Older(u, r), expect[u][i], regs[r], result, shadow)
  BY <1>1, <1>3 DEF Values
<1>8. Older(u, r) \ go_wr \subseteq wr_c'[u]
  BY <1>7, GoDie DEF Goes, Older, Pend
<1>9. Holds(Older(u, r) \ go_wr, expect[u][i], regs'[r], result', shadow')
  BY <1>1, <1>5, <1>7, HoldsStep DEF Older
<1>. QED  BY <1>4, <1>6, <1>8, <1>9

\* The unit that takes an instruction: it is behind all that will write.
LEMMA WaitingTakes ==
    ASSUME IInv, NEW fin, NEW in \in Insns, NEW value \in Value, NEW n \in Unit,
           Issues1(in, value, fin, n), NEW i \in to_read'[n],
           NEW r \in Reg, src_c'[n][i] = {r}
    PROVE  /\ Older(n, r)' \subseteq wr_c'[n]
           /\ Holds(Older(n, r), expect[n][i], regs[r], result, shadow)'
<1>. USE DEF IInv
<1>1. Takes(n, in, value) /\ Step(fin)
  BY DEF Issues1, Step
<1>2. i \in Src /\ r = in.src[i]
  BY <1>1 DEF Takes
<1>3. /\ n \notin Pend(r)
      /\ Pend(r)' \ {n} = Pend(r) \ go_wr
      /\ Pend(r) \subseteq shadow'[n] /\ n \notin shadow'[n]
  BY <1>1, <1>2, PendTaken DEF Takes
<1>4. Older(n, r)' = Pend(r) \ go_wr
  BY <1>3 DEF Older
<1>5. expect'[n][i] = golden[r]
  BY <1>2 DEF Issues1, HistIssue, Types
<1>6. Holds(Pend(r) \ go_wr, golden[r], regs'[r], result', shadow')
  BY <1>1, <1>2, HoldsStep DEF Values
<1>7. \A w \in Older(n, r)' : w \in Unit \ {n} /\ r \in dest_c'[w]
  BY <1>3, <1>4 DEF Older, Pend
<1>8. Older(n, r)' \subseteq wr_c'[n]
  BY <1>1, <1>2, <1>7 DEF Takes
<1>. QED  BY <1>4, <1>5, <1>6, <1>8

LEMMA ValuesStep ==
    ASSUME IInv, Rows', NEW fin, Step(fin)
    PROVE  Values'
<1>1. ASSUME NEW u \in Unit, u \notin wrong', NEW i \in to_read'[u],
             NEW r \in Reg, src_c'[u][i] = {r}
      PROVE  /\ Older(u, r)' \subseteq wr_c'[u]
             /\ Holds(Older(u, r), expect[u][i], regs[r], result, shadow)'
  <2>1. CASE Goes(u, fin)
    BY <1>1, <2>1, WaitingGoes
  <2>2. CASE ~Goes(u, fin)
    BY <1>1, <2>2, WaitingTakes DEF Step, Waits1, Issues1
  <2>. QED  BY <2>1, <2>2
<1>. QED  BY <1>1, GoldenStep DEF Values

-----------------------------------------------------------------------------
(* The invariant holds.                                                    *)

LEMMA InvInit == HistInit => IInv
<1>. SUFFICES ASSUME HistInit PROVE IInv
  OBVIOUS
<1>. USE DEF HistInit, Init
<1>1. Types
  BY ProgramsAssumption DEF Types, Phase, Value, ProgramsAssumption
<1>2. Rows
  BY DEF Rows, Row
<1>3. Ordered /\ Speculation
  BY DEF Ordered, Speculation
<1>4. Values
  BY DEF Values, Holds, Pend
<1>. QED  BY <1>1, <1>2, <1>3, <1>4 DEF IInv

LEMMA InvStep == IInv /\ [HistNext]_hvars => IInv'
<1>. SUFFICES ASSUME IInv, [HistNext]_hvars PROVE IInv'
  OBVIOUS
<1>. USE DEF IInv
<1>1. CASE HistNext
  <2>1. PICK fin \in SUBSET running : Step(fin)
    BY <1>1, Steps
  <2>2. Types' /\ Rows'
    BY <2>1, TypesStep, RowsStep
  <2>3. Ordered' /\ Speculation'
    BY <2>1, OrderedStep, SpeculationStep
  <2>4. Values'
    BY <2>1, <2>2, ValuesStep
  <2>. QED  BY <2>2, <2>3, <2>4
<1>2. CASE UNCHANGED hvars
  <2>. USE <1>2 DEF hvars, vars, fuRegVars, fuFuVars, shadowVars, specVars, unitVars
  <2>1. Types' /\ Rows'
    BY DEF Types, Rows, Row
  <2>2. Ordered' /\ Speculation'
    BY DEF Ordered, Speculation
  <2>3. Values'
    BY DEF Values, Older, Pend, Holds
  <2>. QED  BY <2>1, <2>2, <2>3
<1>. QED  BY <1>1, <1>2

\* The state is well typed, the matrices, shadows and the branch's record agree
\* with the units, and what is still to be written is in the program's order.
THEOREM IInvAlways == HistSpec => []IInv
BY InvInit, InvStep, PTL DEF HistSpec

-----------------------------------------------------------------------------
(* What follows from it.                                                   *)

LEMMA InvOperands == IInv => OperandsInOrder
<1>. SUFFICES ASSUME IInv, NEW i \in Src, NEW u \in go_rd(i) \ wrong,
                     NEW r \in Reg, src_c[u][i] = {r}
              PROVE  Operand(u, i) = expect[u][i]
  BY DEF OperandsInOrder
<1>. USE DEF IInv
<1>1. u \in Unit /\ wr_c[u] = {} /\ phase[u] = "read" /\ i \in to_read[u]
  BY GoRead
<1>2. src_c[u][i] = {r}
  OBVIOUS
<1>3. dest_c[u] # {}
  BY <1>1 DEF Rows, Row
<1>4. Older(u, r) = {} /\ expect[u][i] = regs[r]
  BY <1>1, <1>2 DEF Values, Holds
<1>5. go_wr \cap Pend(r) = {}
  <2>1. ASSUME NEW w \in go_wr, w \in Pend(r)
        PROVE  FALSE
    <3>1. w \in Unit /\ w # u /\ shadow[w] = {} /\ dest_c[w] # {}
      BY <1>1, <2>1, GoWrite DEF Pend
    <3>. QED  BY <1>1, <1>3, <1>4, <2>1, <3>1 DEF Ordered, Older
  <2>. QED  BY <2>1
<1>6. regs_now[r] = regs[r]
  BY <1>5, WritesInFront
<1>7. regs[r] \in Value
  BY DEF Types
<1>. QED  BY <1>2, <1>4, <1>6, <1>7 DEF Operand, Value

LEMMA InvResults == IInv => ResultsInOrder
<1>. SUFFICES ASSUME IInv, NEW r \in Reg, Pend(r) = {}
              PROVE  golden[r] = regs[r]
  BY Zenon DEF ResultsInOrder, Pend, IInv, Rows, Row, Live
<1>. QED  BY DEF IInv, Values, Holds

\* Every operand that a unit gets from one register is the one the program says:
\* whatever the order in which the units read and write, with a branch undecided,
\* and with the registers of earlier immediates still recorded.
THEOREM OperandsInOrderAlways == HistSpec => []OperandsInOrder
BY IInvAlways, InvOperands, PTL

\* A register that no unit has still to write holds what the program says.
THEOREM ResultsInOrderAlways == HistSpec => []ResultsInOrder
BY IInvAlways, InvResults, PTL
=============================================================================
