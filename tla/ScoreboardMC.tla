---------------------------- MODULE ScoreboardMC ----------------------------
(* What Scoreboard must satisfy, and a small instance of it. *)
EXTENDS Scoreboard

CONSTANT Programs    \* sets of instructions that programs are made of
ASSUME ProgramsAssumption == Programs \subseteq SUBSET Insns

\* History: the registers as if every instruction were done when it is issued,
\* the operands a unit must get, the units on the path not taken.  What the
\* program of a behaviour is made of does not change.
VARIABLES golden, expect, wrong, program
hvars == <<vars, golden, expect, wrong, program>>

Wrong(in) == in.path # "none" /\ (in.path = "succ") # br_ok

HistIssue(in, value, fin) ==
    /\ Issue(in, value, fin)
    /\ LET u == Issued(in, value).unit IN
        /\ golden' = IF Wrong(in) THEN golden ELSE [golden EXCEPT ![in.dest] = value]
        /\ expect' = [expect EXCEPT ![u] = [i \in Src |-> golden[in.src[i]]]]
        /\ wrong' = IF Wrong(in) THEN wrong \cup {u} ELSE wrong \ {u}

HistWait(fin) ==
    /\ Wait(fin)
    /\ golden' = golden
    /\ expect' = [u \in Unit |-> [i \in Src |->
                    IF i \in to_read'[u] THEN expect[u][i] ELSE 0]]
    /\ wrong' = wrong \cap {u \in Unit : phase'[u] # "idle"}

HistNext ==
    /\ program' = program
    /\ \E fin \in SUBSET running :
          \/ HistWait(fin)
          \/ \E in \in program, value \in Value : HistIssue(in, value, fin)

HistInit == /\ Init /\ program \in Programs /\ golden = regs /\ wrong = {}
            /\ expect = [u \in Unit |-> [i \in Src |-> 0]]
HistSpec == HistInit /\ [][HistNext]_hvars
\* The clock ticks and every ALU is done in the end.  A unit takes an instruction
\* in one of five clocks at most, so that clocks without an issue recur.
FairSpec == /\ HistSpec /\ WF_hvars(program' = program /\ \E fin \in SUBSET running : HistWait(fin))
            /\ \A u \in Unit : []<>(u \notin running)


\* An operand is what the instructions before it in the program have left
\* there, however the units overtake one another (FURegDepMatrix and
\* FUFUDepMatrix; the units on the path not taken get anything).  It is so
\* where the unit's row selects one register: the register of an immediate is
\* recorded, its read never comes, and another that the unit's next instruction
\* reads is ORed with it.
OperandsInOrder ==
    \A i \in Src : \A u \in go_rd(i) \ wrong :
        (\E r \in Reg : src_c[u][i] = {r}) => Operand(u, i) = expect[u][i]

\* A register holds what the program has put there, unless a unit has still to
\* write it: nothing is overwritten by an older result, nothing of the path
\* not taken is written (ShadowMatrix, BranchSpeculationRecord).
ResultsInOrder ==
    \A r \in Reg : regs[r] = golden[r]
        \/ \E u \in Unit \ wrong : phase[u] \in {"read", "run", "write"} /\ r \in dest_c[u]

\* Every unit becomes free again (the matrices, shadows and pickers never wait
\* for each other), unless a unit was cancelled when it was ready to write: that
\* one is never free again (go_die of MultiCompUnit resets its write request).
\* A program with immediates may stop for good: a unit that writes the register
\* of one waits for the read that never comes.
Finishes ==
    \A u \in Unit : (u \in busy) ~> \/ u \notin busy
                                     \/ \E v \in Unit : phase[v] = "lost"
                                     \/ \E in \in program : in.imm # {}

\* One of the instructions under the branch does not read what the branch
\* writes, so that it can be ready to write when it is cancelled.  The other
\* program has an immediate, and no branch.
MCUnit == 1 .. 3
MCReg == {"r1", "r2"}
I(br, s1, s2, d, path) == [br |-> br, src |-> <<s1, s2>>, dest |-> d, imm |-> {}, path |-> path]
Branching == {I(FALSE, "r1", "r2", "r1", "none"), I(FALSE, "r1", "r2", "r2", "none"),
              I(FALSE, "r1", "r1", "r1", "succ"), I(FALSE, "r1", "r2", "r2", "fail"),
              I(TRUE, "r1", "r1", "r2", "none")}
Immediate == {[I(FALSE, "r1", "r2", "r1", "none") EXCEPT !.imm = {2}],
              I(FALSE, "r1", "r2", "r2", "none"), I(FALSE, "r2", "r1", "r1", "none")}
MCPrograms == {Branching, Immediate}
MCInsns == Branching \cup Immediate
=============================================================================
