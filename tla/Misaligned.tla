----------------------------- MODULE Misaligned -----------------------------
(***************************************************************************)
(* Accesses that cross a cache line: LDSTSplitter and its LDLatches        *)
(* (src/soc/scoreboard/addr_split.py), the byte maps by which requests in  *)
(* flight are compared (LenExpand, PartialAddrBitmap, TwinPartialAddr-     *)
(* Bitmap of addr_match.py), and the DataMerger of                         *)
(* src/soc/experiment/l0_cache.py, which ORs the requests of one line.     *)
(*                                                                         *)
(* The splitter loads only: in its store path nothing drives sst_o_valid.  *)
(* LenExpand's output, built with cover = 1, is one line wide: what an     *)
(* access covers of the next line is cut off, so the splitter's second     *)
(* mask and the comparison's upper half are always empty.                  *)
(* A byte is the address it belongs to.  Data is a set of pairs <<position,*)
(* byte>>, so that OR is union; a byte mask is a set of positions.         *)
(***************************************************************************)
EXTENDS Naturals, FiniteSets

CONSTANTS Dlen,        \* a line has 2^Dlen bytes
          Lines,       \* lines of memory
          Lens,        \* lengths of an access, half a line at most
          Ports,       \* requests compared: 0 .. n
          None

L == 2^Dlen

ASSUME MisalignedAssumption ==
    /\ Dlen \in Nat /\ L \in Nat \ {0} /\ Lines \in Nat
    /\ Lens \subseteq 1 .. L \div 2 /\ Ports \subseteq Nat
Addr == 0 .. Lines * L - 1
Request == [addr : Addr, len : Lens]

VARIABLES
    access,     \* what the splitter is asked for, or None
    sld_i_valid,    \* the halves whose data is there: sld_i_valid
    ld_i_r,     \* the registers of the two LDLatches
    addr_r      \* the requests compared, or None (l.q, adrs_r, len_r)
splitVars == <<access, sld_i_valid, ld_i_r, addr_r>>

SplitInit == /\ access = None /\ sld_i_valid = {}
             /\ ld_i_r = [h \in 1 .. 2 |-> {}]
             /\ addr_r = [i \in Ports |-> None]

-----------------------------------------------------------------------------
(* LenExpand and the splitter's wires.                                     *)

\* Mutant: not shifted to where the access starts.
lexp_unshifted(r) == {n : n \in 0 .. r.len - 1}
lexp(r) == {(r.addr % L) + n : n \in 0 .. r.len - 1} \cap (0 .. L - 1)
mask(r) == <<lexp(r) \cap (0 .. L - 1), {n \in 0 .. L - 1 : n + L \in lexp(r)}>>
line(r) == <<r.addr \div L, (r.addr \div L) + 1>>

ashift1(r) == r.addr % L
ashift2(r) == (L - ashift1(r)) % L
Up(word, n) == {<<x[1] + n, x[2]>> : x \in word}
Down(word, n) == {<<x[1] - n, x[2]>> : x \in {y \in word : y[1] >= n}}

\* The memory gives the whole line.
sld_data_i(r, h) == {<<p, (line(r)[h] * L) + p>> : p \in 0 .. L - 1}

\* LDLatch: transparent while valid, and the last data afterwards.
latch_valid(h) == access # None /\ h \in sld_i_valid /\ mask(access)[h] # {}
\* Mutant: a register, a clock behind.
ld_o_registered(h) == ld_i_r[h]
ld_o(h) == IF latch_valid(h) THEN sld_data_i(access, h) ELSE ld_i_r[h]

o_valid == /\ access # None
           /\ latch_valid(1)
           /\ mask(access)[2] # {} => latch_valid(2)

ld_data_o == Down(ld_o(1), ashift1(access)) \cup Up(ld_o(2), ashift2(access))

-----------------------------------------------------------------------------
(* Comparison: the line, and the bytes of it; addr1s, one line on, with    *)
(* the half of the next line that an access may run over into.             *)

expwid == 0 .. L - 1
hexp == 0 .. (L \div 2) - 1
Low(r) == lexp(r) \cap expwid
Over(r) == {n \in hexp : n + L \in lexp(r)}

\* Mutant: any two accesses of a line.
straight_eq_line(a, b) == a.addr \div L = b.addr \div L
straight_eq(a, b) == a.addr \div L = b.addr \div L /\ Low(a) \cap Low(b) # {}
i1_eq_j(a, b) == line(a)[2] = b.addr \div L /\ Over(a) \cap (Low(b) \cap hexp) # {}

is_match(a, b) == straight_eq(a, b) \/ i1_eq_j(a, b) \/ i1_eq_j(b, a)

\* TwinPartialAddrBitmap: one of the two halves each; 1 + lsbwid bits of the map.
TwinMatch(a, b) ==
    \E h, k \in 1 .. 2 :
        line(a)[h] = line(b)[k] /\ mask(a)[h] \cap mask(b)[k] \cap (0 .. Dlen) # {}

Active == {i \in Ports : addr_r[i] # None}
addr_nomatch_o == {i \in Active : \A j \in Active \ {i} : ~is_match(addr_r[i], addr_r[j])}

-----------------------------------------------------------------------------
(* DataMerger, for the even or the odd lines: picks the first row that is  *)
(* active and merges those on its line.                                    *)

addr_match(rows, h) ==
    [i \in rows |-> {j \in rows : line(addr_r[j])[h] = line(addr_r[i])[h]}]
pick(rows) == CHOOSE i \in rows : \A j \in rows : i <= j
Row(i, h) == {<<p, i>> : p \in mask(addr_r[i])[h]}
\* Mutant: every row.
Merge_all(rows, h) == UNION {Row(j, h) : j \in rows}
Merge(rows, h) ==
    IF rows = {} THEN {}
    ELSE UNION {Row(j, h) : j \in addr_match(rows, h)[pick(rows)]}

-----------------------------------------------------------------------------
(* The splitter's client holds its access until it is answered; the halves *)
(* come in any order and stay.                                             *)

Ask == /\ access = None
       /\ \E r \in Request : /\ line(r)[2] < Lines       \* exc otherwise
                             /\ access' = r
       /\ UNCHANGED <<sld_i_valid, ld_i_r>>

Latch == ld_i_r' = [h \in 1 .. 2 |-> ld_o(h)]

Come == /\ access # None /\ ~o_valid
        /\ \E h \in {1, 2} \ sld_i_valid : sld_i_valid' = sld_i_valid \cup {h}
        /\ Latch /\ UNCHANGED access

Leave == /\ o_valid
         /\ access' = None /\ sld_i_valid' = {}
         /\ Latch

Split == (Ask \/ Come \/ Leave) /\ UNCHANGED addr_r

\* addr_en_i and addr_rs_i: an address is compared from one to the other.
Compare == /\ \E i \in Ports :
                 \/ /\ addr_r[i] = None
                    /\ \E r \in Request : addr_r' = [addr_r EXCEPT ![i] = r]
                 \/ addr_r[i] # None /\ addr_r' = [addr_r EXCEPT ![i] = None]
           /\ UNCHANGED <<access, sld_i_valid, ld_i_r>>
=============================================================================
