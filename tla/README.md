# Libre-SOC core: TLA+ models and proofs

Libre-SOC (`src/src/soc`) is an OpenPOWER CPU written in nmigen: synchronous
hardware, one clock domain for the core (`coresync`) and one for debugging.
What is built and tested today is `TestIssuer` (`simple/issuer.py`), an
in-order issuer with Simple-V (SVP64) vector loops, in front of function units
that speak the 6600 request/go protocol, a load/store path to a D-cache and a
radix MMU or to a plain Wishbone bus, and an XICS interrupt controller. Beside
it the repository keeps an instruction cache and an out-of-order 6600
scoreboard. This directory holds TLA+ models of all of these, the TLC runs that
check them, and proofs of what the issuer, the compute unit, the register files, the scoreboard,
both caches, the MMU and the interrupt controller do for every size.

A model's step is **one clock**. A primed variable is what nmigen assigns in
`m.d.sync`; an operator without variables of its own is a wire (`m.d.comb`).
In each step every state machine takes the branch of the state it is in, on
the wires of that clock, so the race conditions that remain are those the
hardware has: who reads a register in the clock another writes it, which pulse
is seen by whom, and what the environment (debugger, memory, predicates,
latencies) does in which clock. In `FunctionUnits` a step is one stage of a
pipeline.

## Inventory

| Component | Source | State | Operations | What must be right | Modules |
|---|---|---|---|---|---|
| Issuer | `simple/issuer.py` | four FSMs (fetch, predicate, issue, execute), `cur_state`, `nia`, masks, `pc_changed`/`sv_changed` | one branch per FSM state | the FSMs take turns; PC and SVSTATE are read and written once and from the right place; each vector lane selected by the predicates executes once, in order | `Issuer`, `SvIsa` |
| Core debug | `debug/dmi.py` | `stopping`, `do_step`, `do_reset`, `terminated` | write CTRL, `terminate_i`, register reads | a stop is acknowledged and holds; OP_ATTN is not overtaken by START; a read returns the register | `CoreDebug`, `CoreRegs` |
| Regfiles | `regfile/*.py` | register arrays, read ports one clock late with write-through | read, write | a read sees the write of its own clock | `CoreRegs`, `Issuer` (STATE) |
| Core | `simple/core.py` | `delay_pick`, `wr_pick` edges, NOP counter, `core_terminate_o` | issue, pick a read port, grant a write | data, enable and go in the same clock; one FU at a time | `CoreRegs` |
| Timer | `simple/issuer.py` `tb_dec_fsm` | FSM, `spr_dec` | read, count, write DEC and TB | a written value is not counted over | `CoreRegs` |
| Compute unit | `experiment/compalu_multi.py` | seven latches, operand and result registers | issue, go_rd, go_wr, ALU in and out | no result abandoned or written twice; becomes free | `CompUnit`, `FuncUnit` |
| Example ALUs | `experiment/alu_hier.py`, `alu_fsm.py` | counters, valid and ready | accept, compute, give | one answer per operation accepted | `ExampleAlus` |
| Load/store compute unit | `experiment/compldst_multi.py` | more latches: address, data, update, store | the same plus the PortInterface | address before data, one access | `LdstUnit` |
| Ports to memory | `experiment/pimem.py`, `pi2ls.py`, `l0_cache.py` | busy, address-ok, data latches | request, address, data, exception | one answer per request | `PortInterface`, `WbPort` |
| LoadStore1, MMU FU | `fu/ldst/loadstore.py`, `fu/mmu/fsm.py` | FSM, fault registers | load, store, retry after a TLB miss, MTSPR, TLBIE | the access is retried as what it was; an error ends it | `MemPort`, `Mmu` |
| Radix MMU | `experiment/mmu.py` | walk FSM, cached process table entry | translate, tlbie, mtspr | terminates; permissions; done xor err; nothing stale | `Mmu` |
| D-cache, I-cache | `experiment/dcache.py`, `icache.py`, `plru.py` | tags, valid bits, row valid bits, TLB, PLRU, reload FSM | hit, reload, store, DCBZ, invalidate | a hit returns memory's data; reload meets store | `DCache`, `ICache` |
| Misaligned access parts | `scoreboard/addr_split.py`, `addr_match.py`, `l0_cache.py` | latches of the two halves, request registers | split, compare, merge | the right bytes of the line; no overlap within it missed | `Misaligned` |
| Pipelines | `fu/*/main_stage.py` and their stages | stage registers | arithmetic, logic, branch, trap, SPR | ISA results | `FuAlu` .. `ControlUnits`, `FunctionUnits` |
| Divider | `fu/div/*.py` | iteration state | start, step, give | result held until taken; quotient and remainder | `FuDiv` |
| XICS | `interrupts/xics.py` | `xive`, `cppr`, `mfrr`, `xisr` | wishbone accesses, level changes | most favoured source; masking by CPPR | `Xics` |
| Wishbone parts | `bus/wb_downconvert.py`, `minerva/` | small FSMs | bus cycles | each access acknowledged once | `WbPort` |
| Scoreboard | `scoreboard/`, `scoremulti/`, `experiment/score6600_multi.py` | dependency matrices, shadows | issue, go, die | no hazard between units; nothing of the path not taken | `Scoreboard` |
| JTAG, firmware upload | `debug/jtag.py`, `dmi2jtag.py` | bridge FSM | DMI over JTAG | one request per scan | not modelled |
| Clocks, build, decoders | `clock/`, `config/`, `decoder/`, `sv/` | none of interest | | | not modelled |

They meet as follows. The issuer's four FSMs shake hands with ready/valid
pairs and share `cur_state`, the predicate masks and the STATE regfile. The
execute FSM issues to the core and waits for `busy_o`; the core routes the
issue to one compute unit, whose request/go lines go through one priority
picker per regfile port. A compute unit writes PC or SVSTATE behind the issuer's
back (branch, trap, rfid); the issuer watches the `nia` write port. The
load/store unit asks an L0 buffer that passes it to one port; behind the port is
LoadStore1, whose accesses go to the D-cache and, after a TLB miss, to the MMU,
which reads its tables through the same D-cache and loads its TLB. The debug
module stops, steps and resets the issuer and reads its PC; OP_ATTN flows back
from core to debug module to issuer with two clocks' delay.

What is hard here: registers read one clock late; pulses one clock long that
somebody must be looking at; state machines that assume they are alone; a
debugger acting in any clock; latches set and reset together; a cache line read
and written while it is being reloaded; counters of 7 bits
compared with a VL of up to 64; and the absence, in several FSMs, of a way out of
an error. PROJECT.json lists each at its line.

## Modules

| Module | What it is |
|---|---|
| `CoreDebug` | `CoreDebug` of `debug/dmi.py`: CTRL and STAT |
| `Issuer` | `TestIssuerInternal`: the four FSMs, the STATE regfile, `state_get`, the handshake with the core; extends `CoreDebug` |
| `SvIsa` | abstract: one instruction at a time, a vector loop as a for-loop over the selected lanes |
| `IssuerMC`, `IssuerProofs` | properties and the refinement mapping to `SvIsa`; instances; TLAPS proofs |
| `CompUnit` | `MultiCompUnit` with the port pickers of `simple/core.py` and an ALU; the mapping to `FuncUnit`, `UnitProved` |
| `FuncUnit` | abstract: busy from issue until each result has been written once |
| `ExampleAlus` | the ALUs of `alu_hier.py` and the shifter of `alu_fsm.py` |
| `Misaligned` | `LDSTSplitter`, the address comparators, `DataMerger` |
| `CompUnitMC` | properties of `ExampleAlus` and `Misaligned`, and instances of the three |
| `CoreRegs`, `CoreRegsMC` | register files, operand and result routing, timer, debugger's reads |
| `LdstUnit` | `LDSTCompUnit` |
| `PortInterface` | `L0CacheBuffer` and `PortInterfaceBase` |
| `MemPort` | `LoadStore1` with abstract D-cache and MMU |
| `WbPort` | `Pi2LSUI`, `BareLoadStoreUnit`, `WishboneDownConvert`, a Wishbone slave |
| `LoadStore` | composes the four; `MemOp` is the abstract specification; `LoadStoreMC` |
| `DCache`, `DCacheMC` | the D-cache and its memory |
| `Mmu`, `MmuMC` | the radix MMU with `FSMMMUStage`, `LoadStore1` and the D-cache's TLB |
| `ICache`, `ICacheMC` | the I-cache with its TLB and a pipelined Wishbone memory |
| `Scoreboard`, `ScoreboardMC` | the 6600 scoreboard and what a program must see of it |
| `Word` | words as numbers and as bits |
| `FuAlu`, `FuLogical`, `FuShift`, `FuDiv` | the stages of each pipeline, as operators (the multiplier in `FuAlu`, the CR unit in `FuLogical`); the divider's FSM |
| `ControlUnits` | branch, trap and SPR units with the registers they share |
| `FunctionUnits` | the pipelines' registers and hand-over |
| `FuIsa`, `FuProofs` | the ISA's definitions of the results; what the repository's own formal proofs assert |
| `FunctionUnitsMC` | properties and instances of these |
| `Xics`, `XicsMC` | `XICS_ICS` and `XICS_ICP` with their lines and bus accesses; what the lines, the core and the software see |
| `CompUnitProofs`, `LoadStoreProofs`, `ScoreboardProofs`, `DCacheProofs`, `ICacheProofs`, `MmuProofs` | TLAPS proofs about the module of that name |
| `RegsProofs` | TLAPS proofs about `CoreRegs` and `Xics` |

### Issuer

The build is the one with `svp64_en`. `fetch`, `pred`, `issue` and `exec` are the FSM states under
their names in the code. Each FSM state's branches are actions (`IssueRetire`,
`PredCrRead`, ...); `Next` conjoins one action per FSM, the regfile, the core,
the debug module and the inputs.

* `insn` stands for `dec_opcode_i` with the prefix, seen through the decoder: what
  the FSMs ask of it (prefixed, loops, predicate mode, zeroing, branch/rfid/attn).
  `loop_continue` is taken as an output of the decoder, which sets it for prefixed instructions only
  (`InputAssumption`).
* Addresses count 32-bit words modulo `NPC`; a mask is the set of its bits;
  steps have one bit more than a lane number, and wrap there.
* `pc_rd`, `sv_rd` hold what the regfile's read port returns in this clock,
  `None` when nothing was read in the last (`res_ok_delay`).
* A predicate register or CR field read returns any value.
* `CoreStep` is the core seen from the issuer: busy for any number of clocks,
  possibly writing PC (and, for an rfid, SVSTATE) while busy; OP_ATTN never
  busy, raising `core_terminate_o`.
* Left out: MSR, which is read and latched with no influence on control; the
  satellite decoders' mask bits (`sv_pred_sm`); the NOP counter of the core, an
  ordinary busy period. The timer and the debugger's reads are in `CoreRegs`.

The debugger's inputs are bounded by **`WaitsForStop`**. With it, a debugger
resets the core only when it is stopped and idle, and changes an
override (`pc_i`, `svstate_i`) only then, during the reset, or after the
core has started from it. That is what `simple/test/test_runner.py` does (lines
236-265: override, START, withdraw; 289-311: STOP, wait, look). Without it the
core's behaviour is not what anybody would want: an override withdrawn in the clock
before the start makes PC 0 (`state_get`), and a reset in mid-instruction
leaves the FSMs running. The theorems that need the rule assume it by name; `CoupledAlways`,
`TypeCorrect` and `ParkedFrozenAlways` do not.

### Compute unit, example ALUs, misaligned parts

A latch (`nmutil.latch.SRLatch`, `sync=False`) is its stored value and its
registered set and reset inputs; its output is `(q & ~r) | s` in the same clock.
Operands and results are abstracted to the **tag** of the instruction they belong
to: the model's ALU returns the instruction's tag if each operand it took was
this instruction's, and `Bad` otherwise. `RdPort` and `WrPort` assign operands and results to
regfile ports; ports are shared, as with `regreduce_en`. The ALU takes any number of
clocks; `HoldsOk` says whether its outputs survive being taken (every pipeline)
or not (`FSMMMUStage`). The core ties `shadown_i` to 1 and never drives `go_die_i`.
The model lets the core issue in the first clock the unit is free; the issuer
needs a few more. `UnitProved` is what `fu/compunits/formal/proof_fu.py`
asserts of the unit.

`ExampleAlus` lets any producer and consumer talk to each ALU. `DummyALU` and
`BranchALU` need what `MultiCompUnit` does (the operation is held, `i_valid`
drops before the next); `AluInit` says so with `holding`.

`Misaligned` treats a byte as the address it belongs to and OR as union, so
that a wrong shift shows as a byte in a wrong place. The mask of an access's bytes
(`lexp`) is one line wide, as in the code: what an access covers of the next line is cut off, so that the splitter's
second half is never asked for and the comparison's upper half never matches (see the divergence at
addr_match.py:132). The wires of both are kept; `MisalignedAccesses` is about the bytes of the line an access starts in. `CompUnitMC` runs the three
machines one at a time (`focus`): they share nothing.

### Register files, routing and timer

One unit at a time is active in `CoreRegs`; it is a `FuncUnit` that requests its operands and
writes in any order. `Merged` and `PortOf` are the merged ports of the reduced build.
`port_q` is what a read port returns a clock after the read.
`Programs` are families of instructions: integer with two results, DEC/CTR/LR moves, CR moves.
The timer runs all the time; the debugger reads what it likes.

### Load/store path

`LoadStore` wires `LDSTCompUnit`, the L0 buffer and the port to one of two
memory sides, as `config/loadstore.py` does. `ldst_ifacetype` chooses the side:

* `mmu_cache_wb`: `LoadStore1` with a D-cache that answers in any later clock with
  data or with a miss or fault, and an MMU that finishes its walk in any later clock,
  with a translation or an error. `DCache` and `Mmu` are the detailed models of the two.
* `bare_wb`: `Pi2LSUI`, `BareLoadStoreUnit`, and a Wishbone bus of full width or,
  through `WishboneDownConvert`, half of it, whose slave stalls as it likes.

`MemOp` is what the path promises: an instruction performs its own access
once, with its own address and data, writes each of its results once,
the loaded value after the access, and then is done; or faults and changes nothing more.
`Gap` is the least number of clocks between two instructions (the issuer needs more than 2).
With `Resume` FALSE a fault ends a behaviour: see the findings for why.

### D-cache

A row is the unit of data, an address a tag, an index and a row. Stage 0, the lookup
(`req_op`), the three-state machine of stage 1, the two forwarded writes and the RAMs are as in the code. `ref`
is memory as if requests were done in order, the yardstick of `Answers` and `Coherent`.
One request is outstanding (`LoadStore1` and the MMU wait). The TLB is in `Mmu`; here a
request says whether its translation gave access. The replaced way is any but the last
used: with `BITS=2` the PLRU tree has two bits of
state (`plru.py:20`), which give the complement of the way used last.
`spoils` names the clocks in which the D-cache goes wrong, of three kinds: a reload ends another's
request (`mistaken`, see the divergence at dcache.py:1480); a store right behind one to the same page is sent to another
line, as three bits of its tag are cleared (the last disjunct of `untimely`, dcache.py:1536); and DCBZ meets a store or a
reload, and a request is lost (the other two; OP_DCBZ never gets as far as the D-cache in the core as it is). `Gentle` excludes
those clocks from the run, and the theorems hold until the first of them. A line is cached or a peripheral's for all who ask
(`RequestAssumption`): an uncached access that hits is refused, as a paradox.

### MMU

`Mmu` composes the walk FSM, `FSMMMUStage`, `LoadStore1` and the D-cache's TLB with a
memory of tables that the core changes as it likes. An address is its quadrant and a page
of a few bits; `LowBits`, `MinBits` and `MaxBits` stand for 12, 5 and 16; an entry is named by its table and
index. `dirty` are the pages the core has changed, or loaded while the process-table entry of their half was changed
(`ptDirty`), and not invalidated since: only for such addresses may a translation differ from the tables.
`Gap` stands for the clocks the issuer takes to fetch the next instruction after an MTSPR, which is done
before the MMU has taken it. `tlb_way` holds the ways of the TLB that were read with the request in stage 0
(`tlb_read`): an answer is given from them. `TablesAssumption` says that memory holds entries and
roots only, and one wherever a walk reads.

### I-cache

A row's content is the name of what was read and whether memory has changed since, so that a
delivered word can be compared with the address asked for. In real mode memory changes and
the cache is invalidated; in virtual mode translations are loaded, dropped and changed;
`flush` and `stall` come from the pipeline. `Gentle` excludes an invalidation in the two
clocks in which the code writes back a row of valid bits read before (`untimely`).

### Function units

`FuAlu` to `FuDiv` translate each stage as an operator on records of the stage's
signals, at a word of `XLEN = 8 * BYTE` bits: the arithmetic is the code's with its widths
scaled (`HALF` is where 32-bit forms end). The logical and shift units, whose instructions depend on the
position of bits and bytes, keep their 64 bits, as sets of bits. `FunctionUnits` gives the pipelines
their registers, so that an instruction takes the stages one at a time, and the divider its FSM.
`ControlUnits` has the branch, trap and SPR units and the registers through which they influence each
other. `FuIsa` defines the results from the ISA (as `openpower/isa` and its simulator do),
independently of the code; `FuProofs` restates what `fu/*/formal` asserts of each stage. The passing run compares
the code with both on corner operands of every instruction.

### Scoreboard

A bit vector is a set of units or registers. `FURegDepMatrix` and `FUFUDepMatrix` are the two matrices,
`OrderShadows` and `BranchShadow` the two kinds of shadow, `NextPhase` a
`MultiCompUnit` seen from the matrices. The instruction queue is any instruction from `Insns` in any
clock. `golden` and `expect` execute the program in order, beside the hardware.

### Xics

Both units, one bus access per clock. The source unit's chain of comparators is
the function `Chain`; `PresentsFavoured` compares it with the definition of the most favoured
line. Lines move freely, and the core may be reset in any clock; `icp_o` is
`reset_less` and keeps running, and comes out of power-up as source 0 with priority 0, which
is presented for one clock (`gone` starts at 0 for it). Reads return the state they
read, a clock later; only the 32-bit read of XIRR, the accept, changes anything.

An interrupt is handed out from XISR, a register, at the priority of what feeds it, a clock
newer. The two can belong to different interrupts. What holds is `MasksItself`: an
interrupt that has been up at one priority for two clocks and stays so is masked by CPPR from its accept to the
next write of CPPR. The history this needs would multiply with that of the other properties, so a
behaviour of `XicsMC` watches one thing (`watch`): the output, the lines, or the software's claims.

## Runs

| Run | Instance | Distinct states | Shows |
|---|---|---|---|
| `issuer_debug` | 2-bit masks, 3 words, branch, rfid, attn and a vector instruction, all CTRL commands, PC and SVSTATE overrides | 60,000 | types, `Coupled`, `AttnStops`, `FetchFromState`, `ParkedFrozen`, `ImplementsIsa`, `StopAcknowledged` |
| `issuer_loop` | 3-bit masks, VL = 2, all predicate modes, zeroing, loops that do not loop | 102,000 | `ImplementsIsa`, `InsnRetires` |
| `comp_unit` | 3 operands and 3 results, two of each on one port, every set of results, registers and immediates; the example ALUs with 8-bit words; a 3-line memory with lines of 8 bytes and 2 requests to compare | 46,000 | `ImplementsFuncUnit`, `UnitProved`, `Finishes`; `AlusAnswer`; `MisalignedAccesses` |
| `core_regs` | 2 INT and 2 CR registers, DEC, TB, CTR, LR; three families of instructions; DEC and TB modulo 3 | 136,000 | `OperandsRead`, `ResultsWritten`, `DebugReads`, `TimerCounts` |
| `load_store` | one read and one write port; every load, every aligned store, with or without update; both memory sides, both bus widths | 20,000 | `ImplementsMemOp`, `Finishes` |
| `dcache` | one set of 2 ways, 2 rows, two cacheable tags, 0 and 1, and one peripheral; load, store, DCBZ, uncached load, refused load, MMU load, TLB request | 66,000 | `Answers`, `Coherent`, `Answered` |
| `mmu` | 2 PIDs, 4 addresses in 2 quadrants, trees of eight pages in 4 versions, with a table of two entries, 2-way TLB; loads, stores, three kinds of TLBIE, MTSPR of PID and PRTBL | 350,000 | `Translated`, `RetryGranted`, `Ends` |
| `mmu_index` | the same with loads of pages of both entries of that table only | | finding: `TranslatedByIndex` |
| `icache` | 3 frames, 2 sets of 2 ways, 2 rows of 2 words; two pages of one TLB index | 93,000 | `Fetched`, `Fetches` |
| `function_units` | 8-bit words with one-bit bytes for the arithmetic, 64-bit sets for logic and shifts; corner operands of every operation; 8 addresses | 1,050,000 | `ComputesIsa`, `ControlIsIsa`, `StagesProved`, `UnitsFree` |
| `scoreboard` | 2 ALUs and the branch unit, 2 registers, 2 values; a program with an instruction under either side of the branch, and one with an immediate | 28,000 | `OperandsInOrder`, `ResultsInOrder`, `Finishes` |
| `xics` | two lines, IPI, priorities 0, 1 and masked | 286,000 | `PresentsFavoured`, `IrqFollows`, `NoPhantom`, `MasksItself` |

**Bounds.** Two words of PC suffice to tell PC from PC + 1; three tell PC + 1 from PC + 2.
VL = 2 in masks of 3 bits gives a first lane, a last lane, lanes past VL, an empty mask and
unequal masks. One override value per register is enough to tell it from a value
the issuer wrote. For the unit, three operands and results are the least with
both a shared and a private port; tags alternate, so a stale operand or result is always told from
a fresh one. For the load/store path an instruction's tag does the same. In the caches two ways are the least in which a
line can be in the wrong one, two rows the least of which one has arrived and the other has
not, and one set of the D-cache is enough because sets meet only in the reload, whose comparison includes the
index (two sets in the I-cache, whose next row may be in another). Trees of up to three
levels over eight pages reach each error of the walk; pages 0 and 1 share a large page, and
two quadrants the two halves of the address space. The corner operands of the pipelines are 0, 1, the greatest and
least signed numbers of each width, all ones and a few between. Three units are the least in which a third
waits for two others that wait for each other's registers. Two lines and the IPI at three
priorities give ties, a more and a less favoured rival, and the
masked value; CPPR takes each of them.

**Fairness.** The clock ticks (weak fairness of the step). Besides, as far as waiting states of the
code rely on it with no timeout:

* issuer: memory answers (a fetch is not busy for ever) and the core finishes
  (`[]<>~coreBusy`). Nothing is assumed of the debugger. The `Finishes` of `comp_unit` and
  `load_store` and `Ends` of `mmu` are the parts of `[]<>~coreBusy` those units are responsible for.
* `comp_unit`, `scoreboard`: an ALU finishes what it took. In `scoreboard` clocks without an
  issue recur as well: the issuer's queue needs several clocks for each instruction.
* `load_store`: D-cache, MMU and the Wishbone slave answer, which `dcache` and `mmu` show of the
  first two, given that memory does.
* `dcache`, `mmu`, `icache`: memory answers. `Fetches` is promised once no flush, stall or
  invalidation comes any more (`calm`): while they recur, a fetch may starve.
* `function_units`: each stage and the consumer of the result move on.

### What the issuer promises: `ImplementsIsa`

`SvIsa` describes an instruction as a programmer sees it: fetched at PC; its
lanes are the selected ones at or after srcstep and dststep, each issued once,
both counters through their own mask; the PC moves once, at the end, unless the instruction
or the debugger redirected it. `Issuer` implements it step by step, with `regPc` and
`regSv` as the PC and SVSTATE, under three conditions the run's instances meet (the theorem is
`ImplementsIsaAlways`):

* what a debugger or an rfid writes to SVSTATE has VL and both steps below the mask width
  (`Within`). At VL = 64 the counters wrap (below).
* until the first reset: the FSMs are not reset with the core, so what is
  promised ends there (`wasReset`).
* a debugger resets and overrides only a stopped core (`WaitsForStop`).

`FuncUnit` and `MemOp` are the other two abstract specifications: what a compute unit promises the
core, and what the load/store path does. The mappings are given in
`CompUnit` and `LoadStoreMC`.

## Findings

`mmu_index` (mmu.py:468): the index into a page table is taken from `addrsh`, which nothing
drives. Every level of the walk reads entry 0 of its table; an address of the second
entry is translated as one of the first. The MMU's test (mmu.py:524-542) only has entries at index
0. The property, `TranslatedByIndex`, is `Translated` with the walk of the architecture (`WalkBy("index", ...)`) in place of the walk
that takes the entry `addrsh` selects; the passing run `mmu` checks the latter on the same tables and addresses.

### Divergences without a run

Where the last column has an entry, TLC shows the divergence when the configuration or the property of
a passing run is changed as it says; the run excludes it by the bound, constant or condition named. The
other rows were met while translating the code.

| Where | What | How to see it |
|---|---|---|
| issuer.py:685, 715 | with VL = 64, a destination that runs ahead of its source reaches dststep 64, and adding the guard bit's 64 wraps to lane 0 | `IssuerLoop.cfg` with `W = 2`: `ImplementsIsa`, a lane outside the masks is issued |
| issuer.py:808-813 | a prefixed instruction that does not loop leaves srcstep and dststep where PRED_SKIP put them | the steps are not 0 when it retires |
| issuer.py:829 | STAT says stopped as soon as the issue FSM waits in EXECUTE_WAIT, with the instruction still running | `core_stopped_i => exec` at rest |
| issuer.py:343-345 | the decoder's `is_svp64_mode` is a clock, and so an instruction, behind | `dec_svp64 = is_svp64_mode` in DECODE_SV |
| dmi.py:250 | `core_terminate_o` is still up when the reset clears `terminated`, and sets it again | `terminated` after a reset |
| fu/mmu/fsm.py:140 | FSMMMUStage asserts its outputs' ok only while busy; the compute unit asks for the write port later and waits for ever. The tests of the MMU with the issuer are commented out (simple/test/test_issuer_mmu.py:44-49) | `CompUnit.cfg` with `HoldsOk = FALSE`: `Finishes` |
| xics.py:185 | XISR is presented, and accepted, whatever CPPR is; a read of XIRR can raise CPPR | at an accept, the new CPPR is below the old |
| loadstore.py:269, compldst_multi.py:467 | the alignment exception of a store withdraws, in the same clock, the store's data, which is what raised it: the wires have no stable value | `LoadStore.cfg` with misaligned stores in `Ops`: `ImplementsMemOp` |
| pimem.py:304 | an exception does not reset the port's address-ok latch; a load after a fault finds it set and hangs | `LoadStore.cfg` with `Resume = TRUE` and plain loads: `Finishes` |
| compldst_multi.py:478 | with update, RA is requested to be written as soon as the address is known, so also if the access faults | a faulting update load with `regs[2]` written |
| compldst_multi.py:323-325 | OP_DCBZ is neither load nor store to the unit, which stays busy | |
| loadstore.py:256 | an MMU error leaves LoadStore1 in MMU_LOOKUP: the end of a later TLBIE or MTSPR sends the access again | `Mmu.cfg` with `Resume = TRUE` |
| loadstore.py:341 | the privilege of an access is not passed to the MMU: a privileged page is refused to everybody | |
| pi2ls.py:15, wb_downconvert.py:112 | bus errors are not reported; from behind the converter they never end the access. The second doubleword of a misaligned access is lost | |
| fsm.py:162 | an MTSPR that reaches the MMU while it is busy is lost (done at once, "FIXME") | `Mmu.cfg` with `Gap = 0` |
| fsm.py:216 | OP_ILLEGAL is never done | |
| dcache.py:1480 | in the last clocks of a reload a request of the same line that has just arrived as a store is done without being written | `DCache.cfg` without `mistaken` in `spoils`: `Answers`; with loads and stores of one line only, `Coherent` |
| dcache.py:1536 | back-to-back stores of one page put 7 bits of row address in a field of 10: the low three bits of the tag become 0 | `DCache.cfg` without the last disjunct of `untimely`: `Coherent` |
| icache.py:633-635, 701-706 | the row of valid bits is written as it was read before, so an invalidation in the same clock is lost for the other ways; line 633 clears the bit in the row of the request, not of the reload | `ICache.cfg` with `Gentle = FALSE`: `Fetched` |
| icache.py:473 | a word already delivered is delivered again while `stall_out` is up, if its line goes away between the two words of a row | |
| icache.py:645-713 | the repository's SRAM acknowledges every other clock without stalling; a pipelined reload from it does not complete | |
| issuer.py:1183 | a value an instruction writes to DEC in the timer's DEC_WRITE clock is lost, or wins, as the two ports have no order ("the regfile has passthrough on it so this *should* be ok", 1159-1162) | `TimerCounts` without `by` |
| regfile.py:216-235 | built with `--disable-lessports`, RegFileMem gates its data with the enable of the clock after the read: operands and DEC read as 0 | |
| compalu_multi.py:218-223 | the unit is free two clocks after its last write; `proof_fu.py`'s property 8 says the next | |
| alu_hier.py:245 | the ok flags come from the operation offered, not from the one accepted: right only while it is held | |
| addr_match.py:132, 137-139 | LenExpand's output has one line's width also with cover = 1 ("this now covers two addresses", 261, and the comparison with the next line, 334-338): the splitter's second mask (addr_split.py:129) is an empty slice, so a load that crosses a line is answered with its first half, and an overlap in the next line is not matched | `CompUnit.cfg`, `MisalignedAccesses` with `held(r) == r.addr .. r.addr + r.len - 1` |
| addr_split.py:164 | the second half's latch would never be reset, and an exception is raised for any access in the last line | |
| addr_split.py:183-199 | the store half has no valid output: stores cannot be split | |
| addr_match.py:186 | the register of an access's byte mask has 1+lsbwid bits, not 2^(1+lsbwid): an overlap of later bytes is missed, though it is to "cover the cases that are *definitely* matches" (13-15) | |
| branch/main_stage.py:127-136 | "take either all 64 bits or only 32 of post-incremented counter": `ctr_m`, which is that choice, is computed and not used, so that a 32-bit branch tests all of CTR; nothing is checked of 32-bit mode | |
| branch/formal/proof_main_stage.py | the proof tests CTR before it is decremented, and the code after | `ControlProved` with `BranchProof` for branches that count |
| alu/input_stage.py:24 | operand b is assigned again after common_input_stage.py:51 ("SV zeroing on predicate source zeros the input"): only a is zeroed | |
| trap/main_stage.py:292 | "svstate was in svsrr0", says the comment; the code writes back the current SVSTATE | |
| score6600_multi.py:710 | an instruction that depends on the branch, issued in the clock the branch is decided, is neither shadowed nor cancelled | |
| compalu_multi.py:226-245 | a unit cancelled while it waits to write stays busy for ever | `Finishes` without `"lost"` |
| compalu_multi.py:173, 346 | an immediate operand is never read: the matrix waits for its read, and the column of its register stays set, so that the unit's next instruction waits for and reads the old register too, and a unit that writes that register waits for ever | `Scoreboard.cfg`: `OperandsInOrder` without its condition of one register, `Finishes` without the one on immediates |

## Proofs

Each theorem holds for every value of the module's constants that its `ASSUME`s allow. What is assumed
besides is named as a hypothesis of the theorem (`WaitsForStop`, `Gentle` of the I-cache, `Sequential`, `AlignedStores`, `Gap`). TLC has checked each inductive invariant on the instance of the run before it was proved.

**`IssuerProofs`**, for every mask width, memory size, set of instructions, and debugger.

* `CoupledAlways`: `Coupled` is inductive with the FSMs' types. The proof
  describes each FSM's moves by four small lemmas (`FetchMoves`, `PredMoves`,
  `ExecMoves`, `IssueMoves`), which say when it leaves and enters its rest state, so
  that the step needs no branch of the code.
* `TypeCorrect`: one lemma per machine; `AddStepType` and `LeadingZerosIsLowest`
  bound the step arithmetic.
* `Invariance`: under `WaitsForStop`, `IssuerInv` is inductive. `Coupled` alone says
  nothing of data; what `AttnStops` and `FetchFromState` need
  besides is: that a read in flight, if there is one, is of what the registers hold
  (`ReadInv`: the regfile forwards, and a debugger that keeps to the rule does not take an
  override away in the clock between read and use); that an override
  stands while the core is quiet; that an OP_ATTN that reached the core has its `terminated` and
  `stopping` behind it before the issue FSM is back at ISSUE_START (`DebugStep`); that a
  lane in flight was compared with the VL it still has (`LaneStep`).
* `AttnStopsAlways` and `FetchFromStateAlways` follow from it;
  `ParkedFrozenAlways` needs `CoupledAlways` only.
* `ImplementsIsaAlways`: the refinement of `SvIsa`. `IsaInv` holds until a reset: an override
  has been written by the time the core starts from it (`Overrides`); `cur_state` is what the registers hold but for what has
  been written under it, which `pc_changed` or `sv_changed` then says (`Copies`); `nia` is the address of
  the next instruction (`Fetched`); a mask is the fetched one shifted up to the current step, and past it
  once the lane has been chosen (`Masks`). `SkipFindsLane` is the arithmetic: adding the leading zeros of a shifted
  mask gives the lane `SvIsa` names, or passes VL when there is none. `WriteIsa` to `NextLaneIsa` map each branch of the issue
  FSM to a step of `SvIsa` or to a stutter.

**`CompUnitProofs`**, for any numbers of operands and results and ways to share ports, and an ALU
that holds its outputs or not. `PhaseAlways`: a unit is in one of four phases (`Free`, `Reading`,
`Running`, `Writing`), each of which fixes what latches, pulses and grants can be; a lemma per phase says where
it can go in a clock. `FuncUnitImplemented` maps each of those moves to a step of `FuncUnit` or to a stutter:
`ImplementsFuncUnit` is thereby a theorem. `UnitProvedAlways` is the repository's own SAT proof without its bound.
`MisalignedAlways` is about the parts for misaligned accesses, for lines of any length (that 2^`Dlen` is a positive number
is assumed with `MisalignedAssumption`: tlapm knows nothing of powers) and accesses of half a line at most. `MaskBytes` says that a mask's positions are the access's bytes in
the line it starts in, and that there are none in the next; `MatchIsOverlap`, that two accesses match just when they share such a byte; the rest follows from the
uniqueness of quotients (`Quotients`).

**`LoadStoreProofs`**, for any set of loads and aligned stores, any sharing of the regfile ports, and LoadStore1 with a D-cache and an MMU, or
the Wishbone bus with or without the converter, of any latency; the core may go on after a fault or not. `IInvAlways`: an instruction's operands
are read (`Reading`), its access is sent (`Sending`), the memory is at work (`Waiting`: `CacheWait`, or `BusRuns` and then
`BusEnds`), the answer has come (`Completing`), or there is no instruction (`Idling`). A fault leaves the port with its address latch
set (`Faulted`), and an instruction after it never gets past its operands (`Stuck`; the divergence at pimem.py:304). A phase fixes what the latches of unit
and port hold and which request the memory has. The wires between unit and port are a loop with, in each phase, one stable value:
the lemmas named `...Wires` find it, and then one lemma per phase says where the clock leads and which step of
`MemOp` it is. `MemOpImplemented` puts them together. Its hypotheses: `AlignedStores`, as the wires have no
stable value for a misaligned one (divergence at loadstore.py:269); and `Gap` at least 1, a clock between the end of an
instruction and the next issue, for the latches to settle and for Pi2LSUI to be ready. The issue and
execute FSMs take more than two. TLC finds `ImplementsMemOp` violated with `Gap = 0`.

**`RegsProofs`**, about `CoreRegs`, for any registers, instructions that name an operand once, and modulus of the timer
(`CoreRegsAssumption`). `OperandsReadAlways`: the picker grants one request per port (`RankDecides`, `OnePerPort`),
so what the read port returns a clock later is the granted register and nothing else. `DebugReadsAlways`
and `TimerCountsAlways` rest on the same read: it is one clock late, and sees that clock's writes.
`ResultsWrittenAlways` is an action property: a result is driven because it was not picked in the clock before, and is
alone on its bus. `TypeAlways` follows from the two.

About `Xics`, for any numbers of sources and of priorities. `FavouredAlways`: `Chain`, a recursive function, computes a
minimum. The library's induction theorems cannot be instantiated (they take an operator), but induction over a set of
numbers can be proved from `WFMin` (`NatSetInduction`), and with it that `Chain` exists and what it is.
`NoPhantomAlways`: a line that goes down takes up to three clocks to leave the registers
(`LineAges`). `MasksItselfAlways`: what is registered and presented of an interrupt that has been steady for one clock and for two.
`XicsTypeAlways`: priorities keep to their range.

**`ScoreboardProofs`**, for any numbers of units, registers and operands and any programs, immediates included. A unit's row may
still have the register of an earlier immediate (see the divergences): `OperandsInOrder` is about the operands whose row has one
register, its own. In the invariant, of two units that have still to write one casts its shadow on the other (`Ordered`);
the branch's record agrees with the units on either path (`Speculation`); and each register's value
in the program is held by the last of the writers that are due, or by the register when none is (`Values`, for
each operand with the writers in front of its unit). It is proved for issue, read, write and the branch's decision, all
of which may happen in one clock. `OperandsInOrderAlways` and `ResultsInOrderAlways` follow.

**`DCacheProofs`**, for any sets, ways, rows, tags, values and requests and a memory of any latency: each theorem holds from the
start until the first clock in which one of the three named bugs bites (`spoiled` records it; `HNext` is `Next` with that
history, and no clock is excluded). The request
that waits is in stage 0 or in stage 1 (`Where`), and `OnBus` says what each state has on the bus. The
yardstick is `Then`: what memory holds when what is on the bus is done. Every cell of a valid
line, with the write in stage 1, is what memory will hold (`Lines`); `ref` is that too, but for the request that waits
(`Order`); what the lookup found stays true while the request waits for a reload or for stores (`Found`); and the read
register with the forwarded writes is the RAM (`Lookup`). `TickStep` says what a clock does in each state; each
conjunct's lemma rests on it. `AnswersAlways` and `CoherentAlways` follow.

**`ICacheProofs`**, for any sets, ways, rows and words, any page tables and any memory that answers in order, under
`Gentle`. A valid line is complete and in one way; a line under reload is in no valid way, has the rows that
have come, and its outstanding requests are the remaining rows in their circular order (`Reload`, with `Dist`); the TLB agrees
with the tables but for pages that have changed. `FetchedAlways` follows, for hits under reload too.

**`MmuProofs`**, for any addresses, tables that memory changes to, and TLB, under `Sequential`: an MTSPR is
followed by three clocks without an instruction, and nothing by a fault. `MmuInv` says which of walk FSM, `FSMMMUStage`,
`LoadStore1` and D-cache waits for which; that no page is in two ways; and that a walk's entry stays in the TLB, with the permission that
was checked, from its load to the retry (`Loaded`). `RetryGrantedAlways` follows: a retry never faults or
misses. Without `Resume = FALSE` it does not hold (see the divergences, loadstore.py:256).

`TransInvAlways` adds what the MMU knows of the tables: it has PID and PRTBL as the core set them last (`SprInv`); a
process-table entry it caches is the one in memory, unless the core has changed that (`RootsInv`); a walk stands at an entry
below which `Walk` finds the translation of its address (`WayInv`, `OnWay`); a page in the TLB is what `Walk` finds for it, unless it is dirty
or a flush is on its way (`PtesInv`); and what a TLBIE has cleaned is out of the TLB (`TlbieInv`). `TranslatedAlways`
follows, for every address and all tables, of the walk with the index that the MMU takes, `addrsh`.
`TranslatedByIndexWhere` adds what that is worth in the architecture: an address that selects in each table of its walk the
entry that `addrsh` does (`Selected`) is let through with the architecture's translation; `SameBelow` compares the two walks level by level.
The other addresses are the finding `mmu_index`. `Walk` goes down by a recursive
function, `Below`; `BelowIs` proves that the function exists and satisfies its defining equation, by an
induction proved from `WFMin`, as in `RegsProofs`.

**Model-checked only:**

* Liveness, out of the prover's reach: `StopAcknowledged`, `InsnRetires`,
  `Finishes`, `Answered`, `Ends`, `Fetches`, `UnitsFree`, `IrqFollows`.
* `ComputesIsa`, `ControlIsIsa`, `StagesProved`: arithmetic with nested `2^n` and division (the divider's quotient is a
  recursion besides), for which the provers have little; TLC compares code and ISA on corner operands.
* `AlusAnswer`: as the pipelines, arithmetic with powers of two and signs.

## Plan

Lemmas on operators: `right_mask` and `left_mask` of the rotator, `calc_ov` and the carries of
the adder, for every width.

## Not modelled

* The bridge from JTAG to DMI, firmware upload and the TAP: the protocol is that of two
  buses defined in other repositories.
* Decoders and SVP64 tables (mostly shims for another repository), pin lists, clock selection and
  PLL, configuration, Verilog generation, test utilities and test memories.
* `unused_please_ignore_completely/`, as it says; the memory pipe experiment.
* `score6600.py`, `cscore.py` and `compalu.py`: earlier versions, using names that do
  not exist any more. `score6600_multi.py`'s own `CompUnitsBase` reads `rd0.go` and `.rel`, which
  `go_record` has renamed; `Scoreboard` takes them as the signals meant.
* The scoreboard's load/store group and memory matrices: its cancel lines carry one bit of
  an address comparison, zero-extended.
* The cached Minerva units, which do not build; `BareFetchUnit` is the issuer's memory.
* Reservations of the D-cache (never driven), `nc` of the I-cache's requests, slow SPRs, the state of DSISR and DAR
  (written, never read), MSR in the issuer.
* Two instructions at once in a pipeline: the compute unit in front of it lets in one.
