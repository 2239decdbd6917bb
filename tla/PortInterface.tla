--------------------------- MODULE PortInterface ---------------------------
(***************************************************************************)
(* The port between the load/store unit and the memory: L0CacheBuffer with *)
(* its one port (src/soc/experiment/l0_cache.py) and PortInterfaceBase     *)
(* (src/soc/experiment/pimem.py), which sends the address when both sides  *)
(* are ready, hands over the data and clears itself.                       *)
(*                                                                         *)
(* One step is one clock.  reset_l and cyc_l of the port have the same set *)
(* input and clear themselves: one variable, as busy_delay and busy_l are. *)
(***************************************************************************)
EXTENDS LdstUnit

VARIABLES
    l0_idx, l0_reset,          \* idx_l, reset_l of L0CacheBuffer
    ld_active, st_active, st_done, st_done_s, adrok, adrok_s, busy,
    lds_1, sts_1,              \* is_ld_i and is_st_i of the last clock
    reset, reset_delay         \* reset_l and cyc_l of the port

portVars == <<l0_idx, l0_reset, ld_active, st_active, st_done, st_done_s,
              adrok, adrok_s, busy, lds_1, sts_1, reset, reset_delay>>

PortTypeOK ==
    {l0_idx, l0_reset, ld_active, st_active, st_done, st_done_s, adrok,
     adrok_s, busy, lds_1, sts_1, reset, reset_delay} \subseteq BOOLEAN

PortInit ==
    /\ l0_idx = FALSE /\ l0_reset = FALSE
    /\ ld_active = FALSE /\ st_active = FALSE
    /\ st_done = FALSE /\ st_done_s = FALSE
    /\ adrok = FALSE /\ adrok_s = FALSE /\ busy = FALSE
    /\ lds_1 = FALSE /\ sts_1 = FALSE
    /\ reset = FALSE /\ reset_delay = FALSE

-----------------------------------------------------------------------------
(* Wires that follow from the registers.                                   *)

\* L0CacheBuffer: connected from the request until the port was not busy.
l0_q == pi_is_ld_i \/ pi_is_st_i \/ (l0_idx /\ ~l0_reset)
lds == l0_q /\ pi_is_ld_i
sts == l0_q /\ pi_is_st_i
pi_addr_ok == l0_q /\ addr_ok

ld_active_q == (lds /\ ~lds_1) \/ (ld_active /\ ~reset)
st_active_q == (sts /\ ~sts_1) \/ (st_active /\ ~reset)
st_done_q == st_done_s \/ (st_done /\ ~reset)
\* Mutant: the "ugly hack" forgotten, and the reset with it.
adrok_q_stuck == adrok_s \/ adrok
adrok_q == adrok_s \/ (adrok /\ ~reset_delay /\ ~reset)

\* The address goes out once for a load, all the time for a store.
set_rd_addr == ld_active_q /\ pi_addr_ok /\ ~adrok_q
set_wr_addr == st_active_q /\ pi_addr_ok
addr_ok_o == set_rd_addr \/ (set_wr_addr /\ ~adrok_q)

\* A load is served when the memory says so after it took the address.
ld_data_ok(ldok) == ld_active_q /\ adrok_q /\ ldok

\* exc is exc_o.happened, which may depend on the store's data going out.
set_wr_data(exc) == st_active_q /\ l0_q /\ st_go(l0_q /\ addr_ok_o, l0_q /\ exc)
busy_q(exc) == \/ (lds \/ sts) /\ ~busy
               \/ busy /\ ~exc /\ ~reset

-----------------------------------------------------------------------------
(* One clock; ldok and stok are what get_rd_data and set_wr_data return.   *)

L0Clock(exc) ==
    /\ l0_idx' = l0_q
    /\ l0_reset' = (l0_q /\ ~busy_q(exc))

PortClock(exc, ldok, stok) ==
    /\ ld_active' = ld_active_q /\ st_active' = st_active_q
    /\ st_done' = st_done_q /\ st_done_s' = set_wr_data(exc)
    /\ adrok' = adrok_q /\ adrok_s' = addr_ok_o
    /\ busy' = busy_q(exc)
    /\ lds_1' = lds /\ sts_1' = sts
    /\ reset' = IF st_done_q THEN stok ELSE ld_data_ok(ldok)
    /\ reset_delay' = reset
=============================================================================
