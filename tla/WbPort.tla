------------------------------- MODULE WbPort -------------------------------
(***************************************************************************)
(* The memory side of the port in a core without caches: Pi2LSUI           *)
(* (src/soc/experiment/pi2ls.py), BareLoadStoreUnit                        *)
(* (src/soc/minerva/units/loadstore.py), WishboneDownConvert               *)
(* (src/soc/bus/wb_downconvert.py) for a bus of half the width, and a      *)
(* memory that acknowledges as src/soc/bus/sram.py does, after any time.   *)
(*                                                                         *)
(* stb is cyc.  Data is as in LdstUnit: what is read at an address is that *)
(* address.  The bus is enabled and makes no error; LSUI's err outputs     *)
(* drive nothing.                                                          *)
(***************************************************************************)
EXTENDS PortInterface, Sequences

VARIABLES
    lsui,          \* Pi2LSUI's FSM
    valid, cyc_1,  \* valid_l; x_busy_o of the last clock
    cyc, dbus,     \* the unit's bus
    ld_data,       \* m_ld_data_o: the words it was put together from
    cvt,           \* the converter's FSM; "NONE": there is none
    counter, cached,  \* words done; cached_data
    ack, dat_r     \* the memory's registered answer

busVars == <<lsui, valid, cyc_1, cyc, dbus, ld_data, cvt, counter, cached,
             ack, dat_r>>

Ratio == IF cvt = "NONE" THEN 1 ELSE 2
Word == [half : 0 .. 1, adr : Token \X Token]
NoWord == [half |-> 0, adr |-> <<Zero, Zero>>]
Idle == [adr |-> <<Zero, Zero>>, we |-> FALSE, dat_w |-> Zero]

WbTypeOK ==
    /\ lsui \in {"IDLE", "BUSY", "WAITDEASSERT"}
    /\ {valid, cyc_1, cyc, ack} \subseteq BOOLEAN
    /\ dbus \in [adr : Token \X Token, we : BOOLEAN, dat_w : Token]
    /\ ld_data \in [1 .. Ratio -> Word]
    /\ cvt \in {"NONE", "IDLE", "WRITE", "READ"}
    /\ counter \in 0 .. 1 /\ cached \in [1 .. Ratio -> Word]
    /\ dat_r \in Word

WbInit ==
    /\ lsui = "IDLE" /\ valid = FALSE /\ cyc_1 = TRUE
    /\ cyc = FALSE /\ dbus = Idle
    /\ cvt \in {"NONE", "IDLE"} /\ counter = 0
    /\ cached = [i \in 1 .. Ratio |-> NoWord] /\ ld_data = cached
    /\ ack = FALSE /\ dat_r = NoWord

-----------------------------------------------------------------------------
(* Pi2LSUI.                                                                *)

\* Mutant: never cleared.
valid_q_held == set_rd_addr \/ set_wr_addr \/ valid
\* Set by the address, cleared when the unit's bus cycle has ended.
valid_q == set_rd_addr \/ set_wr_addr \/ (valid /\ ~(~cyc /\ cyc_1))

lsui_busy == lsui = "BUSY" \/ (lsui = "IDLE" /\ (lds \/ sts) /\ valid_q)
ldok == ~lsui_busy
stok == ~(cyc \/ lsui_busy)

LsuiClock ==
    /\ lsui' = CASE lsui = "IDLE" -> IF lsui_busy THEN "BUSY" ELSE "IDLE"
                 [] lsui = "BUSY" -> IF ~cyc THEN "WAITDEASSERT" ELSE "BUSY"
                 [] OTHER -> IF ~sts /\ ~busy_q(FALSE) THEN "IDLE"
                             ELSE "WAITDEASSERT"
    /\ valid' = valid_q
    /\ cyc_1' = cyc

-----------------------------------------------------------------------------
(* The bus: cvt_stb to the memory, mack to the unit.                       *)

cvt_stb == cyc /\ cvt # "IDLE"
counter_ce == cvt_stb /\ ack
mack == counter_ce /\ counter = Ratio - 1
\* Mutant: the first word ends up in the upper half.
shift_reg_swapped == <<dat_r>> \o Tail(cached)
shift_reg == Append(Tail(cached), dat_r)

ConvertClock ==
    /\ counter' = IF counter_ce THEN (counter + 1) % Ratio
                  ELSE IF cvt = "IDLE" THEN 0 ELSE counter
    /\ cached' = CASE cvt = "IDLE" -> [i \in 1 .. Ratio |-> NoWord]
                   [] cvt = "READ" /\ counter_ce -> shift_reg
                   [] OTHER -> cached
    /\ cvt' = CASE cvt = "IDLE" /\ cyc -> IF dbus.we THEN "WRITE" ELSE "READ"
                [] cvt \in {"WRITE", "READ"} /\ (mack \/ ~cyc) -> "IDLE"
                [] OTHER -> cvt

\* BareLoadStoreUnit: the address and a store's data are taken in the clock
\* the cycle starts in; x_addr_i and x_st_data_i are 0 when not driven.
BusClock ==
    /\ cyc' = IF cyc THEN ~mack /\ valid_q ELSE (lds \/ sts) /\ valid_q
    /\ dbus' = IF cyc THEN dbus
               ELSE IF (lds \/ sts) /\ valid_q
                 THEN [adr |-> IF set_rd_addr \/ set_wr_addr THEN addr
                               ELSE <<Zero, Zero>>,
                       we |-> sts,
                       dat_w |-> IF set_wr_data(FALSE) THEN srl[3] ELSE Zero]
               ELSE Idle
    /\ ld_data' = IF cyc /\ (mack \/ ~valid_q) THEN shift_reg ELSE ld_data

\* The memory: no ack in the clock after an ack; the word read is the one
\* addressed in the clock before.
MemoryClock(ready) ==
    /\ ack' = (cvt_stb /\ ~ack /\ ready)
    /\ dat_r' = [half |-> counter, adr |-> dbus.adr]

\* What a load gets: the words of one address in their order.
BusData(words) ==
    IF \A i \in 1 .. Ratio : words[i] = [half |-> i - 1, adr |-> words[1].adr]
      THEN words[1].adr ELSE <<Zero, Zero>>
=============================================================================
