---------------------------- MODULE LoadStoreMC ----------------------------
(* What LoadStore must satisfy, and small instances of it. *)
EXTENDS LoadStore

\* The address an instruction asks for, and the access it is.
EffAddr(o) == << IF 1 \in o.rd THEN o.tag ELSE Zero, o.tag >>
OwnAccess(o) == [load |-> o.ld, addr |-> EffAddr(o),
                 data |-> IF o.ld THEN Zero ELSE o.tag]
OwnResult(o) == <<EffAddr(o), EffAddr(o)>>

Mem == INSTANCE MemOp WITH Access <- OwnAccess, Result <- OwnResult

\* The path implements MemOp: however long the registers, the D-cache and the
\* MMU take, and with a retry after a translation, each instruction makes one
\* access, its own, and writes each of its results once, from it
\* (LDSTCompUnit's latches, PortInterfaceBase's, LoadStore1's request latch).
ImplementsMemOp == Mem!MemSpec

\* Every load and store ends, done or with an exception (busy_o of the unit,
\* which the issuer waits for).
Finishes == (outcome = "run") ~> (outcome # "run")

-----------------------------------------------------------------------------
\* The ports of the reduced core: one read and one write port.
OneRdPort == <<1, 1, 1>>
OneWrPort == <<1, 1>>
\* Every load, and every store that is aligned.
LdstOps == {o \in Op : o.ld \/ ~o.misalign}
=============================================================================
