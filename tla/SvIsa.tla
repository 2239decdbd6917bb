-------------------------------- MODULE SvIsa --------------------------------
(***************************************************************************)
(* What the issuer promises, without its pipeline of state machines: one   *)
(* instruction at a time; a prefixed (SVP64) instruction is a for-loop     *)
(* over the lanes its predicates select, srcstep and dststep each stepping *)
(* through their own mask; the PC advances once, at the end, unless the    *)
(* instruction or the debugger redirected it meanwhile.                    *)
(***************************************************************************)
EXTENDS Naturals

CONSTANTS NPC,   \* word addresses
          W      \* lanes

VARIABLES st,         \* "idle", "fetch", "loop", "lane", or "reset": no promise
          pc, sv,     \* the architectural PC and SVSTATE
          prefixed, looping,
          src, dst,   \* the source and destination lanes the predicates select
          redirected  \* PC or SVSTATE was written since the lane was issued

isaVars == <<st, pc, sv, prefixed, looping, src, dst, redirected>>

Steps == 0 .. 2 * W - 1
After(p) == (p + IF prefixed THEN 2 ELSE 1) % NPC
Rewound == [sv EXCEPT !.srcstep = 0, !.dststep = 0]

IsaInit == /\ st = "idle" /\ pc = 0
           /\ sv = [vl |-> 0, srcstep |-> 0, dststep |-> 0]
           /\ ~prefixed /\ ~looping /\ src = {} /\ dst = {} /\ ~redirected

\* The first selected lane at or after step, and whether it is in the vector.
First(lanes, step) == CHOOSE i \in lanes : i >= step /\ \A j \in lanes : j >= step => i <= j
InVector(lanes, step) == \E i \in lanes : i >= step /\ i < sv.vl

Fetch == /\ st = "idle" /\ st' = "fetch"
         /\ UNCHANGED <<pc, sv, prefixed, looping, src, dst, redirected>>

\* The instruction and its predicates are known.
Begin == /\ st = "fetch" /\ st' = "loop"
         /\ prefixed' \in BOOLEAN /\ looping' \in BOOLEAN
         /\ looping' => prefixed'
         /\ src' \in SUBSET Steps /\ dst' \in SUBSET Steps
         /\ prefixed' => sv.vl > 0
         /\ UNCHANGED <<pc, sv, redirected>>

\* A loop from 0 to 0.
Nothing == /\ st = "fetch" /\ st' = "idle"
           /\ sv.vl = 0
           /\ pc' = (pc + 2) % NPC
           /\ UNCHANGED <<sv, prefixed, looping, src, dst, redirected>>

Scalar == /\ st = "loop" /\ ~prefixed /\ st' = "lane"
          /\ UNCHANGED <<pc, sv, prefixed, looping, src, dst, redirected>>

Lane == /\ st = "loop" /\ prefixed /\ st' = "lane"
        /\ InVector(src, sv.srcstep) /\ InVector(dst, sv.dststep)
        /\ sv' = [sv EXCEPT !.srcstep = First(src, sv.srcstep),
                            !.dststep = First(dst, sv.dststep)]
        /\ UNCHANGED <<pc, prefixed, looping, src, dst, redirected>>

\* Back to idle: the description of the instruction is dropped.
Idle == /\ st' = "idle"
        /\ ~prefixed' /\ ~looping' /\ src' = {} /\ dst' = {} /\ ~redirected'

Finish == /\ st = "loop" /\ prefixed
          /\ ~(InVector(src, sv.srcstep) /\ InVector(dst, sv.dststep))
          /\ pc' = After(pc) /\ sv' = Rewound
          /\ Idle

\* The instruction in flight, or a debugger, writes PC or SVSTATE.
Write == /\ st \in {"idle", "lane"}
         /\ redirected' = (st = "lane")
         /\ pc' \in 0 .. NPC - 1
         /\ sv' \in [vl : 0 .. W, srcstep : Steps, dststep : Steps]
         /\ UNCHANGED <<st, prefixed, looping, src, dst>>

Redirect == /\ st = "lane" /\ redirected
            /\ UNCHANGED <<pc, sv>>
            /\ Idle

Retire == /\ st = "lane" /\ ~redirected
          /\ looping => sv.srcstep + 1 = sv.vl
          /\ pc' = After(pc)
          /\ sv' = IF looping THEN Rewound ELSE sv
          /\ Idle

NextLane == /\ st = "lane" /\ ~redirected
            /\ looping /\ sv.srcstep + 1 # sv.vl
            /\ st' = "loop"
            /\ sv' = [sv EXCEPT !.srcstep = @ + 1, !.dststep = @ + 1]
            /\ UNCHANGED <<pc, prefixed, looping, src, dst, redirected>>

\* Nothing is promised of an instruction a reset caught, or after it.
Reset == st' = "reset"

IsaNext == \/ Reset
           \/ Fetch \/ Begin \/ Nothing \/ Scalar \/ Lane \/ Finish
           \/ Write \/ Redirect \/ Retire \/ NextLane

IsaSpec == IsaInit /\ [][IsaNext]_isaVars
=============================================================================
