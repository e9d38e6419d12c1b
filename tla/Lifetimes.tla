------------------------------ MODULE Lifetimes ------------------------------
(***************************************************************************)
(* What any owner of things made elsewhere promises about them: a thing is *)
(* made once, and is then ended at most once, either freed or given away   *)
(* to somebody who ends it.  Nothing comes back from either end.           *)
(***************************************************************************)
CONSTANT Things
VARIABLE life

Init == life = [x \in Things |-> "unmade"]

Becomes(x, from, to) ==
    /\ life[x] = from
    /\ life' = [life EXCEPT ![x] = to]

Make(x) == Becomes(x, "unmade", "live")
Free(x) == Becomes(x, "live", "freed")
Give(x) == Becomes(x, "live", "given")

Next == \E x \in Things : Make(x) \/ Free(x) \/ Give(x)

Spec == Init /\ [][Next]_life
==============================================================================
