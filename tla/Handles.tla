------------------------------- MODULE Handles -------------------------------
(***************************************************************************)
(* detail::Handle<T, Free> of include/zu.hpp: the move-only owner every    *)
(* wrapper class of the header is built on.  A behaviour is a program that *)
(* makes, moves, overwrites, releases and destroys such owners in any      *)
(* legal order; the engine is seen only through the calls that make and    *)
(* free what an owner points at.                                           *)
(*                                                                         *)
(* An object is a place a C++ object can live in (a local, a member, the   *)
(* variant of an Outcome): it starts a lifetime, ends it and may start     *)
(* another one.                                                            *)
(***************************************************************************)
CONSTANTS Objects,    (* places an owner can live in                       *)
          EngineObjects, (* what the engine can hand out, each once        *)
          Null        (* the null pointer                                  *)

ASSUME NullAssumption == Null \notin EngineObjects

VARIABLES alive,      (* the objects inside their lifetime                 *)
          p,          (* p_ of every object                                *)
          engine      (* what has become of each engine object             *)

vars == <<alive, p, engine>>

(* Freeing, or handing over, what is not live any more is the undefined    *)
(* behaviour the class exists to rule out: "corrupt".                      *)
EngineStates == {"unmade", "live", "freed", "given"}

Free(x) ==
    engine' = [engine EXCEPT ![x] = IF @ = "live" THEN "freed" ELSE "corrupt"]

FreeIfAny(x) == IF x # Null THEN Free(x) ELSE UNCHANGED engine

Init ==
    /\ alive = {}
    /\ p = [o \in Objects |-> Null]
    /\ engine = [x \in EngineObjects |-> "unmade"]

------------------------------------------------------------------------------

(* The default constructor: an owner of nothing. *)
Default(o) ==
    /\ o \notin alive
    /\ alive' = alive \cup {o}
    /\ p' = [p EXCEPT ![o] = Null]
    /\ UNCHANGED engine

(* A call into the engine answered a new object and the explicit           *)
(* constructor took it.                                                    *)
Adopt(o, x) ==
    /\ o \notin alive
    /\ engine[x] = "unmade"
    /\ alive' = alive \cup {o}
    /\ p' = [p EXCEPT ![o] = x]
    /\ engine' = [engine EXCEPT ![x] = "live"]

(* Mutation: the source keeps its pointer, as a defaulted copy would.      *)
MoveConstruct_Copies(d, s) ==
    /\ s \in alive
    /\ d \notin alive
    /\ alive' = alive \cup {d}
    /\ p' = [p EXCEPT ![d] = p[s]]
    /\ UNCHANGED engine

(* The move constructor: std::exchange leaves the source empty. *)
MoveConstruct(d, s) ==
    /\ s \in alive
    /\ d \notin alive
    /\ alive' = alive \cup {d}
    /\ p' = [p EXCEPT ![d] = p[s], ![s] = Null]
    /\ UNCHANGED engine

(* Mutation: reset(p) without its free. *)
MoveAssign_NoFree(d, s) ==
    /\ d \in alive
    /\ s \in alive
    /\ d # s
    /\ p' = [p EXCEPT ![d] = p[s], ![s] = Null]
    /\ UNCHANGED <<alive, engine>>

(* Mutation: no test for self-assignment, and the target freed before the  *)
(* source is emptied.                                                      *)
MoveAssign_NoSelfTest(d, s) ==
    /\ d \in alive
    /\ s \in alive
    /\ FreeIfAny(p[d])
    /\ p' = IF d = s THEN p ELSE [p EXCEPT ![d] = p[s], ![s] = Null]
    /\ UNCHANGED alive

(* The move assignment.  What the target had is freed by reset, after the  *)
(* source was emptied; assigning an object to itself does nothing.         *)
MoveAssign(d, s) ==
    /\ d \in alive
    /\ s \in alive
    /\ \/ /\ d = s
          /\ UNCHANGED <<p, engine>>
       \/ /\ d # s
          /\ FreeIfAny(p[d])
          /\ p' = [p EXCEPT ![d] = p[s], ![s] = Null]
    /\ UNCHANGED alive

(* Mutation: get() in place of release(), so the owner keeps the pointer.  *)
Release_Keeps(o) ==
    /\ o \in alive
    /\ p[o] # Null
    /\ engine' = [engine EXCEPT ![p[o]] = IF @ = "live" THEN "given" ELSE "corrupt"]
    /\ UNCHANGED <<alive, p>>

(* release(): the pointer is the caller's, who hands it to an engine call  *)
(* that consumes it on every path (Result::arrow_impl is the one user).    *)
Release(o) ==
    /\ o \in alive
    /\ p[o] # Null
    /\ engine' = [engine EXCEPT ![p[o]] = IF @ = "live" THEN "given" ELSE "corrupt"]
    /\ p' = [p EXCEPT ![o] = Null]
    /\ UNCHANGED alive

(* The destructor. *)
Destroy(o) ==
    /\ o \in alive
    /\ FreeIfAny(p[o])
    /\ alive' = alive \ {o}
    /\ UNCHANGED p

Next ==
    \/ \E o \in Objects : Default(o) \/ Release(o) \/ Destroy(o)
    \/ \E o \in Objects, x \in EngineObjects : Adopt(o, x)
    \/ \E d, s \in Objects : MoveConstruct(d, s) \/ MoveAssign(d, s)

Spec == Init /\ [][Next]_vars

------------------------------------------------------------------------------

(* The types of the variables; no engine object is ever "corrupt", freed   *)
(* twice or freed after the engine consumed it ("copying one would be two  *)
(* frees of one pointer").                                                 *)
TypeOK ==
    /\ alive \subseteq Objects
    /\ p \in [Objects -> EngineObjects \cup {Null}]
    /\ engine \in [EngineObjects -> EngineStates]

Holds(o, x) == o \in alive /\ p[o] = x

(* A live object of the engine always has an owner inside its lifetime, so *)
(* nothing the header was handed can leak.                                 *)
NoLeak == \A x \in EngineObjects : engine[x] = "live" => \E o \in Objects : Holds(o, x)

(* No owner points at something already freed, consumed or never made.     *)
NoDangling == \A o \in alive : p[o] # Null => engine[p[o]] = "live"

(* Two owners never share an engine object, whatever was moved where.      *)
OneOwner == \A o, q \in alive : (p[o] = p[q] /\ p[o] # Null) => o = q

(* What an owner points at is good, and its own alone.                     *)
SoundOwners == NoDangling /\ OneOwner

------------------------------------------------------------------------------

Promise == INSTANCE Lifetimes WITH Things <- EngineObjects, life <- engine

(* What the class promises of each engine object, owners forgotten: it is  *)
(* made, and then ended at most once, by a free or by a hand over, and a   *)
(* move, a self-assignment or a destructor ends no other one on the way.   *)
PromiseSpec == Promise!Spec
==============================================================================
