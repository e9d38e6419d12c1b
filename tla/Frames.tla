------------------------------- MODULE Frames -------------------------------
(***************************************************************************)
(* zu::Frame of include/zu.hpp: columns of the caller's memory, read by    *)
(* the engine where they lie, and the release callback that says when the  *)
(* caller may have the memory back.                                        *)
(*                                                                         *)
(* Actors: the program (frames, connections, its own share of the          *)
(* buffers), the statements that read frames on threads of their own, and  *)
(* the thread of the library that runs the callback.  One thing a program  *)
(* hands over is an Owner: the buffers, the shared_ptr that keeps them,    *)
(* and the std::function on the heap that holds a share of it.             *)
(***************************************************************************)
CONSTANTS Objects,      (* Frame objects                                   *)
          EngineFrames, (* zu_frame handles                                *)
          Owners,       (* buffers with a keepalive, each handed over once *)
          Conns,        (* connections, all of them open at first          *)
          Null

ASSUME NullAssumption == Null \notin EngineFrames /\ Null \notin Owners

VARIABLES alive, f, eframe, (* the Frame objects, as owners of handles     *)
          owner,      (* the owner pointer the engine keeps for a frame    *)
          fn,         (* what has become of each std::function             *)
          user,       (* the buffers the program itself still holds        *)
          held,       (* the buffers a std::function holds                 *)
          open,       (* the connections not closed                        *)
          registered, (* the frames that are tables of each connection     *)
          reading,    (* the frames the statement on each connection reads *)
          running,    (* the connections inside a statement                *)
          over        (* history: the buffers each frame was made over     *)

frameVars == <<alive, f, eframe>>
ownerVars == <<owner, fn, held, over>>
connVars == <<open, registered, reading, running>>
vars == <<frameVars, ownerVars, user, connVars>>

(* Handle<zu_frame, zu_frame_free>. *)
Frame == INSTANCE Handles
           WITH Objects <- Objects, EngineObjects <- EngineFrames, p <- f, engine <- eframe

Init ==
    /\ Frame!Init
    /\ owner = [x \in EngineFrames |-> Null]
    /\ fn = [w \in Owners |-> "unmade"]
    /\ user = Owners
    /\ held = {}
    /\ open = Conns
    /\ registered = [c \in Conns |-> {}]
    /\ reading = [c \in Conns |-> {}]
    /\ running = {}
    /\ over = [x \in EngineFrames |-> Null]

(* delete of the std::function, and with it of the share it still holds. *)
Delete(w) ==
    /\ fn' = [fn EXCEPT ![w] = IF @ = "live" THEN "freed" ELSE "corrupt"]
    /\ held' = held \ {w}

------------------------------------------------------------------------------
(* The Frame.                                                              *)

(* The default constructor. *)
Empty(o) == Frame!Default(o) /\ UNCHANGED <<ownerVars, user, connVars>>

(* Frame::create over buffers the program keeps alive itself. *)
CreatePlain(o, x) ==
    /\ Frame!Adopt(o, x)
    /\ UNCHANGED <<ownerVars, user, connVars>>

(* Mutation: no owner.release(), so the unique_ptr still deletes.          *)
Create_Deletes(o, x, w) ==
    /\ w \in user
    /\ fn[w] = "unmade"
    /\ Frame!Adopt(o, x)
    /\ fn' = [fn EXCEPT ![w] = "freed"]
    /\ owner' = [owner EXCEPT ![x] = w]
    /\ over' = [over EXCEPT ![x] = w]
    /\ UNCHANGED <<held, user, connVars>>

(* Frame::create with a keepalive that the engine accepted: the function   *)
(* is the engine's to end, through the trampoline.                         *)
Create(o, x, w) ==
    /\ w \in user
    /\ fn[w] = "unmade"
    /\ Frame!Adopt(o, x)
    /\ fn' = [fn EXCEPT ![w] = "live"]
    /\ held' = held \cup {w}
    /\ owner' = [owner EXCEPT ![x] = w]
    /\ over' = [over EXCEPT ![x] = w]
    /\ UNCHANGED <<user, connVars>>

(* Mutation: a bare new in place of the unique_ptr. *)
CreateFails_Leaks(w) ==
    /\ w \in user
    /\ fn[w] = "unmade"
    /\ fn' = [fn EXCEPT ![w] = "live"]
    /\ held' = held \cup {w}
    /\ UNCHANGED <<frameVars, owner, over, user, connVars>>

(* Frame::create that zu_frame_new refused: the callback never runs, and   *)
(* the unique_ptr deletes the function.                                    *)
CreateFails(w) ==
    /\ w \in user
    /\ fn[w] = "unmade"
    /\ fn' = [fn EXCEPT ![w] = "freed"]
    /\ UNCHANGED <<frameVars, owner, held, over, user, connVars>>

Move(d, s) == Frame!MoveConstruct(d, s) /\ UNCHANGED <<ownerVars, user, connVars>>

(* Mutation: the handle is overwritten rather than freed. *)
Assign_NoFree(d, s) == Frame!MoveAssign_NoFree(d, s) /\ UNCHANGED <<ownerVars, user, connVars>>

Assign(d, s) == Frame!MoveAssign(d, s) /\ UNCHANGED <<ownerVars, user, connVars>>

Destroy(o) == Frame!Destroy(o) /\ UNCHANGED <<ownerVars, user, connVars>>

(* The program lets go of its own share, "owned.reset()", once the frame   *)
(* has one.                                                                *)
DropUser(w) ==
    /\ w \in user
    /\ fn[w] # "unmade"
    /\ user' = user \ {w}
    /\ UNCHANGED <<frameVars, ownerVars, connVars>>

------------------------------------------------------------------------------
(* The connections a frame is a table of.  register and unregister may come *)
(* from another thread while a statement runs on the connection: the engine *)
(* refuses the call, which then changes nothing, or takes it, and the      *)
(* statement goes on over the frames it started with.                      *)

(* register_frame does not spend the handle, so one frame may serve        *)
(* several connections.                                                    *)
Register(c, o) ==
    /\ c \in open
    /\ o \in alive
    /\ f[o] # Null
    /\ registered' = [registered EXCEPT ![c] = @ \cup {f[o]}]
    /\ UNCHANGED <<frameVars, ownerVars, user, open, reading, running>>

(* The table goes; a statement that reads the frame is not waited for.     *)
Unregister(c, x) ==
    /\ c \in open
    /\ x \in registered[c]
    /\ registered' = [registered EXCEPT ![c] = @ \ {x}]
    /\ UNCHANGED <<frameVars, ownerVars, user, open, reading, running>>

(* A statement reads every frame that was a table when it started. *)
Query(c) ==
    /\ c \in open \ running
    /\ running' = running \cup {c}
    /\ reading' = [reading EXCEPT ![c] = registered[c]]
    /\ UNCHANGED <<frameVars, ownerVars, user, open, registered>>

QueryEnds(c) ==
    /\ c \in running
    /\ running' = running \ {c}
    /\ reading' = [reading EXCEPT ![c] = {}]
    /\ UNCHANGED <<frameVars, ownerVars, user, open, registered>>

(* A program does not destroy a connection one of its threads is inside of. *)
Close(c) ==
    /\ c \in open \ running
    /\ open' = open \ {c}
    /\ registered' = [registered EXCEPT ![c] = {}]
    /\ UNCHANGED <<frameVars, ownerVars, user, reading, running>>

------------------------------------------------------------------------------
(* The engine.                                                             *)

Registered(x) == \E c \in Conns : x \in registered[c]
Read(x) == \E c \in Conns : x \in reading[c]

(* Mutation: the frame is done at the unregister, whoever still reads it.  *)
Done_AtUnregister(x) == eframe[x] \notin {"unmade", "live"} /\ ~Registered(x)

(* The last of the handle, the registrations and the readers is gone. *)
Done(x) == eframe[x] \notin {"unmade", "live"} /\ ~Registered(x) /\ ~Read(x)

(* The engine calls release_trampoline once: the function runs, which      *)
(* drops its share, and is deleted.                                        *)
release_trampoline(x) ==
    /\ Done(x)
    /\ owner[x] # Null
    /\ Delete(owner[x])
    /\ owner' = [owner EXCEPT ![x] = Null]
    /\ UNCHANGED <<frameVars, over, user, connVars>>

Next ==
    \/ \E o \in Objects, x \in EngineFrames : CreatePlain(o, x)
    \/ \E o \in Objects, x \in EngineFrames, w \in Owners : Create(o, x, w)
    \/ \E w \in Owners : CreateFails(w) \/ DropUser(w)
    \/ \E d, s \in Objects : Move(d, s) \/ Assign(d, s)
    \/ \E o \in Objects : Empty(o) \/ Destroy(o)
    \/ \E c \in Conns, o \in Objects : Register(c, o)
    \/ \E c \in Conns, x \in EngineFrames : Unregister(c, x)
    \/ \E c \in Conns : Query(c) \/ QueryEnds(c) \/ Close(c)
    \/ \E x \in EngineFrames : release_trampoline(x)

Spec == Init /\ [][Next]_vars

(* Statements end, and the library runs the callbacks it owes.  Nothing is *)
(* assumed of the program.                                                 *)
FairSpec ==
    /\ Spec
    /\ \A c \in Conns : WF_vars(QueryEnds(c))
    /\ \A x \in EngineFrames : WF_vars(release_trampoline(x))

------------------------------------------------------------------------------

(* The types of the variables; no function is deleted twice. *)
TypeOK ==
    /\ Frame!TypeOK
    /\ owner \in [EngineFrames -> Owners \cup {Null}]
    /\ fn \in [Owners -> {"unmade", "live", "freed"}]
    /\ user \subseteq Owners
    /\ held \subseteq Owners
    /\ open \subseteq Conns
    /\ registered \in [Conns -> SUBSET EngineFrames]
    /\ reading \in [Conns -> SUBSET EngineFrames]
    /\ running \subseteq Conns
    /\ over \in [EngineFrames -> Owners \cup {Null}]

Allocated(w) == w \in user \cup held

(* "Until the release callback runs, which is after the last statement     *)
(* reading the frame ends and not at the unregister that preceded it": what *)
(* a statement reads is over memory that is still there, although the      *)
(* frame is no longer a table of any connection, no Frame object holds it  *)
(* and the program let go of its share; and so is what a statement would   *)
(* find registered.                                                        *)
ReadsLiveMemory ==
    \A x \in EngineFrames :
        ((Read(x) \/ Registered(x)) /\ over[x] # Null) => Allocated(over[x])

(* A function on the heap belongs to exactly one frame that will end it: a *)
(* create that was refused leaves none, and a callback that ran leaves     *)
(* none.                                                                   *)
FunctionsAreOwed ==
    /\ \A w \in Owners : fn[w] = "live" <=> \E x \in EngineFrames : owner[x] = w
    /\ \A x, y \in EngineFrames : (owner[x] = owner[y] /\ owner[x] # Null) => x = y

(* Once no object holds a frame and no connection has it as a table, the   *)
(* buffers come back: the callback runs, and drops the last share.         *)
ComesBack ==
    \A x \in EngineFrames :
        (over[x] # Null /\ ~Registered(x) /\ ~\E o \in alive : f[o] = x)
            ~> (owner[x] = Null /\ over[x] \notin held)
==============================================================================
