------------------------------ MODULE Progress ------------------------------
(***************************************************************************)
(* The progress watcher and the interrupt of zu::Connection: a callback    *)
(* that the engine runs on a thread of its own while a statement runs, on  *)
(* memory that the Connection object owns.                                 *)
(*                                                                         *)
(* Actors: the thread a connection is used from (Connect ... Query), the   *)
(* engine's watcher thread (Enter, Return), the executor (Finish, Halt,    *)
(* Join), and any thread that calls interrupt or, against the rule, the    *)
(* library again (Interrupt, SetProgress while a statement runs).          *)
(***************************************************************************)
CONSTANTS Conns,        (* Connection objects                              *)
          EngineConns,  (* zu_conn handles                                 *)
          Watches,      (* addresses a Watch can be allocated at; an       *)
                        (* address is used again once it was freed         *)
          Null,
          Refuses       (* does the engine refuse a new arrangement while  *)
                        (* a statement runs?                               *)

ASSUME NullAssumption == Null \notin EngineConns /\ Null \notin Watches
ASSUME RefusesAssumption == Refuses \in BOOLEAN

VARIABLES alive, h, econn, (* the Connection objects, as owners of handles *)
          watch,     (* watch_ of every Connection                         *)
          heap,      (* the Watch addresses allocated                      *)
          armed,     (* the user_data of each engine connection            *)
          phase,     (* of the statement on each engine connection         *)
          kept,      (* the user_data its statement started with           *)
          calling,   (* the Watch a callback in flight was entered with    *)
          told,      (* the engine's stop flag                             *)
          asked,     (* history: a stop was asked of this statement        *)
          outcome    (* how the last statement ended                       *)

connVars == <<alive, h, econn>>
watchVars == <<watch, heap, armed>>
runVars == <<phase, kept, calling, told, asked, outcome>>
vars == <<connVars, watchVars, runVars>>

(* Handle<zu_conn, zu_conn_close>. *)
Conn == INSTANCE Handles
          WITH Objects <- Conns, EngineObjects <- EngineConns, p <- h, engine <- econn

Init ==
    /\ Conn!Init
    /\ watch = [c \in Conns |-> Null]
    /\ heap = {}
    /\ armed = [x \in EngineConns |-> Null]
    /\ phase = [x \in EngineConns |-> "idle"]
    /\ kept = [x \in EngineConns |-> Null]
    /\ calling = [x \in EngineConns |-> Null]
    /\ told = [x \in EngineConns |-> FALSE]
    /\ asked = [x \in EngineConns |-> FALSE]
    /\ outcome = [x \in EngineConns |-> "none"]

(* The thread the connection belongs to is inside query or execute, so it  *)
(* makes no other call, and the engine answers concurrent to the others.   *)
Busy(c) == h[c] # Null /\ phase[h[c]] # "idle"

------------------------------------------------------------------------------
(* Connection.                                                             *)

Connect(c, x) == Conn!Adopt(c, x) /\ UNCHANGED <<watchVars, runVars>>

Empty(c) ==
    /\ Conn!Default(c)
    /\ watch' = [watch EXCEPT ![c] = Null]
    /\ UNCHANGED <<heap, armed, runVars>>

(* Mutation: only the handle is carried over. *)
Move_HandleOnly(d, s) ==
    /\ ~Busy(s)
    /\ Conn!MoveConstruct(d, s)
    /\ UNCHANGED <<watchVars, runVars>>

(* Mutation: the moved-from connection keeps its handle. *)
Move_Copies(d, s) ==
    /\ ~Busy(s)
    /\ Conn!MoveConstruct_Copies(d, s)
    /\ watch' = [watch EXCEPT ![d] = watch[s], ![s] = Null]
    /\ UNCHANGED <<heap, armed, runVars>>

(* The defaulted move constructor.  The engine keeps the same user_data,   *)
(* which is why a Watch is on the heap and not inside the Connection.      *)
Move(d, s) ==
    /\ ~Busy(s)
    /\ Conn!MoveConstruct(d, s)
    /\ watch' = [watch EXCEPT ![d] = watch[s], ![s] = Null]
    /\ UNCHANGED <<heap, armed, runVars>>

(* clear_progress_quietly, as far as the engine is concerned. *)
Disarm(c) ==
    armed' = IF h[c] # Null /\ watch[c] # Null THEN [armed EXCEPT ![h[c]] = Null] ELSE armed

(* Mutation: release() in place of reset() on the old watcher. *)
Assign_LeaksWatch(d, s) ==
    /\ ~Busy(d) /\ ~Busy(s)
    /\ Conn!MoveAssign(d, s)
    /\ d # s
    /\ Disarm(d)
    /\ watch' = [watch EXCEPT ![d] = watch[s], ![s] = Null]
    /\ UNCHANGED <<heap, runVars>>

(* The move assignment: the target's own watcher is taken back and freed   *)
(* while the target still has its handle.                                  *)
Assign(d, s) ==
    /\ ~Busy(d) /\ ~Busy(s)
    /\ Conn!MoveAssign(d, s)
    /\ \/ /\ d = s
          /\ UNCHANGED watchVars
       \/ /\ d # s
          /\ Disarm(d)
          /\ heap' = heap \ {watch[d]}
          /\ watch' = [watch EXCEPT ![d] = watch[s], ![s] = Null]
    /\ UNCHANGED runVars

(* The destructor, in the order of its body and its members. *)
Close(c) ==
    /\ ~Busy(c)
    /\ Disarm(c)
    /\ heap' = heap \ {watch[c]}
    /\ watch' = [watch EXCEPT ![c] = Null]
    /\ Conn!Destroy(c)
    /\ UNCHANGED runVars

(* What zu_conn_set_progress answers: an empty connection and an interval  *)
(* of nothing are refused.  A call while a statement runs is refused as    *)
(* query, prepare and begin are, or it is accepted for the next one, "a    *)
(* statement already running keeps the one it started with".               *)
Accepts(c, w, every) ==
    /\ h[c] # Null
    /\ Refuses => ~Busy(c)
    /\ w # Null => every # 0

(* Mutation: watch_ is replaced before the engine has answered.            *)
SetProgress_TakesFirst(c, w, every) ==
    /\ c \in alive
    /\ w \notin heap
    /\ armed' = IF Accepts(c, w, every) THEN [armed EXCEPT ![h[c]] = w] ELSE armed
    /\ watch' = [watch EXCEPT ![c] = w]
    /\ heap' = (heap \ {watch[c]}) \cup ({w} \ {Null})
    /\ UNCHANGED <<connVars, runVars>>

(* on_progress (w is the new Watch) and clear_progress (w is Null).  Only  *)
(* a call the engine accepted replaces watch_, which frees the old Watch;  *)
(* a refused one frees the new one instead.                                *)
SetProgress(c, w, every) ==
    /\ c \in alive
    /\ w \notin heap
    /\ \/ /\ Accepts(c, w, every)
          /\ armed' = [armed EXCEPT ![h[c]] = w]
          /\ watch' = [watch EXCEPT ![c] = w]
          /\ heap' = (heap \ {watch[c]}) \cup ({w} \ {Null})
       \/ /\ ~Accepts(c, w, every)
          /\ UNCHANGED watchVars
    /\ UNCHANGED <<connVars, runVars>>

(* Mutation: a stop asked of an idle connection stays for the next one.    *)
Query_KeepsStop(c) ==
    /\ c \in alive
    /\ h[c] # Null
    /\ ~Busy(c)
    /\ phase' = [phase EXCEPT ![h[c]] = "running"]
    /\ kept' = [kept EXCEPT ![h[c]] = armed[h[c]]]
    /\ asked' = [asked EXCEPT ![h[c]] = FALSE]
    /\ outcome' = [outcome EXCEPT ![h[c]] = "none"]
    /\ UNCHANGED <<connVars, watchVars, calling, told>>

(* query() begins; an interrupt that came before it is dropped. *)
Query(c) ==
    /\ c \in alive
    /\ h[c] # Null
    /\ ~Busy(c)
    /\ phase' = [phase EXCEPT ![h[c]] = "running"]
    /\ kept' = [kept EXCEPT ![h[c]] = armed[h[c]]]
    /\ told' = [told EXCEPT ![h[c]] = FALSE]
    /\ asked' = [asked EXCEPT ![h[c]] = FALSE]
    /\ outcome' = [outcome EXCEPT ![h[c]] = "none"]
    /\ UNCHANGED <<connVars, watchVars, calling>>

(* interrupt(), from any thread and from the watcher itself. *)
Interrupt(c) ==
    /\ c \in alive
    /\ h[c] # Null
    /\ told' = [told EXCEPT ![h[c]] = TRUE]
    /\ asked' = [asked EXCEPT ![h[c]] = @ \/ Busy(c)]
    /\ UNCHANGED <<connVars, watchVars, phase, kept, calling, outcome>>

------------------------------------------------------------------------------
(* The engine, and the trampoline it calls.                                *)

Enter(x) ==
    /\ phase[x] = "running"
    /\ kept[x] # Null
    /\ calling[x] = Null
    /\ calling' = [calling EXCEPT ![x] = kept[x]]
    /\ UNCHANGED <<connVars, watchVars, phase, kept, told, asked, outcome>>

(* Mutation: an exception is caught and answered as "carry on".            *)
Return_CarriesOn(x, answer) ==
    /\ calling[x] # Null
    /\ calling' = [calling EXCEPT ![x] = Null]
    /\ told' = [told EXCEPT ![x] = @ \/ answer = "no"]
    /\ asked' = [asked EXCEPT ![x] = @ \/ answer # "yes"]
    /\ UNCHANGED <<connVars, watchVars, phase, kept, outcome>>

(* The watcher answered, or threw, which is answered as a no. *)
Return(x, answer) ==
    /\ calling[x] # Null
    /\ calling' = [calling EXCEPT ![x] = Null]
    /\ told' = [told EXCEPT ![x] = @ \/ answer # "yes"]
    /\ asked' = [asked EXCEPT ![x] = @ \/ answer # "yes"]
    /\ UNCHANGED <<connVars, watchVars, phase, kept, outcome>>

Ends(x, how) ==
    /\ phase[x] = "running"
    /\ phase' = [phase EXCEPT ![x] = "ending"]
    /\ outcome' = [outcome EXCEPT ![x] = how]
    /\ UNCHANGED <<connVars, watchVars, kept, calling, told, asked>>

Finish(x) == Ends(x, "answered")

(* The executor reaches a boundary and sees the flag. *)
Halt(x) == told[x] /\ Ends(x, "interrupted")

(* query() returns, and not before a callback in flight has. *)
Join(x) ==
    /\ phase[x] = "ending"
    /\ calling[x] = Null
    /\ phase' = [phase EXCEPT ![x] = "idle"]
    /\ kept' = [kept EXCEPT ![x] = Null]
    /\ UNCHANGED <<connVars, watchVars, calling, told, asked, outcome>>

Next ==
    \/ \E c \in Conns : Empty(c) \/ Close(c) \/ Query(c) \/ Interrupt(c)
    \/ \E c \in Conns, x \in EngineConns : Connect(c, x)
    \/ \E d, s \in Conns : Move(d, s) \/ Assign(d, s)
    \/ \E c \in Conns, w \in Watches \cup {Null}, every \in {0, 1} : SetProgress(c, w, every)
    \/ \E x \in EngineConns : Enter(x) \/ Finish(x) \/ Halt(x) \/ Join(x)
    \/ \E x \in EngineConns, answer \in {"yes", "no", "throws"} : Return(x, answer)

(* The executor reaches its boundaries, watchers return, and a statement   *)
(* that is over is joined.  No statement is assumed to finish by itself    *)
(* and nobody is assumed to call anything.                                 *)
Fairness ==
    \A x \in EngineConns :
        /\ WF_vars(Halt(x))
        /\ WF_vars(Join(x))
        /\ WF_vars(\E answer \in {"yes", "no", "throws"} : Return(x, answer))

Spec == Init /\ [][Next]_vars

FairSpec == Spec /\ Fairness

------------------------------------------------------------------------------

(* The types of the variables, and no zu_conn closed twice. *)
TypeOK ==
    /\ Conn!TypeOK
    /\ watch \in [Conns -> Watches \cup {Null}]
    /\ heap \subseteq Watches
    /\ armed \in [EngineConns -> Watches \cup {Null}]
    /\ phase \in [EngineConns -> {"idle", "running", "ending"}]
    /\ kept \in [EngineConns -> Watches \cup {Null}]
    /\ calling \in [EngineConns -> Watches \cup {Null}]
    /\ told \in [EngineConns -> BOOLEAN]
    /\ asked \in [EngineConns -> BOOLEAN]
    /\ outcome \in [EngineConns -> {"none", "answered", "interrupted"}]

ArmedIsOwn == \A c \in alive : h[c] # Null => armed[h[c]] = watch[c]

WatchesAreOwned ==
    /\ heap = {watch[c] : c \in alive} \ {Null}
    /\ \A c, d \in alive : (watch[c] = watch[d] /\ watch[c] # Null) => c = d

(* The engine calls with exactly the Watch its Connection owns, or with    *)
(* none when it owns none, and every Watch allocated has one Connection    *)
(* that will free it: no move, refusal or replacement parts the two, leaks *)
(* a Watch or leaves one to be freed twice.                                *)
ArrangementAgrees == ArmedIsOwn /\ WatchesAreOwned

(* A callback in flight runs on a Watch that is still allocated, and one   *)
(* statement's callback never outlives the statement.                      *)
CallbackIsSafe ==
    \A x \in EngineConns : calling[x] # Null => calling[x] \in heap /\ phase[x] # "idle"

(* A statement is stopped only when it was asked to stop: an interrupt of  *)
(* an idle connection is dropped when the next statement starts.           *)
InterruptedOnlyIfAsked ==
    \A x \in EngineConns : outcome[x] = "interrupted" => asked[x]

(* Whoever asked, an interrupt, a watcher that answered no or one that     *)
(* threw, the statement comes back.                                        *)
StopStops ==
    \A x \in EngineConns : (phase[x] # "idle" /\ asked[x]) ~> phase[x] = "idle"
==============================================================================
