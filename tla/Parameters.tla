------------------------------ MODULE Parameters ------------------------------
(***************************************************************************)
(* Statement of include/zu.hpp: a statement prepared once, its parameters  *)
(* bound by name through bind or through try_bind, and executed, one       *)
(* result at a time, whose cell Row::get then reads.                       *)
(*                                                                         *)
(* Which overload takes an argument is the compiler's to choose among the  *)
(* ones the class declares; it is modelled by the ranks of the conversions *)
(* of [over.ics.rank], and a call is written only if one overload is best. *)
(* A name the statement does not have is refused by the engine and changes *)
(* nothing.                                                                *)
(***************************************************************************)
EXTENDS Reads

CONSTANTS Names,   (* the parameters of the statement                      *)
          Given    (* the arguments a program passes, [host, v]            *)

Numbers == {"int64", "int", "double", "bool"}
Pointers == {"chars", "no chars"}
Hosts == Numbers \cup Pointers \cup {"view", "Temporal", "nullptr"}

ASSUME GivenAssumption ==
    /\ \A g \in Given : g.host \in Hosts /\ g.v \in {0, 1} \cap Int64
    /\ {"floating", "boolean", "string", "temporal"} \subseteq Kinds

(* The kind of cell the engine makes of what zu_bind_i64, zu_bind_f64 and  *)
(* the rest are passed; an int is widened, a const char* made a view.      *)
bind_impl == [int64 |-> "integer", int |-> "integer", double |-> "floating", bool |-> "boolean",
              view |-> "string", chars |-> "string", Temporal |-> "temporal", nullptr |-> "null"]

Impls == {"int64", "double", "bool", "view", "Temporal"}

(* Mutation: bind has no overload for a const char*. *)
Overloads_NoChars(spelling) ==
    IF spelling = "bind" THEN Impls \cup {"int", "nullptr"} ELSE Impls

(* The parameter types the overloads of each spelling are declared with.   *)
Overloads(spelling) ==
    IF spelling = "bind" THEN Impls \cup {"int", "chars", "nullptr"} ELSE Impls

(* The rank of the conversion of an argument to a parameter: exact,        *)
(* promotion, standard, user defined, or none.  A pointer goes to bool by  *)
(* a standard conversion and to a view by a constructor.                   *)
Rank(host, parameter) ==
    IF host = parameter \/ (host = "no chars" /\ parameter = "chars") THEN 0
    ELSE IF host = "bool" /\ parameter = "int" THEN 1
    ELSE IF \/ host \in Numbers /\ parameter \in Numbers
            \/ host \in Pointers /\ parameter = "bool"
            \/ host = "nullptr" /\ parameter = "chars" THEN 2
    ELSE IF host \in Pointers /\ parameter = "view" THEN 3
    ELSE 4

(* The overloads that are better than every other viable one: one or none. *)
Best == [spelling \in {"bind", "try_bind"} |-> [host \in Hosts |->
            LET viable == {p \in Overloads(spelling) : Rank(host, p) < 4}
            IN  {p \in viable : \A q \in viable : p # q => Rank(host, p) < Rank(host, q)}]]

(* The value after the conversion: a pointer to bool is whether there is   *)
(* one, and no pointer is an empty text.                                   *)
Converted(g, parameter) ==
    IF g.host \in Pointers /\ parameter = "bool"
    THEN IF g.host = "chars" THEN 1 ELSE 0
    ELSE IF g.host \in {"nullptr", "no chars"} THEN 0 ELSE g.v

------------------------------------------------------------------------------

VARIABLES bound,    (* the engine's: the value bound to each name          *)
          meant,    (* history: what the program passed for each name      *)
          sought    (* history: that of the parameter under the cursor     *)

parameterVars == <<bound, meant, sought>>

Unbound == Cell("unbound", 0)
NotGiven == [spelling |-> "none", given |-> [host |-> "none", v |-> 0]]

ParametersInit ==
    /\ ReadInit
    /\ bound = [n \in Names |-> Unbound]
    /\ meant = [n \in Names |-> NotGiven]
    /\ sought = NotGiven

(* bind and try_bind of one argument, by whichever overload is best; the   *)
(* optional with a value is the call of bind with it.                      *)
bind(n, spelling, g) ==
    \E p \in Best[spelling][g.host] :
        /\ bound' = [bound EXCEPT ![n] = Cell(bind_impl[p], Converted(g, p))]
        /\ meant' = [meant EXCEPT ![n] = [spelling |-> spelling, given |-> g]]
        /\ UNCHANGED <<sought, readVars>>

(* bind_null, try_bind_null, and the optional without a value. *)
bind_null(n) ==
    /\ bound' = [bound EXCEPT ![n] = NullCell]
    /\ meant' = [meant EXCEPT ![n] =
                    [spelling |-> "bind_null", given |-> [host |-> "nullptr", v |-> 0]]]
    /\ UNCHANGED <<sought, readVars>>

(* execute, and the cursor put on the column that returns n: the bindings  *)
(* survive.                                                                *)
execute(n) ==
    /\ bound[n] # Unbound
    /\ cell' = bound[n]
    /\ sought' = meant[n]
    /\ asked' = None
    /\ got' = Raised
    /\ UNCHANGED <<bound, meant>>

(* Another statement is prepared in this one's place; a result outlives    *)
(* the statement that made it.                                             *)
prepare ==
    /\ bound' = [n \in Names |-> Unbound]
    /\ meant' = [n \in Names |-> NotGiven]
    /\ UNCHANGED <<sought, readVars>>

ParametersNext ==
    \/ \E n \in Names, g \in Given : bind(n, "bind", g) \/ bind(n, "try_bind", g)
    \/ \E n \in Names : bind_null(n) \/ execute(n)
    \/ prepare

------------------------------------------------------------------------------

(* What a program means by an argument, however it is bound.               *)
Meaning(g) ==
    CASE g.host \in {"int64", "int"} -> Cell("integer", g.v)
      [] g.host = "double" -> Cell("floating", g.v)
      [] g.host = "bool" -> Cell("boolean", g.v)
      [] g.host \in {"view", "chars"} -> Cell("string", g.v)
      [] g.host = "no chars" -> Cell("string", 0)
      [] g.host = "Temporal" -> Cell("temporal", g.v)
      [] g.host = "nullptr" -> NullCell

AsMeant == cell = Meaning(sought.given)

(* "A parameter crosses and comes back": what the cursor finds after an    *)
(* execution is what the program passed last for the name before it, of    *)
(* the kind it passed, but for text handed to try_bind as a pointer.       *)
RoundTrip ==
    sought # NotGiven /\ ~(sought.spelling = "try_bind" /\ sought.given.host \in Pointers) => AsMeant

(* "Each of these is the call of the same name above it, doing the same    *)
(* work through the same code": try_bind binds what bind would.            *)
SpellingsAgree == sought.spelling = "try_bind" => AsMeant
==============================================================================
