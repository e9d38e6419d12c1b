------------------------------- MODULE Errors -------------------------------
(***************************************************************************)
(* The way a failure takes from the engine to the caller in include/zu.hpp:*)
(* checked(), Error::take, and the two spellings over an Outcome.  Every   *)
(* operation of the header reads                                           *)
(*                                                                         *)
(*     checked(zu_something(..., &err), &err, "zu_something")              *)
(*                                                                         *)
(* so a behaviour is a sequence of such calls, each with its two arguments *)
(* evaluated in the order the compiler happened to choose.                 *)
(*                                                                         *)
(* The texts of an error are one datum: what the engine said of the class, *)
(* whether it had words for it, whether a retry could help, and the place  *)
(* in the statement, an excerpt and a column of it.  An excerpt is UTF-8,  *)
(* every byte of it a "start" of a character or a "continuation".          *)
(***************************************************************************)
EXTENDS Naturals, Sequences, FiniteSets

CONSTANTS EngineErrors, (* the zu_error handles of a behaviour (a bound)   *)
          Classes,      (* the two characters that open a code             *)
          Statuses,     (* what calls answer                               *)
          NoClass,      (* an error without a code                         *)
          Places,       (* what an error says of where it happened         *)
          Missing,      (* no excerpt, or no position                      *)
          Null,
          AllocFails    (* may a copy of a string throw std::bad_alloc?    *)

ASSUME ErrorAssumption ==
    /\ EngineErrors \cap {Null, "unread", "nullptr", "&err"} = {}
    /\ Null # "&err"
ASSUME StatusAssumption == {"ok", "done"} \subseteq Statuses /\ "unread" \notin Statuses
ASSUME PlacesAssumption ==
    \A at \in Places :
        /\ at.column # Missing => at.column \in Nat
        /\ at.excerpt # Missing => at.excerpt \in Seq({"start", "continuation"})
        /\ (at.excerpt # Missing /\ at.excerpt # <<>>) => at.excerpt[1] = "start"
ASSUME AllocAssumption == AllocFails \in BOOLEAN

VARIABLES pc,     (* where the calling thread is                           *)
          err,    (* the local err of the operation                        *)
          arg,    (* the second argument of checked, once evaluated        *)
          st,     (* the first one, once evaluated                         *)
          life,   (* what has become of each zu_error                      *)
          said,   (* what the zu_error of this operation says              *)
          taking, (* the e of Error::take                                  *)
          what,   (* the Error being built                                 *)
          ended,  (* how the last operation ended, for its caller          *)
          raised, (* history: the zu_error its engine call made            *)
          unwound (* history: those an exception passed inside take        *)

vars == <<pc, err, arg, st, life, said, taking, what, ended, raised, unwound>>

NoPlace == [excerpt |-> Missing, column |-> Missing]
Reports == [class : Classes \cup {NoClass}, words : BOOLEAN, retryable : BOOLEAN,
            place : Places \cup {NoPlace}]
NoReport == [class |-> NoClass, words |-> FALSE, retryable |-> FALSE, place |-> NoPlace]

(* An Error: its status, its class, whose words its message is, whether it *)
(* is retryable, and its excerpt_ and position_.                           *)
Blank == [status |-> "ok", class |-> NoClass, message |-> "", retryable |-> FALSE,
          place |-> NoPlace]

Init ==
    /\ pc = "idle"
    /\ err = Null
    /\ arg = "unread"
    /\ st = "unread"
    /\ life = [x \in EngineErrors |-> "unmade"]
    /\ said = NoReport
    /\ taking = Null
    /\ what = Blank
    /\ ended = [how |-> "nothing", error |-> Blank]
    /\ raised = Null
    /\ unwound = {}

Freed(x) == [life EXCEPT ![x] = IF @ = "live" THEN "freed" ELSE "corrupt"]

------------------------------------------------------------------------------
(* Evaluating the call and its arguments.                                  *)

(* zu_error* err = nullptr; a structural call has no slot to pass. *)
Operation(explained) ==
    /\ pc = "idle"
    /\ pc' = "arguments"
    /\ err' = Null
    /\ arg' = IF explained THEN "unread" ELSE "nullptr"
    /\ st' = "unread"
    /\ raised' = Null
    /\ said' = NoReport
    /\ what' = Blank
    /\ ended' = [how |-> "nothing", error |-> Blank]
    /\ UNCHANGED <<life, taking, unwound>>

(* Mutation: the slot passed by its value. *)
EvaluateSlot_Value ==
    /\ pc = "arguments"
    /\ arg = "unread"
    /\ arg' = err
    /\ UNCHANGED <<pc, err, st, life, said, taking, what, ended, raised, unwound>>

(* &err, before the call or after it. *)
EvaluateSlot ==
    /\ pc = "arguments"
    /\ arg = "unread"
    /\ arg' = "&err"
    /\ UNCHANGED <<pc, err, st, life, said, taking, what, ended, raised, unwound>>

(* The engine answers a status and, when it was given somewhere to put it, *)
(* perhaps an account of it.                                               *)
EvaluateCall(status, x, report) ==
    /\ pc = "arguments"
    /\ st = "unread"
    /\ st' = status
    /\ IF x = Null
       THEN UNCHANGED <<err, life, said, raised>>
       ELSE /\ arg # "nullptr"
            /\ life[x] = "unmade"
            /\ err' = x
            /\ raised' = x
            /\ life' = [life EXCEPT ![x] = "live"]
            /\ said' = report
    /\ UNCHANGED <<pc, arg, taking, what, ended, unwound>>

------------------------------------------------------------------------------
(* checked() and Error::take.                                              *)

(* zu_error* err = slot == nullptr ? nullptr : *slot *)
AtSlot == IF arg = "&err" THEN err ELSE IF arg \in EngineErrors THEN arg ELSE Null

Ready == pc = "arguments" /\ st # "unread" /\ arg # "unread"
Good == st \in {"ok", "done"}

Empties == err' = IF arg = "&err" THEN Null ELSE err

(* Mutation: an account that came with a success is dropped. *)
CheckedGood_Drops ==
    /\ Ready
    /\ Good
    /\ Empties
    /\ ended' = [how |-> "value", error |-> Blank]
    /\ pc' = "idle"
    /\ UNCHANGED <<arg, st, life, said, taking, what, raised, unwound>>

(* A good status is no failure, and an account that came with it is freed. *)
CheckedGood ==
    /\ Ready
    /\ Good
    /\ Empties
    /\ life' = IF AtSlot # Null THEN Freed(AtSlot) ELSE life
    /\ ended' = [how |-> "value", error |-> Blank]
    /\ pc' = "idle"
    /\ UNCHANGED <<arg, st, said, taking, what, raised, unwound>>

(* Mutation: every account is freed on the way in, and taken as well. *)
CheckedBad_FreesToo ==
    /\ Ready
    /\ ~Good
    /\ Empties
    /\ life' = IF AtSlot # Null THEN Freed(AtSlot) ELSE life
    /\ taking' = AtSlot
    /\ what' = [Blank EXCEPT !.status = st, !.message = IF AtSlot = Null THEN "header" ELSE ""]
    /\ pc' = IF AtSlot = Null THEN "surface" ELSE "copying"
    /\ UNCHANGED <<arg, st, said, ended, raised, unwound>>

(* A bad one enters Error::take.  Without a handle the call's own name, or *)
(* the words for the status, are the message.                              *)
CheckedBad ==
    /\ Ready
    /\ ~Good
    /\ Empties
    /\ taking' = AtSlot
    /\ what' = [Blank EXCEPT !.status = st, !.message = IF AtSlot = Null THEN "header" ELSE ""]
    /\ pc' = IF AtSlot = Null THEN "surface" ELSE "copying"
    /\ UNCHANGED <<arg, st, life, said, ended, raised, unwound>>

(* Result::notices: a condition the statement carried on through is taken  *)
(* with the status ok.                                                     *)
Notice(x, report) ==
    /\ pc = "idle"
    /\ life[x] = "unmade"
    /\ life' = [life EXCEPT ![x] = "live"]
    /\ said' = report
    /\ raised' = x
    /\ taking' = x
    /\ st' = "ok"
    /\ what' = Blank
    /\ ended' = [how |-> "nothing", error |-> Blank]
    /\ pc' = "copying"
    /\ UNCHANGED <<err, arg, unwound>>

(* The fields are copied while the handle is still there. *)
Copy ==
    /\ pc = "copying"
    /\ what' = [what EXCEPT !.class = said.class,
                            !.message = IF said.words THEN "engine" ELSE "",
                            !.retryable = said.retryable,
                            !.place = said.place]
    /\ pc' = "freeing"
    /\ UNCHANGED <<err, arg, st, life, said, taking, ended, raised, unwound>>

(* One of those copies throws, and nothing owns the handle. *)
CopyThrows ==
    /\ AllocFails
    /\ pc = "copying"
    /\ taking' = Null
    /\ unwound' = unwound \cup {taking}
    /\ ended' = [how |-> "bad_alloc", error |-> Blank]
    /\ pc' = "idle"
    /\ UNCHANGED <<err, arg, st, life, said, what, raised>>

(* Mutation: an account without words leaves the message empty. *)
Release_LeavesEmpty ==
    /\ pc = "freeing"
    /\ life' = Freed(taking)
    /\ taking' = Null
    /\ pc' = "surface"
    /\ UNCHANGED <<err, arg, st, said, what, ended, raised, unwound>>

(* zu_error_free, and a message that is never empty. *)
Release ==
    /\ pc = "freeing"
    /\ life' = Freed(taking)
    /\ taking' = Null
    /\ what' = [what EXCEPT !.message = IF @ = "" THEN "header" ELSE @]
    /\ pc' = "surface"
    /\ UNCHANGED <<err, arg, st, said, ended, raised, unwound>>

------------------------------------------------------------------------------
(* The two spellings.                                                      *)

(* Mutation: the status decides before the class does. *)
Thrown_ByStatus(e) ==
    CASE e.status = "misuse" -> "ProgrammingError"
      [] e.status = "conflict" -> "TransactionError"
      [] e.status = "io" -> "ConnectionError"
      [] e.class = "08" -> "ConnectionError"
      [] e.class = "22" -> "DataError"
      [] e.class \in {"25", "2D", "40"} -> "TransactionError"
      [] e.class = "42" -> "SyntaxError"
      [] OTHER -> "InternalError"

(* What raise() throws: the class decides before the status does. *)
Thrown(e) ==
    CASE e.class = "08" -> "ConnectionError"
      [] e.class = "22" -> "DataError"
      [] e.class \in {"25", "2D", "40"} -> "TransactionError"
      [] e.class = "42" -> "SyntaxError"
      [] OTHER ->
           CASE e.status = "misuse" -> "ProgrammingError"
             [] e.status = "misuse_concurrent" -> "ConcurrentError"
             [] e.status = "misuse_closed" -> "ClosedError"
             [] e.status = "interrupted" -> "InterruptedError"
             [] e.status = "conflict" -> "TransactionError"
             [] e.status = "io" -> "ConnectionError"
             [] OTHER -> "InternalError"

Ends(how) ==
    /\ pc = "surface"
    /\ ended' = [how |-> how, error |-> what]
    /\ pc' = "idle"
    /\ UNCHANGED <<err, arg, st, life, said, taking, what, raised, unwound>>

(* unwrap throws, the try_ spelling answers unexpected, and a notice is    *)
(* one more Error in the vector.                                           *)
Throw == ~Good /\ Ends(Thrown(what))
Answer == ~Good /\ Ends("unexpected")
Note == Good /\ Ends("notice")

------------------------------------------------------------------------------
(* Error::report, by how far its second line is indented.                  *)

Starts(s, i) == i \in DOMAIN s /\ s[i] = "start"

(* The offset after the character at offset b: past its continuations.     *)
After(s, b) == CHOOSE e \in b + 1 .. Len(s) :
                   /\ \A i \in b + 2 .. e : ~Starts(s, i)
                   /\ e = Len(s) \/ Starts(s, e + 1)

(* Mutation: the column counts bytes. *)
caret_Bytes(e) ==
    IF e.place.excerpt = Missing \/ e.place.column = Missing
    THEN {}
    ELSE {Cardinality({k \in 1 .. e.place.column - 1 : k <= Len(e.place.excerpt)})}

(* The walk over characters, which stops at the column or at the end of    *)
(* the excerpt: no caret, or one and the spaces before it.                 *)
caret(e) ==
    LET s == e.place.excerpt
        bytes[k \in Nat] == IF k = 0 THEN 0
                            ELSE IF bytes[k - 1] < Len(s) THEN After(s, bytes[k - 1]) ELSE Len(s)
    IN  IF s = Missing \/ e.place.column = Missing
        THEN {}
        ELSE {Cardinality({k \in 1 .. e.place.column - 1 : bytes[k - 1] < Len(s)})}

------------------------------------------------------------------------------

Next ==
    \/ \E explained \in BOOLEAN : Operation(explained)
    \/ EvaluateSlot
    \/ \E status \in Statuses, x \in EngineErrors \cup {Null}, report \in Reports :
          EvaluateCall(status, x, report)
    \/ CheckedGood \/ CheckedBad
    \/ \E x \in EngineErrors, report \in Reports : Notice(x, report)
    \/ Copy \/ CopyThrows \/ Release
    \/ Throw \/ Answer \/ Note

Spec == Init /\ [][Next]_vars

------------------------------------------------------------------------------

Errs == [status : Statuses, class : Classes \cup {NoClass},
         message : {"", "engine", "header"}, retryable : BOOLEAN,
         place : Places \cup {NoPlace}]

Exceptions == {"ConnectionError", "DataError", "TransactionError", "SyntaxError",
               "ProgrammingError", "ConcurrentError", "ClosedError", "InterruptedError",
               "InternalError"}

(* The types of the variables; no zu_error is freed twice. *)
TypeOK ==
    /\ pc \in {"idle", "arguments", "copying", "freeing", "surface"}
    /\ err \in EngineErrors \cup {Null}
    /\ arg \in {"unread", "nullptr", "&err"} \cup EngineErrors \cup {Null}
    /\ st \in Statuses \cup {"unread"}
    /\ life \in [EngineErrors -> {"unmade", "live", "freed"}]
    /\ said \in Reports
    /\ taking \in EngineErrors \cup {Null}
    /\ what \in Errs
    /\ ended \in [how : {"nothing", "value", "notice", "unexpected", "bad_alloc"} \cup Exceptions,
                  error : Errs]
    /\ raised \in EngineErrors \cup {Null}
    /\ unwound \subseteq EngineErrors

Failed == ended.how \in Exceptions \cup {"unexpected"}
Over == pc = "idle" /\ ended.how # "nothing"

(* "An error that had to be freed by hand would be the one allocation in   *)
(* this header a caller could leak": when an operation is over, a success  *)
(* that came with an account, a failure taken in either order and a notice *)
(* leave no zu_error; a string of Error::take that ran out of memory does. *)
OnlyUnwindingLeaks ==
    pc = "idle" => \A x \in EngineErrors : life[x] = "live" => x \in unwound

(* Whatever the compiler evaluated first, a failure the engine explained   *)
(* reaches the caller with the engine's class, words and retryability; a   *)
(* bad status always reaches the caller, a good one never as a failure,    *)
(* and "a failure a caller can only print" has something to print.         *)
NothingLost ==
    Over =>
        /\ (Failed /\ raised # Null) =>
               /\ ended.error.class = said.class
               /\ ended.error.retryable = said.retryable
               /\ said.words => ended.error.message = "engine"
        /\ ended.how = "value" => Good
        /\ Failed => ~Good
        /\ ended.how \in {"notice", "unexpected"} \cup Exceptions => ended.error.message # ""

Characters(s) == Cardinality({i \in DOMAIN s : s[i] = "start"})

(* "The excerpt with a caret under the column", where "the column counts   *)
(* characters and the excerpt is bytes": whatever way the error took, its  *)
(* report has a caret just when the engine gave an excerpt and a column,   *)
(* with one space for each character before the column, and none past the  *)
(* end of the excerpt.                                                     *)
CaretUnderColumn ==
    (Over /\ ended.how \in Exceptions \cup {"unexpected", "notice"} /\ raised # Null) =>
        LET at == said.place IN
        caret(ended.error) =
            IF at.excerpt = Missing \/ at.column = Missing THEN {}
            ELSE {IF at.column <= Characters(at.excerpt) + 1
                  THEN IF at.column = 0 THEN 0 ELSE at.column - 1
                  ELSE Characters(at.excerpt)}

(* "Catching DataError catches every one of the conditions in class 22",   *)
(* and likewise for the other classes, with whatever status they came.     *)
CaughtByClass ==
    (Over /\ ended.how \in Exceptions) =>
        LET class == ended.error.class IN
        /\ class = "22" <=> ended.how = "DataError"
        /\ class = "42" <=> ended.how = "SyntaxError"
        /\ class = "08" => ended.how = "ConnectionError"
        /\ class \in {"25", "2D", "40"} => ended.how = "TransactionError"
        /\ ended.how = "InterruptedError" => ended.error.status = "interrupted"
==============================================================================
