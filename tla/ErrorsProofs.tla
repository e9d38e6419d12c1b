------------------------------ MODULE ErrorsProofs ------------------------------
(***************************************************************************)
(* The way of a failure to its caller, proved for any number of accounts,  *)
(* any classes, statuses and places, and whatever order the arguments of   *)
(* checked() are evaluated in; and the walk of Error::report over an       *)
(* excerpt of any length.                                                  *)
(***************************************************************************)
EXTENDS Errors, FiniteSetTheorems, TLAPS

(* The account the thread has in hand: in the slot, or inside take(). *)
InHand ==
    CASE pc = "arguments" -> {err} \ {Null}
      [] pc \in {"copying", "freeing"} -> {taking}
      [] OTHER -> {}

(* An account in hand is live, and a live one is in hand or was lost to an *)
(* exception; the slot is only ever passed by its address.                 *)
AccountsOwned ==
    /\ pc \in {"copying", "freeing"} => taking \in EngineErrors
    /\ \A x \in InHand : life[x] = "live"
    /\ \A x \in EngineErrors : life[x] = "live" => x \in InHand \cup unwound
    /\ arg \in {"unread", "nullptr", "&err"}
    /\ pc # "arguments" => err = Null

(* The account in hand is the one this operation raised, and the call can  *)
(* only have put it in a slot it was given.                                *)
HandAgrees ==
    /\ pc = "arguments" => /\ err = raised
                           /\ raised # Null => arg # "nullptr" /\ st # "unread"
    /\ pc \in {"copying", "freeing"} => taking = raised
    /\ pc \notin {"idle", "arguments"} => st # "unread"

(* How far the Error being built has come, and what is told at the end.    *)
Faithful(e) ==
    /\ e.message # ""
    /\ raised # Null => /\ e.class = said.class
                        /\ e.retryable = said.retryable
                        /\ e.place = said.place
                        /\ said.words => e.message = "engine"

ErrorAgrees ==
    /\ pc = "freeing" => /\ what.class = said.class
                         /\ what.retryable = said.retryable
                         /\ what.place = said.place
                         /\ said.words => what.message = "engine"
    /\ pc = "surface" => Faithful(what)

EndAgrees ==
    /\ pc # "idle" => ended.how = "nothing"
    /\ ended.how \in Exceptions \cup {"unexpected", "notice"} => Faithful(ended.error)
    /\ ended.how \in Exceptions \cup {"unexpected"} => ~Good
    /\ ended.how = "value" => Good
    /\ ended.how \in Exceptions => ended.how = Thrown(ended.error)

IInv == TypeOK /\ AccountsOwned /\ HandAgrees /\ ErrorAgrees /\ EndAgrees

(* What raise() throws is one of the exceptions. *)
LEMMA ThrownIsException == \A e : Thrown(e) \in Exceptions
  BY DEF Thrown, Exceptions

LEMMA BlankIsError == Blank \in Errs /\ NoReport \in Reports
  BY StatusAssumption DEF Blank, Errs, NoReport, Reports, NoPlace

LEMMA InitIInv == Init => IInv
<1> SUFFICES ASSUME Init PROVE IInv
  OBVIOUS
<1>1. TypeOK
  BY BlankIsError DEF Init, TypeOK
<1>2. AccountsOwned /\ HandAgrees /\ ErrorAgrees
  BY DEF Init, AccountsOwned, InHand, HandAgrees, ErrorAgrees
<1>3. EndAgrees
  BY DEF Init, EndAgrees, Exceptions
<1> QED BY <1>1, <1>2, <1>3 DEF IInv

------------------------------------------------------------------------------
(* One step, an action at a time.                                          *)

LEMMA StepOperation ==
  ASSUME IInv, NEW explained \in BOOLEAN, Operation(explained) PROVE IInv'
<1> USE DEF Operation, IInv
<1>1. TypeOK'
  BY BlankIsError DEF TypeOK
<1>2. AccountsOwned' /\ HandAgrees' /\ ErrorAgrees'
  BY DEF TypeOK, AccountsOwned, InHand, HandAgrees, ErrorAgrees
<1>3. EndAgrees'
  BY DEF EndAgrees, Exceptions
<1> QED BY <1>1, <1>2, <1>3

LEMMA StepEvaluateSlot ==
  ASSUME IInv, EvaluateSlot PROVE IInv'
<1> USE DEF EvaluateSlot, IInv
<1>1. TypeOK'
  BY DEF TypeOK
<1>2. AccountsOwned' /\ HandAgrees' /\ ErrorAgrees'
  BY DEF TypeOK, AccountsOwned, InHand, HandAgrees, ErrorAgrees
<1>3. EndAgrees'
  BY DEF EndAgrees, Exceptions
<1> QED BY <1>1, <1>2, <1>3

LEMMA StepEvaluateCall ==
  ASSUME IInv, NEW status \in Statuses, NEW x \in EngineErrors \cup {Null}, NEW report \in Reports,
         EvaluateCall(status, x, report)
  PROVE  IInv'
<1> USE ErrorAssumption, StatusAssumption DEF EvaluateCall, IInv
<1>1. TypeOK'
  BY DEF TypeOK
<1>2. AccountsOwned'
  BY DEF TypeOK, AccountsOwned, InHand, HandAgrees
<1>3. HandAgrees' /\ ErrorAgrees'
  BY DEF TypeOK, HandAgrees, ErrorAgrees
<1>4. EndAgrees'
  BY DEF EndAgrees, Exceptions
<1> QED BY <1>1, <1>2, <1>3, <1>4

(* What checked() finds behind its slot is what the call left there. *)
LEMMA SlotHasIt ==
  ASSUME IInv, Ready
  PROVE  AtSlot = err /\ err = raised /\ (err # Null => err \in EngineErrors /\ life[err] = "live")
<1> USE ErrorAssumption DEF IInv, Ready
<1>1. arg \in {"nullptr", "&err"}
  BY DEF AccountsOwned
<1>2. err = raised /\ (raised # Null => arg # "nullptr")
  BY DEF HandAgrees
<1>3. err # Null => err \in EngineErrors /\ life[err] = "live"
  BY DEF AccountsOwned, InHand, TypeOK
<1>4. arg = "nullptr" => err = Null /\ AtSlot = Null
  BY <1>2 DEF AtSlot
<1>5. arg = "&err" => AtSlot = err
  BY DEF AtSlot
<1> QED BY <1>1, <1>2, <1>3, <1>4, <1>5

LEMMA StepCheckedGood ==
  ASSUME IInv, CheckedGood PROVE IInv'
<1> USE DEF CheckedGood, IInv
<1>1. /\ AtSlot = err /\ err = raised /\ (err # Null => err \in EngineErrors /\ life[err] = "live")
      /\ pc = "arguments" /\ Good
  BY SlotHasIt DEF Ready
<1>2. err' = Null
  BY <1>1, SlotHasIt DEF Empties, AccountsOwned, HandAgrees, Ready
<1>3. life' = IF err # Null THEN [life EXCEPT ![err] = "freed"] ELSE life
  BY <1>1 DEF Freed, TypeOK
<1>4. TypeOK'
  BY <1>2, <1>3, BlankIsError DEF TypeOK
<1>5. AccountsOwned'
  BY <1>1, <1>2, <1>3 DEF TypeOK, AccountsOwned, InHand
<1>6. HandAgrees' /\ ErrorAgrees'
  BY DEF HandAgrees, ErrorAgrees
<1>7. EndAgrees'
  BY <1>1 DEF EndAgrees, Exceptions, Good
<1> QED BY <1>4, <1>5, <1>6, <1>7

LEMMA StepCheckedBad ==
  ASSUME IInv, CheckedBad PROVE IInv'
<1> USE DEF CheckedBad, IInv
<1>1. /\ AtSlot = err /\ err = raised /\ (err # Null => err \in EngineErrors /\ life[err] = "live")
      /\ pc = "arguments" /\ st # "unread"
  BY SlotHasIt DEF Ready
<1>2. err' = Null
  BY <1>1, SlotHasIt DEF Empties, AccountsOwned, HandAgrees, Ready
<1>3. /\ what'.status = st /\ what'.message \in {"header", ""} /\ what'.class = NoClass
      /\ what'.message = "header" <=> err = Null
  BY <1>1 DEF Blank
<1>4. TypeOK'
  <2>1. what' \in Errs
    BY <1>1, BlankIsError DEF Errs, Blank, TypeOK
  <2> QED BY <1>1, <1>2, <2>1 DEF TypeOK
<1>5. AccountsOwned'
  BY <1>1, <1>2 DEF TypeOK, AccountsOwned, InHand
<1>6. HandAgrees' /\ ErrorAgrees'
  BY <1>1, <1>3 DEF HandAgrees, ErrorAgrees, Faithful
<1>7. EndAgrees'
  BY <1>1 DEF EndAgrees, Exceptions, Good, Faithful
<1> QED BY <1>4, <1>5, <1>6, <1>7

LEMMA StepNotice ==
  ASSUME IInv, NEW x \in EngineErrors, NEW report \in Reports, Notice(x, report) PROVE IInv'
<1> USE ErrorAssumption, StatusAssumption DEF Notice, IInv
<1>1. TypeOK'
  BY BlankIsError DEF TypeOK
<1>2. AccountsOwned'
  BY DEF TypeOK, AccountsOwned, InHand
<1>3. HandAgrees' /\ ErrorAgrees' /\ EndAgrees'
  BY DEF HandAgrees, ErrorAgrees, EndAgrees, Exceptions
<1> QED BY <1>1, <1>2, <1>3

LEMMA StepCopy ==
  ASSUME IInv, Copy PROVE IInv'
<1> USE DEF Copy, IInv
<1>a. what \in Errs /\ said \in Reports
  BY DEF TypeOK
<1>b. what' \in Errs
  BY <1>a DEF Errs, Reports
<1>1. TypeOK'
  BY <1>b DEF TypeOK
<1>2. AccountsOwned'
  BY DEF AccountsOwned, InHand
<1>3. HandAgrees' /\ EndAgrees'
  BY DEF HandAgrees, EndAgrees, Exceptions
<1>4. ErrorAgrees'
  BY DEF ErrorAgrees, TypeOK, Errs
<1> QED BY <1>1, <1>2, <1>3, <1>4

LEMMA StepCopyThrows ==
  ASSUME IInv, CopyThrows PROVE IInv'
<1> USE DEF CopyThrows, IInv
<1>1. taking \in EngineErrors
  BY DEF AccountsOwned
<1>2. TypeOK'
  BY <1>1, BlankIsError DEF TypeOK
<1>3. AccountsOwned'
  BY <1>1 DEF AccountsOwned, InHand
<1>4. HandAgrees' /\ ErrorAgrees' /\ EndAgrees'
  BY DEF HandAgrees, ErrorAgrees, EndAgrees, Exceptions
<1> QED BY <1>2, <1>3, <1>4

LEMMA StepRelease ==
  ASSUME IInv, Release PROVE IInv'
<1> USE DEF Release, IInv
<1>1. taking \in EngineErrors /\ life[taking] = "live"
  BY DEF AccountsOwned, InHand
<1>2. life' = [life EXCEPT ![taking] = "freed"]
  BY <1>1 DEF Freed, TypeOK
<1>a. what \in Errs
  BY DEF TypeOK
<1>b. what' \in Errs
  BY <1>a DEF Errs
<1>3. TypeOK'
  BY <1>2, <1>b DEF TypeOK
<1>4. AccountsOwned'
  BY <1>1, <1>2 DEF AccountsOwned, InHand, TypeOK
<1>5. HandAgrees' /\ EndAgrees'
  BY DEF HandAgrees, EndAgrees, Exceptions
<1>6. ErrorAgrees'
  BY DEF ErrorAgrees, Faithful, TypeOK, Errs
<1> QED BY <1>3, <1>4, <1>5, <1>6

(* The three ways an Error is told. *)
LEMMA StepEnds ==
  ASSUME IInv, Throw \/ Answer \/ Note PROVE IInv'
<1>1. PICK how : /\ Ends(how)
                 /\ \/ how = Thrown(what) /\ ~Good
                    \/ how = "unexpected" /\ ~Good
                    \/ how = "notice" /\ Good
  BY DEF Throw, Answer, Note
<1> USE DEF IInv
<1>2. /\ pc = "surface" /\ pc' = "idle" /\ ended' = [how |-> how, error |-> what]
      /\ UNCHANGED <<err, arg, st, life, said, taking, what, raised, unwound>>
  BY <1>1 DEF Ends
<1>3. Thrown(what) \in Exceptions
  BY ThrownIsException
<1>4. TypeOK'
  BY <1>1, <1>2, <1>3 DEF TypeOK
<1>5. AccountsOwned' /\ HandAgrees' /\ ErrorAgrees'
  BY <1>2 DEF AccountsOwned, InHand, HandAgrees, ErrorAgrees
<1>6. Faithful(ended.error)'
  BY <1>2 DEF ErrorAgrees, Faithful
<1>7. how \in Exceptions => how = Thrown(what) /\ ~Good
  BY <1>1 DEF Exceptions
<1>8. how # "value" /\ (how \in Exceptions \cup {"unexpected"} => ~Good)
  BY <1>1, <1>3, <1>7 DEF Exceptions
<1>9. EndAgrees'
  BY <1>2, <1>6, <1>7, <1>8 DEF EndAgrees, Good, Thrown
<1> QED BY <1>4, <1>5, <1>9

LEMMA StepIInv == IInv /\ [Next]_vars => IInv'
<1> SUFFICES ASSUME IInv, [Next]_vars PROVE IInv'
  OBVIOUS
<1>1. CASE UNCHANGED vars
  <2>1. TypeOK'
    BY <1>1 DEF vars, IInv, TypeOK
  <2>2. AccountsOwned' /\ HandAgrees'
    BY <1>1 DEF vars, IInv, AccountsOwned, InHand, HandAgrees
  <2>3. ErrorAgrees'
    BY <1>1 DEF vars, IInv, ErrorAgrees, Faithful
  <2>4. EndAgrees'
    BY <1>1 DEF vars, IInv, EndAgrees, Faithful, Good, Thrown
  <2> QED BY <2>1, <2>2, <2>3, <2>4 DEF IInv
<1> QED
  BY <1>1, StepOperation, StepEvaluateSlot, StepEvaluateCall, StepCheckedGood, StepCheckedBad,
     StepNotice, StepCopy, StepCopyThrows, StepRelease, StepEnds DEF Next

LEMMA Always == Spec => []IInv
  BY InitIInv, StepIInv, PTL DEF Spec

------------------------------------------------------------------------------

(* The types of the variables; no zu_error is freed twice. *)
THEOREM TypeCorrect == Spec => []TypeOK
  BY Always, PTL DEF IInv

(* Nothing but a copy that throws inside take() leaves an account behind.  *)
THEOREM OnlyThrowingCopiesLeak == Spec => []OnlyUnwindingLeaks
<1>1. IInv => OnlyUnwindingLeaks
  BY DEF IInv, AccountsOwned, InHand, OnlyUnwindingLeaks
<1> QED BY <1>1, Always, PTL

(* What the engine said of a failure is what the caller is told, through   *)
(* either spelling and either order of evaluation.                         *)
THEOREM FailuresAreToldWhole == Spec => []NothingLost
<1>1. IInv => NothingLost
  BY DEF IInv, EndAgrees, Faithful, NothingLost, Over, Failed
<1> QED BY <1>1, Always, PTL

(* The class of a code decides which exception it is, before the status.   *)
THEOREM ClassesAreCaught == Spec => []CaughtByClass
<1>1. ASSUME NEW e
      PROVE  /\ e.class = "22" <=> Thrown(e) = "DataError"
             /\ e.class = "42" <=> Thrown(e) = "SyntaxError"
             /\ e.class = "08" => Thrown(e) = "ConnectionError"
             /\ e.class \in {"25", "2D", "40"} => Thrown(e) = "TransactionError"
             /\ Thrown(e) = "InterruptedError" => e.status = "interrupted"
  BY DEF Thrown
<1>2. IInv => CaughtByClass
  BY <1>1 DEF IInv, EndAgrees, CaughtByClass, Over
<1> QED BY <1>2, Always, PTL

------------------------------------------------------------------------------
(* The walk of Error::report.  Rank counts the characters that start among *)
(* the first i bytes; after k of them the walk is at the one offset that   *)
(* parts the bytes of rank up to k from the others (Edge), so that what    *)
(* the recursive walk comes to is known without running it.                *)

Excerpts == {s \in Seq({"start", "continuation"}) : s # <<>> => s[1] = "start"}

StartsIn(s, i) == {j \in 1 .. i : s[j] = "start"}
Rank(s, i) == Cardinality(StartsIn(s, i))

Edge(s, k, e) ==
    /\ e \in 0 .. Len(s)
    /\ \A i \in 1 .. Len(s) : i <= e <=> Rank(s, i) <= k

(* A set of numbers that has 0 and goes on is all of them. *)
LEMMA InductiveSet ==
  ASSUME NEW T, 0 \in T, \A n \in T : n \in Nat => n + 1 \in T
  PROVE  Nat \subseteq T
<1> SUFFICES ASSUME Nat \ T # {} PROVE FALSE
  OBVIOUS
<1>1. PICK n \in Nat \ T : \A m \in Nat \ T : ~(<<m, n>> \in OpToRel(<, Nat))
  BY NatLessThanWellFounded, WFMin, Zenon
<1>2. n # 0 /\ n - 1 \in Nat
  OBVIOUS
<1>3. n - 1 \notin T
  BY <1>2
<1>4. <<n - 1, n>> \in OpToRel(<, Nat)
  BY <1>2 DEF OpToRel
<1> QED BY <1>1, <1>2, <1>3, <1>4

(* A set of numbers has a least one. *)
LEMMA LeastNumber ==
  ASSUME NEW S, S \subseteq Nat, S # {}
  PROVE  \E i \in S : \A j \in S : i <= j
<1>1. PICK n \in S : \A m \in S : ~(<<m, n>> \in OpToRel(<, Nat))
  BY NatLessThanWellFounded, WFMin, Zenon
<1>2. \A m \in S : ~(m < n)
  BY <1>1 DEF OpToRel
<1> QED BY <1>2

(* Ranks are numbers, and grow with the offset; the first byte has one. *)
LEMMA Ranks ==
  ASSUME NEW s \in Excerpts
  PROVE  /\ \A i \in Nat : Rank(s, i) \in Nat /\ IsFiniteSet(StartsIn(s, i))
         /\ Rank(s, 0) = 0
         /\ \A i \in Nat : Rank(s, i + 1) = Rank(s, i) + IF s[i + 1] = "start" THEN 1 ELSE 0
         /\ \A i, j \in Nat : i <= j => Rank(s, i) <= Rank(s, j)
<1>1. ASSUME NEW i \in Nat PROVE Rank(s, i) \in Nat /\ IsFiniteSet(StartsIn(s, i))
  <2>1. IsFiniteSet(1 .. i)
    BY FS_Interval
  <2>2. StartsIn(s, i) \subseteq 1 .. i
    BY DEF StartsIn
  <2>3. IsFiniteSet(StartsIn(s, i))
    BY <2>1, <2>2, FS_Subset
  <2> QED BY <2>3, FS_CardinalityType DEF Rank
<1>2. Rank(s, 0) = 0
  <2>1. StartsIn(s, 0) = {}
    BY DEF StartsIn
  <2> QED BY <2>1, FS_EmptySet DEF Rank
<1>3. ASSUME NEW i \in Nat
      PROVE  Rank(s, i + 1) = Rank(s, i) + IF s[i + 1] = "start" THEN 1 ELSE 0
  <2>1. CASE s[i + 1] = "start"
    <3>1. StartsIn(s, i + 1) = StartsIn(s, i) \cup {i + 1} /\ i + 1 \notin StartsIn(s, i)
      BY <2>1 DEF StartsIn
    <3>2. Cardinality(StartsIn(s, i) \cup {i + 1}) = Cardinality(StartsIn(s, i)) + 1
      BY <1>1, <3>1, FS_AddElement
    <3> QED BY <2>1, <3>1, <3>2 DEF Rank
  <2>2. CASE s[i + 1] # "start"
    <3>1. StartsIn(s, i + 1) = StartsIn(s, i)
      BY <2>2 DEF StartsIn
    <3> QED BY <1>1, <2>2, <3>1 DEF Rank
  <2> QED BY <2>1, <2>2
<1>4. ASSUME NEW i \in Nat, NEW j \in Nat, i <= j PROVE Rank(s, i) <= Rank(s, j)
  <2>1. StartsIn(s, i) \subseteq StartsIn(s, j)
    BY <1>4 DEF StartsIn
  <2> QED BY <1>1, <2>1, FS_Subset DEF Rank
<1> QED BY <1>1, <1>2, <1>3, <1>4

(* Before the first character the walk is at the first byte. *)
LEMMA FirstEdge == ASSUME NEW s \in Excerpts PROVE Edge(s, 0, 0)
<1>1. Len(s) \in Nat
  BY DEF Excerpts
<1>2. ASSUME NEW i \in 1 .. Len(s) PROVE ~(Rank(s, i) <= 0)
  <2>1. s[0 + 1] = "start"
    BY <1>2 DEF Excerpts
  <2>0. Rank(s, 0 + 1) = Rank(s, 0) + (IF s[0 + 1] = "start" THEN 1 ELSE 0) /\ Rank(s, 0) = 0
    BY Ranks, Zenon
  <2>2. Rank(s, 1) = 1
    BY <2>1, <2>0
  <2>3. Rank(s, 1) <= Rank(s, i) /\ Rank(s, i) \in Nat
    BY <1>1, <1>2, Ranks
  <2> QED BY <2>2, <2>3
<1> QED BY <1>1, <1>2 DEF Edge

(* There is one edge after every character, *)
LEMMA OneEdge ==
  ASSUME NEW s \in Excerpts, NEW k \in Nat, NEW d, NEW e, Edge(s, k, d), Edge(s, k, e)
  PROVE  d = e
<1>1. Len(s) \in Nat
  BY DEF Excerpts
<1>2. ASSUME NEW a, NEW b, Edge(s, k, a), Edge(s, k, b) PROVE ~(a < b)
  <2> SUFFICES ASSUME a < b PROVE FALSE
    OBVIOUS
  <2>1. a \in Nat /\ b \in 1 .. Len(s)
    BY <1>1, <1>2 DEF Edge
  <2>2. Rank(s, b) <= k
    BY <1>2, <2>1 DEF Edge
  <2> QED BY <1>2, <2>1, <2>2 DEF Edge
<1>3. d \in Nat /\ e \in Nat
  BY <1>1 DEF Edge
<1> QED BY <1>2, <1>3

(* and past the last one it stays at the end. *)
LEMMA LastEdge ==
  ASSUME NEW s \in Excerpts, NEW k \in Nat, Edge(s, k, Len(s))
  PROVE  Edge(s, k + 1, Len(s))
<1>1. Len(s) \in Nat
  BY DEF Excerpts
<1>2. ASSUME NEW i \in 1 .. Len(s) PROVE Rank(s, i) <= k + 1
  <2>1. Rank(s, i) <= k /\ Rank(s, i) \in Nat
    BY <1>1, <1>2, Ranks DEF Edge
  <2> QED BY <2>1
<1> QED BY <1>1, <1>2 DEF Edge

(* One character on: After() goes from edge to edge. *)
LEMMA NextEdge ==
  ASSUME NEW s \in Excerpts, NEW k \in Nat, NEW b, Edge(s, k, b), b < Len(s)
  PROVE  Edge(s, k + 1, After(s, b))
<1>1. Len(s) \in Nat /\ DOMAIN s = 1 .. Len(s) /\ b \in Nat /\ b + 1 \in 1 .. Len(s)
  BY DEF Excerpts, Edge
<1> DEFINE Stop(e) == /\ \A i \in b + 2 .. e : ~Starts(s, i)
                      /\ e = Len(s) \/ Starts(s, e + 1)
<1>2. \E e \in b + 1 .. Len(s) : Stop(e)
  <2> DEFINE Later == {i \in b + 2 .. Len(s) : Starts(s, i)}
  <2>1. CASE Later = {}
    <3>1. Stop(Len(s)) /\ Len(s) \in b + 1 .. Len(s)
      BY <1>1, <2>1
    <3> QED BY <3>1
  <2>2. CASE Later # {}
    <3>1. Later \subseteq Nat
      BY <1>1
    <3>2. PICK i \in Later : \A j \in Later : i <= j
      BY <2>2, <3>1, LeastNumber, Zenon
    <3>3. i \in Nat /\ i \in b + 2 .. Len(s) /\ Starts(s, i)
      BY <3>1, <3>2
    <3>4. \A j \in b + 2 .. i - 1 : ~Starts(s, j)
      BY <1>1, <3>2, <3>3
    <3>5. Stop(i - 1) /\ i - 1 \in b + 1 .. Len(s)
      BY <1>1, <3>3, <3>4
    <3> QED BY <3>5
  <2> QED BY <2>1, <2>2
<1>3. PICK e \in b + 1 .. Len(s) : e = After(s, b) /\ Stop(e)
  BY <1>2 DEF After
<1>a. e \in Nat /\ b + 1 <= e /\ e <= Len(s)
  BY <1>1, <1>3
<1>4. Rank(s, b + 1) = k + 1
  <2>1. Rank(s, b + 1) = Rank(s, b) + (IF s[b + 1] = "start" THEN 1 ELSE 0)
    BY <1>1, Ranks, Zenon
  <2>2. Rank(s, b) \in Nat
    BY <1>1, Ranks
  <2>3. ~(Rank(s, b + 1) <= k)
    BY <1>1 DEF Edge
  <2>4. Rank(s, b) <= k
    <3>1. CASE b = 0
      BY <3>1, Ranks
    <3>2. CASE b # 0
      BY <1>1, <3>2 DEF Edge
    <3> QED BY <3>1, <3>2
  <2> QED BY <2>1, <2>2, <2>3, <2>4
<1>5. ASSUME NEW i \in 1 .. Len(s), i <= e PROVE Rank(s, i) <= k + 1
  <2>1. CASE i <= b + 1
    BY <1>1, <1>4, <2>1, Ranks
  <2>2. CASE b + 1 < i
    <3>1. \A j \in b + 2 .. i : s[j] # "start"
      BY <1>1, <1>3, <1>a, <1>5 DEF Starts
    <3>2. StartsIn(s, i) = StartsIn(s, b + 1)
      BY <1>1, <2>2, <3>1 DEF StartsIn
    <3> QED BY <1>4, <3>2 DEF Rank
  <2> QED BY <1>1, <2>1, <2>2
<1>6. ASSUME NEW i \in 1 .. Len(s), e < i PROVE ~(Rank(s, i) <= k + 1)
  <2>0. i \in Nat /\ i <= Len(s) /\ Len(s) \in Nat
    BY <1>1
  <2>1. e \in Nat /\ e + 1 <= i /\ e # Len(s)
    BY <1>a, <1>6, <2>0
  <2>2. s[e + 1] = "start"
    BY <1>3, <2>1 DEF Starts
  <2>3. Rank(s, e + 1) = Rank(s, e) + (IF s[e + 1] = "start" THEN 1 ELSE 0)
    BY <2>1, Ranks, Zenon
  <2>4. Rank(s, b + 1) <= Rank(s, e) /\ Rank(s, e) \in Nat
    <3>1. b + 1 \in Nat /\ b + 1 <= e
      BY <1>1, <1>a
    <3> QED BY <1>a, <3>1, Ranks
  <2>5. Rank(s, e + 1) <= Rank(s, i) /\ Rank(s, i) \in Nat
    BY <2>1, Ranks
  <2> QED BY <1>4, <2>2, <2>3, <2>4, <2>5
<1> QED BY <1>1, <1>3, <1>a, <1>5, <1>6 DEF Edge

(* The walk has bytes left just while it has characters left. *)
LEMMA EdgeLeft ==
  ASSUME NEW s \in Excerpts, NEW k \in Nat, NEW e, Edge(s, k, e)
  PROVE  Characters(s) \in Nat /\ (e < Len(s) <=> k < Characters(s))
<1>1. Len(s) \in Nat /\ DOMAIN s = 1 .. Len(s) /\ e \in Nat
  BY DEF Excerpts, Edge
<1>2. Characters(s) = Rank(s, Len(s)) /\ Rank(s, Len(s)) \in Nat
  BY <1>1, Ranks DEF Characters, Rank, StartsIn
<1>3. CASE Len(s) = 0
  BY <1>1, <1>2, <1>3, Ranks DEF Edge
<1>4. CASE Len(s) # 0
  <2>1. Len(s) <= e <=> Rank(s, Len(s)) <= k
    BY <1>1, <1>4 DEF Edge
  <2> QED BY <1>1, <1>2, <2>1
<1> QED BY <1>3, <1>4

(* The walk as the code does it, and the offsets it comes to. *)
Walk(s, f) ==
    f = [k \in Nat |-> IF k = 0 THEN 0
                       ELSE IF f[k - 1] < Len(s) THEN After(s, f[k - 1]) ELSE Len(s)]

LEMMA WalkIsEdges ==
  ASSUME NEW s \in Excerpts, NEW f, Walk(s, f)
  PROVE  \A k \in Nat : Edge(s, k, f[k])
<1> DEFINE T == {k \in Nat : Edge(s, k, f[k])}
<1>1. 0 \in T
  BY FirstEdge DEF Walk
<1>2. ASSUME NEW k \in T PROVE k + 1 \in T
  <2>1. f[k + 1] = IF f[k] < Len(s) THEN After(s, f[k]) ELSE Len(s)
    BY DEF Walk
  <2>2. f[k] \in Nat /\ f[k] <= Len(s) /\ Len(s) \in Nat
    BY DEF Edge, Excerpts
  <2>3. CASE f[k] < Len(s)
    BY <2>1, <2>3, NextEdge
  <2>4. CASE f[k] = Len(s)
    BY <2>1, <2>2, <2>4, LastEdge
  <2> QED BY <2>2, <2>3, <2>4
<1>3. Nat \subseteq T
  BY <1>1, <1>2, InductiveSet, Zenon
<1> QED BY <1>3

LEMMA WalkExists ==
  ASSUME NEW s \in Excerpts
  PROVE  \E f : Walk(s, f)
<1> DEFINE T == {k \in Nat : \E e : Edge(s, k, e)}
           f == [k \in Nat |-> CHOOSE e : Edge(s, k, e)]
<1>1. 0 \in T
  BY FirstEdge
<1>2. ASSUME NEW k \in T PROVE k + 1 \in T
  <2>1. PICK e : Edge(s, k, e)
    OBVIOUS
  <2>2. e \in Nat /\ e <= Len(s) /\ Len(s) \in Nat
    BY <2>1 DEF Edge, Excerpts
  <2>3. CASE e < Len(s)
    BY <2>1, <2>3, NextEdge
  <2>4. CASE e = Len(s)
    BY <2>1, <2>4, LastEdge
  <2> QED BY <2>2, <2>3, <2>4
<1>3. Nat \subseteq T
  BY <1>1, <1>2, InductiveSet, Zenon
<1>4. \A k \in Nat : Edge(s, k, f[k])
  BY <1>3
<1> HIDE DEF f
<1>5. ASSUME NEW k \in Nat
      PROVE  f[k] = IF k = 0 THEN 0
                    ELSE IF f[k - 1] < Len(s) THEN After(s, f[k - 1]) ELSE Len(s)
  <2>1. CASE k = 0
    BY <1>4, <2>1, FirstEdge, OneEdge
  <2>2. CASE k # 0
    <3> DEFINE j == k - 1
    <3>1. j \in Nat /\ k = j + 1
      BY <2>2
    <3> HIDE DEF j
    <3>2. Edge(s, j, f[j]) /\ Edge(s, j + 1, f[k])
      BY <1>4, <3>1
    <3>3. f[j] \in Nat /\ f[j] <= Len(s) /\ Len(s) \in Nat
      BY <3>2 DEF Edge, Excerpts
    <3>4. CASE f[j] < Len(s)
      <4>1. Edge(s, j + 1, After(s, f[j]))
        BY <3>1, <3>2, <3>4, NextEdge
      <4>2. f[k] = After(s, f[j])
        BY <3>1, <3>2, <4>1, OneEdge
      <4> QED BY <2>2, <3>4, <4>2 DEF j
    <3>5. CASE f[j] = Len(s)
      <4>1. Edge(s, j + 1, Len(s))
        BY <3>1, <3>2, <3>5, LastEdge
      <4>2. f[k] = Len(s)
        BY <3>1, <3>2, <4>1, OneEdge
      <4> QED BY <2>2, <3>3, <3>5, <4>2 DEF j
    <3> QED BY <3>3, <3>4, <3>5
  <2> QED BY <2>1, <2>2
<1>6. Walk(s, f)
  <2>1. f = [k \in Nat |-> f[k]]
    BY DEF f
  <2> QED BY <1>5, <2>1 DEF Walk
<1> QED BY <1>6

(* The spaces before the caret: the characters before the column, as far   *)
(* as there are any.                                                       *)
LEMMA CaretCounts ==
  ASSUME NEW e, e.place.excerpt \in Excerpts, e.place.column \in Nat,
         e.place.excerpt # Missing, e.place.column # Missing
  PROVE  LET s == e.place.excerpt
             column == e.place.column
         IN  caret(e) = {IF column <= Characters(s) + 1
                         THEN IF column = 0 THEN 0 ELSE column - 1
                         ELSE Characters(s)}
<1> DEFINE s == e.place.excerpt
           column == e.place.column
           f == CHOOSE g : Walk(s, g)
           before == {k \in 1 .. column - 1 : f[k - 1] < Len(s)}
<1>1. caret(e) = {Cardinality(before)}
  BY DEF caret, Walk
<1>2. s \in Excerpts /\ column \in Nat
  OBVIOUS
<1> HIDE DEF s, column
<1>3. Walk(s, f)
  BY <1>2, WalkExists
<1> HIDE DEF f
<1>4. Characters(s) \in Nat
  BY <1>2, FirstEdge, EdgeLeft
<1>5. ASSUME NEW k \in 1 .. column - 1 PROVE f[k - 1] < Len(s) <=> k <= Characters(s)
  <2>1. k - 1 \in Nat
    BY <1>2
  <2>2. Edge(s, k - 1, f[k - 1])
    BY <1>2, <1>3, <2>1, WalkIsEdges
  <2>3. f[k - 1] < Len(s) <=> k - 1 < Characters(s)
    BY <1>2, <2>1, <2>2, EdgeLeft
  <2> QED BY <1>2, <1>4, <2>3
<1> DEFINE n == IF column <= Characters(s) + 1
                THEN IF column = 0 THEN 0 ELSE column - 1
                ELSE Characters(s)
<1>6. n \in Nat /\ before = 1 .. n
  BY <1>2, <1>4, <1>5
<1>7. Cardinality(1 .. n) = n
  <2>1. n \in Nat
    BY <1>6
  <2> HIDE DEF n
  <2>2. Cardinality(1 .. n) = IF 1 > n THEN 0 ELSE n - 1 + 1
    BY <2>1, FS_Interval
  <2> QED BY <2>1, <2>2
<1> QED BY <1>1, <1>6, <1>7 DEF s, column

(* However an error came to its caller, its report has the caret under the *)
(* column, for every excerpt of whole characters.                          *)
THEOREM CaretsAreUnderColumns == Spec => []CaretUnderColumn
<1>1. IInv => CaretUnderColumn
  <2> SUFFICES ASSUME IInv, Over, ended.how \in Exceptions \cup {"unexpected", "notice"}, raised # Null
               PROVE  LET at == said.place IN
                      caret(ended.error) =
                          IF at.excerpt = Missing \/ at.column = Missing THEN {}
                          ELSE {IF at.column <= Characters(at.excerpt) + 1
                                THEN IF at.column = 0 THEN 0 ELSE at.column - 1
                                ELSE Characters(at.excerpt)}
    BY DEF CaretUnderColumn
  <2> DEFINE at == said.place
             e == ended.error
  <2>1. e.place = at
    BY DEF IInv, EndAgrees, Faithful
  <2>2. CASE at.excerpt = Missing \/ at.column = Missing
    <3>1. caret(e) = {}
      BY <2>1, <2>2 DEF caret
    <3> QED BY <2>2, <3>1
  <2>3. CASE at.excerpt # Missing /\ at.column # Missing
    <3>1. at \in Places
      BY <2>3 DEF IInv, TypeOK, Reports, NoPlace
    <3>2. at.excerpt \in Excerpts /\ at.column \in Nat
      BY <2>3, <3>1, PlacesAssumption DEF Excerpts
    <3> HIDE DEF at, e
    <3>3. caret(e) = {IF at.column <= Characters(at.excerpt) + 1
                      THEN IF at.column = 0 THEN 0 ELSE at.column - 1
                      ELSE Characters(at.excerpt)}
      BY <2>1, <2>3, <3>2, CaretCounts
    <3> QED BY <2>3, <3>3 DEF at, e
  <2> QED BY <2>2, <2>3
<1> QED BY <1>1, Always, PTL
================================================================================
