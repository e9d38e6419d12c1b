# zu.hpp in TLA+

`include/zu.hpp` is a C++20 header over the C API of the zu graph engine. It holds no data and takes
no lock. What it adds, and what can be wrong with it, is ownership (who frees what, once), order
(what is told to the engine before what is freed), and the faithfulness of an answer (a failure
keeps its explanation, a narrowed number keeps its value, a load happens or does not). These modules
model that, TLC checks them on small instances, and TLAPS proves the central ones for every size.

The engine itself is not in the repository. It appears here as far as the header, its tests
(`test/misuse.c`, `test/threads.c`, `test/test_*.cpp`) and its comments say what it does; every
such definition is listed as external in `PROJECT.json`.

## Inventory

| component | state | operations | what is hard | what makes it correct |
|---|---|---|---|---|
| `detail::Handle<T, Free>` | a pointer | construct, move, assign, `release`, `reset`, destroy | self-assignment, overwriting, release on a failing path | every engine object is ended once, by one owner |
| `Connection` | handle, `Watch` | open, connect, duplicate, move, query, prepare, begin/commit/rollback, interrupt, on_progress, register | moves while guards and callbacks hold addresses; another thread's interrupt | the engine and the object agree on the watcher; a stop is delivered and not kept |
| `Transaction` | pointer to a `Connection` | transaction(), move, assign, commit, rollback, destroy | exceptions halfway; the body ends the transaction itself; an end that fails | the guard ends its own transaction, always, and no other |
| errors: `checked`, `Error::take`, `raise`, `Outcome`, `report` | one `zu_error` per call | every call of the header | unspecified order of argument evaluation; an exception inside `take`; columns of characters over bytes | nothing the engine said is lost; no `zu_error` is left; the caret is under its column |
| `Result`, `Row`, `Value` | handle, name cache | typed reads, columns, chunks, names, Arrow export | numeric limits, nulls, borrowed views, a walk refused part way, an export that consumes | what is answered is the cell's value |
| `Frame` | handle; a `std::function` on the heap owned by the engine | create, columns, register, unregister, release callback | a frame unregistered under its reader; a callback on another thread after everything else is gone | memory is there while read, and given back |
| `Appender` | handle; engine: partial row, buffer | append, end_row, row, flush, discard, close, destroy | refused values, half rows, writing destructor | rows arrive whole, counted, once |
| `Loader` | handle; engine: table, columns, edges; one file | create, table, columns, edges, finish | calls out of order, lengths that differ, two loaders for one path, a loader that moves or goes | a load happens or does not, and `finish` says which |
| `Statement` | handle; engine: bindings | prepare, bind, try_bind, bind_null, execute | which overload an argument goes to; bindings that survive an execution | what was bound comes back as it was meant |
| `Decimal`, `Temporal` | two 64-bit halves and a scale | of, unscaled64, digits, as_double, to_string | sign, carry, boundary of 64 bits | the number is the one that was stored |
| `Database`, `Config` | handle | open, create, memory, connect | -- | a `Handle` |

Components interact in four ways. Every wrapper is a `Handle`. A `Transaction` and a running
callback hold *addresses* into a `Connection` (the object, and its `Watch`), so moves matter. Every
call goes through `checked` and one `Outcome`. The engine calls back on threads of its own: the
progress trampoline while a statement runs, the release trampoline after the last reader.

`PROJECT.json` lists the hazards, each at its line.

## Modules

| module | models | instances |
|---|---|---|
| `Lifetimes` | the abstract promise: made once, ended at most once, by a free or a hand-over | |
| `Handles` | `Handle<T, Free>` (889-922) | implements `Lifetimes` (`PromiseSpec`) |
| `Transactions` | `Connection` moves and ends, `Transaction` (3419-3506) | `Conn == INSTANCE Handles` |
| `Progress` | watcher, trampoline, interrupt (3087-3324) | `Conn == INSTANCE Handles` |
| `Frames` | `Frame` and its release callback (2582-2817) | `Frame == INSTANCE Handles` |
| `Appenders` | `Appender` (2115-2352) | `App == INSTANCE Handles` |
| `WholeLoads` | the abstract promise of a load: nothing, then one whole table, for good | |
| `Loads` | `Loader` (2354-2580) | `Load == INSTANCE Handles`; implements `WholeLoads` (`HappensOrNot`) |
| `Bulk` | a load, then the appenders of the table it left | extends `Appenders`, `Loader == INSTANCE Loads` |
| `Errors` | `checked`, `Error::take`, both spellings, notices, the caret (500-985) | |
| `Reads` | `Row::get<T>` for every `T`, plain and optional (1902-1953) | |
| `Parameters` | `Statement`: bind, try_bind, execute, prepare (1957-2110) | extends `Reads` |
| `Results` | `Result`: the names kept and the Arrow export (1376-1444, 1747-1755, 1874-1876, 3526-3554) | `Res == INSTANCE Handles` |
| `Decimals` | `Decimal` and its digits (338-455, 3597-3626, 3761-3784) | |
| `Values` | parameters, reads and Decimals composed | extends `Parameters`, `Decimals` |
| `HandlesProofs`, `TransactionsProofs`, `ProgressProofs`, `FramesProofs`, `BulkProofs`, `ErrorsProofs`, `ResultsProofs`, `ValuesProofs` | theorems | |
| `MC*` | small instances | |

A variable is a member of the class or a fact about the engine. Variables marked *history* record
what happened, for a property to speak of it, and no guard reads them except to name things
freshly. An action is one member function, with every call it makes: `Assign` of `Progress` is
`Connection::operator=`, with the clearing of the target's watcher, the free of its `Watch`, the
hand-over of both members and the close of the old handle. Operators named `X_How` after an action
`X` are the same action with one plausible mistake (a dropped test, a swapped order, a missing
free); they are not part of any specification and are there to show that a property would notice.

**Handles.** An object is a place with a lifetime. Freeing what is not live makes an engine object
`"corrupt"`, which is not in `EngineStates`, so a double free breaks the type invariant. The
other modules use the actions of `Handles` on their own objects, so each action of `Transactions`
or `Progress` that is a member of `Connection` is a conjunction of an action of `Handles` and of
what it does besides.

**Transactions.** The guard's `conn_` names a Connection *object*; the transaction is on the engine
connection the object holds. `commit` may succeed, lose (nothing kept), or fail and leave it
open (`faulted`); the same for `rollback`. A program may do anything; the history variable `orderly`
remembers whether it moved a guarded Connection, or ended a guarded transaction by a bare call, and
the properties that hold only for the documented use say `orderly =>`. No guard outlives its
Connection object, which would be a dangling pointer in the program.

**Progress.** A `Watch` address may be used again after it is freed. The callback is entered by the
engine with the user data the statement started with, and answers yes, no, or throws. `Refuses`
says whether the engine refuses a new arrangement while a statement runs.

**Errors.** The arguments of `checked` are two steps in either order. The nine copies of
`Error::take` are one step that may throw. An excerpt is a sequence of the bytes that start a
character and the bytes that do not, and `caret` is the place `report` marks.

**Frames.** `user` is the program's own share of the buffers, `held` the share inside the
`std::function`; the memory is there while either holds it. `reading` is what the statement on each
connection started with. A frame may be registered and unregistered while that statement runs: the
header makes the call and does not wait, and 2586-2588 says that the buffers are the engine's until
the last reader is gone, "and not at the unregister that preceded it". So a reader outlives the
registration it started from, the Frame object and the program's share, and `Done` is what the
engine waits for. Should an engine refuse those calls while a statement runs, they change nothing,
which every behaviour allows. A connection is not destroyed by a program that is inside of it.

**Appenders.** The program mishandles failures in every way the API lets it: it unwinds, ignores a
refusal and carries on, or abandons a row between two values. A caller gives a row `Width` values
before it asks for its end.

**Loads.** A column is a name and how many values it was given; an edge is the two rows it joins.
The engine is told of two arrays of edges by two addresses and *one* length, so `Pairs` reads past
the end of a shorter second one (`Beyond`) unless `edges_impl` compares the lengths. Any call may be
refused, in which case nothing happens, and the program may go on after that in any order, or move,
assign over or drop the loader. `finished` (history) has the loaders whose `finish` said yes.

**Bulk.** The appenders start when no loader is left and every column is in the file, the order of
`examples/load.cpp`. A row they append is as wide as the table that was loaded.

**Reads.** `Limit` stands for 2^63; an integral type is its `numeric_limits`; the cast of the limits
into `int64_t` wraps. A cell of another kind holds 0 or 1, which is enough to tell its value from
another of its kind.

**Parameters.** The overloads of `bind` and of `try_bind` are sets of parameter types, and the one
that takes an argument is the best by the ranks of the C++ conversions (`Best`); an argument for
which no overload is best is a program that does not compile. The cell `execute` puts under the
cursor is what the engine was told to bind, and `meant` and `sought` (history) are what the program
passed.

**Values.** A cell of kind `"decimal"` is the Decimal of `Decimals`; it is read by
`get<Decimal>` and its digits are taken only after that.

**Results.** A name kept is a view: the pair of the `zu_result` it was read from and a column. The
defaulted moves treat the three members differently: the handle leaves null, the vector leaves
empty, the mark `named_` is copied and stays. The walk of `names()` is two actions: `FillNames`,
which reaches the end, and `FillFails`, in which the engine refuses a name after some were pushed,
so that the exception leaves a vector partly filled and no mark, and the next call appends all the
names to it. `cache` (history) has what happened to an object's vector: `whole`, `cut` by such a
refusal, `lost` by an assignment of the object to itself, which may empty the vector and leave the
mark, or `given`, when the object went to Arrow and still keeps views into what is the stream's. A
move takes the history along. `NamesAgree` promises the most, to whole caches; `FindsItsOwn` to all
but the cut ones; `KeptNamesAreLive`, that no view dangles, to all but the given ones.

Lookups of an object whose names were cut do go wrong in the code: after a refusal of the third name
of `a, b, c`, `find("c")` walks `a, b, a, b, c` and answers 4, a column that is not there. That takes
an engine that refuses the name of a column it has, which its interface does not speak of, so the
properties leave such objects out of what lookups promise, and `FillFails` is there to show what
holds all the same.

**Decimals.** `W` is 2^32: half a word. A `Decimal` is its two halves. One step is one round of
`digits128`, so that what the two halves hold between two rounds can be spoken of; the digits come
out least significant first, and `to_string` turns them round and puts the point. `place` and
`built` (history) say what the digits so far come to.

## Runs

| run | what it asks | bounds |
|---|---|---|
| `handles` | no double free, no leak, one owner; refines `Lifetimes` | 3 objects, 3 engine objects: the smallest where one can be overwritten by a second while a third watches |
| `transactions` | under the documented use, a guard that goes leaves nothing behind and touches nothing else; under any use nothing is committed that was not asked for, no transaction has two guards, what is open is on a held connection | 2 connections, handles, guards and transactions: one that can be confused with another |
| `transactions_stray` | a guard never ends another's transaction, if the body may end its own: **violated** | as above |
| `progress` | engine and object agree on a watch that has one owner, callbacks are safe, stops delivered and not kept | 2 connections, handles, addresses |
| `progress_kept` | callbacks are safe if a running statement keeps its watcher: **violated** | as above |
| `errors` | nothing lost, right exception, nothing left, caret under its column | 2 failures in a row, one class of every branch of `raise`, short excerpts of characters of one byte and of more, columns up to past their end |
| `values` | a typed read answers exactly the values that fit; a null is nothing to an optional and nothing else is; what is bound comes back as it was meant; the division is exact, the text is the number, the halves agree however made and read | 6-bit `int64_t`, types narrower, equal, signed and not; 2 parameters, an argument of every host type; every Decimal of two 8-bit words, 4 scales up to one past its digits; `ReadOrBound`: a foreign cell is read only while nothing is bound |
| `reads_unsigned` | the same for the unsigned type of the full width: **violated** | as above |
| `results` | the names kept are those of what is held; a lookup answers its own result, and its first column of the name; no name kept dangles | 2 objects, 2 results that share a name in different places, one of them with a repeated name and one with three, so that a walk can be cut in two places; `MaxNames` = 3, so that cuts pile up |
| `parameters_text` | try_bind binds what bind would: **violated** | as `values` |
| `frames` | readers see live memory, also when their frame was unregistered under them; one owner of the function; the buffers come back | 2 of everything, so that one connection reads what another has as a table |
| `appenders` | a load is whole or nothing and `finish` tells the truth; rows whole, counted, once | 2 loaders for one path, 2 counts, 3 columns, arrays of edges too short and naming no row; 2 appenders, 3 rows of 3 columns: one left half given, one that meets it, one after; `PlainTables`: rows are appended to tables of one row without edges, left by the only loader there was |

Handles, transactions, errors, rows are used once each in a behaviour, which bounds it; addresses of
watches are reused, because reuse is the hazard. Two suffices for confusion in every case where a
property is about a pair, and the proofs below remove the bound where they apply. Symmetry is used
only in `appenders`, whose properties are invariants and one refinement without fairness, whose
steps do not tell the permuted values apart. The two constraints bound the product of two halves
that hardly meet: `PlainTables` cuts nothing of a load, and of the appenders only those of tables
that differ in what no appender reads; `ReadOrBound` cuts the reads of an arbitrary cell while
parameters are bound, which binding neither reads nor changes.

### Fairness

`StopStops` (of `Progress`) assumes that the executor reaches its next boundary when it was told to
stop ("at the next boundary the executor checks"), that a watcher returns, and that a statement
that is over is joined. It does not assume that a statement finishes by itself. `ComesBack` (of
`Frames`) assumes that statements end and that the engine runs the callbacks it owes ("the callback
runs once, on a thread of the library's"). Neither assumes that the program ever does anything.

### Findings

* `reads_unsigned`: `Row::get<std::uint64_t>` and `get<std::size_t>` raise for every integer cell,
  as the upper limit cast to `int64_t` is -1 (1938-1939).
* `transactions_stray`: a body that ends its transaction by a bare call or by sending `COMMIT`,
  and begins another, has that one ended by the guard (3476-3489).
* `progress_kept`: "a statement already running keeps the one it started with" (3102) and the free
  of the old `Watch` right after the call (3322) cannot both be right.

* `parameters_text`: `bind` has an overload for `const char*` and `try_bind` has none, so that
  `try_bind("v", "ada")` binds `true` (2034), where 2031 says the two do the same.

Beside these, an exception thrown by one of the copies in `Error::take` (515-534) leaves the
`zu_error` allocated, as nothing owns it meanwhile. `OnlyUnwindingLeaks` allows exactly that and
nothing more.

## Proofs

`HandlesProofs` proves, for any number of objects, `TypeCorrect`, `NothingLeaks`, `OwnersAreSound`
and `HandlesImplementPromise`. The invariant `IInv` joins the types, `NoLeak`, `NoDangling` and
`OneOwner`: none of the last three is inductive alone, as a destructor keeps `NoLeak` only if what
it frees had no second owner, and keeps the others' pointers good for the same reason.

`TransactionsProofs` takes the invariant of `HandlesProofs` by INSTANCE, as every step of
`Transactions` is a step of `Conn` or leaves it alone (`ConnStep`); `ConnectionsImplementHandles` is
that fact as a theorem. With `HandlesImplementPromise` it gives `ConnectionsEndOnce`: the engine's
connections follow `Lifetimes`. `ProgressProofs`, `FramesProofs` and `ResultsProofs` have the same
theorem of their objects, and `BulkProofs` of loaders and of appenders. `TransactionsProofs` then
proves three invariants and an action property.

* `FreeInv`, for every program: the types, `HP!IInv`, that a transaction recorded on an engine
  connection is open, on one connection, and that connection live (`TxnsAgree`), and that a guard
  points only at living objects (`PointersOK`). From it `TypeCorrect` and `OpenStaysReachable`.
* `ScopedInv`, which holds while `orderly` does (`OrderlyInv`): a standing guard's pointer leads to
  the transaction it was made for, no two lead to one connection (`GuardsReach`), and an open
  scoped transaction whose end was not refused has a standing guard (`ScopedHaveGuards`). From it
  `ScopesEndTheirTransactions` and `GuardsAreSound`. `AbandonedIsOver` alone is not inductive:
  it does not say that the guard would still find its transaction. The step is proved from
  `orderly'`, which no step sets back.
* `OneEach`: standing guards were made for transactions that are born, and for different ones. From
  it `NoTwoGuards`, for every program.
* `NeverCommits` is a lemma on the steps that end a scope, and `ScopesNeverCommit` the action
  property that follows from it, with no invariant.

`ProgressProofs` proves three invariants, again over that of `HandlesProofs`.

* `BooksInv`: beside `ArrangementAgrees` (both of its halves, `ArmedIsOwn` and `WatchesAreOwned`),
  that what is armed is on a connection some object holds (`ArmedAreHeld`, or a new connection might
  start armed) and that an object outside its lifetime owns no Watch (`DeadHaveNone`, or a move into
  it would leak one). From it `TypeCorrect` and `EngineAndObjectAgree`, for an engine of either
  kind.
* `RunInv`, assuming `Refuses`: while a statement runs its connection is held and what it started
  with is still armed (`RunningAreHeld`), and a callback runs on that (`CallingIsKept`). From it
  `CallbacksAreSafe`: the chain from the callback to the engine's user data to the owner is what
  `CallbackIsSafe` alone does not say. Without `Refuses` the run `progress_kept` refutes it.
* `StopInv`: what the stop flag says of a running statement was asked of it. From it
  `StopsWereAsked`.

`FramesProofs` proves `TypeCorrect`, `FunctionsEndOnce` and `ReadersAreSafe` from one `IInv`: beside
`FunctionsAreOwed`, that a share is held exactly by a live function (`SharesAreLive`), that a frame
has its owner until it is done and a done one stays done (`OwnersStay`, `FramesEnd`), and that a
frame never made has nothing yet (`UnmadeHaveNone`). `ReadsLiveMemory` alone is not inductive: it
does not say that the callback waits for the reader, which is where a frame that is no longer
registered anywhere is still read (`OwnersStay`, by `Done`).

`BulkProofs` proves every property of the run `appenders`, for any number of loaders, appenders, rows
and columns, from `LoadConstants` and the assumptions of `Appenders`. The steps of a `Bulk` are steps
of either half, so there are two invariants.

* `LoadInv`: beside the types and the handles, that every column taken has as many values as the
  table has rows (`ColumnsFit`), that every edge has two ends (`EdgesHaveEnds`, which is what the
  comparison in `edges_impl` is for), and `ToldIsTrue`. From it `FinishTellsTheTruth`, and
  `LoadsHappenOrNot`, the refinement of `WholeLoads`: a table that `finish` writes is whole.
* `AppInv`: `RowsAreWhole` is not inductive, as it does not say why a row that is taken is whole. It
  is because a row as long in the engine as the caller has come holds the caller's values and no
  others, and one that met what was left of another, or lost a value, is never that long again
  (`InOrder`). `GivenOnce` and `AnsweredOnce` make a row one appender's, `InOnePlace` is
  `EveryRowOnce` without the owner, which `WaitsOnLive` and the handles' `NoLeak` add, and `Counted`
  ties `committed` to the rows in the table; that what waits is counted right is a bijection
  (`WaitingAreCounted`).

`ErrorsProofs` proves every property of the run `errors`, for any number of failures, any classes,
statuses and places, and either order of the arguments of `checked`. Its `IInv` has two halves.

* Of the accounts themselves: a live `zu_error` is in the thread's hand (`InHand`: in the slot, or
  inside `take`), or an exception of a copy lost it (`AccountsOwned`). From it
  `OnlyThrowingCopiesLeak`; the property alone speaks of the end of a call and says nothing of the
  steps before it.
* Of what they say: the account in hand is the one the call raised (`HandAgrees`), and the `Error`
  being built, and the one the call ended with, tell what it told (`ErrorAgrees`, `EndAgrees`). From
  it `FailuresAreToldWhole` and `ClassesAreCaught`.

`CaretsAreUnderColumns` is about an excerpt of any length. The walk of `report` over its bytes is
shown to stop after each step where a character starts or the bytes end (`Edge`), so that the
spaces counted are the characters before the column. It assumes that an excerpt starts with a
character, which `PlacesAssumption` states: an excerpt is a line of the query's text.

`ResultsProofs` proves every property of the run `results`, for any number of objects, results and
columns, over the invariant of `HandlesProofs`. `NamesAgree` is inductive only beside what it says
nothing of: an object assigned to itself may have lost its names and kept the mark, and its names
are still its result's or gone; of names that were cut there is only whose they are; and an object
given to Arrow holds nothing. `Sound` is that, of one object, and `CachesAreSound` of all. From it
`NamesStayOwn`, where a lookup that answers the first column of a name is the least number of a set
(`LeastNumber`), and with `NoDangling` of the handles `NamesStayLive`.

`ValuesProofs` is about the three parts of `Values`, and about the whole.

* Reads: for every width and every admissible set of types and kinds, `ReadsNeverWrap`,
  `HoldableIsAnswered` for the types inside `int64_t`, and `FullWidthUnsignedIsNeverAnswered`, the
  finding as a theorem. They rest on the named assumptions on the constants only.
* Decimals: for every `W` of at least ten and so for 2^32, `TypeCorrect` (no shift leaves its word,
  each remainder is a digit), `DigitsAreExact` and `HalvesAreTheNumber`. The invariant is `TypeOK`
  with `DivisionIsExact`; its step rests on `DivideIsExact`, that one round is the division of the
  two words by ten, and its start on `MagnitudeIsAbs`, which carries the carry and the most negative
  integer. Everything about casts comes from `DivModIsUnique`.
* The text: `TextIsRight`, for every scale and any number of digits. The invariant says what
  *reading on* through the digits that are out does to whatever was read before them
  (`DigitsRead`): a digit that comes out next stands before them, so that what is read by then is
  ten times as much and the digit. Read from nought, it is `built`. `LeadDigit` is why there is no
  idle nought: a round takes what is not nought.
* Parameters: `ParametersComeBack`, from `BindingsKept`: the same said of every name that is bound.
  Which overload is best for every argument is two lemmas (`BestOfBind`, `BestOfTryBind`).
* The whole: `ExecutesAreFetches` and `ValuesArePrinted` show that a `Values` is a program of
  `Reads` and one of `Decimals`, and `ValuesCross` that the run's properties hold of it together.

Some of this is induction over data: how far a walk comes, what a numeral reads as. The library's
induction rules take an operator and cannot be used, but a *set* of numbers that has 0 and with each
number the next has them all (`InductiveSet`), which follows from `WFMin` and from `<` being well
founded on `Nat`, does the same work. A recursive function is a CHOOSE to the provers, so the proofs
first show that there is such a function (`RunExists`, `WalkExists`) and then use its equation.

Only model-checked: the liveness properties `StopStops` and `ComesBack`, which the prover cannot
express the fairness of, and the runs that expect a violation, of which `reads_unsigned` is a
theorem as well.

## Plan

The modules were written in the order of the table above, the ones others instance first. What is
left, in this order.

1. Proofs: the safety that the two liveness properties rest on: that a stop asked for stays asked
   for and that a callback owed stays owed.
2. `Values`: lists, paths and records as views that borrow the result, if they should come to keep
   state.

## Not modelled

The engine (not here). Formatting, and the printing of anything but a Decimal. Temporal's
conversions to and from `chrono`, which are casts whose width is the standard library's. `Config`, a
struct passed by value. Lists, paths and records, which are borrowed views without state. Floating
point: `Decimal::as_double` and how `get<float>` rounds. Two threads inside `on_progress` of one
`Connection`, which the header forbids. How an appender's commits meet a transaction open on its
connection, which is the engine's. What a frame's column calls pass on, which is the engine's to
check. The spans over columns and chunks: what
`span_impl` and `chunk_column_impl` pass on is a pointer and a length of the engine's, and which later
call replaces a buffer is the engine's as well. Build files, scripts, benchmarks, examples and the API
recorder, which have no state.
