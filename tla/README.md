# A TLA+ verification of duckdb-pgrouting

duckdb-pgrouting is a DuckDB extension that runs the graph algorithms of
pgRouting, and a small web site (the Playground) that runs the extension in the
browser. This directory models its control: what each part keeps, what each of
its steps changes, in which order, and what the parts promise one another.
Paths below are relative to the repository root (`src/` is the C++, `site/` the
Playground); `PROJECT.json` maps every definition to its lines.

## The system

    SQL call  pgr_dijkstra('SELECT ...', 1, 5)
      | bind    spec_functions.cpp      SpecBindReplace: rewrites the call into
      v                                 SELECT ... FROM _pgr_exec((SELECT slots), params)
    _pgr_exec   exec_function.cpp       ExecBind: parameters, slots, CheckRequest
      | run                             ExecFunction: one driver run per input row
      v
    RunDriver   exec_common.cpp         thread_local scope, driver, error mapping
      |         input_registry.cpp      the driver's way back to its inputs
      v         family_drivers.cpp      53 drivers behind one signature
    pgRouting   (git submodule)         the algorithm, in C++ with a C interface
      |
      v         result_emitters.cpp     rows to columns, 2048 at a time
    rows

## Inventory

| component | state it keeps | operations | what is hard | what makes it correct |
|---|---|---|---|---|
| Overload tables (`src/functions/*_specs.cpp`, `driver_kind.hpp`) | fixed tables: 223 overloads, 53 drivers | read at load and at each call | rows that disagree with what a driver reads or returns | each row's columns, inputs and flags fit its driver; no two variants of a name take the same types |
| Call rewriting (`spec_functions.cpp`, `request_params.cpp`) | none: from the arguments of one call to one query | `SpecBindReplace`, `ResolveOptional`, `RequestArguments` | arguments by position, by name and by default; NULLs in each; fields passed as text and read back | a parameter arrives as given; any NULL gives no rows and no error |
| Bind of `_pgr_exec` (`exec_function.cpp`, `input_slots.cpp`) | `ExecBindData`: request, no_rows, slots | `ExecBind`, `CheckRequest`, `BindInputSlots` | it is in the catalogue, so anyone may call it with any columns | no driver runs with a parameter its C entry would refuse; no column is read as another type |
| Inputs (`input_slots.cpp`, `input_registry.cpp`, `withpoints_keys.cpp`) | `InputRegistry`: (text, kind) to a list; it refers to the executor's chunk | `MaterializeInputSlots`, `Register`, `LookupInput` | equal texts, derived texts, queries without rows; chunks that are reused | every lookup finds the rows of the query it names, of this call and this input row |
| Execution (`exec_function.cpp`, `exec_common.cpp`) | `ExecState`: ran, registry, result, emit; the thread_local `ThreadState` | `ExecFunction`, `RunOnce`, `RunDriver`, `ScopedRoutingContext` | threads change between chunks, calls nest, interrupts come at any moment and drivers swallow them | each input answered once, over its own inputs; an interrupt always surfaces, and only in its own query |
| Driver results (`family_drivers.cpp`, `exec_common.cpp`) | malloc'd rows, their arrays and messages | `RunFamilyDriver`, `TakeMessage`, `DropWrongShapeRows`, `DriverResult` | a driver may write anything and then throw | every block freed once, as what it is; nothing emitted that failed |
| Guards (`drivers_flow.cpp`, `drivers_graph.cpp`, `drivers_unified.cpp`) | a union-find or a census of one edge query | `PostmanStartsOffTheGraph`, `CountEdges` | degenerate graphs on which upstream crashes | exactly the crashing inputs are answered without the driver |
| Emitters (`result_emitters.cpp`) | `EmitState`: offset, next_path_seq, next_path_id | `EmitRows` of each shape | results longer than a vector, INTEGER counters, shared child vectors | numbering does not depend on where chunks end, nor on the previous input |
| Template functions (`degree.cpp`, `extract_vertices.cpp`, `find_close_edges.cpp`, `sql_template.cpp`) | none; they read whether spatial is loaded and may load it | read the arguments, check the columns, choose a fixed SQL text and put the caller's queries in | NULL, `dryrun` and `cap` by position and by name; spatial loaded or switched off by another connection in between; NULL ends and ties in the texts | a text is bound only where it can run; its rows are the vertices, degrees and nearest edges they claim to be |
| Playground (`site/src`) | open dataset, busy flag, memoized builds, tables and networks, selection, catalog of the connection | open, run, redraw, pick, edit | awaits, failures of any of them, a reader who does not wait | no two tasks at once, a usable page at rest, map and grid true to the tables |
| pgRouting and DuckDB | git submodules, not in the repository | called, or calling | | external: they may do whatever the code must cope with |
| Fetching (`pg_compat`: `get_check_data.cpp`, `get_data.hpp`, `pg_types.cpp`) | none | `fetch_column_info`, `getBigInt`, `getFloat8` over `ReadInt64`, `ReadDouble` | types that are accepted in one place and read in another, NULLs | a column that is accepted has a reader; a guard that reads first sees what the driver will see |
| Catalogue entries, documentation, scripts, tests | none at run time, or constants | | | not modelled |

A public call is rewritten into a call of `_pgr_exec` over one row of inputs;
`ExecFunction` is called by the executor with that row and asked for chunks;
`RunDriver` installs the registry in a thread_local, calls pgRouting, and
pgRouting calls back (`LookupInput`, `CheckForInterrupts`) through it; the rows
it returns belong to a `DriverResult` until the next input or the end. In the
site one DuckDB connection is shared by the loader's queue and by Run.

## Modules

`PROJECT.json` maps each definition to its lines; the names are the source's.

* **Exec** is the execution of calls on threads. `pc[c]` is where a call is
  inside `ExecFunction`; `tls[t]` is the thread_local, `running` and `caller`
  the calls nested on a thread. Its actions are the executor's (`FeedInput`,
  `Push`, `DestroyState`), the steps of `ExecFunction`, `RunOnce`, `RunDriver`,
  and what a driver does in between (`LookupInput`, `CheckForInterrupts`,
  `DriverReturns`). **RoutingCall** is what a call promises: it takes an input,
  gives the rows of its answer once and in order, and ends or fails; `Exec` is
  shown to implement it (`RoutingCallSpec`; the mapping is `Answered`, `Owed` and
  `Handed`).
* **Emit** is `ExecFunction`'s output: rows of a shape leave in chunks, with
  the columns the emitters compute (seq, path_seq, path_id, list entries). A
  row is its edge, its own path_seq (which ROUTES hands on plus 1) and the length
  of its list.
* **FamilyDriver** follows every heap block from the driver that wrote it to
  its free. `heap` is what is allocated; freeing what is not, or as another
  struct, sets `misuse`. `RunOnce` frees the result kept from the previous input.
  A driver may throw a text (`AdapterThrows`) or anything else
  (`AdapterUnwinds`); then, and when a message cannot be copied (`CopyFails`),
  `unwound` remembers that the way back was left early. Of do_shortestPath, which
  is not in the repository, it is assumed that a count above 0 has its rows.
* **CrashGuards** runs `PostmanStartsOffTheGraph` one access to `parent` at a
  time and `CountEdges` one row at a time. It extends **Fetch**, which reads the
  columns of the edge query twice: as the guards do, with their own lambdas
  (`Readable`), and as the driver behind them does (`GetData`). Which inputs
  crash is stated from the source's comments, over the driver's reading.
* **Overloads** holds the spec tables and the columns of DRIVERS that decide a
  check, a shape and whether points are taken. **CallRewrite** is the way of a
  call through `SpecBindReplace`, `ExecBind`, `RunOnce` and the driver's
  lookups. A query is a tuple of texts, so that the parsed query, its text and
  its registry key are built by three definitions, as in the code, and must
  agree. `CallExec` is a direct call of `_pgr_exec`, which may name a driver there
  is not. Apart from rows, a call may end in an `error`
  before its driver, in `no_such_input` (a lookup that finds nothing), in
  `driver_failed`, or in one of two InternalExceptions, which invalidate the
  database: `misread_column` (a value read as another type than it has) and
  `driver_assertion` (an assertion of pgRouting failed).
* **TemplateText** holds the texts of the template functions as operators from
  tables to rows (joins, groupings and window functions as sets), on horizontal
  lines, where spatial's functions are simple. **TemplateCall** is a call of one:
  its arguments, its queries (`unread` are those that do not bind or are no
  single SELECT) and their columns, the binding that refuses, logs (`dryrun`) or
  chooses a text, and the run of that text. `LoadSpatial` and `SetAutoload` are
  other connections of the database.
* **Playground** is the page. A task is a call of `openDataset` or `execute`
  with the await it is at; the loader's queue, its memoized builds (kept,
  rejected or forgotten) and networks and the connection's catalog are state, and
  each await may be rejected, and `setNetwork` may throw in the middle of a
  redraw. `reader` says what the reader of this behaviour does while the page is
  busy: anything, or nothing.

`MC*` modules give the constants their values. Operators introduced by "Mutant
of" are plausible mistakes, used only to see that a property notices them.

## Runs

| run | bound | what it shows |
|---|---|---|
| `exec` | 2 threads, 2 calls in 2 queries, nested drivers, 2 inputs of up to 3 rows, vectors of 2 | types, that a driver reads its own live inputs after any nested call, and that `Exec` implements `RoutingCall` |
| `exec_nested` | 3 calls, two of one query, nested drivers | interrupted runs, and no others, end interrupted |
| `exec_live` | 3 calls, two of one query, one that polls never | an interrupted call whose driver polls ends |
| `emit` | results of up to 4 rows, vectors of 2, an INTEGER that ends at 3, 2 results | numbering, lists, completeness |
| `family_driver` | 3 inputs, 2 rows, 5 shapes: two of one struct, flat ones and ones with arrays | no misuse, no leak but the two named, and only a run's own rows are emitted |
| `crash_guards` | every query of up to 3 rows of 3 signs, and of 4 positive rows, over 4 vertices; shorter ones with any column missing, of 8 kinds of types or holding a NULL | the guards are exact and leave input errors to the driver, the forest follows the rows, find() ends |
| `call_rewrite` | all 223 overloads, 2 texts, 1 odd or defaulted argument (2 for the overloads with most parameters), 1 list without rows; direct calls of 4 drivers over 4 slots | the rewrite, the bind and the lookups agree |
| `template_call` | 4 functions, each column absent, right or mistyped, each option NULL, given by position, by name or both, each query one that does not bind; tables of up to 3 edges over 2 vertices and NULL, 2 lines, 2 points, caps from 0 | bound texts can run, and give what they claim |
| `playground` | 2 datasets of which one is built by presets, 2 tasks at once, a restless and a calm reader, any await failing | safety for both, agreement of grid, map and tables for the calm one, `BusyEnds` and `OpensAgain` |
| `playground_selection`, `playground_stale_map`, `template_named_wins` | | violations, below |

Why these bounds are enough to be interesting: `exec` has a result that needs
two chunks and a second input on another thread, and a
nested call of another query on the same thread, the least that can confuse a
thread_local; `exec_nested` adds a call of the same query, which the interrupt
must reach too. Vectors of 2 end a chunk inside, at and after a path; 3 as the
last INTEGER is reached by 4 rows. In `call_rewrite` two texts let any two
arguments be equal or differ; one odd argument suffices for each check by
itself, and the overloads with most parameters have pairs. An edge query
of 4 rows is the shortest on which find() halves a path of three links while a
row is still to be joined. In `template_call` three edges over two vertices
have parallel edges, loops, NULL ends and vertices that are only left or only
entered; two points may coincide or lie beyond an end of a line, and two lines
at one distance of a point. Column checks do not depend on the rows, so columns
and rows are varied apart, there and in `crash_guards`.

Fairness. `exec_live` assumes weak fairness of each call's own steps once it
runs (the thread it is on is scheduled), of the polls a driver makes, and of
the return of a driver whose poll has thrown; nothing is assumed about
interrupts, about drivers that never poll or that never return by themselves. `crash_guards` assumes
that a running function goes on. `playground` assumes that each awaited promise
settles, one way or the other, and that its continuation runs; nothing is
assumed of the reader. For a geographic map the code sees to that itself, by
racing the load against the first error (`map.ts:217`); that an abstract map loads (`map.ts:237`) is
an assumption. `OpensAgain` is about a dataset that is chosen again and
again once downloads and statements have stopped failing: that is in the
property, not in the fairness.

### What the runs found

* `playground_selection`: after a redraw `execute` clears the page's and the
  map's selection but not the grid's (`site/src/main.ts:320`).
* `playground_stale_map`: whether the map is redrawn is decided by the
  editor's text after the query, not by the text that ran (`main.ts:311`).

* `template_named_wins`: where `docs/BACKLOG.md:39` says that a parameter given
  both ways keeps the positional value, the template functions take the named
  one (`degree.cpp:94`). `ParametersArrive` is silent on parameters given twice.
* `ErrorsAreTheCallers` holds as a caller can rely on it: a public call fails
  before its driver only for an argument that is refused or a restriction
  without a path, and no call reads a column as another type. It does not say
  that no call ends in an InternalException: a failed assertion of pgRouting does
  (`exec_common.cpp:168`; in debug builds only, says `docs/BACKLOG.md:9`), and
  `OnlyAssertionsAreInternal` says that nothing else does.

A further case of a stale map is excluded with the calm reader (`partial`): a
query that fails after one of its statements built a table leaves the map as it
was (`main.ts:324`).

Two leaks of `FamilyDriver` are the code's own and are excluded by name: rows
of a wrong list shape are freed without their arrays (the source says so), and
an exception that is no `std::string`, as a `bad_alloc` while a message is copied,
loses the driver's blocks (`unwound`). In `Exec` such a `bad_alloc` leaves the
scope without the check for interrupts (`exec_common.cpp:154`), so a driver that
was interrupted may end as `bad_alloc` instead: `InterruptsAreExact` allows that
and nothing else.

## Proofs

Each proof module extends the module it is about and starts with the argument.
What it shows holds for every value of the constants: every number of threads,
calls, rows and tables, every chunk size, every nesting.

| module | theorems | holds of every |
|---|---|---|
| `ExecProofs` | `TypeOK`, `OwnLiveInputs`, `InterruptsAreExact` | number of threads, calls, queries and inputs, nested drivers included |
| `ExecRefinementProofs` | `RoutingCallSpec`: `Exec` implements `RoutingCall` | the same |
| `EmitProofs` | `TypeOK`, `RowsNumbered`, `ListsDisjoint`, `NothingLeftBehind` | result, vector size, number of results |
| `FamilyDriverProofs` | `TypeOK`, `NoMisuse`, `NothingLeaks`, `AnswersOwnRows` | set of shapes, number of rows and inputs |
| `CrashGuardsProofs` | `TypeOK`, `CrashesAloneAnswered`, `ForestFollowsRows` | set of vertices and of edge queries |
| `TemplateCallProofs` | `TypeOK`, `EmptyExactly`, `BoundTextsRun`, `VerticesAreTheEnds`, `DegreesAgree`, `NearestOfEachPoint`, `SidesAsDocumented` | set of calls, tables of edges, vertices and lines, and lists of points |
| `CallRewriteProofs` | `TypeOK`, `InputsArrive`, `StrictNulls`, `CheckedFirst`, `ErrorsAreTheCallers`, `ParametersArrive`, `OneRowPerPair` | set of overloads that `CheckSpec` accepts and that fit their drivers and projections, and of values |
| `PlaygroundProofs` | `TypeOK`, `NeverOverlaps`, `QueriesRunOnCurrent`, `IdleIsUsable`, `OneSelectionWhenCalm`, `MapIsFreshWhenCalm` | set of datasets, tasks, edges and readers |

None of the properties is inductive. The inductive invariants, each checked by
TLC on small instances before it was proved:

* `Exec` (`IInv`): the thread_local of a thread is the frame required by the
  calls stacked on it: the innermost call inside its scope owns it, and each
  `saved` holds the frame of the call below. From it each property follows
  at the step that could break it, because a step changes the frame of its own
  thread only.
* The refinement (`RInv`) adds where the rows of a call's answer are: `ran` tells
  whether the input is answered or being answered, rows that are held are those
  of the present chunk, and some are left whenever the call is to be called
  again. The mapping reads `Owed` and `Handed` off `ran`, `result` and `emit`;
  each step of `Exec` is then an action of `RoutingCall` (`RunOnce` an `Answer`
  without rows or a `Fail`, `ReportDriver` an `Answer` or a `Fail`, `LeaveScope`
  a `Fail`, `EmitRows` a `Give`) or a stutter. That a call fails as interrupted
  only in a query that was interrupted needs `IInv` after the step.
* `Emit`: in the middle of a chunk `EmitState` is what the rows written so far
  determine, and the lists of the chunk fill the child vector from its start.
  (path_id, path_seq) is also shown to grow from row to row.
* `FamilyDriver` (`DInv`): what a pointer owns is on the heap (`Allocated`), no
  two pointers own one block (`OneHolder`, `OwnCall`), a count has its rows
  (`Counted`), and what is on the heap is owned (`AllHeld`). `NothingLeaks`
  follows at the destructor, but for the two leaks the property names.
* `CrashGuards` (`GInv`): that the forest has the pieces of the rows is said
  without paths: two vertices are connected when no set closed under the
  pointers holds one without the other. Halving a path keeps those sets
  (`HalvingKeeps`), joining two roots keeps the ones that hold both ends of the
  row or neither, and there is one root exactly where there is one piece.
  `ReadableIsFetched`: what the guards' own lambdas can read, the driver behind
  them fetches, and `NeverInternal`: no read is of a column of another type.
* `TemplateCall` (`TInv`): what each phase leaves behind; once a text has run, the
  answer is what the text gives for the tables (`CloseAnswered`,
  `TablesAnswered`). The rest is about the texts themselves, for tables of any
  length. The sides follow from where the point of a line nearest to a point is
  (`BetweenTheEnds`), and compare with the compass (`RightOf`), not with the cross
  product of the code. `row_number` and `list(... ORDER BY ...)` number the members of a finite
  set by a strict order: `Ranks` shows that counting the earlier ones gives each
  number from 0 on once, so the first `cap` of them are the nearest
  (`FirstRowsAreNearest`) and a list holds every edge of its vertex once
  (`EdgesAtLists`). A sum over rows is the size of a union of sets that are apart
  (`SumOfSizes`, from a witness for each partial sum and a least counterexample),
  so lengths and degrees are compared by counting: the entries of all lists are
  the edges (`EveryEdgeListed`), the ends of all edges are twice the edges
  (`DegreesFromEdges`), and the pairs `FROM_VERTICES` joins for a vertex are its
  ends (`MatchesAreDegrees`), so that both forms agree (`FormsAgree`).
* `CallRewrite` (`CInv`): after the rewrite the query is that of the arguments;
  after the bind the request is the one they spell and has passed its checks; at
  the driver the registry holds the query of each slot under its key. The
  lemmas follow a value through three tables that are written apart (the
  overloads, the columns, the keys): `ArgumentIs`, `Arrives` (what is written
  as text into the call of `_pgr_exec` is what is read back), `PassedIs`,
  `RowSlotsAre`, `LookupsAreGiven`, `GivenIsRegistered`. `CheckedFirst` has every
  limit of `CheckRequest` over the fields of the request, for public and direct
  calls alike; `OnlyAssertionsInvalidate` follows every column to the reader of
  its type.
* `Playground` (`PInv`): the one task under way (`OneAtATime`) determines the
  loader's queue (`Turns`), the open dataset and the catalog (`Places`), and
  whether grid and map may lag behind (`Selections`, `Fresh`).

They rest on the named assumptions about the constants, which TLC evaluates in
the runs. Those of `CallRewrite` deserve a word: `SpecsAssumption` is `CheckSpec`,
which the extension evaluates at load; that a row takes no argument twice and
sets no field twice (`Consistent`); and that it takes the queries its driver
looks up (`FitsDriver`); and that costs alone are selected of cost runs, and of no
run that caps its goals (`FitsProjection`). TLC evaluates it on all 223 rows, so
what is proved holds of the real tables with every text and value. `OneRowPerPair`
is then about the way between a row of a table and its driver: no argument,
default or conversion changes the flags. `ValuesAssumption` says which values are
plain: those that no check refuses. Those of the template functions are what SQL
gives: a NULL is no number and no list (`NullAssumption`), rows have their
columns' types, a table of lines is finite, and `cap` is an INTEGER
(`CapAssumption`). That two lines of one table have two ids is more than the code
asks for: the rows of pgr_findCloseEdges name an edge by its id only, so which
edges were taken cannot be told from the answer without it; among equal ids
`row_number` would choose freely. Vertices given to pgr_degree and edges may have
their ids more than once: a vertex row that is there twice gives two rows.

Only model-checked, and why:

* Liveness (`InterruptStopsCall`, `GuardEnds`, `BusyEnds`, `OpensAgain`):
  fairness and ENABLED are out of the proof system's reach.
* `Unambiguous`: a fact about the rows of the spec tables alone. The run evaluates
  it on all of them; a proof would have to assume it.

No module declares a RECURSIVE operator.

## Not modelled

* Of `CheckSpec`, what it asks of the column lists' texts (`ProjectionList`): the
  rest is the definition of that name in `CallRewrite`, an assumption there.
* The scalar macros: they call the table function of their name with the same
  arguments, and no row that has one has a defaulted parameter.
* Texts, characters and arrays inside columns (`ReadText`, `ReadChar`,
  `ReadInt64Array`): stateless conversions of one cell. `Exec`, `CallRewrite` and
  `Fetch` have the lookups, the types and the NULLs.
* That an adapter passes its arguments to pgRouting in order: pgRouting is a
  submodule, and its signatures are not in the repository.
* `ProjectionList`'s column texts, the geometries of the template functions'
  texts, documentation, logging, messages' wording.
* Drawing, fetching, parsing and share links of the Playground: functions of
  their arguments without state of their own.
* What binding a caller's own query does in a template function: it may load
  extensions that the query itself calls for.
* A reader's USE and DROP statements, and the regular expression that finds the
  created tables in a text (`presets.ts:121`): a text creates a table or not. The
  three queries of an abstract map's `Promise.all` (`loader.ts:113`) are one step.
* The build, the scripts and the tests.

## Plan

Done, in this order: `RoutingCall` and `Exec` with its proofs; `Emit` with its
proofs; `FamilyDriver`; `CrashGuards`; `Playground`; `Overloads` and
`CallRewrite`; `TemplateText` and `TemplateCall`; `Fetch`, composed with
`CrashGuards`; the proofs of the last five; the step simulation of `RoutingCall`
by `Exec`; the proofs about the texts of `TemplateText`. Next:

1. `Emit`: an abstract emitter that writes a whole answer at once, refined by the
   one that writes it in chunks.
2. `CallRewrite`: `Unambiguous` from what a table would have to satisfy, should the
   registration ever test it.
