# TLA+ models of the ufo PrintFilterData filter and the SfcCorrected operator

This directory holds the TLA+ models of the repository and the TLC configurations that check them.
Every definition is translated from the C++ under `src/`. `PROJECT.json` maps each definition to the
lines it models.

## 1. Inventory

### Components

| Component (spec name) | Source | State | Operations |
|---|---|---|---|
| Field Selector & Cache | `PrintFilterData.cc` 24-40, 163-197 (`PrintFilterDataSetup`, `PrintFilterData`) | `filterData_` (display key -> gathered column), the `variables` option | constructor (adds variables to `allvars_`), `getAllData` (loop over the configured variables, `has` check, dtype switch, throw on an unsupported dtype) |
| Collective Column Gatherer | `PrintFilterData.cc` 42-120 | a local column per call | `getData<T>`, `getData<bool>` (per-channel `get_db` inside try/catch, `allGatherv`, store under the key), `getMultiLevelData` (level range check, `allGatherv`) |
| Global Index Reconciler | `PrintFilterData.cc` 264-283 | `globalIndex`, `sortIndices`, `permutedGlobalIndex` | gather `obsdb_.index()`, `std::stable_sort` of positions by original location, permutation |
| Row Paginator | `PrintFilterData.cc` 199-254, 285-321 | `locmin`/`locmax` (clamped), `nlocsPerRow`, `globalApply`, `locsToPrint`/`indicesToPrint`, row groups | `getMaxVariableNameLength`, range check, `processWhere` + printRank0 zeroing + gather, selection, grouping |
| Table Renderer | `PrintFilterData.cc` 122-156, 323-394 | the output stream | header, separator and one row per printed display key; `printVariable` (missing-value text, precision, notation) |
| doFilter driver | `PrintFilterData.cc` 397-418 | none | banner, message, summary, then `getAllData` followed by `printAllData` |
| ObsSfcCorrected operator | `operators/sfccorrected/ObsSfcCorrected.cc` | `operatorVars_`, `operatorVarIndices_`, `operators_` | constructor (correction-scheme name, one surface operator per simulated variable), `simulateObs` (one `hofx` buffer, fills the ObsVector per variable) |
| ObsDiagnostics | `ObsDiagnostics.cc` | `gdiags_` | thin pass-through to GeoVaLs |
| Declarations | `EvalSurfaceTemperature.h`, `ObsAtmVertInterpTLAD.interface.h` | none | class and Fortran interface declarations only |

### How the parts interact

Each MPI rank runs `doFilter` on its own partition of the ObsSpace. The only interaction between ranks
is `allGatherv`. This is a blocking collective that MPI matches by call order: the k-th call on every
rank is one operation. Every rank then receives the contributions of all ranks in rank order.

Before any of this, the framework builds the filter. The constructor declares in `allvars_` the
`where` variables and those configured variables that `data_.has` at that moment, when `data_` sees
only the ObsSpace. The framework then computes H(x) and fills in the GeoVaLs, ObsDiag and HofX
variables that some component declared. Only after that does it call `doFilter`.

`getAllData` issues one gather per display key that the rank finds in its store. `printAllData` then
gathers the `where` mask and `obsdb_.index()`. Each rank then sorts, selects, paginates and prints
using its own copy of the gathered data.

### What is hard here

* **Collective matching.** A rank skips a gather when its local store lacks a channel (the catch block
  at line 61), a level (line 111) or a variable (line 167). Every other rank must skip that same gather.
  Otherwise the gathers pair up wrongly: columns are stored under the wrong key, or a rank waits forever.
* **Reordering.** The gathered index is in rank-then-local order. It has gaps where locations were
  rejected upstream. Mapping a location number back to its position in the gathered columns is exactly
  where the code goes wrong (line 296).
* **Boundaries.** The window clamps (lines 238-239), the `locmax == 0` convention, out-of-bounds reads
  of `sortIndices`, and `nlocsPerRow` when the names are wider than the text width.
* **Error ordering.** The range error is raised only after every column has been gathered.

### What makes each component correct

* **Gatherer and selector:** all ranks make the same sequence of collective calls (`CollectivesMatch`).
* **Reconciler and paginator:** the headings are the selected locations in ascending order
  (`HeadingsAreSelectedRows`). Every page but the last holds `nlocsPerRow` locations (`PagesFillWidth`).
* **Renderer:** each cell shows the value of its row's key at the location in its column heading
  (`CellsShowTheirLocation`).
* **The whole filter:** every rank either rejects an erroneous configuration or prints the reference
  table, and does one or the other eventually (`Refinement`). The default window reaches every
  location (`DefaultWindowShowsAllRows`); this one fails when locations were rejected upstream.
* **Construction:** every configured variable the framework can provide is printed
  (`ProvidableVariablesShown`); this one fails.
* **ObsSfcCorrected:** each ObsVector column is written by the operator built for its variable. This
  holds whenever the simulated variables are the first assimilated ones, in order
  (`PrefixColumnsFromTheirOperators`). In general it fails
  (`EachColumnFromItsOperator`).

## 2. Modules

### `PrintFilterData.tla`: the whole filter on `NRanks` ranks

**State.** The inputs are chosen in `Init` and are fixed afterwards:

* `kept`: the locations surviving upstream filtering.
* `owner`: the distribution, which assigns each kept location to a rank. Each rank's `obsdb_.index()`
  is ascending.
* `mask`: the `processWhere` result.
* `store`: what each rank's `ObsFilterData` says about each variable (`has`, `dtype`, the channels
  `get_db` finds, `nlevs`).
* `locmin`, `locmax`, `printRank0`: the options.

The program state, per rank:

* `pc`: the control point.
* `step`: the position in `getAllData`'s sequence of collectives.
* `blocked`: the collective the rank waits in.
* `filterData`: `filterData_`.
* `globalApply`, `globalIndex`: the gathered mask and index.
* `table`: the printed pages.

One global flag, `gathered`, records that some `allGatherv` has completed.

**Data abstraction.** The value of display key K at location r is `Val(K, r) == <<K, r>>`. A printed
cell can therefore be compared with its heading. Display keys are tuples (`ChanKey`, `LevelKey`), not
strings, and name lengths are the constant `NameLen`.

**Actions.**

* `GetAllData(w)`: rank w runs `getAllData` from one collective to the next. `Items(w)` lists its
  collectives in call order, translated from the loop, the dtype switch, the channel try/catch and the
  level check. A throw ends the rank in `"error"`. When the items are exhausted, the action goes on into
  `printAllData` (`StartPrint`): the range check, then the gather of `globalApply`.
* `GatherIndex(w)`: the gather of `obsdb_.index()`.
* `Render(w)`: the stable sort, selection, grouping and printing (lines 268-394). An out-of-bounds read
  of `sortIndices` yields either a junk in-range index or a fault (`"crashed"`).
* `AllGatherv`: enabled once every rank is blocked. It concatenates the contributions in rank order,
  and each rank stores the result under *its own* key, overwriting.
* `Finished`: stuttering once every rank has left `doFilter`.

**Fairness.** Weak fairness of each rank's steps and of `AllGatherv`. Ranks are separate processes
that never yield. A collective completes once all ranks are in it.

### `PrintFilterDataAbstract.tla`: what the filter promises

The abstract specification has no ranks, gathers or sorting. Its variables are:

* `rows`: the locations to show, ascending.
* `keys`: the display keys to show.
* `fatal`: whether the configuration is rejected.
* `out`: per worker, pending, rejected, or printed with its pages.

Each worker takes one step, `Output(w)` or `Reject(w)`. `Output(w)` prints `Table(n)`: the rows cut
into pages of `n` (the last may be shorter), one row per key, each cell `Val(K, r)`. The page width
`n` is left open; `PagesFillWidth` checks it against `nlocsPerRow`. Fairness is stated as every
worker eventually leaving pending. This is what weak fairness of its only step amounts to, because
that step is enabled exactly while the worker is pending. Stated this way, TLC does not compute
`ENABLED` through the refinement mapping.

`PrintFilterData` instantiates it as `Abstract` with this mapping:

* `rows <- Selected`.
* `keys <- ShownKeys`: the configured keys present on rank 0, following spec section 7. A field
  must be present, a channel readable, and a level below the level count.
* `fatal <- Fatal`: the range error, or a present `Integer_64` field.
* `out[w] <-` rank w's table once `pc[w] = "done"`, rejected once it is `"error"`, else pending.

`Refinement == Abstract!Spec` is checked as a `PROPERTY`.

### `ObsSfcCorrected.tla`: the SfcCorrected observation operator

**State.**

* `correctionType`, `operatorVars`, `operatorVarIndices`, `operators`, `requiredVars`: the members.
* `ovec`: indexed `jloc * nvars + jvar`.
* `hofx`: the buffer of line 72. It is zero-filled once and shared by all variables.
* `k`: the loop position in `simulateObs`.
* `pc`.

`getOperatorVariables` is outside this repository. It is the environment: `Construct` picks
`operatorVars_` from `OperatorVarChoices`, and the indices are the positions of those variables in
`odb.assimvariables()`.

**Actions.**

* `Construct`: the constructor, one operator per operator variable. Each operator is named after the
  variable and `MethodName`. `MethodName` is lines 39-46: the last enumerator whose value is the
  configured scheme.
* `SimulateVar`: one iteration of the `simulateObs` loop. `operators_[jvar]` out of bounds is a fault
  or some stored operator. `simobs` overwrites the buffer at the locations it writes
  (`SimObsInto`). The environment picks those locations from `SimObsWrites`. The column is then
  copied from the buffer (`WriteColumn`).
* `SimulateDone`.

Operators and H(x) are abstract: `SimObs(op, l)`.

### `PrintFilterDataSetup.tla`: construction and the framework around `doFilter`

**State.**

* `Configured`, `WhereVars`: the `variables` option and the `where` variables. `Init` picks any
  sequence of up to `MaxConfigured` distinct variables from `Candidates`, and any set of `where`
  variables.
* `allvars`: `allvars_`.
* `present`: what `data_.has` when `doFilter` runs.
* `shown`: the configured variables that `getAllData` gathers and prints.
* `phase`.

**Actions.**

* `Construct`: lines 24-40. `Declared` is lines 31-39: the `where` variables, plus each configured
  variable in `InFile`.
* `ComputeHofX`: the framework, which is the environment. `present` is `InFile` plus every declared
  variable of a `Supplied` group. A variable counts as declared if this filter declared it or if
  some other component did (`\E others \in SUBSET Requestable`).
* `GetAllData`: the `has` check of lines 163-196.

`MCPrintFilterDataSetup.tla` gives four candidate variables, of groups ObsValue, MetaData, GeoVaLs
and ObsDiag. The first two are in the file. The model has 656 initial states.

## 3. Runs

All PrintFilterData runs use `MCPrintFilterData.tla` with 2 ranks (3 in `three_ranks`) and three
configured variables:

* `ObsValue/airTemperature`: plain.
* `ObsValue/brightnessTemperature`: channels 1 and 2.
* `GeoVaLs/air_pressure`: levels {0, 2}.

Between them they reach every path of `getAllData`. The store choices cover: the first variable
missing, channel 1 missing, level 2 out of range (`nlevs` 2 or 3), and an `Integer_64` dtype reaching
the throwing default. Name lengths and widths give 2 locations per page, so 3 locations fill one full
page and one short page.

| Run | cfg | Expect | Checks | Shows |
|---|---|---|---|---|
| `core_output` | `MCPrintFilterData.cfg` | pass | `TypeOK`, `CollectivesMatch`, `HeadingsAreSelectedRows`, `CellsShowTheirLocation`, `PagesFillWidth` | With no upstream gaps (locations 0..2, or an empty ObsSpace), every distribution over 2 ranks, every mask, printRank0, and windows that are default, narrow, clamped or wider than `nlocs` yield the correctly ordered and correctly filled table. The same store on every rank keeps the collectives matched. About 347k states. |
| `three_ranks` | `MCThreeRanks.cfg` | pass | `HeadingsAreSelectedRows`, `CellsShowTheirLocation` | The ordering questions of `core_output` on 3 ranks, for distributions two ranks cannot give, such as [2],[1],[0]. The inputs are the 27 distributions of locations 0..2 (among them an empty middle rank and interleaved ranks) and the three refinement stores. About 118k states. |
| `refinement` | `MCRefinement.cfg` | pass | `Refinement` | Every rank implements the abstract filter. The inputs are 2 locations in either rank order, one location per page (`max text width` 45), and three stores: everything present; a field absent plus an unreadable channel plus a level out of range; an `Integer_64` field. About 8.7k states, about 70 s. |
| `gap_reorder` | `MCGapReorder.cfg` | violation | `CellsShowTheirLocation` | The example of the code's own comment (locations 0 and 5 rejected, window [0,6)) prints another location's values under a heading. This happens even on a single rank. |
| `channel_skip` | `MCChannelSkip.cfg` | violation | `CollectivesMatch` | If `get_db` finds a channel on one rank only, the catch block skips that rank's `allGatherv`, and the next gathers pair different keys. |
| `range_error_late` | `MCRangeError.cfg` | violation | `RangeErrorBeforeAnyGather` | `minimum location > maximum location` is reported only after `getAllData` has gathered every column. `RangeError(w)` excludes a rank that stopped on the unsupported-dtype throw of line 191. |
| `default_window` | `MCDefaultWindow.cfg` | violation | `DefaultWindowShowsAllRows` | Locations 1, 2, 3 are kept (0 rejected) and `maximum location` is left at 0. The window stops at `nlocs` = 3, so location 3 is never printed. The constraint `AllApplied` sets every mask bit, so the line-296 bug cannot be what hides the row. |
| `sfc_ordered` | `MCSfcOrdered.cfg` | pass | `PrefixColumnsFromTheirOperators` | `MCObsSfcCorrected.tla` with four assimilated variables and both correction schemes. `getOperatorVariables` may yield each of the 64 non-empty sequences of distinct variables. Whenever the sequence is a prefix of the assimilated variables in their order, every simulated column comes from its own operator. About 1k states. |
| `sfc_subset` | `MCSfcSubset.cfg` | violation | `EachColumnFromItsOperator` | `MCObsSfcCorrected.tla`: three assimilated variables. With `variables` set to the last two, the `stationPressure` column is written by the `specificHumidity` operator, and the next `operators_[2]` reads past the end. With `variables` absent, the run is correct. |
| `undeclared_variable` | `MCUndeclaredVariable.cfg` | violation | `ProvidableVariablesShown` | A filter configured to print one GeoVaLs variable. No other component asks for it. The constructor's `has` check (line 37) ran before GeoVaLs existed, so the variable was never declared, and `getAllData` reports it as not present. |

**Why the bounds are enough.** Two ranks are enough to get a non-trivial rank-then-local order. With 3
locations there are 8 distributions, including an empty rank and interleavings such as [0,2],[1]. With
2 per page, 3 locations make a full page followed by a short one. The window values 0, 1 and 5 and the
minima 0, 1 and 3 reach:

* the default window (`locmax == 0`);
* a window narrower than the data;
* the clamp of `locmin` to `nlocs - 1`;
* a `locmax` beyond `nlocs`;
* the range error.

## 4. Not modelled

* **Formatting.** Widths, precision, notation and separators are left out. So is the `missing` text
  of `printVariable` (line 126). It is a choice of text per cell, and a property about it would only
  restate that line. The cell's value is modelled (`Cell`).
* **More than one `doFilter` call on one filter object.** `filterData_` is never cleared, but each
  filter application constructs a new filter, so one invocation per object is modelled.
* **The banner, message and summary of `doFilter`.** These are output only.
* **How the framework fills `data_`.** Only its effect is modelled: declared variables of the supplied
  groups are present. Its source is not in this repository.
* **`ObsDiagnostics` and the header files.** These are pass-throughs and declarations with no logic.
* **`ObsSfcCorrected` internals outside this repository.** `getOperatorVariables`, the surface
  operator factory and `simobs` are not modelled. The runs give `simobs` every location of `hofx`.
  The buffer that would carry a stale value over from the previous variable is modelled, but nothing
  in this repository says whether `simobs` may skip a location. So no run checks a partial write.
  `getOperatorVariables` may return the variables in any order (`sfc_ordered`). In `sfc_subset` it
  keeps their order.
* **Refinement on larger inputs.** TLC checks the abstract liveness along every behaviour, at about
  150 states per second. The refinement run therefore uses 2 locations. The 3-location cases are
  covered by the invariants of `core_output`.
* **`Variable::size()`.** It is assumed to be 1 for a variable without channels, as in ufo. Its source
  is not in this repository.
