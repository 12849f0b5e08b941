-------------------------- MODULE PrintFilterData --------------------------
(***************************************************************************)
(* PrintFilterData::doFilter (src/src/ufo/filters/PrintFilterData.cc) run *)
(* by every MPI rank of an ObsSpace distribution.                          *)
(*                                                                         *)
(* Each rank walks the configured variables (getAllData), issuing one      *)
(* allGatherv per display key it finds in its local store, then gathers     *)
(* the `where` mask and the global location indices (printAllData), sorts  *)
(* the gathered indices and renders the table.  allGatherv is a collective *)
(* matched by call order: the k-th call of every rank is one operation.    *)
(*                                                                         *)
(* Data is abstracted: the value of display key K at original location r   *)
(* is the pair Val(K, r), so a table cell can be checked against the       *)
(* heading it is printed under.  Formatting is left out.                   *)
(***************************************************************************)
EXTENDS Integers, Sequences, FiniteSets, SequencesExt, TLC

CONSTANTS
    NRanks,        \* size of the MPI communicator
    KeptRowSets,   \* candidate sets of original locations kept upstream
    VarParams,     \* the `variables` option: sequence of VariablePrintParameters
    StoreChoices,  \* candidate per-rank stores (ObsFilterData as seen by a rank)
    LocMins,       \* candidate values of the `minimum location` option
    LocMaxs,       \* candidate values of the `maximum location` option
    MaxTextWidth,  \* the `max text width` option
    ColumnWidth,   \* the `column width` option
    NameLen,       \* length of the printed name of every display key
    NoCall,        \* a rank not blocked in a collective
    Throw,         \* item standing for eckit::BadParameter in getAllData
    Crash          \* outcome of an out-of-bounds read that faults

Ranks == 0 .. NRanks - 1
NV == Len(VarParams)

\* The ObsDtype values data_.dtype can return.
DTypes == {"Integer", "Float", "String", "DateTime", "Bool", "Integer_64"}

\* Display keys: getVariableNameWithChannel and getVariableNameAtLevel.
\* Channel 0 stands for a variable without channels.
ChanKey(n, c) == <<n, "ch", c>>
LevelKey(n, l) == <<n, "lev", l>>

\* The two collectives of printAllData, shaped like display keys.
ApplyCall == <<"apply">>
IndexCall == <<"index">>

\* The value of display key K at original location r.
Val(K, r) == <<K, r>>

VARIABLES
    kept,        \* original locations kept in the ObsSpace
    owner,       \* rank holding each kept location (the distribution)
    mask,        \* processWhere result at each kept location
    store,       \* per-rank store: has, dtype, channels present, nlevs
    locmin, locmax, printRank0,   \* options
    pc,          \* per-rank control point
    step,        \* per rank: getAllData items already issued
    blocked,     \* per rank: the collective it waits in, or NoCall
    filterData,  \* per rank: filterData_, display key -> gathered column
    globalApply, \* per rank: gathered apply mask
    globalIndex, \* per rank: gathered obsdb_.index()
    table,       \* per rank: printed pages
    gathered     \* whether any allGatherv has completed

inputs == <<kept, owner, mask, store, locmin, locmax, printRank0>>
vars == <<inputs, pc, step, blocked, filterData, globalApply, globalIndex,
          table, gathered>>

\* A finite set of integers in ascending order (std::set iteration order).
\* SetToSortSeq enumerates all functions into the set, too slow for TLC.
RECURSIVE Ascending(_)
Ascending(S) == IF S = {} THEN <<>> ELSE <<Min(S)>> \o Ascending(S \ {Min(S)})

-----------------------------------------------------------------------------
(* Distribution: obsdb_.index() on rank w, ascending within the rank.      *)
LocalIndex(w) == Ascending({r \in kept : owner[r] = w})

\* obsdb_.globalNumLocs()
NLocs == Cardinality(kept)

IsMultiLevelData(p) == p.group \in {"GeoVaLs", "ObsDiag", "ObsBiasTerm"}

\* getData<T>: one key per channel that get_db finds; the catch skips the
\* allGatherv of a channel missing on this rank.
GetDataItems(w, i) ==
    LET p == VarParams[i]
    IN IF p.channels = <<>>
       THEN <<ChanKey(p.name, 0)>>
       ELSE LET cs == SelectSeq(p.channels, LAMBDA c : c \in store[w].chans[i])
            IN [j \in DOMAIN cs |-> ChanKey(p.name, cs[j])]

\* Mutant: the upper level bound checked with > instead of >=.
LevelInRangeInclusive(w, i, l) == 0 <= l /\ l <= store[w].nlevs[i]

\* Line 111: a level outside 0 .. data_.nlevs(variable) - 1 is skipped.
LevelInRange(w, i, l) == 0 <= l /\ l < store[w].nlevs[i]

\* getMultiLevelData: the levels in std::set order, skipping out-of-range ones.
MultiLevelItems(w, i) ==
    LET p == VarParams[i]
        ls == SelectSeq(Ascending(p.levels), LAMBDA l : LevelInRange(w, i, l))
    IN [j \in DOMAIN ls |-> LevelKey(p.name, ls[j])]

\* One iteration of the getAllData loop: the collectives it issues.
VarItems(w, i) ==
    LET dt == store[w].dtype[i]
    IN IF ~store[w].has[i] THEN <<>>
       ELSE IF dt \in {"Integer", "String", "DateTime", "Bool"}
               \/ (dt = "Float" /\ ~IsMultiLevelData(VarParams[i]))
            THEN GetDataItems(w, i)
       ELSE IF dt = "Float" THEN MultiLevelItems(w, i)
       ELSE <<Throw>>

\* getAllData: the collectives of rank w in call order, cut at a throw.
Items(w) ==
    LET all == FlattenSeq([i \in 1 .. NV |-> VarItems(w, i)])
        thrown == {j \in DOMAIN all : all[j] = Throw}
    IN IF thrown = {} THEN all ELSE SubSeq(all, 1, Min(thrown))

\* printAllData: the clamped location window.
LocMinEff == IF locmin >= NLocs THEN NLocs - 1 ELSE locmin
LocMaxEff == IF locmax = 0 THEN NLocs ELSE locmax

\* What rank r passes to the allGatherv it is blocked in.
Contribution(r, call) ==
    LET idx == LocalIndex(r)
    IN CASE call = ApplyCall ->
              [i \in DOMAIN idx |->
                  IF (printRank0 /\ r # 0) \/ ~mask[idx[i]] THEN 0 ELSE 1]
         [] call = IndexCall -> idx
         [] OTHER -> [i \in DOMAIN idx |-> Val(call, idx[i])]

-----------------------------------------------------------------------------
(* Rendering (printAllData after the two gathers).                           *)

\* C++ integer division truncates toward zero.
CDiv(a, b) == IF a >= 0 THEN a \div b ELSE -((-a) \div b)

\* getMaxVariableNameLength on rank w.
MaxVariableNameLength(w) ==
    LET NamesOf(i) ==
          LET p == VarParams[i]
          IN IF IsMultiLevelData(p)
             THEN {LevelKey(p.name, l) : l \in p.levels} \cap DOMAIN filterData[w]
             ELSE IF p.channels = <<>> THEN {ChanKey(p.name, 0)}
             ELSE {ChanKey(p.name, c) : c \in ToSet(p.channels)}
    IN Max({8} \cup {NameLen[k] : k \in UNION {NamesOf(i) : i \in 1 .. NV}})

NLocsPerRow(w) ==
    Max({CDiv(MaxTextWidth - MaxVariableNameLength(w), ColumnWidth + 3), 1})

\* std::stable_sort of 0..n-1 by globalIndex: ties keep position order.
SortIndices(g) ==
    SortSeq([i \in 1 .. Len(g) |-> i - 1],
            LAMBDA a, b : g[a + 1] < g[b + 1] \/ (g[a + 1] = g[b + 1] /\ a < b))

\* sortIndices[loc] as line 296 reads it: out of bounds when loc >= nlocs,
\* then whatever junk[loc] the build yields.
ReadSort(s, loc, junk) == IF loc + 1 \in DOMAIN s THEN s[loc + 1] ELSE junk[loc]

\* Mutant: the window bound read as inclusive.
InWindowInclusive(loc) == loc >= LocMinEff /\ loc <= LocMaxEff

\* Line 296: loc >= locmin && loc < locmax.
InWindow(loc) == loc >= LocMinEff /\ loc < LocMaxEff

\* Locations whose sortIndices[loc] read is out of bounds.
OOBLocs(w) ==
    {l \in ToSet(globalIndex[w]) : l >= Len(globalIndex[w]) /\ InWindow(l)}

\* Lines 277-300: <<loc, index>> pairs to print, in permuted order.  The
\* && short-circuits: sortIndices[loc] is read only for loc in the window.
ToPrint(w, junk) ==
    LET g == globalIndex[w]
        s == SortIndices(g)
        locs == SelectSeq([i \in DOMAIN g |-> g[s[i] + 1]], LAMBDA l : InWindow(l))
        pairs == [i \in DOMAIN locs |-> <<locs[i], ReadSort(s, locs[i], junk)>>]
    IN SelectSeq(pairs, LAMBDA pr : globalApply[w][pr[2] + 1] # 0)

\* Mutant: a new group every nlocsPerRow + 1 locations.
StartsRowOffByOne(count, k) == count % (k + 1) = 0

\* Line 314: count % nlocsPerRow == 0 opens a new group.
StartsRow(count, k) == count % k = 0

\* Lines 308-321: group the locations to print, count = i - 1.
Paginate(sel, k) ==
    FoldLeft(LAMBDA rows, i :
                IF StartsRow(i - 1, k)
                THEN Append(rows, <<sel[i]>>)
                ELSE [rows EXCEPT ![Len(rows)] = Append(@, sel[i])],
             <<>>, [i \in DOMAIN sel |-> i])

\* Lines 343-391: keys printed on every page, in declaration order.
PrintedKeys(w) ==
    LET KeysOf(i) ==
          LET p == VarParams[i]
              ls == Ascending(p.levels)
              ks == IF IsMultiLevelData(p)
                    THEN [j \in DOMAIN ls |-> LevelKey(p.name, ls[j])]
                    ELSE IF p.channels = <<>> THEN <<ChanKey(p.name, 0)>>
                    ELSE [j \in DOMAIN p.channels |-> ChanKey(p.name, p.channels[j])]
          IN IF store[w].has[i]
             THEN SelectSeq(ks, LAMBDA k : k \in DOMAIN filterData[w])
             ELSE <<>>
    IN FlattenSeq([i \in 1 .. NV |-> KeysOf(i)])

\* Mutant: the cell read at the location (locGroup) instead of its index
\* in the gathered columns (idxGroup).
CellAtLocation(w, K, pr) == filterData[w][K][pr[1] + 1]

\* printVariable(varname, idx): filterData_[varname][idx], with idx the
\* gathered position paired with the heading location.
Cell(w, K, pr) == filterData[w][K][pr[2] + 1]

\* One page: the heading locations and one row of cells per printed key.
Page(w, grp) ==
    LET ks == PrintedKeys(w)
    IN [locs |-> [j \in DOMAIN grp |-> grp[j][1]],
        rows |-> [r \in DOMAIN ks |->
                    <<ks[r], [j \in DOMAIN grp |-> Cell(w, ks[r], grp[j])]>>]]

-----------------------------------------------------------------------------
Init ==
    /\ kept \in KeptRowSets
    /\ owner \in [kept -> Ranks]
    /\ mask \in [kept -> BOOLEAN]
    /\ store \in StoreChoices
    /\ locmin \in LocMins
    /\ locmax \in LocMaxs
    /\ printRank0 \in BOOLEAN
    /\ pc = [w \in Ranks |-> "getAll"]
    /\ step = [w \in Ranks |-> 0]
    /\ blocked = [w \in Ranks |-> NoCall]
    /\ filterData = [w \in Ranks |-> <<>>]
    /\ globalApply = [w \in Ranks |-> <<>>]
    /\ globalIndex = [w \in Ranks |-> <<>>]
    /\ table = [w \in Ranks |-> <<>>]
    /\ gathered = FALSE

\* Mutant: the allGatherv of globalApply sits inside the printRank0 branch,
\* so ranks other than 0 do not call it.
StartPrintRank0Only(w) ==
    IF LocMinEff > LocMaxEff
    THEN /\ pc' = [pc EXCEPT ![w] = "error"]
         /\ UNCHANGED blocked
    ELSE IF printRank0 /\ w # 0
    THEN /\ pc' = [pc EXCEPT ![w] = "index"]
         /\ UNCHANGED blocked
    ELSE /\ pc' = [pc EXCEPT ![w] = "apply"]
         /\ blocked' = [blocked EXCEPT ![w] = ApplyCall]

\* printAllData up to its first collective: the range check, processWhere
\* and the allGatherv of globalApply.
StartPrint(w) ==
    IF LocMinEff > LocMaxEff
    THEN /\ pc' = [pc EXCEPT ![w] = "error"]
         /\ UNCHANGED blocked
    ELSE /\ pc' = [pc EXCEPT ![w] = "apply"]
         /\ blocked' = [blocked EXCEPT ![w] = ApplyCall]

\* Mutant: the loop index advances twice per gathered key.
AdvanceTwice(w) == step' = [step EXCEPT ![w] = @ + 2]

\* The getAllData loop moves past the key just gathered.
Advance(w) == step' = [step EXCEPT ![w] = @ + 1]

\* getAllData from one collective to the next, or on into printAllData.
GetAllData(w) ==
    /\ pc[w] = "getAll"
    /\ blocked[w] = NoCall
    /\ IF step[w] < Len(Items(w))
       THEN LET it == Items(w)[step[w] + 1]
            IN IF it = Throw
               THEN /\ pc' = [pc EXCEPT ![w] = "error"]
                    /\ UNCHANGED <<step, blocked>>
               ELSE /\ blocked' = [blocked EXCEPT ![w] = it]
                    /\ Advance(w)
                    /\ UNCHANGED pc
       ELSE StartPrint(w) /\ UNCHANGED step
    /\ UNCHANGED <<inputs, filterData, globalApply, globalIndex, table, gathered>>

\* Lines 264-266: gather obsdb_.index().
GatherIndex(w) ==
    /\ pc[w] = "index"
    /\ blocked[w] = NoCall
    /\ blocked' = [blocked EXCEPT ![w] = IndexCall]
    /\ UNCHANGED <<inputs, pc, step, filterData, globalApply, globalIndex,
                   table, gathered>>

\* Lines 271-394: sort, select, paginate and print.  An out-of-bounds read
\* of sortIndices yields an in-range junk value or faults.
Render(w) ==
    /\ pc[w] = "render"
    /\ blocked[w] = NoCall
    /\ \E junk \in [OOBLocs(w) -> (0 .. NLocs - 1) \cup {Crash}] :
         IF Crash \in {junk[l] : l \in OOBLocs(w)}
         THEN /\ pc' = [pc EXCEPT ![w] = "crashed"]
              /\ UNCHANGED table
         ELSE LET grps == Paginate(ToPrint(w, junk), NLocsPerRow(w))
              IN /\ table' = [table EXCEPT ![w] = [j \in DOMAIN grps |-> Page(w, grps[j])]]
                 /\ pc' = [pc EXCEPT ![w] = "done"]
    /\ UNCHANGED <<inputs, step, blocked, filterData, globalApply, globalIndex,
                   gathered>>

\* allGatherv: completes once every rank is in a collective; the k-th calls
\* of all ranks are one operation, whatever each rank meant by it.  Every
\* rank receives the contributions in rank order and stores them under its
\* own key, overwriting an earlier column.
AllGatherv ==
    /\ \A w \in Ranks : blocked[w] # NoCall
    /\ LET buf == FlattenSeq([i \in 1 .. NRanks |-> Contribution(i - 1, blocked[i - 1])])
           IsVarKey(w) == blocked[w] \notin {ApplyCall, IndexCall}
       IN /\ filterData' = [w \in Ranks |->
                 IF IsVarKey(w) THEN (blocked[w] :> buf) @@ filterData[w]
                 ELSE filterData[w]]
          /\ globalApply' = [w \in Ranks |->
                 IF blocked[w] = ApplyCall THEN buf ELSE globalApply[w]]
          /\ globalIndex' = [w \in Ranks |->
                 IF blocked[w] = IndexCall THEN buf ELSE globalIndex[w]]
          /\ pc' = [w \in Ranks |->
                 CASE blocked[w] = ApplyCall -> "index"
                   [] blocked[w] = IndexCall -> "render"
                   [] OTHER -> pc[w]]
    /\ blocked' = [w \in Ranks |-> NoCall]
    /\ gathered' = TRUE
    /\ UNCHANGED <<inputs, step, table>>

Terminal == {"done", "error", "crashed"}

\* All ranks have left doFilter: the run is over.
Finished ==
    /\ \A w \in Ranks : pc[w] \in Terminal
    /\ UNCHANGED vars

RankStep(w) == GetAllData(w) \/ GatherIndex(w) \/ Render(w)

Next == (\E w \in Ranks : RankStep(w)) \/ AllGatherv \/ Finished

\* Every rank is its own process and keeps running; a collective completes
\* once all ranks have entered it.
Fairness == (\A w \in Ranks : WF_vars(RankStep(w))) /\ WF_vars(AllGatherv)

Spec == Init /\ [][Next]_vars /\ Fairness

-----------------------------------------------------------------------------
(* Properties.                                                             *)

TypeOK ==
    /\ kept \subseteq Nat
    /\ owner \in [kept -> Ranks]
    /\ mask \in [kept -> BOOLEAN]
    /\ pc \in [Ranks -> {"getAll", "apply", "index", "render"} \cup Terminal]
    /\ step \in [Ranks -> Nat]
    /\ \A w \in Ranks : step[w] <= Len(Items(w))
    /\ \A w \in Ranks : blocked[w] = NoCall \/ blocked[w] \in {ApplyCall, IndexCall}
                        \/ blocked[w] \in ToSet(Items(w))
    /\ gathered \in BOOLEAN

\* The rows the table should show, in original order: kept locations in
\* the window whose `where` mask is set (on rank 0 only under printRank0).
Selected ==
    Ascending({r \in kept : /\ LocMinEff <= r /\ r < LocMaxEff
                            /\ mask[r]
                            /\ ~printRank0 \/ owner[r] = 0})

\* Whenever every rank is inside an allGatherv, all of them are in the
\* allGatherv of the same display key (or all in the apply / index one):
\* getAllData must issue the same collectives on every rank, and the
\* per-channel catch must not make one rank skip a call the others make.
CollectivesMatch ==
    (\A w \in Ranks : blocked[w] # NoCall) =>
        \A v, w \in Ranks : blocked[v] = blocked[w]

\* A rank that printed its table printed, across its pages, exactly the
\* selected locations in ascending original order (lines 268-321 recover
\* the original order of the gathered obsdb_.index()).
HeadingsAreSelectedRows ==
    \A w \in Ranks : pc[w] = "done" =>
        FlattenSeq([j \in DOMAIN table[w] |-> table[w][j].locs]) = Selected

\* Every cell printed under location heading r in the row of display key K
\* is K's value at location r: the index the cell is read at
\* (indicesToPrint) belongs to the location in the heading.
CellsShowTheirLocation ==
    \A w \in Ranks : pc[w] = "done" =>
        \A j \in DOMAIN table[w] :
            \A r \in DOMAIN table[w][j].rows :
                LET row == table[w][j].rows[r]
                IN \A c \in DOMAIN row[2] :
                       row[2][c] = Val(row[1], table[w][j].locs[c])

\* Pages are filled to nlocsPerRow locations; only the last may be shorter,
\* and none is empty.
PagesFillWidth ==
    \A w \in Ranks : pc[w] = "done" =>
        \A j \in DOMAIN table[w] :
            LET n == Len(table[w][j].locs)
            IN /\ 1 <= n /\ n <= NLocsPerRow(w)
               /\ j < Len(table[w]) => n = NLocsPerRow(w)

\* With `maximum location` at its default 0, read as "no upper bound"
\* (line 239), a rank that printed its table printed every kept location
\* from the window minimum up that the `where` mask (and printRank0)
\* selects, including locations numbered nlocs or more when locations
\* were rejected upstream.
DefaultWindowShowsAllRows ==
    \A w \in Ranks : (pc[w] = "done" /\ locmax = 0) =>
        {r \in kept : r >= LocMinEff /\ mask[r] /\ (~printRank0 \/ owner[r] = 0)}
          \subseteq UNION {ToSet(table[w][j].locs) : j \in DOMAIN table[w]}

\* Rank w stopped with the range error of line 241: it is in error, and
\* the error is not getAllData's BadParameter for an unsupported dtype
\* (line 191), which is the only other way a rank gets there.
RangeError(w) == pc[w] = "error" /\ Throw \notin ToSet(Items(w))

\* The spec: `minimum location` > `maximum location` fails before any
\* gather call executes.  In the code the check (line 240) follows
\* getAllData, so the error is raised only after every column has been
\* gathered.
RangeErrorBeforeAnyGather ==
    \A w \in Ranks : RangeError(w) => ~gathered


-----------------------------------------------------------------------------
(* Refinement: every rank behaves as a worker of PrintFilterDataAbstract.   *)

\* The display keys the table must show (spec section 7): every configured
\* level, channel or plain key of a field present on rank 0, except a
\* channel get_db cannot read and a level outside the field's level count.
ShownKeys ==
    LET st == store[0]
        Configured(i) ==
          LET p == VarParams[i]
          IN IF IsMultiLevelData(p) /\ st.dtype[i] = "Float"
             THEN [j \in 1 .. Len(Ascending(p.levels)) |->
                     LevelKey(p.name, Ascending(p.levels)[j])]
             ELSE IF p.channels = <<>> THEN <<ChanKey(p.name, 0)>>
             ELSE [j \in DOMAIN p.channels |-> ChanKey(p.name, p.channels[j])]
        Present(i, K) ==
          /\ st.has[i]
          /\ K[2] = "lev" => K[3] < st.nlevs[i]
          /\ K[2] = "ch" /\ K[3] # 0 => K[3] \in st.chans[i]
    IN FlattenSeq([i \in 1 .. NV |-> SelectSeq(Configured(i), LAMBDA K : Present(i, K))])

\* Configuration errors: minimum above maximum, or a present field whose
\* element type has no column type.
Fatal ==
    \/ LocMinEff > LocMaxEff
    \/ \E i \in 1 .. NV : store[0].has[i] /\ store[0].dtype[i] = "Integer_64"

Out(w) ==
    CASE pc[w] = "done"  -> [status |-> "printed", pages |-> table[w]]
      [] pc[w] = "error" -> [status |-> "rejected", pages |-> <<>>]
      [] OTHER           -> [status |-> "pending", pages |-> <<>>]

Abstract == INSTANCE PrintFilterDataAbstract
              WITH Workers <- Ranks, rows <- Selected, keys <- ShownKeys,
                   fatal <- Fatal, out <- [w \in Ranks |-> Out(w)]

\* doFilter implements the abstract promise on every rank: a rank rejects
\* exactly the erroneous configurations, otherwise it prints once and for
\* all the reference table of the selected locations and the present
\* display keys, and every rank eventually does one or the other.
Refinement == Abstract!Spec

=============================================================================
