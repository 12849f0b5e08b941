--------------------------- MODULE ObsSfcCorrected ---------------------------
(***************************************************************************)
(* ObsSfcCorrected (src/src/ufo/operators/sfccorrected/ObsSfcCorrected.cc) *)
(* : the constructor builds one surface operator per variable it simulates *)
(* and simulateObs asks each of them for its H(x), writing the result into *)
(* the ObsVector column of that variable.                                  *)
(*                                                                         *)
(* getOperatorVariables (ufo/utils/OperatorUtils, outside this repository) *)
(* is the environment: it yields operatorVars_, a sequence of distinct     *)
(* assimilated variables, and operatorVarIndices_, the position of each of *)
(* them in odb.assimvariables().  Operators and H(x) values are abstract:  *)
(* SimObs(op, l) is what operator op writes at location l; which locations *)
(* its simobs writes is the environment's choice (SimObsWrites).           *)
(***************************************************************************)
EXTENDS Integers, Sequences, SequencesExt

CONSTANTS
    AssimVars,          \* odb.assimvariables(), the ObsVector's variables
    OperatorVarChoices, \* candidate operatorVars_ from getOperatorVariables
    RequiredVars,       \* oper->requiredVars() of the operator for a variable
    NamedValues,        \* SfcCorrectionTypeParameterTraitsHelper::namedValues
    CorrectionTypes,    \* values the `correction scheme to use` option may take
    SimObsWrites,       \* candidate sets of locations one simobs call writes
    NLocs,              \* ovec.nlocs()
    Missing,            \* an ObsVector entry simulateObs has not written
    Crash               \* outcome of an out-of-bounds read that faults

NVars == Len(AssimVars)            \* ovec.nvars()
Locs == 0 .. NLocs - 1

\* Lines 39-46: the name of the enumerator whose value is the configured
\* correction type; the loop has no break, so the last match wins, and
\* methodname stays empty when none matches.
MethodName(ct) ==
    LET matches == SelectSeq(NamedValues, LAMBDA nv : nv.value = ct)
    IN IF matches = <<>> THEN "" ELSE Last(matches).name

\* Lines 50-52: SurfaceOperatorFactory::create(var + "_" + methodname).
Operator(v, ct) == <<"op", v, MethodName(ct)>>

\* hofx[l] after op->simobs(gv, odb_, hofx).
SimObs(op, l) == <<op, l>>

VARIABLES
    correctionType,     \* params_.correctionType
    operatorVars,       \* operatorVars_
    operatorVarIndices, \* operatorVarIndices_ (0-based)
    operators,          \* operators_
    requiredVars,       \* requiredVars_
    ovec,               \* the ObsVector, index jloc * nvars + jvar
    hofx,               \* simulateObs: the buffer shared by all variables
    k,                  \* simulateObs: position in operatorVarIndices_
    pc

vars == <<correctionType, operatorVars, operatorVarIndices, operators,
          requiredVars, ovec, hofx, k, pc>>

\* operators_[jvar]: in bounds, the operator stored there; out of bounds,
\* whatever the build yields: a fault or some operator pointer.
ReadOperator(jvar) ==
    IF jvar + 1 \in DOMAIN operators THEN {operators[jvar + 1]}
    ELSE {Crash} \cup ToSet(operators)

\* Line 75: op->simobs writes its H(x) at the locations it covers and
\* leaves the rest of the buffer as it was.
SimObsInto(h, op, written) ==
    [l \in Locs |-> IF l \in written THEN SimObs(op, l) ELSE h[l]]

\* Mutant: the column laid out location-minor, jvar * nlocs + jloc.
WriteColumnTransposed(v, jvar, h) ==
    [i \in DOMAIN v |-> IF (i - 1) \div NLocs = jvar
                        THEN h[(i - 1) % NLocs] ELSE v[i]]

\* Lines 78-81: for every location, ovec[jloc * nvars + jvar] = hofx[jloc].
WriteColumn(v, jvar, h) ==
    [i \in DOMAIN v |-> IF (i - 1) % NVars = jvar
                        THEN h[(i - 1) \div NVars] ELSE v[i]]

Init ==
    /\ correctionType \in CorrectionTypes
    /\ operatorVars = <<>>
    /\ operatorVarIndices = <<>>
    /\ operators = <<>>
    /\ requiredVars = {}
    /\ ovec = [i \in 1 .. NLocs * NVars |-> Missing]
    /\ hofx = [l \in Locs |-> 0]
    /\ k = 1
    /\ pc = "construct"

\* Lines 29-58: getOperatorVariables, then one operator per operator
\* variable, in the order of operatorVars_.
Construct ==
    /\ pc = "construct"
    /\ \E vs \in OperatorVarChoices :
         /\ operatorVars' = vs
         /\ operatorVarIndices' =
              [j \in DOMAIN vs |-> SelectInSeq(AssimVars, LAMBDA a : a = vs[j]) - 1]
         /\ operators' = [j \in DOMAIN vs |-> Operator(vs[j], correctionType)]
         /\ requiredVars' = UNION {RequiredVars[vs[j]] : j \in DOMAIN vs}
    /\ pc' = "simulate"
    /\ UNCHANGED <<correctionType, ovec, hofx, k>>

\* Lines 73-82: one iteration of the loop over operatorVarIndices_.  The
\* buffer allocated at line 72 (zero-filled) is not cleared between them.
SimulateVar ==
    /\ pc = "simulate"
    /\ k <= Len(operatorVarIndices)
    /\ LET jvar == operatorVarIndices[k]
       IN \E op \in ReadOperator(jvar) :
            IF op = Crash
            THEN pc' = "crashed" /\ UNCHANGED <<ovec, hofx, k>>
            ELSE \E written \in SimObsWrites :
                   /\ hofx' = SimObsInto(hofx, op, written)
                   /\ ovec' = WriteColumn(ovec, jvar, hofx')
                   /\ k' = k + 1
                   /\ UNCHANGED pc
    /\ UNCHANGED <<correctionType, operatorVars, operatorVarIndices, operators, requiredVars>>

\* Line 83: the loop is over.
SimulateDone ==
    /\ pc = "simulate"
    /\ k > Len(operatorVarIndices)
    /\ pc' = "done"
    /\ UNCHANGED <<correctionType, operatorVars, operatorVarIndices, operators,
                   requiredVars, ovec, hofx, k>>

Finished == pc \in {"done", "crashed"} /\ UNCHANGED vars

Next == Construct \/ SimulateVar \/ SimulateDone \/ Finished

Spec == Init /\ [][Next]_vars /\ WF_vars(Next)

-----------------------------------------------------------------------------
(* Properties.                                                             *)

\* Once simulateObs returns, the column of every variable the operator
\* simulates holds, at every location, the H(x) of the surface operator
\* built for that variable, and every other column is untouched: the
\* operator looked up as operators_[jvar] (line 75) is the one made for
\* assimilated variable jvar.
EachColumnFromItsOperator ==
    pc \in {"done", "crashed"} =>
        /\ pc = "done"
        /\ \A jvar \in 0 .. NVars - 1, l \in Locs :
             ovec[l * NVars + jvar + 1] =
                 IF jvar \in ToSet(operatorVarIndices)
                 THEN SimObs(Operator(AssimVars[jvar + 1], correctionType), l)
                 ELSE Missing

\* When the simulated variables are the first assimilated ones, in their
\* order (in particular when `variables` is absent), simulateObs returns
\* with every column of a simulated variable holding, at every location,
\* the H(x) of the operator built for that variable under the configured
\* correction scheme, and every other column untouched.
PrefixColumnsFromTheirOperators ==
    operatorVarIndices = [j \in DOMAIN operatorVars |-> j - 1] =>
        EachColumnFromItsOperator

=============================================================================
