------------------------ MODULE PrintFilterDataSetup ------------------------
(***************************************************************************)
(* The life of one PrintFilterData object around doFilter: the constructor *)
(* (src/src/ufo/filters/PrintFilterData.cc, lines 24-40) declares the      *)
(* variables the filter needs in allvars_; the framework then computes     *)
(* H(x) and supplies the GeoVaLs, ObsDiag and HofX variables that some     *)
(* component declared; doFilter's getAllData prints the configured         *)
(* variables data_.has by then and notes the others as "not present".      *)
(*                                                                         *)
(* The framework is the environment.  When the filter is constructed,      *)
(* data_ sees only the ObsSpace (InFile).  When it runs, data_ also has     *)
(* every variable of a Supplied group that this filter or some other      *)
(* component declared.                                                     *)
(***************************************************************************)
EXTENDS Integers, Sequences, SequencesExt, Functions

CONSTANTS
    Candidates,     \* the variables a configuration may name
    MaxConfigured,  \* bound on the length of the `variables` option
    InFile,         \* variables the ObsSpace holds when the filter is built
    Supplied        \* groups the framework fills on request after H(x)

\* The `variables` option: a sequence of distinct variables.
Configurations ==
    {c \in UNION {[1 .. n -> Candidates] : n \in 0 .. MaxConfigured} : IsInjective(c)}

\* Variables of the supplied groups another component may declare.
Requestable == {v \in Candidates : v.group \in Supplied}

VARIABLES
    Configured, \* parameters_.variables
    WhereVars,  \* getAllWhereVariables(parameters.where)
    allvars,    \* allvars_
    present,    \* the variables data_.has when doFilter runs
    shown,      \* the configured variables getAllData gathers and prints
    phase

vars == <<Configured, WhereVars, allvars, present, shown, phase>>

Init ==
    /\ Configured \in Configurations
    /\ WhereVars \in SUBSET Candidates
    /\ allvars = {}
    /\ present = {}
    /\ shown = <<>>
    /\ phase = "construct"

\* Lines 31-39: allvars_ gets the where variables, then each configured
\* variable that data_.has at construction time, when data_ sees only
\* the ObsSpace.
Declared(where, configured) ==
    where \cup {v \in ToSet(configured) : v \in InFile}

\* Lines 24-40: the constructor.
Construct ==
    /\ phase = "construct"
    /\ allvars' = Declared(WhereVars, Configured)
    /\ phase' = "hofx"
    /\ UNCHANGED <<Configured, WhereVars, present, shown>>

\* The framework: H(x) is computed and the declared variables of the
\* supplied groups are put in reach of data_.
ComputeHofX ==
    /\ phase = "hofx"
    /\ \E others \in SUBSET Requestable :
         present' = InFile \cup {v \in allvars \cup others : v.group \in Supplied}
    /\ phase' = "filter"
    /\ UNCHANGED <<Configured, WhereVars, allvars, shown>>

\* Lines 163-196: getAllData gathers a configured variable
\* when data_.has(variable) (line 166), and otherwise notes it as not
\* present (lines 192-194).
GetAllData ==
    /\ phase = "filter"
    /\ shown' = SelectSeq(Configured, LAMBDA v : v \in present)
    /\ phase' = "done"
    /\ UNCHANGED <<Configured, WhereVars, allvars, present>>

Next == Construct \/ ComputeHofX \/ GetAllData

Spec == Init /\ [][Next]_vars /\ WF_vars(Next)

-----------------------------------------------------------------------------
(* Properties.                                                             *)

\* Every configured variable the framework can provide (one in the file,
\* or one of a group it fills on request) is printed: the constructor
\* declares "all variables to be printed" (comment at line 34), so none of
\* them depends on another component having asked for it.
ProvidableVariablesShown ==
    phase = "done" =>
        \A v \in ToSet(Configured) :
            (v \in InFile \/ v.group \in Supplied) => v \in ToSet(shown)

=============================================================================
