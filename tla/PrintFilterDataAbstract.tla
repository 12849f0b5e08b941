---------------------- MODULE PrintFilterDataAbstract ----------------------
(***************************************************************************)
(* What printing filter data promises, without ranks, gathers or sorting: *)
(* every worker either rejects the configuration or prints, in one step,  *)
(* the table of the selected original locations in ascending order, split *)
(* into pages of equal width (the last may be shorter), with one row per  *)
(* display key showing that key's value at each location of the page.    *)
(*                                                                         *)
(* rows, keys and fatal are what the table is about; they do not change.  *)
(***************************************************************************)
EXTENDS Integers, Sequences

CONSTANT Workers

VARIABLES
    rows,    \* the original locations to show, ascending
    keys,    \* the display keys to show, in configuration order
    fatal,   \* whether the configuration is rejected
    out      \* per worker: pending, rejected or printed, with its pages

vars == <<rows, keys, fatal, out>>

Pending == [status |-> "pending", pages |-> <<>>]

\* The value of display key K at original location r.
Val(K, r) == <<K, r>>

\* s cut into consecutive pieces of n elements; the last may be shorter.
Chunks(s, n) ==
    [j \in 1 .. (Len(s) + n - 1) \div n |->
        SubSeq(s, (j - 1) * n + 1, IF j * n < Len(s) THEN j * n ELSE Len(s))]

\* The reference table with n locations per page.
Table(n) ==
    LET grps == Chunks(rows, n)
    IN [j \in DOMAIN grps |->
          [locs |-> grps[j],
           rows |-> [r \in DOMAIN keys |->
                       <<keys[r], [c \in DOMAIN grps[j] |-> Val(keys[r], grps[j][c])]>>]]]

Init == out = [w \in Workers |-> Pending]

Output(w) ==
    /\ out[w] = Pending
    /\ ~fatal
    /\ \E n \in 1 .. Len(rows) + 1 :
         out' = [out EXCEPT ![w] = [status |-> "printed", pages |-> Table(n)]]
    /\ UNCHANGED <<rows, keys, fatal>>

Reject(w) ==
    /\ out[w] = Pending
    /\ fatal
    /\ out' = [out EXCEPT ![w] = [status |-> "rejected", pages |-> <<>>]]
    /\ UNCHANGED <<rows, keys, fatal>>

Next == \E w \in Workers : Output(w) \/ Reject(w)

\* A worker's step is enabled exactly while it is pending, and no step
\* makes it pending again, so weak fairness of the step amounts to every
\* worker eventually leaving pending.  Stated this way, a refinement check
\* does not need ENABLED through the refinement mapping.
Fairness == \A w \in Workers : <>(out[w] # Pending)

Spec == Init /\ [][Next]_vars /\ Fairness

=============================================================================
