---- MODULE RoundTrip ----
(***************************************************************************)
(* The contract of roundTrip (daemon/seed.go): a batch of commands is      *)
(* written first, then next() hands over the reply of each, in issue       *)
(* order.  Once the connection has failed no call answers any more.        *)
(***************************************************************************)
EXTENDS Integers

CONSTANT MaxBatch  \* most commands of one batch

VARIABLES
    want,    \* the ordinal the next next() asks for
    high,    \* the last ordinal of the batch
    answer,  \* the command the last reply handed over answers
    working  \* no call has failed yet

contractVars == <<want, high, answer, working>>

Init == want = 1 /\ high = 0 /\ answer = 0 /\ working = TRUE

\* A new batch, only when the last one has been read through: a nested
\* round-trip would take the outstanding replies with it.
Ask ==
    /\ high < want
    /\ want' > high
    /\ \E n \in 1..MaxBatch : high' = want' + 2 * (n - 1)
    /\ UNCHANGED <<answer, working>>

\* A batch that could not be written.
Refuse ==
    /\ working' = FALSE
    /\ want' > high
    /\ UNCHANGED <<high, answer>>

Reply ==
    /\ working /\ want <= high
    /\ answer' = want /\ want' = want + 2
    /\ UNCHANGED <<high, working>>

Fail ==
    /\ want <= high
    /\ working' = FALSE /\ want' = want + 2
    /\ UNCHANGED <<high, answer>>

Next == Ask \/ Refuse \/ Reply \/ Fail

Spec == Init /\ [][Next]_contractVars
====
