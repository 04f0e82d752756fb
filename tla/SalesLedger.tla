----------------------------- MODULE SalesLedger -----------------------------
(***************************************************************************)
(* What sales ingestion promises, without files, keys or rows: for every   *)
(* sale, how much the database knows about it.  Knowledge only grows, and  *)
(* a step learns from one export only.                                     *)
(***************************************************************************)
EXTENDS Integers

CONSTANT Sale       \* the sales the county may record

VARIABLE known      \* known[s]: the best snapshot of sale s stored so far

Unknown       == 0
Provisional   == 1  \* from a weekly file
Authoritative == 2  \* from a yearly export

Level == Unknown .. Authoritative

\* An export of the given level is stored: sales known less well may rise to
\* it (those the export lists), the others stay as they are.
Learn(level) ==
    /\ known' \in [Sale -> Level]
    /\ \A s \in Sale : known'[s] = known[s] \/ (known[s] < level /\ known'[s] = level)

Init == known = [s \in Sale |-> Unknown]

Next == Learn(Provisional) \/ Learn(Authoritative)

Spec == Init /\ [][Next]_known
=============================================================================
