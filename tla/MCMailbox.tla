----------------------------- MODULE MCMailbox -----------------------------
(***************************************************************************)
(* The instances of Mailbox for TLC.                                       *)
(***************************************************************************)
EXTENDS Mailbox

CONSTANTS First, Second, m1, m2, m3

AllOperations == {"Store", "DeleteMessages", "DeleteSearch", "DeleteAll"}

Busy == {p \in Goroutines : op[p] # "idle"}
Stored == committed.mailbox \union removed \union UNION {sel[p] : p \in {q \in Workers : op[q] = "Store"}}

\* The bounds of the instance, on the starts of operations and on faults: a statement is
\* never held back.
\* No more than two goroutines are at work at once.
Pairs == Cardinality(Busy') <= 2

\* Nothing tells the request goroutines apart, nor the IDs before they are used.
InOrder ==
    /\ (Second \in Busy)' => Second \in Busy \/ First \in Busy
    /\ (m2 \in Stored)' => m2 \in Stored \/ m1 \in Stored'

\* The second goroutine only joins where nothing fails, and DeleteMessages only the cron
\* job: among themselves requests delete by DeleteSearch, whose transaction has the same
\* statements.
Together ==
    (Second \in Busy)' =>
        faults' = 0 /\ op'[Second] \in {"Store", "DeleteSearch"} /\ op'[First] # "DeleteMessages"

\* After the fault requests still store messages and delete all of them.
AfterFault ==
    \A p \in Workers : faults > 0 /\ op[p] = "idle" => op'[p] \in {"idle", "Store", "DeleteAll"}

\* A third message comes only where nothing fails and one goroutine stores while the cron
\* job prunes: mail arrives during a prune of a mailbox over its limit.
Arrival ==
    (\E p \in Goroutines : m3 \in Stored \union sel[p])' =>
        /\ ({m1, m2} \subseteq Stored)' /\ faults' = 0
        /\ \A p \in Goroutines : op'[p] \in {"idle", "Prune"} \/ (p = First /\ op'[p] = "Store")

Affordable == Pairs /\ InOrder /\ Together /\ AfterFault /\ Arrival

\* The cron job starts while a request goroutine rests, as often as it takes.
MCFairness ==
    /\ \A p \in Goroutines : SF_vars(Statement(p))
    /\ SF_vars(Start(Cron, "Prune") /\ Affordable)

MCSpec == Init /\ [][Next /\ Affordable]_vars /\ MCFairness
============================================================================
