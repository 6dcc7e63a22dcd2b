------------------------------ MODULE Mailbox ------------------------------
(***************************************************************************)
(* The operations of internal/storage that add and remove messages, run by *)
(* goroutines of the SMTP, POP3 and HTTP servers and by the cron job over  *)
(* one database with one connection.                                       *)
(*                                                                         *)
(* An operation is a program: the sequence of its statements, each of      *)
(* which is one step.  A transaction holds the connection from its begin   *)
(* to its end; any other database statement needs the connection free.     *)
(* Abstracted: columns other than the ID, the tags behind a row of         *)
(* message_tags (pruneUnusedTags only takes its turn on the connection),   *)
(* the size counted by addDeletedSize, the envelope cache, and the stats   *)
(* and webhook notifications.                                              *)
(***************************************************************************)
EXTENDS Naturals, Sequences, FiniteSets

CONSTANTS
    Ids,                \* the IDs shortuuid.New may return
    Workers,            \* goroutines that serve requests
    Cron,               \* the goroutine of dbCron
    Nobody,             \* the holder of a free connection
    Operations,         \* the operations the requests ask for
    MaxMessages,        \* config.MaxMessages
    PruneLimit,         \* a query of pruneMessages selects at most 5000 messages
    ChunkSize,          \* DeleteSearch deletes in chunks of 1000 IDs
    PruneThreshold,     \* DeleteSearch announces over 200 deletions as a prune
    MaxFaults           \* bound on failed statements and crashes

ASSUME GoroutineAssumption ==
    Cron \notin Workers /\ Nobody \notin Workers \union {Cron}
ASSUME IdsAssumption == IsFiniteSet(Ids)
ASSUME LimitAssumption ==
    /\ MaxMessages \in Nat \ {0} /\ PruneLimit \in Nat \ {0} /\ ChunkSize \in Nat \ {0}
    /\ PruneThreshold \in Nat /\ MaxFaults \in Nat

Goroutines == Workers \union {Cron}

VARIABLES
    db,                 \* the tables, as the connection sees them
    committed,          \* the tables on disk
    conn,               \* the goroutine whose transaction has the connection
    op, pc, sel,        \* per goroutine: its operation, statement and IDs
    statsDeleted,       \* StatsDeleted
    faults,             \* failed statements and crashes so far
    removed,            \* history: IDs whose removal was committed
    acked,              \* history: IDs Store has returned without an error
    announced,          \* history: IDs web clients know are gone
    unheard             \* history: IDs whose removal returned an error

tables == <<db, committed, conn>>
local == <<op, pc, sel>>
history == <<removed, acked, announced, unheard>>
vars == <<tables, local, statsDeleted, faults, history>>

----------------------------------------------------------------------------
(* Programs.  A statement whose error the code ignores is written "try...".*)

\* Mutants: the summary commits before the body; a failed commit is ignored.
StoreInTwoTransactions ==
    <<"begin", "insertMailbox", "commit", "begin", "insertData", "commit",
      "setTags", "announceNew">>
StoreIgnoringCommit ==
    <<"begin", "insertMailbox", "insertData", "tryCommit", "setTags", "announceNew">>

Store ==
    <<"begin", "insertMailbox", "insertData", "commit", "setTags", "announceNew">>

\* Mutant: the tags are pruned inside the transaction.
DeletePruningInside ==
    <<"select", "begin", "deleteMailbox", "deleteData", "deleteTags", "tryPruneTags",
      "commit", "tryAddDeletedSize", "logDeleted", "announceDelete">>

DeleteMessages ==
    <<"select", "begin", "deleteMailbox", "deleteData", "deleteTags", "commit",
      "tryAddDeletedSize", "logDeleted", "tryPruneTags", "announceDelete">>

DeleteSearch ==
    <<"select", "begin", "deleteMailbox", "deleteData", "deleteTags", "commit",
      "pruneTags", "announceSearch", "tryAddDeletedSize", "logDeleted">>

\* Mutants: no event at the end; the tag rows stay.
PruneSilently ==
    <<"select", "begin", "deleteData", "deleteTags", "deleteMailbox", "tryCommit",
      "tryPruneTags", "tryAddDeletedSize", "logDeleted">>
PruneLeavingTags ==
    <<"select", "begin", "deleteData", "deleteMailbox", "tryCommit",
      "tryPruneTags", "tryAddDeletedSize", "logDeleted", "announcePrune">>

Prune ==
    <<"select", "begin", "deleteData", "deleteTags", "deleteMailbox", "tryCommit",
      "tryPruneTags", "tryAddDeletedSize", "logDeleted", "announcePrune">>

\* Mutant: web clients are told before the commit.
DeleteAllAnnouncedEarly ==
    <<"tryCount", "begin", "emptyMailbox", "emptyData", "emptyTags", "announceTruncate",
      "commit", "tryVacuum", "logDeleted">>

DeleteAll ==
    <<"tryCount", "begin", "emptyMailbox", "emptyData", "emptyTags", "commit",
      "tryVacuum", "logDeleted", "announceTruncate">>

RequestOperations == {"Store", "DeleteMessages", "DeleteSearch", "DeleteAll"}

ASSUME OperationsAssumption == Operations \subseteq RequestOperations

Programs ==
    [Store |-> Store, DeleteMessages |-> DeleteMessages,
     DeleteSearch |-> DeleteSearch, DeleteAll |-> DeleteAll, Prune |-> Prune]

Program(o) == Programs[o]

At(p, s) == op[p] # "idle" /\ Program(op[p])[pc[p]] = s

\* The statements inside a transaction, and the ones that wait for the
\* connection outside of one.
TxStatements ==
    {"insertMailbox", "insertData", "deleteMailbox", "deleteData", "deleteTags",
     "emptyMailbox", "emptyData", "emptyTags", "commit", "tryCommit"}
DbStatements ==
    {"begin", "select", "tryCount", "setTags", "pruneTags", "tryPruneTags",
     "tryAddDeletedSize", "tryVacuum"}
TryStatements ==
    {"tryCount", "tryCommit", "tryPruneTags", "tryAddDeletedSize", "tryVacuum"}
----------------------------------------------------------------------------
Tables == [mailbox: SUBSET Ids, mailbox_data: SUBSET Ids, message_tags: SUBSET Ids]
Empty == [mailbox |-> {}, mailbox_data |-> {}, message_tags |-> {}]

Init ==
    /\ db = Empty
    /\ committed = Empty
    /\ conn = Nobody
    /\ op = [p \in Goroutines |-> "idle"]
    /\ pc = [p \in Goroutines |-> 0]
    /\ sel = [p \in Goroutines |-> {}]
    /\ statsDeleted = 0
    /\ faults = 0
    /\ removed = {}
    /\ acked = {}
    /\ announced = {}
    /\ unheard = {}
----------------------------------------------------------------------------
(* Control of a program                                                    *)

\* The operation of p is over.
Leave(p) ==
    /\ op' = [op EXCEPT ![p] = "idle"]
    /\ pc' = [pc EXCEPT ![p] = 0]
    /\ sel' = [sel EXCEPT ![p] = {}]

Last(p) == pc[p] = Len(Program(op[p]))

\* Go to the next statement with the IDs S, or return.
GoOn(p, S) ==
    \/ /\ ~Last(p)
       /\ pc' = [pc EXCEPT ![p] = @ + 1]
       /\ sel' = [sel EXCEPT ![p] = S]
       /\ UNCHANGED <<op, acked>>
    \/ /\ Last(p)
       /\ Leave(p)
       /\ acked' = IF op[p] = "Store" THEN acked \union S ELSE acked

\* A new ID is not one the database or a running Store has.
Fresh(m) ==
    /\ m \notin db.mailbox \union committed.mailbox \union removed
    /\ \A q \in Goroutines : op[q] = "Store" => sel[q] # {m}

\* The IDs an operation begins with: a new one, or those of the request.
Requests(o) ==
    {S \in SUBSET Ids :
        \/ o = "Store" /\ \E m \in Ids : Fresh(m) /\ S = {m}
        \/ o = "DeleteMessages" /\ S # {}
        \/ o \notin {"Store", "DeleteMessages"} /\ S = {}}

Start(p, o) ==
    /\ op[p] = "idle"
    /\ (o = "Prune") <=> (p = Cron)
    /\ op' = [op EXCEPT ![p] = o]
    /\ pc' = [pc EXCEPT ![p] = 1]
    /\ \E S \in Requests(o) : sel' = [sel EXCEPT ![p] = S]
    /\ UNCHANGED <<tables, statsDeleted, faults, history>>
----------------------------------------------------------------------------
(* Statements                                                              *)

\* Mutant: one message too many stays.
ExcessOffByOne ==
    IF Cardinality(db.mailbox) > MaxMessages + 1 THEN Cardinality(db.mailbox) - (MaxMessages + 1) ELSE 0

Excess ==
    IF Cardinality(db.mailbox) > MaxMessages THEN Cardinality(db.mailbox) - MaxMessages ELSE 0

\* The messages over MaxMessages and those over MaxAgeInHours, of either no more than
\* one query selects.
IsPruned(S) ==
    \E over \in SUBSET S : \E aged \in SUBSET S :
        /\ S = over \union aged
        /\ Cardinality(over) <= Excess /\ Cardinality(over) \in {Excess, PruneLimit}
        /\ Cardinality(over) <= PruneLimit /\ Cardinality(aged) <= PruneLimit

Selections(p) ==
    {S \in SUBSET db.mailbox :
        \/ op[p] = "DeleteMessages" /\ S = sel[p] \intersect db.mailbox
        \/ op[p] = "DeleteSearch"
        \/ op[p] = "Prune" /\ IsPruned(S)}

\* Mutant: the operation goes on with nothing to delete.
SelectAnyway(p) ==
    /\ At(p, "select")
    /\ conn = Nobody
    /\ \E S \in Selections(p) : GoOn(p, S)
    /\ UNCHANGED <<tables, statsDeleted, faults, removed, announced, unheard>>

Select(p) ==
    /\ At(p, "select")
    /\ conn = Nobody
    /\ \E S \in Selections(p) :
          \/ S # {} /\ GoOn(p, S)
          \/ S = {} /\ Leave(p) /\ UNCHANGED acked
    /\ UNCHANGED <<tables, statsDeleted, faults, removed, announced, unheard>>

\* DeleteAllMessages counts the messages it is about to delete.
Count(p) ==
    /\ At(p, "tryCount")
    /\ conn = Nobody
    /\ GoOn(p, db.mailbox)
    /\ UNCHANGED <<tables, statsDeleted, faults, removed, announced, unheard>>

Begin(p) ==
    /\ At(p, "begin")
    /\ conn = Nobody
    /\ conn' = p
    /\ GoOn(p, sel[p])
    /\ UNCHANGED <<db, committed, statsDeleted, faults, removed, announced, unheard>>

Write(p) ==
    /\ conn = p
    /\ \/ At(p, "insertMailbox") /\ db' = [db EXCEPT !.mailbox = @ \union sel[p]]
       \/ At(p, "insertData")    /\ db' = [db EXCEPT !.mailbox_data = @ \union sel[p]]
       \/ At(p, "deleteMailbox") /\ db' = [db EXCEPT !.mailbox = @ \ sel[p]]
       \/ At(p, "deleteData")    /\ db' = [db EXCEPT !.mailbox_data = @ \ sel[p]]
       \/ At(p, "deleteTags")    /\ db' = [db EXCEPT !.message_tags = @ \ sel[p]]
       \/ At(p, "emptyMailbox")  /\ db' = [db EXCEPT !.mailbox = {}]
       \/ At(p, "emptyData")     /\ db' = [db EXCEPT !.mailbox_data = {}]
       \/ At(p, "emptyTags")     /\ db' = [db EXCEPT !.message_tags = {}]
    /\ GoOn(p, sel[p])
    /\ UNCHANGED <<committed, conn, statsDeleted, faults, removed, announced, unheard>>

Commit(p) ==
    /\ conn = p
    /\ At(p, "commit") \/ At(p, "tryCommit")
    /\ committed' = db
    /\ conn' = Nobody
    /\ removed' = removed \union (committed.mailbox \ db.mailbox)
    /\ GoOn(p, sel[p])
    /\ UNCHANGED <<db, statsDeleted, faults, announced, unheard>>

\* SetMessageTags, when the new message has tags: it does not look whether the
\* message is still there.
SetTags(p) ==
    /\ At(p, "setTags")
    /\ conn = Nobody
    /\ \E tagged \in {{}, sel[p]} :
          /\ db' = [db EXCEPT !.message_tags = @ \union tagged]
          /\ committed' = [committed EXCEPT !.message_tags = @ \union tagged]
    /\ GoOn(p, sel[p])
    /\ UNCHANGED <<conn, statsDeleted, faults, removed, announced, unheard>>

\* pruneUnusedTags, addDeletedSize and vacuumDb touch other tables.
Housekeep(p) ==
    /\ \E s \in {"pruneTags", "tryPruneTags", "tryAddDeletedSize", "tryVacuum"} : At(p, s)
    /\ conn = Nobody
    /\ GoOn(p, sel[p])
    /\ UNCHANGED <<tables, statsDeleted, faults, removed, announced, unheard>>

LogDeleted(p) ==
    /\ At(p, "logDeleted")
    /\ statsDeleted' = statsDeleted + Cardinality(sel[p])
    /\ GoOn(p, sel[p])
    /\ UNCHANGED <<tables, faults, removed, announced, unheard>>

\* The loop over the chunks leaves ids at the last one.
LastChunks(S) ==
    {C \in SUBSET S : Cardinality(C) = 1 + ((Cardinality(S) - 1) % ChunkSize)}

\* The removals the events of an operation tell: a "delete" event names one ID,
\* "prune" and "truncate" make a client fetch the mailbox again.
Tells(p, T) ==
    \/ At(p, "announceNew") /\ T = {}
    \/ At(p, "announceDelete") /\ T = sel[p]
    \/ /\ At(p, "announceSearch")
       /\ \E C \in LastChunks(sel[p]) :
             T = IF Cardinality(C) > PruneThreshold THEN removed ELSE C
    \/ (At(p, "announcePrune") \/ At(p, "announceTruncate")) /\ T = removed

Announce(p) ==
    /\ \E T \in SUBSET Ids : Tells(p, T) /\ announced' = announced \union T
    /\ GoOn(p, sel[p])
    /\ UNCHANGED <<tables, statsDeleted, faults, removed, unheard>>

\* A database statement of p fails: its transaction is rolled back, and the
\* operation returns the error unless it ignores it.
Fail(p) ==
    /\ faults < MaxFaults
    /\ faults' = faults + 1
    /\ \/ conn = p /\ \E s \in TxStatements : At(p, s)
       \/ conn = Nobody /\ \E s \in DbStatements : At(p, s)
    /\ db' = committed
    /\ conn' = Nobody
    /\ \/ /\ \E s \in TryStatements : At(p, s)
          /\ GoOn(p, sel[p])
          /\ UNCHANGED unheard
       \/ /\ \A s \in TryStatements : ~At(p, s)
          /\ Leave(p)
          /\ unheard' = IF At(p, "pruneTags") THEN unheard \union sel[p] ELSE unheard
          /\ UNCHANGED acked
    /\ UNCHANGED <<committed, statsDeleted, removed, announced>>

\* The process dies and starts again: memory is lost, the tables are those on
\* disk, and web clients fetch the mailbox when they reconnect.
Crash ==
    /\ faults < MaxFaults
    /\ faults' = faults + 1
    /\ db' = committed
    /\ conn' = Nobody
    /\ op' = [p \in Goroutines |-> "idle"]
    /\ pc' = [p \in Goroutines |-> 0]
    /\ sel' = [p \in Goroutines |-> {}]
    /\ statsDeleted' = 0
    /\ announced' = removed
    /\ UNCHANGED <<committed, removed, acked, unheard>>

Statement(p) ==
    \/ Select(p) \/ Count(p) \/ Begin(p) \/ Write(p) \/ Commit(p)
    \/ SetTags(p) \/ Housekeep(p) \/ LogDeleted(p) \/ Announce(p)

Next ==
    \/ \E p \in Goroutines : Statement(p) \/ Fail(p) \/ \E o \in Operations \union {"Prune"} : Start(p, o)
    \/ Crash

\* database/sql hands a freed connection to one of the goroutines waiting for
\* it, so none waits forever; the cron job sleeps a minute and runs again.
Fairness ==
    /\ \A p \in Goroutines : SF_vars(Statement(p))
    /\ WF_vars(Start(Cron, "Prune"))

Spec == Init /\ [][Next]_vars /\ Fairness
----------------------------------------------------------------------------
(* Properties                                                              *)

\* The values the tables, the goroutines and the history range over; the lists
\* of IDs that the statements are built from are never empty.
TypeOK ==
    /\ db \in Tables
    /\ committed \in Tables
    /\ conn \in Goroutines \union {Nobody}
    /\ op \in [Goroutines -> {"idle", "Prune"} \union Operations]
    /\ pc \in [Goroutines -> Nat]
    /\ sel \in [Goroutines -> SUBSET Ids]
    /\ \A p \in Goroutines :
          /\ op[p] = "idle" => pc[p] = 0
          /\ op[p] # "idle" => pc[p] \in 1..Len(Program(op[p]))
          /\ op[p] = "Store" => sel[p] # {}
          /\ op[p] # "DeleteAll" /\ pc[p] > 1 => sel[p] # {}
    /\ statsDeleted \in Nat
    /\ faults \in 0..MaxFaults
    /\ removed \in SUBSET Ids
    /\ acked \in SUBSET Ids
    /\ announced \in SUBSET Ids
    /\ unheard \in SUBSET Ids

\* A message summary is on disk exactly when its body is, and that is what
\* every reader outside of a transaction sees: whatever operations overlap, fail
\* halfway or are cut off by a crash, no list shows a message that cannot be
\* opened and no body is left behind.
TablesAgree ==
    /\ committed.mailbox = committed.mailbox_data
    /\ conn = Nobody => db = committed

\* The tables on disk are a MessageStore: statements inside a transaction are
\* invisible, an acknowledged message survives failures and crashes until an operation
\* removes it, and a removed one never comes back.
Promise == INSTANCE MessageStore WITH messages <- committed.mailbox

\* The mailbox on disk changes only the way MessageStore allows.
ImplementsMessageStore == Promise!StoreSpec

\* The deletion of a message takes its rows of message_tags along, in the same
\* commit, in each of the four operations that delete.
RemovalTakesTagRows ==
    [][(committed.mailbox \ committed'.mailbox) \intersect committed'.message_tags = {}]_vars

\* Web clients are told that a message is gone: no deletion is left on their
\* screens, unless the operation itself returned an error.
RemovalsAreAnnounced ==
    \A m \in Ids : m \in removed ~> m \in announced \union unheard

\* One of the statements S is still to come in the operation of p.
Ahead(p, S) ==
    op[p] # "idle" /\ \E n \in pc[p]..Len(Program(op[p])) : Program(op[p])[n] \in S

Commits == {"commit", "tryCommit"}
NamingEvents == {"announceDelete", "announceSearch"}
ReloadEvents == {"announcePrune", "announceTruncate"}

\* The transaction of p is over and its event, which tells that m is gone, is not.
Owes(p, m) ==
    /\ ~Ahead(p, Commits)
    /\ \/ Ahead(p, NamingEvents) /\ m \in sel[p]
       \/ Ahead(p, ReloadEvents)

\* A removal that web clients have not heard of is never forgotten: the operation that
\* committed it, or another, is on its way to the event, whatever fails in between.
RemovalsAreOnTheirWay ==
    \A m \in removed \ (announced \union unheard) : \E p \in Goroutines : Owes(p, m)

\* No operation waits forever for the one connection, not even for itself: the
\* statements that run outside of a transaction never run while the same goroutine
\* has one open.
OperationsReturn ==
    \A p \in Goroutines : op[p] # "idle" ~> op[p] = "idle"

\* Once mail stops arriving, the cron job brings the mailbox to MaxMessages for good, in
\* as many runs as its queries need, also where messages were stored or deleted between
\* the queries of a run and its transaction.
MailboxIsTrimmed ==
    <>[](\A p \in Workers : op[p] # "Store") => <>[](Cardinality(committed.mailbox) <= MaxMessages)
============================================================================
