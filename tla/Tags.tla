-------------------------------- MODULE Tags --------------------------------
(***************************************************************************)
(* The tags of messages: internal/storage/tags.go, used by Store, by the   *)
(* deletions and by the HTTP handlers of server/apiv1/tags.go.             *)
(*                                                                         *)
(* None of these operations has a transaction: each statement commits by   *)
(* itself, on the one connection, and is one step here.  Abstracted: the   *)
(* cleaning and folding of names, the order of the names in a request, and *)
(* how often a message has the same row.                                   *)
(***************************************************************************)
EXTENDS Naturals, FiniteSets

CONSTANTS
    Messages,           \* the database IDs of messages
    Names,              \* tag names, after CleanTag and up to case
    Workers,            \* goroutines of requests and of the cron job
    None,               \* no message or name
    MaxTagId,           \* bound on the IDs of tags
    MaxFaults           \* bound on failed statements

ASSUME NoneAssumption == None \notin Messages \union Names
ASSUME BoundAssumption == MaxTagId \in Nat /\ MaxFaults \in Nat

TagIds == 1..MaxTagId

VARIABLES
    mail,               \* per message: not stored yet, in the mailbox, deleted
    tags,               \* the table tags
    lastId,             \* the last ID AUTOINCREMENT has given
    message_tags,       \* the table message_tags: pairs of a message and a tag ID
    work,               \* the locals of each goroutine
    faults,             \* failed statements so far
    result,             \* history: what the operation that has just ended returned
    asked               \* history: the names a message was given, renames included

tables == <<mail, tags, lastId, message_tags>>
history == <<result, asked>>
vars == <<tables, work, faults, history>>

Tag == [id: TagIds, name: Names]

Operations == {"set", "rename", "drop", "prune"}
Statements ==
    {"read", "insertTag", "selectTag", "countRows", "insertRow", "deleteRows",
     "findUnused", "pruneTag", "findFrom", "findTo", "update",
     "findTag", "dropRows", "dropTag"}

\* The locals: the operation and its next statement; the message and the names
\* wanted, still to add and to take off; the name in hand, the new name of a
\* rename, the ID read for the name, and the IDs pruneUnusedTags has selected.
\* History: no other goroutine and no failure has disturbed the operation.
Locals ==
    [op: Operations \union {"none"}, stmt: Statements \union {"idle"},
     msg: Messages \union {None}, want: SUBSET Names, add: SUBSET Names,
     drop: SUBSET Names, name: Names \union {None}, to: Names \union {None},
     id: TagIds \union {0}, victims: SUBSET TagIds, alone: BOOLEAN]

Idle ==
    [op |-> "none", stmt |-> "idle", msg |-> None, want |-> {}, add |-> {}, drop |-> {},
     name |-> None, to |-> None, id |-> 0, victims |-> {}, alone |-> FALSE]

Init ==
    /\ mail = [m \in Messages |-> "new"]
    /\ tags = {}
    /\ lastId = 0
    /\ message_tags = {}
    /\ work = [p \in Workers |-> Idle]
    /\ faults = 0
    /\ result = "none"
    /\ asked = [m \in Messages |-> {}]

----------------------------------------------------------------------------
(* Queries and control                                                     *)

\* getMessageTags: the join hides rows whose tag is gone.
Shown(m) == {t.name : t \in {u \in tags : <<m, u.id>> \in message_tags}}

Unused == {t.id : t \in {u \in tags : \A m \in Messages : <<m, u.id>> \notin message_tags}}

At(p, s) == work[p].stmt = s

\* p has the locals w now, and has disturbed everyone else.
Proceed(p, w) ==
    work' = [q \in Workers |-> IF q = p THEN w ELSE [work[q] EXCEPT !.alone = FALSE]]

\* The next statement of p has the locals w.
Go(p, w) == Proceed(p, w) /\ result' = "none"

\* The operation of p returns.
Return(p, r) == Proceed(p, Idle) /\ result' = r

\* p has nothing to do and begins with the locals w.
Start(p, w) ==
    /\ At(p, "idle")
    /\ Go(p, [w EXCEPT !.alone = \A q \in Workers : At(q, "idle")])

\* The loops of SetMessageTags: a name to add, then the names to take off.
Continue(p, w) ==
    \/ \E n \in w.add :
          Go(p, [w EXCEPT !.stmt = "insertTag", !.add = @ \ {n}, !.name = n, !.id = 0])
    \/ w.add = {} /\ w.drop # {} /\ Go(p, [w EXCEPT !.stmt = "deleteRows", !.name = None, !.id = 0])
    \/ w.add = {} /\ w.drop = {} /\ Return(p, "ok")
----------------------------------------------------------------------------
(* Operations                                                              *)

SetLocals(m, S) == [Idle EXCEPT !.op = "set", !.stmt = "read", !.msg = m, !.want = S]

\* SetMessageTags, for a message the client has seen, which may be deleted now.
StartSet(p) ==
    \E m \in Messages, S \in SUBSET Names :
        /\ mail[m] # "new"
        /\ Start(p, SetLocals(m, S))
        /\ asked' = [asked EXCEPT ![m] = @ \union S]
        /\ UNCHANGED <<tables, faults>>

\* Store, whose transaction has inserted a message with tags.
StartStore(p) ==
    \E m \in Messages, S \in SUBSET Names :
        /\ mail[m] = "new"
        /\ S # {}
        /\ mail' = [mail EXCEPT ![m] = "here"]
        /\ Start(p, SetLocals(m, S))
        /\ asked' = [asked EXCEPT ![m] = @ \union S]
        /\ UNCHANGED <<tags, lastId, message_tags, faults>>

StartRename(p) ==
    \E from, to \in Names :
        /\ from # to
        /\ Start(p, [Idle EXCEPT !.op = "rename", !.stmt = "findFrom", !.name = from, !.to = to])
        /\ UNCHANGED <<tables, faults, asked>>

StartDrop(p) ==
    \E n \in Names :
        /\ Start(p, [Idle EXCEPT !.op = "drop", !.stmt = "findTag", !.name = n])
        /\ UNCHANGED <<tables, faults, asked>>

\* A transaction that deletes messages and their rows, before pruneUnusedTags.
StartDelete(p) ==
    \E S \in SUBSET {m \in Messages : mail[m] = "here"} :
        /\ S # {}
        /\ mail' = [m \in Messages |-> IF m \in S THEN "gone" ELSE mail[m]]
        /\ message_tags' = {r \in message_tags : r[1] \notin S}
        /\ Start(p, [Idle EXCEPT !.op = "prune", !.stmt = "findUnused"])
        /\ UNCHANGED <<tags, lastId, faults, asked>>

\* The transaction of DeleteAllMessages empties both tables of tags, whatever is under way;
\* the sequence of AUTOINCREMENT goes on.
DeleteAll(p) ==
    /\ At(p, "idle")
    /\ mail' = [m \in Messages |-> IF mail[m] = "here" THEN "gone" ELSE mail[m]]
    /\ tags' = {}
    /\ message_tags' = {}
    /\ Return(p, "ok")
    /\ UNCHANGED <<lastId, faults, asked>>
----------------------------------------------------------------------------
(* Statements of SetMessageTags and addMessageTag                          *)

\* Mutant: tags that are no longer wanted stay.
ReadTagsOnlyAdding(p) ==
    /\ At(p, "read")
    /\ Continue(p, [work[p] EXCEPT !.add = work[p].want \ Shown(work[p].msg)])
    /\ UNCHANGED <<tables, faults, asked>>

ReadTags(p) ==
    /\ At(p, "read")
    /\ LET shown == Shown(work[p].msg)
       IN  Continue(p, [work[p] EXCEPT !.add = work[p].want \ shown, !.drop = shown \ work[p].want])
    /\ UNCHANGED <<tables, faults, asked>>

\* Mutant: without AUTOINCREMENT a rowid is one more than the greatest in use.
NextIdFromTable ==
    IF tags = {} THEN 1 ELSE 1 + (CHOOSE i \in TagIds : \E t \in tags : t.id = i /\ \A u \in tags : u.id <= i)

NextId == lastId + 1

\* Mutant: INSERT without the UNIQUE index.
AddTagAgain(n) ==
    /\ NextId \in TagIds
    /\ tags' = tags \union {[id |-> NextId, name |-> n]}
    /\ lastId' = NextId

\* INSERT OR IGNORE
AddTag(n) ==
    \/ /\ \E t \in tags : t.name = n
       /\ UNCHANGED <<tags, lastId>>
    \/ /\ \A t \in tags : t.name # n
       /\ NextId \in TagIds
       /\ tags' = tags \union {[id |-> NextId, name |-> n]}
       /\ lastId' = NextId

InsertTag(p) ==
    /\ At(p, "insertTag")
    /\ \/ AddTag(work[p].name) /\ Go(p, [work[p] EXCEPT !.stmt = "selectTag"])
       \* the bound: SQLite refuses the insert when the IDs are used up
       \/ NextId \notin TagIds /\ (\A t \in tags : t.name # work[p].name)
          /\ Return(p, "error") /\ UNCHANGED <<tags, lastId>>
    /\ UNCHANGED <<mail, message_tags, faults, asked>>

\* Finds the ID of the name in hand, or the operation returns an error.
Find(p, s, next) ==
    /\ At(p, s)
    /\ \/ \E t \in tags :
             t.name = work[p].name /\ Go(p, [work[p] EXCEPT !.id = t.id, !.stmt = next])
       \/ (\A t \in tags : t.name # work[p].name) /\ Return(p, "error")
    /\ UNCHANGED <<tables, faults, asked>>

SelectTag(p) == Find(p, "selectTag", "countRows")

CountRows(p) ==
    /\ At(p, "countRows")
    /\ \/ <<work[p].msg, work[p].id>> \in message_tags /\ Continue(p, work[p])
       \/ /\ <<work[p].msg, work[p].id>> \notin message_tags
          /\ Go(p, [work[p] EXCEPT !.stmt = "insertRow"])
    /\ UNCHANGED <<tables, faults, asked>>

InsertRow(p) ==
    /\ At(p, "insertRow")
    /\ message_tags' = message_tags \union {<<work[p].msg, work[p].id>>}
    /\ Continue(p, work[p])
    /\ UNCHANGED <<mail, tags, lastId, faults, asked>>

\* deleteMessageTags
DeleteRows(p) ==
    /\ At(p, "deleteRows")
    /\ message_tags' = message_tags \
           {<<work[p].msg, t.id>> : t \in {u \in tags : u.name \in work[p].drop}}
    /\ Go(p, [work[p] EXCEPT !.stmt = "findUnused", !.drop = {}])
    /\ UNCHANGED <<mail, tags, lastId, faults, asked>>
----------------------------------------------------------------------------
(* Statements of pruneUnusedTags                                           *)

FindUnused(p) ==
    /\ At(p, "findUnused")
    /\ \/ Unused = {} /\ Return(p, "ok")
       \/ Unused # {} /\ Go(p, [work[p] EXCEPT !.stmt = "pruneTag", !.victims = Unused])
    /\ UNCHANGED <<tables, faults, asked>>

PruneTag(p) ==
    /\ At(p, "pruneTag")
    /\ \E i \in work[p].victims :
          /\ tags' = {t \in tags : t.id # i}
          /\ \/ work[p].victims = {i} /\ Return(p, "ok")
             \/ work[p].victims # {i} /\ Go(p, [work[p] EXCEPT !.victims = @ \ {i}])
    /\ UNCHANGED <<mail, lastId, message_tags, faults, asked>>
----------------------------------------------------------------------------
(* Statements of RenameTag and DeleteTag                                   *)

FindFrom(p) == Find(p, "findFrom", "findTo")

\* Another tag has the new name.
Taken(p) == \E t \in tags : t.name = work[p].to /\ t.id # work[p].id

FindTo(p) ==
    /\ At(p, "findTo")
    /\ \/ Taken(p) /\ Return(p, "error")
       \/ ~Taken(p) /\ Go(p, [work[p] EXCEPT !.stmt = "update"])
    /\ UNCHANGED <<tables, faults, asked>>

\* The messages that were given the old name of tag i are given n with it.
GivenWith(i, n) ==
    [m \in Messages |->
        IF \E t \in tags : t.id = i /\ t.name \in asked[m] THEN asked[m] \union {n} ELSE asked[m]]

Update(p) ==
    /\ At(p, "update")
    /\ \/ Taken(p) /\ Return(p, "error") /\ UNCHANGED <<tags, asked>>
       \/ /\ ~Taken(p)
          /\ tags' = {IF t.id = work[p].id THEN [t EXCEPT !.name = work[p].to] ELSE t : t \in tags}
          /\ asked' = GivenWith(work[p].id, work[p].to)
          /\ Return(p, "ok")
    /\ UNCHANGED <<mail, lastId, message_tags, faults>>

FindTag(p) == Find(p, "findTag", "dropRows")

DropRows(p) ==
    /\ At(p, "dropRows")
    /\ message_tags' = {r \in message_tags : r[2] # work[p].id}
    /\ Go(p, [work[p] EXCEPT !.stmt = "dropTag"])
    /\ UNCHANGED <<mail, tags, lastId, faults, asked>>

DropTag(p) ==
    /\ At(p, "dropTag")
    /\ tags' = {t \in tags : t.id # work[p].id}
    /\ Return(p, "ok")
    /\ UNCHANGED <<mail, lastId, message_tags, faults, asked>>

\* A statement of p fails: getMessageTags logs the error and has read nothing,
\* RenameTag takes an error of its second query for the name being free, every
\* other statement makes the operation return the error.
Fail(p) ==
    /\ faults < MaxFaults
    /\ faults' = faults + 1
    /\ ~At(p, "idle")
    /\ \/ ~At(p, "read") /\ ~At(p, "findTo") /\ Return(p, "error")
       \/ At(p, "read") /\ Continue(p, [work[p] EXCEPT !.add = work[p].want, !.alone = FALSE])
       \/ At(p, "findTo") /\ Go(p, [work[p] EXCEPT !.stmt = "update", !.alone = FALSE])
    /\ UNCHANGED <<tables, asked>>

Request(p) ==
    \/ StartSet(p) \/ StartStore(p) \/ StartRename(p) \/ StartDrop(p)
    \/ StartDelete(p) \/ DeleteAll(p)

Statement(p) ==
    \/ ReadTags(p) \/ InsertTag(p) \/ SelectTag(p) \/ CountRows(p) \/ InsertRow(p)
    \/ DeleteRows(p) \/ FindUnused(p) \/ PruneTag(p)
    \/ FindFrom(p) \/ FindTo(p) \/ Update(p)
    \/ FindTag(p) \/ DropRows(p) \/ DropTag(p)

Next == \E p \in Workers : Request(p) \/ Statement(p) \/ Fail(p)

Spec == Init /\ [][Next]_vars
----------------------------------------------------------------------------
(* Properties                                                              *)

\* The tables and the locals are well typed, and names and IDs are keys of the
\* table of tags: no insert and no rename, however they overlap, makes two tags
\* of one name.
TypeOK ==
    /\ mail \in [Messages -> {"new", "here", "gone"}]
    /\ tags \in SUBSET Tag
    /\ \A t, u \in tags : t.id = u.id \/ t.name = u.name => t = u
    /\ lastId \in 0..MaxTagId
    /\ message_tags \in SUBSET (Messages \X TagIds)
    /\ work \in [Workers -> Locals]
    /\ faults \in 0..MaxFaults
    /\ result \in {"none", "ok", "error"}
    /\ asked \in [Messages -> SUBSET Names]

\* A message shows only tags it was given: rows that outlive their tag, which
\* overlapping prunes and deletions leave behind, never attach the message to
\* another tag, and an ID read before a rename, a deletion or a prune is never
\* used for another name.
ShownTagsWereGiven == \A m \in Messages : Shown(m) \subseteq asked[m]

Succeeds(p) ==
    ~At(p, "idle") /\ work'[p].stmt = "idle" /\ result' = "ok" /\ faults' = faults

\* An operation that succeeds without another in between does what it says,
\* from whatever rows and tags earlier races and failures have left behind.
UndisturbedOperationsAreExact ==
    [][\A p \in Workers : Succeeds(p) /\ work[p].alone =>
          /\ work[p].op = "set" =>
                \A m \in Messages : m = work[p].msg => Shown(m)' = work[p].want
          /\ work[p].op = "rename" =>
                \E t \in tags' : t.id = work[p].id /\ t.name = work[p].to
          /\ work[p].op = "drop" =>
                /\ \A t \in tags' : t.name # work[p].name
                /\ \A r \in message_tags' : r[2] # work[p].id
          /\ work[p].op = "prune" => Unused' = {}]_vars

\* tags.go:275: "PruneUnusedTags will delete all unused tags from the
\* database": a tag it deletes has no message.
PruneTakesUnusedTags ==
    [][\A p \in Workers : At(p, "pruneTag") /\ work'[p] # work[p] =>
          \A t \in tags : (t \in tags' \/ t.id \in Unused)]_vars
============================================================================
