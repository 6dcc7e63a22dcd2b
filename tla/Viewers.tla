------------------------------ MODULE Viewers ------------------------------
(***************************************************************************)
(* Requests that read, mark and delete messages: internal/storage over the *)
(* envelope cache, with the statistics and events they send to the hub.    *)
(*                                                                         *)
(* A request is a program, the sequence of its steps; a statement is one   *)
(* step, and so is a deletion's transaction, which Mailbox takes apart.    *)
(* The request that calls BroadcastMailboxStats when none is pending names *)
(* the goroutine that sends the event.                                     *)
(***************************************************************************)
EXTENDS EnvelopeCache, Hub

CONSTANTS Kinds     \* the operations the requests ask for

VARIABLES
    kind, pc, sel,  \* per request: its operation, step and IDs
    stats,          \* per request: the stats goroutine it has started
    counts,         \* per request: the total and unread that goroutine has read
    uncounted,      \* history: requests whose change no goroutine has counted yet
    late            \* history: requests that were parsing when the cache was cleared

requestVars == <<kind, pc, sel>>
statsVars == <<stats, counts, uncounted>>
vars == <<rows, cacheVars, hubVars, requestVars, statsVars, late>>

\* The steps of each operation of internal/storage that are not its own bookkeeping.
MarkRead == <<"selectUnread", "setRead", "announceUpdate", "notifyStats">>
MarkUnread == <<"selectRead", "setUnread", "announceUpdate", "notifyStats">>
MarkAllRead == <<"allRead", "notifyStats">>
MarkAllUnread == <<"allUnread", "notifyStats">>
GetMessage == <<"lookup">> \o MarkRead
GetAttachmentPart == <<"lookup">>

\* Mutant: the cache is cleared before the rows are.
DeleteInvalidatingFirst == <<"select", "invalidate", "delete", "notifyStats", "announceDelete">>

DeleteMessages == <<"select", "delete", "notifyStats", "invalidate", "announceDelete">>

DeleteAllMessages == <<"empty", "notifyStats", "invalidateAll", "announceTruncate">>
DeleteSearch == <<"select", "delete", "announceDelete", "notifyStats">>
PruneMessages == <<"select", "delete", "invalidate", "announcePrune">>

Programs ==
    [getMessage |-> GetMessage, getAttachmentPart |-> GetAttachmentPart,
     markRead |-> MarkRead, markUnread |-> MarkUnread,
     markAllRead |-> MarkAllRead, markAllUnread |-> MarkAllUnread,
     setSearchRead |-> <<"select">> \o MarkRead, setSearchUnread |-> <<"select">> \o MarkUnread,
     deleteMessages |-> DeleteMessages, deleteAllMessages |-> DeleteAllMessages,
     deleteSearch |-> DeleteSearch, prune |-> PruneMessages]

AllKinds == DOMAIN Programs

ASSUME KindsAssumption == Kinds \subseteq AllKinds

AllEvents ==
    {[type |-> t, by |-> r] :
        t \in {"update", "delete", "truncate", "prune", "stats"}, r \in Requests}

ASSUME EventsAssumption == AllEvents \subseteq Events

At(r, s) == kind[r] # "none" /\ pc[r] <= Len(Programs[kind[r]]) /\ Programs[kind[r]][pc[r]] = s
Ended(r) == kind[r] # "none" /\ pc[r] > Len(Programs[kind[r]])

Count(S) == Cardinality({i \in Ids : rows[i] \in S})

TypeOK ==
    /\ CacheTypeOK
    /\ HubTypeOK
    /\ kind \in [Requests -> Kinds \union {"none"}]
    /\ pc \in [Requests -> 1..6]
    /\ sel \in [Requests -> SUBSET Ids]
    /\ stats \in [Requests -> {"off", "sleep", "awake", "total", "done"}]
    /\ counts \in [Requests -> [total : Nat, unread : Nat]]
    /\ uncounted \in SUBSET Requests
    /\ late \in SUBSET Requests

Init ==
    /\ rows = [i \in Ids |-> "unread"]
    /\ CacheInit
    /\ HubInit
    /\ kind = [r \in Requests |-> "none"]
    /\ pc = [r \in Requests |-> 1]
    /\ sel = [r \in Requests |-> {}]
    /\ stats = [r \in Requests |-> "off"]
    /\ counts = [r \in Requests |-> [total |-> 0, unread |-> 0]]
    /\ uncounted = {}
    /\ late = {}
----------------------------------------------------------------------------
(* Requests                                                                *)

\* What the handlers of apiv1 ask for, as the body or the query of a request says: IDs, a
\* search, or neither for the whole mailbox.  DeleteMessages takes a body it cannot
\* decode for one without IDs.
SetReadStatus ==
    {"markRead", "markUnread", "markAllRead", "markAllUnread", "setSearchRead", "setSearchUnread"}
DeleteRequests == {"deleteMessages", "deleteAllMessages"}
SearchDeletions == {"deleteSearch"}
MessageRequests == {"getMessage", "getAttachmentPart"}

Asks == SetReadStatus \union DeleteRequests \union SearchDeletions \union MessageRequests

\* Mailbox-wide operations begin without IDs, GetMessage and GetAttachmentPart
\* with one; the IDs may be those of messages that are gone.
Start(r) ==
    /\ kind[r] = "none"
    /\ \E k \in Kinds \intersect (Asks \union {"prune"}) :
          /\ kind' = [kind EXCEPT ![r] = k]
          /\ sel' = [sel EXCEPT ![r] = IF k \in MessageRequests THEN {target[r]} ELSE Ids]
    /\ UNCHANGED <<rows, cacheVars, hubVars, pc, statsVars, late>>

GoOn(r) == pc' = [pc EXCEPT ![r] = @ + 1] /\ UNCHANGED kind
Leave(r) == pc' = [pc EXCEPT ![r] = Len(Programs[kind[r]]) + 1] /\ UNCHANGED kind

CallCache(r) ==
    /\ At(r, "lookup")
    /\ Call(r)
    /\ UNCHANGED <<hubVars, requestVars, statsVars, late>>

\* An error ends the request; without an envelope GetMessage and GetAttachmentPart
\* panic, which net/http recovers.
LeaveCache(r) ==
    /\ At(r, "lookup")
    /\ at[r] = "back"
    /\ IF answer[r] = "envelope" THEN GoOn(r) ELSE Leave(r)
    /\ UNCHANGED <<rows, cacheVars, hubVars, sel, statsVars, late>>

\* The IDs a statement selects; a search or the cron job selects any messages.
Selection(r) ==
    {S \in SUBSET Ids :
        \/ At(r, "selectUnread") /\ S = {i \in sel[r] : rows[i] = "unread"}
        \/ At(r, "selectRead") /\ S = {i \in sel[r] : rows[i] = "read"}
        \/ At(r, "select") /\ S \subseteq {i \in Ids : rows[i] # "gone"}}

Select(r) ==
    /\ \E S \in Selection(r) :
          /\ sel' = [sel EXCEPT ![r] = S]
          /\ IF S = {} THEN Leave(r) ELSE GoOn(r)
    /\ UNCHANGED <<rows, cacheVars, hubVars, statsVars, late>>

\* UPDATE: rows that are gone are not there to be updated.
SetTo(S, v) == [i \in Ids |-> IF i \in S /\ rows[i] # "gone" THEN v ELSE rows[i]]

Write(r) ==
    /\ \/ At(r, "setRead") /\ rows' = SetTo(sel[r], "read")
       \/ At(r, "setUnread") /\ rows' = SetTo(sel[r], "unread")
       \/ At(r, "allRead") /\ rows' = SetTo(Ids, "read")
       \/ At(r, "allUnread") /\ rows' = SetTo(Ids, "unread")
       \/ At(r, "delete") /\ rows' = SetTo(sel[r], "gone")
       \/ At(r, "empty") /\ rows' = SetTo(Ids, "gone")
    /\ GoOn(r)
    /\ uncounted' = uncounted \union {r}
    /\ UNCHANGED <<cacheVars, hubVars, sel, stats, counts, late>>

ClearCache(r) ==
    /\ \/ At(r, "invalidate") /\ Invalidate(sel[r])
       \/ At(r, "invalidateAll") /\ Invalidate(Ids)
    /\ GoOn(r)
    /\ late' = late \union {q \in Requests : at[q] \in {"parse", "close", "finish"}}
    /\ UNCHANGED <<hubVars, sel, statsVars>>

Event(t, r) == [type |-> t, by |-> r]

Announce(r) ==
    /\ \/ At(r, "announceUpdate") /\ Broadcast({Event("update", r)})
       \/ At(r, "announceDelete") /\ Broadcast({Event("delete", r)})
       \/ At(r, "announcePrune") /\ Broadcast({Event("prune", r)})
       \/ At(r, "announceTruncate") /\ Broadcast({Event("truncate", r)})
    /\ GoOn(r)
    /\ UNCHANGED <<rows, cacheVars, sel, statsVars, late>>
----------------------------------------------------------------------------
(* BroadcastMailboxStats                                                   *)

\* Mutant: the flag is cleared after the broadcast.
PendingUntilSent == \E g \in Requests : stats[g] \in {"sleep", "awake", "total"}

\* bcStatsDelay
Pending == \E g \in Requests : stats[g] = "sleep"

NotifyStats(r) ==
    /\ At(r, "notifyStats")
    /\ stats' = IF Pending THEN stats ELSE [stats EXCEPT ![r] = "sleep"]
    /\ GoOn(r)
    /\ UNCHANGED <<rows, cacheVars, hubVars, sel, counts, uncounted, late>>

Awake(g) ==
    /\ stats[g] = "sleep"
    /\ stats' = [stats EXCEPT ![g] = "awake"]
    /\ UNCHANGED <<rows, cacheVars, hubVars, requestVars, counts, uncounted, late>>

CountTotal(g) ==
    /\ stats[g] = "awake"
    /\ stats' = [stats EXCEPT ![g] = "total"]
    /\ counts' = [counts EXCEPT ![g].total = Count({"unread", "read"})]
    /\ uncounted' = {}
    /\ UNCHANGED <<rows, cacheVars, hubVars, requestVars, late>>

CountUnread(g) ==
    /\ stats[g] = "total"
    /\ stats' = [stats EXCEPT ![g] = "done"]
    /\ counts' = [counts EXCEPT ![g].unread = Count({"unread"})]
    /\ Broadcast({Event("stats", g)})
    /\ UNCHANGED <<rows, cacheVars, requestVars, uncounted, late>>

----------------------------------------------------------------------------
RequestStep(r) ==
    \/ CallCache(r) \/ LeaveCache(r) \/ Select(r) \/ Write(r)
    \/ ClearCache(r) \/ Announce(r) \/ NotifyStats(r)
    \/ CacheStep(r) /\ UNCHANGED <<hubVars, requestVars, statsVars, late>>

\* Nothing is left to do: a pump that waits for ever is a deadlock.
Rest ==
    /\ \A r \in Requests : (kind[r] = "none" \/ Ended(r)) /\ stats[r] \in {"off", "done"}
    /\ \A c \in Browsers :
          \/ conn[c] \in {"none", "open"} /\ closes[c] = 0
          \/ reader[c] = "done" /\ writer[c] = "done" /\ c \notin clients
    /\ UNCHANGED vars

StatsStep(g) == Awake(g) \/ CountTotal(g) \/ CountUnread(g)

Next ==
    \/ \E r \in Requests : Start(r) \/ RequestStep(r) \/ StatsStep(r)
    \/ CacheTick /\ UNCHANGED <<hubVars, requestVars, statsVars, late>>
    \/ Rest
    \/ HubStep /\ UNCHANGED <<rows, cacheVars, requestVars, statsVars, late>>

Spec == Init /\ [][Next]_vars
----------------------------------------------------------------------------
(* Properties                                                              *)

HasDeleted(d) ==
    kind[d] # "none" /\ \E n \in 1..Len(Programs[kind[d]]) :
        n < pc[d] /\ Programs[kind[d]][n] \in {"delete", "empty"}

\* A deleted message is in the cache only where a parse that had read it before was still
\* running when the cache was cleared, which invalidateEnvelopeCache cannot stop; where
\* its deletion has yet to clear the cache; or where a search deleted it.  DeleteSearch
\* (search.go:148-266) never calls invalidateEnvelopeCache, although that "removes a
\* specific message from the cache, e.g. when a message is deleted" (envcache.go:124-125):
\* what it deletes is served until the entry's TTL ends.
DeletedStaysOutOfTheCache ==
    \A i \in Ids : rows[i] = "gone" /\ entries[i] \notin late \union {None} =>
        LET by == {d \in Requests : i \in sel[d] /\ HasDeleted(d)}
        IN  by # {} /\ \A d \in by : kind[d] = "deleteSearch" \/ ~Ended(d)

\* "only one broadcast may be pending at a time" (notifications.go:18), and dropping
\* the others loses nothing: a change whose request has asked for a broadcast has been
\* counted since, or a goroutine is on its way to count it.
EveryChangeIsCounted ==
    /\ \A g, h \in Requests : stats[g] = "sleep" /\ stats[h] = "sleep" => g = h
    /\ \A r \in uncounted :
          (\E n \in 1..(pc[r] - 1) : Programs[kind[r]][n] = "notifyStats") =>
              \E g \in Requests : stats[g] \in {"sleep", "awake"}
============================================================================
