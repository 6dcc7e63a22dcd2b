--------------------------- MODULE EnvelopeCache ---------------------------
(***************************************************************************)
(* internal/storage/envcache.go: parsed messages, kept for a few seconds.  *)
(*                                                                         *)
(* A request looks a message up, waits for a parse that is under way, or   *)
(* parses it and stores the result.  Each critical section of the cache's  *)
(* lock is one step.  A request makes one call, so an entry, its timer and *)
(* its envelopeInflight are named by the request that parsed it.           *)
(* Abstracted: the envelope itself, which depends on the ID only, and the  *)
(* clock: an entry may expire at any time.                                 *)
(***************************************************************************)
EXTENDS Naturals, FiniteSets

CONSTANTS
    Ids,            \* messages
    Requests,       \* goroutines of requests
    None            \* no entry, no parse

ASSUME IdsAssumption == IsFiniteSet(Ids)
ASSUME NoneAssumption == None \notin Requests

VARIABLES
    rows,           \* the message's row: "unread", "read" or "gone"
    entries,        \* envelopeCache.entries: who parsed the entry of an ID
    inflight,       \* envelopeCache.inflight: who is parsing an ID
    inf,            \* per request: what its envelopeInflight holds
    done,           \* requests whose envelopeInflight.done is closed
    at,             \* per request: where it is in getCachedEnvelope
    target,         \* per request: the ID it asks for
    waitsFor,       \* per request: whose parse it waits for
    answer,         \* per request: what getCachedEnvelope has returned
    timers,         \* requests whose entry has a timer running
    expired         \* requests whose entry is older than envelopeCacheTTL

cacheVars == <<entries, inflight, inf, done, at, target, waitsFor, answer, timers, expired>>

Parsing == {"fetch", "parse", "close", "finish"}

CacheTypeOK ==
    /\ rows \in [Ids -> {"unread", "read", "gone"}]
    /\ entries \in [Ids -> Requests \union {None}]
    /\ inflight \in [Ids -> Requests \union {None}]
    /\ inf \in [Requests -> {"pending", "envelope", "error", "panic"}]
    /\ done \in SUBSET Requests
    /\ at \in [Requests -> {"out", "look", "wait", "back"} \union Parsing]
    /\ target \in [Requests -> Ids]
    /\ waitsFor \in [Requests -> Requests \union {None}]
    /\ answer \in [Requests -> {"none", "envelope", "error", "nothing"}]
    /\ timers \in SUBSET Requests
    /\ expired \in SUBSET Requests

CacheInit ==
    /\ entries = [i \in Ids |-> None]
    /\ inflight = [i \in Ids |-> None]
    /\ inf = [r \in Requests |-> "pending"]
    /\ done = {}
    /\ at = [r \in Requests |-> "out"]
    /\ target \in [Requests -> Ids]
    /\ waitsFor = [r \in Requests |-> None]
    /\ answer = [r \in Requests |-> "none"]
    /\ timers = {}
    /\ expired = {}
----------------------------------------------------------------------------
(* getCachedEnvelope                                                       *)

Move(r, s) == at' = [at EXCEPT ![r] = s]

Return(r, a) ==
    /\ Move(r, "back")
    /\ answer' = [answer EXCEPT ![r] = a]

Call(r) ==
    /\ at[r] = "out"
    /\ Move(r, "look")
    /\ UNCHANGED <<rows, entries, inflight, inf, done, target, waitsFor, answer, timers, expired>>

Valid(i) == entries[i] # None /\ entries[i] \notin expired

LookupHit(r) ==
    /\ at[r] = "look"
    /\ Valid(target[r])
    /\ Return(r, "envelope")
    /\ UNCHANGED <<rows, entries, inflight, inf, done, target, waitsFor, timers, expired>>

\* An expired entry goes, its timer does not.
Forgotten(i) == [entries EXCEPT ![i] = None]

LookupWait(r) ==
    /\ at[r] = "look"
    /\ ~Valid(target[r])
    /\ inflight[target[r]] # None
    /\ entries' = Forgotten(target[r])
    /\ waitsFor' = [waitsFor EXCEPT ![r] = inflight[target[r]]]
    /\ Move(r, "wait")
    /\ UNCHANGED <<rows, inflight, inf, done, target, answer, timers, expired>>

\* Mutant: nobody looks for a parse that is under way.
LookupParseAnyway(r) ==
    /\ at[r] = "look"
    /\ ~Valid(target[r])
    /\ entries' = Forgotten(target[r])
    /\ inflight' = [inflight EXCEPT ![target[r]] = r]
    /\ Move(r, "fetch")
    /\ UNCHANGED <<rows, inf, done, target, waitsFor, answer, timers, expired>>

LookupParse(r) ==
    /\ at[r] = "look"
    /\ ~Valid(target[r])
    /\ inflight[target[r]] = None
    /\ entries' = Forgotten(target[r])
    /\ inflight' = [inflight EXCEPT ![target[r]] = r]
    /\ Move(r, "fetch")
    /\ UNCHANGED <<rows, inf, done, target, waitsFor, answer, timers, expired>>

\* parseEnvelope: GetMessageRaw, one statement on the mailbox_data table.
Fetch(r) ==
    /\ at[r] = "fetch"
    /\ \/ rows[target[r]] # "gone" /\ Move(r, "parse") /\ UNCHANGED inf
       \/ /\ rows[target[r]] = "gone"
          /\ Move(r, "close")
          /\ inf' = [inf EXCEPT ![r] = "error"]
    /\ UNCHANGED <<rows, entries, inflight, done, target, waitsFor, answer, timers, expired>>

\* parseEnvelope: ReadEnvelope.  A panic is recovered by the deferred function,
\* which gives the waiters an error.
Parse(r) ==
    /\ at[r] = "parse"
    /\ \E o \in {"envelope", "error", "panic"} : inf' = [inf EXCEPT ![r] = o]
    /\ Move(r, "close")
    /\ UNCHANGED <<rows, entries, inflight, done, target, waitsFor, answer, timers, expired>>

Close(r) ==
    /\ at[r] = "close"
    /\ done' = done \union {r}
    /\ Move(r, "finish")
    /\ UNCHANGED <<rows, entries, inflight, inf, target, waitsFor, answer, timers, expired>>

\* What getCachedEnvelope returns to the request that parsed: after a panic its
\* unnamed results are zero, no envelope and no error.
OwnAnswer(r) == IF inf[r] = "panic" THEN "nothing" ELSE inf[r]

\* Mutant: after an error the parse stays registered.
FinishOnSuccess(r) ==
    /\ at[r] = "finish"
    /\ \/ /\ inf[r] = "envelope"
          /\ inflight' = [inflight EXCEPT ![target[r]] = None]
          /\ entries' = [entries EXCEPT ![target[r]] = r]
          /\ timers' = (timers \ {entries[target[r]]}) \union {r}
       \/ inf[r] # "envelope" /\ UNCHANGED <<inflight, entries, timers>>
    /\ Return(r, OwnAnswer(r))
    /\ UNCHANGED <<rows, inf, done, target, waitsFor, expired>>

Finish(r) ==
    /\ at[r] = "finish"
    /\ inflight' = [inflight EXCEPT ![target[r]] = None]
    /\ \/ /\ inf[r] = "envelope"
          /\ entries' = [entries EXCEPT ![target[r]] = r]
          /\ timers' = (timers \ {entries[target[r]]}) \union {r}
       \/ inf[r] # "envelope" /\ UNCHANGED <<entries, timers>>
    /\ Return(r, OwnAnswer(r))
    /\ UNCHANGED <<rows, inf, done, target, waitsFor, expired>>

\* Mutant: a waiter looks at the result without waiting for it.
WakeEarly(r) ==
    /\ at[r] = "wait"
    /\ Return(r, CASE inf[waitsFor[r]] = "pending" -> "nothing"
                   [] inf[waitsFor[r]] = "envelope" -> "envelope"
                   [] OTHER -> "error")
    /\ UNCHANGED <<rows, entries, inflight, inf, done, target, waitsFor, timers, expired>>

Wake(r) ==
    /\ at[r] = "wait"
    /\ waitsFor[r] \in done
    /\ Return(r, IF inf[waitsFor[r]] = "envelope" THEN "envelope" ELSE "error")
    /\ UNCHANGED <<rows, entries, inflight, inf, done, target, waitsFor, timers, expired>>

Lookup(r) == LookupHit(r) \/ LookupWait(r) \/ LookupParse(r)

CacheStep(r) == Lookup(r) \/ Fetch(r) \/ Parse(r) \/ Close(r) \/ Finish(r) \/ Wake(r)
----------------------------------------------------------------------------
(* Time, timers and deletions                                              *)

\* An entry grows older than envelopeCacheTTL.
Expire(e) ==
    /\ at[e] = "back" /\ inf[e] = "envelope"
    /\ e \notin expired
    /\ expired' = expired \union {e}
    /\ UNCHANGED <<rows, entries, inflight, inf, done, at, target, waitsFor, answer, timers>>

\* The timer of an entry removes it, unless another one has taken its place.
Timer(e) ==
    /\ e \in timers /\ e \in expired
    /\ timers' = timers \ {e}
    /\ entries' = IF entries[target[e]] = e THEN Forgotten(target[e]) ELSE entries
    /\ UNCHANGED <<rows, inflight, inf, done, at, target, waitsFor, answer, expired>>

\* Mutant: the timer is stopped and the entry stays.
InvalidateTimers(S) ==
    /\ timers' = timers \ {entries[i] : i \in S}
    /\ UNCHANGED <<rows, entries, inflight, inf, done, at, target, waitsFor, answer, expired>>

\* invalidateEnvelopeCache for each ID of S; invalidateAllEnvelopeCache when S = Ids.
Invalidate(S) ==
    /\ entries' = [i \in Ids |-> IF i \in S THEN None ELSE entries[i]]
    /\ timers' = timers \ {entries[i] : i \in S}
    /\ UNCHANGED <<rows, inflight, inf, done, at, target, waitsFor, answer, expired>>

CacheTick == \E e \in Requests : Expire(e) \/ Timer(e)
----------------------------------------------------------------------------
(* Properties                                                              *)

\* "This cache ensures only one parse occurs per message" (envcache.go:25): a parse
\* of a message begins only when no other is under way and no valid entry is kept.
ParsesAreNeeded ==
    [][\A r \in Requests : at[r] = "look" /\ at'[r] = "fetch" =>
          \A q \in Requests \ {r} : target[q] = target[r] =>
              /\ at[q] \notin Parsing
              /\ entries[target[r]] = q => q \in expired]_<<at, entries, expired, target>>

\* A request that waited gets the envelope or the error of the parse it waited for;
\* no envelope and no error is what only the request whose own parse panicked is given.
AnswersAreWhole ==
    \A r \in Requests :
        /\ answer[r] = "nothing" => waitsFor[r] = None /\ inf[r] = "panic"
        /\ waitsFor[r] # None /\ answer[r] = "envelope" => inf[waitsFor[r]] = "envelope"

\* A waiter waits for a request that is parsing and so will close its channel,
\* or has closed it; a message marked as being parsed is being parsed.
NobodyWaitsForNobody ==
    /\ \A r \in Requests : at[r] = "wait" =>
          waitsFor[r] \in done \/ at[waitsFor[r]] \in Parsing
    /\ \A i \in Ids : inflight[i] # None =>
          at[inflight[i]] \in Parsing /\ target[inflight[i]] = i

\* "entries are freed even if never requested again" (envcache.go:91): every entry has
\* a timer that is still to fire.
EntriesHaveTimers == \A i \in Ids : entries[i] # None => entries[i] \in timers
============================================================================
