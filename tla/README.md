# A TLA+ development of Mailpit

Mailpit is an email testing server: it accepts mail over SMTP, stores it in an
SQLite database, and shows it over an HTTP API, a web interface that web
sockets keep up to date, and POP3. These modules model the parts of it whose
correctness depends on the order in which things happen, check them with TLC on
small instances, and prove the main results with TLAPS for every instance.

Source paths below are relative to `src/`.

## The system

| component | state | operations | hard behaviour |
|---|---|---|---|
| SMTP session (`internal/smtpd/smtpd.go`) | locals of `serve`: `gotEHLO`, `from`, `gotFROM`, `to`, `hasRejectedRecipients`; fields of `session`: `tls`, `authenticated`, `username`, remote names | one per SMTP command; DATA is two, before and after the body | any order of commands; refusals, timeouts and handler errors in the middle of an envelope; state cleared by hand in many places |
| Message store (`internal/storage/messages.go`, `search.go`, `cron.go`, `utils.go`, `database.go`) | tables `mailbox`, `mailbox_data`, `message_tags`; one connection; `StatsDeleted` | `Store`, `DeleteMessages`, `DeleteSearch`, `DeleteAllMessages`, `pruneMessages`; list, search, read status | requests and the cron job interleave between statements; failed statements; process death; waiting for the one connection |
| Tags (`internal/storage/tags.go`, `tagfilters.go`) | tables `tags`, `message_tags` | set, add, delete, rename, prune | every statement commits by itself |
| Envelope cache (`internal/storage/envcache.go`) | entries, in-flight parses, timers | get, store, expire, invalidate | a parse overlaps a deletion; a panic in the parser; a timer of an older entry |
| Notifications (`internal/storage/notifications.go`, `server/websockets`, `server/webhook`) | the hub's clients, their buffers, the pending flag | broadcast, register, unregister, delayed stats | a goroutine per event, slow clients |
| SMTP server loop (`smtpd.Server`, `internal/connlimit`) | open sessions, limiter, `inShutdown` | accept, refuse, back off, close | `Close` while `Accept` waits; slots given back by deferred calls |
| SMTP intake (`internal/smtpd/main.go`, `relay.go`, `forward.go`, `bouncerules`, `chaos`) | duplicate IDs, rules | `SaveToDatabase`, relay, forward | partial failure: relayed but not stored; retries |
| POP3 (`internal/pop3`) | session state, list of messages, deletion marks | USER, PASS, STAT, LIST, UIDL, RETR, TOP, DELE, RSET, QUIT | the mailbox changes under a session |
| HTTP API (`server`, `server/apiv1`) | none of its own | handlers over the store | concurrency of the store |
| Link check (`internal/linkcheck`) | registry of limits per domain, cache of results | check, wait for a token and a slot, evict | overlapping checks; a full registry; clients that leave |
| Screenshot proxy (`server/handlers/proxy.go`) | table of permitted addresses per message | fetch, record what a stylesheet names, clean up | the table expires, the message is deleted, between two steps |
| Statistics (`internal/stats`, `internal/prometheus`) | counters, the cached version | log, load, look the version up | bursts of requests; failures and back-off |
| Dump, ingest, reindex; HTML and spam check; thumbnails; configuration; web interface | mostly none | | not modelled, see the end |

How they interact: each SMTP connection has a goroutine that runs
`session.serve`; the body of a message goes to `MsgIDHandler`
(`SaveToDatabase`), which relays and forwards it and calls `storage.Store`. HTTP handlers, POP3 sessions
and the cron goroutine call the store too. The store shares one `sql.DB` with one
connection (`SetMaxOpenConns(1)`), so a statement or a whole transaction is what
excludes others. After a change the store broadcasts an event to the hub, which hands
it to each web client's buffer.

What makes each component correct:

* session: the envelope given to the handler is the one the replies described; only a client
  that TLS and authentication settings admit has an open transaction; a 250 is kept.
* store: messages appear whole, an acknowledged message survives until it is removed,
  nothing removed comes back, nobody waits for the connection forever, the limit is restored,
  clients hear of every removal.
* tags: names and IDs are unique; a message shows only tags it was given; an operation nobody disturbs is exact; a tag in use is not pruned.
* cache: one parse per burst, every requester gets the same result, a deleted message is cached by no new parse
  (a deletion by search, which clears nothing, excepted).
* notifications: what a connected browser receives has no gaps; after every change some event with the counts is still to come.
* server loop: no more sessions than the limit, every slot comes back, `Close` lets at most one more session in.
* intake: an acknowledged message is stored or there is a reason known to the client, a refused one goes nowhere,
  recipients are respected, the counters tell the truth.
* POP3: a session's numbers keep naming the same messages, QUIT deletes exactly what was marked, an answer is read whole.
* link check: the links of a domain are tested within its limits; a check's results are complete, fresh and of the right server.
* proxy: it fetches only what a message links or its stylesheets name, and refuses no link of the message.
* statistics: lookups of the version keep their distance.

## Modules

| module | what it is |
|---|---|
| `MailTransaction` | abstract: how an envelope may be built and handed over |
| `SmtpSession` | `session.serve`; implements `MailTransaction` |
| `MessageStore` | abstract: messages appear, are acknowledged, and leave for good |
| `Mailbox` | `internal/storage`, statement by statement; implements `MessageStore` |
| `Tags` | the statements of `tags.go`, each committed by itself |
| `EnvelopeCache` | `envcache.go`, one step per critical section |
| `Hub` | `server/websockets`: the hub, and each browser's channel and pumps |
| `Viewers` | requests that read, mark and delete; composes `EnvelopeCache` and `Hub` with the delayed statistics |
| `AcceptLoop` | `Server.Serve` over `internal/connlimit` |
| `Intake` | `SaveToDatabase`: what happens to a message between DATA, or a send request, and the answer |
| `Delivery` | composes `AcceptLoop` and `Intake`; implements `MessageStore` for the clients of SMTP and of the send API |
| `Pop3` | `internal/pop3` with the clients of `internal/pop3client` |
| `LinkCheck` | `internal/linkcheck`: checks, registry of limits, cache of results |
| `AssetProxy` | `server/handlers/proxy.go`: fetches and the table of permitted addresses |
| `VersionCheck` | `internal/stats`: the cached version and the counters behind one lock |
| `Outbound` | composes `LinkCheck` and `AssetProxy` over one mailbox, beside `VersionCheck` |
| `MCSmtpSession`, `MCMailbox`, `MCTags`, `MCViewers`, `MCDelivery`, `MCPop3`, `MCOutbound` | the instances TLC checks |
| `SmtpSession_proofs`, `Mailbox_proofs`, `Tags_proofs`, `TagsExact_proofs`, `Viewers_proofs`, `Delivery_proofs`, `Pop3_proofs`, `Outbound_proofs` | the theorems |

### SmtpSession

The variables are the locals and fields named above, `srv` (the settings, chosen in
`Init` and then fixed), `phase` (reading a command, reading the body, closed), the
class of the last `reply`, and `handed`, the last call of the handler. Two
history variables are not in the code: `told`, the envelope as the replies describe it to the
client, and `opener`, the username at the accepted MAIL; a third, `misled`, says that an error of the handler began with a 2xx
code, so that the client takes for delivered an envelope that `serve` still holds. Each command of the `switch` in
`serve` is one action with one disjunct per exit (`break`, `continue`, the success
path). `Data` ends with the 354 reply, and `DataComplete`, `DataRefused` and `DataAborted` are
what can come out of `readData` and the handler. The outcomes of address and parameter syntax, of
chaos triggers, of AUTH exchanges and of the handler are chosen; an error of the handler is one of five classes of text, of which
`checkErrFormatRE` lets those with a code from 200 to 599 through as the reply (`Errors`, `ErrorReply`). Note two properties of
the code that the model keeps: MAIL is refused while `to` is not nil, so a second
MAIL without recipients replaces the sender, and CRAM-MD5 authenticates without setting `username`.

### Mailbox

An operation is a program: the sequence of its statements, in the order of the code. `op`, `pc` and
`sel` (the IDs it works on) are the locals of each goroutine. `db` is what the connection sees and
`committed` what is on disk; `conn` is the goroutine that has a transaction open. `Begin` waits for the
connection and takes it; every statement outside a transaction waits for it too; a statement of a
transaction needs to hold it. A statement whose error the code ignores or only logs is written with
"try". `Fail` is the failure of any one database statement, with rollback and return;
`Crash` is the death and restart of the process. Abstractions: rows are IDs; the tags of a message
are one row; `pruneUnusedTags`, `addDeletedSize` and `vacuumDb` change tables that are not modelled
and only take their turn; `DeleteSearch` may select any messages; the cron job may select
any messages (maximum age), as long as it selects the oldest ones over `MaxMessages`, up to `PruneLimit`: the 5000 of one pruning
run, after which the next minute's takes the rest. The demo mode's offset of 500 is left out. `announced` is the set of removals that
web clients have been told of: a "delete" event names one message, "prune" and "truncate"
make `AppNotifications.vue` fetch the mailbox again, and so does a reconnection after a
crash. A crash is the death of the process, not of the machine: with WAL and
`synchronous=NORMAL` a power failure may also lose committed transactions.

### Tags

`tags` and `message_tags` are the tables, `lastId` what AUTOINCREMENT remembers, `work` the locals of each goroutine:
the operation, its next statement (`stmt`), and the names and IDs it has read. A request begins with `StartSet`,
`StartRename`, `StartDrop`, or with the transactions of `Store` and of a deletion that go before `SetMessageTags` and
`pruneUnusedTags` (`StartStore`, `StartDelete`); that of `DeleteAllMessages` (`DeleteAll`) empties both tables at any time. The other actions are single statements. A request that names several
messages is several sets. `Fail` is the failure of a statement: two of them are not returned, the read of `getMessageTags` and
the second query of `RenameTag`, whose error counts as "the name is free". Foreign keys are not enforced (no
`PRAGMA foreign_keys`), so rows may outlive their tag and their message. Abstractions: names are compared after cleaning
and folding; a message has a row or not, so two rows that overlapping requests insert are one; a failed read has read
nothing. History: `asked`, the names a message was given, renames included, and `alone`, that nothing has overlapped the
operation.

### EnvelopeCache, Hub and Viewers

In `EnvelopeCache` each critical section of the cache's lock is one step: a look-up (`Get`), the store of a result, a
timer, an invalidation. A request makes one call, so an entry, its timer and its `envelopeInflight` are named by the request that
parsed it; that is what tells an entry from its successor for the same ID. The clock is left out: an entry may expire at any
time. A parse may fail or panic; after a panic the waiters get the error and the parsing goroutine returns nothing.

In `Hub` one goroutine takes registrations, unregistrations and broadcasts, one turn each; every event is handed over by a
goroutine of its own (`sending`), a client whose buffer is full is dropped, and the two pumps of a client end it from both sides.
`hubLog` and what a browser has received are history.

In `Viewers` a request is a program, the sequence of its steps: reading a message looks into the cache and marks it read; marking
and deleting change rows, invalidate entries and announce. A statement is one step, and so is a deletion's transaction, which
`Mailbox` takes apart. `DeleteSearch` is the one deletion that does not invalidate. `BroadcastMailboxStats` is the pending flag, its delay, the count and the event.

### AcceptLoop, Intake and Delivery

`AcceptLoop` is `Serve`: look for `Close`, `Accept`, take a slot or refuse, count the session, serve it in a goroutine whose
deferred calls give the slot back and uncount it, each its own step; an error of `Accept` doubles a delay up to a maximum, or ends the
loop. `pop3.serve` is the same loop without sessions to count and without `Close`.

`Intake` takes one attempt through the recipients check, the bounce rules and the Return-Path, the look for a duplicate, relay, forward,
the Bcc header (its text is left out, its failure is not), the store and its tags, and the counters: every evaluation of the rules, query,
dialogue with another server and statement is one step, and attempts interleave. The rules in force change under them. A message is its
Message-ID and whether it can be parsed; regular expressions are the sets of recipients they match; a reply is the first digit of
its code. An attempt that was answered with an error may be followed by another one that brings the same message: the client's retry.

In `Delivery` a connection that `AcceptLoop` serves brings at most one message; attempts that are no connection are requests to the
send API. `Promised` are the 2xx answers that are Mailpit's own and for messages it can show; with them as the acknowledgements and the
attempts as the IDs, the server has to be to its clients what `Mailbox` is to `SaveToDatabase`: a `MessageStore`.

### Pop3

A session is `handleClient`: state, list of messages read at the login, marks, and where it is in its command. The client sends a command,
reads the status line and, when the command has data, reads on to the line with a dot, as `pop3client` does. The answer is the
sequence of lines the code writes (`ok`, `err`, `text`, `dot`), path by path. The mailbox changes under the session at any time: messages
arrive and others delete. QUIT's deletions are one step. Either side may lose the connection. History: `seen`, the messages the
client has been shown under its numbers, `told`, what it was told is marked, `removed`, what its session deleted, and `confused`,
sessions in which a dotted body has been sent unstuffed. What such a session's client takes for answers is not known any more, so the
properties of the run `pop3` say nothing of it; the run `pop3_top` shows how it comes about.

### LinkCheck, AssetProxy, VersionCheck and Outbound

In `LinkCheck` a check starts a job for each link that is not in the cache. A job looks its domain up in the registry, waits for a token
and a slot of its `domainState`, asks, stores the result and gives the slot back. Where its check follows redirects, the same
request goes on to other links (`Redirect`, two times, for `CheckRedirect` refuses after three requests), which takes neither a token nor a slot of
the domain it reaches; `via` are the links asked so far, and a result keeps the one it comes from (`from`), which is what decides
whether it is blocked. A state is an object: jobs keep it after the registry has
dropped it. A `Tick` is a second, by which each limiter gains a token. Clients may leave, which ends what waits.

`AssetProxy` is the handler with its two looks at the table (`hasAsset`, `recordAsset`), the fetch in between, and the cleanup that
ages entries and drops them; each holds `assetsMutex`. `VersionCheck` is `Load`'s double-checked look at the cached version, with
Durations of `Width` bits so that `1<<errCount` overflows as in the code; the clock counts minutes. `Outbound` lets checks and fetches
read their message first, which may be deleted before, between and after.

## Runs

| run | module | question | bounds |
|---|---|---|---|
| `smtp_session` | MCSmtpSession | are envelopes, entitlement, identity and acknowledgements right for every order of commands? | 2 addresses, of which 1 is allowed, 1 user, 2 recipients, every valid combination of settings |
| `smtp_starttls` | MCSmtpSession | does STARTTLS discard what was learnt before? (no) | same |
| `mailbox` | MCMailbox | do overlapping operations, a failure and a crash keep the tables right, does every operation return, every removal reach clients, the limit come back? | 2 request goroutines and cron, 2 at a time, 2 messages and a third that comes during a prune, limit 1, 1 fault |
| `mailbox_chunks` | Mailbox | is a search deletion announced whatever its size? (no) | 1 request goroutine, 3 messages, chunks of 2, threshold 1, no fault |
| `tags_safety` | MCTags | do overlapping changes of tags keep names unique and messages free of other tags, and is an undisturbed operation exact? | 2 goroutines, 2 messages, 2 names, 2 tag IDs, 1 fault |
| `tags_prune` | MCTags | does pruning spare tags in use? (no) | same, no fault |
| `viewers` | MCViewers | is every answer whole and every change counted, does a deleted message stay out of the cache, is no event skipped? | 1 message, 3 requests, 1 browser with a buffer of 1 |
| `delivery` | MCDelivery | do slots add up, is an acknowledged message kept and a refused one nowhere, do the counters agree, is the server a `MessageStore`? | 3 connections for 2 slots, 1 send request, 2 recipients, 4 messages, 6 settings |
| `pop3` | MCPop3 | does QUIT delete exactly what was marked, is every answer but TOP's of a dotted body read whole, has every command one? | 1 session, 3 messages, pages of 2, 2 failed logins, 1 dotted body |
| `pop3_top` | MCPop3 | is every answer byte-stuffed? (no) | same |
| `outbound` | MCOutbound | are domains spared, answers fresh, assets exact and lookups apart? | 2 checks of links of 3 domains for a registry of 2; 2 fetches for 2 messages; 3 version requests, Durations of 6 bits, 8 minutes, 5 failures |
| `outbound_redirects` | MCOutbound | are all requests to a domain within its limit? (no) | same |

Why the bounds are enough. A session has no partner whose steps interleave with it: two addresses tell one sender or
recipient from the next, and the limit of two recipients is reached and passed. In the mailbox two requests and the cron job are the
three roles that can overlap; two messages with a limit of one let a selection be stale, empty, partly gone
or complete. `Affordable` in `MCMailbox` bounds the starts of operations and the faults, never a statement: two goroutines are at
work at once; the second request goroutine joins only where nothing has failed and then stores or deletes by search, whose transaction has
the same statements as that of `DeleteMessages`; after the fault requests store and delete everything; a third message
arrives only while the cron job prunes a mailbox over its limit, with a prune that takes one message at a time (`PruneLimit` = 1), so that the
limit is missed by one prune and reached by a later one. The proofs cover every combination. Deadlock is checked for the mailbox. A
session ends, so its runs say `CHECK_DEADLOCK FALSE`. The chunk run uses a chunk of 2 and a threshold of 1
for the code's 1000 and 200; a last chunk no larger than the threshold is what matters. Two tag IDs let a tag be deleted and
made again, which is when the ID of the first one could be given a second time; two goroutines and two names give every pair of
overlapping statements.

The bounds of the four composed modules are in the operator `Affordable` of their MC modules, which every step has to keep; it says which of the
parts run together. In `viewers` two requests of any kind meet without a browser, two that mark or delete with one, and
three that read and delete without one: three is what it takes for a parse, its waiter and a deletion. A buffer of one is full after
the first event. In `delivery` either three connections compete for two slots, with errors of `Accept` and `Close`, or two
attempts bring messages, of which the second may be a retry, a concurrent copy or one without ID, oddly formed
or not parsable, under six settings that between them turn every branch on. The parts share no variable but for the connection that
brings a message, and the proofs have no such bound. In `pop3` a page of two makes the load of three messages take two pages,
between which the mailbox changes. In `outbound` three domains with room for two make the registry evict; one token and one slot
make jobs wait for either; the first check may follow redirects along a chain of the three links, the last of which is internal, and ends before the
clock moves; six bits make the back-off overflow at the fourth failure, as 64 bits do at the 28th.

Fairness. The session's properties need none. In the mailbox each goroutine's next statement is strongly fair:
`database/sql` queues the goroutines that wait for a connection and hands it to the next one, so a statement that can run
again and again does run. The cron job sleeps a minute and runs again (weak fairness of `Start`); in `MCMailbox`, where the bound
holds its start back while two requests are at work, that is strong fairness of the start within the bound, and nothing is
assumed that the code does not give: requests end, and a minute ends. Requests are not assumed to come. `MailboxIsTrimmed` says that once
no message is being stored any more the mailbox comes to its limit and stays there. In `pop3` the server's goroutine
and a client that waits for an answer go on (weak fairness of `Serve` and `Read`): neither can be kept waiting by
another process. The other modules check safety only.

## What the checks show

Five properties that comments or tests state are violated by the code:

* `StartTLSDiscardsPriorKnowledge`: the comment at `internal/smtpd/smtpd.go:781` says that all prior
  knowledge is discarded; `gotEHLO`, `authenticated` and `username` stay.
* `RemovalsAreAnnounced` with more matches than one chunk: after the loop at
  `internal/storage/search.go:185` the variable `ids` is only the last chunk.
* `PruneTakesUnusedTags`: `pruneUnusedTags` "will delete all unused tags" (`internal/storage/tags.go:275`); it deletes the
  IDs it selected earlier, and a tag attached in between goes with them.
* `DataIsByteStuffed`: the comment at `internal/pop3/server.go:351` says that lines that begin with the termination octet are
  stuffed, and `internal/pop3/pop3_test.go:317` says that it checks TOP for that; TOP replaces `"\n."` in the body alone
  (`server.go:391`), so a body that begins with "." is sent unstuffed.
* `TrafficIsCapped`: "refill caps sustained traffic to any one registered domain at 1 req/s across all concurrent API calls"
  (`internal/linkcheck/throttle.go:17`); requests that redirects cause take no token (`internal/linkcheck/status.go:88`).

Everything else holds. In `Tags` this includes that rows left behind by races never attach a message to another
tag (without AUTOINCREMENT they would), and that the UNIQUE index is what keeps two renames apart.

Some properties hold only because they except what the code does; each says so in its comment. In four places the exception
is also at odds with what a comment says:

* Cache (`DeletedStaysOutOfTheCache`): `invalidateEnvelopeCache` is for "when a message is deleted" (`internal/storage/envcache.go:124`),
  and `DeleteSearch` (`internal/storage/search.go:148`) never calls it: what a search deletes is served from the cache until its entry
  expires. So is, for a few seconds, a message whose parse was under way at its deletion.
* Link check (`DomainsAreSpared`): dropping a state with a full bucket has "no security cost" (`internal/linkcheck/throttle.go:57`);
  when jobs hold it the domain gets a second state, and more slots and tokens than its own.
* SMTP session and intake (`AcknowledgedIsHandled`, `AcknowledgedIsKept`): `checkErrFormatRE` "matches SMTP error responses"
  (`internal/smtpd/smtpd.go:45`) and lets 2xx and 3xx through. With `ForwardSMTPErrors`, for relaying or forwarding, a handler error
  that begins with a 2xx code is passed on: the client believes its message accepted, and `serve` keeps the envelope open.
* Intake: SaveToDatabase is to "add missing email addresses to Bcc" (`internal/smtpd/main.go:133`); for a message that has a Bcc header
  line 138 overwrites the missing addresses with that header. The text of headers is not modelled, so no property says it.

Of the others no document speaks, but a reader should know them:

* POP3: `getTop` returns the whole body for any positive number of lines (`functions.go:65`; the comment at line 53 says "the next
  x lines"). QUIT is answered before the deletion, which may fail, and "prune" is broadcast even then (`server.go:121`).
* Mailbox: `StatsDeleted` counts selections made before the transaction (`internal/storage/messages.go:778`, `utils.go:20`), so
  two deletions that overlap count a message twice.
* SMTP intake: a message that arrives again while its first copy is being stored is stored twice; when the tags of a stored message
  cannot be written, the client is answered with an error, and its retry stores a second copy.
* Statistics: from the 28th failure on, `1<<errCount` minutes overflow a Duration (`internal/stats/stats.go:81`) and the wait may be negative: the next
  request looks the version up at once; the lock is held during the lookup, so counting an accepted message waits for it; `Load` reads the counters without it.
* Link check: the cache ignores whether redirects were followed, and keeps the error of a request whose client left
  (`internal/linkcheck/status.go:56`): a check that does not follow redirects may be told what one that does has found, a public link
  that redirects to a private address being blocked among it.
* Proxy: the addresses of a rewritten stylesheet are permitted for two minutes at most, and are refused after that.
* A delete request whose body cannot be decoded deletes everything (`server/apiv1/messages.go:192`).

Hazards seen and not listed in `PROJECT.json`, for want of a property: the order of "new" and "delete" for one message
(`storage/messages.go:202`), a failed read of tags that makes a set only add (`tags.go:41`), a failed query taken for a free name
(`tags.go:231`), an empty list of IDs (`messages.go:744`), `DeleteSearch` that returns before it announces (`search.go:238`), and the loop of
`Shutdown`, which counts to 300 without sleeping (`smtpd.go:383`). Nothing in the program calls `Shutdown` or `Close` of the SMTP server; its tests
call `Close`.

## What is proved

`SmtpSession_proofs`, for all sets of addresses, users, settings and every recipient limit. The inductive invariant `IInv` is the
conjunction of `TypeOK`, `EnvelopeAgreement`, `OpenTransactionIsEntitled`,
`OneIdentityPerTransaction` and `DataHasEnvelope`: the last one is needed because the checks of DATA
are made before the body is read and the handler is called after it. Each part has a lemma with one step per
action. `AcknowledgedIsHandled` and the refinement of `MailTransaction` follow from one step and `IInv`.

`Mailbox_proofs`, for all finite sets of IDs, any goroutines, limits and numbers of faults. `TypeOK` is inductive by itself: the program
counters stay inside the programs, and IDs are selected before they are used. `DiskInv` says, for the
goroutine that has the connection, how far the tables have moved from those on disk at each
statement of each program (`TxState`), and that they are equal when nobody has it. `StoreInv` says that the
ID of a running `Store` is its own, is not on disk before the commit, and is there or removed after it. With
these, `TablesAgree` holds, and every commit is one step of `MessageStore`, every other statement none. `TagRowsGoAlong` adds `TagInv`:
which tag rows a deletion under way has already taken, per statement of each program, so that the commit that removes a message
removes its rows. `NobodyWaitsForHimself` is the part of `DiskInv` that `OperationsReturn` rests on: whoever has the connection is at a statement of
his transaction. `AcknowledgedSurvives` is what a caller concludes from the refinement alone.

`NoRemovalIsForgotten` is the safety half of `RemovalsAreAnnounced`. `DebtInv` says that a removal is told or some goroutine is past its
commit and before its event (`Owes`); a commit makes its goroutine owe what it removed (`CommitOwes`), the event pays (`EventTells`), and nothing in between,
failures included, cancels a debt without the operation returning an error (`DebtsAreKept`). The hypothesis `SearchesAreTold` excludes the
finding of `mailbox_chunks` and nothing else: a search deletion is one chunk, or its last chunk is larger than the
threshold above which clients reload. `DebtsArePaid` then reduces the announcement of each removal to the return of the goroutine that owes it, by
temporal logic.

`Tags_proofs`, for all messages, names, goroutines and bounds. `ShownTagsWereGiven` is not inductive: a goroutine that has read an
ID writes a row with it later. `IInv` adds `Given` for the locals of every goroutine (the ID it holds belongs, as long as the tag is
there, to a name its message was given) and `IdsGiven` (no row and no local has an ID newer than `lastId`, so a new tag
finds no rows). `Change` says what one step may do to the tables for the locals of all others to stay good (`GivenKept`); each action is shown
to be such a change, and most follow from `ShrinkStep`, for steps that only delete.

`TagsExact_proofs`: `ExactInv` adds to the invariant of `Tags_proofs` a `Shape` (which statements go with which operation) and, for operations
that nothing has overlapped, what the tables contain at each statement (`Exact`). Every statement of such an operation is shown to be progress
towards the promise, which the last statement keeps.

`Delivery_proofs`: `LoopInv` says at each position of the loop and of each connection how many slots are taken and sessions counted;
the invariant of `Intake` says for each step of an attempt what it has already decided, relayed, stored and counted. The two are over
disjoint variables, so each action disturbs one. `ServerKeepsThePromise` maps each step of an attempt to a step of `MessageStore`: the commit adds, the
answer after the tags acknowledges, every other answer promises nothing, and an attempt never stores twice because its message is not
in `stored` before `Store`.

`Viewers_proofs`: `CacheInv` is a condition per request (where it is and what its in-flight record holds) and one per
message (entry, parse under way, timers); `HubInv` is one per browser (channel, pumps, registration) and one that relates its stream to the
hub's log (`Follows`); `CountInv` says that a request with an uncounted change has yet to announce it, which rests on the order of the steps
in the programs; `DeleterInv`, that a message which has gone was taken by a request whose deletion is done, and `DeletionInv`, that rows go before the
cache is cleared, if the deletion clears it, and what is cached after that.

`Pop3_proofs`: `PopInv` relates, per session, what the client waits for, what is on the wire and what the server is
doing (`Dialogue`), and the marks, the client's knowledge of them and what was deleted (`Service`). Every command is shown to answer with one answer of
the shape its client expects and to change the marks as that answer says; every step is a step of one session. `DeletionInv` follows the marks to the deletion: they are messages of the session's list, and once
the deletion is done none of them is in the mailbox, where no such message can arrive again. What a deletion leaves is a recursive function
(`Without`); its elements are found by looking for the first prefix with too many or too few, which the well-foundedness of the numbers
gives (`LeastNumber`) without an induction theorem.

`Outbound_proofs`: the conjunction of four invariants. `LimitInv`: a job holds its domain's state unless the domain was evicted, the slots
taken are the jobs that ask, and requests made, tokens paid for and tokens left never exceed the burst plus the time; a redirect disturbs none of
it (`LimitRedirect`), which is the trouble with redirects. `ResultsInv`: results are sound
when stored and as old as the cache allows, and the links a job has asked are a chain of redirects from its own (`IsLed`), so the last one is one
that its results may come from (`LedIsAnOrigin`), now and after further checks begin (`OriginsGrow`); `ProxyInv`: every recorded address is a link of the message or named by a stylesheet
that was; `VersionInv`: a request that looks the version up holds the lock, and the expiry it will set keeps the distance.

The assumptions are the named ones in the modules: `Cron` and `Nobody` are not request goroutines, `None` is no message or name, the null sender is not an
address, limits are positive numbers, the sets that are counted are finite, each constant function has the domain it needs. TLC evaluates them in each run.

Only model-checked: liveness (`RemovalsAreAnnounced`, `OperationsReturn`, `MailboxIsTrimmed`, `EveryCommandIsAnswered`), which is out of
the prover's reach; of the first, `DebtsArePaid` proves what does not depend on scheduling, per goroutine and message. Every invariant,
action property and refinement of the passing runs is a theorem. Types of `Viewers` and `Delivery` are proved (`TypeIsOK`) and not run.

## Left for later

The chunks of the reindex; webhooks; `DisableLinkCheckRateLimit`; the auto-vacuum, whose idle minutes need the lengths of two periods
(`internal/storage/cron.go:33`; with the double count of `messages.go:778` the hazards of `PROJECT.json` without a property); tag rows within the steps of `Viewers`, so that tag
events are part of the streams; liveness of the cache and the hub.

## Not modelled

* Dump, ingest and reindex: batch commands of one goroutine.
* The query builder of the search: text into SQL; what it selects is any set of messages in `Mailbox`.
* MIME parsing, the HTML and spam checks, thumbnails: analysis of one message, without state of their own.
* Configuration and the command line: parsed once at the start; the results are the constants of the modules.
* The web interface, beyond its reaction to events in `Mailbox` and its end of the web socket in `Hub`.
* Where tags come from (filters, plus addresses, headers, usernames): text matching; `Tags` takes any set of names.
* Authentication of HTTP requests, release, chaos settings, and the handlers that only show.
* Prometheus, which copies counters on a timer; rqlite and read-only deployments of the store.

Text of replies, address syntax, sizes and time are abstracted as described above.
