-------------------------------- MODULE Pop3 --------------------------------
(***************************************************************************)
(* internal/pop3: sessions over a mailbox that others change, with clients *)
(* that speak as internal/pop3client does.                                 *)
(*                                                                         *)
(* A client sends a command and reads its answer before the next one; the  *)
(* server reads and answers one command at a time.  The deletions of QUIT  *)
(* are one step: Mailbox takes them apart.  The loop that accepts          *)
(* connections is that of AcceptLoop.                                      *)
(* Abstracted: an answer is a sequence of lines, each "ok", "err", "text"  *)
(* (any number of lines of data) or "dot", the line that ends the data;    *)
(* LIST stands for UIDL too, and "other" for unknown and overlong lines.   *)
(***************************************************************************)
EXTENDS Naturals, Sequences, FiniteSets

CONSTANTS
    Sessions,
    Ids,
    PageSize,       \* messages a session is given (100)
    MaxFailures,    \* failed logins after which it is disconnected (5)
    DottedBodies    \* messages whose body begins with a line that is one dot

ASSUME BoundsAssumption == PageSize \in Nat /\ MaxFailures \in Nat \ {0}
ASSUME DottedAssumption == DottedBodies \subseteq Ids

VARIABLES
    box,            \* the mailbox, the newest message first
    state, user, failed, messages, toDelete,    \* per session: locals of handleClient
    at,             \* per session: what handleClient does
    line,           \* per session: the command sent and not yet read
    wire,           \* per session: the lines sent and not yet read
    client,         \* per session: what its client does
    asked,          \* per session: the command whose answer the client reads
    seen,           \* history: what messages was when the session was signed in
    told,           \* history: messages the client was told are marked
    removed,        \* history: messages the session has deleted
    undone,         \* history: sessions whose deletion failed
    confused        \* history: sessions that were sent a body's own dot

serverVars == <<state, user, failed, messages, toDelete, at>>
historyVars == <<seen, told, removed, undone, confused>>
popVars == <<box, serverVars, line, wire, client, asked, historyVars>>

Numbers == 0..(PageSize + 1)
NoCommand == [cmd |-> "none", arg |-> 0]

\* The arguments of a command: for USER whether there is one, for PASS whether it is
\* right (1), wrong (2) or missing (0), for the others a number, 0 when it is none.
Logins == [cmd : {"USER"}, arg : 0..1] \union [cmd : {"PASS"}, arg : 0..2]
Listings == [cmd : {"LIST"}, arg : Numbers]
Downloads == [cmd : {"RETR", "TOP"}, arg : Numbers]
Marks == [cmd : {"DELE"}, arg : Numbers] \union [cmd : {"RSET"}, arg : {0}]
Others == [cmd : {"NOOP", "QUIT", "CAPA", "other"}, arg : {0}]
Totals == [cmd : {"STAT"}, arg : {0}]

Commands == Logins \union Listings \union Downloads \union Marks \union Others \union Totals

\* The commands whose answers the client reads to the dot.
Multi(c) == c.cmd \in {"RETR", "TOP", "CAPA"} \/ (c.cmd = "LIST" /\ c.arg = 0)

PopTypeOK ==
    /\ box \in Seq(Ids)
    /\ state \in [Sessions -> {"AUTHORIZATION", "TRANSACTION", "UPDATE"}]
    /\ user \in [Sessions -> BOOLEAN]
    /\ failed \in [Sessions -> 0..MaxFailures]
    /\ messages \in [Sessions -> Seq(Ids)]
    /\ \A s \in Sessions : Len(messages[s]) <= PageSize
    /\ toDelete \in [Sessions -> SUBSET Ids]
    /\ at \in [Sessions -> {"off", "read", "load", "update", "closed"}]
    /\ line \in [Sessions -> Commands \union {NoCommand}]
    /\ wire \in [Sessions -> Seq({"ok", "err", "text", "dot"})]
    /\ client \in [Sessions -> {"off", "idle", "status", "data", "gone"}]
    /\ asked \in [Sessions -> Commands \union {NoCommand}]
    /\ seen \in [Sessions -> Seq(Ids)]
    /\ told \in [Sessions -> SUBSET Ids]
    /\ removed \in [Sessions -> SUBSET Ids]
    /\ undone \in SUBSET Sessions
    /\ confused \in SUBSET Sessions

PopInit ==
    /\ box \in {<<>>} \union {<<i>> : i \in Ids}
    /\ state = [s \in Sessions |-> "AUTHORIZATION"]
    /\ user = [s \in Sessions |-> FALSE]
    /\ failed = [s \in Sessions |-> 0]
    /\ messages = [s \in Sessions |-> <<>>]
    /\ toDelete = [s \in Sessions |-> {}]
    /\ at = [s \in Sessions |-> "off"]
    /\ line = [s \in Sessions |-> NoCommand]
    /\ wire = [s \in Sessions |-> <<>>]
    /\ client = [s \in Sessions |-> "off"]
    /\ asked = [s \in Sessions |-> NoCommand]
    /\ seen = [s \in Sessions |-> <<>>]
    /\ told = [s \in Sessions |-> {}]
    /\ removed = [s \in Sessions |-> {}]
    /\ undone = {}
    /\ confused = {}
----------------------------------------------------------------------------
(* The client                                                              *)

\* NewConn: the server greets, the client reads that as an answer.
Connect(s) ==
    /\ at[s] = "off"
    /\ at' = [at EXCEPT ![s] = "read"]
    /\ wire' = [wire EXCEPT ![s] = <<"ok">>]
    /\ client' = [client EXCEPT ![s] = "status"]
    /\ UNCHANGED <<box, state, user, failed, messages, toDelete, line, asked, historyVars>>

Send(s, c) ==
    /\ client[s] = "idle"
    /\ line' = [line EXCEPT ![s] = c]
    /\ asked' = [asked EXCEPT ![s] = c]
    /\ client' = [client EXCEPT ![s] = "status"]
    /\ UNCHANGED <<box, serverVars, wire, historyVars>>

\* What the client learns from an answer to DELE and RSET.
Learnt(s, answer) ==
    IF answer = "ok" /\ asked[s].cmd = "DELE"
    THEN told[s] \union {seen[s][n] : n \in {asked[s].arg} \intersect (1..Len(seen[s]))}
    ELSE IF answer = "ok" /\ asked[s].cmd = "RSET" THEN {} ELSE told[s]

\* Cmd and ReadOne: anything but "ok" is an error, after which no data is read.
ReadStatus(s) ==
    /\ client[s] = "status"
    /\ wire[s] # <<>>
    /\ LET answer == Head(wire[s]) IN
       /\ client' = [client EXCEPT ![s] = IF answer = "ok" /\ Multi(asked[s]) THEN "data" ELSE "idle"]
       /\ told' = [told EXCEPT ![s] = Learnt(s, answer)]
    /\ wire' = [wire EXCEPT ![s] = Tail(@)]
    /\ asked' = [asked EXCEPT ![s] = NoCommand]
    /\ UNCHANGED <<box, serverVars, line, seen, removed, undone, confused>>

\* ReadAll
ReadData(s) ==
    /\ client[s] = "data"
    /\ wire[s] # <<>>
    /\ client' = [client EXCEPT ![s] = IF Head(wire[s]) = "dot" THEN "idle" ELSE "data"]
    /\ wire' = [wire EXCEPT ![s] = Tail(@)]
    /\ UNCHANGED <<box, serverVars, line, asked, historyVars>>

\* The connection is closed while the client waits, or the client goes away.
ClientLeaves(s) ==
    /\ client[s] \notin {"off", "gone"}
    /\ client' = [client EXCEPT ![s] = "gone"]
    /\ UNCHANGED <<box, serverVars, line, wire, asked, historyVars>>
----------------------------------------------------------------------------
(* The server                                                              *)

Reply(s, answer) ==
    /\ wire' = [wire EXCEPT ![s] = @ \o answer]
    /\ line' = [line EXCEPT ![s] = NoCommand]

ReplyTo(s, cmds, answer) == line[s].cmd \in cmds /\ Reply(s, answer)

\* Answers that change nothing.
Same(s) == UNCHANGED <<serverVars, confused>>

Leave(s) == at' = [at EXCEPT ![s] = "closed"]

TooManyFailures(n) == n >= MaxFailures

\* "USER" and "PASS" before the login; both end the connection when something is missing.
Authorize(s) ==
    /\ state[s] = "AUTHORIZATION"
    /\ \/ /\ line[s] = [cmd |-> "USER", arg |-> 1]
          /\ user' = [user EXCEPT ![s] = TRUE]
          /\ Reply(s, <<"ok">>)
          /\ UNCHANGED <<failed, at>>
       \/ /\ \/ line[s] = [cmd |-> "USER", arg |-> 0]
             \/ line[s].cmd = "PASS" /\ (user[s] => line[s].arg = 0)
          /\ Reply(s, <<"err">>)
          /\ Leave(s)
          /\ UNCHANGED <<user, failed>>
       \/ /\ user[s] /\ line[s] = [cmd |-> "PASS", arg |-> 2]
          /\ failed' = [failed EXCEPT ![s] = @ + 1]
          /\ Reply(s, <<"err">>)
          /\ IF TooManyFailures(failed[s] + 1) THEN Leave(s) ELSE UNCHANGED at
          /\ UNCHANGED user
       \/ /\ user[s] /\ line[s] = [cmd |-> "PASS", arg |-> 1]
          /\ Reply(s, <<"ok">>)
          /\ at' = [at EXCEPT ![s] = "load"]
          /\ UNCHANGED <<user, failed>>
    /\ UNCHANGED <<state, messages, toDelete, confused>>

\* storage.List: the page of the newest messages.
Newest == SubSeq(box, 1, IF Len(box) < PageSize THEN Len(box) ELSE PageSize)

\* The answer "signed in" is on its way when the messages are read; an error leaves none.
Load(s) ==
    /\ at[s] = "load"
    /\ \E page \in {<<>>, Newest} :
          /\ messages' = [messages EXCEPT ![s] = page]
          /\ seen' = [seen EXCEPT ![s] = page]
    /\ state' = [state EXCEPT ![s] = "TRANSACTION"]
    /\ at' = [at EXCEPT ![s] = "read"]
    /\ UNCHANGED <<box, user, failed, toDelete, line, wire, client, asked, told, removed, undone, confused>>

\* Mutant: an unknown command is logged only.
UnknownUnanswered == <<>>

Unknown == <<"err">>

Misplaced(s) ==
    /\ \/ state[s] # "AUTHORIZATION" /\ ReplyTo(s, {"USER", "PASS"}, <<"err">>)
       \/ state[s] # "TRANSACTION" /\
          ReplyTo(s, {"STAT", "LIST", "RETR", "TOP", "NOOP", "DELE", "RSET"}, <<"err">>)
       \/ ReplyTo(s, {"other"}, Unknown)
       \/ ReplyTo(s, {"CAPA"}, <<"ok", "text", "dot">>)
    /\ Same(s)

\* The numbers a client may name: those of messages it has not marked.
Named(s) == {n \in 1..Len(messages[s]) : messages[s][n] \notin toDelete[s]}
InBox(i) == \E n \in 1..Len(box) : box[n] = i

Show(s) ==
    /\ state[s] = "TRANSACTION"
    /\ ReplyTo(s, {"STAT", "NOOP"}, <<"ok">>)
    /\ Same(s)

List(s) ==
    /\ state[s] = "TRANSACTION"
    /\ \/ line[s].arg = 0 /\ ReplyTo(s, {"LIST"}, <<"ok", "text", "dot">>)
       \/ line[s].arg \in Named(s) /\ ReplyTo(s, {"LIST"}, <<"ok">>)
       \/ line[s].arg \notin Named(s) \union {0} /\ ReplyTo(s, {"LIST"}, <<"err">>)
    /\ Same(s)

\* A number that is none, or that of a message marked, names nothing to download.
RetrieveNothing(s) ==
    /\ state[s] = "TRANSACTION"
    /\ line[s].arg \notin Named(s)
    /\ ReplyTo(s, {"RETR", "TOP"}, <<"err">>)
    /\ Same(s)

\* Mutant: the error does not end the command.
MissingGoingOn == <<"err", "ok", "text", "dot">>

Missing == <<"err">>

\* GetMessageRaw finds the message unless somebody has deleted it.  RETR stuffs the
\* dots after line breaks; TOP does so in the body by itself, whose first line
\* follows no line break.
Retrieve(s) ==
    /\ state[s] = "TRANSACTION"
    /\ line[s].arg \in Named(s)
    /\ line[s].cmd \in {"RETR", "TOP"}
    /\ LET i == messages[s][line[s].arg] IN
       \/ ~InBox(i) /\ Reply(s, Missing) /\ UNCHANGED confused
       \/ /\ InBox(i)
          /\ line[s].cmd = "TOP" => i \notin DottedBodies
          /\ Reply(s, <<"ok", "text", "dot">>)
          /\ UNCHANGED confused
       \/ /\ InBox(i) /\ line[s].cmd = "TOP" /\ i \in DottedBodies
          /\ Reply(s, <<"ok", "text", "dot", "text", "dot">>)
          /\ confused' = confused \union {s}
    /\ UNCHANGED serverVars

Mark(s) ==
    /\ state[s] = "TRANSACTION"
    /\ line[s].cmd = "DELE"
    /\ \/ /\ line[s].arg \in Named(s)
          /\ toDelete' = [toDelete EXCEPT ![s] = @ \union {messages[s][line[s].arg]}]
          /\ Reply(s, <<"ok">>)
       \/ /\ line[s].arg \notin Named(s)
          /\ Reply(s, <<"err">>)
          /\ UNCHANGED toDelete
    /\ UNCHANGED <<state, user, failed, messages, at, confused>>

\* Mutant: RSET takes the mailbox as it is now.
ResetReloading(s) ==
    /\ state[s] = "TRANSACTION"
    /\ ReplyTo(s, {"RSET"}, <<"ok">>)
    /\ toDelete' = [toDelete EXCEPT ![s] = {}]
    /\ messages' = [messages EXCEPT ![s] = Newest]
    /\ UNCHANGED <<state, user, failed, at, confused>>

Reset(s) ==
    /\ state[s] = "TRANSACTION"
    /\ ReplyTo(s, {"RSET"}, <<"ok">>)
    /\ toDelete' = [toDelete EXCEPT ![s] = {}]
    /\ UNCHANGED <<state, user, failed, messages, at, confused>>

Quit(s) ==
    /\ ReplyTo(s, {"QUIT"}, <<"ok">>)
    /\ state' = [state EXCEPT ![s] = "UPDATE"]
    /\ at' = [at EXCEPT ![s] = "update"]
    /\ UNCHANGED <<user, failed, messages, toDelete, confused>>

\* A line that the client has sent is read even if the client has gone since.
Handle(s) ==
    /\ at[s] = "read"
    /\ line[s] # NoCommand
    /\ \/ Authorize(s) \/ Misplaced(s) \/ Show(s) \/ List(s) \/ RetrieveNothing(s)
       \/ Retrieve(s) \/ Mark(s) \/ Reset(s) \/ Quit(s)
    /\ UNCHANGED <<box, client, asked, seen, told, removed, undone>>

\* The read fails: the client has gone, or said nothing for ten minutes.
ReadFails(s) ==
    /\ at[s] = "read"
    /\ line[s] = NoCommand
    /\ Leave(s)
    /\ UNCHANGED <<box, state, user, failed, messages, toDelete, line, wire, client, asked, historyVars>>

Without(q, S) ==
    LET kept[n \in 0..Len(q)] ==
            IF n = 0 THEN <<>>
            ELSE IF q[n] \in S THEN kept[n - 1] ELSE Append(kept[n - 1], q[n])
    IN  kept[Len(q)]

\* The deferred function: only after QUIT is anything deleted.
Update(s) ==
    /\ at[s] = "update"
    /\ Leave(s)
    /\ \/ /\ box' = Without(box, toDelete[s])
          /\ removed' = [removed EXCEPT ![s] = {i \in toDelete[s] : InBox(i)}]
          /\ UNCHANGED undone
       \/ /\ toDelete[s] # {}
          /\ undone' = undone \union {s}
          /\ UNCHANGED <<box, removed>>
    /\ UNCHANGED <<state, user, failed, messages, toDelete, line, wire, client, asked, seen, told, confused>>

\* A closed connection ends the client's waiting.
Closed(s) ==
    /\ at[s] = "closed" /\ wire[s] = <<>>
    /\ client[s] \in {"status", "data"}
    /\ ClientLeaves(s)

Serve(s) == Load(s) \/ Handle(s) \/ Update(s)
Read(s) == ReadStatus(s) \/ ReadData(s) \/ Closed(s)
----------------------------------------------------------------------------
(* Everybody else                                                          *)

Arrive(i) ==
    /\ ~InBox(i) /\ \A s \in Sessions : i \notin removed[s]
    /\ \A s \in Sessions : \A n \in 1..Len(seen[s]) : seen[s][n] # i
    /\ box' = <<i>> \o box
    /\ UNCHANGED <<serverVars, line, wire, client, asked, historyVars>>

Remove(i) ==
    /\ InBox(i)
    /\ box' = Without(box, {i})
    /\ UNCHANGED <<serverVars, line, wire, client, asked, historyVars>>
----------------------------------------------------------------------------
PopRest ==
    /\ \A s \in Sessions : at[s] \in {"off", "closed"} /\ client[s] \in {"off", "gone"}
    /\ UNCHANGED popVars

PopNext ==
    \/ \E s \in Sessions :
          \/ Connect(s) \/ ClientLeaves(s) \/ Read(s) \/ Serve(s) \/ ReadFails(s)
          \/ \E c \in Commands : Send(s, c)
    \/ \E i \in Ids : Arrive(i) \/ Remove(i)
    \/ PopRest

\* A goroutine of the server and a client that waits go on.
PopFairness == \A s \in Sessions : WF_popVars(Serve(s)) /\ WF_popVars(Read(s))

PopSpec == PopInit /\ [][PopNext]_popVars /\ PopFairness
----------------------------------------------------------------------------
(* Properties                                                              *)

\* pop3client: "The server only executes the deletions after a successful Quit()".  A
\* session deletes nothing but what its client was told is marked, under the number
\* it saw, and only after QUIT; then it deletes all of it.  Nothing is promised where the
\* deletion fails, whose error the client never sees, nor to a session that was sent a
\* body's own dot, whose client takes answers for those of other commands.
QuitDeletesWhatWasMarked ==
    \A s \in Sessions \ confused :
        /\ removed[s] \subseteq told[s]
        /\ removed[s] # {} => state[s] = "UPDATE"
        /\ at[s] = "closed" /\ state[s] = "UPDATE" /\ s \notin undone =>
              \A i \in told[s] : ~InBox(i)

\* "If any line of the multi-line response begins with the termination octet, the line is
\* byte-stuffed" (server.go:351-352), in TOP as in RETR (pop3_test.go:317-318): when a
\* client has read an answer nothing of it is left to be taken for the next one.
DataIsByteStuffed ==
    \A s \in Sessions : client[s] = "idle" => wire[s] = <<>>

\* One answer alone breaks DataIsByteStuffed, TOP's of a body that begins with a dot
\* (server.go:391): on every other path, whoever has deleted the message since, the
\* answer ends once and where the client stops reading.
AnswersAreReadWhole ==
    \A s \in Sessions : client[s] = "idle" /\ wire[s] # <<>> => s \in confused

\* A client that waits for an answer is given one, or its connection is closed.
EveryCommandIsAnswered ==
    \A s \in Sessions : client[s] \in {"status", "data"} ~> client[s] \notin {"status", "data"}
============================================================================
