----------------------------- MODULE Pop3_proofs -----------------------------
(***************************************************************************)
(* What holds of Pop3 for any sessions, messages and limits: answers are   *)
(* read whole, and QUIT deletes what the client was told is marked, all of *)
(* it and nothing else.                                                    *)
(***************************************************************************)
EXTENDS Pop3, SequenceTheorems, WellFoundedInduction, TLAPS

Domains ==
    /\ DOMAIN state = Sessions /\ DOMAIN messages = Sessions /\ DOMAIN toDelete = Sessions
    /\ DOMAIN at = Sessions /\ DOMAIN line = Sessions /\ DOMAIN wire = Sessions
    /\ DOMAIN client = Sessions /\ DOMAIN asked = Sessions /\ DOMAIN seen = Sessions
    /\ DOMAIN told = Sessions /\ DOMAIN removed = Sessions

\* The answers that may be given to a command.
Answers(c) ==
    IF Multi(c) THEN {<<"err">>, <<"ok", "text", "dot">>} ELSE {<<"ok">>, <<"err">>}

\* What the answer to a command c makes of the marks T of a session.
Effect(s, c, answer, T) ==
    IF answer = "ok" /\ c.cmd = "DELE"
    THEN T \union {seen[s][n] : n \in {c.arg} \intersect (1..Len(seen[s]))}
    ELSE IF answer = "ok" /\ c.cmd = "RSET" THEN {} ELSE T

\* Nothing is on its way between the client and the server.
Quiet(s) == wire[s] = <<>> /\ line[s] = NoCommand /\ told[s] = toDelete[s]

\* The client waits for the server, or has the answer before it.
Pending(s) ==
    \/ line[s] # NoCommand /\ wire[s] = <<>> /\ asked[s] = line[s] /\ told[s] = toDelete[s]
    \/ /\ line[s] = NoCommand /\ wire[s] \in Answers(asked[s])
       /\ toDelete[s] = Learnt(s, Head(wire[s]))
       /\ at[s] = "load" => asked[s].cmd = "PASS"

\* What client and server know of each other as long as both are there.
Dialogue(s) ==
    /\ client[s] \in {"off", "idle", "status", "data", "gone"}
    /\ client[s] = "off" => asked[s] = NoCommand
    /\ client[s] \in {"off", "idle"} => Quiet(s)
    /\ client[s] = "status" => Pending(s)
    /\ client[s] = "data" =>
          wire[s] \in {<<"text", "dot">>, <<"dot">>} /\ line[s] = NoCommand /\ told[s] = toDelete[s]

\* What the server has done, and what it will do when it reads QUIT.
Service(s) ==
    /\ messages[s] = seen[s]
    /\ at[s] = "off" => client[s] = "off"
    /\ state[s] = "UPDATE" => at[s] \in {"update", "closed"}
    /\ at[s] = "update" => state[s] = "UPDATE"
    /\ state[s] = "UPDATE" \/ line[s].cmd = "QUIT" => told[s] = toDelete[s]
    /\ removed[s] \subseteq toDelete[s]
    /\ removed[s] # {} => state[s] = "UPDATE" /\ at[s] = "closed"

Sound(s) == s \notin confused => Dialogue(s) /\ Service(s)

PopInv == Domains /\ \A s \in Sessions : Sound(s)

LEMMA PopInitInv == PopInit => PopInv
BY DEF PopInit, PopInv, Sound, Domains, Dialogue, Service, Quiet, NoCommand

LEMMA PopAnswers == PopInv => AnswersAreReadWhole
BY DEF PopInv, Sound, Dialogue, Quiet, AnswersAreReadWhole

\* The sequences that answers are made of.
LEMMA Lines ==
    /\ \A w \in {<<"ok">>, <<"err">>, <<"ok", "text", "dot">>} : <<>> \o w = w /\ w # <<>>
    /\ Head(<<"ok">>) = "ok" /\ Tail(<<"ok">>) = <<>>
    /\ Head(<<"err">>) = "err" /\ Tail(<<"err">>) = <<>>
    /\ Head(<<"ok", "text", "dot">>) = "ok" /\ Tail(<<"ok", "text", "dot">>) = <<"text", "dot">>
    /\ Head(<<"text", "dot">>) = "text" /\ Tail(<<"text", "dot">>) = <<"dot">>
    /\ Head(<<"dot">>) = "dot" /\ Tail(<<"dot">>) = <<>>
<1> DEFINE L == {"ok", "err", "text", "dot"}
<1>a. <<"ok">> \in Seq(L) /\ <<"err">> \in Seq(L)
  OBVIOUS
<1>b. <<"ok", "text", "dot">> \in Seq(L)
  OBVIOUS
<1>1. \A w \in {<<"ok">>, <<"err">>, <<"ok", "text", "dot">>} : <<>> \o w = w
  <2> HIDE DEF L
  <2> QED
    BY <1>a, <1>b, ConcatEmptySeq
<1>2. \A w \in {<<"ok">>, <<"err">>, <<"ok", "text", "dot">>} : w # <<>>
  OBVIOUS
<1>3. Head(<<"ok">>) = "ok" /\ Tail(<<"ok">>) = <<>> /\ Head(<<"err">>) = "err" /\ Tail(<<"err">>) = <<>>
  OBVIOUS
<1>4. Head(<<"ok", "text", "dot">>) = "ok" /\ Tail(<<"ok", "text", "dot">>) = <<"text", "dot">>
  OBVIOUS
<1>5. /\ Head(<<"text", "dot">>) = "text" /\ Tail(<<"text", "dot">>) = <<"dot">>
      /\ Head(<<"dot">>) = "dot" /\ Tail(<<"dot">>) = <<>>
  OBVIOUS
<1> QED
  BY <1>1, <1>2, <1>3, <1>4, <1>5

LEMMA LearntIsEffect ==
    ASSUME NEW s, NEW a PROVE Learnt(s, a) = Effect(s, asked[s], a, told[s])
BY DEF Learnt, Effect
----------------------------------------------------------------------------
(* A step is a step of one session.                                        *)

Kept(t) ==
    /\ state'[t] = state[t] /\ messages'[t] = messages[t] /\ toDelete'[t] = toDelete[t]
    /\ at'[t] = at[t] /\ line'[t] = line[t] /\ wire'[t] = wire[t] /\ client'[t] = client[t]
    /\ asked'[t] = asked[t] /\ seen'[t] = seen[t] /\ told'[t] = told[t] /\ removed'[t] = removed[t]

Moves(s) == Domains' /\ confused \subseteq confused' /\ \A t \in Sessions \ {s} : Kept(t)

LEMMA KeptIsSound ==
    ASSUME NEW t, Kept(t), confused \subseteq confused', Sound(t) PROVE Sound(t)'
<1>1. SUFFICES ASSUME t \notin confused' PROVE Dialogue(t)' /\ Service(t)'
  BY DEF Sound
<1>2. Dialogue(t) /\ Service(t)
  BY <1>1 DEF Sound
<1>3. Service(t)'
  BY <1>2 DEF Kept, Service
<1>4. Quiet(t)' <=> Quiet(t)
  BY DEF Kept, Quiet
<1>5. \A a : Learnt(t, a)' = Learnt(t, a)
  BY DEF Kept, Learnt
<1>6. Pending(t)' <=> Pending(t)
  BY <1>5 DEF Kept, Pending
<1>7. Dialogue(t)'
  BY <1>2, <1>4, <1>6 DEF Kept, Dialogue
<1> QED
  BY <1>3, <1>7

LEMMA OneMoves ==
    ASSUME PopInv, NEW s, Moves(s), s \in Sessions => Sound(s)' PROVE PopInv'
<1>1. \A t \in Sessions \ {s} : Sound(t)'
  BY KeptIsSound DEF PopInv, Moves
<1> QED
  BY <1>1 DEF PopInv, Moves
----------------------------------------------------------------------------
(* The client's steps                                                      *)

LEMMA ConnectStep ==
    ASSUME PopInv, NEW s \in Sessions, Connect(s) PROVE PopInv'
<1>1. Moves(s)
  BY DEF Connect, PopInv, Domains, Moves, Kept, serverVars, historyVars
<1>2. Sound(s)'
  <2>1. SUFFICES ASSUME s \notin confused PROVE Dialogue(s)' /\ Service(s)'
    BY DEF Sound, Connect, historyVars
  <2>2. Dialogue(s) /\ Service(s)
    BY <2>1 DEF PopInv, Sound
  <2>3. client[s] = "off" /\ Quiet(s) /\ asked[s] = NoCommand /\ state[s] # "UPDATE"
    BY <2>2 DEF Connect, Service, Dialogue
  <2>4. wire'[s] = <<"ok">> /\ at'[s] = "read" /\ client'[s] = "status"
    BY DEF Connect, PopInv, Domains
  <2>5. UNCHANGED <<state, messages, toDelete, line, asked, seen, told, removed>>
    BY DEF Connect, historyVars
  <2>6. Pending(s)'
    BY <2>3, <2>4, <2>5, Lines DEF Pending, Quiet, Answers, Multi, Learnt, NoCommand
  <2>7. Dialogue(s)'
    BY <2>4, <2>6 DEF Dialogue
  <2>8. Service(s)'
    BY <2>2, <2>3, <2>4, <2>5 DEF Service
  <2> QED
    BY <2>7, <2>8
<1> QED
  BY <1>1, <1>2, OneMoves

LEMMA SendStep ==
    ASSUME PopInv, NEW s \in Sessions, NEW c \in Commands, Send(s, c) PROVE PopInv'
<1>1. Moves(s)
  BY DEF Send, PopInv, Domains, Moves, Kept, serverVars, historyVars
<1>2. Sound(s)'
  <2>1. SUFFICES ASSUME s \notin confused PROVE Dialogue(s)' /\ Service(s)'
    BY DEF Sound, Send, historyVars
  <2>2. Dialogue(s) /\ Service(s)
    BY <2>1 DEF PopInv, Sound
  <2>3. Quiet(s) /\ at[s] # "off"
    BY <2>2 DEF Send, Dialogue, Service
  <2>4. line'[s] = c /\ asked'[s] = c /\ client'[s] = "status"
    BY DEF Send, PopInv, Domains
  <2>5. UNCHANGED <<state, messages, toDelete, at, wire, seen, told, removed>>
    BY DEF Send, serverVars, historyVars
  <2>6. c # NoCommand
    <3>1. c.cmd # "none"
      BY DEF Commands, Logins, Listings, Downloads, Marks, Others, Totals
    <3> QED
      BY <3>1 DEF NoCommand
  <2>7. Pending(s)'
    BY <2>3, <2>4, <2>5, <2>6 DEF Pending, Quiet
  <2>8. Dialogue(s)'
    BY <2>4, <2>7 DEF Dialogue
  <2>9. Service(s)'
    BY <2>2, <2>3, <2>4, <2>5 DEF Service, Quiet
  <2> QED
    BY <2>8, <2>9
<1> QED
  BY <1>1, <1>2, OneMoves

LEMMA ReadStatusStep ==
    ASSUME PopInv, NEW s \in Sessions, ReadStatus(s) PROVE PopInv'
<1>1. Moves(s)
  BY DEF ReadStatus, PopInv, Domains, Moves, Kept, serverVars
<1>2. Sound(s)'
  <2>1. SUFFICES ASSUME s \notin confused PROVE Dialogue(s)' /\ Service(s)'
    BY DEF Sound, ReadStatus
  <2>2. Dialogue(s) /\ Service(s)
    BY <2>1 DEF PopInv, Sound
  <2> DEFINE a == Head(wire[s])
  <2>3. line[s] = NoCommand /\ wire[s] \in Answers(asked[s]) /\ toDelete[s] = Learnt(s, a)
    BY <2>2 DEF ReadStatus, Dialogue, Pending
  <2>4. /\ client'[s] = IF a = "ok" /\ Multi(asked[s]) THEN "data" ELSE "idle"
        /\ told'[s] = Learnt(s, a) /\ wire'[s] = Tail(wire[s]) /\ asked'[s] = NoCommand
    BY DEF ReadStatus, PopInv, Domains
  <2>5. UNCHANGED <<state, messages, toDelete, at, line, seen, removed>>
    BY DEF ReadStatus, serverVars
  <2>6. told'[s] = toDelete'[s] /\ line'[s] = NoCommand
    BY <2>3, <2>4, <2>5
  <2>9. at[s] # "off"
    BY <2>2 DEF ReadStatus, Service
  <2>10. Service(s)'
    BY <2>2, <2>5, <2>6, <2>9 DEF Service
  <2> HIDE DEF a
  <2>7. CASE a = "ok" /\ Multi(asked[s])
    <3>1. wire[s] = <<"ok", "text", "dot">>
      BY <2>3, <2>7, Lines DEF Answers, a
    <3>2. Dialogue(s)'
      BY <3>1, <2>4, <2>6, <2>7, Lines DEF Dialogue
    <3> QED
      BY <3>2, <2>10
  <2>8. CASE ~(a = "ok" /\ Multi(asked[s]))
    <3>1. Tail(wire[s]) = <<>>
      BY <2>3, <2>8, Lines DEF Answers, a
    <3>2. Quiet(s)' /\ client'[s] = "idle"
      BY <3>1, <2>4, <2>6, <2>8 DEF Quiet
    <3>3. Dialogue(s)'
      BY <3>2, <2>4 DEF Dialogue
    <3> QED
      BY <3>3, <2>10
  <2> QED
    BY <2>7, <2>8
<1> QED
  BY <1>1, <1>2, OneMoves

LEMMA ReadDataStep ==
    ASSUME PopInv, NEW s \in Sessions, ReadData(s) PROVE PopInv'
<1>1. Moves(s)
  BY DEF ReadData, PopInv, Domains, Moves, Kept, serverVars, historyVars
<1>2. Sound(s)'
  <2>1. SUFFICES ASSUME s \notin confused PROVE Dialogue(s)' /\ Service(s)'
    BY DEF Sound, ReadData, historyVars
  <2>2. Dialogue(s) /\ Service(s)
    BY <2>1 DEF PopInv, Sound
  <2>3. /\ wire[s] \in {<<"text", "dot">>, <<"dot">>}
        /\ line[s] = NoCommand /\ told[s] = toDelete[s] /\ at[s] # "off"
    BY <2>2 DEF ReadData, Dialogue, Service
  <2>4. /\ client'[s] = IF Head(wire[s]) = "dot" THEN "idle" ELSE "data"
        /\ wire'[s] = Tail(wire[s])
    BY DEF ReadData, PopInv, Domains
  <2>5. UNCHANGED <<state, messages, toDelete, at, line, asked, seen, told, removed>>
    BY DEF ReadData, serverVars, historyVars
  <2>6. Dialogue(s)'
    BY <2>3, <2>4, <2>5, Lines DEF Dialogue, Quiet
  <2>7. Service(s)'
    BY <2>2, <2>3, <2>5 DEF Service
  <2> QED
    BY <2>6, <2>7
<1> QED
  BY <1>1, <1>2, OneMoves

LEMMA ClientLeavesStep ==
    ASSUME PopInv, NEW s \in Sessions, ClientLeaves(s) PROVE PopInv'
<1>1. Moves(s)
  BY DEF ClientLeaves, PopInv, Domains, Moves, Kept, serverVars, historyVars
<1>2. Sound(s)'
  <2>1. SUFFICES ASSUME s \notin confused PROVE Dialogue(s)' /\ Service(s)'
    BY DEF Sound, ClientLeaves, historyVars
  <2>2. Service(s) /\ at[s] # "off"
    BY <2>1 DEF PopInv, Sound, Service, ClientLeaves
  <2>3. client'[s] = "gone"
    BY DEF ClientLeaves, PopInv, Domains
  <2>4. UNCHANGED <<state, messages, toDelete, at, line, seen, told, removed>>
    BY DEF ClientLeaves, serverVars, historyVars
  <2> QED
    BY <2>2, <2>3, <2>4 DEF Dialogue, Service
<1> QED
  BY <1>1, <1>2, OneMoves
----------------------------------------------------------------------------
(* The server's steps                                                      *)

LEMMA LoadStep ==
    ASSUME PopInv, NEW s \in Sessions, Load(s) PROVE PopInv'
<1>1. Moves(s)
  BY DEF Load, PopInv, Domains, Moves, Kept
<1>2. Sound(s)'
  <2>1. SUFFICES ASSUME s \notin confused PROVE Dialogue(s)' /\ Service(s)'
    BY DEF Sound, Load
  <2>2. Dialogue(s) /\ Service(s) /\ at[s] = "load"
    BY <2>1 DEF PopInv, Sound, Load
  <2>3. messages'[s] = seen'[s] /\ state'[s] = "TRANSACTION" /\ at'[s] = "read"
    BY DEF Load, PopInv, Domains
  <2>4. UNCHANGED <<toDelete, line, wire, client, asked, told, removed>>
    BY DEF Load
  <2>5. asked[s].cmd = "PASS" => \A a : Learnt(s, a) = told[s] /\ Learnt(s, a)' = told[s]
    BY <2>4 DEF Learnt
  <2>6. Pending(s) => Pending(s)'
    BY <2>2, <2>3, <2>4, <2>5 DEF Pending
  <2>7. Dialogue(s)'
    BY <2>2, <2>4, <2>6 DEF Dialogue, Quiet
  <2>8. Service(s)'
    BY <2>2, <2>3, <2>4 DEF Service
  <2> QED
    BY <2>7, <2>8
<1> QED
  BY <1>1, <1>2, OneMoves

\* A server that leaves disturbs no answer.
LEMMA EndKeepsDialogue ==
    ASSUME NEW s \in Sessions, Dialogue(s), at'[s] = "closed",
           UNCHANGED <<toDelete, line, wire, client, asked, seen, told>>
    PROVE  Dialogue(s)'
<1>1. \A a : Learnt(s, a)' = Learnt(s, a)
  BY DEF Learnt
<1>2. Pending(s) => Pending(s)'
  BY <1>1 DEF Pending
<1> QED
  BY <1>2 DEF Dialogue, Quiet

LEMMA ReadFailsStep ==
    ASSUME PopInv, NEW s \in Sessions, ReadFails(s) PROVE PopInv'
<1>1. Moves(s)
  BY DEF ReadFails, Leave, PopInv, Domains, Moves, Kept, historyVars
<1>2. Sound(s)'
  <2>1. SUFFICES ASSUME s \notin confused PROVE Dialogue(s)' /\ Service(s)'
    BY DEF Sound, ReadFails, historyVars
  <2>2. Dialogue(s) /\ Service(s) /\ at[s] = "read" /\ at'[s] = "closed"
    BY <2>1 DEF PopInv, Sound, ReadFails, Leave, Domains
  <2>3. UNCHANGED <<state, messages, toDelete, line, wire, client, asked, seen, told, removed>>
    BY DEF ReadFails, historyVars
  <2>4. Dialogue(s)'
    BY <2>2, <2>3, EndKeepsDialogue
  <2>5. Service(s)'
    BY <2>2, <2>3 DEF Service
  <2> QED
    BY <2>4, <2>5
<1> QED
  BY <1>1, <1>2, OneMoves

LEMMA UpdateStep ==
    ASSUME PopInv, NEW s \in Sessions, Update(s) PROVE PopInv'
<1>1. Moves(s)
  BY DEF Update, Leave, PopInv, Domains, Moves, Kept
<1>2. Sound(s)'
  <2>1. SUFFICES ASSUME s \notin confused PROVE Dialogue(s)' /\ Service(s)'
    BY DEF Sound, Update
  <2>2. Dialogue(s) /\ Service(s) /\ at[s] = "update" /\ at'[s] = "closed"
    BY <2>1 DEF PopInv, Sound, Update, Leave, Domains
  <2>3. UNCHANGED <<state, messages, toDelete, line, wire, client, asked, seen, told>>
    BY DEF Update
  <2>4. Dialogue(s)'
    BY <2>2, <2>3, EndKeepsDialogue
  <2>5. removed'[s] \subseteq toDelete[s]
    <3>1. removed' = removed \/ removed'[s] = {i \in toDelete[s] : InBox(i)}
      BY DEF Update, PopInv, Domains
    <3> QED
      BY <3>1, <2>2 DEF Service
  <2>6. Service(s)'
    BY <2>2, <2>3, <2>5 DEF Service
  <2> QED
    BY <2>4, <2>6
<1> QED
  BY <1>1, <1>2, OneMoves

\* What every command does: it gives one answer that the client will understand, and
\* the marks become what the client learns from that answer.
AnswersSoundly(s) ==
    \E a \in Answers(line[s]) :
        /\ wire'[s] = wire[s] \o a /\ line'[s] = NoCommand
        /\ messages'[s] = messages[s]
        /\ toDelete'[s] = Effect(s, line[s], Head(a), toDelete[s])
        /\ \/ state'[s] = state[s] /\ at'[s] \in {"read", "closed"}
           \/ state'[s] = state[s] /\ at'[s] = "load" /\ line[s].cmd = "PASS"
           \/ state'[s] = "UPDATE" /\ at'[s] = "update" /\ line[s].cmd = "QUIT"

LEMMA SoundAnswerKeepsSound ==
    ASSUME NEW s \in Sessions, Dialogue(s), Service(s), AnswersSoundly(s),
           at[s] = "read", line[s] # NoCommand,
           UNCHANGED <<client, asked, seen, told, removed>>
    PROVE  Dialogue(s)' /\ Service(s)'
<1>1. PICK a \in Answers(line[s]) :
        /\ wire'[s] = wire[s] \o a /\ line'[s] = NoCommand
        /\ messages'[s] = messages[s]
        /\ toDelete'[s] = Effect(s, line[s], Head(a), toDelete[s])
        /\ \/ state'[s] = state[s] /\ at'[s] \in {"read", "closed"}
           \/ state'[s] = state[s] /\ at'[s] = "load" /\ line[s].cmd = "PASS"
           \/ state'[s] = "UPDATE" /\ at'[s] = "update" /\ line[s].cmd = "QUIT"
  BY DEF AnswersSoundly
<1>2. client[s] \in {"status", "gone"}
  BY DEF Dialogue, Quiet
<1>3. client[s] = "status" => Pending(s)'
  <2>1. SUFFICES ASSUME client[s] = "status" PROVE Pending(s)'
    OBVIOUS
  <2>2. wire[s] = <<>> /\ asked[s] = line[s] /\ told[s] = toDelete[s]
    BY <2>1 DEF Dialogue, Pending
  <2>3. wire'[s] = a
    BY <1>1, <2>2, Lines DEF Answers
  <2>4. toDelete'[s] = Learnt(s, Head(a))
    BY <1>1, <2>2, LearntIsEffect
  <2>5. Learnt(s, Head(a))' = Learnt(s, Head(a))
    BY <2>3 DEF Learnt
  <2> QED
    BY <1>1, <2>2, <2>3, <2>4, <2>5 DEF Pending, Learnt
<1>4. Dialogue(s)'
  BY <1>2, <1>3 DEF Dialogue
<1>5. state[s] # "UPDATE" /\ removed[s] = {}
  BY DEF Service
<1>6. line[s].cmd = "QUIT" => toDelete'[s] = told[s]
  BY <1>1 DEF Service, Effect
<1>7. Service(s)'
  BY <1>1, <1>2, <1>5, <1>6 DEF Service, NoCommand
<1> QED
  BY <1>4, <1>7

\* A command other than DELE and RSET, or one refused, leaves the marks alone.
LEMMA NoEffect ==
    ASSUME NEW s, NEW c, NEW a, NEW T, a = "err" \/ c.cmd \notin {"DELE", "RSET"}
    PROVE  Effect(s, c, a, T) = T
BY DEF Effect

LEMMA AuthorizeStep ==
    ASSUME PopInv, NEW s \in Sessions, at[s] = "read", Authorize(s) PROVE AnswersSoundly(s)
<1>1. PICK a \in {<<"ok">>, <<"err">>} : Reply(s, a) /\ line[s].cmd \in {"USER", "PASS"}
  BY DEF Authorize
<1>2. a \in Answers(line[s])
  BY <1>1 DEF Answers, Multi
<1>3. wire'[s] = wire[s] \o a /\ line'[s] = NoCommand
  BY <1>1 DEF Reply, PopInv, Domains
<1>4. UNCHANGED <<state, messages, toDelete>>
  BY DEF Authorize
<1>5. toDelete'[s] = Effect(s, line[s], Head(a), toDelete[s])
  BY <1>1, <1>4, NoEffect
<1>6. \/ at'[s] \in {"read", "closed"}
      \/ at'[s] = "load" /\ line[s].cmd = "PASS"
  BY DEF Authorize, Leave, PopInv, Domains
<1> QED
  BY <1>2, <1>3, <1>4, <1>5, <1>6 DEF AnswersSoundly

\* An answer to any command that leaves the session as it is.
LEMMA SameStep ==
    ASSUME PopInv, NEW s \in Sessions, at[s] = "read", UNCHANGED serverVars,
           NEW a \in Answers(line[s]), Reply(s, a),
           a = <<"err">> \/ line[s].cmd \notin {"DELE", "RSET"}
    PROVE  AnswersSoundly(s)
<1>1. wire'[s] = wire[s] \o a /\ line'[s] = NoCommand
  BY DEF Reply, PopInv, Domains
<1>2. UNCHANGED <<state, messages, toDelete, at>>
  BY DEF serverVars
<1>3. Head(a) = "err" \/ line[s].cmd \notin {"DELE", "RSET"}
  BY Lines
<1>4. toDelete'[s] = Effect(s, line[s], Head(a), toDelete[s])
  BY <1>2, <1>3, NoEffect
<1> QED
  BY <1>1, <1>2, <1>4 DEF AnswersSoundly

LEMMA MisplacedStep ==
    ASSUME PopInv, NEW s \in Sessions, at[s] = "read", Misplaced(s) PROVE AnswersSoundly(s)
<1>1. UNCHANGED serverVars
  BY DEF Misplaced, Same
<1>2. CASE line[s].cmd = "CAPA" /\ Reply(s, <<"ok", "text", "dot">>)
  <2>1. <<"ok", "text", "dot">> \in Answers(line[s])
    BY <1>2 DEF Answers, Multi
  <2> QED
    BY <1>1, <1>2, <2>1, SameStep
<1>3. CASE Reply(s, <<"err">>)
  <2>1. <<"err">> \in Answers(line[s])
    BY DEF Answers
  <2> QED
    BY <1>1, <1>3, <2>1, SameStep
<1> QED
  BY <1>2, <1>3 DEF Misplaced, ReplyTo, Unknown

LEMMA ShowStep ==
    ASSUME PopInv, NEW s \in Sessions, at[s] = "read", Show(s) PROVE AnswersSoundly(s)
<1>1. UNCHANGED serverVars /\ line[s].cmd \in {"STAT", "NOOP"} /\ Reply(s, <<"ok">>)
  BY DEF Show, Same, ReplyTo
<1>2. <<"ok">> \in Answers(line[s])
  BY <1>1 DEF Answers, Multi
<1> QED
  BY <1>1, <1>2, SameStep

LEMMA ListStep ==
    ASSUME PopInv, NEW s \in Sessions, at[s] = "read", List(s) PROVE AnswersSoundly(s)
<1>1. UNCHANGED serverVars /\ line[s].cmd = "LIST"
  BY DEF List, Same, ReplyTo
<1>2. 0 \notin Named(s)
  BY DEF Named
<1>3. \E a \in Answers(line[s]) : Reply(s, a)
  BY <1>1, <1>2 DEF List, ReplyTo, Answers, Multi
<1> QED
  BY <1>1, <1>3, SameStep

LEMMA RetrieveNothingStep ==
    ASSUME PopInv, NEW s \in Sessions, at[s] = "read", RetrieveNothing(s) PROVE AnswersSoundly(s)
<1>1. UNCHANGED serverVars /\ Reply(s, <<"err">>)
  BY DEF RetrieveNothing, Same, ReplyTo
<1>2. <<"err">> \in Answers(line[s])
  BY DEF Answers
<1> QED
  BY <1>1, <1>2, SameStep

LEMMA RetrieveStep ==
    ASSUME PopInv, NEW s \in Sessions, at[s] = "read", s \notin confused', Retrieve(s)
    PROVE  AnswersSoundly(s)
<1>1. UNCHANGED serverVars /\ line[s].cmd \in {"RETR", "TOP"}
  BY DEF Retrieve
<1>2. \E a \in {<<"err">>, <<"ok", "text", "dot">>} : Reply(s, a)
  BY DEF Retrieve, Missing
<1>3. \E a \in Answers(line[s]) : Reply(s, a)
  BY <1>1, <1>2 DEF Answers, Multi
<1> QED
  BY <1>1, <1>3, SameStep

LEMMA MarkStep ==
    ASSUME PopInv, NEW s \in Sessions, at[s] = "read", s \notin confused', Mark(s)
    PROVE  AnswersSoundly(s)
<1>1. line[s].cmd = "DELE" /\ UNCHANGED <<state, messages, at, confused>>
  BY DEF Mark
<1>2. messages[s] = seen[s]
  BY <1>1 DEF PopInv, Sound, Service
<1>3. <<"ok">> \in Answers(line[s]) /\ <<"err">> \in Answers(line[s])
  BY <1>1 DEF Answers, Multi
<1>4. CASE /\ line[s].arg \in Named(s)
           /\ toDelete' = [toDelete EXCEPT ![s] = @ \union {messages[s][line[s].arg]}]
           /\ Reply(s, <<"ok">>)
  <2>1. toDelete'[s] = toDelete[s] \union {messages[s][line[s].arg]}
    BY <1>4 DEF PopInv, Domains
  <2>2. {line[s].arg} \intersect (1..Len(seen[s])) = {line[s].arg}
    BY <1>2, <1>4 DEF Named
  <2>3. toDelete'[s] = Effect(s, line[s], "ok", toDelete[s])
    BY <1>1, <1>2, <2>1, <2>2 DEF Effect
  <2>4. wire'[s] = wire[s] \o <<"ok">> /\ line'[s] = NoCommand
    BY <1>4 DEF Reply, PopInv, Domains
  <2> QED
    BY <1>1, <1>3, <2>3, <2>4, Lines DEF AnswersSoundly
<1>5. CASE UNCHANGED toDelete /\ Reply(s, <<"err">>)
  <2>1. toDelete'[s] = Effect(s, line[s], "err", toDelete[s])
    BY <1>5, NoEffect
  <2>2. wire'[s] = wire[s] \o <<"err">> /\ line'[s] = NoCommand
    BY <1>5 DEF Reply, PopInv, Domains
  <2> QED
    BY <1>1, <1>3, <2>1, <2>2, Lines DEF AnswersSoundly
<1> QED
  BY <1>4, <1>5 DEF Mark

LEMMA ResetStep ==
    ASSUME PopInv, NEW s \in Sessions, at[s] = "read", Reset(s) PROVE AnswersSoundly(s)
<1>1. line[s].cmd = "RSET" /\ Reply(s, <<"ok">>) /\ UNCHANGED <<state, messages, at>>
  BY DEF Reset, ReplyTo
<1>2. toDelete'[s] = {}
  BY DEF Reset, PopInv, Domains
<1>3. toDelete'[s] = Effect(s, line[s], "ok", toDelete[s])
  BY <1>1, <1>2 DEF Effect
<1>4. wire'[s] = wire[s] \o <<"ok">> /\ line'[s] = NoCommand
  BY <1>1 DEF Reply, PopInv, Domains
<1>5. <<"ok">> \in Answers(line[s])
  BY <1>1 DEF Answers, Multi
<1> QED
  BY <1>1, <1>3, <1>4, <1>5, Lines DEF AnswersSoundly

LEMMA QuitStep ==
    ASSUME PopInv, NEW s \in Sessions, at[s] = "read", Quit(s) PROVE AnswersSoundly(s)
<1>1. line[s].cmd = "QUIT" /\ Reply(s, <<"ok">>) /\ UNCHANGED <<messages, toDelete>>
  BY DEF Quit, ReplyTo
<1>2. state'[s] = "UPDATE" /\ at'[s] = "update"
  BY DEF Quit, PopInv, Domains
<1>3. toDelete'[s] = Effect(s, line[s], "ok", toDelete[s])
  BY <1>1, NoEffect
<1>4. wire'[s] = wire[s] \o <<"ok">> /\ line'[s] = NoCommand
  BY <1>1 DEF Reply, PopInv, Domains
<1>5. <<"ok">> \in Answers(line[s])
  BY <1>1 DEF Answers, Multi
<1> QED
  BY <1>1, <1>2, <1>3, <1>4, <1>5, Lines DEF AnswersSoundly

\* A command moves nothing of another session, and changes neither client nor history.
LEMMA HandleMoves ==
    ASSUME PopInv, NEW s \in Sessions, Handle(s) PROVE Moves(s)
<1>1. /\ UNCHANGED <<client, asked, seen, told, removed>>
      /\ confused \subseteq confused'
  BY DEF Handle, Authorize, Misplaced, Show, List, RetrieveNothing, Retrieve, Mark, Reset, Quit, Same
<1>2. \E a : Reply(s, a)
  BY DEF Handle, Authorize, Misplaced, Show, List, RetrieveNothing, Retrieve, Mark, Reset, Quit, ReplyTo
<1>3. /\ DOMAIN wire' = Sessions /\ DOMAIN line' = Sessions
      /\ \A t \in Sessions \ {s} : wire'[t] = wire[t] /\ line'[t] = line[t]
  BY <1>2 DEF Reply, PopInv, Domains
<1>4. /\ \/ UNCHANGED state \/ state' = [state EXCEPT ![s] = "UPDATE"]
      /\ UNCHANGED messages
      /\ \/ UNCHANGED toDelete \/ \E T : toDelete' = [toDelete EXCEPT ![s] = T]
      /\ \/ UNCHANGED at \/ \E x : at' = [at EXCEPT ![s] = x]
  BY DEF Handle, Authorize, Misplaced, Show, List, RetrieveNothing, Retrieve, Mark, Reset, Quit,
         Same, Leave, serverVars
<1>5. /\ DOMAIN state' = Sessions /\ DOMAIN toDelete' = Sessions /\ DOMAIN at' = Sessions
      /\ \A t \in Sessions \ {s} :
            state'[t] = state[t] /\ toDelete'[t] = toDelete[t] /\ at'[t] = at[t]
  BY <1>4 DEF PopInv, Domains
<1>6. Domains'
  BY <1>1, <1>3, <1>4, <1>5 DEF PopInv, Domains
<1>7. \A t \in Sessions \ {s} : Kept(t)
  BY <1>1, <1>3, <1>4, <1>5 DEF Kept
<1> QED
  BY <1>1, <1>6, <1>7 DEF Moves

LEMMA HandleStep ==
    ASSUME PopInv, NEW s \in Sessions, Handle(s) PROVE PopInv'
<1>1. Moves(s)
  BY HandleMoves
<1>2. Sound(s)'
  <2>1. SUFFICES ASSUME s \notin confused' PROVE Dialogue(s)' /\ Service(s)'
    BY DEF Sound
  <2>2. Dialogue(s) /\ Service(s)
    BY <1>1, <2>1 DEF PopInv, Sound, Moves
  <2>3. at[s] = "read" /\ line[s] # NoCommand /\ UNCHANGED <<client, asked, seen, told, removed>>
    BY DEF Handle
  <2>4. AnswersSoundly(s)
    BY <2>1, <2>3, AuthorizeStep, MisplacedStep, ShowStep, ListStep, RetrieveNothingStep,
       RetrieveStep, MarkStep, ResetStep, QuitStep DEF Handle
  <2> QED
    BY <2>2, <2>3, <2>4, SoundAnswerKeepsSound
<1> QED
  BY <1>1, <1>2, OneMoves
----------------------------------------------------------------------------
LEMMA RestOfPop ==
    ASSUME PopInv, UNCHANGED <<serverVars, line, wire, client, asked, historyVars>> PROVE PopInv'
<1>1. Domains' /\ confused \subseteq confused' /\ \A t \in Sessions : Kept(t)
  BY DEF PopInv, Domains, Kept, serverVars, historyVars
<1> QED
  BY <1>1, KeptIsSound DEF PopInv

LEMMA PopInductive == PopInv /\ [PopNext]_popVars => PopInv'
<1> SUFFICES ASSUME PopInv, [PopNext]_popVars PROVE PopInv'
  OBVIOUS
<1>1. CASE UNCHANGED popVars
  BY <1>1, RestOfPop DEF popVars
<1>2. CASE \E s \in Sessions : Connect(s)
  BY <1>2, ConnectStep
<1>3. CASE \E s \in Sessions : ClientLeaves(s)
  BY <1>3, ClientLeavesStep
<1>4. CASE \E s \in Sessions : Read(s)
  BY <1>4, ReadStatusStep, ReadDataStep, ClientLeavesStep DEF Read, Closed
<1>5. CASE \E s \in Sessions : Serve(s)
  BY <1>5, LoadStep, HandleStep, UpdateStep DEF Serve
<1>6. CASE \E s \in Sessions : ReadFails(s)
  BY <1>6, ReadFailsStep
<1>7. CASE \E s \in Sessions : \E c \in Commands : Send(s, c)
  BY <1>7, SendStep
<1>8. CASE \E i \in Ids : Arrive(i) \/ Remove(i)
  BY <1>8, RestOfPop DEF Arrive, Remove
<1> QED
  BY <1>1, <1>2, <1>3, <1>4, <1>5, <1>6, <1>7, <1>8 DEF PopNext, PopRest
----------------------------------------------------------------------------
\* What client and server know of each other stays right: the server gives one answer to
\* each command, of the shape the client expects, and marks what the answer says.
THEOREM DialogueIsSound == PopSpec => []PopInv
BY PopInitInv, PopInductive, PTL DEF PopSpec

\* Whatever happens to the messages meanwhile, a client that has read an answer to its
\* end has left nothing of it on the wire (server.go:351).
THEOREM AnswersAreAlwaysRead == PopSpec => []AnswersAreReadWhole
BY DialogueIsSound, PopAnswers, PTL

----------------------------------------------------------------------------
(* What Without leaves of a sequence, by induction on its prefixes.        *)

LEMMA LeastNumber ==
    ASSUME NEW S, S \subseteq Nat, S # {}
    PROVE  \E n \in S : \A m \in S : n <= m
<1>1. PICK n \in S : \A m \in S : <<m, n>> \notin OpToRel(<, Nat)
  BY NatLessThanWellFounded, WFMin, Zenon
<1>2. \A m \in S : ~(m < n)
  BY <1>1 DEF OpToRel
<1> QED
  BY <1>2

\* One more element of q, after what r has kept of those before it.
Keep(q, S, n, r) == IF q[n] \in S THEN r ELSE Append(r, q[n])

\* f[n] is what is left of the first n elements of q, for n up to k.
Keeps(q, S, k, f) ==
    f = [n \in 0..k |-> IF n = 0 THEN <<>> ELSE Keep(q, S, n, f[n - 1])]

LEMMA SomethingKeeps ==
    ASSUME NEW q, NEW S, NEW k \in Nat PROVE \E f : Keeps(q, S, k, f)
<1> DEFINE Bad == {n \in Nat : ~\E f : Keeps(q, S, n, f)}
<1>1. SUFFICES ASSUME Bad # {} PROVE FALSE
  OBVIOUS
<1>2. PICK n \in Bad : \A m \in Bad : n <= m
  <2> HIDE DEF Bad
  <2>1. Bad \subseteq Nat
    BY DEF Bad
  <2> QED
    BY <1>1, <2>1, LeastNumber
<1>3. CASE n = 0
  <2> DEFINE f == [m \in 0..0 |-> <<>>]
  <2>1. Keeps(q, S, 0, f)
    BY DEF Keeps
  <2> QED
    BY <1>2, <1>3, <2>1
<1>4. CASE n # 0
  <2>1. n - 1 \in Nat /\ n - 1 \notin Bad
    BY <1>2, <1>4
  <2>2. PICK f : Keeps(q, S, n - 1, f)
    BY <2>1
  <2> DEFINE g == [m \in 0..n |-> IF m = n THEN Keep(q, S, n, f[n - 1]) ELSE f[m]]
  <2>3. \A m \in 0..(n - 1) : g[m] = f[m] /\ f[m] = IF m = 0 THEN <<>> ELSE Keep(q, S, m, f[m - 1])
    BY <1>4, <2>1, <2>2 DEF Keeps
  <2>4. \A m \in 0..n : g[m] = IF m = 0 THEN <<>> ELSE Keep(q, S, m, g[m - 1])
    <3>1. ASSUME NEW m \in 0..n, m = n
          PROVE  g[m] = IF m = 0 THEN <<>> ELSE Keep(q, S, m, g[m - 1])
      <4>1. g[m] = Keep(q, S, m, f[m - 1]) /\ m - 1 \in 0..(n - 1) /\ m # 0
        BY <1>4, <2>1, <3>1
      <4> QED
        BY <2>3, <4>1
    <3>2. ASSUME NEW m \in 0..n, m # n
          PROVE  g[m] = IF m = 0 THEN <<>> ELSE Keep(q, S, m, g[m - 1])
      <4>1. m \in 0..(n - 1) /\ (m # 0 => m - 1 \in 0..(n - 1))
        BY <2>1, <3>2
      <4> HIDE DEF g
      <4> QED
        BY <2>3, <4>1
    <3> QED
      BY <3>1, <3>2
  <2>5. DOMAIN g = 0..n /\ g = [m \in 0..n |-> g[m]]
    OBVIOUS
  <2> HIDE DEF g
  <2>6. Keeps(q, S, n, g)
    BY <2>4, <2>5 DEF Keeps
  <2> QED
    BY <1>2, <2>6
<1> QED
  BY <1>3, <1>4

\* The elements of q that are not in S, and no others.
LEMMA WithoutElements ==
    ASSUME NEW q \in Seq(Ids), NEW S
    PROVE  /\ Without(q, S) \in Seq(Ids)
           /\ \A i : (\E n \in 1..Len(Without(q, S)) : Without(q, S)[n] = i)
                   <=> i \notin S /\ \E n \in 1..Len(q) : q[n] = i
<1>1. Len(q) \in Nat /\ \A n \in 1..Len(q) : q[n] \in Ids
  BY LenProperties, ElementOfSeq
<1> DEFINE kept == CHOOSE f : Keeps(q, S, Len(q), f)
<1>2. Without(q, S) = kept[Len(q)]
  BY DEF Without, Keeps, Keep
<1>3. Keeps(q, S, Len(q), kept)
  BY <1>1, SomethingKeeps
<1> HIDE DEF kept
<1>4. /\ kept[0] = <<>>
      /\ \A n \in 1..Len(q) : kept[n] = Keep(q, S, n, kept[n - 1])
  BY <1>1, <1>3 DEF Keeps
<1> DEFINE Good(k) ==
             /\ kept[k] \in Seq(Ids)
             /\ \A i : (\E n \in 1..Len(kept[k]) : kept[k][n] = i)
                       <=> i \notin S /\ \E n \in 1..k : q[n] = i
<1>5. Good(0)
  BY <1>4
<1>6. ASSUME NEW k \in 1..Len(q), Good(k - 1) PROVE Good(k)
  <2> DEFINE r == kept[k - 1]
  <2>1. r \in Seq(Ids) /\ Len(r) \in Nat /\ k \in Nat /\ q[k] \in Ids
    BY <1>1, <1>6, LenProperties
  <2>2. \A i : (\E n \in 1..k : q[n] = i) <=> i = q[k] \/ \E n \in 1..(k - 1) : q[n] = i
    <3>1. \A n : n \in 1..k <=> n = k \/ n \in 1..(k - 1)
      BY <2>1, <1>6
    <3> QED
      BY <3>1
  <2>3. \A i : (\E n \in 1..Len(r) : r[n] = i) <=> i \notin S /\ \E n \in 1..(k - 1) : q[n] = i
    BY <1>6
  <2>4. CASE q[k] \in S
    <3>1. kept[k] = r
      BY <1>4, <2>4 DEF Keep
    <3> HIDE DEF r
    <3> QED
      BY <2>1, <2>2, <2>3, <2>4, <3>1
  <2>5. CASE q[k] \notin S
    <3>1. kept[k] = Append(r, q[k])
      BY <1>4, <2>5 DEF Keep
    <3> HIDE DEF r
    <3>2. /\ Append(r, q[k]) \in Seq(Ids) /\ Len(Append(r, q[k])) = Len(r) + 1
          /\ \A n \in 1..Len(r) : Append(r, q[k])[n] = r[n]
          /\ Append(r, q[k])[Len(r) + 1] = q[k]
      BY <2>1, AppendProperties
    <3>3. \A n : n \in 1..(Len(r) + 1) <=> n = Len(r) + 1 \/ n \in 1..Len(r)
      BY <2>1
    <3>4. \A i : (\E n \in 1..Len(kept[k]) : kept[k][n] = i)
                <=> i = q[k] \/ \E n \in 1..Len(r) : r[n] = i
      BY <3>1, <3>2, <3>3
    <3> QED
      BY <2>2, <2>3, <2>5, <3>1, <3>2, <3>4
  <2> QED
    BY <2>4, <2>5
<1> DEFINE Bad == {k \in 0..Len(q) : ~Good(k)}
<1>7. Bad = {}
  <2>1. SUFFICES ASSUME Bad # {} PROVE FALSE
    OBVIOUS
  <2>2. PICK k \in Bad : \A m \in Bad : k <= m
    <3>1. Bad \subseteq Nat
      BY <1>1
    <3> HIDE DEF Bad
    <3> QED
      BY <2>1, <3>1, LeastNumber
  <2> HIDE DEF Good
  <2>3. k # 0 /\ k \in 0..Len(q) /\ ~Good(k)
    BY <1>5, <2>2
  <2>4. k \in 1..Len(q) /\ k - 1 \in 0..Len(q) /\ ~(k <= k - 1)
    BY <1>1, <2>3
  <2>5. Good(k - 1)
    BY <2>2, <2>4
  <2> QED
    BY <1>6, <2>3, <2>4, <2>5
<1>8. Good(Len(q))
  <2>1. Len(q) \in 0..Len(q)
    BY <1>1
  <2> HIDE DEF Good
  <2> QED
    BY <1>7, <2>1
<1> QED
  BY <1>2, <1>8
----------------------------------------------------------------------------
(* What the server deletes, whatever its client understands.               *)

Listed(s) == {messages[s][n] : n \in 1..Len(messages[s])}

\* The marks of a session are on messages of its list; none of them is in the mailbox
\* when the session has ended with its deletion done.
Deletes(s) ==
    /\ messages[s] = seen[s]
    /\ toDelete[s] \subseteq Listed(s)
    /\ state[s] = "AUTHORIZATION" => toDelete[s] = {}
    /\ at[s] = "load" => state[s] = "AUTHORIZATION"
    /\ state[s] = "UPDATE" => at[s] \in {"update", "closed"}
    /\ at[s] = "update" => state[s] = "UPDATE"
    /\ at[s] = "closed" /\ state[s] = "UPDATE" /\ s \notin undone =>
          \A i \in toDelete[s] : ~InBox(i)

DeletionInv == Domains /\ box \in Seq(Ids) /\ \A s \in Sessions : Deletes(s)

LEMMA DeletionInitInv == PopInit => DeletionInv
<1>1. SUFFICES ASSUME PopInit PROVE DeletionInv
  OBVIOUS
<1>2. box \in Seq(Ids)
  <2>1. <<>> \in Seq(Ids) /\ \A i \in Ids : <<i>> \in Seq(Ids)
    OBVIOUS
  <2>2. box \in {<<>>} \union {<<i>> : i \in Ids}
    BY <1>1 DEF PopInit
  <2> QED
    BY <2>1, <2>2
<1>3. Domains /\ \A s \in Sessions : Deletes(s)
  BY <1>1 DEF PopInit, Domains, Deletes
<1> QED
  BY <1>2, <1>3 DEF DeletionInv

\* The mailbox of a step in which nothing arrives.
Shrinks == box' \in Seq(Ids) /\ \A i : InBox(i)' => InBox(i)

LEMMA SameBoxShrinks == ASSUME DeletionInv, box' = box PROVE Shrinks
BY DEF Shrinks, DeletionInv, InBox

LEMMA WithoutShrinks ==
    ASSUME DeletionInv, NEW S, box' = Without(box, S)
    PROVE  Shrinks /\ \A i \in S : ~InBox(i)'
<1>1. box \in Seq(Ids)
  BY DEF DeletionInv
<1>2. /\ Without(box, S) \in Seq(Ids)
      /\ \A i : (\E n \in 1..Len(Without(box, S)) : Without(box, S)[n] = i)
              <=> i \notin S /\ \E n \in 1..Len(box) : box[n] = i
  BY <1>1, WithoutElements
<1> QED
  BY <1>2 DEF Shrinks, InBox

\* What others do to a session: nothing, but that the mailbox shrinks.
LEMMA OthersDelete ==
    ASSUME NEW t, Kept(t), Shrinks, undone \subseteq undone', t \in undone' => t \in undone, Deletes(t)
    PROVE  Deletes(t)'
<1>1. /\ messages'[t] = messages[t] /\ seen'[t] = seen[t] /\ toDelete'[t] = toDelete[t]
      /\ state'[t] = state[t] /\ at'[t] = at[t]
  BY DEF Kept
<1>2. \A i : InBox(i)' => InBox(i)
  BY DEF Shrinks
<1> QED
  BY <1>1, <1>2 DEF Deletes, Listed

LEMMA OneDeletes ==
    ASSUME DeletionInv, NEW s, Moves(s), Shrinks,
           undone' \in {undone, undone \union {s}}, s \in Sessions => Deletes(s)'
    PROVE  DeletionInv'
<1>1. \A t \in Sessions \ {s} : Deletes(t)'
  BY OthersDelete DEF DeletionInv, Moves
<1> QED
  BY <1>1 DEF DeletionInv, Moves, Shrinks

\* Steps of a connection and its client.
LEMMA QuietDeletion ==
    ASSUME DeletionInv, Domains',
           UNCHANGED <<box, state, messages, toDelete, seen, undone>>,
           \A s \in Sessions : at'[s] = at[s] \/ (at'[s] = "read" /\ at[s] = "off")
                                              \/ (at'[s] = "closed" /\ at[s] = "read")
    PROVE  DeletionInv'
<1>1. ASSUME NEW s \in Sessions PROVE Deletes(s)'
  <2>1. Deletes(s) /\ \A i : InBox(i)' = InBox(i)
    BY DEF DeletionInv, InBox
  <2>2. Listed(s)' = Listed(s)
    BY DEF Listed
  <2>3. \/ at'[s] = at[s]
        \/ at'[s] = "read" /\ at[s] = "off"
        \/ at'[s] = "closed" /\ at[s] = "read"
    OBVIOUS
  <2> QED
    BY <2>1, <2>2, <2>3 DEF Deletes
<1> QED
  BY <1>1 DEF DeletionInv

LEMMA LoadDeletion ==
    ASSUME DeletionInv, NEW s \in Sessions, Load(s) PROVE DeletionInv'
<1>1. Moves(s)
  BY DEF Load, DeletionInv, Domains, Moves, Kept
<1>2. Deletes(s) /\ at[s] = "load"
  BY DEF DeletionInv, Load
<1>3. messages'[s] = seen'[s] /\ state'[s] = "TRANSACTION" /\ at'[s] = "read" /\ toDelete'[s] = {}
  BY <1>2 DEF Load, DeletionInv, Domains, Deletes
<1>4. Deletes(s)'
  BY <1>3 DEF Deletes
<1>5. UNCHANGED <<box, undone>>
  BY DEF Load
<1> QED
  BY <1>1, <1>4, <1>5, SameBoxShrinks, OneDeletes

\* What a command does to the marks and to what comes next.
LEMMA HandleMarks ==
    ASSUME DeletionInv, NEW s \in Sessions, Handle(s)
    PROVE  /\ messages'[s] = messages[s] /\ seen'[s] = seen[s]
           /\ \/ toDelete'[s] = toDelete[s] \/ toDelete'[s] = {}
              \/ /\ state[s] = "TRANSACTION"
                 /\ \E n \in 1..Len(messages[s]) : toDelete'[s] = toDelete[s] \union {messages[s][n]}
           /\ \/ state'[s] = state[s] /\ at'[s] \in {"read", "closed"}
              \/ state'[s] = state[s] /\ at'[s] = "load" /\ state[s] = "AUTHORIZATION"
              \/ state'[s] = "UPDATE" /\ at'[s] = "update"
<1>1. UNCHANGED <<messages, seen>> /\ at[s] = "read"
  BY DEF Handle, Authorize, Misplaced, Show, List, RetrieveNothing, Retrieve, Mark, Reset, Quit,
         Same, serverVars
<1>2. CASE Authorize(s)
  BY <1>1, <1>2 DEF Authorize, Leave, DeletionInv, Domains
<1>3. CASE Misplaced(s) \/ Show(s) \/ List(s) \/ RetrieveNothing(s) \/ Retrieve(s)
  BY <1>1, <1>3 DEF Misplaced, Show, List, RetrieveNothing, Retrieve, Same, serverVars
<1>4. CASE Mark(s)
  BY <1>1, <1>4 DEF Mark, Named, DeletionInv, Domains
<1>5. CASE Reset(s)
  BY <1>1, <1>5 DEF Reset, DeletionInv, Domains
<1>6. CASE Quit(s)
  BY <1>1, <1>6 DEF Quit, DeletionInv, Domains
<1> QED
  BY <1>2, <1>3, <1>4, <1>5, <1>6 DEF Handle

\* A command marks messages of the list only, and only QUIT leads to the deletion.
LEMMA HandleDeletion ==
    ASSUME PopInv, DeletionInv, NEW s \in Sessions, Handle(s) PROVE DeletionInv'
<1>1. Moves(s) /\ UNCHANGED <<box, undone>>
  BY HandleMoves DEF Handle
<1>2. Deletes(s) /\ at[s] = "read"
  BY DEF DeletionInv, Handle
<1>3. messages'[s] = messages[s] /\ seen'[s] = seen[s] /\ Listed(s)' = Listed(s)
  BY HandleMarks DEF Listed
<1>4. state[s] # "UPDATE"
  BY <1>2 DEF Deletes
<1>5. \/ toDelete'[s] = toDelete[s] \/ toDelete'[s] = {}
      \/ state[s] = "TRANSACTION" /\ toDelete'[s] \subseteq Listed(s)
  BY <1>2, HandleMarks DEF Listed, Deletes
<1>6. \/ state'[s] = state[s] /\ at'[s] \in {"read", "closed"}
      \/ state'[s] = state[s] /\ at'[s] = "load" /\ state[s] = "AUTHORIZATION"
      \/ state'[s] = "UPDATE" /\ at'[s] = "update"
  BY HandleMarks
<1>7. Deletes(s)'
  BY <1>2, <1>3, <1>4, <1>5, <1>6 DEF Deletes
<1> QED
  BY <1>1, <1>7, SameBoxShrinks, OneDeletes

LEMMA UpdateDeletion ==
    ASSUME DeletionInv, NEW s \in Sessions, Update(s) PROVE DeletionInv'
<1>1. Moves(s)
  BY DEF Update, Leave, DeletionInv, Domains, Moves, Kept
<1>2. UNCHANGED <<state, messages, toDelete, seen>> /\ at'[s] = "closed"
  BY DEF Update, Leave, DeletionInv, Domains
<1>3. Deletes(s) /\ Listed(s)' = Listed(s)
  BY <1>2 DEF DeletionInv, Listed
<1>4. CASE box' = Without(box, toDelete[s]) /\ UNCHANGED undone
  <2>1. Shrinks /\ \A i \in toDelete[s] : ~InBox(i)'
    BY <1>4, WithoutShrinks
  <2>2. Deletes(s)'
    BY <1>2, <1>3, <2>1 DEF Deletes
  <2> QED
    BY <1>1, <1>4, <2>1, <2>2, OneDeletes
<1>5. CASE undone' = undone \union {s} /\ UNCHANGED box
  <2>1. Deletes(s)'
    BY <1>2, <1>3, <1>5 DEF Deletes
  <2> QED
    BY <1>1, <1>5, <2>1, SameBoxShrinks, OneDeletes
<1> QED
  BY <1>4, <1>5 DEF Update

\* A message that arrives is none a session has listed.
LEMMA ArriveDeletion ==
    ASSUME DeletionInv, NEW i \in Ids, Arrive(i) PROVE DeletionInv'
<1>1. UNCHANGED <<state, messages, toDelete, at, line, wire, client, asked, seen, told, removed, undone>>
  BY DEF Arrive, serverVars, historyVars
<1>2. box \in Seq(Ids) /\ <<i>> \in Seq(Ids) /\ Len(<<i>>) = 1 /\ <<i>>[1] = i
  BY DEF DeletionInv
<1>3. /\ box' \in Seq(Ids) /\ Len(box') = 1 + Len(box)
      /\ \A n \in 1..(1 + Len(box)) : box'[n] = IF n <= 1 THEN <<i>>[n] ELSE box[n - 1]
  BY <1>2, ConcatProperties DEF Arrive
<1>4. \A j : InBox(j)' => j = i \/ InBox(j)
  <2>1. SUFFICES ASSUME NEW j, NEW n \in 1..(1 + Len(box)), box'[n] = j, j # i PROVE InBox(j)
    BY <1>3 DEF InBox
  <2>2. Len(box) \in Nat
    BY <1>2, LenProperties
  <2>3. ~(n <= 1) /\ n - 1 \in 1..Len(box)
    BY <1>2, <1>3, <2>1, <2>2
  <2> QED
    BY <1>3, <2>1, <2>3 DEF InBox
<1>5. ASSUME NEW s \in Sessions PROVE Deletes(s)'
  <2>1. Deletes(s) /\ Listed(s)' = Listed(s)
    BY <1>1 DEF DeletionInv, Listed
  <2>2. i \notin toDelete[s]
    BY <2>1 DEF Arrive, Deletes, Listed
  <2> QED
    BY <1>1, <1>4, <2>1, <2>2 DEF Deletes
<1>6. Domains'
  BY <1>1 DEF DeletionInv, Domains
<1> QED
  BY <1>3, <1>5, <1>6 DEF DeletionInv

LEMMA RemoveDeletion ==
    ASSUME DeletionInv, NEW i \in Ids, Remove(i) PROVE DeletionInv'
<1>1. UNCHANGED <<state, messages, toDelete, at, line, wire, client, asked, seen, told, removed,
                  confused, undone>>
  BY DEF Remove, serverVars, historyVars
<1>2. Shrinks
  BY WithoutShrinks DEF Remove
<1>3. Domains' /\ \A s \in Sessions : Kept(s)
  BY <1>1 DEF DeletionInv, Domains, Kept
<1>4. \A s \in Sessions : Deletes(s)'
  BY <1>1, <1>2, <1>3, OthersDelete DEF DeletionInv
<1> QED
  BY <1>2, <1>3, <1>4 DEF DeletionInv, Shrinks

LEMMA DeletionInductive ==
    ASSUME PopInv, DeletionInv, [PopNext]_popVars PROVE DeletionInv'
<1>1. Domains'
  BY PopInductive DEF PopInv
<1>2. CASE UNCHANGED popVars
  BY <1>1, <1>2, QuietDeletion DEF popVars, serverVars, historyVars
<1>3. ASSUME NEW s \in Sessions, Connect(s) PROVE DeletionInv'
  <2>1. UNCHANGED <<box, state, messages, toDelete, seen, undone>>
    BY <1>3 DEF Connect, historyVars
  <2>2. \A t \in Sessions : at'[t] = at[t] \/ (at'[t] = "read" /\ at[t] = "off")
    BY <1>3 DEF Connect, DeletionInv, Domains
  <2> QED
    BY <1>1, <2>1, <2>2, QuietDeletion
<1>4. ASSUME NEW s \in Sessions, ReadFails(s) PROVE DeletionInv'
  <2>1. UNCHANGED <<box, state, messages, toDelete, seen, undone>>
    BY <1>4 DEF ReadFails, historyVars
  <2>2. \A t \in Sessions : at'[t] = at[t] \/ (at'[t] = "closed" /\ at[t] = "read")
    BY <1>4 DEF ReadFails, Leave, DeletionInv, Domains
  <2> QED
    BY <1>1, <2>1, <2>2, QuietDeletion
<1>5. ASSUME NEW s \in Sessions, ClientLeaves(s) \/ Read(s) \/ \E c \in Commands : Send(s, c)
      PROVE  DeletionInv'
  <2>1. UNCHANGED <<box, state, messages, toDelete, at, seen, undone>>
    BY <1>5 DEF ClientLeaves, Read, ReadStatus, ReadData, Closed, Send, serverVars, historyVars
  <2> QED
    BY <1>1, <2>1, QuietDeletion
<1>6. ASSUME NEW s \in Sessions, Serve(s) PROVE DeletionInv'
  BY <1>6, LoadDeletion, HandleDeletion, UpdateDeletion DEF Serve
<1>7. ASSUME NEW i \in Ids, Arrive(i) \/ Remove(i) PROVE DeletionInv'
  BY <1>7, ArriveDeletion, RemoveDeletion
<1> QED
  BY <1>2, <1>3, <1>4, <1>5, <1>6, <1>7 DEF PopNext, PopRest

\* A session deletes what its client was told is marked, under the number it saw, nothing
\* else and only after QUIT; then all of it, unless the deletion fails.
THEOREM QuitDeletesTheMarked == PopSpec => []QuitDeletesWhatWasMarked
<1>1. PopInv /\ DeletionInv => QuitDeletesWhatWasMarked
  <2>1. SUFFICES ASSUME PopInv, DeletionInv, NEW s \in Sessions \ confused
                 PROVE  /\ removed[s] \subseteq told[s]
                        /\ removed[s] # {} => state[s] = "UPDATE"
                        /\ at[s] = "closed" /\ state[s] = "UPDATE" /\ s \notin undone =>
                              \A i \in told[s] : ~InBox(i)
    BY DEF QuitDeletesWhatWasMarked
  <2>2. Service(s) /\ Deletes(s)
    BY <2>1 DEF PopInv, Sound, DeletionInv
  <2> QED
    BY <2>2 DEF Service, Deletes
<1>2. PopInit => DeletionInv
  BY DeletionInitInv
<1>3. PopInv /\ DeletionInv /\ [PopNext]_popVars => DeletionInv'
  BY DeletionInductive
<1> QED
  BY <1>1, <1>2, <1>3, DialogueIsSound, PTL DEF PopSpec
=============================================================================
