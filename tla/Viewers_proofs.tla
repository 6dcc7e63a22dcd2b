--------------------------- MODULE Viewers_proofs ---------------------------
(***************************************************************************)
(* What holds of Viewers for any messages, requests, browsers and buffer:  *)
(* the envelope cache, the deletions over it, the statistics and the       *)
(* streams of events.  Each has an invariant of its own.                   *)
(***************************************************************************)
EXTENDS Viewers, SequenceTheorems, FiniteSetTheorems, TLAPS

(* The envelope cache                                                      *)

\* How far a request has got in getCachedEnvelope, and what it holds there.
RequestIsSound(r) ==
    /\ at[r] \in {"out", "look", "wait"} \union Parsing => r \notin timers /\ answer[r] = "none"
    /\ at[r] \in {"out", "look"} \union Parsing => waitsFor[r] = None
    /\ at[r] \in {"out", "look", "wait", "fetch", "parse"} => inf[r] = "pending" /\ r \notin done
    /\ at[r] \in Parsing => inflight[target[r]] = r
    /\ at[r] \in {"close", "finish"} => inf[r] # "pending"
    /\ at[r] = "finish" => r \in done
    /\ r \in done => inf[r] # "pending"
    /\ at[r] = "wait" => waitsFor[r] # None
    /\ waitsFor[r] # None => waitsFor[r] \in done \/ at[waitsFor[r]] \in Parsing
    /\ answer[r] = "nothing" => waitsFor[r] = None /\ inf[r] = "panic"
    /\ waitsFor[r] # None /\ answer[r] = "envelope" =>
          waitsFor[r] \in done /\ inf[waitsFor[r]] = "envelope"

\* What is kept for a message, and who is parsing it.
MessageIsSound(i) ==
    /\ inflight[i] # None => at[inflight[i]] \in Parsing /\ target[inflight[i]] = i
    /\ entries[i] # None =>
          /\ entries[i] \in timers /\ target[entries[i]] = i
          /\ at[entries[i]] = "back" /\ inf[entries[i]] = "envelope"

\* The inductive invariant of EnvelopeCache.
CacheInv ==
    /\ CacheTypeOK
    /\ \A r \in Requests : RequestIsSound(r)
    /\ \A i \in Ids : MessageIsSound(i)

LEMMA CacheInitInv == Init => CacheInv
<1> SUFFICES ASSUME Init PROVE CacheInv
  OBVIOUS
<1> USE DEF Init, CacheInit
<1>1. CacheTypeOK
  BY DEF CacheTypeOK
<1>2. \A r \in Requests : RequestIsSound(r)
  BY DEF RequestIsSound, Parsing
<1>3. \A i \in Ids : MessageIsSound(i)
  BY DEF MessageIsSound
<1> QED
  BY <1>1, <1>2, <1>3 DEF CacheInv

LEMMA CacheAnswers == CacheInv => AnswersAreWhole /\ NobodyWaitsForNobody /\ EntriesHaveTimers
<1> SUFFICES ASSUME CacheInv PROVE AnswersAreWhole /\ NobodyWaitsForNobody /\ EntriesHaveTimers
  OBVIOUS
<1>1. AnswersAreWhole
  BY DEF CacheInv, RequestIsSound, AnswersAreWhole
<1>2. NobodyWaitsForNobody
  BY DEF CacheInv, RequestIsSound, MessageIsSound, NobodyWaitsForNobody
<1>3. EntriesHaveTimers
  BY DEF CacheInv, MessageIsSound, EntriesHaveTimers
<1> QED
  BY <1>1, <1>2, <1>3

\* A request that only moves.
LEMMA CacheLookup ==
    ASSUME CacheInv, NEW r \in Requests, Call(r) \/ Lookup(r)
    PROVE  CacheInv'
<1> USE DEF CacheInv, CacheTypeOK, Call, Lookup, LookupHit, LookupWait, LookupParse, Move, Return, Valid, Forgotten, Parsing
<1>1. CASE Call(r)
  <2>1. CacheTypeOK'
    BY <1>1
  <2>2. ASSUME NEW q \in Requests PROVE RequestIsSound(q)'
    BY <1>1 DEF RequestIsSound
  <2>3. ASSUME NEW i \in Ids PROVE MessageIsSound(i)'
    BY <1>1 DEF MessageIsSound, RequestIsSound
  <2> QED
    BY <2>1, <2>2, <2>3
<1>2. CASE LookupHit(r)
  <2>1. CacheTypeOK'
    BY <1>2
  <2>2. ASSUME NEW q \in Requests PROVE RequestIsSound(q)'
    BY <1>2 DEF RequestIsSound
  <2>3. ASSUME NEW i \in Ids PROVE MessageIsSound(i)'
    BY <1>2 DEF MessageIsSound, RequestIsSound
  <2> QED
    BY <2>1, <2>2, <2>3
<1>3. CASE LookupWait(r)
  <2>1. CacheTypeOK'
    BY <1>3
  <2>2. ASSUME NEW q \in Requests PROVE RequestIsSound(q)'
    BY <1>3, NoneAssumption DEF RequestIsSound, MessageIsSound
  <2>3. ASSUME NEW i \in Ids PROVE MessageIsSound(i)'
    BY <1>3 DEF MessageIsSound, RequestIsSound
  <2> QED
    BY <2>1, <2>2, <2>3
<1>4. CASE LookupParse(r)
  <2>1. CacheTypeOK'
    BY <1>4
  <2>2. ASSUME NEW q \in Requests PROVE RequestIsSound(q)'
    BY <1>4, NoneAssumption DEF RequestIsSound, MessageIsSound
  <2>3. ASSUME NEW i \in Ids PROVE MessageIsSound(i)'
    BY <1>4, NoneAssumption DEF MessageIsSound, RequestIsSound
  <2> QED
    BY <2>1, <2>2, <2>3
<1> QED
  BY <1>1, <1>2, <1>3, <1>4

\* Fetch, Parse, Close and Wake leave the tables of the cache alone.
LEMMA CacheProgress ==
    ASSUME CacheInv, NEW r \in Requests, Fetch(r) \/ Parse(r) \/ Close(r) \/ Wake(r)
    PROVE  CacheInv'
<1> USE DEF CacheInv, CacheTypeOK, Fetch, Parse, Close, Wake, Move, Return, Parsing
<1>1. CASE Fetch(r)
  <2>1. CacheTypeOK'
    BY <1>1
  <2>2. ASSUME NEW q \in Requests PROVE RequestIsSound(q)'
    BY <1>1 DEF RequestIsSound
  <2>3. ASSUME NEW i \in Ids PROVE MessageIsSound(i)'
    BY <1>1 DEF MessageIsSound, RequestIsSound
  <2> QED
    BY <2>1, <2>2, <2>3
<1>2. CASE Parse(r)
  <2>1. CacheTypeOK'
    BY <1>2
  <2>2. ASSUME NEW q \in Requests PROVE RequestIsSound(q)'
    BY <1>2 DEF RequestIsSound
  <2>3. ASSUME NEW i \in Ids PROVE MessageIsSound(i)'
    BY <1>2 DEF MessageIsSound, RequestIsSound
  <2> QED
    BY <2>1, <2>2, <2>3
<1>3. CASE Close(r)
  <2>1. CacheTypeOK'
    BY <1>3
  <2>2. ASSUME NEW q \in Requests PROVE RequestIsSound(q)'
    BY <1>3 DEF RequestIsSound
  <2>3. ASSUME NEW i \in Ids PROVE MessageIsSound(i)'
    BY <1>3 DEF MessageIsSound, RequestIsSound
  <2> QED
    BY <2>1, <2>2, <2>3
<1>4. CASE Wake(r)
  <2>1. CacheTypeOK'
    BY <1>4
  <2>2. ASSUME NEW q \in Requests PROVE RequestIsSound(q)'
    BY <1>4, NoneAssumption DEF RequestIsSound
  <2>3. ASSUME NEW i \in Ids PROVE MessageIsSound(i)'
    BY <1>4 DEF MessageIsSound, RequestIsSound
  <2> QED
    BY <2>1, <2>2, <2>3
<1> QED
  BY <1>1, <1>2, <1>3, <1>4

\* The end of a parse: its envelope becomes the entry.
LEMMA CacheFinish ==
    ASSUME CacheInv, NEW r \in Requests, Finish(r)
    PROVE  CacheInv'
<1> USE DEF CacheInv, CacheTypeOK, Finish, Move, Return, OwnAnswer, Parsing
<1>1. CacheTypeOK'
  BY DEF RequestIsSound
<1>2. ASSUME NEW q \in Requests PROVE RequestIsSound(q)'
  BY NoneAssumption DEF RequestIsSound, MessageIsSound
<1>3. ASSUME NEW i \in Ids PROVE MessageIsSound(i)'
  BY NoneAssumption DEF MessageIsSound, RequestIsSound
<1> QED
  BY <1>1, <1>2, <1>3

\* Time, timers and invalidations.
LEMMA CacheOthers ==
    ASSUME CacheInv, NEW S \in SUBSET Ids, CacheTick \/ Invalidate(S)
    PROVE  CacheInv'
<1> USE DEF CacheInv, CacheTypeOK, CacheTick, Expire, Timer, Invalidate, Forgotten, Parsing
<1>1. CASE \E e \in Requests : Expire(e)
  <2>1. CacheTypeOK'
    BY <1>1
  <2>2. ASSUME NEW q \in Requests PROVE RequestIsSound(q)'
    BY <1>1 DEF RequestIsSound
  <2>3. ASSUME NEW i \in Ids PROVE MessageIsSound(i)'
    BY <1>1 DEF MessageIsSound
  <2> QED
    BY <2>1, <2>2, <2>3
<1>2. ASSUME NEW e \in Requests, Timer(e) PROVE CacheInv'
  <2>1. CacheTypeOK'
    BY <1>2
  <2>2. ASSUME NEW q \in Requests PROVE RequestIsSound(q)'
    BY <1>2 DEF RequestIsSound
  <2>3. ASSUME NEW i \in Ids PROVE MessageIsSound(i)'
    BY <1>2 DEF MessageIsSound
  <2> QED
    BY <2>1, <2>2, <2>3
<1>3. CASE Invalidate(S)
  <2>1. CacheTypeOK'
    BY <1>3
  <2>2. ASSUME NEW q \in Requests PROVE RequestIsSound(q)'
    BY <1>3 DEF RequestIsSound
  <2>3. ASSUME NEW i \in Ids PROVE MessageIsSound(i)'
    BY <1>3 DEF MessageIsSound
  <2> QED
    BY <2>1, <2>2, <2>3
<1> QED
  BY <1>1, <1>2, <1>3

\* Steps that change nothing of the cache but the rows.
LEMMA CacheRows ==
    ASSUME CacheInv, UNCHANGED cacheVars, rows' \in [Ids -> {"unread", "read", "gone"}]
    PROVE  CacheInv'
BY DEF CacheInv, CacheTypeOK, cacheVars, RequestIsSound, MessageIsSound, Parsing

\* What a request works on are messages.
SelInv == sel \in [Requests -> SUBSET Ids]

LEMMA SelStep == CacheInv /\ SelInv /\ [Next]_vars => SelInv'
<1> SUFFICES ASSUME CacheInv, SelInv, [Next]_vars PROVE SelInv'
  OBVIOUS
<1> USE DEF SelInv
<1>1. ASSUME NEW r \in Requests, Start(r) PROVE SelInv'
  BY <1>1 DEF Start, CacheInv, CacheTypeOK
<1>2. ASSUME NEW r \in Requests, Select(r) PROVE SelInv'
  BY <1>2 DEF Select, Selection
<1>3. ASSUME NEW r \in Requests,
             CallCache(r) \/ LeaveCache(r) \/ Write(r) \/ ClearCache(r) \/ Announce(r) \/ NotifyStats(r) \/ StatsStep(r)
      PROVE sel' = sel
  BY <1>3 DEF CallCache, LeaveCache, Write, ClearCache, Announce, NotifyStats, StatsStep, Awake, CountTotal,
       CountUnread, requestVars
<1>4. ASSUME NEW r \in Requests, CacheStep(r) /\ UNCHANGED <<hubVars, requestVars, statsVars, late>>
      PROVE sel' = sel
  BY <1>4 DEF requestVars
<1>5. CASE UNCHANGED vars \/ Rest \/ UNCHANGED <<hubVars, requestVars, statsVars, late>>
            \/ UNCHANGED <<rows, cacheVars, requestVars, statsVars, late>>
  BY <1>5 DEF vars, Rest, requestVars
<1> QED
  BY <1>1, <1>2, <1>3, <1>4, <1>5 DEF Next, RequestStep

LEMMA CacheStepInv == CacheInv /\ SelInv /\ [Next]_vars => CacheInv'
<1> SUFFICES ASSUME CacheInv, SelInv, [Next]_vars PROVE CacheInv'
  OBVIOUS
<1>0. rows \in [Ids -> {"unread", "read", "gone"}]
  BY DEF CacheInv, CacheTypeOK
<1>1. ASSUME NEW r \in Requests, CallCache(r) PROVE CacheInv'
  BY <1>1, CacheLookup DEF CallCache
<1>2. ASSUME NEW r \in Requests, CacheStep(r) PROVE CacheInv'
  BY <1>2, CacheLookup, CacheProgress, CacheFinish DEF CacheStep
<1>3. ASSUME NEW r \in Requests, ClearCache(r) PROVE CacheInv'
  <2>1. CASE At(r, "invalidate") /\ Invalidate(sel[r])
    BY <2>1, CacheOthers DEF SelInv
  <2>2. CASE Invalidate(Ids)
    BY <2>2, CacheOthers
  <2> QED
    BY <1>3, <2>1, <2>2 DEF ClearCache
<1>4. ASSUME NEW r \in Requests, Write(r) PROVE CacheInv'
  <2>1. rows' \in [Ids -> {"unread", "read", "gone"}]
    BY <1>0, <1>4 DEF Write, SetTo
  <2> QED
    BY <1>4, <2>1, CacheRows DEF Write
<1>5. CASE CacheTick
  BY <1>5, CacheOthers
<1>6. CASE UNCHANGED <<rows, cacheVars>>
  BY <1>0, <1>6, CacheRows
<1>7. ASSUME NEW r \in Requests, Start(r) \/ LeaveCache(r) \/ Select(r) \/ Announce(r) \/ NotifyStats(r) \/ StatsStep(r)
      PROVE UNCHANGED <<rows, cacheVars>>
  BY <1>7 DEF Start, LeaveCache, Select, Announce, NotifyStats, StatsStep, Awake, CountTotal, CountUnread
<1>8. CASE UNCHANGED vars \/ Rest \/ (HubStep /\ UNCHANGED <<rows, cacheVars, requestVars, statsVars, late>>)
  BY <1>6, <1>8 DEF vars, Rest
<1> QED
  BY <1>1, <1>2, <1>3, <1>4, <1>5, <1>6, <1>7, <1>8 DEF Next, RequestStep

\* A parse begins only where no other runs and no valid entry is kept.
LEMMA CacheParses ==
    ASSUME CacheInv, [Next]_vars, NEW r \in Requests, at[r] = "look", at'[r] = "fetch",
           NEW q \in Requests \ {r}, target[q] = target[r]
    PROVE  at[q] \notin Parsing /\ (entries[target[r]] = q => q \in expired)
<1>1. at \in [Requests -> {"out", "look", "wait", "back"} \union Parsing] /\ target \in [Requests -> Ids]
  BY DEF CacheInv, CacheTypeOK
<1>2. ASSUME NEW s \in Requests, CacheStep(s) PROVE LookupParse(r)
  BY <1>1, <1>2 DEF CacheStep, Lookup, LookupHit, LookupWait, LookupParse, Fetch, Parse, Close, Finish, Wake, Move, Return
<1>3. ASSUME NEW s \in Requests, CallCache(s) PROVE FALSE
  BY <1>1, <1>3 DEF CallCache, Call, Move
<1>4. ASSUME at' = at PROVE FALSE
  BY <1>4
<1>5. ASSUME NEW s \in Requests,
             Start(s) \/ LeaveCache(s) \/ Select(s) \/ Write(s) \/ ClearCache(s) \/ Announce(s)
                \/ NotifyStats(s) \/ StatsStep(s)
      PROVE at' = at
  BY <1>5 DEF Start, LeaveCache, Select, Write, ClearCache, Invalidate, Announce, NotifyStats, StatsStep,
       Awake, CountTotal, CountUnread, cacheVars
<1>6. ASSUME CacheTick \/ Rest \/ UNCHANGED vars \/ (HubStep /\ UNCHANGED <<rows, cacheVars, requestVars, statsVars, late>>)
      PROVE at' = at
  BY <1>6 DEF CacheTick, Expire, Timer, Rest, vars, cacheVars
<1>7. LookupParse(r)
  BY <1>2, <1>3, <1>4, <1>5, <1>6 DEF Next, RequestStep
<1>8. inflight[target[r]] = None /\ ~Valid(target[r])
  BY <1>7 DEF LookupParse
<1>9. at[q] \in Parsing => inflight[target[q]] = q
  BY DEF CacheInv, RequestIsSound
<1>10. q # None
  BY NoneAssumption
<1> QED
  BY <1>8, <1>9, <1>10 DEF Valid

LEMMA CacheHolds == Spec => [](CacheInv /\ SelInv)
<1>1. Init => CacheInv /\ SelInv
  BY CacheInitInv DEF Init, SelInv
<1>2. CacheInv /\ SelInv /\ [Next]_vars => CacheInv' /\ SelInv'
  BY CacheStepInv, SelStep
<1> QED
  BY <1>1, <1>2, PTL DEF Spec

\* A request is given the envelope, or the error, of the parse it made or waited for;
\* only the one whose own parse panicked is given neither.
THEOREM EveryAnswerIsWhole == Spec => []AnswersAreWhole
<1>1. CacheInv => AnswersAreWhole
  BY CacheAnswers
<1> QED
  BY <1>1, CacheHolds, PTL

\* Nobody waits for a parse that nobody makes.
THEOREM WaitersAreServed == Spec => []NobodyWaitsForNobody
<1>1. CacheInv => NobodyWaitsForNobody
  BY CacheAnswers
<1> QED
  BY <1>1, CacheHolds, PTL

\* Every entry is freed by a timer of its own, however expiry, invalidation and new
\* parses interleave.
THEOREM EntriesAreFreed == Spec => []EntriesHaveTimers
<1>1. CacheInv => EntriesHaveTimers
  BY CacheAnswers
<1> QED
  BY <1>1, CacheHolds, PTL

\* No message is parsed twice at once or while a valid entry is kept.
THEOREM MessagesAreParsedOnce == Spec => ParsesAreNeeded
<1> DEFINE Needed == \A r \in Requests : at[r] = "look" /\ at'[r] = "fetch" =>
          \A q \in Requests \ {r} : target[q] = target[r] =>
              /\ at[q] \notin Parsing
              /\ entries[target[r]] = q => q \in expired
<1>1. CacheInv /\ [Next]_vars => [Needed]_<<at, entries, expired, target>>
  BY CacheParses
<1> QED
  BY <1>1, CacheHolds, PTL DEF Spec, ParsesAreNeeded
----------------------------------------------------------------------------
(* The hub and its browsers                                                *)

\* A browser has pumps from its registration on; until then nothing is its own.
ClientIsSound(c) ==
    /\ reader[c] = "off" <=> conn[c] \in {"none", "upgraded"}
    /\ reader[c] = "off" => c \notin clients /\ writer[c] = "off" /\ buf[c] = <<>> /\ got[c] = <<>>
    /\ closes[c] = IF c \in clients \/ reader[c] = "off" THEN 0 ELSE 1

\* The events of q are those of h after the first j.
Follows(q, h, j) ==
    /\ j + Len(q) <= Len(h)
    /\ \A n \in 1..Len(q) : q[n] = h[j + n]

\* What a browser was sent, and after that what its channel holds, in the hub's order.
StreamIsSound(c) ==
    /\ Follows(got[c], hubLog, joined[c])
    /\ writer[c] = "on" =>
          /\ Follows(buf[c], hubLog, joined[c] + Len(got[c]))
          /\ c \in clients => joined[c] + Len(got[c]) + Len(buf[c]) = Len(hubLog)

\* The inductive invariant of Hub.
HubInv ==
    /\ HubTypeOK
    /\ \A c \in Browsers : ClientIsSound(c)
    /\ \A c \in Browsers : StreamIsSound(c)

LEMMA HubInitInv == Init => HubInv
<1> SUFFICES ASSUME Init PROVE HubInv
  OBVIOUS
<1> USE DEF Init, HubInit
<1>1. HubTypeOK
  BY BufferAssumption DEF HubTypeOK
<1>2. \A c \in Browsers : ClientIsSound(c)
  BY DEF ClientIsSound
<1>3. \A c \in Browsers : StreamIsSound(c)
  BY DEF StreamIsSound, Follows
<1> QED
  BY <1>1, <1>2, <1>3 DEF HubInv

\* The first event in a channel is sent.
LEMMA Sending ==
    ASSUME NEW h \in Seq(Events), NEW q \in Seq(Events), NEW b \in Seq(Events), b # <<>>,
           NEW j \in Nat, Follows(q, h, j), Follows(b, h, j + Len(q))
    PROVE  /\ Follows(Append(q, Head(b)), h, j)
           /\ Follows(Tail(b), h, j + Len(Append(q, Head(b))))
           /\ j + Len(Append(q, Head(b))) + Len(Tail(b)) = j + Len(q) + Len(b)
<1>1. /\ Head(b) = b[1] /\ Head(b) \in Events
      /\ Len(Tail(b)) = Len(b) - 1
      /\ \A n \in 1..Len(Tail(b)) : Tail(b)[n] = b[n + 1]
      /\ Len(b) \in Nat \ {0} /\ Len(q) \in Nat /\ Len(h) \in Nat
  BY HeadTailProperties, EmptySeq, LenProperties
<1> DEFINE r == Append(q, Head(b))  t == Tail(b)
<1>2. /\ Len(r) = Len(q) + 1
      /\ \A n \in 1..Len(q) : r[n] = q[n]
      /\ r[Len(q) + 1] = b[1]
  BY <1>1, AppendProperties
<1> HIDE DEF r, t
<1>3. Len(t) = Len(b) - 1 /\ \A n \in 1..Len(t) : t[n] = b[n + 1]
  BY <1>1 DEF t
<1>4. b[1] = h[j + Len(q) + 1]
  BY <1>1 DEF Follows
<1>5. Follows(r, h, j)
  <2>1. j + Len(r) <= Len(h)
    BY <1>1, <1>2 DEF Follows
  <2>2. ASSUME NEW n \in 1..Len(r) PROVE r[n] = h[j + n]
    <3>1. CASE n = Len(q) + 1
      <4>1. j + n = j + Len(q) + 1
        BY <1>1, <3>1
      <4> QED
        BY <1>2, <1>4, <3>1, <4>1
    <3>2. CASE n \in 1..Len(q)
      BY <1>2, <3>2 DEF Follows
    <3> QED
      BY <1>1, <1>2, <3>1, <3>2
  <2> QED
    BY <2>1, <2>2 DEF Follows
<1>6. Follows(t, h, j + Len(r))
  <2>1. j + Len(r) + Len(t) <= Len(h)
    BY <1>1, <1>2, <1>3 DEF Follows
  <2>2. ASSUME NEW n \in 1..Len(t) PROVE t[n] = h[j + Len(r) + n]
    <3>1. n + 1 \in 1..Len(b) /\ t[n] = b[n + 1]
      BY <1>1, <1>3
    <3>2. b[n + 1] = h[j + Len(q) + (n + 1)]
      BY <3>1 DEF Follows
    <3>3. j + Len(q) + (n + 1) = j + Len(r) + n
      BY <1>1, <1>2
    <3> QED
      BY <3>1, <3>2, <3>3
  <2> QED
    BY <2>1, <2>2 DEF Follows
<1>7. j + Len(r) + Len(t) = j + Len(q) + Len(b)
  BY <1>1, <1>2, <1>3
<1> QED
  BY <1>5, <1>6, <1>7 DEF r, t

\* The hub takes an event.
LEMMA Taking ==
    ASSUME NEW h \in Seq(Events), NEW q \in Seq(Events), NEW e \in Events,
           NEW j \in Nat, Follows(q, h, j)
    PROVE  /\ Follows(q, Append(h, e), j)
           /\ j + Len(q) = Len(h) =>
                 Follows(Append(q, e), Append(h, e), j) /\ j + Len(Append(q, e)) = Len(Append(h, e))
<1>1. Len(q) \in Nat /\ Len(h) \in Nat
  BY LenProperties
<1> DEFINE k == Append(h, e)  r == Append(q, e)
<1>2. Len(k) = Len(h) + 1 /\ (\A n \in 1..Len(h) : k[n] = h[n]) /\ k[Len(h) + 1] = e
  BY AppendProperties
<1>3. Len(r) = Len(q) + 1 /\ (\A n \in 1..Len(q) : r[n] = q[n]) /\ r[Len(q) + 1] = e
  BY AppendProperties
<1> HIDE DEF k, r
<1>4. ASSUME NEW n \in 1..Len(q) PROVE j + n \in 1..Len(h) /\ q[n] = k[j + n]
  <2>1. j + n \in 1..Len(h) /\ q[n] = h[j + n]
    BY <1>1 DEF Follows
  <2> QED
    BY <1>2, <2>1
<1>5. Follows(q, k, j)
  BY <1>1, <1>2, <1>4 DEF Follows
<1>6. ASSUME j + Len(q) = Len(h) PROVE Follows(r, k, j) /\ j + Len(r) = Len(k)
  <2>1. j + Len(r) = Len(k)
    BY <1>1, <1>2, <1>3, <1>6
  <2>2. ASSUME NEW n \in 1..Len(r) PROVE r[n] = k[j + n]
    <3>1. CASE n = Len(q) + 1
      <4>1. j + n = Len(h) + 1
        BY <1>1, <1>6, <3>1
      <4> QED
        BY <1>2, <1>3, <3>1, <4>1
    <3>2. CASE n \in 1..Len(q)
      BY <1>3, <1>4, <3>2
    <3> QED
      BY <1>1, <1>3, <3>1, <3>2
  <2>3. j + Len(r) <= Len(k)
    BY <1>1, <1>2, <2>1
  <2> QED
    BY <2>1, <2>2, <2>3 DEF Follows
<1> QED
  BY <1>5, <1>6 DEF k, r

\* The pumps' deferred calls, and the connection.
LEMMA HubLeaves ==
    ASSUME HubInv, NEW c \in Browsers,
           Upgrade(c) \/ ReaderFails(c) \/ WriterStops(c) \/ Break(c) \/ ReaderLeaves(c) \/ WriterLeaves(c)
    PROVE  HubInv'
<1> USE DEF HubInv
<1>1. HubTypeOK /\ (\A b \in Browsers : ClientIsSound(b) /\ StreamIsSound(b))
  OBVIOUS
<1>2. /\ UNCHANGED <<sending, hubLog, buf, joined, got>>
      /\ (clients' = clients /\ closes' = closes) \/ Unregister(c)
  BY DEF Upgrade, ReaderFails, WriterStops, Break, ReaderLeaves, WriterLeaves
<1>3. \A b \in Browsers : writer'[b] = "on" => writer[b] = "on"
  BY <1>1 DEF HubTypeOK, Upgrade, ReaderFails, WriterStops, Break, ReaderLeaves, WriterLeaves
<1>4. clients' \subseteq clients
  BY <1>2 DEF Unregister
<1>5. HubTypeOK'
  <2>1. closes' \in [Browsers -> Nat]
    BY <1>1, <1>2 DEF HubTypeOK, Unregister
  <2>2. /\ conn' \in [Browsers -> {"none", "upgraded", "open", "broken"}]
        /\ reader' \in [Browsers -> {"off", "on", "leaving", "done"}]
        /\ writer' \in [Browsers -> {"off", "on", "leaving", "done"}]
    BY <1>1 DEF HubTypeOK, Upgrade, ReaderFails, WriterStops, Break, ReaderLeaves, WriterLeaves
  <2> QED
    BY <1>1, <1>2, <1>4, <2>1, <2>2 DEF HubTypeOK
<1>6. ASSUME NEW b \in Browsers PROVE ClientIsSound(b)'
  BY <1>1 DEF ClientIsSound, HubTypeOK, Upgrade, ReaderFails, WriterStops, Break, ReaderLeaves,
       WriterLeaves, Unregister
<1>7. ASSUME NEW b \in Browsers PROVE StreamIsSound(b)'
  BY <1>1, <1>2, <1>3, <1>4 DEF StreamIsSound
<1> QED
  BY <1>5, <1>6, <1>7

LEMMA HubRegisters ==
    ASSUME HubInv, NEW c \in Browsers, HubRegister(c)
    PROVE  HubInv'
<1> USE DEF HubInv, HubRegister
<1>1. HubTypeOK'
  BY DEF HubTypeOK
<1>2. ASSUME NEW b \in Browsers PROVE ClientIsSound(b)'
  BY DEF ClientIsSound, HubTypeOK
<1>3. ASSUME NEW b \in Browsers PROVE StreamIsSound(b)'
  <2>1. CASE b = c
    <3>1. /\ got[c] = <<>> /\ buf[c] = <<>> /\ joined'[c] = Len(hubLog) /\ Len(hubLog) \in Nat
          /\ UNCHANGED <<got, buf, hubLog>>
      BY LenProperties DEF ClientIsSound, HubTypeOK
    <3>2. Len(got'[c]) = 0 /\ Len(buf'[c]) = 0
      BY <3>1
    <3> QED
      BY <2>1, <3>1, <3>2 DEF StreamIsSound, Follows
  <2>2. CASE b # c
    BY <2>2 DEF StreamIsSound, HubTypeOK
  <2> QED
    BY <2>1, <2>2
<1> QED
  BY <1>1, <1>2, <1>3

\* The writer takes the head of its channel, and sends or loses it.
LEMMA HubWrites ==
    ASSUME HubInv, NEW c \in Browsers, WriterSends(c) \/ WriterFails(c)
    PROVE  HubInv'
<1> USE DEF HubInv
<1>1. HubTypeOK /\ (\A b \in Browsers : ClientIsSound(b) /\ StreamIsSound(b))
  OBVIOUS
<1>2. /\ buf[c] \in Seq(Events) /\ buf[c] # <<>> /\ got[c] \in Seq(Events)
      /\ writer[c] = "on" /\ buf' = [buf EXCEPT ![c] = Tail(@)]
      /\ UNCHANGED <<clients, sending, hubLog, conn, reader, closes, joined>>
  BY <1>1 DEF HubTypeOK, WriterSends, WriterFails
<1>3. /\ Head(buf[c]) \in Events /\ Tail(buf[c]) \in Seq(Events)
      /\ Len(Tail(buf[c])) = Len(buf[c]) - 1
      /\ \A n \in 1..Len(Tail(buf[c])) : Tail(buf[c])[n] = buf[c][n + 1]
      /\ Len(buf[c]) \in Nat \ {0}
  BY <1>2, HeadTailProperties, EmptySeq
<1>4. /\ buf'[c] = Tail(buf[c]) /\ buf' \in [Browsers -> Seq(Events)]
      /\ \A b \in Browsers \ {c} : buf'[b] = buf[b]
  BY <1>1, <1>2, <1>3 DEF HubTypeOK
<1>5. /\ writer' \in [Browsers -> {"off", "on", "leaving", "done"}]
      /\ \A b \in Browsers : (writer'[b] = "off" <=> writer[b] = "off") /\ (writer'[b] = "on" => writer[b] = "on")
  BY <1>1 DEF HubTypeOK, WriterSends, WriterFails
<1>6. /\ got' \in [Browsers -> Seq(Events)]
      /\ \A b \in Browsers \ {c} : got'[b] = got[b]
  <2>1. Append(got[c], Head(buf[c])) \in Seq(Events) /\ got \in [Browsers -> Seq(Events)]
    BY <1>1, <1>2, <1>3, AppendProperties DEF HubTypeOK
  <2> QED
    BY <2>1 DEF WriterSends, WriterFails
<1>7. HubTypeOK'
  <2>1. ASSUME NEW b \in Browsers PROVE Len(buf'[b]) <= SendBuffer
    <3>1. Len(buf[b]) <= SendBuffer
      BY <1>1 DEF HubTypeOK
    <3>2. CASE b = c
      BY <1>3, <1>4, <3>1, <3>2, BufferAssumption
    <3>3. CASE b # c
      BY <1>4, <3>1, <3>3
    <3> QED
      BY <3>2, <3>3
  <2> QED
    <3>1. /\ clients' \in SUBSET Browsers /\ sending' \in SUBSET Events /\ hubLog' \in Seq(Events)
          /\ conn' \in [Browsers -> {"none", "upgraded", "open", "broken"}]
          /\ reader' \in [Browsers -> {"off", "on", "leaving", "done"}]
          /\ closes' \in [Browsers -> Nat] /\ joined' \in [Browsers -> Nat]
      BY <1>1, <1>2 DEF HubTypeOK
    <3> HIDE DEF HubInv
    <3> QED
      BY <1>4, <1>5, <1>6, <2>1, <3>1 DEF HubTypeOK
<1>8. reader[c] # "off"
  BY <1>1, <1>2 DEF ClientIsSound
<1>9. ASSUME NEW b \in Browsers PROVE ClientIsSound(b)'
  <2>1. ClientIsSound(b)
    BY <1>1
  <2>2. /\ reader'[b] = reader[b] /\ conn'[b] = conn[b] /\ clients' = clients /\ closes'[b] = closes[b]
        /\ writer'[b] = "off" <=> writer[b] = "off"
    BY <1>2, <1>5
  <2>3. CASE b = c
    BY <1>8, <2>1, <2>2, <2>3 DEF ClientIsSound
  <2>4. CASE b # c
    <3>1. buf'[b] = buf[b] /\ got'[b] = got[b]
      BY <1>4, <1>6, <2>4
    <3> HIDE DEF HubInv
    <3> QED
      BY <2>1, <2>2, <3>1 DEF ClientIsSound
  <2> QED
    BY <2>3, <2>4
<1>10. ASSUME NEW b \in Browsers \ {c} PROVE StreamIsSound(b)'
  BY <1>1, <1>2, <1>4, <1>5, <1>6 DEF StreamIsSound
<1>11. StreamIsSound(c)'
  <2>1. hubLog \in Seq(Events) /\ joined[c] \in Nat /\ Len(got[c]) \in Nat /\ Len(hubLog) \in Nat
    BY <1>1, <1>2, LenProperties DEF HubTypeOK
  <2>2. StreamIsSound(c)
    BY <1>1
  <2>3. CASE WriterSends(c)
    <3>1. got'[c] = Append(got[c], Head(buf[c])) /\ writer'[c] = "on"
      BY <1>1, <2>3 DEF WriterSends, HubTypeOK
    <3>2. /\ Follows(got'[c], hubLog, joined[c])
          /\ Follows(buf'[c], hubLog, joined[c] + Len(got'[c]))
          /\ joined[c] + Len(got'[c]) + Len(buf'[c]) = joined[c] + Len(got[c]) + Len(buf[c])
      <4>1. Follows(got[c], hubLog, joined[c]) /\ Follows(buf[c], hubLog, joined[c] + Len(got[c]))
        BY <1>2, <2>2 DEF StreamIsSound
      <4>2. /\ Follows(Append(got[c], Head(buf[c])), hubLog, joined[c])
            /\ Follows(Tail(buf[c]), hubLog, joined[c] + Len(Append(got[c], Head(buf[c]))))
            /\ joined[c] + Len(Append(got[c], Head(buf[c]))) + Len(Tail(buf[c])) = joined[c] + Len(got[c]) + Len(buf[c])
        <5> DEFINE h == hubLog
        <5> DEFINE q == got[c]
        <5> DEFINE b == buf[c]
        <5> DEFINE j == joined[c]
        <5>1. /\ h \in Seq(Events) /\ q \in Seq(Events) /\ b \in Seq(Events) /\ b # <<>> /\ j \in Nat
              /\ Follows(q, h, j) /\ Follows(b, h, j + Len(q))
          BY <1>2, <2>1, <4>1
        <5>2. /\ Follows(Append(q, Head(b)), h, j)
              /\ Follows(Tail(b), h, j + Len(Append(q, Head(b))))
              /\ j + Len(Append(q, Head(b))) + Len(Tail(b)) = j + Len(q) + Len(b)
          <6> HIDE DEF h, q, b, j, HubInv
          <6> QED
            BY <5>1, Sending
        <5> QED
          BY <5>2
      <4> QED
        BY <1>4, <3>1, <4>2
    <3> QED
      BY <1>2, <2>2, <3>1, <3>2 DEF StreamIsSound
  <2>4. CASE WriterFails(c)
    BY <1>1, <1>2, <2>2, <2>4 DEF StreamIsSound, WriterFails, HubTypeOK
  <2> QED
    BY <2>3, <2>4
<1> QED
  BY <1>7, <1>9, <1>10, <1>11

\* A turn of the hub's loop that broadcasts.
LEMMA HubBroadcasts ==
    ASSUME HubInv, NEW e \in Events, HubBroadcast(e)
    PROVE  HubInv'
<1> USE DEF HubInv
<1>1. HubTypeOK /\ (\A b \in Browsers : ClientIsSound(b) /\ StreamIsSound(b))
  OBVIOUS
<1>2. /\ hubLog' = Append(hubLog, e) /\ hubLog \in Seq(Events)
      /\ UNCHANGED <<conn, reader, writer, joined, got>>
  BY <1>1 DEF HubBroadcast, HubTypeOK
<1>3. ASSUME NEW b \in Browsers
      PROVE  \/ /\ b \in clients' /\ b \in clients /\ Len(buf[b]) < SendBuffer
                /\ buf'[b] = Append(buf[b], e) /\ closes'[b] = closes[b]
             \/ b \notin clients' /\ b \in clients /\ buf'[b] = buf[b] /\ closes'[b] = closes[b] + 1
             \/ b \notin clients' /\ b \notin clients /\ buf'[b] = buf[b] /\ closes'[b] = closes[b]
  <2>1. Len(buf[b]) \in Nat
    BY <1>1, LenProperties DEF HubTypeOK
  <2> QED
    BY <2>1, BufferAssumption DEF HubBroadcast, Full
<1>4. ASSUME NEW b \in Browsers
      PROVE  buf'[b] \in Seq(Events) /\ Len(buf'[b]) <= SendBuffer /\ closes'[b] \in Nat
  <2>1. buf[b] \in Seq(Events) /\ Len(buf[b]) <= SendBuffer /\ closes[b] \in Nat /\ Len(buf[b]) \in Nat
    BY <1>1, LenProperties DEF HubTypeOK
  <2>2. Append(buf[b], e) \in Seq(Events) /\ Len(Append(buf[b], e)) = Len(buf[b]) + 1
    BY <2>1, AppendProperties
  <2>3. CASE Len(buf[b]) < SendBuffer /\ buf'[b] = Append(buf[b], e) /\ closes'[b] = closes[b]
    BY <2>1, <2>2, <2>3, BufferAssumption
  <2>4. CASE buf'[b] = buf[b] /\ closes'[b] \in {closes[b], closes[b] + 1}
    BY <2>1, <2>4
  <2> QED
    BY <1>3, <2>3, <2>4
<1>5. HubTypeOK'
  <2>1. clients' \subseteq clients /\ sending' \in SUBSET Events
    BY <1>1 DEF HubTypeOK, HubBroadcast
  <2>2. hubLog' \in Seq(Events)
    BY <1>2, AppendProperties
  <2>3. buf' \in [Browsers -> Seq(Events)] /\ closes' \in [Browsers -> Nat]
    BY <1>4 DEF HubBroadcast
  <2> QED
    BY <1>1, <1>2, <1>4, <2>1, <2>2, <2>3 DEF HubTypeOK
<1>6. ASSUME NEW b \in Browsers PROVE ClientIsSound(b)'
  BY <1>1, <1>2, <1>3 DEF ClientIsSound
<1>7. ASSUME NEW b \in Browsers PROVE StreamIsSound(b)'
  <2>1. /\ got[b] \in Seq(Events) /\ buf[b] \in Seq(Events) /\ joined[b] \in Nat
        /\ Len(got[b]) \in Nat /\ joined[b] + Len(got[b]) \in Nat
    BY <1>1, LenProperties DEF HubTypeOK
  <2>2. Follows(got'[b], hubLog', joined'[b])
    BY <1>1, <1>2, <2>1, Taking DEF StreamIsSound
  <2>3. ASSUME writer[b] = "on"
        PROVE  /\ Follows(buf'[b], hubLog', joined[b] + Len(got[b]))
               /\ b \in clients' => joined[b] + Len(got[b]) + Len(buf'[b]) = Len(hubLog')
    <3>1. Follows(buf[b], hubLog, joined[b] + Len(got[b]))
      BY <1>1, <2>3 DEF StreamIsSound
    <3>2. CASE b \in clients'
      <4>1. joined[b] + Len(got[b]) + Len(buf[b]) = Len(hubLog) /\ buf'[b] = Append(buf[b], e)
        BY <1>1, <1>3, <2>3, <3>2 DEF StreamIsSound
      <4> QED
        BY <1>2, <2>1, <3>1, <4>1, Taking
    <3>3. CASE b \notin clients'
      <4>1. buf'[b] = buf[b]
        BY <1>3, <3>3
      <4> QED
        BY <1>2, <2>1, <3>1, <3>3, <4>1, Taking
    <3> QED
      BY <3>2, <3>3
  <2> QED
    BY <1>2, <2>2, <2>3 DEF StreamIsSound
<1> QED
  BY <1>5, <1>6, <1>7

\* The steps of Hub and those of requests that broadcast.
LEMMA HubBroadcastsMore ==
    ASSUME HubInv, NEW S \in SUBSET Events, Broadcast(S)
    PROVE  HubInv'
<1> USE DEF HubInv, Broadcast
<1>1. HubTypeOK'
  BY DEF HubTypeOK
<1>2. ASSUME NEW b \in Browsers PROVE ClientIsSound(b)' /\ StreamIsSound(b)'
  BY DEF ClientIsSound, StreamIsSound
<1> QED
  BY <1>1, <1>2

LEMMA EventsAreEvents ==
    ASSUME NEW r \in Requests, NEW t \in {"update", "delete", "truncate", "prune", "stats"}
    PROVE  {Event(t, r)} \in SUBSET Events
BY EventsAssumption DEF AllEvents, Event

LEMMA HubStepInv == HubInv /\ [Next]_vars => HubInv'
<1> SUFFICES ASSUME HubInv, [Next]_vars PROVE HubInv'
  OBVIOUS
<1>1. CASE UNCHANGED hubVars
  BY <1>1 DEF hubVars, HubInv, HubTypeOK, ClientIsSound, StreamIsSound
<1>2. CASE HubStep
  <2>1. ASSUME NEW c \in Browsers, Upgrade(c) \/ Pump(c) \/ Break(c) PROVE HubInv'
    BY <2>1, HubLeaves, HubRegisters, HubWrites DEF Pump
  <2>2. ASSUME NEW e \in Events, HubBroadcast(e) PROVE HubInv'
    BY <2>2, HubBroadcasts
  <2> QED
    BY <1>2, <2>1, <2>2 DEF HubStep
<1>3. ASSUME NEW r \in Requests, Announce(r) PROVE HubInv'
  BY <1>3, EventsAreEvents, HubBroadcastsMore DEF Announce
<1>4. ASSUME NEW r \in Requests, StatsStep(r) PROVE HubInv'
  <2>1. CASE Awake(r) \/ CountTotal(r)
    BY <1>1, <2>1 DEF Awake, CountTotal
  <2>2. CASE CountUnread(r)
    BY <2>2, EventsAreEvents, HubBroadcastsMore DEF CountUnread
  <2> QED
    BY <1>4, <2>1, <2>2 DEF StatsStep
<1>5. ASSUME NEW r \in Requests,
             Start(r) \/ CallCache(r) \/ LeaveCache(r) \/ Select(r) \/ Write(r) \/ ClearCache(r) \/ NotifyStats(r)
      PROVE  UNCHANGED hubVars
  BY <1>5 DEF Start, CallCache, LeaveCache, Select, Write, ClearCache, NotifyStats
<1>6. CASE UNCHANGED vars \/ Rest
  BY <1>1, <1>6 DEF vars, Rest
<1> QED
  BY <1>1, <1>2, <1>3, <1>4, <1>5, <1>6 DEF Next, RequestStep

LEMMA HubHolds == Spec => []HubInv
<1>1. Init => HubInv
  BY HubInitInv
<1>2. HubInv /\ [Next]_vars => HubInv'
  BY HubStepInv
<1> QED
  BY <1>1, <1>2, PTL DEF Spec

\* A browser's channel is closed once, whichever of the hub and its pumps comes first.
THEOREM ChannelsAreClosedOnce == Spec => []ChannelsCloseOnce
<1>1. HubInv => ChannelsCloseOnce
  BY DEF HubInv, ClientIsSound, ChannelsCloseOnce
<1> QED
  BY <1>1, HubHolds, PTL

LEMMA FollowsIsSubSeq ==
    ASSUME NEW h \in Seq(Events), NEW q \in Seq(Events), NEW j \in Nat, Follows(q, h, j)
    PROVE  q = SubSeq(SubSeq(h, j + 1, Len(h)), 1, Len(q))
<1> DEFINE s == SubSeq(h, j + 1, Len(h))  t == SubSeq(s, 1, Len(q))
<1>1. Len(q) \in Nat /\ Len(h) \in Nat /\ j + Len(q) <= Len(h)
  BY LenProperties DEF Follows
<1>2. /\ s \in Seq(Events) /\ Len(s) = Len(h) - j
      /\ \A n \in 1..(Len(h) - j) : s[n] = h[j + n]
  <2>1. \A n \in (j + 1)..Len(h) : h[n] \in Events
    BY <1>1, ElementOfSeq
  <2>2. /\ s \in Seq(Events)
        /\ Len(s) = IF j + 1 <= Len(h) THEN Len(h) - (j + 1) + 1 ELSE 0
        /\ \A n \in 1..(Len(h) - (j + 1) + 1) : s[n] = h[(j + 1) + n - 1]
    BY <1>1, <2>1, SubSeqProperties
  <2> QED
    BY <1>1, <2>2
<1> HIDE DEF s
<1>3. /\ t \in Seq(Events) /\ Len(t) = Len(q)
      /\ \A n \in 1..Len(q) : t[n] = s[n]
  <2>1. \A n \in 1..Len(q) : s[n] \in Events
    BY <1>1, <1>2, ElementOfSeq
  <2>2. /\ t \in Seq(Events)
        /\ Len(t) = IF 1 <= Len(q) THEN Len(q) - 1 + 1 ELSE 0
        /\ \A n \in 1..(Len(q) - 1 + 1) : t[n] = s[1 + n - 1]
    BY <1>1, <2>1, SubSeqProperties
  <2> QED
    BY <1>1, <2>2
<1>4. ASSUME NEW n \in 1..Len(q) PROVE q[n] = t[n]
  <2>1. n \in 1..(Len(h) - j)
    BY <1>1
  <2> QED
    BY <1>2, <1>3, <2>1 DEF Follows
<1> HIDE DEF t
<1>5. q = t
  <2>1. Len(q) = Len(t) /\ t \in Seq(Events)
    BY <1>3
  <2> QED
    BY <1>4, <2>1, SeqEqual
<1> QED
  BY <1>5 DEF s, t

\* What is sent and then what waits follow the hub as one sequence.
LEMMA FollowsOn ==
    ASSUME NEW h \in Seq(Events), NEW q \in Seq(Events), NEW b \in Seq(Events), NEW j \in Nat,
           Follows(q, h, j), Follows(b, h, j + Len(q))
    PROVE  Follows(q \o b, h, j) /\ Len(q \o b) = Len(q) + Len(b) /\ q \o b \in Seq(Events)
<1>1. Len(q) \in Nat /\ Len(b) \in Nat /\ Len(h) \in Nat
  BY LenProperties
<1> DEFINE r == q \o b
<1>2. /\ r \in Seq(Events) /\ Len(r) = Len(q) + Len(b)
      /\ \A n \in 1..(Len(q) + Len(b)) : r[n] = IF n <= Len(q) THEN q[n] ELSE b[n - Len(q)]
  BY ConcatProperties
<1> HIDE DEF r
<1>3. j + Len(r) <= Len(h)
  BY <1>1, <1>2 DEF Follows
<1>4. ASSUME NEW n \in 1..Len(r) PROVE r[n] = h[j + n]
  <2>1. CASE n <= Len(q)
    <3>1. n \in 1..Len(q) /\ r[n] = q[n]
      BY <1>1, <1>2, <2>1
    <3> QED
      BY <3>1 DEF Follows
  <2>2. CASE ~(n <= Len(q))
    <3>1. n - Len(q) \in 1..Len(b) /\ r[n] = b[n - Len(q)]
      BY <1>1, <1>2, <2>2
    <3>2. b[n - Len(q)] = h[j + Len(q) + (n - Len(q))]
      BY <3>1 DEF Follows
    <3>3. j + Len(q) + (n - Len(q)) = j + n
      BY <1>1
    <3> QED
      BY <3>1, <3>2, <3>3
  <2> QED
    BY <2>1, <2>2
<1> QED
  BY <1>2, <1>3, <1>4 DEF Follows, r

\* A browser is sent every event the hub has taken since it registered, in the hub's
\* order, until it is disconnected.
THEOREM StreamsAreWhole == Spec => []StreamsHaveNoGaps
<1>1. HubInv => StreamsHaveNoGaps
  <2> SUFFICES ASSUME HubInv, NEW c \in Browsers
               PROVE  /\ got[c] = SubSeq(Since(c), 1, Len(got[c]))
                      /\ c \in clients /\ writer[c] = "on" => got[c] \o buf[c] = Since(c)
    BY DEF StreamsHaveNoGaps
  <2>1. /\ got[c] \in Seq(Events) /\ buf[c] \in Seq(Events) /\ hubLog \in Seq(Events) /\ joined[c] \in Nat
        /\ StreamIsSound(c)
    BY DEF HubInv, HubTypeOK
  <2>2. got[c] = SubSeq(Since(c), 1, Len(got[c]))
    BY <2>1, FollowsIsSubSeq DEF StreamIsSound, Since
  <2>3. ASSUME c \in clients, writer[c] = "on" PROVE got[c] \o buf[c] = Since(c)
    <3> DEFINE q == got[c] \o buf[c]
    <3>1. /\ Follows(q, hubLog, joined[c]) /\ q \in Seq(Events)
          /\ Len(q) = Len(got[c]) + Len(buf[c])
      BY <2>1, <2>3, FollowsOn DEF StreamIsSound
    <3> HIDE DEF q
    <3>2. joined[c] + Len(q) = Len(hubLog) /\ Len(q) \in Nat /\ Len(hubLog) \in Nat
      <4>1. Len(got[c]) \in Nat /\ Len(buf[c]) \in Nat /\ Len(hubLog) \in Nat
        BY <2>1, LenProperties
      <4>2. joined[c] + Len(got[c]) + Len(buf[c]) = Len(hubLog)
        BY <2>1, <2>3 DEF StreamIsSound
      <4>3. ASSUME NEW j \in Nat, NEW m \in Nat, NEW n \in Nat, NEW k \in Nat, j + m + n = k
            PROVE  j + (m + n) = k /\ m + n \in Nat
        BY <4>3
      <4>4. joined[c] + (Len(got[c]) + Len(buf[c])) = Len(hubLog) /\ Len(got[c]) + Len(buf[c]) \in Nat
        BY <2>1, <4>1, <4>2, <4>3
      <4> QED
        BY <3>1, <4>1, <4>4
    <3>3. q = SubSeq(Since(c), 1, Len(q))
      BY <2>1, <3>1, FollowsIsSubSeq DEF Since
    <3>4. Since(c) \in Seq(Events) /\ Len(Since(c)) = Len(q)
      <4>1. \A n \in (joined[c] + 1)..Len(hubLog) : hubLog[n] \in Events
        BY <2>1, <3>2, ElementOfSeq
      <4>2. /\ Since(c) \in Seq(Events)
            /\ Len(Since(c)) = IF joined[c] + 1 <= Len(hubLog) THEN Len(hubLog) - (joined[c] + 1) + 1 ELSE 0
        BY <2>1, <3>2, <4>1, SubSeqProperties DEF Since
      <4> QED
        BY <2>1, <3>2, <4>2
    <3>5. SubSeq(Since(c), 1, Len(q)) = Since(c)
      BY <3>4, SubSeqFull
    <3> QED
      BY <3>3, <3>5 DEF q
  <2> QED
    BY <2>2, <2>3
<1> QED
  BY <1>1, HubHolds, PTL
----------------------------------------------------------------------------
(* The programs                                                            *)

Writes == {"setRead", "setUnread", "allRead", "allUnread", "delete", "empty"}
Looks == {"lookup", "select", "selectUnread", "selectRead"}

\* No operation looks for its messages after it has written, or writes after it has
\* asked for the statistics.
InGoodOrder(p) ==
    /\ Len(p) \in 1..5
    /\ \A n \in 1..Len(p) : \A m \in 1..(n - 1) :
          /\ p[m] \in Writes => p[n] \notin Looks
          /\ p[n] \in Writes => p[m] # "notifyStats"

LEMMA Concatenations ==
    ASSUME NEW a, NEW b, NEW c, NEW d, NEW e
    PROVE  <<a>> \o <<b, c, d, e>> = <<a, b, c, d, e>>
<1> DEFINE S == {a, b, c, d, e}  s == <<a>>  t == <<b, c, d, e>>  u == <<a, b, c, d, e>>
<1>1. s \in Seq(S) /\ t \in Seq(S) /\ u \in Seq(S) /\ Len(s) = 1 /\ Len(t) = 4 /\ Len(u) = 5
  OBVIOUS
<1>2. /\ s \o t \in Seq(S) /\ Len(s \o t) = 5
      /\ \A i \in 1..5 : (s \o t)[i] = IF i <= 1 THEN s[i] ELSE t[i - 1]
  BY <1>1, ConcatProperties
<1>3. ASSUME NEW i \in 1..5 PROVE (s \o t)[i] = u[i]
  BY <1>2
<1>4. s \o t = u
  <2> HIDE DEF S, s, t, u
  <2> QED
    BY <1>1, <1>2, <1>3, SeqEqual
<1> QED
  BY <1>4

LEMMA ShortPrograms ==
    /\ InGoodOrder(MarkRead) /\ InGoodOrder(MarkUnread)
    /\ InGoodOrder(MarkAllRead) /\ InGoodOrder(MarkAllUnread)
    /\ InGoodOrder(GetAttachmentPart)
BY DEF InGoodOrder, Writes, Looks, MarkRead, MarkUnread, MarkAllRead, MarkAllUnread, GetAttachmentPart

LEMMA LongPrograms ==
    /\ InGoodOrder(GetMessage)
    /\ InGoodOrder(<<"select">> \o MarkRead) /\ InGoodOrder(<<"select">> \o MarkUnread)
<1>1. /\ GetMessage = <<"lookup", "selectUnread", "setRead", "announceUpdate", "notifyStats">>
      /\ <<"select">> \o MarkRead = <<"select", "selectUnread", "setRead", "announceUpdate", "notifyStats">>
      /\ <<"select">> \o MarkUnread = <<"select", "selectRead", "setUnread", "announceUpdate", "notifyStats">>
  BY Concatenations DEF GetMessage, MarkRead, MarkUnread
<1>2. InGoodOrder(<<"lookup", "selectUnread", "setRead", "announceUpdate", "notifyStats">>)
  BY DEF InGoodOrder, Writes, Looks
<1>3. InGoodOrder(<<"select", "selectUnread", "setRead", "announceUpdate", "notifyStats">>)
  BY DEF InGoodOrder, Writes, Looks
<1>4. InGoodOrder(<<"select", "selectRead", "setUnread", "announceUpdate", "notifyStats">>)
  BY DEF InGoodOrder, Writes, Looks
<1> QED
  BY <1>1, <1>2, <1>3, <1>4

LEMMA DeletingPrograms ==
    /\ InGoodOrder(DeleteMessages) /\ InGoodOrder(DeleteAllMessages)
    /\ InGoodOrder(DeleteSearch) /\ InGoodOrder(PruneMessages)
BY DEF InGoodOrder, Writes, Looks, DeleteMessages, DeleteAllMessages, DeleteSearch, PruneMessages

LEMMA ProgramsAreOrdered ==
    ASSUME NEW k \in AllKinds
    PROVE  InGoodOrder(Programs[k])
<1>1. k \in {"getMessage", "getAttachmentPart", "markRead", "markUnread", "markAllRead", "markAllUnread",
             "setSearchRead", "setSearchUnread", "deleteMessages", "deleteAllMessages", "deleteSearch", "prune"}
  BY DEF AllKinds, Programs
<1>2. /\ Programs["markRead"] = MarkRead /\ Programs["markUnread"] = MarkUnread
      /\ Programs["markAllRead"] = MarkAllRead /\ Programs["markAllUnread"] = MarkAllUnread
      /\ Programs["getAttachmentPart"] = GetAttachmentPart
  BY DEF Programs
<1>3. /\ Programs["getMessage"] = GetMessage
      /\ Programs["setSearchRead"] = <<"select">> \o MarkRead
      /\ Programs["setSearchUnread"] = <<"select">> \o MarkUnread
  BY DEF Programs
<1>4. /\ Programs["deleteMessages"] = DeleteMessages /\ Programs["deleteAllMessages"] = DeleteAllMessages
      /\ Programs["deleteSearch"] = DeleteSearch /\ Programs["prune"] = PruneMessages
  BY DEF Programs
<1> QED
  BY <1>1, <1>2, <1>3, <1>4, ShortPrograms, LongPrograms, DeletingPrograms
----------------------------------------------------------------------------
(* The statistics                                                          *)

RequestTypeOK ==
    /\ kind \in [Requests -> Kinds \union {"none"}]
    /\ pc \in [Requests -> 1..6]
    /\ stats \in [Requests -> {"off", "sleep", "awake", "total", "done"}]
    /\ counts \in [Requests -> [total : Nat, unread : Nat]]
    /\ uncounted \in SUBSET Requests
    /\ late \in SUBSET Requests

\* A request with a change to be counted has written, so it looks for nothing more.
ChangeIsWritten(r) ==
    r \in uncounted => kind[r] # "none" /\ \E n \in 1..(pc[r] - 1) : Programs[kind[r]][n] \in Writes

\* The inductive invariant of the requests and BroadcastMailboxStats.
CountInv ==
    /\ RequestTypeOK
    /\ \A r \in Requests : ChangeIsWritten(r)
    /\ EveryChangeIsCounted

LEMMA CountInitInv == Init => CountInv
BY DEF Init, CountInv, RequestTypeOK, ChangeIsWritten, EveryChangeIsCounted

\* A step of a program that goes on, and one that leaves it.
LEMMA ProgramSteps ==
    ASSUME RequestTypeOK, NEW r \in Requests, NEW s, At(r, s)
    PROVE  /\ kind[r] \in AllKinds /\ InGoodOrder(Programs[kind[r]])
           /\ pc[r] \in 1..Len(Programs[kind[r]]) /\ Programs[kind[r]][pc[r]] = s
           /\ GoOn(r) \/ Leave(r) => kind' = kind /\ pc' \in [Requests -> 1..6]
           /\ GoOn(r) => pc'[r] = pc[r] + 1 /\ \A q \in Requests \ {r} : pc'[q] = pc[q]
           /\ Leave(r) => \A q \in Requests \ {r} : pc'[q] = pc[q]
<1>1. kind[r] \in AllKinds /\ pc[r] \in 1..6 /\ pc[r] <= Len(Programs[kind[r]]) /\ Programs[kind[r]][pc[r]] = s
  BY KindsAssumption DEF At, RequestTypeOK
<1>2. InGoodOrder(Programs[kind[r]])
  BY <1>1, ProgramsAreOrdered
<1>3. Len(Programs[kind[r]]) \in 1..5
  BY <1>2 DEF InGoodOrder
<1>4. pc[r] \in 1..Len(Programs[kind[r]])
  BY <1>1, <1>3
<1>5. GoOn(r) \/ Leave(r) => kind' = kind /\ pc' \in [Requests -> 1..6]
  <2>1. ASSUME NEW l \in 1..5, NEW n \in 1..l PROVE n + 1 \in 1..6 /\ l + 1 \in 1..6
    OBVIOUS
  <2>2. pc[r] + 1 \in 1..6 /\ Len(Programs[kind[r]]) + 1 \in 1..6
    BY <1>3, <1>4, <2>1
  <2>3. pc \in [Requests -> 1..6]
    BY DEF RequestTypeOK
  <2> QED
    BY <2>2, <2>3 DEF GoOn, Leave
<1>6. GoOn(r) => pc'[r] = pc[r] + 1 /\ \A q \in Requests \ {r} : pc'[q] = pc[q]
  BY DEF GoOn, RequestTypeOK
<1>7. Leave(r) => \A q \in Requests \ {r} : pc'[q] = pc[q]
  BY DEF Leave, RequestTypeOK
<1> QED
  BY <1>1, <1>2, <1>4, <1>5, <1>6, <1>7

\* Steps that look for messages: nothing of their request is uncounted.
LEMMA CountLooks ==
    ASSUME CountInv, NEW r \in Requests, NEW s \in Looks, At(r, s), GoOn(r) \/ Leave(r),
           UNCHANGED <<statsVars, late>>
    PROVE  CountInv'
<1> USE DEF CountInv
<1>1. /\ kind[r] \in AllKinds /\ InGoodOrder(Programs[kind[r]])
      /\ pc[r] \in 1..Len(Programs[kind[r]]) /\ Programs[kind[r]][pc[r]] = s
      /\ kind' = kind /\ pc' \in [Requests -> 1..6]
      /\ \A q \in Requests \ {r} : pc'[q] = pc[q]
  BY ProgramSteps
<1>2. r \notin uncounted
  <2> SUFFICES ASSUME r \in uncounted PROVE FALSE
    OBVIOUS
  <2>1. PICK n \in 1..(pc[r] - 1) : Programs[kind[r]][n] \in Writes
    BY DEF ChangeIsWritten
  <2> QED
    BY <1>1, <2>1 DEF InGoodOrder
<1>3. RequestTypeOK'
  BY <1>1 DEF RequestTypeOK, statsVars
<1>4. ASSUME NEW q \in Requests PROVE ChangeIsWritten(q)'
  BY <1>1, <1>2 DEF ChangeIsWritten, statsVars
<1>5. EveryChangeIsCounted'
  <2>1. UNCHANGED <<kind, stats, uncounted>>
    BY <1>1 DEF statsVars
  <2>2. \A q \in uncounted : pc'[q] = pc[q]
    BY <1>1, <1>2 DEF RequestTypeOK
  <2> QED
    BY <2>1, <2>2 DEF EveryChangeIsCounted
<1> QED
  BY <1>3, <1>4, <1>5

\* A step that goes on keeps what its request has written.
LEMMA WrittenGoesOn ==
    ASSUME CountInv, NEW r \in Requests, NEW s, At(r, s), GoOn(r), NEW q \in Requests, q \in uncounted
    PROVE  kind'[q] # "none" /\ \E n \in 1..(pc'[q] - 1) : Programs[kind'[q]][n] \in Writes
<1>1. /\ kind' = kind /\ pc[r] \in 1..6 /\ pc[q] \in 1..6
      /\ pc'[r] = pc[r] + 1 /\ \A o \in Requests \ {r} : pc'[o] = pc[o]
  BY ProgramSteps DEF CountInv, RequestTypeOK
<1>2. PICK n \in 1..(pc[q] - 1) : kind[q] # "none" /\ Programs[kind[q]][n] \in Writes
  BY DEF CountInv, ChangeIsWritten
<1>3. n \in 1..(pc'[q] - 1)
  BY <1>1
<1> QED
  BY <1>1, <1>2, <1>3

LEMMA CountWrite ==
    ASSUME CountInv, NEW r \in Requests, Write(r)
    PROVE  CountInv'
<1> USE DEF CountInv
<1>1. PICK s \in Writes : At(r, s)
  BY DEF Write, Writes
<1>2. /\ kind[r] \in AllKinds /\ InGoodOrder(Programs[kind[r]])
      /\ pc[r] \in 1..Len(Programs[kind[r]]) /\ Programs[kind[r]][pc[r]] = s
      /\ kind' = kind /\ pc' \in [Requests -> 1..6]
      /\ pc'[r] = pc[r] + 1 /\ \A q \in Requests \ {r} : pc'[q] = pc[q]
  BY <1>1, ProgramSteps DEF Write
<1>3. uncounted' = uncounted \union {r} /\ UNCHANGED <<stats, counts, late>> /\ GoOn(r)
  BY DEF Write
<1>4. RequestTypeOK'
  BY <1>2, <1>3 DEF RequestTypeOK
<1>5. "none" \notin AllKinds
  BY DEF AllKinds, Programs
<1>6. ASSUME NEW q \in Requests PROVE ChangeIsWritten(q)'
  <2>1. CASE q = r
    <3>1. pc[r] \in 1..(pc'[r] - 1)
      BY <1>2
    <3> QED
      BY <1>1, <1>2, <1>5, <2>1, <3>1 DEF ChangeIsWritten
  <2>2. CASE q # r
    BY <1>1, <1>3, <2>2, WrittenGoesOn DEF ChangeIsWritten
  <2> QED
    BY <2>1, <2>2
<1>7. EveryChangeIsCounted'
  <2>1. ASSUME NEW n \in 1..(pc'[r] - 1) PROVE Programs[kind[r]][n] # "notifyStats"
    <3>1. n \in 1..pc[r] /\ pc[r] \in 1..Len(Programs[kind[r]])
      BY <1>2
    <3>2. CASE n = pc[r]
      BY <1>1, <1>2, <3>2 DEF Writes
    <3>3. CASE n \in 1..(pc[r] - 1)
      BY <1>1, <1>2, <3>3 DEF InGoodOrder
    <3> QED
      BY <3>1, <3>2, <3>3
  <2>2. ASSUME NEW q \in uncounted', \E n \in 1..(pc'[q] - 1) : Programs[kind'[q]][n] = "notifyStats"
        PROVE  \E g \in Requests : stats'[g] \in {"sleep", "awake"}
    <3>1. q # r
      BY <1>2, <2>1, <2>2
    <3>2. q \in uncounted /\ pc'[q] = pc[q] /\ kind' = kind /\ stats' = stats
      BY <1>2, <1>3, <3>1 DEF RequestTypeOK
    <3> QED
      BY <2>2, <3>2 DEF EveryChangeIsCounted
  <2> QED
    BY <1>3, <2>2 DEF EveryChangeIsCounted
<1> QED
  BY <1>4, <1>6, <1>7

\* The other steps of a request, but for the call of BroadcastMailboxStats.
LEMMA CountGoesOn ==
    ASSUME CountInv, NEW r \in Requests, NEW s, s # "notifyStats", At(r, s), GoOn(r),
           UNCHANGED statsVars, late' \in SUBSET Requests
    PROVE  CountInv'
<1> USE DEF CountInv
<1>1. /\ pc[r] \in 1..Len(Programs[kind[r]]) /\ Programs[kind[r]][pc[r]] = s
      /\ kind' = kind /\ pc' \in [Requests -> 1..6]
      /\ pc'[r] = pc[r] + 1 /\ \A q \in Requests \ {r} : pc'[q] = pc[q]
  BY ProgramSteps
<1>2. RequestTypeOK'
  BY <1>1 DEF RequestTypeOK, statsVars
<1>3. ASSUME NEW q \in Requests PROVE ChangeIsWritten(q)'
  BY WrittenGoesOn DEF ChangeIsWritten, statsVars
<1>4. EveryChangeIsCounted'
  <2>1. ASSUME NEW q \in uncounted, \E n \in 1..(pc'[q] - 1) : Programs[kind[q]][n] = "notifyStats"
        PROVE  \E n \in 1..(pc[q] - 1) : Programs[kind[q]][n] = "notifyStats"
    <3>1. q \in Requests
      BY DEF RequestTypeOK
    <3>2. PICK n \in 1..(pc'[q] - 1) : Programs[kind[q]][n] = "notifyStats"
      BY <2>1
    <3>3. n \in 1..(pc[q] - 1)
      BY <1>1, <3>1, <3>2
    <3> QED
      BY <3>2, <3>3
  <2>2. UNCHANGED <<kind, stats, uncounted>>
    BY <1>1 DEF statsVars
  <2> QED
    BY <2>1, <2>2 DEF EveryChangeIsCounted
<1> QED
  BY <1>2, <1>3, <1>4

LEMMA CountNotify ==
    ASSUME CountInv, NEW r \in Requests, NotifyStats(r)
    PROVE  CountInv'
<1> USE DEF CountInv
<1>1. /\ kind' = kind /\ pc' \in [Requests -> 1..6] /\ GoOn(r) /\ At(r, "notifyStats")
      /\ UNCHANGED <<counts, uncounted, late>>
  BY ProgramSteps DEF NotifyStats
<1>2. stats' \in [Requests -> {"off", "sleep", "awake", "total", "done"}]
  BY DEF NotifyStats, RequestTypeOK
<1>3. RequestTypeOK'
  BY <1>1, <1>2 DEF RequestTypeOK
<1>4. ASSUME NEW q \in Requests PROVE ChangeIsWritten(q)'
  BY <1>1, WrittenGoesOn DEF ChangeIsWritten
<1>5. \A g, h \in Requests : stats'[g] = "sleep" /\ stats'[h] = "sleep" => g = h
  BY DEF NotifyStats, Pending, RequestTypeOK, EveryChangeIsCounted
<1>6. \E g \in Requests : stats'[g] \in {"sleep", "awake"}
  BY DEF NotifyStats, Pending, RequestTypeOK
<1> QED
  BY <1>3, <1>4, <1>5, <1>6 DEF EveryChangeIsCounted

LEMMA RowsCount == ASSUME NEW S PROVE Count(S) \in Nat
BY IdsAssumption, FS_Subset, FS_CardinalityType DEF Count

\* The goroutine that sends the statistics.
LEMMA CountStats ==
    ASSUME CountInv, NEW g \in Requests, StatsStep(g)
    PROVE  CountInv'
<1> USE DEF CountInv
<1>1. UNCHANGED <<kind, pc, late>>
  BY DEF StatsStep, Awake, CountTotal, CountUnread, requestVars
<1>2. stats' \in [Requests -> {"off", "sleep", "awake", "total", "done"}] /\ uncounted' \in {uncounted, {}}
  BY DEF StatsStep, Awake, CountTotal, CountUnread, RequestTypeOK
<1>3. counts' \in [Requests -> [total : Nat, unread : Nat]]
  BY RowsCount DEF StatsStep, Awake, CountTotal, CountUnread, RequestTypeOK
<1>4. RequestTypeOK'
  BY <1>1, <1>2, <1>3 DEF RequestTypeOK
<1>5. ASSUME NEW q \in Requests PROVE ChangeIsWritten(q)'
  BY <1>1, <1>2 DEF ChangeIsWritten
<1>6. \A h \in Requests : stats'[h] = "sleep" => stats[h] = "sleep"
  BY DEF StatsStep, Awake, CountTotal, CountUnread, RequestTypeOK
<1>7. CASE CountTotal(g)
  BY <1>4, <1>5, <1>6, <1>7 DEF EveryChangeIsCounted, CountTotal
<1>8. CASE Awake(g) \/ CountUnread(g)
  <2>1. \A h \in Requests : stats[h] \in {"sleep", "awake"} => stats'[h] \in {"sleep", "awake"}
    BY <1>8 DEF Awake, CountUnread, RequestTypeOK
  <2>2. uncounted' = uncounted
    BY <1>8 DEF Awake, CountUnread
  <2> QED
    BY <1>1, <1>4, <1>5, <1>6, <2>1, <2>2 DEF EveryChangeIsCounted
<1> QED
  BY <1>4, <1>5, <1>7, <1>8 DEF StatsStep

LEMMA CountStart ==
    ASSUME CountInv, NEW r \in Requests, Start(r)
    PROVE  CountInv'
<1> USE DEF CountInv
<1>1. RequestTypeOK'
  BY DEF Start, RequestTypeOK, statsVars
<1>2. r \notin uncounted
  BY DEF Start, ChangeIsWritten
<1>3. /\ UNCHANGED <<pc, stats, uncounted>>
      /\ \A q \in uncounted : kind'[q] = kind[q]
  BY <1>2 DEF Start, RequestTypeOK, statsVars
<1>4. ASSUME NEW q \in Requests PROVE ChangeIsWritten(q)'
  BY <1>3 DEF ChangeIsWritten
<1>5. EveryChangeIsCounted'
  BY <1>3 DEF EveryChangeIsCounted
<1> QED
  BY <1>1, <1>4, <1>5

LEMMA CountStepInv == CountInv /\ [Next]_vars => CountInv'
<1> SUFFICES ASSUME CountInv, [Next]_vars PROVE CountInv'
  OBVIOUS
<1>1. ASSUME NEW r \in Requests, Start(r) \/ StatsStep(r) \/ Write(r) \/ NotifyStats(r) PROVE CountInv'
  BY <1>1, CountStart, CountStats, CountWrite, CountNotify
<1>2. ASSUME NEW r \in Requests, LeaveCache(r) \/ Select(r) PROVE CountInv'
  <2>1. CASE LeaveCache(r)
    BY <2>1, CountLooks DEF LeaveCache, Looks
  <2>2. CASE Select(r)
    <3>1. PICK s \in Looks : At(r, s)
      BY <2>2 DEF Select, Selection, Looks
    <3> QED
      BY <2>2, <3>1, CountLooks DEF Select
  <2> QED
    BY <1>2, <2>1, <2>2
<1>3. ASSUME NEW r \in Requests, ClearCache(r) \/ Announce(r) PROVE CountInv'
  <2>1. PICK s : At(r, s) /\ s # "notifyStats"
    BY <1>3 DEF ClearCache, Announce
  <2>2. GoOn(r) /\ UNCHANGED statsVars
    BY <1>3 DEF ClearCache, Announce
  <2>3. late' \in SUBSET Requests
    BY <1>3 DEF ClearCache, Announce, CountInv, RequestTypeOK
  <2> QED
    BY <2>1, <2>2, <2>3, CountGoesOn
<1>4. CASE UNCHANGED <<requestVars, statsVars, late>>
  BY <1>4 DEF CountInv, RequestTypeOK, ChangeIsWritten, EveryChangeIsCounted, requestVars, statsVars
<1>5. ASSUME NEW r \in Requests, CallCache(r) PROVE UNCHANGED <<requestVars, statsVars, late>>
  BY <1>5 DEF CallCache
<1>6. CASE UNCHANGED vars \/ Rest
  BY <1>4, <1>6 DEF vars, Rest
<1> QED
  BY <1>1, <1>2, <1>3, <1>4, <1>5, <1>6 DEF Next, RequestStep

LEMMA CountHolds == Spec => []CountInv
<1>1. Init => CountInv
  BY CountInitInv
<1>2. CountInv /\ [Next]_vars => CountInv'
  BY CountStepInv
<1> QED
  BY <1>1, <1>2, PTL DEF Spec

\* Dropping a call of BroadcastMailboxStats while another is pending loses no change.
THEOREM ChangesAreCounted == Spec => []EveryChangeIsCounted
<1>1. CountInv => EveryChangeIsCounted
  BY DEF CountInv
<1> QED
  BY <1>1, CountHolds, PTL

\* The locals of requests, the cache and the hub have their types.
THEOREM TypeIsOK == Spec => []TypeOK
<1>1. CacheInv /\ SelInv /\ HubInv /\ CountInv => TypeOK
  BY DEF CacheInv, SelInv, HubInv, CountInv, RequestTypeOK, TypeOK
<1> QED
  BY <1>1, CacheHolds, HubHolds, CountHolds, PTL
----------------------------------------------------------------------------
(* Deletions and the cache                                                 *)

\* The rows of a deletion's messages are gone, and the cache has been cleared of them.
Deleted(d) ==
    \/ kind[d] \in {"deleteMessages", "prune"} /\ pc[d] > 2
    \/ kind[d] = "deleteAllMessages" /\ pc[d] > 1
Cleared(d) ==
    \/ kind[d] = "deleteMessages" /\ pc[d] > 4
    \/ kind[d] \in {"prune", "deleteAllMessages"} /\ pc[d] > 3

\* What may still come into the cache was read before the cache was cleared.
IsOut(i) ==
    /\ rows[i] = "gone"
    /\ entries[i] # None => entries[i] \in late
    /\ \A q \in Requests : target[q] = i =>
          /\ at[q] = "parse" => q \in late
          /\ at[q] \in {"close", "finish"} /\ inf[q] = "envelope" => q \in late

DeletionIsSound(d) ==
    /\ kind[d] = "none" => pc[d] = 1
    /\ Deleted(d) => \A i \in sel[d] : rows[i] = "gone"
    /\ Cleared(d) => \A i \in sel[d] : IsOut(i)

DeletionInv == \A d \in Requests : DeletionIsSound(d)

\* Of the kinds that clear the cache, a deletion that has ended has done so.
LEMMA EndedIsCleared ==
    ASSUME RequestTypeOK, NEW d \in Requests, Ended(d), kind[d] \in {"deleteMessages", "deleteAllMessages", "prune"}
    PROVE  Cleared(d)
<1>1. /\ Len(Programs["deleteMessages"]) = 5 /\ Len(Programs["prune"]) = 4
      /\ Len(Programs["deleteAllMessages"]) = 4
  BY DEF Programs, DeleteMessages, PruneMessages, DeleteAllMessages
<1>2. pc[d] \in 1..6
  BY DEF RequestTypeOK
<1>3. pc[d] > Len(Programs[kind[d]])
  BY DEF Ended
<1>4. CASE kind[d] = "deleteMessages"
  <2>1. Len(Programs[kind[d]]) = 5
    BY <1>1, <1>4
  <2>2. pc[d] > 4
    BY <1>2, <1>3, <2>1
  <2> QED
    BY <1>4, <2>2 DEF Cleared
<1>5. CASE kind[d] \in {"prune", "deleteAllMessages"}
  <2>1. Len(Programs[kind[d]]) = 4
    BY <1>1, <1>5
  <2>2. pc[d] > 3
    BY <1>2, <1>3, <2>1
  <2> QED
    BY <1>5, <2>2 DEF Cleared
<1> QED
  BY <1>4, <1>5

\* Rows do not come back.
LEMMA RowsStayGone ==
    ASSUME CacheInv, [Next]_vars, NEW i \in Ids, rows[i] = "gone"
    PROVE  rows'[i] = "gone"
<1>1. CASE UNCHANGED rows
  BY <1>1
<1>2. ASSUME NEW r \in Requests, Write(r) PROVE rows'[i] = "gone"
  BY <1>2 DEF Write, SetTo
<1>3. ASSUME NEW r \in Requests,
             Start(r) \/ CallCache(r) \/ LeaveCache(r) \/ Select(r) \/ ClearCache(r) \/ Announce(r)
                \/ NotifyStats(r) \/ StatsStep(r)
      PROVE  UNCHANGED rows
  BY <1>3 DEF Start, CallCache, Call, LeaveCache, Select, ClearCache, Invalidate, Announce, NotifyStats,
       StatsStep, Awake, CountTotal, CountUnread
<1>4. ASSUME NEW r \in Requests, CacheStep(r) PROVE UNCHANGED rows
  BY <1>4 DEF CacheStep, Lookup, LookupHit, LookupWait, LookupParse, Fetch, Parse, Close, Finish, Wake
<1>5. CASE UNCHANGED vars \/ Rest \/ CacheTick
  BY <1>1, <1>5 DEF vars, Rest, CacheTick, Expire, Timer
<1> QED
  BY <1>1, <1>2, <1>3, <1>4, <1>5 DEF Next, RequestStep

\* What is out of the cache stays out.
LEMMA OutStaysOut ==
    ASSUME CacheInv, CountInv, [Next]_vars, NEW i \in Ids, IsOut(i)
    PROVE  IsOut(i)'
<1>0. rows'[i] = "gone"
  BY RowsStayGone DEF IsOut
<1> USE DEF IsOut, CacheInv, CacheTypeOK
<1>1. CASE UNCHANGED <<entries, target, at, inf>> /\ late \subseteq late'
  BY <1>0, <1>1
<1>2. ASSUME NEW r \in Requests, CacheStep(r), UNCHANGED late PROVE IsOut(i)'
  <2>1. CASE Lookup(r)
    BY <1>0, <1>2, <2>1 DEF Lookup, LookupHit, LookupWait, LookupParse, Move, Return, Forgotten
  <2>2. CASE Fetch(r)
    BY <1>0, <1>2, <2>2 DEF Fetch, Move
  <2>3. CASE Parse(r) \/ Close(r) \/ Wake(r)
    BY <1>0, <1>2, <2>3 DEF Parse, Close, Wake, Move, Return
  <2>4. CASE Finish(r)
    BY <1>0, <1>2, <2>4 DEF Finish, Move, Return
  <2> QED
    BY <1>2, <2>1, <2>2, <2>3, <2>4 DEF CacheStep
<1>3. ASSUME NEW r \in Requests, ClearCache(r) PROVE IsOut(i)'
  <2>1. late \subseteq late'
    BY <1>3 DEF ClearCache
  <2>2. entries'[i] \in {None, entries[i]} /\ UNCHANGED <<target, at, inf>>
    BY <1>3 DEF ClearCache, Invalidate
  <2> QED
    BY <1>0, <2>1, <2>2
<1>4. ASSUME NEW r \in Requests, CallCache(r) PROVE IsOut(i)'
  <2>1. /\ UNCHANGED <<entries, target, inf, late>>
        /\ \A q \in Requests : at'[q] = at[q] \/ at'[q] = "look"
    BY <1>4 DEF CallCache, Call, Move
  <2> QED
    BY <1>0, <2>1
<1>5. CASE CacheTick /\ UNCHANGED late
  BY <1>0, <1>5 DEF CacheTick, Expire, Timer, Forgotten
<1>6. ASSUME NEW r \in Requests,
             Start(r) \/ LeaveCache(r) \/ Select(r) \/ Write(r) \/ Announce(r) \/ NotifyStats(r) \/ StatsStep(r)
      PROVE  UNCHANGED <<entries, target, at, inf, late>>
  BY <1>6 DEF Start, LeaveCache, Select, Write, Announce, NotifyStats, StatsStep, Awake, CountTotal,
       CountUnread, cacheVars
<1>7. CASE UNCHANGED vars \/ Rest \/ UNCHANGED <<rows, cacheVars, requestVars, statsVars, late>>
  BY <1>1, <1>7 DEF vars, Rest, cacheVars
<1> QED
  BY <1>1, <1>2, <1>3, <1>4, <1>5, <1>6, <1>7 DEF Next, RequestStep

\* A deletion goes on by one step: what that makes of Deleted and Cleared.
LEMMA DeletionGoesOn ==
    ASSUME RequestTypeOK, NEW d \in Requests, NEW s, At(d, s), kind'[d] = kind[d], pc'[d] = pc[d] + 1
    PROVE  /\ Deleted(d)' => Deleted(d) \/ s \in {"delete", "empty"}
           /\ Cleared(d)' => Cleared(d) \/ s \in {"invalidate", "invalidateAll"}
           /\ Cleared(d)' => Deleted(d)
<1>1. pc[d] \in 1..6 /\ pc[d] <= Len(Programs[kind[d]]) /\ Programs[kind[d]][pc[d]] = s
  BY DEF At, RequestTypeOK
<1>2. CASE kind[d] = "deleteMessages"
  <2>1. Programs["deleteMessages"] = DeleteMessages
    BY DEF Programs
  <2>2. pc[d] = 2 => s = "delete"
    BY <1>1, <1>2, <2>1 DEF DeleteMessages
  <2>3. pc[d] = 4 => s = "invalidate"
    BY <1>1, <1>2, <2>1 DEF DeleteMessages
  <2> QED
    BY <1>1, <1>2, <2>2, <2>3 DEF Deleted, Cleared
<1>3. CASE kind[d] = "prune"
  <2>1. Programs["prune"] = PruneMessages
    BY DEF Programs
  <2>2. pc[d] = 2 => s = "delete"
    BY <1>1, <1>3, <2>1 DEF PruneMessages
  <2>3. pc[d] = 3 => s = "invalidate"
    BY <1>1, <1>3, <2>1 DEF PruneMessages
  <2> QED
    BY <1>1, <1>3, <2>2, <2>3 DEF Deleted, Cleared
<1>4. CASE kind[d] = "deleteAllMessages"
  <2>1. Programs["deleteAllMessages"] = DeleteAllMessages
    BY DEF Programs
  <2>2. pc[d] = 1 => s = "empty"
    BY <1>1, <1>4, <2>1 DEF DeleteAllMessages
  <2>3. pc[d] = 3 => s = "invalidateAll"
    BY <1>1, <1>4, <2>1 DEF DeleteAllMessages
  <2> QED
    BY <1>1, <1>4, <2>2, <2>3 DEF Deleted, Cleared
<1> QED
  BY <1>2, <1>3, <1>4 DEF Deleted, Cleared

\* The cache is cleared: what was read before is late.
LEMMA ClearingPutsOut ==
    ASSUME CacheInv, CountInv, NEW d \in Requests, ClearCache(d), NEW i \in Ids, rows[i] = "gone",
           At(d, "invalidateAll") \/ i \in sel[d]
    PROVE  IsOut(i)'
<1>1. UNCHANGED <<rows, target, at, inf>> /\ entries'[i] = None
  BY DEF ClearCache, Invalidate, At
<1>2. \A q \in Requests : at[q] \in {"parse", "close", "finish"} => q \in late'
  BY DEF ClearCache
<1> QED
  BY <1>1, <1>2 DEF IsOut

\* The steps of a deletion that look for its messages.
LEMMA DeletionsSelectFirst ==
    ASSUME RequestTypeOK, NEW d \in Requests, NEW s \in {"select", "selectUnread", "selectRead"}, At(d, s)
    PROVE  /\ kind[d] \in {"deleteMessages", "prune"} => pc[d] = 1
           /\ kind[d] # "deleteAllMessages"
<1>1. pc[d] \in 1..6 /\ pc[d] <= Len(Programs[kind[d]]) /\ Programs[kind[d]][pc[d]] = s
  BY DEF At, RequestTypeOK
<1>2. /\ Programs["deleteMessages"] = DeleteMessages /\ Programs["prune"] = PruneMessages
      /\ Programs["deleteAllMessages"] = DeleteAllMessages
  BY DEF Programs
<1>3. kind[d] = "deleteMessages" => pc[d] = 1
  BY <1>1, <1>2 DEF DeleteMessages
<1>4. kind[d] = "prune" => pc[d] = 1
  BY <1>1, <1>2 DEF PruneMessages
<1>5. kind[d] # "deleteAllMessages"
  BY <1>1, <1>2 DEF DeleteAllMessages
<1> QED
  BY <1>3, <1>4, <1>5

LEMMA DeletionsLookNothingUp ==
    ASSUME RequestTypeOK, NEW d \in Requests, At(d, "lookup")
    PROVE  kind[d] \notin {"deleteMessages", "prune", "deleteAllMessages"}
<1>1. pc[d] \in 1..6 /\ pc[d] <= Len(Programs[kind[d]]) /\ Programs[kind[d]][pc[d]] = "lookup"
  BY DEF At, RequestTypeOK
<1>2. /\ Programs["deleteMessages"] = DeleteMessages /\ Programs["prune"] = PruneMessages
      /\ Programs["deleteAllMessages"] = DeleteAllMessages
  BY DEF Programs
<1>3. kind[d] # "deleteMessages"
  BY <1>1, <1>2 DEF DeleteMessages
<1>4. kind[d] # "prune"
  BY <1>1, <1>2 DEF PruneMessages
<1>5. kind[d] # "deleteAllMessages"
  BY <1>1, <1>2 DEF DeleteAllMessages
<1> QED
  BY <1>3, <1>4, <1>5

LEMMA DeletionStep ==
    ASSUME CacheInv, SelInv, CountInv, DeletionInv, [Next]_vars
    PROVE  DeletionInv'
<1> SUFFICES ASSUME NEW d \in Requests PROVE DeletionIsSound(d)'
  BY DEF DeletionInv
<1>1. DeletionIsSound(d) /\ RequestTypeOK /\ sel[d] \in SUBSET Ids
  BY DEF DeletionInv, CountInv, SelInv
<1>2. \A i \in Ids : (rows[i] = "gone" => rows'[i] = "gone") /\ (IsOut(i) => IsOut(i)')
  BY RowsStayGone, OutStaysOut
\* Steps of others, and of d that is not at a step of its program.
<1>3. ASSUME kind'[d] = kind[d], pc'[d] = pc[d], sel'[d] = sel[d] PROVE DeletionIsSound(d)'
  BY <1>1, <1>2, <1>3 DEF DeletionIsSound, Deleted, Cleared
<1>4. ASSUME NEW s, At(d, s), GoOn(d), sel'[d] = sel[d], s \notin {"delete", "empty", "invalidate", "invalidateAll"}
      PROVE  DeletionIsSound(d)'
  <2>1. kind'[d] = kind[d] /\ pc'[d] = pc[d] + 1 /\ kind[d] # "none"
    BY <1>1, <1>4, ProgramSteps DEF At
  <2>2. /\ Deleted(d)' => Deleted(d)
        /\ Cleared(d)' => Cleared(d)
    BY <1>1, <1>4, <2>1, DeletionGoesOn
  <2> QED
    BY <1>1, <1>2, <1>4, <2>1, <2>2 DEF DeletionIsSound
<1>5. ASSUME Start(d) PROVE DeletionIsSound(d)'
  <2>1. pc'[d] = 1 /\ kind'[d] # "none"
    BY <1>1, <1>5 DEF Start, DeletionIsSound, RequestTypeOK, Asks, SetReadStatus, DeleteRequests,
         SearchDeletions, MessageRequests
  <2> QED
    BY <2>1 DEF DeletionIsSound, Deleted, Cleared
<1>6. ASSUME Select(d) PROVE DeletionIsSound(d)'
  <2>1. PICK S \in Selection(d) :
           /\ sel' = [sel EXCEPT ![d] = S]
           /\ IF S = {} THEN Leave(d) ELSE GoOn(d)
    BY <1>6 DEF Select
  <2>2. PICK s \in {"select", "selectUnread", "selectRead"} : At(d, s)
    BY <2>1 DEF Selection
  <2>3. sel'[d] = S /\ kind'[d] = kind[d] /\ kind[d] # "none"
    BY <2>1, <2>2 DEF SelInv, GoOn, Leave, At
  <2>4. CASE S = {}
    BY <2>3, <2>4 DEF DeletionIsSound
  <2>5. CASE S # {}
    <3>1. GoOn(d) /\ pc'[d] = pc[d] + 1
      BY <1>1, <2>1, <2>2, <2>5, ProgramSteps
    <3>2. /\ kind[d] \in {"deleteMessages", "prune"} => pc[d] = 1
          /\ kind[d] # "deleteAllMessages"
      BY <1>1, <2>2, DeletionsSelectFirst
    <3>3. pc[d] = 1 => pc'[d] = 2
      BY <3>1
    <3>4. CASE kind[d] \in {"deleteMessages", "prune"}
      BY <2>3, <3>2, <3>3, <3>4 DEF DeletionIsSound, Deleted, Cleared
    <3>5. CASE kind[d] \notin {"deleteMessages", "prune"}
      BY <2>3, <3>2, <3>5 DEF DeletionIsSound, Deleted, Cleared
    <3> QED
      BY <3>4, <3>5
  <2> QED
    BY <2>4, <2>5
<1>7. ASSUME Write(d) PROVE DeletionIsSound(d)'
  <2>1. PICK s \in Writes : At(d, s)
    BY <1>7 DEF Write, Writes
  <2>2. GoOn(d) /\ sel' = sel
    BY <1>7 DEF Write
  <2>3. CASE s \notin {"delete", "empty"}
    BY <1>4, <2>1, <2>2, <2>3 DEF Writes
  <2>4. CASE s \in {"delete", "empty"}
    <3>1. kind'[d] = kind[d] /\ pc'[d] = pc[d] + 1 /\ kind[d] # "none"
      BY <1>1, <2>1, <2>2, ProgramSteps DEF At
    <3>2. Cleared(d)' => Cleared(d)
      BY <1>1, <2>1, <2>4, <3>1, DeletionGoesOn
    <3>3. \A i \in sel[d] : rows'[i] = "gone"
      <4> TAKE i \in sel[d]
      <4>1. i \in Ids
        BY <1>1
      <4>2. \A t : At(d, t) => t = s
        BY <2>1 DEF At
      <4>3. rows' = SetTo(sel[d], "gone") \/ rows' = SetTo(Ids, "gone")
        BY <1>7, <2>4, <4>2 DEF Write
      <4> QED
        BY <4>1, <4>3 DEF SetTo
    <3> QED
      BY <1>1, <1>2, <2>2, <3>1, <3>2, <3>3 DEF DeletionIsSound
  <2> QED
    BY <2>3, <2>4
<1>8. ASSUME ClearCache(d) PROVE DeletionIsSound(d)'
  <2>1. PICK s \in {"invalidate", "invalidateAll"} : At(d, s)
    BY <1>8 DEF ClearCache
  <2>2. GoOn(d) /\ sel' = sel /\ UNCHANGED rows
    BY <1>8 DEF ClearCache, Invalidate
  <2>3. kind'[d] = kind[d] /\ pc'[d] = pc[d] + 1 /\ kind[d] # "none"
    BY <1>1, <2>1, <2>2, ProgramSteps DEF At
  <2>4. /\ Deleted(d)' => Deleted(d)
        /\ Cleared(d)' => Deleted(d)
    BY <1>1, <2>1, <2>3, DeletionGoesOn
  <2>5. ASSUME Cleared(d)', NEW i \in sel[d] PROVE IsOut(i)'
    <3>1. rows[i] = "gone" /\ i \in Ids
      BY <1>1, <2>4, <2>5 DEF DeletionIsSound
    <3> QED
      BY <1>8, <3>1, ClearingPutsOut
  <2> QED
    BY <1>1, <1>2, <2>2, <2>3, <2>4, <2>5 DEF DeletionIsSound
<1>9. ASSUME Announce(d) \/ NotifyStats(d) PROVE DeletionIsSound(d)'
  <2>1. PICK s : At(d, s) /\ s \notin {"delete", "empty", "invalidate", "invalidateAll"}
    BY <1>9 DEF Announce, NotifyStats
  <2>2. GoOn(d) /\ sel' = sel
    BY <1>9 DEF Announce, NotifyStats
  <2> QED
    BY <1>4, <2>1, <2>2
<1>10. ASSUME LeaveCache(d) PROVE DeletionIsSound(d)'
  <2>1. At(d, "lookup") /\ sel' = sel /\ kind'[d] = kind[d]
    BY <1>10 DEF LeaveCache, GoOn, Leave
  <2>2. kind[d] \notin {"deleteMessages", "prune", "deleteAllMessages", "none"}
    BY <1>1, <2>1, DeletionsLookNothingUp DEF At
  <2> QED
    BY <2>1, <2>2 DEF DeletionIsSound, Deleted, Cleared
<1>11. ASSUME NEW r \in Requests, r # d,
              Start(r) \/ LeaveCache(r) \/ Select(r) \/ Write(r) \/ ClearCache(r) \/ Announce(r) \/ NotifyStats(r)
       PROVE  DeletionIsSound(d)'
  <2>1. kind'[d] = kind[d] /\ pc'[d] = pc[d] /\ sel'[d] = sel[d]
    BY <1>1, <1>11 DEF Start, LeaveCache, Select, Write, ClearCache, Announce, NotifyStats, GoOn, Leave,
         RequestTypeOK, SelInv
  <2> QED
    BY <1>3, <2>1
<1>12. CASE UNCHANGED requestVars
  BY <1>3, <1>12 DEF requestVars
<1>13. ASSUME NEW r \in Requests, CallCache(r) \/ StatsStep(r) PROVE UNCHANGED requestVars
  BY <1>13 DEF CallCache, StatsStep, Awake, CountTotal, CountUnread, requestVars
<1>14. CASE UNCHANGED vars \/ Rest
  BY <1>12, <1>14 DEF vars, Rest
<1> QED
  BY <1>5, <1>6, <1>7, <1>8, <1>9, <1>10, <1>11, <1>12, <1>13, <1>14 DEF Next, RequestStep

LEMMA DeletionHolds == Spec => []DeletionInv
<1>1. Init => DeletionInv
  BY DEF Init, DeletionInv, DeletionIsSound, Deleted, Cleared
<1>2. CacheInv /\ SelInv /\ CountInv /\ DeletionInv /\ [Next]_vars => DeletionInv'
  BY DeletionStep
<1> QED
  BY <1>1, <1>2, CacheHolds, CountHolds, PTL DEF Spec

\* The operations that are not deletions, and those among these that do not empty the table.
LEMMA ProgramsThatDelete ==
    ASSUME NEW k \in AllKinds, NEW n \in 1..Len(Programs[k])
    PROVE  /\ Programs[k][n] = "empty" => k = "deleteAllMessages"
           /\ Programs[k][n] \in {"delete", "empty"} =>
                 k \in {"deleteMessages", "deleteAllMessages", "prune", "deleteSearch"}
<1>2. k \in {"getMessage", "getAttachmentPart", "markRead", "markUnread", "markAllRead", "markAllUnread",
             "setSearchRead", "setSearchUnread", "deleteMessages", "deleteAllMessages", "deleteSearch", "prune"}
  BY DEF AllKinds, Programs
<1>3. /\ Programs["markRead"] = <<"selectUnread", "setRead", "announceUpdate", "notifyStats">>
      /\ Programs["markUnread"] = <<"selectRead", "setUnread", "announceUpdate", "notifyStats">>
      /\ Programs["markAllRead"] = <<"allRead", "notifyStats">>
      /\ Programs["markAllUnread"] = <<"allUnread", "notifyStats">>
      /\ Programs["getAttachmentPart"] = <<"lookup">>
  BY DEF Programs, MarkRead, MarkUnread, MarkAllRead, MarkAllUnread, GetAttachmentPart
<1>4. /\ Programs["getMessage"] = <<"lookup", "selectUnread", "setRead", "announceUpdate", "notifyStats">>
      /\ Programs["setSearchRead"] = <<"select", "selectUnread", "setRead", "announceUpdate", "notifyStats">>
      /\ Programs["setSearchUnread"] = <<"select", "selectRead", "setUnread", "announceUpdate", "notifyStats">>
  <2>1. /\ Programs["getMessage"] = <<"lookup">> \o MarkRead
        /\ Programs["setSearchRead"] = <<"select">> \o MarkRead
        /\ Programs["setSearchUnread"] = <<"select">> \o MarkUnread
    BY DEF Programs, GetMessage
  <2> QED
    BY <2>1, Concatenations DEF MarkRead, MarkUnread
<1>5. /\ Programs["deleteMessages"] = <<"select", "delete", "notifyStats", "invalidate", "announceDelete">>
      /\ Programs["deleteSearch"] = <<"select", "delete", "announceDelete", "notifyStats">>
      /\ Programs["prune"] = <<"select", "delete", "invalidate", "announcePrune">>
  BY DEF Programs, DeleteMessages, DeleteSearch, PruneMessages
<1>6. ASSUME k \in {"markRead", "markUnread", "markAllRead", "markAllUnread", "getAttachmentPart"}
      PROVE  Programs[k][n] \notin {"delete", "empty"}
  BY <1>3, <1>6
<1>7. ASSUME k \in {"getMessage", "setSearchRead", "setSearchUnread"}
      PROVE  Programs[k][n] \notin {"delete", "empty"}
  BY <1>4, <1>7
<1>8. ASSUME k \in {"deleteMessages", "deleteSearch", "prune"}
      PROVE  Programs[k][n] # "empty"
  BY <1>5, <1>8
<1> QED
  BY <1>2, <1>6, <1>7, <1>8

LEMMA OthersNeverEmpty ==
    ASSUME RequestTypeOK, NEW r \in Requests, At(r, "empty")
    PROVE  kind[r] = "deleteAllMessages"
<1>1. kind[r] \in AllKinds /\ pc[r] \in 1..Len(Programs[kind[r]]) /\ Programs[kind[r]][pc[r]] = "empty"
  BY ProgramSteps
<1> QED
  BY <1>1, ProgramsThatDelete

LEMMA OthersNeverDelete ==
    ASSUME RequestTypeOK, NEW d \in Requests, HasDeleted(d)
    PROVE  kind[d] \in {"deleteMessages", "deleteAllMessages", "prune", "deleteSearch"}
<1>1. kind[d] \in AllKinds /\ pc[d] \in 1..6
  BY KindsAssumption DEF HasDeleted, RequestTypeOK
<1> QED
  BY <1>1, ProgramsThatDelete DEF HasDeleted

\* Of every message that is gone a request has deleted the row, and it knows the message.
Deleters(i) == {d \in Requests : i \in sel[d] /\ HasDeleted(d)}

DeleterInv ==
    /\ \A r \in Requests : kind[r] = "deleteAllMessages" => sel[r] = Ids
    /\ \A i \in Ids : rows[i] = "gone" => Deleters(i) # {}

\* A request that has written keeps its messages.
LEMMA HasDeletedStays ==
    ASSUME CacheInv, SelInv, CountInv, DeletionInv, [Next]_vars, NEW d \in Requests
    PROVE  /\ HasDeleted(d) => HasDeleted(d)' /\ sel'[d] = sel[d]
           /\ kind[d] = "deleteAllMessages" => sel'[d] = sel[d]
           /\ kind[d] # "none" => kind'[d] = kind[d]
<1>1. RequestTypeOK /\ DeletionIsSound(d) /\ sel \in [Requests -> SUBSET Ids]
  BY DEF CountInv, DeletionInv, SelInv
<1>2. CASE UNCHANGED requestVars
  BY <1>2 DEF requestVars, HasDeleted
<1>3. ASSUME NEW r \in Requests, Start(r) PROVE d # r => kind'[d] = kind[d] /\ pc'[d] = pc[d] /\ sel'[d] = sel[d]
  BY <1>1, <1>3 DEF Start, RequestTypeOK
<1>4. ASSUME Start(d) PROVE kind[d] = "none"
  BY <1>4 DEF Start
<1>5. ASSUME NEW r \in Requests,
             LeaveCache(r) \/ Select(r) \/ Write(r) \/ ClearCache(r) \/ Announce(r) \/ NotifyStats(r)
      PROVE  d # r => kind'[d] = kind[d] /\ pc'[d] = pc[d] /\ sel'[d] = sel[d]
  BY <1>1, <1>5 DEF LeaveCache, Select, Write, ClearCache, Announce, NotifyStats, GoOn, Leave, RequestTypeOK
<1>6. ASSUME NEW s, At(d, s), GoOn(d) \/ Leave(d)
      PROVE  kind'[d] = kind[d] /\ pc'[d] >= pc[d] /\ (HasDeleted(d) => s \notin Looks)
  <2>1. /\ kind' = kind /\ pc' \in [Requests -> 1..6] /\ (GoOn(d) => pc'[d] = pc[d] + 1)
        /\ pc[d] \in 1..Len(Programs[kind[d]]) /\ InGoodOrder(Programs[kind[d]])
        /\ Programs[kind[d]][pc[d]] = s
    BY <1>1, <1>6, ProgramSteps
  <2>2. Leave(d) => pc'[d] = Len(Programs[kind[d]]) + 1
    BY <1>1 DEF Leave, RequestTypeOK
  <2>3. Len(Programs[kind[d]]) \in Nat
    BY <2>1 DEF InGoodOrder
  <2>4. pc'[d] >= pc[d]
    BY <1>6, <2>1, <2>2, <2>3
  <2>5. HasDeleted(d) => s \notin Looks
    BY <2>1 DEF HasDeleted, InGoodOrder, Writes
  <2> QED
    BY <2>1, <2>4, <2>5
<1>7. ASSUME NEW s, At(d, s), GoOn(d) \/ Leave(d), s \notin Looks => sel'[d] = sel[d]
      PROVE  HasDeleted(d) => HasDeleted(d)' /\ sel'[d] = sel[d]
  <2> SUFFICES ASSUME HasDeleted(d) PROVE HasDeleted(d)' /\ sel'[d] = sel[d]
    OBVIOUS
  <2>1. PICK n \in 1..Len(Programs[kind[d]]) : n < pc[d] /\ Programs[kind[d]][n] \in {"delete", "empty"}
    BY DEF HasDeleted
  <2>2. kind'[d] = kind[d] /\ pc'[d] >= pc[d] /\ sel'[d] = sel[d]
    BY <1>6, <1>7
  <2>3. pc[d] \in Nat /\ pc'[d] \in Nat
    <3>1. pc' \in [Requests -> 1..6]
      BY <1>1, <1>7, ProgramSteps
    <3>2. pc[d] \in 1..6 /\ pc'[d] \in 1..6
      BY <1>1, <3>1 DEF RequestTypeOK
    <3> QED
      BY <3>2
  <2>4. n < pc'[d]
    BY <2>1, <2>2, <2>3
  <2> QED
    BY <2>1, <2>2, <2>4 DEF HasDeleted
<1>8. ASSUME Select(d)
      PROVE  /\ HasDeleted(d) => HasDeleted(d)' /\ sel'[d] = sel[d]
             /\ kind[d] # "deleteAllMessages" /\ kind'[d] = kind[d]
  <2>1. PICK s \in {"select", "selectUnread", "selectRead"} : At(d, s)
    BY <1>8 DEF Select, Selection
  <2>2. s \in Looks /\ (GoOn(d) \/ Leave(d))
    BY <1>8, <2>1 DEF Select, Looks
  <2> QED
    BY <1>1, <1>6, <1>7, <2>1, <2>2, DeletionsSelectFirst
<1>9. ASSUME LeaveCache(d) \/ Write(d) \/ ClearCache(d) \/ Announce(d) \/ NotifyStats(d)
      PROVE  (HasDeleted(d) => HasDeleted(d)') /\ sel'[d] = sel[d] /\ kind'[d] = kind[d]
  <2>1. PICK s : At(d, s)
    BY <1>9 DEF LeaveCache, Write, ClearCache, Announce, NotifyStats
  <2>2. sel' = sel /\ (GoOn(d) \/ Leave(d))
    BY <1>9 DEF LeaveCache, Write, ClearCache, Announce, NotifyStats
  <2> QED
    BY <1>6, <1>7, <2>1, <2>2
<1>10. ASSUME NEW r \in Requests, CallCache(r) \/ StatsStep(r) PROVE UNCHANGED requestVars
  BY <1>10 DEF CallCache, StatsStep, Awake, CountTotal, CountUnread, requestVars
<1>11. ASSUME kind'[d] = kind[d] /\ pc'[d] = pc[d] /\ sel'[d] = sel[d]
       PROVE  HasDeleted(d) => HasDeleted(d)' /\ sel'[d] = sel[d]
  BY <1>11 DEF HasDeleted
<1>12. CASE UNCHANGED vars \/ Rest
  BY <1>2, <1>12 DEF vars, Rest
<1>13. kind[d] = "none" => ~HasDeleted(d) /\ kind[d] # "deleteAllMessages"
  BY DEF HasDeleted
<1>14. ASSUME NEW r \in Requests,
              Start(r) \/ LeaveCache(r) \/ Select(r) \/ Write(r) \/ ClearCache(r) \/ Announce(r) \/ NotifyStats(r)
       PROVE  /\ HasDeleted(d) => HasDeleted(d)' /\ sel'[d] = sel[d]
              /\ kind[d] = "deleteAllMessages" => sel'[d] = sel[d]
              /\ kind[d] # "none" => kind'[d] = kind[d]
  BY <1>3, <1>4, <1>5, <1>8, <1>9, <1>11, <1>13, <1>14
<1> QED
  BY <1>2, <1>10, <1>12, <1>14 DEF Next, RequestStep

LEMMA DeleterStep ==
    ASSUME CacheInv, SelInv, CountInv, DeletionInv, DeleterInv, [Next]_vars
    PROVE  DeleterInv'
<1>1. ASSUME NEW r \in Requests, kind'[r] = "deleteAllMessages" PROVE sel'[r] = Ids
  <2>1. CASE kind[r] # "none"
    BY <1>1, <2>1, HasDeletedStays DEF DeleterInv
  <2>2. CASE kind[r] = "none"
    <3>1. CASE Start(r)
      <4>1. PICK k \in Kinds \intersect (Asks \union {"prune"}) :
               /\ kind' = [kind EXCEPT ![r] = k]
               /\ sel' = [sel EXCEPT ![r] = IF k \in MessageRequests THEN {target[r]} ELSE Ids]
        BY <3>1 DEF Start
      <4>2. k = "deleteAllMessages"
        BY <1>1, <4>1 DEF CountInv, RequestTypeOK
      <4> QED
        BY <4>1, <4>2 DEF SelInv, MessageRequests
    <3>2. CASE ~Start(r)
      <4>1. kind'[r] = kind[r]
        <5>1. ASSUME NEW q \in Requests, Start(q) PROVE kind'[r] = kind[r]
          BY <3>2, <5>1 DEF Start, CountInv, RequestTypeOK
        <5>2. ASSUME NEW q \in Requests,
                     CallCache(q) \/ LeaveCache(q) \/ Select(q) \/ Write(q) \/ ClearCache(q) \/ Announce(q)
                        \/ NotifyStats(q) \/ StatsStep(q)
              PROVE  kind' = kind
          BY <5>2 DEF CallCache, LeaveCache, Select, Write, ClearCache, Announce, NotifyStats, GoOn, Leave,
               StatsStep, Awake, CountTotal, CountUnread, requestVars
        <5>3. CASE UNCHANGED vars \/ Rest \/ UNCHANGED requestVars
          BY <5>3 DEF vars, Rest, requestVars
        <5> QED
          BY <5>1, <5>2, <5>3 DEF Next, RequestStep
      <4> QED
        BY <1>1, <2>2, <4>1
    <3> QED
      BY <3>1, <3>2
  <2> QED
    BY <2>1, <2>2
<1>2. ASSUME NEW i \in Ids, rows'[i] = "gone", rows[i] = "gone" PROVE Deleters(i)' # {}
  <2>1. PICK d \in Requests : i \in sel[d] /\ HasDeleted(d)
    BY <1>2 DEF DeleterInv, Deleters
  <2>2. HasDeleted(d)' /\ sel'[d] = sel[d]
    BY <2>1, HasDeletedStays
  <2> QED
    BY <2>1, <2>2 DEF Deleters
<1>3. ASSUME NEW i \in Ids, rows'[i] = "gone", rows[i] # "gone" PROVE Deleters(i)' # {}
  <2>1. PICK r \in Requests : Write(r)
    <3>1. ASSUME NEW r \in Requests,
                 Start(r) \/ CallCache(r) \/ LeaveCache(r) \/ Select(r) \/ ClearCache(r) \/ Announce(r)
                    \/ NotifyStats(r) \/ StatsStep(r)
          PROVE  UNCHANGED rows
      BY <3>1 DEF Start, CallCache, Call, LeaveCache, Select, ClearCache, Invalidate, Announce, NotifyStats,
           StatsStep, Awake, CountTotal, CountUnread
    <3>2. ASSUME NEW r \in Requests, CacheStep(r) PROVE UNCHANGED rows
      BY <3>2 DEF CacheStep, Lookup, LookupHit, LookupWait, LookupParse, Fetch, Parse, Close, Finish, Wake
    <3>3. CASE UNCHANGED vars \/ Rest \/ CacheTick
      BY <1>3, <3>3 DEF vars, Rest, CacheTick, Expire, Timer
    <3> QED
      BY <1>3, <3>1, <3>2, <3>3 DEF Next, RequestStep
  <2>2. PICK s \in {"delete", "empty"} : At(r, s) /\ i \in sel[r]
    <3>1. CASE At(r, "empty")
      BY <3>1, OthersNeverEmpty DEF DeleterInv, CountInv
    <3>2. CASE ~At(r, "empty")
      <4>1. At(r, "delete") /\ rows' = SetTo(sel[r], "gone")
        BY <1>3, <2>1, <3>2 DEF Write, SetTo
      <4> QED
        BY <1>3, <4>1 DEF SetTo
    <3> QED
      BY <3>1, <3>2
  <2>3. RequestTypeOK
    BY DEF CountInv
  <2>4. GoOn(r) /\ sel' = sel
    BY <2>1 DEF Write
  <2>5. /\ kind[r] \in AllKinds /\ kind' = kind /\ pc'[r] = pc[r] + 1 /\ Programs[kind[r]][pc[r]] = s
        /\ pc[r] \in 1..6
    BY <2>2, <2>3, <2>4, ProgramSteps DEF RequestTypeOK
  <2>6. pc[r] \in 1..Len(Programs[kind[r]]) /\ pc[r] < pc'[r] /\ kind'[r] # "none"
    BY <2>2, <2>3, <2>5, ProgramSteps DEF At
  <2>7. HasDeleted(r)'
    BY <2>2, <2>5, <2>6 DEF HasDeleted
  <2> QED
    BY <2>2, <2>4, <2>7 DEF Deleters
<1> QED
  BY <1>1, <1>2, <1>3 DEF DeleterInv

LEMMA DeleterHolds == Spec => []DeleterInv
<1>1. Init => DeleterInv
  BY DEF Init, DeleterInv
<1>2. CacheInv /\ SelInv /\ CountInv /\ DeletionInv /\ DeleterInv /\ [Next]_vars => DeleterInv'
  BY DeleterStep
<1> QED
  BY <1>1, <1>2, CacheHolds, CountHolds, DeletionHolds, PTL DEF Spec

LEMMA DeletionAnswers == CountInv /\ DeletionInv /\ DeleterInv => DeletedStaysOutOfTheCache
<1> SUFFICES ASSUME CountInv, DeletionInv, DeleterInv,
                    NEW i \in Ids, rows[i] = "gone", entries[i] \notin late \union {None}
             PROVE  Deleters(i) # {} /\ \A d \in Deleters(i) : kind[d] = "deleteSearch" \/ ~Ended(d)
  BY DEF DeletedStaysOutOfTheCache, Deleters
<1>1. ASSUME NEW d \in Deleters(i), Ended(d) PROVE kind[d] = "deleteSearch"
  <2>1. d \in Requests /\ i \in sel[d] /\ HasDeleted(d) /\ RequestTypeOK /\ DeletionIsSound(d)
    BY <1>1 DEF Deleters, CountInv, DeletionInv
  <2>2. kind[d] \notin {"deleteMessages", "deleteAllMessages", "prune"}
    BY <1>1, <2>1, EndedIsCleared DEF DeletionIsSound, IsOut
  <2>3. kind[d] \in {"deleteMessages", "deleteAllMessages", "prune", "deleteSearch"}
    BY <2>1, OthersNeverDelete
  <2> QED
    BY <2>2, <2>3
<1> QED
  BY <1>1 DEF DeleterInv

\* A deleted message is in the cache only where a request had begun to read it before the
\* cache was cleared, its deletion is still going on, or a search deleted it.
THEOREM DeletedMessagesStayOut == Spec => []DeletedStaysOutOfTheCache
<1>1. CountInv /\ DeletionInv /\ DeleterInv => DeletedStaysOutOfTheCache
  BY DeletionAnswers
<1> QED
  BY <1>1, CountHolds, DeletionHolds, DeleterHolds, PTL
=============================================================================
