--------------------------- MODULE Outbound_proofs ---------------------------
(***************************************************************************)
(* What holds of Outbound for any checks, links, limits and messages.      *)
(* Its three components share no variable: the invariant of each is        *)
(* proved over the steps of its own.                                       *)
(***************************************************************************)
EXTENDS Outbound, FiniteSetTheorems, TLAPS

(* The asset proxy                                                         *)

\* What may be passed on for a message.
Permitted(m) == Linked[m] \union {u \in Urls : \E w \in Urls : <<m, w>> \in fetched /\ u \in Styles[w]}

\* The table holds all the links of a message and nothing but what is permitted; so does
\* what a handler is about to fetch or to record.
TableIsSound ==
    \A m \in Messages : assets[m].known =>
        Linked[m] \subseteq assets[m].index /\ assets[m].index \subseteq Permitted(m)
FetchIsSound(f) ==
    /\ step[f] \in {"fetch", "rewrite"} => message[f] \in Messages /\ url[f] \in Urls
    /\ step[f] = "fetch" => url[f] \in Permitted(message[f])
    /\ step[f] = "rewrite" => pending[f] \subseteq Permitted(message[f])

\* The inductive invariant of AssetProxy.
ProxyInv ==
    /\ ProxyTypeOK
    /\ TableIsSound
    /\ \A f \in Fetches : FetchIsSound(f)
    /\ AssetsAreExact

LEMMA ProxyInitInv == ProxyInit => ProxyInv
<1> SUFFICES ASSUME ProxyInit PROVE ProxyInv
  OBVIOUS
<1>1. ProxyTypeOK
  BY DEF ProxyInit, ProxyTypeOK, NoEntry, Entries
<1>2. TableIsSound
  BY DEF ProxyInit, TableIsSound, NoEntry
<1>3. \A f \in Fetches : FetchIsSound(f)
  BY DEF ProxyInit, FetchIsSound
<1>4. AssetsAreExact
  BY DEF ProxyInit, AssetsAreExact
<1> QED
  BY <1>1, <1>2, <1>3, <1>4 DEF ProxyInv

\* What was permitted stays so.
LEMMA PermittedGrows ==
    ASSUME NEW m \in Messages, fetched \subseteq fetched'
    PROVE  Permitted(m) \subseteq Permitted(m)'
BY DEF Permitted

LEMMA ProxyStepInv == ProxyInv /\ (ProxyStep \/ UNCHANGED proxyVars) => ProxyInv'
<1> SUFFICES ASSUME ProxyInv, ProxyStep \/ UNCHANGED proxyVars PROVE ProxyInv'
  OBVIOUS
<1>a. /\ ProxyTypeOK /\ TableIsSound /\ AssetsAreExact
      /\ \A f \in Fetches : FetchIsSound(f)
  BY DEF ProxyInv
<1> USE LinkedAssumption, StylesAssumption
<1>s. ASSUME fetched' = fetched PROVE \A m \in Messages : Permitted(m)' = Permitted(m)
  BY <1>s DEF Permitted
<1>e. ASSUME fetched' = fetched, wronged' = wronged PROVE AssetsAreExact'
  BY <1>a, <1>e DEF AssetsAreExact
<1>1. ASSUME NEW f \in Fetches, NEW m \in Messages, NEW u \in Urls, Ask(f, m, u)
      PROVE  ProxyInv'
  <2> DEFINE entry == IF assets[m].known THEN assets[m] ELSE Built(m)
  <2>1. /\ entry \in Entries /\ entry.known
        /\ Linked[m] \subseteq entry.index /\ entry.index \subseteq Permitted(m)
    <3>1. CASE assets[m].known
      BY <3>1, <1>a DEF TableIsSound, ProxyTypeOK
    <3>2. CASE ~assets[m].known
      BY <3>2 DEF Built, Entries, Permitted
    <3> QED
      BY <3>1, <3>2
  <2>2. \/ step' = [step EXCEPT ![f] = "done"] /\ assets' = assets /\ wronged' = wronged
        \/ /\ assets' = [assets EXCEPT ![m] = entry]
           /\ wronged' = wronged
           /\ \/ step' = [step EXCEPT ![f] = "fetch"] /\ u \in entry.index
              \/ step' = [step EXCEPT ![f] = "done"]
    <3>1. u \notin entry.index => u \notin Linked[m]
      BY <2>1
    <3> HIDE DEF entry
    <3> QED
      BY <1>1, <3>1 DEF Ask, GoOn, entry
  <2> HIDE DEF entry
  <2>3. ProxyTypeOK'
    BY <1>1, <1>a, <2>1, <2>2 DEF Ask, ProxyTypeOK
  <2>4. TableIsSound'
    BY <1>1, <1>a, <1>s, <2>1, <2>2 DEF Ask, TableIsSound, ProxyTypeOK
  <2>5. ASSUME NEW g \in Fetches PROVE FetchIsSound(g)'
    BY <1>1, <1>a, <1>s, <2>1, <2>2 DEF Ask, FetchIsSound, ProxyTypeOK
  <2>6. AssetsAreExact'
    BY <1>1, <1>e, <2>2 DEF Ask
  <2> QED
    BY <2>3, <2>4, <2>5, <2>6 DEF ProxyInv
<1>2. ASSUME NEW f \in Fetches, Fetch(f) PROVE ProxyInv'
  <2>1. /\ step[f] = "fetch" /\ message[f] \in Messages /\ url[f] \in Urls
        /\ url[f] \in Permitted(message[f]) /\ fetched \subseteq fetched'
    BY <1>2, <1>a DEF Fetch, FetchIsSound
  <2>2. \A m \in Messages : Permitted(m) \subseteq Permitted(m)'
    BY <2>1, PermittedGrows
  <2>3. ProxyTypeOK'
    BY <1>2, <1>a, <2>1 DEF Fetch, ProxyTypeOK, GoOn, NamedBy
  <2>4. TableIsSound'
    BY <1>2, <1>a, <2>2 DEF Fetch, TableIsSound
  <2>5. ASSUME NEW g \in Fetches PROVE FetchIsSound(g)'
    <3>1. CASE g # f
      BY <1>2, <1>a, <2>2, <3>1 DEF Fetch, FetchIsSound, ProxyTypeOK, GoOn
    <3>2. CASE g = f
      <4>1. step'[f] = "rewrite" =>
               <<message[f], url[f]>> \in fetched' /\ pending'[f] = Styles[url[f]]
        BY <1>2, <1>a DEF Fetch, ProxyTypeOK, GoOn, NamedBy
      <4>2. step'[f] = "rewrite" => pending'[f] \subseteq Permitted(message[f])'
        BY <1>2, <2>1, <4>1 DEF Permitted, Fetch
      <4>3. step'[f] \in {"rewrite", "done"}
        BY <1>2, <1>a DEF Fetch, ProxyTypeOK, GoOn
      <4> QED
        BY <1>2, <2>1, <3>2, <4>2, <4>3 DEF Fetch, FetchIsSound
    <3> QED
      BY <3>1, <3>2
  <2>6. AssetsAreExact'
    <3>1. ASSUME NEW p \in fetched'
          PROVE  p[2] \in Linked[p[1]]
                    \/ \E u \in Urls : <<p[1], u>> \in fetched' /\ p[2] \in Styles[u]
      <4>1. CASE p \in fetched
        BY <4>1, <1>a, <2>1 DEF AssetsAreExact
      <4>2. CASE p = <<message[f], url[f]>>
        BY <4>2, <2>1 DEF Permitted
      <4> QED
        BY <1>2, <4>1, <4>2 DEF Fetch
    <3> QED
      BY <1>2, <1>a, <3>1 DEF Fetch, AssetsAreExact
  <2> QED
    BY <2>3, <2>4, <2>5, <2>6 DEF ProxyInv
<1>3. ASSUME NEW f \in Fetches, NEW u \in Urls, Record(f, u) PROVE ProxyInv'
  <2>1. message[f] \in Messages /\ u \in Permitted(message[f])
    BY <1>3, <1>a DEF Record, FetchIsSound
  <2>2. ProxyTypeOK'
    BY <1>3, <1>a, <2>1 DEF Record, Recording, ProxyTypeOK, Entries
  <2>3. TableIsSound'
    BY <1>3, <1>a, <1>s, <2>1 DEF Record, Recording, TableIsSound, ProxyTypeOK, Entries
  <2>4. ASSUME NEW g \in Fetches PROVE FetchIsSound(g)'
    BY <1>3, <1>a, <1>s DEF Record, FetchIsSound, ProxyTypeOK
  <2> QED
    BY <1>3, <1>e, <2>2, <2>3, <2>4 DEF Record, ProxyInv
<1>4. ASSUME NEW f \in Fetches, Deliver(f) PROVE ProxyInv'
  <2>1. ProxyTypeOK' /\ TableIsSound'
    BY <1>4, <1>a, <1>s DEF Deliver, GoOn, ProxyTypeOK, TableIsSound
  <2>2. ASSUME NEW g \in Fetches PROVE FetchIsSound(g)'
    BY <1>4, <1>a, <1>s DEF Deliver, GoOn, FetchIsSound, ProxyTypeOK
  <2> QED
    BY <1>4, <1>e, <2>1, <2>2 DEF Deliver, ProxyInv
<1>5. CASE Cleanup
  <2>1. PICK old \in SUBSET Messages :
           /\ assets' = [m \in Messages |-> IF m \in old THEN NoEntry ELSE assets[m]]
           /\ aged' = {m \in Messages \ old : assets[m].known}
           /\ UNCHANGED <<present, step, message, url, pending, fetched, wronged>>
    BY <1>5 DEF Cleanup
  <2>2. ProxyTypeOK'
    BY <1>a, <2>1 DEF ProxyTypeOK, NoEntry, Entries
  <2>3. TableIsSound'
    BY <1>a, <1>s, <2>1 DEF TableIsSound, NoEntry
  <2>4. ASSUME NEW g \in Fetches PROVE FetchIsSound(g)'
    BY <1>a, <1>s, <2>1 DEF FetchIsSound
  <2> QED
    BY <1>e, <2>1, <2>2, <2>3, <2>4 DEF ProxyInv
<1>6. ASSUME NEW m \in Messages, Delete(m) PROVE ProxyInv'
  <2>1. ProxyTypeOK' /\ TableIsSound'
    BY <1>6, <1>a, <1>s DEF Delete, ProxyTypeOK, TableIsSound
  <2>2. ASSUME NEW g \in Fetches PROVE FetchIsSound(g)'
    BY <1>6, <1>a, <1>s DEF Delete, FetchIsSound
  <2> QED
    BY <1>6, <1>e, <2>1, <2>2 DEF Delete, ProxyInv
<1>7. CASE UNCHANGED proxyVars
  <2>1. ProxyTypeOK' /\ TableIsSound'
    BY <1>7, <1>a, <1>s DEF proxyVars, ProxyTypeOK, TableIsSound
  <2>2. ASSUME NEW g \in Fetches PROVE FetchIsSound(g)'
    BY <1>7, <1>a, <1>s DEF proxyVars, FetchIsSound
  <2> QED
    BY <1>7, <1>e, <2>1, <2>2 DEF proxyVars, ProxyInv
<1> QED
  BY <1>1, <1>2, <1>3, <1>4, <1>5, <1>6, <1>7 DEF ProxyStep
----------------------------------------------------------------------------
(* The version                                                             *)

\* The version is kept at least as long as it should be, unless nothing is promised.
KeptLongEnough ==
    /\ settled.at <= clock
    /\ settled.wait > 0 => cached.expiry \in Int /\ cached.expiry >= settled.at + settled.wait

\* The types the argument rests on.  Of the time the version expires at it needs none where
\* nothing is promised: there it is what a Duration that overflowed left.
VersionTypes ==
    /\ load \in [Requests -> {"idle", "stale", "fetch", "done"}]
    /\ cached.errCount \in Nat
    /\ clock \in Nat
    /\ settled.at \in Nat
    /\ settled.wait \in Int

\* The inductive invariant of VersionCheck.
VersionInv == VersionTypes /\ KeptLongEnough /\ LookupsAreApart

LEMMA VersionInitInv == VersionInit => VersionInv
BY DEF VersionInit, VersionInv, VersionTypes, KeptLongEnough, LookupsAreApart

\* getBackoff is what it is meant to be as long as the Duration has not overflowed.
LEMMA BackoffIsMeant ==
    ASSUME NEW n \in Nat
    PROVE  /\ MeantBackoff(n) \in Int
           /\ MeantBackoff(n) > 0 => Backoff(n) = MeantBackoff(n)
<1>1. 2^n \in Int /\ MaxBackoff \in Int /\ Minute \in Nat \ {0}
  BY WaitsAssumption
<1>2. LesserOf(2^n * Minute, MaxBackoff * Minute) = LesserOf(2^n, MaxBackoff) * Minute
  <2>1. ASSUME NEW k \in Int, NEW b \in Int, NEW c \in Nat \ {0}
        PROVE  LesserOf(k * c, b * c) = LesserOf(k, b) * c
    BY DEF LesserOf
  <2> QED
    BY <1>1, <2>1
<1>3. (LesserOf(2^n, MaxBackoff) * Minute) \div Minute = LesserOf(2^n, MaxBackoff)
  <2>1. ASSUME NEW k \in Int, NEW c \in Nat \ {0} PROVE (k * c) \div c = k
    OBVIOUS
  <2>2. LesserOf(2^n, MaxBackoff) \in Int
    BY <1>1 DEF LesserOf
  <2> QED
    BY <1>1, <2>1, <2>2
<1>4. CASE Overflows(n)
  BY <1>4 DEF MeantBackoff
<1>5. CASE ~Overflows(n)
  BY <1>1, <1>2, <1>3, <1>5 DEF Overflows, MeantBackoff, Backoff, LesserOf
<1> QED
  BY <1>4, <1>5

LEMMA VersionStepInv == VersionInv /\ (VersionStep \/ UNCHANGED versionVars) => VersionInv'
<1> SUFFICES ASSUME VersionInv, VersionStep \/ UNCHANGED versionVars PROVE VersionInv'
  OBVIOUS
<1> USE WaitsAssumption DEF VersionInv, VersionTypes, KeptLongEnough, LookupsAreApart, Goes
<1>1. ASSUME NEW r \in Requests, AskVersion(r) PROVE VersionInv'
  BY <1>1 DEF AskVersion
<1>2. ASSUME NEW r \in Requests, LockVersion(r) PROVE VersionInv'
  <2>1. ~(StillStale /\ clock < settled.at + settled.wait)
    BY DEF StillStale
  <2>2. ~hasty'
    <3> HIDE DEF VersionTypes, KeptLongEnough
    <3> QED
      BY <1>2, <2>1 DEF LockVersion
  <2>3. load' \in [Requests -> {"idle", "stale", "fetch", "done"}]
    BY <1>2 DEF LockVersion
  <2> QED
    BY <1>2, <2>2, <2>3 DEF LockVersion
<1>3. ASSUME NEW r \in Requests, FetchVersion(r) PROVE VersionInv'
  <2> DEFINE n == cached.errCount + 1
  <2>1. n \in Nat /\ MeantBackoff(n) \in Int
    BY BackoffIsMeant
  <2>2. MeantBackoff(n) > 0 => Backoff(n) = MeantBackoff(n)
    BY BackoffIsMeant
  <2>3. CASE /\ cached' = [expiry |-> clock + KeptFor, errCount |-> 0]
             /\ settled' = [at |-> clock, wait |-> KeptFor]
    BY <1>3, <2>3 DEF FetchVersion
  <2>4. CASE /\ cached' = [expiry |-> clock + Backoff(n), errCount |-> n]
             /\ settled' = [at |-> clock, wait |-> MeantBackoff(n)]
    <3> HIDE DEF n
    <3>1. /\ cached.errCount' = n /\ cached.expiry' = clock + Backoff(n)
          /\ settled.at' = clock /\ settled.wait' = MeantBackoff(n)
          /\ clock' = clock /\ hasty' = hasty
      BY <1>3, <2>4 DEF FetchVersion
    <3>2. load' \in [Requests -> {"idle", "stale", "fetch", "done"}]
      BY <1>3 DEF FetchVersion
    <3>3. VersionTypes'
      BY <2>1, <3>1, <3>2
    <3>4. KeptLongEnough'
      BY <2>1, <2>2, <3>1
    <3> QED
      BY <3>1, <3>3, <3>4
  <2> QED
    BY <1>3, <2>3, <2>4 DEF FetchVersion
<1>4. ASSUME NEW r \in Requests, AskAgain(r) PROVE VersionInv'
  BY <1>4 DEF AskAgain
<1>5. CASE LogSMTPAccepted \/ MinutePasses \/ UNCHANGED versionVars
  BY <1>5 DEF LogSMTPAccepted, MinutePasses, versionVars
<1> QED
  BY <1>1, <1>2, <1>3, <1>4, <1>5 DEF VersionStep
----------------------------------------------------------------------------
(* The results of link checks                                              *)

Stages == {"none", "get", "token", "slot", "head", "release", "done"}

ResultTypes ==
    /\ phase \in [Checks -> {"idle", "loop", "done"}]
    /\ links \in [Checks -> SUBSET Links]
    /\ follows \in [Checks -> BOOLEAN]
    /\ todo \in [Checks -> SUBSET Links]
    /\ began \in [Checks -> Nat]
    /\ stage \in [Jobs -> Stages]
    /\ via \in [Jobs -> Seq(Links)]
    /\ result \in [Jobs -> Results \union {NoResult}]
    /\ cache \in [Links -> Results \union {NoResult}]
    /\ time \in Nat

\* A result for l, not too old at t, and l's own.
Sound(r, l, t) ==
    r # NoResult =>
        /\ r.at + Ttl >= t
        /\ r.from \in Origins(l)
        /\ r.outcome # "cancelled" => (r.outcome = "blocked" <=> Blocked(r.from))

\* The requests of a job go where the servers redirect them, if its check follows that.
LedFrom(l, v) ==
    /\ Len(v) \in 1..MaxRequests
    /\ v[1] = l
    /\ \A i \in 1..(Len(v) - 1) : v[i + 1] \in Targets[v[i]]
IsLed(c, l) ==
    /\ LedFrom(l, via[<<c, l>>])
    /\ Len(via[<<c, l>>]) > 1 => follows[c]

\* What a check holds for a link.
CheckIsSound(c, l) ==
    /\ began[c] <= time
    /\ Sound(result[<<c, l>>], l, began[c])
    /\ phase[c] = "idle" =>
          stage[<<c, l>>] = "none" /\ result[<<c, l>>] = NoResult /\ ~follows[c]
    /\ stage[<<c, l>>] = "head" => IsLed(c, l)
    /\ l \in links[c] \ todo[c] =>
          result[<<c, l>>] # NoResult \/ stage[<<c, l>>] \in {"get", "token", "slot", "head"}
    /\ l \in todo[c] => stage[<<c, l>>] = "none"
    /\ phase[c] = "done" => todo[c] = {} /\ stage[<<c, l>>] \in {"none", "done"}

ChecksAreSound == \A c \in Checks, l \in Links : CheckIsSound(c, l)

\* The cache drops what is too old at each tick: what is in it is sound now, and so it was
\* when the check that looks at it began.
CacheIsSound == \A l \in Links : Sound(cache[l], l, time)

\* The inductive invariant of LinkCheck's results.
ResultsInv == ResultTypes /\ CacheIsSound /\ ChecksAreSound

LEMMA ResultsInitInv == LinkInit => ResultsInv
<1> SUFFICES ASSUME LinkInit PROVE ResultsInv
  OBVIOUS
<1>1. ResultTypes
  BY DEF LinkInit, ResultTypes, Stages
<1>2. CacheIsSound
  BY DEF LinkInit, CacheIsSound, Sound
<1>3. ASSUME NEW c \in Checks, NEW l \in Links PROVE CheckIsSound(c, l)
  BY <1>3 DEF LinkInit, CheckIsSound, Sound, Jobs
<1> QED
  BY <1>1, <1>2, <1>3 DEF ResultsInv, ChecksAreSound

LEMMA ResultsAnswer == ResultsInv => AnswersAreFresh
<1> SUFFICES ASSUME ResultsInv, NEW c \in Checks, phase[c] = "done", NEW l \in links[c]
             PROVE  /\ result[<<c, l>>] # NoResult
                    /\ result[<<c, l>>].at + Ttl >= began[c]
                    /\ result[<<c, l>>].from \in Origins(l)
                    /\ result[<<c, l>>].outcome # "cancelled" =>
                          (result[<<c, l>>].outcome = "blocked" <=> Blocked(result[<<c, l>>].from))
  BY DEF AnswersAreFresh
<1>1. l \in Links /\ CheckIsSound(c, l)
  BY DEF ResultsInv, ResultTypes, ChecksAreSound
<1> QED
  BY <1>1 DEF CheckIsSound, Sound

\* What a link's results may come from does not become less when a check begins.
LEMMA OriginsFrame ==
    ASSUME follows' = follows
    PROVE  \A l \in Links : Origins(l)' = Origins(l)
BY DEF Origins

LEMMA ReachHasTheLink == \A l \in Links : l \in Reach(l)
<1> SUFFICES ASSUME NEW l \in Links PROVE l \in Reach(l)
  OBVIOUS
<1> DEFINE v == [i \in 1..1 |-> l]
<1>1. /\ 1 \in 1..MaxRequests /\ v \in [1..1 -> Links] /\ v[1] = l
      /\ \A i \in 1..(1 - 1) : v[i + 1] \in Targets[v[i]]
  BY LimitsAssumption
<1> HIDE DEF v
<1> QED
  BY <1>1 DEF Reach

LEMMA OriginsGrow ==
    ASSUME NEW c \in Checks, follows \in [Checks -> BOOLEAN], ~follows[c],
           NEW follow \in BOOLEAN, follows' = [follows EXCEPT ![c] = follow]
    PROVE  \A l \in Links : Origins(l) \subseteq Origins(l)'
<1>1. (\E d \in Checks : follows[d]) => (\E d \in Checks : follows'[d])
  OBVIOUS
<1> QED
  BY <1>1, ReachHasTheLink DEF Origins

\* A job's last request is one that its link's results may come from.
LEMMA LedIsAnOrigin ==
    ASSUME ResultTypes, NEW c \in Checks, NEW l \in Links, IsLed(c, l)
    PROVE  Here(<<c, l>>) \in Links /\ Here(<<c, l>>) \in Origins(l)
<1> DEFINE v == via[<<c, l>>]
<1> DEFINE n == Len(v)
<1>1. /\ v \in Seq(Links) /\ n \in 1..MaxRequests /\ v[1] = l
      /\ \A i \in 1..(n - 1) : v[i + 1] \in Targets[v[i]]
      /\ n > 1 => follows[c]
      /\ Here(<<c, l>>) = v[n]
  BY DEF ResultTypes, Jobs, IsLed, LedFrom, Here
<1> HIDE DEF v
<1>2. v \in [1..n -> Links] /\ n \in Nat
  BY <1>1
<1> HIDE DEF n
<1>3. v[n] \in Links /\ v[n] \in Reach(l)
  <2>1. v[n] \in Links
    BY <1>1, <1>2
  <2>2. \E m \in 1..MaxRequests : \E w \in [1..m -> Links] :
           w[1] = l /\ w[m] = v[n] /\ \A i \in 1..(m - 1) : w[i + 1] \in Targets[w[i]]
    BY <1>1, <1>2
  <2> QED
    BY <2>1, <2>2 DEF Reach
<1>4. CASE n > 1
  BY <1>1, <1>3, <1>4, ReachHasTheLink DEF Origins
<1>5. CASE n = 1
  BY <1>1, <1>3, <1>5, ReachHasTheLink DEF Origins
<1> QED
  BY <1>1, <1>2, <1>4, <1>5, LimitsAssumption

\* A result that is had now is sound for a check that has begun.
LEMMA NewIsSound ==
    ASSUME NEW l \in Links, NEW outcome \in Outcomes, NEW from \in Links, from \in Origins(l),
           outcome # "cancelled" => (outcome = "blocked" <=> Blocked(from)),
           NEW t \in Nat, NEW now \in Nat, t <= now
    PROVE  LET r == [outcome |-> outcome, at |-> now, from |-> from]
           IN  r \in Results /\ r # NoResult /\ Sound(r, l, t) /\ Sound(r, l, now)
<1> DEFINE r == [outcome |-> outcome, at |-> now, from |-> from]
<1>1. r \in Results /\ r.outcome = outcome /\ r.at = now /\ r.from = from
  BY DEF Results
<1>2. r # NoResult
  BY DEF Outcomes, NoResult
<1>3. now + Ttl >= t /\ now + Ttl >= now
  BY LimitsAssumption
<1> HIDE DEF r
<1>4. Sound(r, l, t) /\ Sound(r, l, now)
  BY <1>1, <1>3 DEF Sound
<1> QED
  BY <1>1, <1>2, <1>4 DEF r

\* What may happen to LinkCheck.
LinkNext ==
    \/ LinkStep
    \/ \E c \in Checks, found \in SUBSET Links, follow \in BOOLEAN : StartCheck(c, found, follow)
    \/ UNCHANGED linkVars

LEMMA ResultsStep == ResultsInv /\ LinkNext => ResultsInv'
<1> SUFFICES ASSUME ResultsInv, LinkNext PROVE ResultsInv'
  OBVIOUS
<1>a. ResultTypes /\ CacheIsSound /\ ChecksAreSound
  BY DEF ResultsInv
<1>f. ASSUME follows' = follows PROVE \A l \in Links : Origins(l)' = Origins(l)
  BY <1>f, OriginsFrame
<1>0. ASSUME UNCHANGED <<phase, links, follows, todo, began, stage, via, result, cache, time>>
      PROVE  ResultsInv'
  <2>1. ResultTypes'
    BY <1>0, <1>a DEF ResultTypes
  <2>2. CacheIsSound'
    BY <1>0, <1>a, <1>f DEF CacheIsSound, Sound
  <2>3. ASSUME NEW c \in Checks, NEW l \in Links PROVE CheckIsSound(c, l)'
    BY <1>0, <1>a, <1>f DEF ChecksAreSound, CheckIsSound, Sound, IsLed
  <2> QED
    BY <2>1, <2>2, <2>3 DEF ResultsInv, ChecksAreSound
<1>1. ASSUME NEW c \in Checks, NEW found \in SUBSET Links, NEW follow \in BOOLEAN,
             StartCheck(c, found, follow)
      PROVE  ResultsInv'
  <2>0. \A l \in Links : Origins(l) \subseteq Origins(l)'
    <3>1. \A l \in Links : ~follows[c]
      BY <1>1, <1>a DEF StartCheck, ChecksAreSound, CheckIsSound
    <3> QED
      BY <1>1, <1>a, <3>1, OriginsGrow DEF StartCheck, ResultTypes
  <2>1. ResultTypes'
    BY <1>1, <1>a DEF StartCheck, ResultTypes, jobVars
  <2>2. CacheIsSound'
    BY <1>1, <1>a, <2>0 DEF StartCheck, CacheIsSound, Sound
  <2>3. ASSUME NEW b \in Checks, NEW l \in Links PROVE CheckIsSound(b, l)'
    <3>1. CASE b # c
      BY <1>1, <1>a, <2>0, <3>1
         DEF StartCheck, ChecksAreSound, CheckIsSound, Sound, IsLed, ResultTypes, jobVars
    <3>2. CASE b = c
      BY <1>1, <1>a, <3>2 DEF StartCheck, ChecksAreSound, CheckIsSound, Sound, ResultTypes, jobVars
    <3> QED
      BY <3>1, <3>2
  <2> QED
    BY <2>1, <2>2, <2>3 DEF ResultsInv, ChecksAreSound
<1>2. ASSUME NEW c \in Checks, NEW l \in Links, Look(c, l) PROVE ResultsInv'
  <2>1. ResultTypes'
    BY <1>2, <1>a DEF Look, ResultTypes, Stages, Jobs
  <2>2. CacheIsSound'
    BY <1>2, <1>a, <1>f DEF Look, CacheIsSound, Sound
  <2>3. ASSUME NEW b \in Checks, NEW k \in Links PROVE CheckIsSound(b, k)'
    <3>1. CASE b = c /\ k = l
      <4>1. /\ result'[<<c, l>>] # NoResult \/ stage'[<<c, l>>] = "get"
            /\ result'[<<c, l>>] = result[<<c, l>>] \/ result'[<<c, l>>] = cache[l]
        BY <1>2, <1>a DEF Look, ResultTypes, Jobs
      <4>2. Sound(cache[l], l, began[c])
        <5>1. began[c] <= time /\ began[c] \in Nat /\ time \in Nat
          BY <1>a DEF ResultTypes, ChecksAreSound, CheckIsSound
        <5>2. cache[l] # NoResult => cache[l].at \in Nat
          BY <1>a DEF ResultTypes, Results
        <5> QED
          BY <1>a, <5>1, <5>2, LimitsAssumption DEF CacheIsSound, Sound
      <4>3. Sound(result'[<<c, l>>], l, began[c])
        BY <1>a, <4>1, <4>2 DEF ChecksAreSound, CheckIsSound
      <4>4. /\ l \notin todo'[c] /\ phase[c] = "loop" /\ stage'[<<c, l>>] # "head"
            /\ UNCHANGED <<phase, links, follows, began, time>>
        BY <1>2, <1>a DEF Look, ResultTypes, Jobs, ChecksAreSound, CheckIsSound
      <4>5. Sound(result[<<c, l>>], l, began[c])'
        BY <1>f, <4>3, <4>4 DEF Sound
      <4> QED
        BY <1>a, <3>1, <4>1, <4>4, <4>5 DEF ChecksAreSound, CheckIsSound
    <3>2. CASE b # c \/ k # l
      <4>1. /\ result'[<<b, k>>] = result[<<b, k>>] /\ stage'[<<b, k>>] = stage[<<b, k>>]
            /\ k \in todo'[b] <=> k \in todo[b]
            /\ todo'[b] \subseteq todo[b]
        BY <1>2, <1>a, <3>2 DEF Look, ResultTypes, Jobs
      <4> QED
        BY <1>2, <1>a, <1>f, <4>1 DEF Look, ChecksAreSound, CheckIsSound, Sound, IsLed
    <3> QED
      BY <3>1, <3>2
  <2> QED
    BY <2>1, <2>2, <2>3 DEF ResultsInv, ChecksAreSound
<1>3. ASSUME NEW c \in Checks, AnswerCheck(c) PROVE ResultsInv'
  <2>1. ResultTypes'
    BY <1>3, <1>a DEF AnswerCheck, ResultTypes, jobVars
  <2>2. CacheIsSound'
    BY <1>3, <1>a, <1>f DEF AnswerCheck, CacheIsSound, Sound
  <2>3. ASSUME NEW b \in Checks, NEW l \in Links PROVE CheckIsSound(b, l)'
    BY <1>3, <1>a, <1>f
       DEF AnswerCheck, JobsReturned, ChecksAreSound, CheckIsSound, Sound, IsLed, ResultTypes, jobVars
  <2> QED
    BY <2>1, <2>2, <2>3 DEF ResultsInv, ChecksAreSound
<1>4. ASSUME NEW c \in Checks, Abandon(c) PROVE ResultsInv'
  BY <1>0, <1>4 DEF Abandon, jobVars
<1>5. CASE Tick
  <2>1. ResultTypes'
    BY <1>5, <1>a DEF Tick, ResultTypes, checkVars, jobVars
  <2>2. CacheIsSound'
    <3>1. ASSUME NEW l \in Links PROVE Sound(cache[l], l, time)'
      <4>1. CASE Expired(cache[l], time + 1)
        BY <1>5, <4>1 DEF Tick, Sound
      <4>2. CASE ~Expired(cache[l], time + 1)
        <5>1. cache'[l] = cache[l] /\ time' = time + 1 /\ time \in Nat
          BY <1>5, <1>a, <4>2 DEF Tick, ResultTypes
        <5>2. cache[l] # NoResult => cache[l].at \in Nat
          BY <1>a DEF ResultTypes, Results
        <5> QED
          BY <1>a, <1>f, <1>5, <4>2, <5>1, <5>2, LimitsAssumption
             DEF Expired, CacheIsSound, Sound, Tick, checkVars
      <4> QED
        BY <4>1, <4>2
    <3> QED
      BY <3>1 DEF CacheIsSound
  <2>3. ASSUME NEW c \in Checks, NEW l \in Links PROVE CheckIsSound(c, l)'
    BY <1>5, <1>a, <1>f
       DEF Tick, ChecksAreSound, CheckIsSound, Sound, IsLed, ResultTypes, checkVars, jobVars
  <2> QED
    BY <2>1, <2>2, <2>3 DEF ResultsInv, ChecksAreSound
\* A job goes on with its result as it was, or with one it has now.
<1>6. ASSUME NEW c \in Checks, NEW l \in Links, NEW s \in Stages \ {"none", "get"},
             stage[<<c, l>>] \notin {"none", "done"},
             stage' = [stage EXCEPT ![<<c, l>>] = s],
             \/ /\ result' = result /\ cache' = cache
                /\ s \in {"token", "slot", "head"} \/ stage[<<c, l>>] = "release"
             \/ \E r \in Results :
                   /\ r # NoResult /\ Sound(r, l, began[c]) /\ Sound(r, l, time)
                   /\ result' = [result EXCEPT ![<<c, l>>] = r]
                   /\ cache' = cache \/ cache' = [cache EXCEPT ![l] = r],
             via' \in [Jobs -> Seq(Links)], \A i \in Jobs \ {<<c, l>>} : via'[i] = via[i],
             s = "head" => IsLed(c, l)',
             UNCHANGED <<phase, links, follows, todo, began, time>>
      PROVE  ResultsInv'
  <2>1. /\ began[c] <= time /\ began[c] \in Nat /\ time \in Nat
        /\ phase[c] # "idle" /\ phase[c] # "done" /\ CheckIsSound(c, l)
    BY <1>6, <1>a DEF ResultTypes, ChecksAreSound, CheckIsSound
  <2>2. PICK r \in Results \union {NoResult} :
           /\ result'[<<c, l>>] = r
           /\ result' \in [Jobs -> Results \union {NoResult}]
           /\ \A i \in Jobs \ {<<c, l>>} : result'[i] = result[i]
           /\ Sound(r, l, began[c])
           /\ cache' = cache \/ (cache' = [cache EXCEPT ![l] = r] /\ Sound(r, l, time))
           /\ \/ r = result[<<c, l>>] /\ (s \in {"token", "slot", "head"} \/ stage[<<c, l>>] = "release")
              \/ r # NoResult
    <3> DEFINE IsHad(r) ==
                 /\ result'[<<c, l>>] = r
                 /\ result' \in [Jobs -> Results \union {NoResult}]
                 /\ \A i \in Jobs \ {<<c, l>>} : result'[i] = result[i]
                 /\ Sound(r, l, began[c])
                 /\ cache' = cache \/ (cache' = [cache EXCEPT ![l] = r] /\ Sound(r, l, time))
                 /\ \/ r = result[<<c, l>>] /\ (s \in {"token", "slot", "head"} \/ stage[<<c, l>>] = "release")
                    \/ r # NoResult
    <3>1. <<c, l>> \in Jobs /\ result \in [Jobs -> Results \union {NoResult}]
      BY <1>a DEF Jobs, ResultTypes
    <3>2. ASSUME result' = result, cache' = cache,
                 s \in {"token", "slot", "head"} \/ stage[<<c, l>>] = "release"
          PROVE  \E q \in Results \union {NoResult} : IsHad(q)
      <4>1. Sound(result[<<c, l>>], l, began[c])
        BY <2>1 DEF CheckIsSound
      <4>2. IsHad(result[<<c, l>>])
        BY <3>1, <3>2, <4>1
      <4> QED
        BY <3>1, <4>2
    <3>3. ASSUME NEW r \in Results,
                 r # NoResult, Sound(r, l, began[c]), Sound(r, l, time),
                 result' = [result EXCEPT ![<<c, l>>] = r],
                 cache' = cache \/ cache' = [cache EXCEPT ![l] = r]
          PROVE  IsHad(r)
      BY <3>1, <3>3
    <3> HIDE DEF IsHad
    <3>4. \E q \in Results \union {NoResult} : IsHad(q)
      BY <1>6, <3>2, <3>3
    <3> QED
      BY <3>4 DEF IsHad
  <2>3. ResultTypes'
    BY <1>6, <1>a, <2>2 DEF ResultTypes, Jobs
  <2>4. CacheIsSound'
    <3>1. ASSUME NEW k \in Links PROVE Sound(cache'[k], k, time)
      BY <1>6, <1>a, <2>2, <3>1 DEF CacheIsSound, ResultTypes
    <3> QED
      BY <1>f, <1>6, <3>1 DEF CacheIsSound, Sound
  <2>5. ASSUME NEW b \in Checks, NEW k \in Links PROVE CheckIsSound(b, k)'
    <3>1. CASE b = c /\ k = l
      <4>1. stage'[<<c, l>>] = s
        BY <1>6, <1>a DEF ResultTypes, Jobs
      <4> QED
        <5>1. Sound(result[<<c, l>>], l, began[c])'
          BY <1>6, <1>f, <2>2 DEF Sound
        <5> QED
          BY <1>6, <2>1, <2>2, <3>1, <4>1, <5>1 DEF CheckIsSound, Stages
    <3>2. CASE b # c \/ k # l
      <4>1. /\ result'[<<b, k>>] = result[<<b, k>>] /\ stage'[<<b, k>>] = stage[<<b, k>>]
            /\ via'[<<b, k>>] = via[<<b, k>>]
        BY <1>6, <1>a, <2>2, <3>2 DEF ResultTypes, Jobs
      <4>2. Sound(result[<<b, k>>], k, began[b])'
        BY <1>6, <1>a, <1>f, <4>1 DEF ChecksAreSound, CheckIsSound, Sound
      <4> QED
        BY <1>6, <1>a, <4>1, <4>2 DEF ChecksAreSound, CheckIsSound, IsLed
    <3> QED
      BY <3>1, <3>2
  <2> QED
    BY <2>3, <2>4, <2>5 DEF ResultsInv, ChecksAreSound
<1>7. ASSUME NEW c \in Checks, NEW l \in Links, Job(<<c, l>>) PROVE ResultsInv'
  <2> DEFINE j == <<c, l>>
  <2>a. /\ began[c] \in Nat /\ time \in Nat /\ began[c] <= time
        /\ j \in Jobs /\ via \in [Jobs -> Seq(Links)]
        /\ stage[j] = "head" => IsLed(c, l)
    BY <1>a DEF ResultTypes, ChecksAreSound, CheckIsSound, Jobs
  <2> DEFINE Elsewhere == UNCHANGED <<phase, links, follows, todo, began, time>>
  <2>b. ASSUME NEW s \in {"token", "slot", "head", "release", "done"},
               stage[j] \in {"get", "token", "slot", "head", "release"},
               stage' = [stage EXCEPT ![j] = s], Elsewhere, result' = result, cache' = cache,
               s \in {"token", "slot", "head"} \/ stage[j] = "release",
               via' \in [Jobs -> Seq(Links)], \A i \in Jobs \ {j} : via'[i] = via[i],
               s = "head" => IsLed(c, l)'
        PROVE  ResultsInv'
    BY <1>6, <2>b DEF Stages
  <2>c. ASSUME NEW s \in {"release", "done"}, stage[j] \in {"token", "slot", "head"},
               stage' = [stage EXCEPT ![j] = s], Elsewhere, NEW r \in Results, r # NoResult,
               Sound(r, l, began[c]), Sound(r, l, time), result' = [result EXCEPT ![j] = r],
               cache' = cache \/ cache' = [cache EXCEPT ![l] = r],
               via' \in [Jobs -> Seq(Links)], \A i \in Jobs \ {j} : via'[i] = via[i]
        PROVE  ResultsInv'
    BY <1>6, <2>c DEF Stages
  <2> USE DEF checkVars, Step, Outcomes
  <2>1. CASE GetState(j)
    BY <2>1, <2>a, <2>b DEF GetState
  <2>2. CASE TakeToken(j)
    BY <2>2, <2>a, <2>b DEF TakeToken
  <2>3. CASE TakeSlot(j)
    <3>1. /\ via' \in [Jobs -> Seq(Links)] /\ \A i \in Jobs \ {j} : via'[i] = via[i]
          /\ via'[j] = <<l>>
      <4>1. via' = [via EXCEPT ![j] = <<l>>]
        BY <2>3 DEF TakeSlot
      <4>2. <<l>> \in Seq(Links)
        OBVIOUS
      <4> HIDE DEF j
      <4> QED
        BY <2>a, <4>1, <4>2
    <3>2. IsLed(c, l)'
      BY <3>1, LimitsAssumption DEF IsLed, LedFrom
    <3> QED
      BY <2>3, <2>b, <3>1, <3>2 DEF TakeSlot
  <2>4. CASE GiveUp(j)
    <3> DEFINE r == [outcome |-> "cancelled", at |-> time, from |-> l]
    <3>1. l \in Origins(l)
      BY ReachHasTheLink DEF Origins
    <3>2. r \in Results /\ r # NoResult /\ Sound(r, l, began[c]) /\ Sound(r, l, time)
      <4>1. "cancelled" \in Outcomes
        OBVIOUS
      <4> QED
        BY <2>a, <3>1, <4>1, NewIsSound
    <3>3. result' = [result EXCEPT ![j] = r]
      BY <2>4 DEF GiveUp
    <3> HIDE DEF r
    <3> QED
      BY <2>4, <2>a, <2>c, <3>2, <3>3 DEF GiveUp
  <2>5. CASE Redirect(j)
    <3>1. PICK k \in Targets[Here(j)] : via' = [via EXCEPT ![j] = Append(@, k)]
      BY <2>5 DEF Redirect
    <3>2. IsLed(c, l) /\ Here(j) \in Links
      <4>1. IsLed(c, l)
        BY <2>5, <2>a DEF Redirect
      <4> QED
        BY <1>a, <4>1, LedIsAnOrigin
    <3>3. k \in Links
      BY <3>1, <3>2, TargetsAssumption
    <3>4. /\ via' \in [Jobs -> Seq(Links)] /\ \A i \in Jobs \ {j} : via'[i] = via[i]
          /\ via'[j] = Append(via[j], k)
      <4>1. Append(via[j], k) \in Seq(Links)
        BY <2>a, <3>3
      <4> HIDE DEF j
      <4> QED
        BY <2>a, <3>1, <4>1
    <3>5. LedFrom(l, Append(via[j], k))
      <4> DEFINE v == via[j]
      <4>1. v \in Seq(Links) /\ Len(v) \in 1..(MaxRequests - 1)
        BY <2>5, <2>a, <3>2, LimitsAssumption DEF Redirect, IsLed, LedFrom
      <4>2. /\ v[1] = l /\ k \in Targets[v[Len(v)]]
            /\ \A i \in 1..(Len(v) - 1) : v[i + 1] \in Targets[v[i]]
        BY <3>1, <3>2 DEF IsLed, LedFrom, Here
      <4> HIDE DEF v
      <4>3. /\ Len(Append(v, k)) = Len(v) + 1 /\ Append(v, k)[Len(v) + 1] = k
            /\ \A i \in 1..Len(v) : Append(v, k)[i] = v[i]
        BY <3>3, <4>1
      <4>4. ASSUME NEW i \in 1..Len(v) PROVE Append(v, k)[i + 1] \in Targets[Append(v, k)[i]]
        <5>1. CASE i = Len(v)
          BY <4>1, <4>2, <4>3, <5>1
        <5>2. CASE i # Len(v)
          <6>1. i \in 1..(Len(v) - 1) /\ i + 1 \in 1..Len(v)
            BY <4>1, <5>2
          <6> QED
            BY <4>2, <4>3, <6>1
        <5> QED
          BY <5>1, <5>2
      <4>5. LedFrom(l, Append(v, k))
        BY <4>1, <4>2, <4>3, <4>4, LimitsAssumption DEF LedFrom
      <4> QED
        BY <4>5 DEF v
    <3>6. IsLed(c, l)'
      BY <2>5, <3>4, <3>5 DEF Redirect, IsLed
    <3>7. stage' = [stage EXCEPT ![j] = "head"]
      BY <1>a, <2>5 DEF Redirect, ResultTypes
    <3> QED
      BY <2>5, <2>b, <3>4, <3>6, <3>7 DEF Redirect
  <2>6. CASE DoHead(j)
    <3>1. PICK outcome \in HeadOutcomes(j) :
             /\ result' = [result EXCEPT ![j] = [outcome |-> outcome, at |-> time, from |-> Here(j)]]
             /\ cache' = [cache EXCEPT ![l] = [outcome |-> outcome, at |-> time, from |-> Here(j)]]
      BY <2>6 DEF DoHead
    <3>2. outcome \in Outcomes /\ (outcome # "cancelled" => (outcome = "blocked" <=> Blocked(Here(j))))
      BY DEF HeadOutcomes
    <3>3. Here(j) \in Links /\ Here(j) \in Origins(l)
      <4>1. IsLed(c, l)
        BY <2>6, <2>a DEF DoHead
      <4> QED
        BY <1>a, <4>1, LedIsAnOrigin
    <3> DEFINE r == [outcome |-> outcome, at |-> time, from |-> Here(j)]
    <3>4. r \in Results /\ r # NoResult /\ Sound(r, l, began[c]) /\ Sound(r, l, time)
      BY <2>a, <3>2, <3>3, NewIsSound
    <3>5. result' = [result EXCEPT ![j] = r] /\ cache' = [cache EXCEPT ![l] = r]
      BY <3>1
    <3> HIDE DEF r
    <3>6. via' \in [Jobs -> Seq(Links)] /\ \A i \in Jobs \ {j} : via'[i] = via[i]
      BY <2>6, <2>a DEF DoHead
    <3> QED
      BY <2>6, <2>c, <3>4, <3>5, <3>6 DEF DoHead
  <2>7. CASE Release(j)
    BY <2>7, <2>a, <2>b DEF Release
  <2> QED
    BY <1>7, <2>1, <2>2, <2>3, <2>4, <2>5, <2>6, <2>7 DEF Job
<1>8. CASE UNCHANGED linkVars
  BY <1>0, <1>8 DEF linkVars, checkVars, jobVars
<1> QED
  BY <1>1, <1>2, <1>3, <1>4, <1>5, <1>7, <1>8 DEF LinkNext, LinkStep
----------------------------------------------------------------------------
(* The limits of link checks                                               *)

Holding(j) == stage[j] \in {"token", "slot", "head", "release"}
DomainOfJob(j) == DomainOf[j[2]]

\* The jobs that have a slot of s, those that have a token of d and no slot yet, and the
\* tokens that d has left.
Flying(s) == {j \in Jobs : stage[j] \in {"head", "release"} /\ holds[j] = s}
Paid(d) == {j \in Jobs : stage[j] = "slot" /\ DomainOfJob(j) = d}
Left(d) == IF registry[d] = NoState THEN Burst ELSE tokens[registry[d]]

LimitTypes ==
    /\ stage \in [Jobs -> Stages]
    /\ holds \in [Jobs -> States \union {NoState}]
    /\ registry \in [Domains -> States \union {NoState}]
    /\ tokens \in [States -> Nat]
    /\ busy \in [States -> Nat]
    /\ time \in Nat
    /\ heads \in [Domains -> Nat]

\* A job holds a state, which is its domain's as long as that was not dropped under it.
HoldsItsOwn(j) ==
    Holding(j) => /\ holds[j] \in States
                  /\ DomainOfJob(j) \notin unspared => holds[j] = registry[DomainOfJob(j)]
SlotsAreCounted(s) == busy[s] = Cardinality(Flying(s)) /\ busy[s] <= Concurrency
TokensAreCounted(d) ==
    d \notin unspared => heads[d] + Cardinality(Paid(d)) + Left(d) <= Burst + time

\* The inductive invariant of LinkCheck's limits.
LimitInv ==
    /\ LimitTypes
    /\ \A j \in Jobs : HoldsItsOwn(j)
    /\ \A s \in States : SlotsAreCounted(s)
    /\ \A d \in Domains : TokensAreCounted(d)

LEMMA JobsAreFinite ==
    /\ IsFiniteSet(Jobs)
    /\ \A S \in SUBSET Jobs : IsFiniteSet(S) /\ Cardinality(S) \in Nat
<1>1. IsFiniteSet(Jobs)
  BY ChecksAssumption, FS_Product DEF Jobs
<1>2. ASSUME NEW S \in SUBSET Jobs PROVE IsFiniteSet(S) /\ Cardinality(S) \in Nat
  <2>1. IsFiniteSet(S)
    BY <1>1, FS_Subset
  <2> QED
    BY <2>1, FS_CardinalityType
<1> QED
  BY <1>1, <1>2

\* What one element more or less does to a set of jobs.
LEMMA JobsCount ==
    ASSUME NEW S \in SUBSET Jobs, NEW j \in Jobs
    PROVE  /\ j \notin S => Cardinality(S \union {j}) = Cardinality(S) + 1
           /\ j \in S => Cardinality(S \ {j}) = Cardinality(S) - 1
           /\ Cardinality(S \ {j}) <= Cardinality(S)
<1>1. IsFiniteSet(S) /\ Cardinality(S) \in Nat
  BY JobsAreFinite
<1>2. Cardinality(S \union {j}) = IF j \in S THEN Cardinality(S) ELSE Cardinality(S) + 1
  BY <1>1, FS_AddElement
<1>3. Cardinality(S \ {j}) = IF j \in S THEN Cardinality(S) - 1 ELSE Cardinality(S)
  BY <1>1, FS_RemoveElement
<1> QED
  BY <1>1, <1>2, <1>3

LEMMA LimitInitInv == LinkInit => LimitInv
<1> SUFFICES ASSUME LinkInit PROVE LimitInv
  OBVIOUS
<1>1. LimitTypes
  BY LimitsAssumption DEF LinkInit, LimitTypes, Stages
<1>2. \A j \in Jobs : stage[j] = "none"
  BY DEF LinkInit
<1>3. \A j \in Jobs : HoldsItsOwn(j)
  BY <1>2 DEF HoldsItsOwn, Holding
<1>4. \A s \in States : Flying(s) = {}
  BY <1>2 DEF Flying
<1>5. \A d \in Domains : Paid(d) = {}
  BY <1>2 DEF Paid
<1>6. Cardinality({}) = 0
  BY FS_EmptySet
<1>7. ASSUME NEW s \in States PROVE SlotsAreCounted(s)
  <2>1. busy[s] = 0 /\ Cardinality(Flying(s)) = 0
    BY <1>4, <1>6 DEF LinkInit
  <2> QED
    BY <2>1, LimitsAssumption DEF SlotsAreCounted
<1>8. ASSUME NEW d \in Domains PROVE TokensAreCounted(d)
  <2>1. heads[d] = 0 /\ Cardinality(Paid(d)) = 0 /\ Left(d) = Burst /\ time = 0
    BY <1>5, <1>6 DEF LinkInit, Left
  <2> QED
    BY <2>1, LimitsAssumption DEF TokensAreCounted
<1> QED
  BY <1>1, <1>3, <1>7, <1>8 DEF LimitInv

LEMMA LimitsSpare == LimitInv => DomainsAreSpared
<1> SUFFICES ASSUME LimitInv, NEW d \in Domains \ unspared
             PROVE  Cardinality(InFlight(d)) <= Concurrency /\ heads[d] <= Burst + time
  BY DEF DomainsAreSpared
<1>1. Cardinality(InFlight(d)) <= Concurrency
  <2>1. CASE InFlight(d) = {}
    <3>1. Cardinality(InFlight(d)) = 0
      BY <2>1, FS_EmptySet
    <3> QED
      BY <3>1, LimitsAssumption
  <2>2. CASE InFlight(d) # {}
    <3>1. registry[d] \in States /\ InFlight(d) \subseteq Flying(registry[d])
      BY <2>2 DEF LimitInv, InFlight, Flying, HoldsItsOwn, Holding, DomainOfJob
    <3>2. IsFiniteSet(Flying(registry[d])) /\ IsFiniteSet(InFlight(d))
      BY JobsAreFinite DEF Flying, InFlight
    <3>3. Cardinality(InFlight(d)) <= Cardinality(Flying(registry[d]))
      BY <3>1, <3>2, FS_Subset
    <3>4. Cardinality(Flying(registry[d])) <= Concurrency
      BY <3>1 DEF LimitInv, SlotsAreCounted
    <3>5. Cardinality(InFlight(d)) \in Nat /\ Cardinality(Flying(registry[d])) \in Nat
      BY <3>2, FS_CardinalityType
    <3> QED
      BY <3>3, <3>4, <3>5, LimitsAssumption
  <2> QED
    BY <2>1, <2>2
<1>2. heads[d] <= Burst + time
  <2>1. Cardinality(Paid(d)) \in Nat
    BY JobsAreFinite DEF Paid
  <2>2. Left(d) \in Nat
    BY LimitsAssumption DEF LimitInv, LimitTypes, Left
  <2>3. heads[d] \in Nat /\ time \in Nat /\ Burst \in Nat
    BY LimitsAssumption DEF LimitInv, LimitTypes
  <2> QED
    BY <2>1, <2>2, <2>3 DEF LimitInv, TokensAreCounted
<1> QED
  BY <1>1, <1>2

\* A step that leaves the limits alone.
LEMMA LimitFrame ==
    LimitInv /\ UNCHANGED <<stage, holds, registry, unspared, tokens, busy, time, heads>>
        => LimitInv'
<1> SUFFICES ASSUME LimitInv,
                    UNCHANGED <<stage, holds, registry, unspared, tokens, busy, time, heads>>
             PROVE  LimitInv'
  OBVIOUS
<1>1. LimitTypes'
  BY DEF LimitInv, LimitTypes
<1>2. ASSUME NEW j \in Jobs PROVE HoldsItsOwn(j)'
  BY DEF LimitInv, HoldsItsOwn, Holding, DomainOfJob
<1>3. ASSUME NEW s \in States PROVE SlotsAreCounted(s)'
  BY DEF LimitInv, SlotsAreCounted, Flying
<1>4. ASSUME NEW d \in Domains PROVE TokensAreCounted(d)'
  BY DEF LimitInv, TokensAreCounted, Paid, Left, DomainOfJob
<1> QED
  BY <1>1, <1>2, <1>3, <1>4 DEF LimitInv

LEMMA LimitNumbers ==
    ASSUME LimitTypes
    PROVE  /\ \A d \in Domains : /\ heads[d] \in Nat /\ Cardinality(Paid(d)) \in Nat
                                 /\ Left(d) \in Nat
           /\ \A s \in States : Cardinality(Flying(s)) \in Nat
           /\ Burst \in Nat /\ Concurrency \in Nat /\ time \in Nat
<1>1. \A d \in Domains : Cardinality(Paid(d)) \in Nat
  BY JobsAreFinite DEF Paid
<1>2. \A s \in States : Cardinality(Flying(s)) \in Nat
  BY JobsAreFinite DEF Flying
<1>3. \A d \in Domains : heads[d] \in Nat /\ Left(d) \in Nat
  BY LimitsAssumption DEF LimitTypes, Left
<1> QED
  BY <1>1, <1>2, <1>3, LimitsAssumption DEF LimitTypes

LEMMA LimitTick == LimitInv /\ Tick => LimitInv'
<1> SUFFICES ASSUME LimitInv, Tick PROVE LimitInv'
  OBVIOUS
<1> USE DEF checkVars, jobVars, registryVars, headVars
<1>1. LimitTypes'
  BY LimitsAssumption DEF LimitInv, Tick, LimitTypes
<1>2. ASSUME NEW j \in Jobs PROVE HoldsItsOwn(j)'
  BY DEF LimitInv, Tick, HoldsItsOwn, Holding, DomainOfJob
<1>3. ASSUME NEW s \in States PROVE SlotsAreCounted(s)'
  BY DEF LimitInv, Tick, SlotsAreCounted, Flying
<1>4. ASSUME NEW d \in Domains PROVE TokensAreCounted(d)'
  <2>1. Paid(d)' = Paid(d) /\ heads'[d] = heads[d] /\ unspared' = unspared
    BY DEF Tick, Paid, DomainOfJob
  <2>2. Left(d)' <= Left(d) + 1
    BY LimitsAssumption DEF LimitInv, LimitTypes, Tick, Left
  <2>3. time' = time + 1
    BY DEF Tick
  <2>4. /\ heads[d] \in Nat /\ Cardinality(Paid(d)) \in Nat /\ Left(d) \in Nat
        /\ Burst \in Nat /\ time \in Nat
    BY LimitNumbers DEF LimitInv
  <2>5. Left(d)' \in Nat
    BY <1>1, LimitsAssumption DEF LimitTypes, Left
  <2>6. TokensAreCounted(d)
    BY DEF LimitInv
  <2> QED
    BY <2>1, <2>2, <2>3, <2>4, <2>5, <2>6 DEF TokensAreCounted
<1> QED
  BY <1>1, <1>2, <1>3, <1>4 DEF LimitInv

\* What a domain keeps when another state is dropped, and when it is dropped itself.
LEMMA LimitGetState == ASSUME NEW j \in Jobs PROVE LimitInv /\ GetState(j) => LimitInv'
<1> SUFFICES ASSUME LimitInv, GetState(j) PROVE LimitInv'
  OBVIOUS
<1> USE DEF checkVars, headVars
<1> DEFINE d == DomainOfJob(j)
<1>1. /\ stage[j] = "get" /\ stage' = [stage EXCEPT ![j] = "token"] /\ d \in Domains
      /\ heads' = heads /\ time' = time
      /\ LimitTypes /\ \A k \in Jobs : HoldsItsOwn(k)
  BY DomainOfAssumption DEF LimitInv, GetState, Step, DomainOfJob, Jobs
<1>2. PICK s \in States : holds' = [holds EXCEPT ![j] = s]
  BY <1>1 DEF GetState, LimitTypes, DomainOfJob, Free
<1>3. \A k \in Jobs \ {j} : stage'[k] = stage[k] /\ holds'[k] = holds[k]
  BY <1>1, <1>2 DEF LimitTypes
<1>4. stage'[j] = "token" /\ holds'[j] = s
  BY <1>1, <1>2 DEF LimitTypes
<1>5. ASSUME NEW t \in States PROVE Flying(t)' = Flying(t)
  BY <1>1, <1>3, <1>4 DEF Flying
<1>6. ASSUME NEW e \in Domains PROVE Paid(e)' = Paid(e)
  BY <1>1, <1>3, <1>4 DEF Paid, DomainOfJob
<1>7. CASE registry[d] # NoState
  <2>1. UNCHANGED <<registry, tokens, busy, unspared>> /\ s = registry[d]
    BY <1>1, <1>2, <1>4, <1>7 DEF GetState, DomainOfJob, LimitTypes
  <2>2. LimitTypes'
    BY <1>1, <1>2, <2>1 DEF LimitTypes, Stages
  <2>3. ASSUME NEW k \in Jobs PROVE HoldsItsOwn(k)'
    BY <1>1, <1>3, <1>4, <2>1 DEF HoldsItsOwn, Holding, DomainOfJob
  <2>4. ASSUME NEW t \in States PROVE SlotsAreCounted(t)'
    BY <1>5, <2>1 DEF LimitInv, SlotsAreCounted
  <2>5. ASSUME NEW e \in Domains PROVE TokensAreCounted(e)'
    BY <1>1, <1>6, <2>1 DEF LimitInv, TokensAreCounted, Left
  <2> QED
    BY <2>2, <2>3, <2>4, <2>5 DEF LimitInv
<1>8. CASE registry[d] = NoState
  <2>1. s \in Free /\ Register(d, s)
    BY <1>1, <1>2, <1>4, <1>8 DEF GetState, DomainOfJob, LimitTypes
  <2> DEFINE victims == IF Len(lru) >= RegistryCap THEN Victim ELSE {}
  <2>2. /\ registry' = [e \in Domains |-> IF e = d THEN s
                                          ELSE IF e \in victims THEN NoState ELSE registry[e]]
        /\ tokens' = [tokens EXCEPT ![s] = Burst]
        /\ busy' = [busy EXCEPT ![s] = 0]
        /\ unspared' = unspared \union {v \in victims : Excused(v)}
    BY <2>1 DEF Register
  \* What is dropped without excuse has a full bucket.
  <2>3. ASSUME NEW v \in victims, ~Excused(v)
        PROVE  ~Held(registry[v]) /\ Full(v)
    BY <2>3 DEF Excused, Victim
  <2> HIDE DEF d, victims
  <2>4. LimitTypes'
    BY <1>1, <1>2, <2>2, LimitsAssumption DEF LimitTypes, Stages
  <2>5. ASSUME NEW k \in Jobs PROVE HoldsItsOwn(k)'
    <3>1. CASE k = j
      BY <1>1, <1>4, <2>2, <3>1 DEF HoldsItsOwn, d
    <3>2. CASE k # j
      <4> DEFINE e == DomainOf[k[2]]
      <4> SUFFICES ASSUME Holding(k), e \notin unspared'
                   PROVE  holds[k] \in States /\ holds[k] = registry'[e]
        BY <1>1, <1>3, <3>2 DEF HoldsItsOwn, Holding, DomainOfJob
      <4>1. /\ e \in Domains /\ e \notin unspared /\ holds[k] \in States
            /\ holds[k] = registry[e]
        BY <1>1, <2>2, DomainOfAssumption DEF HoldsItsOwn, DomainOfJob, Jobs
      <4>2. Held(registry[e])
        BY <4>1 DEF Held
      <4>3. e \notin victims
        BY <2>2, <2>3, <4>2
      <4>4. e # d
        BY <4>1, <1>8, StatesAssumption
      <4> HIDE DEF e
      <4> QED
        BY <2>2, <4>1, <4>3, <4>4
    <3> QED
      BY <3>1, <3>2
  <2>6. ASSUME NEW t \in States PROVE SlotsAreCounted(t)'
    <3>1. CASE t = s
      <4>1. Flying(t) = {}
        BY <2>1, <3>1 DEF Free, Held, Flying
      <4>2. Cardinality(Flying(t)') = 0 /\ busy'[t] = 0
        <5>1. Flying(t)' = {}
          BY <1>5, <4>1
        <5>2. Cardinality(Flying(t)') = 0
          BY <5>1, FS_EmptySet
        <5>3. busy'[t] = 0
          BY <1>1, <2>2, <3>1 DEF LimitTypes
        <5> QED
          BY <5>2, <5>3
      <4> QED
        BY <4>2, LimitsAssumption DEF SlotsAreCounted
    <3>2. CASE t # s
      <4>1. busy'[t] = busy[t]
        BY <1>1, <2>2, <3>2 DEF LimitTypes
      <4> QED
        BY <1>5, <4>1 DEF LimitInv, SlotsAreCounted
    <3> QED
      BY <3>1, <3>2
  <2>7. ASSUME NEW e \in Domains PROVE TokensAreCounted(e)'
    <3> SUFFICES ASSUME e \notin unspared'
                 PROVE  heads[e] + Cardinality(Paid(e)) + Left(e)' <= Burst + time
      BY <1>1, <1>6 DEF TokensAreCounted
    <3>1. heads[e] + Cardinality(Paid(e)) + Left(e) <= Burst + time
      BY <2>2 DEF LimitInv, TokensAreCounted
    <3>2. /\ heads[e] \in Nat /\ Cardinality(Paid(e)) \in Nat /\ Left(e) \in Nat
          /\ Burst \in Nat /\ time \in Nat
      BY <1>1, LimitNumbers
    <3>3. Left(e)' <= Left(e) /\ Left(e)' \in Nat
      <4>1. CASE e = d
        <5>1. registry'[e] = s /\ tokens'[s] = Burst /\ s # NoState
          BY <1>1, <2>2, <4>1, StatesAssumption DEF LimitTypes
        <5> QED
          BY <3>2, <4>1, <5>1, <1>8 DEF Left
      <4>2. CASE e # d /\ e \in victims
        <5>1. registry'[e] = NoState /\ Full(e)
          BY <2>2, <2>3, <4>2
        <5> QED
          BY <1>1, <3>2, <5>1 DEF Left, Full, LimitTypes
      <4>3. CASE e # d /\ e \notin victims
        <5>1. registry'[e] = registry[e] /\ (registry[e] # NoState => registry[e] # s)
          BY <2>1, <2>2, <4>3 DEF Free, InRegistry
        <5>2. registry[e] # NoState => tokens'[registry[e]] = tokens[registry[e]]
          BY <1>1, <2>2, <5>1 DEF LimitTypes
        <5> QED
          BY <3>2, <5>1, <5>2 DEF Left
      <4> QED
        BY <4>1, <4>2, <4>3
    <3> QED
      BY <3>1, <3>2, <3>3
  <2> QED
    BY <2>4, <2>5, <2>6, <2>7 DEF LimitInv
<1> QED
  BY <1>7, <1>8

\* A job that goes on: what its own step says of the numbers is left to the caller.
LEMMA LimitJob ==
    ASSUME LimitInv, NEW j \in Jobs, NEW s \in Stages \ {"get", "token"},
           stage' = [stage EXCEPT ![j] = s], Holding(j),
           \/ s \in {"slot", "head", "release"} /\ holds' = holds
           \/ s \in {"none", "done"} /\ holds' = [holds EXCEPT ![j] = NoState],
           UNCHANGED <<registry, unspared, time>>,
           tokens' \in [States -> Nat], busy' \in [States -> Nat], heads' \in [Domains -> Nat],
           \A t \in States : SlotsAreCounted(t)', \A d \in Domains : TokensAreCounted(d)'
    PROVE  LimitInv'
<1>1. LimitTypes'
  BY DEF LimitInv, LimitTypes, Stages
<1>2. ASSUME NEW k \in Jobs PROVE HoldsItsOwn(k)'
  <2>1. CASE k = j
    BY <2>1 DEF LimitInv, LimitTypes, HoldsItsOwn, Holding, DomainOfJob
  <2>2. CASE k # j
    BY <2>2 DEF LimitInv, LimitTypes, HoldsItsOwn, Holding, DomainOfJob
  <2> QED
    BY <2>1, <2>2
<1> QED
  BY <1>1, <1>2 DEF LimitInv

LEMMA LimitTakeToken == ASSUME NEW j \in Jobs PROVE LimitInv /\ TakeToken(j) => LimitInv'
<1> SUFFICES ASSUME LimitInv, TakeToken(j) PROVE LimitInv'
  OBVIOUS
<1> DEFINE s == holds[j]
<1>1. /\ LimitTypes /\ stage[j] = "token" /\ stage' = [stage EXCEPT ![j] = "slot"] /\ Holding(j)
      /\ s \in States /\ tokens[s] >= 1 /\ tokens[s] \in Nat
      /\ tokens' = [tokens EXCEPT ![s] = @ - 1]
      /\ DomainOfJob(j) \notin unspared => s = registry[DomainOfJob(j)]
      /\ UNCHANGED <<holds, registry, unspared, busy, heads, time>>
  BY DEF LimitInv, LimitTypes, TakeToken, Step, Holding, HoldsItsOwn, registryVars, headVars
<1> HIDE DEF s
<1>2. /\ \A k \in Jobs \ {j} : stage'[k] = stage[k]
      /\ stage'[j] = "slot"
  BY <1>1 DEF LimitTypes
<1>3. tokens' \in [States -> Nat]
  BY <1>1 DEF LimitTypes
<1>4. ASSUME NEW t \in States PROVE SlotsAreCounted(t)'
  <2>1. Flying(t)' = Flying(t)
    BY <1>1, <1>2 DEF Flying
  <2> QED
    BY <1>1, <2>1 DEF LimitInv, SlotsAreCounted
<1>5. ASSUME NEW d \in Domains PROVE TokensAreCounted(d)'
  <2> SUFFICES ASSUME d \notin unspared
               PROVE  heads[d] + Cardinality(Paid(d)') + Left(d)' <= Burst + time
    BY <1>1 DEF TokensAreCounted
  <2>1. heads[d] + Cardinality(Paid(d)) + Left(d) <= Burst + time
    BY DEF LimitInv, TokensAreCounted
  <2>2. /\ heads[d] \in Nat /\ Cardinality(Paid(d)) \in Nat /\ Left(d) \in Nat
        /\ Burst \in Nat /\ time \in Nat
    BY <1>1, LimitNumbers
  <2>3. CASE d = DomainOfJob(j)
    <3>1. Paid(d)' = Paid(d) \union {j} /\ j \notin Paid(d)
      BY <1>1, <1>2, <2>3 DEF Paid, DomainOfJob
    <3>2. Cardinality(Paid(d)') = Cardinality(Paid(d)) + 1
      BY <3>1, JobsCount DEF Paid
    <3>3. Left(d)' = Left(d) - 1
      BY <1>1, <2>3, StatesAssumption DEF Left, LimitTypes
    <3> QED
      BY <2>1, <2>2, <3>2, <3>3
  <2>4. CASE d # DomainOfJob(j)
    <3>1. Paid(d)' = Paid(d)
      BY <1>1, <1>2, <2>4 DEF Paid, DomainOfJob
    <3>2. Left(d)' <= Left(d) /\ Left(d)' \in Nat
      <4>1. CASE registry[d] = s
        BY <1>1, <4>1, <2>2, StatesAssumption DEF Left, LimitTypes
      <4>2. CASE registry[d] # s
        BY <1>1, <4>2, <2>2 DEF Left, LimitTypes
      <4> QED
        BY <4>1, <4>2
    <3> QED
      BY <2>1, <2>2, <3>1, <3>2
  <2> QED
    BY <2>3, <2>4
<1> QED
  BY <1>1, <1>3, <1>4, <1>5, LimitJob DEF Stages, LimitTypes

LEMMA LimitTakeSlot == ASSUME NEW j \in Jobs PROVE LimitInv /\ TakeSlot(j) => LimitInv'
<1> SUFFICES ASSUME LimitInv, TakeSlot(j) PROVE LimitInv'
  OBVIOUS
<1> DEFINE s == holds[j]
<1> DEFINE e == DomainOfJob(j)
<1>1. /\ LimitTypes /\ stage[j] = "slot" /\ stage' = [stage EXCEPT ![j] = "head"] /\ Holding(j)
      /\ s \in States /\ busy[s] < Concurrency /\ busy' = [busy EXCEPT ![s] = @ + 1]
      /\ e \in Domains /\ heads' = [heads EXCEPT ![e] = @ + 1]
      /\ UNCHANGED <<holds, registry, unspared, tokens, time>>
  BY DomainOfAssumption
     DEF LimitInv, LimitTypes, TakeSlot, Step, Holding, HoldsItsOwn, registryVars, DomainOfJob, Jobs
<1>2. /\ \A k \in Jobs \ {j} : stage'[k] = stage[k]
      /\ stage'[j] = "head"
  BY <1>1 DEF LimitTypes
<1>3. busy' \in [States -> Nat] /\ heads' \in [Domains -> Nat]
  BY <1>1 DEF LimitTypes
<1>4. ASSUME NEW t \in States PROVE SlotsAreCounted(t)'
  <2>0. SlotsAreCounted(t)
    BY DEF LimitInv
  <2>1. CASE t = s
    <3>1. Flying(t)' = Flying(t) \union {j} /\ j \notin Flying(t)
      BY <1>1, <1>2, <2>1 DEF Flying
    <3>2. Cardinality(Flying(t)') = Cardinality(Flying(t)) + 1
      BY <3>1, JobsCount DEF Flying
    <3>3. busy'[t] = busy[t] + 1 /\ busy[t] < Concurrency /\ busy[t] \in Nat /\ Concurrency \in Nat
      BY <1>1, <2>1, LimitsAssumption DEF LimitTypes
    <3> QED
      BY <2>0, <3>2, <3>3 DEF SlotsAreCounted
  <2>2. CASE t # s
    <3>1. Flying(t)' = Flying(t) /\ busy'[t] = busy[t]
      BY <1>1, <1>2, <2>2 DEF Flying, LimitTypes
    <3> QED
      BY <2>0, <3>1 DEF SlotsAreCounted
  <2> QED
    BY <2>1, <2>2
<1> HIDE DEF e, s
<1>5. ASSUME NEW d \in Domains PROVE TokensAreCounted(d)'
  <2>1. TokensAreCounted(d) /\ Left(d)' = Left(d)
    BY <1>1 DEF LimitInv, Left
  <2>2. /\ heads[d] \in Nat /\ Cardinality(Paid(d)) \in Nat /\ Left(d) \in Nat
        /\ Burst \in Nat /\ time \in Nat
    BY <1>1, LimitNumbers
  <2>3. heads'[d] + Cardinality(Paid(d)') = heads[d] + Cardinality(Paid(d))
    <3>1. CASE d = e
      <4>1. Paid(d)' = Paid(d) \ {j} /\ j \in Paid(d)
        BY <1>1, <1>2, <3>1 DEF Paid, DomainOfJob, e
      <4>2. Cardinality(Paid(d)') = Cardinality(Paid(d)) - 1
        BY <4>1, JobsCount DEF Paid
      <4>3. heads'[d] = heads[d] + 1
        BY <1>1, <3>1 DEF LimitTypes
      <4> QED
        BY <2>2, <4>2, <4>3
    <3>2. CASE d # e
      <4>1. Paid(d)' = Paid(d) /\ heads'[d] = heads[d]
        BY <1>1, <1>2, <3>2 DEF Paid, DomainOfJob, e, LimitTypes
      <4> QED
        BY <4>1
    <3> QED
      BY <3>1, <3>2
  <2> QED
    BY <1>1, <2>1, <2>3 DEF TokensAreCounted
<1> QED
  BY <1>1, <1>3, <1>4, <1>5, LimitJob DEF Stages, LimitTypes

\* A job that ends, before it had a slot (GiveUp) or after (Release), or that has had its
\* answer (DoHead).
LEMMA LimitLeave ==
    ASSUME NEW j \in Jobs
    PROVE  LimitInv /\ (GiveUp(j) \/ DoHead(j) \/ Release(j)) => LimitInv'
<1> SUFFICES ASSUME LimitInv, GiveUp(j) \/ DoHead(j) \/ Release(j) PROVE LimitInv'
  OBVIOUS
<1> DEFINE s == holds[j]
<1>1. PICK next \in {"release", "done"} :
        /\ LimitTypes /\ Holding(j) /\ stage' = [stage EXCEPT ![j] = next]
        /\ \/ stage[j] \in {"token", "slot"} /\ next = "done" /\ busy' = busy
           \/ stage[j] = "head" /\ next = "release" /\ busy' = busy
           \/ stage[j] = "release" /\ next = "done" /\ busy' = [busy EXCEPT ![s] = @ - 1]
        /\ holds' = IF next = "done" THEN [holds EXCEPT ![j] = NoState] ELSE holds
        /\ s \in States
        /\ UNCHANGED <<registry, unspared, tokens, heads, time>>
  <2>1. CASE GiveUp(j)
    BY <2>1 DEF LimitInv, LimitTypes, GiveUp, Step, Holding, HoldsItsOwn, registryVars, headVars
  <2>2. CASE DoHead(j)
    BY <2>2 DEF LimitInv, LimitTypes, DoHead, Step, Holding, HoldsItsOwn, registryVars, headVars
  <2>3. CASE Release(j)
    BY <2>3 DEF LimitInv, LimitTypes, Release, Step, Holding, HoldsItsOwn, registryVars, headVars
  <2> QED
    BY <2>1, <2>2, <2>3
<1> HIDE DEF s
<1>2. /\ \A k \in Jobs \ {j} : stage'[k] = stage[k] /\ holds'[k] = holds[k]
      /\ stage'[j] = next /\ (next = "release" => holds'[j] = holds[j])
  BY <1>1 DEF LimitTypes
<1>3. ASSUME NEW t \in States PROVE SlotsAreCounted(t)' /\ busy'[t] \in Nat
  <2>0. /\ SlotsAreCounted(t) /\ busy[t] \in Nat /\ Concurrency \in Nat
        /\ Cardinality(Flying(t)) \in Nat
    BY <1>1, LimitNumbers DEF LimitInv, LimitTypes
  <2>1. CASE t = s /\ stage[j] = "release"
    <3>1. Flying(t)' = Flying(t) \ {j} /\ j \in Flying(t)
      BY <1>1, <1>2, <2>1 DEF Flying, s
    <3>2. /\ Cardinality(Flying(t)') = Cardinality(Flying(t)) - 1
          /\ Cardinality(Flying(t)') \in Nat
      <4>1. Flying(t)' \in SUBSET Jobs
        BY DEF Flying
      <4> QED
        BY <3>1, <4>1, JobsCount, JobsAreFinite DEF Flying
    <3>3. busy'[t] = busy[t] - 1
      BY <1>1, <2>1 DEF LimitTypes
    <3> QED
      BY <2>0, <3>2, <3>3 DEF SlotsAreCounted
  <2>2. CASE t # s \/ stage[j] # "release"
    <3>1. Flying(t)' = Flying(t)
      BY <1>1, <1>2, <2>2 DEF Flying, s
    <3>2. busy'[t] = busy[t]
      BY <1>1, <2>2 DEF LimitTypes
    <3> QED
      BY <2>0, <3>1, <3>2 DEF SlotsAreCounted
  <2> QED
    BY <2>1, <2>2
<1>4. busy' \in [States -> Nat]
  <2>1. busy' \in [States -> Int]
    BY <1>1 DEF LimitTypes
  <2> QED
    BY <1>3, <2>1
<1>5. ASSUME NEW d \in Domains PROVE TokensAreCounted(d)'
  <2>1. TokensAreCounted(d) /\ Left(d)' = Left(d)
    BY <1>1 DEF LimitInv, Left
  <2>2. /\ heads[d] \in Nat /\ Cardinality(Paid(d)) \in Nat /\ Left(d) \in Nat
        /\ Burst \in Nat /\ time \in Nat
    BY <1>1, LimitNumbers
  <2>3. Paid(d)' = Paid(d) \ {j}
    BY <1>1, <1>2 DEF Paid, DomainOfJob
  <2>4. Cardinality(Paid(d)') <= Cardinality(Paid(d)) /\ Cardinality(Paid(d)') \in Nat
    <3>1. Paid(d)' \in SUBSET Jobs
      BY DEF Paid
    <3> QED
      BY <2>3, <3>1, JobsCount, JobsAreFinite DEF Paid
  <2> QED
    BY <1>1, <2>1, <2>2, <2>4 DEF TokensAreCounted
<1> QED
  BY <1>1, <1>3, <1>4, <1>5, LimitJob DEF Stages, LimitTypes

\* The loop begins a goroutine once for each link: the job is not under way.
LEMMA LimitLook ==
    ASSUME NEW c \in Checks, NEW l \in Links
    PROVE  ResultsInv /\ LimitInv /\ Look(c, l) => LimitInv'
<1> SUFFICES ASSUME ResultsInv, LimitInv, Look(c, l) PROVE LimitInv'
  OBVIOUS
<1> DEFINE j == <<c, l>>
<1>0. j \in Jobs /\ stage[j] = "none"
  BY DEF Jobs, Look, ResultsInv, ChecksAreSound, CheckIsSound
<1>1. CASE stage' = stage
  BY <1>1, LimitFrame DEF Look, registryVars, headVars
<1>2. CASE stage' = [stage EXCEPT ![j] = "get"]
  <2>1. /\ \A k \in Jobs \ {j} : stage'[k] = stage[k]
        /\ stage'[j] = "get"
        /\ UNCHANGED <<holds, registry, unspared, tokens, busy, time, heads>>
    BY <1>0, <1>2 DEF LimitInv, LimitTypes, Look, registryVars, headVars
  <2> HIDE DEF j
  <2>2. LimitTypes'
    BY <1>2, <2>1 DEF LimitInv, LimitTypes, Stages
  <2>3. ASSUME NEW k \in Jobs PROVE HoldsItsOwn(k)'
    BY <1>0, <2>1 DEF LimitInv, HoldsItsOwn, Holding, DomainOfJob
  <2>4. ASSUME NEW s \in States PROVE SlotsAreCounted(s)'
    <3>1. Flying(s)' = Flying(s)
      BY <1>0, <2>1 DEF Flying
    <3> QED
      BY <2>1, <3>1 DEF LimitInv, SlotsAreCounted
  <2>5. ASSUME NEW d \in Domains PROVE TokensAreCounted(d)'
    <3>1. Paid(d)' = Paid(d)
      BY <1>0, <2>1 DEF Paid, DomainOfJob
    <3> QED
      BY <2>1, <3>1 DEF LimitInv, TokensAreCounted, Left
  <2> QED
    BY <2>2, <2>3, <2>4, <2>5 DEF LimitInv
<1> QED
  BY <1>1, <1>2 DEF Look

\* A redirect leaves all limits alone, those of the domain it goes to too.
LEMMA LimitRedirect == ASSUME NEW j \in Jobs PROVE LimitInv /\ Redirect(j) => LimitInv'
BY LimitFrame DEF Redirect, registryVars

LEMMA LimitStep == ResultsInv /\ LimitInv /\ LinkNext => LimitInv'
<1> SUFFICES ASSUME ResultsInv, LimitInv, LinkNext PROVE LimitInv'
  OBVIOUS
<1>1. ASSUME NEW c \in Checks, NEW found \in SUBSET Links, NEW follow \in BOOLEAN,
             StartCheck(c, found, follow)
      PROVE  LimitInv'
  BY <1>1, LimitFrame DEF StartCheck, jobVars, registryVars, headVars
<1>2. ASSUME NEW c \in Checks, AnswerCheck(c) \/ Abandon(c) PROVE LimitInv'
  BY <1>2, LimitFrame DEF AnswerCheck, Abandon, jobVars, registryVars, headVars
<1>3. ASSUME NEW c \in Checks, NEW l \in Links, Job(<<c, l>>) PROVE LimitInv'
  <2>1. <<c, l>> \in Jobs
    BY DEF Jobs
  <2> QED
    BY <1>3, <2>1, LimitGetState, LimitTakeToken, LimitTakeSlot, LimitLeave, LimitRedirect DEF Job
<1>4. CASE UNCHANGED linkVars
  BY <1>4, LimitFrame DEF linkVars, jobVars, registryVars, headVars
<1> QED
  BY <1>1, <1>2, <1>3, <1>4, LimitLook, LimitTick DEF LinkNext, LinkStep
----------------------------------------------------------------------------
(* The system                                                              *)

LEMMA StepsOfLinks == ProxyInv /\ Next => LinkNext
<1> SUFFICES ASSUME ProxyInv, Next PROVE LinkNext
  OBVIOUS
<1>1. ASSUME NEW c \in Checks, CheckLinks(c)
      PROVE  \E found \in SUBSET Links, follow \in BOOLEAN : StartCheck(c, found, follow)
  <2>1. PICK m \in present :
           \E found \in Collected(m) : \E follow \in BOOLEAN : StartCheck(c, found, follow)
    BY <1>1 DEF CheckLinks
  <2>2. Found[m] \subseteq Links
    BY FoundAssumption DEF ProxyInv, ProxyTypeOK
  <2>3. Collected(m) \subseteq SUBSET Links
    BY <2>2 DEF Collected
  <2> QED
    BY <2>1, <2>3
<1> QED
  BY <1>1 DEF Next, LinkNext, Rest, vars

LEMMA StepsOfProxy == Next => ProxyStep \/ UNCHANGED proxyVars
BY DEF Next, CheckLinks, Rest, vars

LEMMA StepsOfVersion == Next => VersionStep \/ UNCHANGED versionVars
BY DEF Next, CheckLinks, Rest, vars

\* The inductive invariant of Outbound.
OutboundInv == ProxyInv /\ VersionInv /\ ResultsInv /\ LimitInv

LEMMA OutboundInvHolds == Spec => []OutboundInv
<1>1. Init => OutboundInv
  BY ProxyInitInv, VersionInitInv, ResultsInitInv, LimitInitInv DEF Init, OutboundInv
<1>2. OutboundInv /\ [Next]_vars => OutboundInv'
  <2> SUFFICES ASSUME OutboundInv, [Next]_vars PROVE OutboundInv'
    OBVIOUS
  <2>1. ProxyInv' /\ VersionInv'
    BY ProxyStepInv, VersionStepInv, StepsOfProxy, StepsOfVersion DEF OutboundInv, vars
  <2>2. LinkNext
    BY StepsOfLinks DEF OutboundInv, vars, LinkNext
  <2> QED
    BY <2>1, <2>2, ResultsStep, LimitStep DEF OutboundInv
<1> QED
  BY <1>1, <1>2, PTL DEF Spec

\* proxy.go: whatever is deleted, expires or is asked at once, the proxy passes on only what
\* a message links or names, and refuses no link of a message.
THEOREM AssetsAreSafe == Spec => []AssetsAreExact
<1>1. OutboundInv => AssetsAreExact
  BY DEF OutboundInv, ProxyInv
<1> QED
  BY <1>1, OutboundInvHolds, PTL

\* stats.go: whatever requests come at once, lookups of the version are as far apart as
\* they are meant to be, as long as the Duration they wait for has not overflowed.
THEOREM LookupsKeepTheirDistance == Spec => []LookupsAreApart
<1>1. OutboundInv => LookupsAreApart
  BY DEF OutboundInv, VersionInv
<1> QED
  BY <1>1, OutboundInvHolds, PTL

\* status.go: an answer has a fresh result for every link, from the link's server or one its
\* redirects lead to, and blocked exactly when that server is, whatever the cache, the limits,
\* redirects, other checks and clients that leave do.
THEOREM AnswersStayFresh == Spec => []AnswersAreFresh
<1>1. OutboundInv => AnswersAreFresh
  BY ResultsAnswer DEF OutboundInv
<1> QED
  BY <1>1, OutboundInvHolds, PTL

\* throttle.go: no more links of a domain are tested at once, or in all, than its limits allow,
\* the requests aside that redirects from other links bring it, and with the exception of
\* domains whose state was evicted while it was needed.
THEOREM DomainsStaySpared == Spec => []DomainsAreSpared
<1>1. OutboundInv => DomainsAreSpared
  BY LimitsSpare DEF OutboundInv
<1> QED
  BY <1>1, OutboundInvHolds, PTL
=============================================================================
