------------------------------ MODULE LinkCheck ------------------------------
(***************************************************************************)
(* internal/linkcheck: checks of the links of messages, which share a      *)
(* registry of limits per domain and a cache of results.                   *)
(*                                                                         *)
(* A check is one request to the API, a job the goroutine of one of its    *)
(* links.  What takes a lock is one step: a look into the registry, into   *)
(* the cache, a change of either.  A state is a domainState, the object    *)
(* that a job keeps after it has got it, even when the registry has        *)
(* dropped it since.                                                       *)
(* Abstracted: a second is a Tick, by which each limiter gains one token;  *)
(* waiting for a token is not ordered; an answer of a server and a failure *)
(* are the same outcome, also that of too many redirects or of one to an   *)
(* invalid URL; an expired entry of the cache is no entry.                 *)
(* DisableLinkCheckRateLimit, which leaves out both the limits and the     *)
(* cache, is not set.                                                      *)
(***************************************************************************)
EXTENDS Naturals, Sequences, FiniteSets

CONSTANTS
    Checks,
    Links,              \* links that can be found in messages
    Domains,
    DomainOf,           \* registeredDomain
    InternalLinks,      \* links whose host resolves to a private or reserved address
    Targets,            \* per link: those its server may redirect to
    MaxRequests,        \* CheckRedirect refuses a redirect after three requests
    States, NoState,    \* objects for domainState; those that nobody holds are free
    Burst,              \* perDomainBurst: 100
    Concurrency,        \* perDomainConcurrency: 2
    RegistryCap,        \* limiterRegistryCap: 10000
    Ttl                 \* resultCacheTTL: 60 seconds

Jobs == Checks \X Links

ASSUME DomainOfAssumption == DomainOf \in [Links -> Domains] /\ InternalLinks \subseteq Links
ASSUME TargetsAssumption == Targets \in [Links -> SUBSET Links]
ASSUME StatesAssumption == NoState \notin States
ASSUME ChecksAssumption == IsFiniteSet(Checks) /\ IsFiniteSet(Links)
ASSUME LimitsAssumption ==
    {Burst, Concurrency, RegistryCap, MaxRequests} \subseteq Nat \ {0} /\ Ttl \in Nat

VARIABLES
    phase,      \* per check: where RunTests is
    links,      \* per check: the links it collected
    follows,    \* per check: followRedirects
    todo,       \* per check: those the loop of getHTTPStatuses has not come to
    began,      \* per check: when it looked at the first of them
    gone,       \* checks whose client has left
    stage,      \* per job: where its goroutine is
    holds,      \* per job: the state it got
    via,        \* per job: the links of doHead's requests so far, the last one under way
    result,     \* per job: results[idx]
    registry,   \* per domain: its state, if it is registered
    lru,        \* the registered domains, the most recently used first
    tokens, busy,   \* per state: tokens of its limiter, slots taken of its semaphore
    cache,      \* per link: the result kept for it
    time,       \* seconds
    heads,      \* history, per domain: HEAD requests begun for links of the domain
    redirected, \* history, per domain: HEAD requests begun because a server redirected
    unspared    \* history: domains whose state was dropped when nothing else could be, or
                \* while a job held it

checkVars == <<phase, links, follows, todo, began, gone>>
jobVars == <<stage, holds, via, result>>
registryVars == <<registry, lru, unspared>>
headVars == <<heads, redirected>>
linkVars == <<checkVars, jobVars, registryVars, tokens, busy, cache, time, headVars>>

\* A result, when it was had, and the link of the last request, which it comes from.
Outcomes == {"answered", "blocked", "cancelled"}
Results == [outcome : Outcomes, at : Nat, from : Links]
NoResult == [outcome |-> "none", at |-> 0, from |-> "none"]

LinkTypeOK ==
    /\ phase \in [Checks -> {"idle", "loop", "done"}]
    /\ links \in [Checks -> SUBSET Links]
    /\ follows \in [Checks -> BOOLEAN]
    /\ todo \in [Checks -> SUBSET Links]
    /\ began \in [Checks -> Nat]
    /\ gone \in SUBSET Checks
    /\ stage \in [Jobs -> {"none", "get", "token", "slot", "head", "release", "done"}]
    /\ holds \in [Jobs -> States \union {NoState}]
    /\ via \in [Jobs -> Seq(Links)]
    /\ result \in [Jobs -> Results \union {NoResult}]
    /\ registry \in [Domains -> States \union {NoState}]
    /\ lru \in Seq(Domains)
    /\ tokens \in [States -> 0..Burst]
    /\ busy \in [States -> 0..Concurrency]
    /\ cache \in [Links -> Results \union {NoResult}]
    /\ time \in Nat
    /\ heads \in [Domains -> Nat]
    /\ redirected \in [Domains -> Nat]
    /\ unspared \in SUBSET Domains

LinkInit ==
    /\ phase = [c \in Checks |-> "idle"]
    /\ links = [c \in Checks |-> {}]
    /\ follows = [c \in Checks |-> FALSE]
    /\ todo = [c \in Checks |-> {}]
    /\ began = [c \in Checks |-> 0]
    /\ gone = {}
    /\ stage = [j \in Jobs |-> "none"]
    /\ holds = [j \in Jobs |-> NoState]
    /\ via = [j \in Jobs |-> <<>>]
    /\ result = [j \in Jobs |-> NoResult]
    /\ registry = [d \in Domains |-> NoState]
    /\ lru = <<>>
    /\ tokens = [s \in States |-> Burst]
    /\ busy = [s \in States |-> 0]
    /\ cache = [l \in Links |-> NoResult]
    /\ time = 0
    /\ heads = [d \in Domains |-> 0]
    /\ redirected = [d \in Domains |-> 0]
    /\ unspared = {}
----------------------------------------------------------------------------
(* The check                                                               *)

\* The request of the API: the links of its message are collected; its query says whether
\* redirects are followed.
StartCheck(c, found, follow) ==
    /\ phase[c] = "idle"
    /\ phase' = [phase EXCEPT ![c] = "loop"]
    /\ links' = [links EXCEPT ![c] = found]
    /\ follows' = [follows EXCEPT ![c] = follow]
    /\ todo' = [todo EXCEPT ![c] = found]
    /\ began' = [began EXCEPT ![c] = time]
    /\ UNCHANGED <<gone, jobVars, registryVars, tokens, busy, cache, time, headVars>>

\* The loop: a result from the cache, or a goroutine.
Look(c, l) ==
    /\ phase[c] = "loop"
    /\ l \in todo[c]
    /\ todo' = [todo EXCEPT ![c] = @ \ {l}]
    /\ \/ /\ cache[l] # NoResult
          /\ result' = [result EXCEPT ![<<c, l>>] = cache[l]]
          /\ UNCHANGED stage
       \/ /\ cache[l] = NoResult
          /\ stage' = [stage EXCEPT ![<<c, l>>] = "get"]
          /\ UNCHANGED result
    /\ UNCHANGED <<phase, links, follows, began, gone, holds, via, registryVars, tokens, busy, cache, time, headVars>>

\* wg.Wait, after the loop.
JobsReturned(c) == \A l \in Links : stage[<<c, l>>] \in {"none", "done"}

AnswerCheck(c) ==
    /\ phase[c] = "loop" /\ todo[c] = {}
    /\ JobsReturned(c)
    /\ phase' = [phase EXCEPT ![c] = "done"]
    /\ UNCHANGED <<links, follows, todo, began, gone, jobVars, registryVars, tokens, busy, cache, time, headVars>>

\* The client closes its connection: the context of the request is cancelled.
Abandon(c) ==
    /\ phase[c] = "loop"
    /\ gone' = gone \union {c}
    /\ UNCHANGED <<phase, links, follows, todo, began, jobVars, registryVars, tokens, busy, cache, time, headVars>>
----------------------------------------------------------------------------
(* The registry                                                            *)

Step(j, s) == stage' = [stage EXCEPT ![j] = s]

Held(s) == \E j \in Jobs : holds[j] = s
InRegistry(s) == \E d \in Domains : registry[d] = s
Free == {s \in States : ~Held(s) /\ ~InRegistry(s)}

Without(d) == SelectSeq(lru, LAMBDA e : e # d)

\* Mutant: the least recently used domain is dropped, however empty its bucket.
VictimLeastRecent == {lru[Len(lru)]}

Full(d) == tokens[registry[d]] >= Burst

\* evictLocked: the least recently used domain whose bucket is full, else the least
\* recently used.
Victim ==
    LET full == {n \in 1..Len(lru) : Full(lru[n])}
        candidates == IF full = {} THEN 1..Len(lru) ELSE full
    IN  {lru[n] : n \in {c \in candidates : \A o \in candidates : o <= c}}

\* When dropping the state of a domain is excused: a job holds it, or no bucket is full.
Excused(d) ==
    \/ Held(registry[d])
    \/ \A n \in 1..Len(lru) : ~Full(lru[n])

\* registry.get for a domain that is not there: s is the new state.
Register(d, s) ==
    LET victims == IF Len(lru) >= RegistryCap THEN Victim ELSE {} IN
    /\ registry' = [e \in Domains |-> IF e = d THEN s
                                      ELSE IF e \in victims THEN NoState ELSE registry[e]]
    /\ lru' = <<d>> \o SelectSeq(lru, LAMBDA e : e \notin victims)
    /\ tokens' = [tokens EXCEPT ![s] = Burst]
    /\ busy' = [busy EXCEPT ![s] = 0]
    /\ unspared' = unspared \union {v \in victims : Excused(v)}

GetState(j) ==
    LET d == DomainOf[j[2]] IN
    /\ stage[j] = "get"
    /\ Step(j, "token")
    /\ \/ /\ registry[d] # NoState
          /\ holds' = [holds EXCEPT ![j] = registry[d]]
          /\ lru' = <<d>> \o Without(d)
          /\ UNCHANGED <<registry, tokens, busy, unspared>>
       \/ /\ registry[d] = NoState
          /\ \E s \in Free : Register(d, s) /\ holds' = [holds EXCEPT ![j] = s]
    /\ UNCHANGED <<checkVars, via, result, cache, time, headVars>>
----------------------------------------------------------------------------
(* The job                                                                 *)

\* limiter.Wait
TakeToken(j) ==
    /\ stage[j] = "token" /\ j[1] \notin gone
    /\ tokens[holds[j]] >= 1
    /\ tokens' = [tokens EXCEPT ![holds[j]] = @ - 1]
    /\ Step(j, "slot")
    /\ UNCHANGED <<checkVars, holds, via, result, registryVars, busy, cache, time, headVars>>

TakeSlot(j) ==
    /\ stage[j] = "slot"
    /\ busy[holds[j]] < Concurrency
    /\ busy' = [busy EXCEPT ![holds[j]] = @ + 1]
    /\ heads' = [heads EXCEPT ![DomainOf[j[2]]] = @ + 1]
    /\ via' = [via EXCEPT ![j] = <<j[2]>>]
    /\ Step(j, "head")
    /\ UNCHANGED <<checkVars, holds, result, registryVars, tokens, cache, time, redirected>>

\* The context is cancelled while the job waits: that result is not cached.
GiveUp(j) ==
    /\ stage[j] \in {"token", "slot"}
    /\ j[1] \in gone
    /\ result' = [result EXCEPT ![j] = [outcome |-> "cancelled", at |-> time, from |-> j[2]]]
    /\ holds' = [holds EXCEPT ![j] = NoState]
    /\ Step(j, "done")
    /\ UNCHANGED <<checkVars, via, registryVars, tokens, busy, cache, time, headVars>>

\* safeDialContext and IsInternalIP
Blocked(l) == l \in InternalLinks

\* The link of the request under way.
Here(j) == via[j][Len(via[j])]

\* CheckRedirect lets the client go on to where the server sends it, with neither a token
\* nor a slot of the domain it goes to.
Redirect(j) ==
    /\ stage[j] = "head" /\ j[1] \notin gone
    /\ follows[j[1]] /\ Len(via[j]) < MaxRequests
    /\ ~Blocked(Here(j))
    /\ \E l \in Targets[Here(j)] :
          /\ via' = [via EXCEPT ![j] = Append(@, l)]
          /\ redirected' = [redirected EXCEPT ![DomainOf[l]] = @ + 1]
    /\ UNCHANGED <<checkVars, stage, holds, result, registryVars, tokens, busy, cache, time, heads>>

\* What the last request may return: with its client gone, the error of a cancelled one too.
HeadOutcomes(j) ==
    (IF Blocked(Here(j)) THEN {"blocked"} ELSE {"answered"})
        \union (IF j[1] \in gone THEN {"cancelled"} ELSE {})

DoHead(j) ==
    /\ stage[j] = "head"
    /\ \E outcome \in HeadOutcomes(j) :
          LET r == [outcome |-> outcome, at |-> time, from |-> Here(j)] IN
          result' = [result EXCEPT ![j] = r] /\ cache' = [cache EXCEPT ![j[2]] = r]
    /\ via' = [via EXCEPT ![j] = <<>>]
    /\ Step(j, "release")
    /\ UNCHANGED <<checkVars, holds, registryVars, tokens, busy, time, headVars>>

Release(j) ==
    /\ stage[j] = "release"
    /\ busy' = [busy EXCEPT ![holds[j]] = @ - 1]
    /\ holds' = [holds EXCEPT ![j] = NoState]
    /\ Step(j, "done")
    /\ UNCHANGED <<checkVars, via, result, registryVars, tokens, cache, time, headVars>>

Job(j) ==
    \/ GetState(j) \/ TakeToken(j) \/ TakeSlot(j) \/ GiveUp(j)
    \/ Redirect(j) \/ DoHead(j) \/ Release(j)

\* Mutant: the results stay.
ExpiredNever(r, now) == FALSE

Expired(r, now) == r # NoResult /\ r.at + Ttl < now

Tick ==
    /\ time' = time + 1
    /\ tokens' = [s \in States |-> IF tokens[s] < Burst THEN tokens[s] + 1 ELSE Burst]
    /\ cache' = [l \in Links |-> IF Expired(cache[l], time + 1) THEN NoResult ELSE cache[l]]
    /\ UNCHANGED <<checkVars, jobVars, registryVars, busy, headVars>>

LinkStep ==
    \/ Tick
    \/ \E c \in Checks :
          \/ AnswerCheck(c) \/ Abandon(c)
          \/ \E l \in Links : Look(c, l) \/ Job(<<c, l>>)
----------------------------------------------------------------------------
(* Properties                                                              *)

\* The links of a domain that its slots are taken for.
InFlight(d) == {j \in Jobs : stage[j] \in {"head", "release"} /\ DomainOf[j[2]] = d}

\* Whatever the checks, no more than Concurrency links of a domain are tested at once, and
\* no more in all than Burst and one for each second.  Two cases are excepted: the requests
\* that redirects bring the domain (TrafficIsCapped), and a domain whose state the
\* registry dropped when it had no room, where a job held it or no bucket was full.
\* throttle.go:57 says of a full bucket that dropping it has "no security cost -
\* recreating yields identical state"; it has where jobs hold the old one.
DomainsAreSpared ==
    \A d \in Domains \ unspared :
        /\ Cardinality(InFlight(d)) <= Concurrency
        /\ heads[d] <= Burst + time

\* throttle.go:17-20: "refill caps sustained traffic to any one registered domain at 1
\* req/s across all concurrent API calls", all requests counted.
TrafficIsCapped ==
    \A d \in Domains \ unspared : heads[d] + redirected[d] <= Burst + time

\* Where redirects of the servers may lead from a link, in the requests CheckRedirect allows.
Reach(l) ==
    {k \in Links : \E n \in 1..MaxRequests : \E v \in [1..n -> Links] :
        v[1] = l /\ v[n] = k /\ \A i \in 1..(n - 1) : v[i + 1] \in Targets[v[i]]}

\* What a result for a link may come from.
Origins(l) == IF \E d \in Checks : follows[d] THEN Reach(l) ELSE {l}

\* An answer has a result for every link, none older than the cache allows when the
\* check began, and each the link's own: it comes from the link's server, or from one
\* its redirects lead to if some check follows them, not always this one: the cache does
\* not tell the two kinds of results apart.  A link is reported as blocked exactly when
\* that server is at a private address, unless the client of the request had left.
AnswersAreFresh ==
    \A c \in Checks : phase[c] = "done" =>
        \A l \in links[c] :
            LET r == result[<<c, l>>] IN
            /\ r # NoResult
            /\ r.at + Ttl >= began[c]
            /\ r.from \in Origins(l)
            /\ r.outcome # "cancelled" => (r.outcome = "blocked" <=> Blocked(r.from))
=============================================================================
