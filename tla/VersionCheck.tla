---------------------------- MODULE VersionCheck ----------------------------
(***************************************************************************)
(* internal/stats: requests for the application's information, which fetch *)
(* the latest version from its server and keep it, and the counters of     *)
(* SMTP, behind one lock.                                                  *)
(*                                                                         *)
(* The lock is held while the version is fetched; whatever else takes it   *)
(* is one step.  Load reads the counters without it, which no property     *)
(* tells apart.  Abstracted: the version itself, and what Load asks of the *)
(* database.  The clock counts minutes.  DisableVersionCheck is not set.   *)
(***************************************************************************)
EXTENDS Integers

CONSTANTS
    Requests,       \* requests to /api/v1/info
    KeptFor,        \* how long a version is kept: 15 minutes
    MaxBackoff,     \* 30 minutes
    Minute,         \* as a time.Duration: 60000000000
    Width           \* bits of a time.Duration: 64

ASSUME WaitsAssumption ==
    /\ {KeptFor, MaxBackoff} \subseteq Nat
    /\ {Minute, Width} \subseteq Nat \ {0}

VARIABLES
    load,           \* per request: where its Load is
    cached,         \* vCache: when it expires, and the failures in a row
    clock,          \* minutes
    accepted,       \* smtpAccepted
    settled,        \* history: when the last fetch ended, and the wait that is due then
    hasty           \* history: a fetch began before that wait was over

versionVars == <<load, cached, clock, accepted, settled, hasty>>

VersionTypeOK ==
    /\ load \in [Requests -> {"idle", "stale", "fetch", "done"}]
    /\ cached \in [expiry : Int, errCount : Nat]
    /\ clock \in Nat
    /\ accepted \in Nat
    /\ settled \in [at : Nat, wait : Int]
    /\ hasty \in BOOLEAN

VersionInit ==
    /\ load = [r \in Requests |-> "idle"]
    /\ cached = [expiry |-> 0, errCount |-> 0]
    /\ clock = 0
    /\ accepted = 0
    /\ settled = [at |-> 0, wait |-> 0]
    /\ hasty = FALSE

\* A Duration: the low bits of n, with their sign.
Wrapped(n) ==
    LET low == n % 2^Width IN IF low < 2^(Width - 1) THEN low ELSE low - 2^Width

Overflows(errCount) == Wrapped(2^errCount * Minute) # 2^errCount * Minute

LesserOf(a, b) == IF a <= b THEN a ELSE b

\* 2^errCount minutes at most MaxBackoff, as getBackoff computes it ...
Backoff(errCount) == LesserOf(Wrapped(2^errCount * Minute), MaxBackoff * Minute) \div Minute

\* ... and as it is meant.  Nothing is promised once it has overflowed.
MeantBackoff(errCount) ==
    IF Overflows(errCount) THEN 0 ELSE LesserOf(2^errCount, MaxBackoff)

Unlocked == \A r \in Requests : load[r] # "fetch"

Goes(r, stage) == load' = [load EXCEPT ![r] = stage]

\* The look under the read lock.
AskVersion(r) ==
    /\ load[r] = "idle"
    /\ Unlocked
    /\ Goes(r, IF clock < cached.expiry THEN "done" ELSE "stale")
    /\ UNCHANGED <<cached, clock, accepted, settled, hasty>>

\* Mutant: the version is not looked at again under the lock.
StillStaleUnchecked == TRUE

StillStale == clock >= cached.expiry

\* The write lock, and the second look.
LockVersion(r) ==
    /\ load[r] = "stale"
    /\ Unlocked
    /\ Goes(r, IF StillStale THEN "fetch" ELSE "done")
    /\ hasty' = (hasty \/ (StillStale /\ clock < settled.at + settled.wait))
    /\ UNCHANGED <<cached, clock, accepted, settled>>

FetchVersion(r) ==
    /\ load[r] = "fetch"
    /\ Goes(r, "done")
    /\ \/ /\ cached' = [expiry |-> clock + KeptFor, errCount |-> 0]
          /\ settled' = [at |-> clock, wait |-> KeptFor]
       \/ LET failures == cached.errCount + 1 IN
          /\ cached' = [expiry |-> clock + Backoff(failures), errCount |-> failures]
          /\ settled' = [at |-> clock, wait |-> MeantBackoff(failures)]
    /\ UNCHANGED <<clock, accepted, hasty>>

\* A request that has been answered is forgotten, so that another can be made.
AskAgain(r) ==
    /\ load[r] = "done"
    /\ Goes(r, "idle")
    /\ UNCHANGED <<cached, clock, accepted, settled, hasty>>

\* LogSMTPAccepted, by a session that stored a message: it waits for the fetch.
LogSMTPAccepted ==
    /\ Unlocked
    /\ accepted' = accepted + 1
    /\ UNCHANGED <<load, cached, clock, settled, hasty>>

MinutePasses ==
    /\ clock' = clock + 1
    /\ UNCHANGED <<load, cached, accepted, settled, hasty>>

VersionStep ==
    \/ LogSMTPAccepted
    \/ MinutePasses
    \/ \E r \in Requests : AskVersion(r) \/ LockVersion(r) \/ FetchVersion(r) \/ AskAgain(r)
----------------------------------------------------------------------------
(* Properties                                                              *)

\* stats.go: repeated lookups are kept apart, by KeptFor after a version was found and by
\* a wait that doubles with each failure up to MaxBackoff, whatever requests come at once.
\* Excepted are the failures after which getBackoff has overflowed.
LookupsAreApart == ~hasty
=============================================================================
