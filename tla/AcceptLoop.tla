----------------------------- MODULE AcceptLoop -----------------------------
(***************************************************************************)
(* Server.Serve (internal/smtpd/smtpd.go) over internal/connlimit: the     *)
(* loop that accepts connections, the limit on them, the delays after an   *)
(* error of Accept, and Close.                                             *)
(*                                                                         *)
(* One goroutine runs the loop, one more serves each connection; what a    *)
(* session does while it is served is for the module that extends this     *)
(* one to say.  pop3.serve is the same loop without newSession and Close.  *)
(* Abstracted: lengths of time other than the delay, and log messages.     *)
(***************************************************************************)
EXTENDS Naturals, FiniteSets

CONSTANTS
    Conns,              \* connections, each made once
    NoConn,
    MaxConnections,     \* connlimit.Max
    FirstDelay,         \* milliseconds: 5
    MaxDelay            \* milliseconds: 1000

ASSUME ConnsAssumption == IsFiniteSet(Conns) /\ NoConn \notin Conns
ASSUME LimitsAssumption ==
    MaxConnections \in Nat /\ FirstDelay \in Nat \ {0} /\ MaxDelay \in Nat /\ FirstDelay <= MaxDelay

VARIABLES
    loop,       \* where Serve is
    current,    \* the connection it holds
    link,       \* per connection: how far it has got
    slots,      \* how many slots of the limiter's semaphore are taken
    openSessions,
    inShutdown, \* Close has been called: inShutdown is set, shutdownChan closed
    delay,      \* Backoff.delay
    late        \* history: sessions that began after Close

loopVars == <<loop, current, link, slots, openSessions, inShutdown, delay, late>>

\* A connection waits in the kernel's backlog, is held by the loop, served, and then
\* passes the deferred calls: its close, openSessions - 1, Release.
Stages == {"away", "backlog", "held", "named", "served", "hungup", "left", "gone", "refused"}

LoopTypeOK ==
    /\ loop \in {"check", "accept", "wait", "acquire", "start", "returned"}
    /\ current \in Conns \union {NoConn}
    /\ link \in [Conns -> Stages]
    /\ slots \in Nat
    /\ openSessions \in Nat
    /\ inShutdown \in BOOLEAN
    /\ delay \in 0..MaxDelay
    /\ late \in SUBSET Conns

LoopInit ==
    /\ loop = "check"
    /\ current = NoConn
    /\ link = [c \in Conns |-> "away"]
    /\ slots = 0
    /\ openSessions = 0
    /\ inShutdown = FALSE
    /\ delay = 0
    /\ late = {}
----------------------------------------------------------------------------
(* The loop                                                                *)

Pass(c, s) == link' = [link EXCEPT ![c] = s]

\* The kernel completes the handshake while the listener is open.
Dial(c) ==
    /\ link[c] = "away"
    /\ loop # "returned"
    /\ Pass(c, "backlog")
    /\ UNCHANGED <<loop, current, slots, openSessions, inShutdown, delay, late>>

\* Serve's deferred Close of the listener resets the connections in its backlog.
ReturnFromServe ==
    /\ loop' = "returned"
    /\ link' = [c \in Conns |-> IF link[c] = "backlog" THEN "refused" ELSE link[c]]

\* Mutant: the channel is looked at only after an error of Accept.
CheckShutdownLater ==
    /\ loop = "check"
    /\ \/ inShutdown /\ delay > 0 /\ ReturnFromServe
       \/ loop' = "accept" /\ UNCHANGED link
    /\ UNCHANGED <<current, slots, openSessions, inShutdown, delay, late>>

CheckShutdown ==
    /\ loop = "check"
    /\ \/ inShutdown /\ ReturnFromServe
       \/ ~inShutdown /\ loop' = "accept" /\ UNCHANGED link
    /\ UNCHANGED <<current, slots, openSessions, inShutdown, delay, late>>

Accept(c) ==
    /\ loop = "accept"
    /\ link[c] = "backlog"
    /\ Pass(c, "held")
    /\ current' = c
    /\ loop' = "acquire"
    /\ delay' = 0
    /\ UNCHANGED <<slots, openSessions, inShutdown, late>>

\* Backoff.Wait
NextDelay(d) ==
    IF d = 0 THEN FirstDelay
    ELSE IF 2 * d < MaxDelay THEN 2 * d
    ELSE MaxDelay

\* A timeout of Accept goes round the loop at once, another error after a delay,
\* and only a listener that somebody closed ends it.
AcceptFails ==
    /\ loop = "accept"
    /\ \/ loop' = "check" /\ UNCHANGED <<link, delay>>
       \/ loop' = "wait" /\ delay' = NextDelay(delay) /\ UNCHANGED link
       \/ ReturnFromServe /\ UNCHANGED delay
    /\ UNCHANGED <<current, slots, openSessions, inShutdown, late>>

Waited ==
    /\ loop = "wait"
    /\ loop' = "check"
    /\ UNCHANGED <<current, link, slots, openSessions, inShutdown, delay, late>>

\* Mutant: one connection over the limit.
FullLater == slots > MaxConnections

Full == slots >= MaxConnections

\* TryAcquire, or Refuse and the next connection.
Acquire ==
    /\ loop = "acquire"
    /\ \/ /\ Full
          /\ Pass(current, "refused")
          /\ current' = NoConn
          /\ loop' = "check"
          /\ UNCHANGED slots
       \/ /\ ~Full
          /\ slots' = slots + 1
          /\ Pass(current, "named")
          /\ loop' = "start"
          /\ UNCHANGED current
    /\ UNCHANGED <<openSessions, inShutdown, delay, late>>

\* newSession, whose reverse DNS lookup the whole loop waits for, and the goroutine.
StartSession ==
    /\ loop = "start"
    /\ Pass(current, "served")
    /\ openSessions' = openSessions + 1
    /\ late' = IF inShutdown THEN late \union {current} ELSE late
    /\ current' = NoConn
    /\ loop' = "check"
    /\ UNCHANGED <<slots, inShutdown, delay>>

CloseServer ==
    /\ ~inShutdown
    /\ inShutdown' = TRUE
    /\ UNCHANGED <<loop, current, link, slots, openSessions, delay, late>>
----------------------------------------------------------------------------
(* The end of a session, in the order of the deferred calls                *)

HangUp(c) ==
    /\ link[c] = "served"
    /\ Pass(c, "hungup")
    /\ UNCHANGED <<loop, current, slots, openSessions, inShutdown, delay, late>>

Discount(c) ==
    /\ link[c] = "hungup"
    /\ Pass(c, "left")
    /\ openSessions' = openSessions - 1
    /\ UNCHANGED <<loop, current, slots, inShutdown, delay, late>>

Release(c) ==
    /\ link[c] = "left"
    /\ Pass(c, "gone")
    /\ slots' = slots - 1
    /\ UNCHANGED <<loop, current, openSessions, inShutdown, delay, late>>

LoopStep ==
    \/ CheckShutdown \/ AcceptFails \/ Waited \/ Acquire \/ StartSession \/ CloseServer
    \/ \E c \in Conns : Dial(c) \/ Accept(c) \/ Discount(c) \/ Release(c)
----------------------------------------------------------------------------
(* Properties                                                              *)

Holding == {c \in Conns : link[c] \in {"named", "served", "hungup", "left"}}
Serving == {c \in Conns : link[c] \in {"served", "hungup"}}

\* The limiter counts exactly the connections that are served or about to be, so
\* that never more than MaxConnections are, and openSessions counts those
\* whose session has begun and not returned.
SlotsAreAccounted ==
    /\ slots = Cardinality(Holding)
    /\ openSessions = Cardinality(Serving)
    /\ slots <= MaxConnections

\* Close stops the loop: at most one session begins after it, that of the connection
\* which the loop was about to take.
CloseLetsOneIn == Cardinality(late) <= 1
============================================================================
