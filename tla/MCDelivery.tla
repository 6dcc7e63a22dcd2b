----------------------------- MODULE MCDelivery -----------------------------
(***************************************************************************)
(* The instance of Delivery for TLC: three connections for two slots and   *)
(* one request to the send API.                                            *)
(***************************************************************************)
EXTENDS Delivery

MCConns == 1..3
MCAttempts == 1..4

Plain == [id |-> "x", form |-> "plain"]
Nameless == [Plain EXCEPT !.id = "none"]
Odd == [Plain EXCEPT !.form = "odd"]
Broken == [Plain EXCEPT !.form = "broken"]

MCMessages == {Plain, Nameless, Odd, Broken}

Local == [ignoreDuplicateIDs |-> TRUE, allowed |-> {"to", "cc"}, relayAll |-> FALSE,
          matching |-> {}, blocked |-> {}, relayErrors |-> FALSE,
          forward |-> FALSE, forwardErrors |-> FALSE]

MCSettings ==
    {Local,
     [Local EXCEPT !.allowed = {"to"}, !.ignoreDuplicateIDs = FALSE],
     [Local EXCEPT !.matching = {"to"}, !.relayErrors = TRUE],
     [Local EXCEPT !.matching = {"to", "cc"}, !.blocked = {"cc"}],
     [Local EXCEPT !.relayAll = TRUE, !.blocked = {"cc"}],
     [Local EXCEPT !.forward = TRUE, !.forwardErrors = TRUE]}

Begun == {a \in Attempts : step[a] # "idle"}

\* The bounds of the instance: connections come in their order; either three of them
\* bring nothing, with errors of Accept and Close, or two attempts bring a message
\* while the loop waits in Accept and only the first connection ends; the rules are for Plain, under Local.
Affordable ==
    /\ \A c \in Conns : c > 1 /\ link[c] # "away" => link[c - 1] # "away"
    /\ Begun # {} =>
          /\ loop \in {"accept", "returned"} /\ ~inShutdown /\ delay = 0
          /\ \A c \in Conns : link[c] \in {"away", "served"} \/ (c = 1 /\ step[c] = "done")
          /\ Cardinality(Begun) <= 2
    /\ loop = "returned" => \A a \in Begun : step[a] = "done"
    /\ \A m \in Messages : bounce[m] # "none" => m = Plain /\ bounce[m] = "5xx" /\ config = Local
    /\ \A a \in Begun : config # Local => to[a] = config.allowed

\* One attempt may bring another message than Plain, under Local.
MCInit ==
    /\ Init
    /\ \A m \in Messages : bounce[m] = "none"
    /\ \A a \in Attempts : msg[a] # Plain => a = 2 /\ config = Local

MCSpec == MCInit /\ [][Next /\ Affordable']_vars
============================================================================
