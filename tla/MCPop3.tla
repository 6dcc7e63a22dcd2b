------------------------------- MODULE MCPop3 -------------------------------
(***************************************************************************)
(* The instance of Pop3 for TLC: one session; other sessions and the rest  *)
(* of the program are what changes the mailbox under it.                   *)
(***************************************************************************)
EXTENDS Pop3

MCSessions == {1}

Simple ==
    {NoCommand} \union {[cmd |-> c, arg |-> 0] : c \in {"RSET", "QUIT"}}
    \union {[cmd |-> c, arg |-> 1] : c \in {"USER", "PASS", "DELE"}}

\* The bounds of the instance.  The mailbox changes between commands, or while the
\* session loads it or deletes from it; steps of others in between commute with those
\* that touch the connection only.
Affordable ==
    /\ \A s \in confused : asked'[s] # asked[s] => asked'[s] \in Simple
    /\ box' # box =>
          \A s \in Sessions : client[s] \notin {"status", "data"} \/ at[s] \in {"load", "update"}

MCInit == PopInit /\ box \in {<<i>> : i \in DottedBodies}

MCSpec == MCInit /\ [][PopNext /\ Affordable]_popVars /\ PopFairness
=============================================================================
