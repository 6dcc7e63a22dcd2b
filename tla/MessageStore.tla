---------------------------- MODULE MessageStore ----------------------------
(***************************************************************************)
(* What internal/storage promises about a message, whatever statements it  *)
(* takes: it appears whole and at once, it is acknowledged only when it is *)
(* there, and once it has left the mailbox it never comes back.            *)
(***************************************************************************)
CONSTANT Ids            \* the database IDs of messages

VARIABLES
    messages,           \* the messages in the mailbox
    removed,            \* the messages that have left it
    acked               \* the messages whose Store has returned their ID

vars == <<messages, removed, acked>>

Init == messages = {} /\ removed = {} /\ acked = {}

Add(m) ==
    /\ m \notin messages \union removed
    /\ messages' = messages \union {m}
    /\ UNCHANGED <<removed, acked>>

Acknowledge(m) ==
    /\ m \in messages \union removed
    /\ acked' = acked \union {m}
    /\ UNCHANGED <<messages, removed>>

\* S is what leaves: a chosen set of messages, or all of them.
Remove(S) ==
    /\ messages' = messages \ S
    /\ removed' = removed \union S
    /\ UNCHANGED acked

Next ==
    \/ \E m \in Ids : Add(m) \/ Acknowledge(m)
    \/ \E S \in SUBSET messages : Remove(S)

StoreSpec == Init /\ [][Next]_vars
============================================================================
