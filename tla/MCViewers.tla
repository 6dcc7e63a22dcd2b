----------------------------- MODULE MCViewers -----------------------------
(***************************************************************************)
(* The instance of Viewers for TLC: two requests of any kind without a     *)
(* browser, two requests that mark or delete messages with one, or three   *)
(* that read and delete without one.                                       *)
(***************************************************************************)
EXTENDS Viewers

Asked == {kind[r] : r \in Requests} \ {"none"}
Active == {r \in Requests : kind[r] # "none"}
Watched == \E c \in Browsers : conn[c] # "none"

MCRequests == 1..3

\* The bound of the instance; requests are interchangeable and start in their order.
Affordable ==
  /\ Active = 1..Cardinality(Active)
  /\ \/ Cardinality(Active) <= 2 /\ (Watched => Asked \subseteq {"markRead", "markAllUnread", "deleteMessages"})
     \/ ~Watched /\ Asked \subseteq {"getMessage", "deleteMessages"}

MCSpec == Init /\ [][Next /\ Affordable']_vars
============================================================================
