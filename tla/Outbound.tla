------------------------------ MODULE Outbound ------------------------------
(***************************************************************************)
(* The requests Mailpit makes to servers elsewhere.  For a message: link   *)
(* checks (LinkCheck) and the assets of its screenshot (AssetProxy), which *)
(* read the message first; it may be deleted before, between and after.    *)
(* And the request it makes for itself, for its version (VersionCheck).    *)
(***************************************************************************)
EXTENDS LinkCheck, AssetProxy, VersionCheck

CONSTANTS
    Found,      \* per message: the links of its HTML and text
    MaxLinks    \* maxUniqueLinks: 100

ASSUME FoundAssumption == Found \in [Messages -> SUBSET Links] /\ MaxLinks \in Nat

vars == <<linkVars, proxyVars, versionVars>>

TypeOK == LinkTypeOK /\ ProxyTypeOK /\ VersionTypeOK

Init == LinkInit /\ ProxyInit /\ VersionInit

\* RunTests: all the links of the message, or MaxLinks of them.
Collected(m) ==
    LET n == Cardinality(Found[m])
    IN  {S \in SUBSET Found[m] : Cardinality(S) = IF n <= MaxLinks THEN n ELSE MaxLinks}

\* The API: a message that is not there is answered with 404.
CheckLinks(c) ==
    /\ \E m \in present : \E found \in Collected(m) : \E follow \in BOOLEAN : StartCheck(c, found, follow)
    /\ UNCHANGED <<proxyVars, versionVars>>

\* Nothing is under way.
Rest ==
    /\ \A c \in Checks : phase[c] \in {"idle", "done"}
    /\ \A f \in Fetches : step[f] \in {"idle", "done"}
    /\ \A r \in Requests : load[r] = "idle"
    /\ UNCHANGED vars

Next ==
    \/ LinkStep /\ UNCHANGED <<proxyVars, versionVars>>
    \/ \E c \in Checks : CheckLinks(c)
    \/ ProxyStep /\ UNCHANGED <<linkVars, versionVars>>
    \/ VersionStep /\ UNCHANGED <<linkVars, proxyVars>>
    \/ Rest

Spec == Init /\ [][Next]_vars
=============================================================================
