----------------------------- MODULE MCOutbound -----------------------------
(***************************************************************************)
(* The instance of Outbound for TLC: two checks of links of three domains  *)
(* with room for two in the registry, two fetches for two messages, and    *)
(* three requests for the version, with Durations of six bits.             *)
(***************************************************************************)
EXTENDS Outbound, TLC

CONSTANTS s1, s2, s3, s4

MCStates == {s1, s2, s3, s4}
Symmetry == Permutations(MCStates)

MCDomainOf == ("a1" :> "a") @@ ("b1" :> "b") @@ ("c1" :> "c")
MCTargets == ("a1" :> {"b1"}) @@ ("b1" :> {"c1"}) @@ ("c1" :> {})
MCFound == ("m" :> {"a1", "b1"}) @@ ("n" :> {"a1", "b1", "c1"})
MCLinked == ("m" :> {"css", "png"}) @@ ("n" :> {})
MCStyles == ("css" :> {"font"}) @@ ("png" :> {}) @@ ("font" :> {})

Checking == \E c \in Checks : phase[c] # "idle"
Proxying == \E f \in Fetches : step[f] # "idle"
Looking == ~VersionInit

\* The bounds of the instance: either checks run, of two messages, or fetches, or requests
\* for the version; the clock of the checks stops after a second; the second check starts
\* after the first, that of the other message.  Only the first may follow redirects, and it
\* then ends before the clock moves; only it loses its client, before the clock moves.  The
\* version is looked for in the first eight minutes, until the fifth failure in a row.
Affordable ==
    /\ ~(Checking /\ Proxying)
    /\ Checking => aged = {} /\ present = Messages
    /\ time <= IF Checking THEN 1 ELSE 0
    /\ phase[2] # "idle" => phase[1] # "idle"
    /\ links[1] \subseteq Found["m"] /\ links[2] \subseteq Found["n"]
    /\ ~follows[2] /\ (follows[1] /\ time > 0 => phase[1] = "done")
    /\ gone \subseteq {1}
    /\ gone # {} => time = 0
    /\ Looking => ~Checking /\ ~Proxying /\ aged = {} /\ present = Messages
    /\ clock <= 8 /\ accepted <= 1 /\ cached.errCount <= 5

MCSpec == Init /\ [][Next /\ Affordable']_vars
=============================================================================
