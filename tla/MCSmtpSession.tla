--------------------------- MODULE MCSmtpSession ---------------------------
(***************************************************************************)
(* The servers TLC checks SmtpSession on: every combination of the TLS,    *)
(* authentication, recipient and XCLIENT options that listenAndServe can   *)
(* build, and the library's own defaults for the mechanisms.               *)
(***************************************************************************)
EXTENDS SmtpSession

MechsUnset == [m \in Mechanisms |-> "unset"]
MechsOverridden == [m \in Mechanisms |-> IF m = "CRAM-MD5" THEN "off" ELSE "on"]

MCServers ==
    {s \in ServerSettings :
        /\ s.authMechs \in {MechsUnset, MechsOverridden}
        /\ s.tlsRequired => s.tlsConfigured
        /\ s.tlsListener => s.tlsConfigured /\ ~s.tlsRequired
        /\ s.authRequired => s.authHandler
        /\ s.authMechs = MechsOverridden => s.authHandler}
============================================================================
