----------------------------- MODULE AssetProxy -----------------------------
(***************************************************************************)
(* server/handlers/proxy.go: the proxy that fetches the images, fonts and  *)
(* stylesheets of a message for its screenshot, and the table of the       *)
(* addresses it may fetch for each message.                                *)
(*                                                                         *)
(* hasAsset, recordAsset and the cleanup hold assetsMutex: each is one     *)
(* step.  Abstracted: headers and sizes; an address is its lower-case      *)
(* form.                                                                   *)
(***************************************************************************)
EXTENDS Naturals

CONSTANTS
    Fetches,    \* requests to the proxy
    Messages,
    Urls,
    Linked,     \* per message: the addresses in its HTML
    Styles,     \* per address: those in the stylesheet there, {} when it is none
    Barred,     \* addresses of private hosts, or of content that is not passed on
    NoMessage, NoUrl

ASSUME LinkedAssumption == Linked \in [Messages -> SUBSET Urls]
ASSUME StylesAssumption == Styles \in [Urls -> SUBSET Urls]

VARIABLES
    present,    \* the messages in the mailbox
    assets,     \* per message: "none" or the addresses recorded
    aged,       \* messages whose entry has seen a cleanup
    step,       \* per fetch: where its handler is
    message, url,   \* per fetch: what it asks for
    pending,    \* per fetch: addresses in its stylesheet not yet recorded
    fetched,    \* history: a message and an address whose content was passed on for it
    wronged     \* history: fetches refused although the message links the address

proxyVars == <<present, assets, aged, step, message, url, pending, fetched, wronged>>

NoEntry == [known |-> FALSE, index |-> {}]
Entries == [known : BOOLEAN, index : SUBSET Urls]

ProxyTypeOK ==
    /\ present \in SUBSET Messages
    /\ assets \in [Messages -> Entries]
    /\ aged \in SUBSET Messages
    /\ step \in [Fetches -> {"idle", "fetch", "rewrite", "done"}]
    /\ message \in [Fetches -> Messages \union {NoMessage}]
    /\ url \in [Fetches -> Urls \union {NoUrl}]
    /\ pending \in [Fetches -> SUBSET Urls]
    /\ fetched \in SUBSET (Messages \X Urls)
    /\ wronged \in SUBSET Fetches

ProxyInit ==
    /\ present = Messages
    /\ assets = [m \in Messages |-> NoEntry]
    /\ aged = {}
    /\ step = [f \in Fetches |-> "idle"]
    /\ message = [f \in Fetches |-> NoMessage]
    /\ url = [f \in Fetches |-> NoUrl]
    /\ pending = [f \in Fetches |-> {}]
    /\ fetched = {}
    /\ wronged = {}
----------------------------------------------------------------------------
GoOn(f, s) == step' = [step EXCEPT ![f] = s]

\* buildAssets
Built(m) == [known |-> TRUE, index |-> Linked[m]]

\* hasAsset: the entry of the message, built now if there is none.
Ask(f, m, u) ==
    /\ step[f] = "idle"
    /\ message' = [message EXCEPT ![f] = m]
    /\ url' = [url EXCEPT ![f] = u]
    /\ LET entry == IF assets[m].known THEN assets[m] ELSE Built(m) IN
       \/ /\ ~assets[m].known /\ m \notin present
          /\ GoOn(f, "done")
          /\ UNCHANGED <<assets, wronged>>
       \/ /\ assets[m].known \/ m \in present
          /\ assets' = [assets EXCEPT ![m] = entry]
          /\ \/ u \in entry.index /\ GoOn(f, "fetch") /\ UNCHANGED wronged
             \/ /\ u \notin entry.index
                /\ GoOn(f, "done")
                /\ wronged' = IF u \in Linked[m] THEN wronged \union {f} ELSE wronged
    /\ UNCHANGED <<present, aged, pending, fetched>>

\* safeDialContext, supportedProxyContentType: others fail like a server that is down.
PassedOn(u) == u \notin Barred

\* absoluteURL: what a stylesheet names, each address resolved against its own.
NamedBy(u) == Styles[u]

\* The dialogue with the other server: an error, a file, or a stylesheet to rewrite.
Fetch(f) ==
    /\ step[f] = "fetch"
    /\ \/ GoOn(f, "done") /\ UNCHANGED <<pending, fetched>>
       \/ /\ PassedOn(url[f])
          /\ fetched' = fetched \union {<<message[f], url[f]>>}
          /\ IF NamedBy(url[f]) = {} THEN GoOn(f, "done") ELSE GoOn(f, "rewrite")
          /\ pending' = [pending EXCEPT ![f] = NamedBy(url[f])]
    /\ UNCHANGED <<present, assets, aged, message, url, wronged>>

\* Mutant: an entry that has expired is begun anew.
RecordingAnew(m, u) ==
    assets' = [assets EXCEPT ![m] = [known |-> TRUE, index |-> @.index \union {u}]]

\* recordAsset: nothing is recorded for a message whose entry has expired.
Recording(m, u) ==
    \/ ~assets[m].known /\ UNCHANGED assets
    \/ assets[m].known /\ assets' = [assets EXCEPT ![m].index = @ \union {u}]

Record(f, u) ==
    /\ step[f] = "rewrite"
    /\ u \in pending[f]
    /\ Recording(message[f], u)
    /\ pending' = [pending EXCEPT ![f] = @ \ {u}]
    /\ UNCHANGED <<present, aged, step, message, url, fetched, wronged>>

Deliver(f) ==
    /\ step[f] = "rewrite" /\ pending[f] = {}
    /\ GoOn(f, "done")
    /\ UNCHANGED <<present, assets, aged, message, url, pending, fetched, wronged>>

\* Each minute: entries more than a minute old, which those that have seen a
\* cleanup are and others may be.
Cleanup ==
    \E old \in SUBSET Messages :
        /\ aged \subseteq old
        /\ assets' = [m \in Messages |-> IF m \in old THEN NoEntry ELSE assets[m]]
        /\ aged' = {m \in Messages \ old : assets[m].known}
        /\ UNCHANGED <<present, step, message, url, pending, fetched, wronged>>

\* The message is deleted: see Mailbox.
Delete(m) ==
    /\ m \in present
    /\ present' = present \ {m}
    /\ UNCHANGED <<assets, aged, step, message, url, pending, fetched, wronged>>

ProxyStep ==
    \/ Cleanup
    \/ \E m \in Messages : Delete(m)
    \/ \E f \in Fetches :
          \/ Fetch(f) \/ Deliver(f)
          \/ \E u \in Urls : Record(f, u)
          \/ \E m \in Messages, u \in Urls : Ask(f, m, u)
----------------------------------------------------------------------------
(* Properties                                                              *)

\* The proxy passes on for a message only what its HTML links or a stylesheet passed on
\* for it names, and never refuses a link of a message for what the table held before.
AssetsAreExact ==
    /\ \A p \in fetched : p[2] \in Linked[p[1]]
          \/ \E u \in Urls : <<p[1], u>> \in fetched /\ p[2] \in Styles[u]
    /\ wronged = {}
=============================================================================
