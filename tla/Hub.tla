-------------------------------- MODULE Hub --------------------------------
(***************************************************************************)
(* server/websockets: the hub, and for each browser its buffered channel   *)
(* and its two pumps.                                                      *)
(*                                                                         *)
(* One goroutine runs the hub; a registration, an unregistration and a     *)
(* broadcast are each one turn of its loop.  Every event is handed to the  *)
(* hub by a goroutine of its own.  A channel operation that would block    *)
(* waits in the guard of the turn that takes it.                           *)
(* Abstracted: pings (a ping that fails is a write that fails), and the    *)
(* content of events, which are told apart by who sent them.               *)
(***************************************************************************)
EXTENDS Naturals, Sequences

CONSTANTS
    Browsers,       \* websocket connections, each made once
    SendBuffer,     \* the capacity of Client.send (256)
    Events          \* the events the rest of the program may broadcast

ASSUME BufferAssumption == SendBuffer \in Nat \ {0}

VARIABLES
    clients,        \* Hub.Clients
    sending,        \* events whose goroutine waits to hand them to the hub
    hubLog,         \* history: the events the hub has taken, in order
    conn,           \* per browser: "none", "upgraded", "open" or "broken"
    reader, writer, \* per browser: its pumps: "off", "on", "leaving", "done"
    buf,            \* per browser: what Client.send holds
    closes,         \* per browser: how often Client.send was closed
    joined,         \* history: how many events the hub had taken at registration
    got             \* history: the events written to the browser

hubVars == <<clients, sending, hubLog, conn, reader, writer, buf, closes, joined, got>>

HubTypeOK ==
    /\ clients \in SUBSET Browsers
    /\ sending \in SUBSET Events
    /\ hubLog \in Seq(Events)
    /\ conn \in [Browsers -> {"none", "upgraded", "open", "broken"}]
    /\ reader \in [Browsers -> {"off", "on", "leaving", "done"}]
    /\ writer \in [Browsers -> {"off", "on", "leaving", "done"}]
    /\ buf \in [Browsers -> Seq(Events)]
    /\ \A c \in Browsers : Len(buf[c]) <= SendBuffer
    /\ closes \in [Browsers -> Nat]
    /\ joined \in [Browsers -> Nat]
    /\ got \in [Browsers -> Seq(Events)]

HubInit ==
    /\ clients = {}
    /\ sending = {}
    /\ hubLog = <<>>
    /\ conn = [c \in Browsers |-> "none"]
    /\ reader = [c \in Browsers |-> "off"]
    /\ writer = [c \in Browsers |-> "off"]
    /\ buf = [c \in Browsers |-> <<>>]
    /\ closes = [c \in Browsers |-> 0]
    /\ joined = [c \in Browsers |-> 0]
    /\ got = [c \in Browsers |-> <<>>]
----------------------------------------------------------------------------
\* Broadcast, called by the rest of the program: without clients the event is
\* dropped, otherwise a new goroutine takes it to the hub.
Broadcast(S) ==
    /\ sending' = IF clients = {} THEN sending ELSE sending \union S
    /\ UNCHANGED <<clients, hubLog, conn, reader, writer, buf, closes, joined, got>>

\* ServeWs upgrades the connection and waits for the hub to register the client.
Upgrade(c) ==
    /\ conn[c] = "none"
    /\ conn' = [conn EXCEPT ![c] = "upgraded"]
    /\ UNCHANGED <<clients, sending, hubLog, reader, writer, buf, closes, joined, got>>

HubRegister(c) ==
    /\ conn[c] = "upgraded"
    /\ clients' = clients \union {c}
    /\ joined' = [joined EXCEPT ![c] = Len(hubLog)]
    /\ conn' = [conn EXCEPT ![c] = "open"]
    /\ reader' = [reader EXCEPT ![c] = "on"]
    /\ writer' = [writer EXCEPT ![c] = "on"]
    /\ UNCHANGED <<sending, hubLog, buf, closes, got>>

\* Mutant: the hub does not look whether the client is still registered.
UnregisterAgain(c) ==
    /\ clients' = clients \ {c}
    /\ closes' = [closes EXCEPT ![c] = @ + 1]

\* Both pumps of a client ask to unregister it; the first one closes its channel.
Unregister(c) ==
    \/ /\ c \in clients
       /\ clients' = clients \ {c}
       /\ closes' = [closes EXCEPT ![c] = @ + 1]
    \/ c \notin clients /\ UNCHANGED <<clients, closes>>

\* A pump's deferred function: unregister, then close the connection.
ReaderLeaves(c) ==
    /\ reader[c] = "leaving"
    /\ Unregister(c)
    /\ reader' = [reader EXCEPT ![c] = "done"]
    /\ conn' = [conn EXCEPT ![c] = "broken"]
    /\ UNCHANGED <<sending, hubLog, writer, buf, joined, got>>

WriterLeaves(c) ==
    /\ writer[c] = "leaving"
    /\ Unregister(c)
    /\ writer' = [writer EXCEPT ![c] = "done"]
    /\ conn' = [conn EXCEPT ![c] = "broken"]
    /\ UNCHANGED <<sending, hubLog, reader, buf, joined, got>>

Full(c) == Len(buf[c]) >= SendBuffer

\* Mutant: an event that does not fit is skipped.
HubBroadcastSkipping(e) ==
    /\ e \in sending
    /\ sending' = sending \ {e}
    /\ hubLog' = Append(hubLog, e)
    /\ buf' = [c \in Browsers |-> IF c \in clients /\ ~Full(c) THEN Append(buf[c], e) ELSE buf[c]]
    /\ UNCHANGED <<clients, conn, reader, writer, closes, joined, got>>

\* The hub never waits for a client: one whose buffer is full is dropped.
HubBroadcast(e) ==
    /\ e \in sending
    /\ sending' = sending \ {e}
    /\ hubLog' = Append(hubLog, e)
    /\ buf' = [c \in Browsers |-> IF c \in clients /\ ~Full(c) THEN Append(buf[c], e) ELSE buf[c]]
    /\ clients' = {c \in clients : ~Full(c)}
    /\ closes' = [c \in Browsers |-> IF c \in clients /\ Full(c) THEN closes[c] + 1 ELSE closes[c]]
    /\ UNCHANGED <<conn, reader, writer, joined, got>>

ReaderFails(c) ==
    /\ reader[c] = "on"
    /\ conn[c] = "broken"
    /\ reader' = [reader EXCEPT ![c] = "leaving"]
    /\ UNCHANGED <<clients, sending, hubLog, conn, writer, buf, closes, joined, got>>

WriterSends(c) ==
    /\ writer[c] = "on"
    /\ buf[c] # <<>>
    /\ conn[c] = "open"
    /\ got' = [got EXCEPT ![c] = Append(@, Head(buf[c]))]
    /\ buf' = [buf EXCEPT ![c] = Tail(@)]
    /\ UNCHANGED <<clients, sending, hubLog, conn, reader, writer, closes, joined>>

\* A write fails, or its deadline passes: the event is lost, the pump returns.
WriterFails(c) ==
    /\ writer[c] = "on"
    /\ buf[c] # <<>>
    /\ buf' = [buf EXCEPT ![c] = Tail(@)]
    /\ writer' = [writer EXCEPT ![c] = "leaving"]
    /\ UNCHANGED <<clients, sending, hubLog, conn, reader, closes, joined, got>>

\* The channel is closed and empty, or a ping fails.
WriterStops(c) ==
    /\ writer[c] = "on"
    /\ \/ closes[c] > 0 /\ buf[c] = <<>>
       \/ conn[c] = "broken"
    /\ writer' = [writer EXCEPT ![c] = "leaving"]
    /\ UNCHANGED <<clients, sending, hubLog, conn, reader, buf, closes, joined, got>>

\* The browser goes away.
Break(c) ==
    /\ conn[c] = "open"
    /\ conn' = [conn EXCEPT ![c] = "broken"]
    /\ UNCHANGED <<clients, sending, hubLog, reader, writer, buf, closes, joined, got>>

Pump(c) ==
    \/ HubRegister(c) \/ ReaderFails(c) \/ ReaderLeaves(c)
    \/ WriterSends(c) \/ WriterFails(c) \/ WriterStops(c) \/ WriterLeaves(c)

HubStep ==
    \/ \E c \in Browsers : Upgrade(c) \/ Pump(c) \/ Break(c)
    \/ \E e \in Events : HubBroadcast(e)
----------------------------------------------------------------------------
(* Properties                                                              *)

Since(c) == SubSeq(hubLog, joined[c] + 1, Len(hubLog))

\* A browser is sent the events the hub has taken since it registered, in the hub's
\* order and without gaps, until it is disconnected: a slow one is dropped, never
\* served with an event missing.
StreamsHaveNoGaps ==
    \A c \in Browsers :
        /\ got[c] = SubSeq(Since(c), 1, Len(got[c]))
        /\ c \in clients /\ writer[c] = "on" => got[c] \o buf[c] = Since(c)

\* The hub closes a client's channel once and sends nothing on a closed one, either
\* of which would panic and stop it, although three parties ask for the closing.
ChannelsCloseOnce ==
    \A c \in Browsers : closes[c] = IF c \in clients \/ reader[c] = "off" THEN 0 ELSE 1
============================================================================
