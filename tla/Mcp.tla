-------------------------------- MODULE Mcp --------------------------------
(***************************************************************************)
(* One MCP server as the host sees it: the connection (mcp/connection.rs), *)
(* and the tools and the selector built on it (mcp/bridge.rs).             *)
(*                                                                         *)
(* A catalog is the signature discovery computes; 0 is the empty catalog.  *)
(* The host assembles tool schemas once, when startup is over; `frozen`    *)
(* says so.  `live` is an RwLock: calls hold it for reading, connect and   *)
(* shutdown for writing.                                                   *)
(***************************************************************************)
EXTENDS Integers, FiniteSets

CONSTANTS
    Calls,        \* tool calls of the runs
    Catalogs,     \* signatures the remote server may offer, positive
    MaxDials      \* bound: connections opened

VARIABLES
    remote,       \* the catalog the server offers now
    frozen, assembled,   \* startup is over; the catalog the host's tools were built from
    catalog, changed,    \* Connection.catalog, Handler.changed
    live,         \* the installed service: its number, catalog and whether its transport is up
    dial, dials,  \* connect in progress, connections opened so far
    calls,        \* per call: where it is, and over which service it went
    stop,         \* "up", "stopping" (token cancelled), "down"
    told          \* calls for which the server was sent notifications/cancelled

mcpVars == <<remote, frozen, assembled, catalog, changed, live, dial, dials, calls, stop, told>>

NoService == [no |-> 0, signature |-> 0, open |-> FALSE]

Init ==
    /\ remote \in Catalogs
    /\ frozen = FALSE /\ assembled = 0
    /\ catalog = 0 /\ changed = FALSE
    /\ live = NoService
    /\ dial = [pc |-> "dialing", signature |-> 0] /\ dials = 1
    /\ calls = [c \in Calls |-> [pc |-> "idle", over |-> 0]]
    /\ stop = "up"
    /\ told = {}

Readers == {c \in Calls : calls[c].pc \in {"locked", "sent", "failing"}}
\* The write guard of connect, or shutdown waiting for it: tokio queues readers behind a writer.
WriterFirst == dial.pc # "idle" \/ stop # "up"

\* Connection::available, through view
Available == live.open /\ ~changed /\ stop = "up"

-----------------------------------------------------------------------------
\* connect

\* Service::reconnect: refused while a call holds the lock; the old service is closed and `changed`
\* cleared before the new transport is up.
Connect ==
    /\ frozen /\ stop = "up" /\ dial.pc = "idle" /\ Readers = {}
    /\ dials < MaxDials
    /\ live' = NoService
    /\ dials' = dials + 1
    /\ \/ changed' = FALSE /\ dial' = [pc |-> "dialing", signature |-> 0]
       \/ live # NoService /\ UNCHANGED <<changed, dial>>   \* the old service does not close
    /\ UNCHANGED <<remote, frozen, assembled, catalog, calls, stop, told>>

\* connect returned: Service::connect freezes the catalog, from which the host assembles its tools.
Finish(found) ==
    /\ dial' = [pc |-> "idle", signature |-> 0]
    /\ frozen' = TRUE
    /\ assembled' = IF frozen THEN assembled ELSE found

\* The executable is missing, the handshake or a page of tools/list fails, time is up, or the host
\* stops: the half-open transport is dropped.
DialFails ==
    /\ dial.pc \in {"dialing", "found"}
    /\ Finish(0)
    /\ UNCHANGED <<remote, catalog, changed, live, dials, calls, stop, told>>

\* discover: every page of tools/list, the names, schemas and limits in order.
Discover ==
    /\ dial.pc = "dialing" /\ stop = "up"
    /\ dial' = [pc |-> "found", signature |-> remote]
    /\ UNCHANGED <<remote, frozen, assembled, catalog, changed, live, dials, calls, stop, told>>

\* Mutant: the catalog of the new connection is not compared.
InstallAnything ==
    /\ dial.pc = "found"
    /\ live' = [no |-> dials, signature |-> dial.signature, open |-> TRUE]
    /\ catalog' = dial.signature
    /\ Finish(dial.signature)
    /\ UNCHANGED <<remote, changed, dials, calls, stop, told>>

\* After startup only the catalog the host was assembled from is accepted.
Install ==
    /\ dial.pc = "found"
    /\ IF frozen /\ dial.signature # catalog
       THEN /\ changed' = TRUE
            /\ UNCHANGED <<catalog, live>>
       ELSE /\ catalog' = dial.signature
            /\ live' = [no |-> dials, signature |-> dial.signature, open |-> TRUE]
            /\ UNCHANGED changed
    /\ Finish(dial.signature)
    /\ UNCHANGED <<remote, dials, calls, stop, told>>

-----------------------------------------------------------------------------
\* The remote server

\* It changes its tools, and says so while a transport is up, or does not.
RemoteChanges(v) ==
    /\ v # remote
    /\ remote' = v
    /\ changed' \in {changed, changed \/ live.open \/ dial.pc # "idle"}
    /\ UNCHANGED <<frozen, assembled, catalog, live, dial, dials, calls, stop, told>>

TransportCloses ==
    /\ live.open
    /\ live' = [live EXCEPT !.open = FALSE]
    /\ UNCHANGED <<remote, frozen, assembled, catalog, changed, dial, dials, calls, stop, told>>

-----------------------------------------------------------------------------
\* A call

Move(c, pc) == calls' = [calls EXCEPT ![c].pc = pc]

\* select: the model is offered the tools of an available connection.
Offer(c) ==
    /\ calls[c].pc = "idle" /\ frozen /\ assembled # 0
    /\ Available
    /\ Move(c, "offered")
    /\ UNCHANGED <<remote, frozen, assembled, catalog, changed, live, dial, dials, stop, told>>

\* request: the flag is read before the lock is asked for.
Request(c) ==
    /\ calls[c].pc = "offered"
    /\ Move(c, IF changed THEN "refused" ELSE "checked")
    /\ UNCHANGED <<remote, frozen, assembled, catalog, changed, live, dial, dials, stop, told>>

Lock(c) ==
    /\ calls[c].pc = "checked" /\ ~WriterFirst
    /\ Move(c, IF live.open THEN "locked" ELSE "refused")
    /\ UNCHANGED <<remote, frozen, assembled, catalog, changed, live, dial, dials, stop, told>>

\* request_on up to the send: cancellation, stop and deadline come first, and nothing is sent then.
Send(c) ==
    /\ calls[c].pc = "locked"
    /\ \/ stop = "up" /\ calls' = [calls EXCEPT ![c] = [pc |-> "sent", over |-> live.no]]
       \/ Move(c, "refused")
    /\ UNCHANGED <<remote, frozen, assembled, catalog, changed, live, dial, dials, stop, told>>

Answer(c) ==
    /\ calls[c].pc = "sent" /\ live.open
    /\ Move(c, "answered")
    /\ UNCHANGED <<remote, frozen, assembled, catalog, changed, live, dial, dials, stop, told>>

\* Cancelled, stopped, timed out or failed remotely: the call is never sent again.
GiveUp(c) ==
    /\ calls[c].pc = "sent"
    /\ Move(c, "failing")
    /\ UNCHANGED <<remote, frozen, assembled, catalog, changed, live, dial, dials, stop, told>>

\* notifications/cancelled, while the lock is still held.
Tell(c) ==
    /\ calls[c].pc = "failing"
    /\ Move(c, "failed")
    /\ told' = told \cup {c}
    /\ UNCHANGED <<remote, frozen, assembled, catalog, changed, live, dial, dials, stop>>

\* The runtime drops the call's future at any await; CancelOnDrop tells the server of a sent one.
Drop(c) ==
    /\ calls[c].pc \in {"checked", "locked", "sent", "failing"}
    /\ Move(c, "failed")
    /\ told' = IF calls[c].pc \in {"sent", "failing"} THEN told \cup {c} ELSE told
    /\ UNCHANGED <<remote, frozen, assembled, catalog, changed, live, dial, dials, stop>>

\* Service::shutdown: the token first, then the write lock, which waits for every call.
Stop ==
    /\ frozen /\ stop = "up"
    /\ stop' = "stopping"
    /\ UNCHANGED <<remote, frozen, assembled, catalog, changed, live, dial, dials, calls, told>>

Close ==
    /\ stop = "stopping" /\ dial.pc = "idle" /\ Readers = {}
    /\ stop' = "down"
    /\ live' = NoService
    /\ UNCHANGED <<remote, frozen, assembled, catalog, changed, dial, dials, calls, told>>

Next ==
    \/ Connect \/ DialFails \/ Discover \/ Install
    \/ \E v \in Catalogs : RemoteChanges(v)
    \/ TransportCloses
    \/ \E c \in Calls :
        Offer(c) \/ Request(c) \/ Lock(c) \/ Send(c) \/ Answer(c) \/ GiveUp(c) \/ Tell(c) \/ Drop(c)
    \/ Stop \/ Close

-----------------------------------------------------------------------------

\* A request is in flight only over the installed service, and that service offered exactly the
\* catalog the host assembled its tool schemas from: reconnecting neither closes a service under a
\* call nor brings other schemas in behind a call that was offered earlier (connection.rs connect,
\* request).
CallOverAssembled ==
    \A c \in Calls : calls[c].pc \in {"sent", "failing"} =>
        live.no = calls[c].over /\ live.signature = assembled

\* A call that went out and was not answered is announced to the server as cancelled, however the
\* caller stopped waiting (connection.rs request_on, CancelOnDrop).
AbandonedIsTold ==
    \A c \in Calls : calls[c].pc = "failed" /\ calls[c].over # 0 => c \in told

\* A call runs against the tools the host assembled, and one that is given up is cancelled remotely.
CallsSound == CallOverAssembled /\ AbandonedIsTold
=============================================================================
