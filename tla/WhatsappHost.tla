----------------------------- MODULE WhatsappHost -----------------------------
(***************************************************************************)
(* The host adapter of the WhatsApp channel (whatsapp.channel.service.ts):  *)
(* start connects, a connection that closes is made again unless the phone  *)
(* logged out or the channel is stopping, stop ends the socket it knows.    *)
(*                                                                         *)
(* connect has two awaits (loading baileys, reading the credentials) before *)
(* it makes its socket; stop, and events of other sockets, may come in      *)
(* between.  A socket is baileys' (external): it lives from makeWASocket    *)
(* until one connection.update says "close", which end() emits at once.     *)
(***************************************************************************)
EXTENDS Integers, FiniteSets

CONSTANTS
    MaxSockets, \* bound: sockets made
    MaxStarts,  \* bound: calls of start
    NoSocket

ASSUME HostAssumption ==
    /\ {MaxSockets, MaxStarts} \subseteq Nat
    /\ NoSocket \notin Nat

Sockets == 1..MaxSockets

VARIABLES
    stopping,  \* set by stop, reset by start
    sock,      \* the socket the service knows
    socket,    \* every socket: "none" before it is made, "live", "closed"
    loading,   \* calls of connect that wait for baileys
    reading,   \* calls of connect that wait for the credentials
    loggedOut, \* history: a socket was closed by a log-out since the last start
    failed,    \* history: a connect threw
    starts     \* what is left of MaxStarts

hostVars == <<stopping, sock, socket, loading, reading, loggedOut, failed, starts>>

HostInit ==
    /\ stopping = FALSE
    /\ sock = NoSocket
    /\ socket = [s \in Sockets |-> "none"]
    /\ loading = 0 /\ reading = 0
    /\ loggedOut = FALSE /\ failed = FALSE
    /\ starts = MaxStarts

LiveSockets == {s \in Sockets : socket[s] = "live"}

\* Application bootstrap, with the channel enabled.
Start ==
    /\ starts > 0
    /\ starts' = starts - 1
    /\ stopping' = FALSE
    /\ loggedOut' = FALSE
    /\ loading' = loading + 1
    /\ UNCHANGED <<sock, socket, reading, failed>>

BaileysLoaded ==
    /\ loading > 0
    /\ loading' = loading - 1 /\ reading' = reading + 1
    /\ UNCHANGED <<stopping, sock, socket, loggedOut, failed, starts>>

\* The credentials are read: the socket is made, and becomes the one the service knows.
MakeSocket ==
    /\ reading > 0
    /\ reading' = reading - 1
    /\ \E s \in Sockets :
          /\ socket[s] = "none" /\ \A r \in 1..(s - 1) : socket[r] # "none"
          /\ socket' = [socket EXCEPT ![s] = "live"]
          /\ sock' = s
    /\ UNCHANGED <<stopping, loading, loggedOut, failed, starts>>

\* Loading or reading throws: start rejects, or the reconnect's promise does, unhandled.
ConnectThrows ==
    /\ \/ loading > 0 /\ loading' = loading - 1 /\ UNCHANGED reading
       \/ reading > 0 /\ reading' = reading - 1 /\ UNCHANGED loading
    /\ failed' = TRUE
    /\ UNCHANGED <<stopping, sock, socket, loggedOut, starts>>

\* Mutant: any connection.update of a socket is taken for its close.
CloseTakesAnyUpdate(s) ==
    /\ socket[s] = "live"
    /\ socket' \in {socket, [socket EXCEPT ![s] = "closed"]}
    /\ loading' = IF stopping THEN loading ELSE loading + 1
    /\ UNCHANGED <<stopping, sock, reading, loggedOut, failed, starts>>

\* Mutant: a lost connection is not made again.
CloseGivesUp(s) ==
    /\ socket[s] = "live"
    /\ socket' = [socket EXCEPT ![s] = "closed"]
    /\ \E logout \in BOOLEAN : loggedOut' = (loggedOut \/ logout)
    /\ UNCHANGED <<stopping, sock, loading, reading, failed, starts>>

\* The connection closes by itself.
Close(s) ==
    /\ socket[s] = "live"
    /\ socket' = [socket EXCEPT ![s] = "closed"]
    /\ \E logout \in BOOLEAN :
          /\ loggedOut' = (loggedOut \/ logout)
          /\ loading' = IF logout \/ stopping THEN loading ELSE loading + 1
    /\ UNCHANGED <<stopping, sock, reading, failed, starts>>

\* Shutdown: the known socket is ended; its close event finds the channel stopping.
Stop ==
    /\ stopping' = TRUE
    /\ socket' = [s \in Sockets |-> IF s = sock THEN "closed" ELSE socket[s]]
    /\ sock' = NoSocket
    /\ UNCHANGED <<loading, reading, loggedOut, failed, starts>>

HostNext ==
    \/ Start \/ BaileysLoaded \/ MakeSocket \/ ConnectThrows \/ Stop
    \/ \E s \in Sockets : Close(s)

HostSpec == HostInit /\ [][HostNext]_hostVars

\* Awaited loads and reads settle; connections, stops and errors come as they like.
FairHostSpec == HostSpec /\ WF_hostVars(BaileysLoaded) /\ WF_hostVars(MakeSocket)

-----------------------------------------------------------------------------
(* Properties *)

Attempts == loading + reading + Cardinality(LiveSockets)

\* One start never leads to two connections at a time, since a reconnect follows the one
\* close of the one socket, and to none once the pairing was logged out; and the socket of a
\* channel that was not stopped is the one stop would end.
OneConnection ==
    /\ Attempts + starts <= MaxStarts
    /\ loggedOut => Attempts = 0
    /\ ~stopping => \A s \in LiveSockets : sock = s

\* A connection that is lost, while the channel runs, is made again unless connect
\* throws.
Reconnects ==
    (\E s \in Sockets : socket[s] = "closed")
        ~> (LiveSockets # {} \/ stopping \/ loggedOut \/ failed \/ socket[MaxSockets] # "none")
=============================================================================
