-------------------------------- MODULE Relay --------------------------------
(***************************************************************************)
(* relay.c with the calls of gps_byte_received: the main thread copies the  *)
(* bytes of the GPS receiver to a TCP client and hands them over to the     *)
(* tcpip thread in API calls; the tcpip thread accepts, replaces and drops  *)
(* clients in lwIP's callbacks.  The main thread has the higher priority, so *)
(* the tcpip thread runs only while the main thread waits.                   *)
(***************************************************************************)
EXTENDS Naturals, Sequences, FiniteSets, SequencesExt

CONSTANTS
    Client,       \* connections
    RBUF_SIZE,    \* sizeof(rbuf), 16 in the code
    NBytes,       \* bytes the receiver sends
    MaxPackets,   \* TCP segments of each client
    MaxWaiting,   \* segments that wait in tcpip_queue at a time
    NOPCB

ASSUME RelayAssumption ==
    /\ RBUF_SIZE \in Nat \ {0} /\ {NBytes, MaxPackets, MaxWaiting} \subseteq Nat
    /\ NOPCB \notin Client \cup [type : {"accepted", "gone"}, pcb : Client]

VARIABLES
    rbuf, needs_flush, relay_client, client_sigil,
    pushed,         \* the number of bytes received; a byte is its number
    todo, waiting,  \* main thread: calls still to make; it waits for an answer
    tcpip_queue,    \* messages of the main thread and of the network
    event,          \* tcpip thread: the callback that is half done, NOPCB if none
    pcb, arg,       \* lwIP: the state of each connection and its tcp_arg
    packets,        \* network: segments of each client so far
    stream, since, starved  \* history: bytes given to lwIP for each client, bytes
                            \* received when it was accepted, a write for it failed

relay == <<rbuf, needs_flush>>
main  == <<todo, waiting, pushed>>
lwip  == <<pcb, arg>>
hist  == <<since, starved>>
rvars == <<relay, relay_client, client_sigil, main, tcpip_queue, event, lwip, packets,
           stream, hist>>

\* relay_server_start.
RelayInit ==
    /\ rbuf = << >> /\ needs_flush = FALSE /\ relay_client = NOPCB /\ client_sigil = 0
    /\ pushed = 0 /\ todo = << >> /\ waiting = FALSE
    /\ tcpip_queue = << >> /\ event = NOPCB
    /\ pcb = [c \in Client |-> "none"] /\ arg = [c \in Client |-> 0]
    /\ packets = [c \in Client |-> 0]
    /\ stream = [c \in Client |-> << >>] /\ since = [c \in Client |-> 0]
    /\ starved = [c \in Client |-> FALSE]

-----------------------------------------------------------------------------
(* The main thread. *)

relay_flush == <<"rbuf_flush", "output">>

\* gps_byte_received: after a gap, and after a complete packet, it flushes.
GpsByte(gap, complete) ==
    /\ todo = << >> /\ pushed < NBytes
    /\ todo' = (IF gap THEN relay_flush ELSE << >>) \o <<"push">>
               \o (IF complete THEN relay_flush ELSE << >>)
    /\ UNCHANGED <<relay, relay_client, client_sigil, waiting, pushed, tcpip_queue, event,
                   lwip, packets, stream, hist>>

Doing(call) == todo # << >> /\ Head(todo) = call /\ ~waiting

relay_push ==
    /\ Doing("push")
    /\ pushed' = pushed + 1
    /\ needs_flush' = TRUE
    /\ rbuf' = IF Len(rbuf) < RBUF_SIZE THEN Append(rbuf, pushed') ELSE rbuf
    /\ todo' = (IF Len(rbuf') = RBUF_SIZE THEN <<"rbuf_flush">> ELSE << >>) \o Tail(todo)
    /\ UNCHANGED <<relay_client, client_sigil, waiting, tcpip_queue, event, lwip, packets,
                   stream, hist>>

\* rbuf_flush reads relay_client here; the tcpip thread uses it when it comes to
\* the message.
rbuf_flush ==
    /\ Doing("rbuf_flush")
    /\ IF relay_client # NOPCB /\ rbuf # << >>
       THEN /\ tcpip_queue' = Append(tcpip_queue, [type |-> "write", pcb |-> relay_client])
            /\ waiting' = TRUE
            /\ UNCHANGED <<rbuf, todo>>
       ELSE /\ rbuf' = << >> /\ todo' = Tail(todo)
            /\ UNCHANGED <<tcpip_queue, waiting>>
    /\ UNCHANGED <<needs_flush, relay_client, client_sigil, pushed, event, lwip, packets,
                   stream, hist>>

\* The second half of relay_flush.
output ==
    /\ Doing("output")
    /\ IF relay_client # NOPCB /\ needs_flush
       THEN /\ tcpip_queue' = Append(tcpip_queue, [type |-> "output", pcb |-> relay_client])
            /\ waiting' = TRUE
            /\ UNCHANGED <<needs_flush, todo>>
       ELSE /\ needs_flush' = FALSE /\ todo' = Tail(todo)
            /\ UNCHANGED <<tcpip_queue, waiting>>
    /\ UNCHANGED <<rbuf, relay_client, client_sigil, pushed, event, lwip, packets, stream,
                   hist>>

-----------------------------------------------------------------------------
(* The tcpip thread and lwIP. *)

TcpipRuns == todo = << >> \/ waiting

Taken(type) == TcpipRuns /\ event = NOPCB /\ tcpip_queue # << >>
                 /\ Head(tcpip_queue).type = type

\* What lwIP does with a pointer it is given: nothing for a connection that is being
\* closed; for one whose memory was freed, whatever now lives in that memory.
Reached(c) == CASE pcb[c] = "open" -> {c}
                [] pcb[c] = "freed" -> {d \in Client : pcb[d] = "open"} \cup {NOPCB}
                [] OTHER -> {NOPCB}

\* do_tcp_write, and the return to rbuf_flush, which ignores an error.
ApiWrite ==
    /\ Taken("write")
    /\ \E c \in Reached(Head(tcpip_queue).pcb), ok \in BOOLEAN :
          /\ stream' = IF c # NOPCB /\ ok THEN [stream EXCEPT ![c] = @ \o rbuf] ELSE stream
          /\ starved' = IF c # NOPCB /\ ~ok THEN [starved EXCEPT ![c] = TRUE] ELSE starved
    /\ rbuf' = << >> /\ todo' = Tail(todo) /\ waiting' = FALSE
    /\ tcpip_queue' = Tail(tcpip_queue)
    /\ UNCHANGED <<needs_flush, relay_client, client_sigil, pushed, event, lwip, packets,
                   since>>

ApiOutput ==
    /\ Taken("output")
    /\ needs_flush' = FALSE /\ todo' = Tail(todo) /\ waiting' = FALSE
    /\ tcpip_queue' = Tail(tcpip_queue)
    /\ UNCHANGED <<rbuf, relay_client, client_sigil, pushed, event, lwip, packets, stream,
                   hist>>

\* A segment of a client arrives: it connects, sends data, closes or resets.
Packet(c, type) ==
    /\ packets[c] < MaxPackets /\ Len(tcpip_queue) < MaxWaiting
    /\ packets' = [packets EXCEPT ![c] = @ + 1]
    /\ (type = "syn") <=> (packets[c] = 0)
    /\ tcpip_queue' = Append(tcpip_queue, [type |-> type, pcb |-> c])
    /\ UNCHANGED <<relay, relay_client, client_sigil, main, event, lwip, stream, hist>>

Allocated(c) == pcb[c] \in {"open", "closed"}

\* relay_accept: the log message, then the old client is closed ...
relay_accept ==
    LET c == Head(tcpip_queue).pcb IN
    /\ Taken("syn")
    /\ tcpip_queue' = Tail(tcpip_queue)
    /\ pcb' = [d \in Client |-> IF d = c THEN "open"
                                ELSE IF d = relay_client THEN "closed" ELSE pcb[d]]
    /\ event' = [type |-> "accepted", pcb |-> c]
    /\ UNCHANGED <<relay, relay_client, client_sigil, main, arg, packets, stream, hist>>

\* ... and the new one takes its place.
relay_accepted ==
    /\ TcpipRuns /\ event # NOPCB /\ event.type = "accepted"
    /\ relay_client' = event.pcb
    /\ client_sigil' = client_sigil + 1
    /\ arg' = [arg EXCEPT ![event.pcb] = client_sigil']
    /\ since' = [since EXCEPT ![event.pcb] = pushed]
    /\ event' = NOPCB
    /\ UNCHANGED <<relay, main, tcpip_queue, pcb, packets, stream, starved>>

\* client_recv with data: it goes to the receiver, or the connection is aborted,
\* which calls client_err with the old number.
client_recv_data ==
    LET c == Head(tcpip_queue).pcb IN
    /\ Taken("data")
    /\ tcpip_queue' = Tail(tcpip_queue)
    /\ pcb' = IF Allocated(c) /\ arg[c] # client_sigil
              THEN [pcb EXCEPT ![c] = "freed"] ELSE pcb
    /\ UNCHANGED <<relay, relay_client, client_sigil, main, event, arg, packets, stream,
                   hist>>

\* client_recv without data: tcp_close, ...
client_recv_close ==
    LET c == Head(tcpip_queue).pcb IN
    /\ Taken("fin")
    /\ tcpip_queue' = Tail(tcpip_queue)
    /\ pcb' = [pcb EXCEPT ![c] = IF Allocated(c) THEN "closed" ELSE @]
    /\ event' = IF Allocated(c) THEN [type |-> "gone", pcb |-> c] ELSE NOPCB
    /\ UNCHANGED <<relay, relay_client, client_sigil, main, arg, packets, stream, hist>>

\* Fault: a client that was replaced takes its successor along.
ForgetFault(c) == relay_client' = NOPCB

\* relay_client is cleared for the client it stands for, not for an old one.
Forget(c) == relay_client' = IF arg[c] = client_sigil THEN NOPCB ELSE relay_client

\* ... then the pointer is cleared.
client_recv_closed ==
    /\ TcpipRuns /\ event # NOPCB /\ event.type = "gone"
    /\ Forget(event.pcb)
    /\ event' = NOPCB
    /\ UNCHANGED <<relay, client_sigil, main, tcpip_queue, lwip, packets, stream, hist>>

\* A reset: lwIP calls client_err and frees the pcb.
client_err ==
    LET c == Head(tcpip_queue).pcb IN
    /\ Taken("rst")
    /\ tcpip_queue' = Tail(tcpip_queue)
    /\ IF Allocated(c)
       THEN Forget(c) /\ pcb' = [pcb EXCEPT ![c] = "freed"]
       ELSE UNCHANGED <<relay_client, pcb>>
    /\ UNCHANGED <<relay, client_sigil, main, event, arg, packets, stream, hist>>

\* lwIP frees a pcb once the connection has ended.
ConnectionEnds(c) ==
    /\ TcpipRuns /\ event = NOPCB /\ pcb[c] = "closed"
    /\ pcb' = [pcb EXCEPT ![c] = "freed"]
    /\ UNCHANGED <<relay, relay_client, client_sigil, main, tcpip_queue, event, arg, packets,
                   stream, hist>>

-----------------------------------------------------------------------------

RelayNext ==
    \/ \E gap, complete \in BOOLEAN : GpsByte(gap, complete)
    \/ relay_push \/ rbuf_flush \/ output
    \/ ApiWrite \/ ApiOutput
    \/ \E c \in Client, t \in {"syn", "data", "fin", "rst"} : Packet(c, t)
    \/ relay_accept \/ relay_accepted \/ client_recv_data \/ client_recv_close
    \/ client_recv_closed \/ client_err
    \/ \E c \in Client : ConnectionEnds(c)

RelaySpec == RelayInit /\ [][RelayNext]_rvars

-----------------------------------------------------------------------------

\* Between callbacks relay_client is the client accepted last, as long as that one is
\* connected, and NOPCB afterwards: late callbacks of a client that was replaced change
\* nothing, and no callback leaves a pointer to a connection it has closed.
RelayClientRight ==
    event = NOPCB =>
        IF relay_client = NOPCB
        THEN \A c \in Client : pcb[c] = "open" => arg[c] # client_sigil
        ELSE pcb[relay_client] = "open" /\ arg[relay_client] = client_sigil

\* A client never sees a byte of the receiver twice or out of order, whichever
\* connection a call with an outdated pointer ends up on; and the client that is
\* served misses none that came in since it was accepted, unless lwIP had no memory.
RelayStream ==
    \A c \in Client :
        /\ \A i, j \in DOMAIN stream[c] : i < j => stream[c][i] < stream[c][j]
        /\ (c = relay_client /\ todo = << >> /\ ~starved[c])
           => since[c] + 1 .. pushed \subseteq ToSet(stream[c] \o rbuf)

\* The relay serves the client it has: it is the one accepted last, and it gets the
\* receiver's bytes in order and without a gap.
RelayRight == RelayClientRight /\ RelayStream
=============================================================================
