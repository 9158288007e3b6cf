-------------------------------- MODULE Tcp --------------------------------
(***************************************************************************)
(* TCP connections and the sockets above them (kernel/net/tcp.c,           *)
(* kernel/net/socket.c), with the machines at the other end.               *)
(*                                                                         *)
(* The table of connections and the hash chains through it are kept as the *)
(* code keeps them.  A segment of a remote machine may be lost, delayed,   *)
(* doubled or overtaken: any segment it could have sent so far may arrive  *)
(* at any time.  Kernel code of a process is one step up to the places     *)
(* where it waits; tcp_receive is two, because a segment can arrive at the *)
(* tick between its copying and its update of recv_len.                    *)
(*                                                                         *)
(* One tick of the model is TCP_RETRANSMIT_TICKS of the clock.             *)
(***************************************************************************)
EXTENDS Integers, Sequences, FiniteSets, SequencesExt, FiniteSetsExt

CONSTANTS MaxConnections,   \* TCP_MAX_CONNECTIONS
          Buckets,          \* TCP_HASH_BUCKETS
          Backlog,          \* TCP_LISTEN_BACKLOG
          BufferSize,       \* TCP_RECV_BUFFER_SIZE
          MaxSockets,       \* GALIO_SOCKET_MAX
          ConnectTimeout, MaxRetries,
          Clients, Servers, \* remote machines that call, and that are called
          NoPeer,
          ListenPorts, FirstPort,
          StreamLength,     \* bytes a remote machine sends
          MaxTicks, MaxOpens, MaxSent

VARIABLES tcp,       \* [conn: the table, head: the hash chains]
          sockets,   \* socket_table, and where its process is in a call
          now, tcp_ephemeral_port,
          dialled,   \* for a client: the port it called and what it acknowledges
          heard,     \* the SYN and SYN|ACK segments sent to remote machines
          hist,      \* history: what each connection's user sent and was given
          dropped,   \* history: connections no queue had room for
          order,     \* history: handshakes completed and not yet accepted
          delayed    \* history: a connecting process was kept waiting too long

tcpVars == <<tcp, sockets, now, tcp_ephemeral_port, dialled, heard, hist,
             dropped, order, delayed>>

Slots == 0 .. MaxConnections - 1
None == MaxConnections
Socks == 0 .. MaxSockets - 1
Conn == tcp.conn

\* A slot after the memset and the assignments of tcp_alloc.
Fresh ==
    [used |-> TRUE, state |-> "CLOSED", peer |-> NoPeer, port |-> 0,
     seq |-> 0, remote_seq |-> 0, last |-> 0, retries |-> 0,
     bucket |-> 0, linked |-> FALSE, next |-> None,
     listener |-> FALSE, parent |-> 0,
     pending |-> [k \in 0 .. Backlog - 1 |-> 0], first |-> 0, count |-> 0,
     buffer |-> [k \in 0 .. BufferSize - 1 |-> 0], recv_len |-> 0]

NoSocket ==
    [used |-> FALSE, connected |-> FALSE, listening |-> FALSE, closing |-> FALSE,
     tcp_id |-> 0, port |-> 0, phase |-> "idle", slot |-> 0, start |-> 0, n |-> 0]

NoHistory == [iss |-> 0, sent |-> 0, got |-> <<>>, spoiled |-> FALSE]

tcp_init ==
    /\ tcp = [conn |-> [i \in Slots |-> [Fresh EXCEPT !.used = FALSE, !.next = 0]],
              head |-> [b \in 0 .. Buckets - 1 |-> None]]
    /\ sockets = [s \in Socks |-> NoSocket]
    /\ now = 0
    /\ tcp_ephemeral_port = FirstPort
    /\ dialled = [c \in Clients |-> [port |-> 0, ack |-> 0]]
    /\ heard = {}
    /\ hist = [i \in Slots |-> NoHistory]
    /\ dropped = {}
    /\ order = [i \in Slots |-> <<>>]
    /\ delayed = FALSE

----------------------------------------------------------------------------
(* The hash chains. *)

\* The hash of addresses and ports, any function of the two ends.
tcp_tuple_hash(peer, port) ==
    (port + (IF peer \in Clients THEN 0 ELSE 1)) % Buckets

\* The slot after n links of a chain, None past its end.
Walk(t, b) ==
    LET at[n \in 0 .. MaxConnections] ==
            IF n = 0 THEN t.head[b]
            ELSE IF at[n - 1] = None THEN None ELSE t.conn[at[n - 1]].next
    IN  at

tcp_hash_insert(t, i) ==
    LET b == tcp_tuple_hash(t.conn[i].peer, t.conn[i].port) IN
    [t EXCEPT !.conn[i].bucket = b,
              !.conn[i].next = t.head[b],
              !.conn[i].linked = TRUE,
              !.head[b] = i]

\* Take slot i out behind the link that was walked to.
CutOut(t, i, walk) ==
    LET found == {n \in DOMAIN walk : walk[n] = i} IN
    IF found = {} THEN t
    ELSE IF Min(found) = 0
         THEN [t EXCEPT !.head[t.conn[i].bucket] = t.conn[i].next]
         ELSE [t EXCEPT !.conn[walk[Min(found) - 1]].next = t.conn[i].next]

tcp_hash_remove(t, i) ==
    IF t.conn[i].linked
    THEN [CutOut(t, i, Walk(t, t.conn[i].bucket)) EXCEPT !.conn[i].linked = FALSE]
    ELSE t

Release(t, i) == [tcp_hash_remove(t, i) EXCEPT !.conn[i].used = FALSE]

\* The first connection of the chain with these two ends, None if there is none.
tcp_lookup(peer, port) ==
    LET walk == Walk(tcp, tcp_tuple_hash(peer, port))
        hits == {n \in DOMAIN walk :
                   /\ walk[n] # None
                   /\ Conn[walk[n]].used
                   /\ Conn[walk[n]].peer = peer
                   /\ Conn[walk[n]].port = port}
    IN  IF hits = {} THEN None ELSE walk[Min(hits)]

FirstOrNone(S) == IF S = {} THEN None ELSE Min(S)

tcp_find_listener(port) ==
    FirstOrNone({i \in Slots : Conn[i].used /\ Conn[i].listener /\ Conn[i].port = port})

tcp_alloc == FirstOrNone({i \in Slots : ~Conn[i].used})

FreeSockets == {s \in Socks : ~sockets[s].used}

----------------------------------------------------------------------------
(* Segments sent.  A segment that cannot be sent (no route, no address, no
   buffer) leaves the sequence number as it was. *)

\* 0x1000 + pit_get_ticks(): nothing is added within a tick.
InitialSeq == 1000 * (now + 1)

SendSyn(t, i, ok) == IF ok THEN [t EXCEPT !.conn[i].seq = @ + 1] ELSE t

\* What the other end may hear of a SYN (of which only the ports count, since the
\* number its answer acknowledges is not looked at) or a SYN|ACK of slot i.
HeardSyn(t, i, ok) ==
    IF ok THEN {[to |-> t.conn[i].peer, port |-> t.conn[i].port, seq |-> 0]} ELSE {}

HeardSynAck(t, i, ok) ==
    IF ok THEN {[to |-> t.conn[i].peer, port |-> t.conn[i].port, seq |-> t.conn[i].seq]}
    ELSE {}

----------------------------------------------------------------------------
(* The socket calls. *)

Idle(s) == sockets[s].used /\ sockets[s].phase = "idle"
Slot(s) == sockets[s].tcp_id - 1

socket_create ==
    /\ FreeSockets # {}
    /\ sockets' = [sockets EXCEPT ![Min(FreeSockets)] = [NoSocket EXCEPT !.used = TRUE]]
    /\ UNCHANGED <<tcp, now, tcp_ephemeral_port, dialled, heard, hist, dropped, order, delayed>>

socket_bind_fd(s, port) ==
    /\ Idle(s) /\ ~sockets[s].connected
    /\ sockets' = [sockets EXCEPT ![s].port = port]
    /\ UNCHANGED <<tcp, now, tcp_ephemeral_port, dialled, heard, hist, dropped, order, delayed>>

tcp_listen(i, port) ==
    /\ tcp' = [tcp EXCEPT !.conn[i] = [Fresh EXCEPT !.listener = TRUE, !.port = port]]
    /\ hist' = [hist EXCEPT ![i] = NoHistory]
    /\ order' = [order EXCEPT ![i] = <<>>]

socket_listen_fd(s) ==
    /\ Idle(s) /\ ~sockets[s].connected /\ sockets[s].port # 0
    /\ tcp_alloc # None
    /\ tcp_listen(tcp_alloc, sockets[s].port)
    /\ sockets' = [sockets EXCEPT ![s].tcp_id = tcp_alloc + 1, ![s].listening = TRUE]
    /\ UNCHANGED <<now, tcp_ephemeral_port, dialled, heard, dropped, delayed>>

\* tcp_connect up to its wait: the slot is filled in, linked, and the SYN sent.
Opening(i, peer) ==
    tcp_hash_insert([tcp EXCEPT !.conn[i] =
                        [Fresh EXCEPT !.peer = peer, !.port = tcp_ephemeral_port,
                                      !.seq = InitialSeq, !.last = now,
                                      !.state = "SYN_SENT"]], i)

BeginConnect(s, peer) ==
    LET i == tcp_alloc  t == Opening(i, peer) IN
    /\ tcp' = SendSyn(t, i, TRUE)
    /\ heard' = heard \union HeardSyn(t, i, TRUE)
    /\ hist' = [hist EXCEPT ![i] = [NoHistory EXCEPT !.iss = InitialSeq]]
    /\ sockets' = [sockets EXCEPT ![s].phase = "connecting", ![s].slot = i, ![s].start = now]
    /\ tcp_ephemeral_port' = tcp_ephemeral_port + 1

\* The SYN could not be sent.
FailConnect(peer) ==
    /\ tcp' = Release(Opening(tcp_alloc, peer), tcp_alloc)
    /\ tcp_ephemeral_port' = tcp_ephemeral_port + 1
    /\ hist' = [hist EXCEPT ![tcp_alloc] = NoHistory]
    /\ UNCHANGED <<heard, sockets>>

\* No device leads to the other machine: the slot was cleared, and is given back.
NoRoute ==
    /\ tcp' = [tcp EXCEPT !.conn[tcp_alloc] = [Fresh EXCEPT !.used = FALSE]]
    /\ UNCHANGED <<heard, sockets, tcp_ephemeral_port, hist>>

socket_connect_fd(s, peer) ==
    /\ Idle(s) /\ ~sockets[s].connected
    /\ tcp_alloc # None
    /\ tcp_ephemeral_port < FirstPort + MaxOpens
    /\ BeginConnect(s, peer) \/ FailConnect(peer) \/ NoRoute
    /\ UNCHANGED <<now, dialled, dropped, order, delayed>>

\* The wait of tcp_connect is over.
TimedOut(s) == sockets[s].phase = "connecting" /\ now - sockets[s].start >= ConnectTimeout
WaitOver(s) ==
    /\ sockets[s].phase = "connecting"
    /\ Conn[sockets[s].slot].state # "SYN_SENT" \/ TimedOut(s)

Woken(s) == [sockets EXCEPT ![s].phase = "idle", ![s].slot = 0, ![s].start = 0, ![s].n = 0]

FinishConnect(s) ==
    LET i == sockets[s].slot IN
    /\ WaitOver(s)
    /\ IF Conn[i].state = "ESTABLISHED"
       THEN /\ sockets' = [Woken(s) EXCEPT ![s].tcp_id = i + 1, ![s].connected = TRUE]
            /\ UNCHANGED tcp
       ELSE /\ sockets' = Woken(s)
            /\ tcp' = Release(tcp, i)
    /\ UNCHANGED <<now, tcp_ephemeral_port, dialled, heard, hist, dropped, order, delayed>>

TakePending(l) ==
    [tcp EXCEPT !.conn[l].first = (@ + 1) % Backlog, !.conn[l].count = @ - 1]

Refused(t, child) == Release(t, child)

Accepted(child) == [NoSocket EXCEPT !.used = TRUE, !.connected = TRUE, !.tcp_id = child + 1]

\* tcp_accept once a connection is pending, and the socket made for it.
socket_accept_fd(s) ==
    LET l == Slot(s)  child == Conn[l].pending[Conn[l].first] IN
    /\ Idle(s) /\ sockets[s].listening /\ sockets[s].tcp_id # 0
    /\ Conn[l].used /\ Conn[l].listener /\ Conn[l].count > 0
    /\ order' = [order EXCEPT ![l] = Tail(@)]
    /\ IF FreeSockets # {}
       THEN /\ sockets' = [sockets EXCEPT ![Min(FreeSockets)] = Accepted(child)]
            /\ tcp' = TakePending(l)
       ELSE /\ tcp' = Refused(TakePending(l), child)
            /\ UNCHANGED sockets
    /\ UNCHANGED <<now, tcp_ephemeral_port, dialled, heard, hist, dropped, delayed>>

SendByte(t, i) == [t EXCEPT !.conn[i].seq = @ + 1]

\* tcp_send of one byte.
socket_send_fd(s) ==
    LET i == Slot(s) IN
    /\ Idle(s) /\ sockets[s].connected
    /\ Conn[i].used /\ Conn[i].state = "ESTABLISHED"
    /\ hist[i].sent < MaxSent
    /\ tcp' = SendByte(tcp, i)
    /\ hist' = [hist EXCEPT ![i].sent = @ + 1]
    /\ UNCHANGED <<sockets, now, tcp_ephemeral_port, dialled, heard, dropped, order, delayed>>

\* The bytes behind the n that were read move to the front.
Shifted(c, n) ==
    [k \in DOMAIN c.buffer |->
        IF k < c.recv_len - n THEN c.buffer[k + n] ELSE c.buffer[k]]

Bytes(c, n) == [k \in 1 .. n |-> c.buffer[k - 1]]

\* tcp_receive up to the update of recv_len: n bytes are copied, the rest moved.
BeginReceive(s, n) ==
    LET i == Slot(s) IN
    /\ Idle(s) /\ sockets[s].connected
    /\ Conn[i].used /\ Conn[i].state = "ESTABLISHED"
    /\ n <= Conn[i].recv_len
    /\ tcp' = [tcp EXCEPT !.conn[i].buffer = Shifted(Conn[i], n)]
    /\ hist' = [hist EXCEPT ![i].got = @ \o Bytes(Conn[i], n)]
    /\ sockets' = [sockets EXCEPT ![s].phase = "receiving", ![s].n = n]
    /\ UNCHANGED <<now, tcp_ephemeral_port, dialled, heard, dropped, order, delayed>>

\* recv_len -= copy_len.
FinishReceive(s) ==
    /\ sockets[s].phase = "receiving"
    /\ tcp' = [tcp EXCEPT !.conn[Slot(s)].recv_len = @ - sockets[s].n]
    /\ sockets' = Woken(s)
    /\ UNCHANGED <<now, tcp_ephemeral_port, dialled, heard, hist, dropped, order, delayed>>

\* tcp_close: a FIN may go out, and the slot is free at once.
tcp_close(t, i) == IF t.conn[i].used THEN Release(t, i) ELSE t

\* how is 0 for the receiving side alone: the connection stays as it is.
socket_shutdown_fd(s, how) ==
    LET ends == sockets[s].connected /\ how # 0 IN
    /\ Idle(s)
    /\ tcp' = IF ends THEN tcp_close(tcp, Slot(s)) ELSE tcp
    /\ sockets' = [sockets EXCEPT ![s].connected = @ /\ ~ends, ![s].closing = TRUE]
    /\ UNCHANGED <<now, tcp_ephemeral_port, dialled, heard, hist, dropped, order, delayed>>

\* Closing a socket; a process that ends closes each of its own.
socket_close_fd(s) ==
    /\ Idle(s)
    /\ tcp' = IF sockets[s].connected THEN tcp_close(tcp, Slot(s)) ELSE tcp
    /\ sockets' = [sockets EXCEPT ![s] = NoSocket]
    /\ UNCHANGED <<now, tcp_ephemeral_port, dialled, heard, hist, dropped, order, delayed>>

----------------------------------------------------------------------------
(* The remote machines.  They number their SYN 0 and their bytes from 1. *)

Dial(c, port) ==
    /\ dialled[c].port = 0
    /\ dialled' = [dialled EXCEPT ![c].port = port]
    /\ UNCHANGED <<tcp, sockets, now, tcp_ephemeral_port, heard, hist, dropped, order, delayed>>

\* A client hears a SYN|ACK, and acknowledges it in all it sends.
HearSynAck(c) ==
    /\ dialled[c].ack = 0
    /\ \E h \in heard : /\ h.to = c
                        /\ dialled' = [dialled EXCEPT ![c].ack = h.seq + 1]
    /\ UNCHANGED <<tcp, sockets, now, tcp_ephemeral_port, heard, hist, dropped, order, delayed>>

Segment(flags, seq, ack, n) == [flags |-> flags, seq |-> seq, ack |-> ack, n |-> n]

\* Any cut of the stream into segments, sent again as often as you like, the
\* last with or without the FIN.
StreamSegments(ack) ==
    {Segment({"ACK"}, k, ack, n) : <<k, n>> \in
        {kn \in (1 .. StreamLength + 1) \X (0 .. StreamLength) :
            kn[1] + kn[2] <= StreamLength + 1}}
    \union {Segment({"ACK", "FIN"}, StreamLength + 1 - n, ack, n) : n \in 0 .. 1}

ClientSegments(c) ==
    {Segment({"SYN"}, 0, 0, 0)} \union
    IF dialled[c].ack = 0 THEN {} ELSE StreamSegments(dialled[c].ack)

ServerSegments == {Segment({"SYN", "ACK"}, 0, 0, 0)} \union StreamSegments(0)

----------------------------------------------------------------------------
(* tcp_input, one action per branch.  A segment none of them takes changes
   nothing but last_activity, which is read only of a connection in SYN_SENT. *)

\* A SYN nobody knows: the listener's child, its SYN|ACK sent if it can be.
Child(i, l, peer, port) ==
    tcp_hash_insert([tcp EXCEPT !.conn[i] =
                        [Fresh EXCEPT !.peer = peer, !.port = port, !.parent = l,
                                      !.seq = InitialSeq, !.remote_seq = 1,
                                      !.state = "SYN_RECEIVED"]], i)

\* A repeated SYN makes a second child of the same two ends.
BugKnown(peer, port) == None
Known(peer, port) == tcp_lookup(peer, port)

InputSyn(peer, port, seg) ==
    LET i == tcp_alloc
        l == tcp_find_listener(port)
        t == Child(i, l, peer, port)
    IN
    /\ seg.flags = {"SYN"} /\ Known(peer, port) = None
    /\ l # None /\ i # None
    /\ Conn[l].count < Backlog
    /\ \E ok \in BOOLEAN :
         /\ tcp' = SendSyn(t, i, ok)
         /\ heard' = heard \union HeardSynAck(t, i, ok)
    /\ hist' = [hist EXCEPT ![i] = [NoHistory EXCEPT !.iss = InitialSeq]]
    /\ UNCHANGED <<dropped, order>>

\* The answer to a SYN: seq was moved past the SYN when it was sent, and is
\* moved once more.
InputSynAck(i, seg) ==
    /\ Conn[i].state = "SYN_SENT" /\ {"SYN", "ACK"} \subseteq seg.flags
    /\ tcp' = [tcp EXCEPT !.conn[i].remote_seq = seg.seq + 1,
                          !.conn[i].seq = @ + 1,
                          !.conn[i].last = now,
                          !.conn[i].state = "ESTABLISHED"]
    /\ UNCHANGED <<heard, hist, dropped, order>>

\* Anything else that reaches a connection in SYN_SENT puts off its next SYN.
InputEarly(i, seg) ==
    /\ Conn[i].state = "SYN_SENT" /\ ~({"SYN", "ACK"} \subseteq seg.flags)
    /\ tcp' = [tcp EXCEPT !.conn[i].last = now]
    /\ UNCHANGED <<heard, hist, dropped, order>>

Queued(t, i, l) ==
    [t EXCEPT !.conn[l].pending[(t.conn[l].first + t.conn[l].count) % Backlog] = i,
              !.conn[l].count = @ + 1]

\* The handshake of a child completes: it waits in the listener's queue, or
\* in none when that is full.
InputAck(i, seg) ==
    LET l == Conn[i].parent
        t == [tcp EXCEPT !.conn[i].state = "ESTABLISHED"]
    IN
    /\ Conn[i].state = "SYN_RECEIVED" /\ "ACK" \in seg.flags
    /\ seg.ack = Conn[i].seq
    /\ IF Conn[l].used /\ Conn[l].listener /\ Conn[l].count < Backlog
       THEN /\ tcp' = Queued(t, i, l)
            /\ order' = [order EXCEPT ![l] = Append(@, i)]
            /\ UNCHANGED dropped
       ELSE /\ tcp' = t
            /\ dropped' = dropped \union {i}
            /\ UNCHANGED order
    /\ UNCHANGED <<heard, hist>>

\* Data that was received before is taken again.
BugTaken(c, seg) ==
    IF seg.n > 0 /\ seg.seq <= c.remote_seq THEN Min({seg.n, BufferSize - c.recv_len}) ELSE 0
\* The bytes of a segment that go into the buffer.
Taken(c, seg) ==
    IF seg.n > 0 /\ seg.seq = c.remote_seq THEN Min({seg.n, BufferSize - c.recv_len}) ELSE 0

\* The buffer behind the bytes of a segment, the next byte awaited behind all of it.
Stored(c, seg) ==
    IF Taken(c, seg) = 0 THEN c
    ELSE [c EXCEPT !.buffer = [k \in DOMAIN c.buffer |->
                                 IF k >= c.recv_len /\ k < c.recv_len + Taken(c, seg)
                                 THEN seg.seq + (k - c.recv_len) ELSE c.buffer[k]],
                   !.recv_len = @ + Taken(c, seg),
                   !.remote_seq = @ + seg.n]

Finished(c, seg) ==
    IF "FIN" \in seg.flags /\ seg.seq = c.remote_seq
    THEN [c EXCEPT !.remote_seq = @ + 1, !.state = "FIN_WAIT"]
    ELSE c

Receiving(i) == \E s \in Socks : sockets[s].phase = "receiving" /\ Slot(s) = i

InputData(i, seg) ==
    /\ Conn[i].state = "ESTABLISHED"
    /\ tcp' = [tcp EXCEPT !.conn[i] = Finished(Stored(Conn[i], seg), seg)]
    /\ hist' = [hist EXCEPT ![i].spoiled =
                   @ \/ /\ Taken(Conn[i], seg) > 0
                        /\ Taken(Conn[i], seg) < seg.n \/ Receiving(i)]
    /\ UNCHANGED <<heard, dropped, order>>

tcp_input(peer, port, seg) ==
    /\ \/ InputSyn(peer, port, seg)
       \/ \E i \in {tcp_lookup(peer, port)} \ {None} :
            InputSynAck(i, seg) \/ InputEarly(i, seg) \/ InputAck(i, seg) \/ InputData(i, seg)
    /\ UNCHANGED <<sockets, now, tcp_ephemeral_port, dialled, delayed>>

FromClient(c) ==
    /\ dialled[c].port # 0
    /\ \E seg \in ClientSegments(c) : tcp_input(c, dialled[c].port, seg)

FromServer(v) ==
    \E port \in {h.port : h \in {x \in heard : x.to = v}}, seg \in ServerSegments :
        tcp_input(v, port, seg)

----------------------------------------------------------------------------
(* tcp_poll at the tick. *)

Overdue(c) == c.used /\ c.state = "SYN_SENT" /\ now + 1 - c.last >= 1

PollSlot(t, i, ok) ==
    IF ~Overdue(t.conn[i]) THEN t
    ELSE IF t.conn[i].retries >= MaxRetries
         THEN Release([t EXCEPT !.conn[i].retries = @ + 1], i)
         ELSE [SendSyn(t, i, ok) EXCEPT !.conn[i].retries = @ + 1, !.conn[i].last = now + 1]

tcp_poll(ok) == FoldLeftDomain(LAMBDA t, k : PollSlot(t, k - 1, ok), tcp,
                               [k \in 1 .. MaxConnections |-> k])

\* The SYNs that go out again.
Resent == {i \in Slots : Overdue(Conn[i]) /\ Conn[i].retries < MaxRetries}

TcpTick ==
    /\ now < MaxTicks
    /\ now' = now + 1
    /\ \E ok \in BOOLEAN :
         /\ tcp' = tcp_poll(ok)
         /\ heard' = heard \union UNION {HeardSyn(tcp, i, ok) : i \in Resent}
    /\ delayed' = (delayed \/ \E s \in Socks : TimedOut(s))
    /\ UNCHANGED <<sockets, tcp_ephemeral_port, dialled, hist, dropped, order>>

----------------------------------------------------------------------------
SocketCall(s) ==
    \/ \E port \in ListenPorts : socket_bind_fd(s, port)
    \/ socket_listen_fd(s)
    \/ socket_accept_fd(s)
    \/ \E v \in Servers : socket_connect_fd(s, v)
    \/ FinishConnect(s)
    \/ socket_send_fd(s)
    \/ \E n \in 1 .. BufferSize : BeginReceive(s, n)
    \/ FinishReceive(s)
    \/ \E how \in 0 .. 2 : socket_shutdown_fd(s, how)
    \/ socket_close_fd(s)

TcpNext ==
    \/ socket_create
    \/ \E s \in Socks : SocketCall(s)
    \/ \E c \in Clients, port \in ListenPorts : Dial(c, port)
    \/ \E c \in Clients : HearSynAck(c) \/ FromClient(c)
    \/ \E v \in Servers : FromServer(v)
    \/ TcpTick

----------------------------------------------------------------------------
States == {"CLOSED", "SYN_SENT", "SYN_RECEIVED", "ESTABLISHED", "FIN_WAIT"}

\* Every field stays in its range: the ring's indices, the number of bytes in
\* the buffer, the links of the chains (tcp.c:64-92).
TcpTypeOK ==
    /\ \A b \in DOMAIN tcp.head : tcp.head[b] \in 0 .. MaxConnections
    /\ \A i \in Slots :
         /\ Conn[i].state \in States
         /\ Conn[i].next \in 0 .. MaxConnections
         /\ Conn[i].first \in 0 .. Backlog - 1
         /\ Conn[i].count \in 0 .. Backlog
         /\ Conn[i].recv_len \in 0 .. BufferSize
         /\ Conn[i].retries \in 0 .. MaxRetries + 1
    /\ \A s \in Socks : sockets[s].tcp_id \in 0 .. MaxConnections

\* The chains end, hold every connection that is in use and not a listener,
\* each in the chain of its own hash, and nothing else: a connection is found
\* by its segments exactly as long as it exists (tcp.c:101-131, 177-188).
ChainsExact ==
    \A b \in DOMAIN tcp.head :
        LET walk == Walk(tcp, b) IN
        /\ walk[MaxConnections] = None
        /\ {walk[n] : n \in DOMAIN walk} \ {None} =
           {i \in Slots : /\ Conn[i].used /\ ~Conn[i].listener
                          /\ tcp_tuple_hash(Conn[i].peer, Conn[i].port) = b}

\* However often a SYN is repeated, two connections in use never have the same
\* two ends (tcp.c:424-445).
TuplesUnique ==
    \A i, j \in Slots :
        /\ i # j
        /\ Conn[i].used /\ ~Conn[i].listener /\ Conn[j].used /\ ~Conn[j].listener
        => <<Conn[i].peer, Conn[i].port>> # <<Conn[j].peer, Conn[j].port>>

Connected == {s \in Socks : sockets[s].connected}

\* A connected socket has a connection in use, and one that no other socket
\* has, whatever times out, is closed or is given to someone else meanwhile
\* (socket.c:87-92, 134, 179-191).  Claimed while no connecting process was
\* kept off the processor for a retransmission period after its wait.
OwnsConnection ==
    ~delayed =>
    /\ \A s \in Connected : /\ Conn[Slot(s)].used /\ ~Conn[Slot(s)].listener
                            /\ Conn[Slot(s)].state \in {"ESTABLISHED", "FIN_WAIT"}
    /\ \A s, r \in Connected : s # r => sockets[s].tcp_id # sockets[r].tcp_id

Ring(c) == [k \in 1 .. c.count |-> c.pending[(c.first + k - 1) % Backlog]]

\* A listener's ring holds the connections whose handshakes were completed and
\* that nobody has accepted, oldest first (tcp.c:352-354, 471-473).
AcceptsInOrder ==
    \A l \in Slots : Conn[l].used /\ Conn[l].listener => Ring(Conn[l]) = order[l]

Pending == UNION {ToSet(Ring(Conn[l])) : l \in {x \in Slots : Conn[x].used /\ Conn[x].listener}}
Held == {Slot(s) : s \in Connected}
Opened == {sockets[s].slot : s \in {x \in Socks : sockets[x].phase = "connecting"}}

\* Every open connection is held by one socket, being opened by one, or waits
\* in the queue of a listener of its port; only those that found the queue
\* full belong to nobody (tcp.c:468-475).  Claimed as OwnsConnection is.
NobodyForgotten ==
    ~delayed =>
    \A i \in Slots :
        /\ Conn[i].used /\ Conn[i].state \in {"ESTABLISHED", "FIN_WAIT"}
        => Cardinality({S \in {1, 2, 3, 4} : i \in <<Held, Opened, Pending, dropped>>[S]}) = 1

\* What a socket's user has read, and then the buffer, are the bytes the other
\* end sent, each once and in order, however they were cut into segments,
\* repeated or reordered (tcp.c:382-391, 480-489).  The two ways to lose bytes
\* are excepted: a segment larger than the room left, of which the tail is
\* dropped and acknowledged, and one that arrives while tcp_receive moves the
\* buffer.
StreamExact ==
    \A i \in Slots :
        Conn[i].used /\ Conn[i].state \in {"ESTABLISHED", "FIN_WAIT"} /\ ~hist[i].spoiled =>
        LET moved  == SumSet({sockets[s].n : s \in {x \in Connected : Slot(x) = i}})
            unread == Bytes(Conn[i], Conn[i].recv_len - moved)
            fin    == IF Conn[i].state = "FIN_WAIT" THEN 1 ELSE 0
        IN  hist[i].got \o unread = [k \in 1 .. Conn[i].remote_seq - 1 - fin |-> k]

\* The bytes sent on a connection that was accepted are numbered on from the
\* one after its SYN, the number the other end awaits (tcp.c:263-274, 437-441).
NumbersFollow ==
    \A i \in Slots :
        /\ Conn[i].used /\ Conn[i].state = "ESTABLISHED" /\ Conn[i].peer \in Clients
        => Conn[i].seq = hist[i].iss + 1 + hist[i].sent

\* Segments find their connection: the chains hold each, and one for every two
\* ends (tcp.c:101-131, 177-188, 424-445).
ConnectionsFound == TcpTypeOK /\ ChainsExact /\ TuplesUnique

\* Every connection has one owner, a socket or the queue of a listener, in which
\* they wait in order (socket.c:87-92, 134, 179-191, tcp.c:352-354, 468-475).
ConnectionsOwned == OwnsConnection /\ AcceptsInOrder /\ NobodyForgotten

\* Both directions of a connection are numbered without a gap: what is read is what
\* was sent, what is sent is what the other end awaits (tcp.c:263-274, 382-391,
\* 437-441, 480-489).
StreamsExact == StreamExact /\ NumbersFollow
=============================================================================
