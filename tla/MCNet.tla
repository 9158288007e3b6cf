------------------------------- MODULE MCNet -------------------------------
(* The network stack, one part at a time: a state belongs to one part, and
   only the actions of that part are taken in it.  The four parts of TCP are
   a server that many call, one that is stopped and started again, a stream
   of data, and connections opened from here. *)
EXTENDS Tcp, Datagrams, IpAddresses, Ethernet

CONSTANTS Caller,        \* the client of the parts with one client
          FewTicks       \* ticks of the part that stops and starts a server

VARIABLE part

Parts == {"accept", "restart", "stream", "open", "fragments", "queue", "arp", "dhcp", "ethernet"}

vars == <<tcpVars, datagramVars, arpVars, dhcpVars, ethernetVars>>

MCInit ==
    /\ part \in Parts
    /\ tcp_init /\ DatagramsInit /\ arp_init /\ DhcpInit /\ e1000_hw_init

----------------------------------------------------------------------------
\* No data comes and no connection is finished by the other end.
NoData == \A i \in Slots : tcp'.conn[i].recv_len = 0 /\ tcp'.conn[i].state # "FIN_WAIT"

\* A socket that is made, bound and set to listen once.
Serve(s) ==
    \/ socket_create /\ Min(FreeSockets) = s
    \/ /\ sockets[s].port = 0
       /\ \E port \in ListenPorts : socket_bind_fd(s, port)
    \/ socket_listen_fd(s) /\ ~sockets[s].listening

Call(c) ==
    \/ \E port \in ListenPorts : Dial(c, port)
    \/ HearSynAck(c)
    \/ FromClient(c)

\* The end of a connection at this side.
Leave(s) ==
    /\ sockets[s].connected
    /\ socket_close_fd(s) \/ \E how \in 0 .. 2 : socket_shutdown_fd(s, how)

AcceptPart ==
    /\ \/ Serve(0)
       \/ \E s \in Socks : socket_accept_fd(s)
       \/ \E c \in Clients : Call(c)
    /\ NoData

RestartPart ==
    /\ \/ \E s \in {0, 1} : Serve(s) \/ socket_close_fd(s)
       \/ \E s \in Socks : socket_accept_fd(s) \/ Leave(s)
       \/ Call(Caller)
       \/ TcpTick /\ now < FewTicks
    /\ NoData

StreamPart ==
    \/ Serve(0)
    \/ \E s \in Socks : \/ socket_accept_fd(s) \/ socket_send_fd(s)
                        \/ \E n \in 1 .. BufferSize : BeginReceive(s, n)
                        \/ FinishReceive(s) \/ Leave(s)
    \/ Call(Caller)

OpenPart ==
    /\ \/ socket_create /\ ~sockets[1].used
       \/ \E s \in Socks : \/ \E v \in Servers : socket_connect_fd(s, v)
                           \/ FinishConnect(s)
                           \/ socket_shutdown_fd(s, 2) \/ socket_close_fd(s)
       \/ \E v \in Servers : FromServer(v)
       \/ TcpTick
    /\ NoData

TcpPart ==
    \/ part = "accept" /\ AcceptPart
    \/ part = "restart" /\ RestartPart
    \/ part = "stream" /\ StreamPart
    \/ part = "open" /\ OpenPart

----------------------------------------------------------------------------
\* A datagram in any pieces, one cut in two, and the beginning of a third.
Pieces ==
    {p \in {"g1"} \X Cells \X (1 .. GramCells) : p[2] < p[3]}
    \union {<<"g2", 0, 2>>, <<"g2", 2, 3>>, <<"g3", 0, 1>>}

DatagramPart ==
    \/ part = "fragments" /\ arrived = 0 /\ FragmentsNext(Pieces)
    \/ part = "queue" /\ QueueNext

\* Of three hosts one has had two adapters and one does not answer.
Hosts == {<<1, 11>>, <<1, 12>>, <<2, 12>>}

\* A lease in order, one to be renewed at once, and one that is refused.
MCLeases == {[lease |-> 3, t1 |-> 1, t2 |-> 2], [lease |-> 2, t1 |-> 0, t2 |-> 1],
             [lease |-> 2, t1 |-> 1, t2 |-> 1]}

StackVars == <<tcpVars, datagramVars, arpVars, dhcpVars>>

StackNext ==
    \/ TcpPart /\ UNCHANGED <<datagramVars, arpVars, dhcpVars>>
    \/ DatagramPart /\ UNCHANGED <<tcpVars, arpVars, dhcpVars>>
    \/ part = "arp" /\ ArpNext(Hosts) /\ UNCHANGED <<tcpVars, datagramVars, dhcpVars>>
    \/ part = "dhcp" /\ DhcpNext /\ UNCHANGED <<tcpVars, datagramVars, arpVars>>

MCNext ==
    /\ UNCHANGED part
    /\ \/ StackNext /\ UNCHANGED ethernetVars
       \/ part = "ethernet" /\ EthernetNext /\ UNCHANGED StackVars

MCSpec == MCInit /\ [][MCNext]_<<vars, part>>

\* Every connection is found by its addresses, and belongs to the socket that opened or
\* accepted it (tcp.c, socket.c).
ConnectionsSound == ConnectionsFound /\ ConnectionsOwned

\* The card while commands of the shell send, too.
MCShellNext ==
    part = "ethernet" /\ ShellNext /\ UNCHANGED <<StackVars, part>>

MCShellSpec == MCInit /\ part = "ethernet" /\ [][MCShellNext]_<<vars, part>>
=============================================================================
