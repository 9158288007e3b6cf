-------------------------------- MODULE Dhcp --------------------------------
(***************************************************************************)
(* The DHCP client (kernel/net/dhcp.c): dhcp_start with its two waits, the *)
(* renewal of the lease at the tick, and the calls that renew and release  *)
(* it by hand.  The server's messages may be lost, late or doubled; the    *)
(* transaction number is a constant, so none is told from an older one.    *)
(*                                                                         *)
(* An acknowledgement gives the times of the lease in seconds; that they   *)
(* are short enough for their ticks to be counted in 32 bits is assumed.   *)
(***************************************************************************)
EXTENDS Integers

CONSTANTS Addresses,      \* what the server gives
          Leases,         \* and for how long: records of lease, t1 and t2
          NoAddress,
          DHCP_TICK_HZ,
          StartTimeout,   \* ticks dhcp_start waits for an answer
          MaxUptime

\* A lease whose times make sense.
Acceptable(l) == l.lease # 0 /\ l.t1 < l.lease /\ l.t2 > l.t1 /\ l.t2 < l.lease

\* No lease is to be rebound before dhcp_start would give up waiting.
ASSUME DhcpAssumption ==
    /\ DHCP_TICK_HZ \in Nat \ {0, 1} /\ StartTimeout \in Nat
    /\ Leases \subseteq [lease : Nat, t1 : Nat, t2 : Nat]
    /\ \A l \in Leases : Acceptable(l) => StartTimeout < l.t2 * DHCP_TICK_HZ

VARIABLES dhcp,      \* the client's variables and the device's lease
          uptime,
          starting,  \* where dhcp_start is: idle, discover or request
          since,     \* the start of its wait
          replies,   \* messages the server has sent
          kept       \* history: the lease was left to the tick since it began

dhcpVars == <<dhcp, uptime, starting, since, replies, kept>>

DhcpInit ==
    /\ dhcp = [state |-> "INIT", message_type |-> 0, done |-> FALSE,
               offer |-> NoAddress, address |-> NoAddress,
               start |-> 0, t1 |-> 0, t2 |-> 0, expiry |-> 0,
               listening |-> FALSE, ticking |-> FALSE]
    /\ uptime = 0
    /\ starting = "idle"
    /\ since = 0
    /\ replies = {}
    /\ kept = FALSE

----------------------------------------------------------------------------
(* The server (external): it offers any address, and grants the one it is
   asked for; to a request for none it gives no answer. *)

NoLease == [lease |-> 0, t1 |-> 0, t2 |-> 0]

Offers == [type : {2}, address : Addresses \ {NoAddress}, lease : {NoLease}]
Grants(address) == [type : {5}, address : {address} \ {NoAddress}, lease : Leases]

\* One of the messages is sent, or none is.
AtMostOne(messages) == {{}} \union {{m} : m \in messages}

----------------------------------------------------------------------------
(* The lease. *)

\* An acknowledgement whose times make no sense changes nothing of the device.
dhcp_apply_ack(d, m) ==
    IF ~Acceptable(m.lease) THEN d
    ELSE [d EXCEPT !.start = uptime, !.t1 = m.lease.t1 * DHCP_TICK_HZ,
                   !.t2 = m.lease.t2 * DHCP_TICK_HZ, !.expiry = m.lease.lease * DHCP_TICK_HZ,
                   !.address = m.address, !.state = "BOUND"]

Renewing(d) == d.state \in {"RENEWING", "REBINDING"}

\* A message reaches the client's port.
dhcp_receive(m) ==
    /\ dhcp.listening
    /\ \/ /\ m.type = 2 /\ dhcp.message_type = 0
          /\ dhcp' = [dhcp EXCEPT !.offer = m.address, !.message_type = 2]
          /\ UNCHANGED kept
       \/ /\ m.type = 5 /\ (dhcp.message_type = 2 \/ Renewing(dhcp))
          /\ dhcp' = [dhcp_apply_ack(dhcp, m) EXCEPT !.message_type = 5, !.done = TRUE]
          /\ kept' = (kept \/ Acceptable(m.lease))
    /\ UNCHANGED <<uptime, starting, since, replies>>

\* The request for an address; the device's state changes before it is sent,
\* and the server may or may not hear it.
Ask(d, address, state) ==
    /\ dhcp' = [d EXCEPT !.state = state]
    /\ \E answers \in AtMostOne(Grants(address)) : replies' = replies \union answers

dhcp_renew ==
    /\ dhcp.address # NoAddress
    /\ Ask([dhcp EXCEPT !.message_type = 0], dhcp.address, "RENEWING")
    /\ kept' = (kept /\ uptime - dhcp.start < dhcp.t2)
    /\ UNCHANGED <<uptime, starting, since>>

\* The device keeps its address when the message could not be sent.
dhcp_release ==
    /\ dhcp.address # NoAddress
    /\ dhcp' = [dhcp EXCEPT !.address = NoAddress, !.state = "INIT", !.expiry = 0]
    /\ UNCHANGED <<uptime, starting, since, replies, kept>>

----------------------------------------------------------------------------
(* dhcp_start. *)

Failed(d) == [d EXCEPT !.listening = FALSE, !.state = "ERROR"]

BeginStart ==
    LET d == [dhcp EXCEPT !.state = "SELECTING", !.done = FALSE, !.message_type = 0,
                          !.offer = NoAddress, !.listening = TRUE]
    IN
    /\ starting = "idle"
    /\ kept' = FALSE
    /\ since' = uptime
    /\ \/ /\ dhcp' = d /\ starting' = "discover"
          /\ \E offers \in AtMostOne(Offers) : replies' = replies \union offers
       \/ dhcp' = Failed(d) /\ UNCHANGED <<starting, replies>>
       \/ /\ ~dhcp.listening        \* the table of UDP listeners is full
          /\ dhcp' = [d EXCEPT !.listening = FALSE]
          /\ UNCHANGED <<starting, replies>>
    /\ UNCHANGED uptime

WaitEnded ==
    \/ starting = "discover" /\ (dhcp.message_type # 0 \/ uptime - since >= StartTimeout)
    \/ starting = "request" /\ (dhcp.done \/ uptime - since >= StartTimeout)

\* The wait for an offer is over: the request is sent, or dhcp_start fails.
EndDiscover ==
    /\ starting = "discover" /\ WaitEnded
    /\ \/ /\ dhcp.message_type = 2
          /\ Ask(dhcp, dhcp.offer, dhcp.state)
          /\ starting' = "request" /\ since' = uptime
          /\ UNCHANGED kept
       \/ /\ dhcp' = Failed(dhcp)
          /\ starting' = "idle" /\ kept' = FALSE
          /\ UNCHANGED <<since, replies>>
    /\ UNCHANGED uptime

\* The wait for the acknowledgement is over.
EndRequest ==
    /\ starting = "request" /\ WaitEnded
    /\ dhcp' = IF dhcp.done THEN [dhcp EXCEPT !.ticking = TRUE]
               ELSE [dhcp EXCEPT !.listening = FALSE]
    /\ starting' = "idle"
    /\ UNCHANGED <<uptime, since, replies, kept>>

----------------------------------------------------------------------------
(* The tick. *)

Elapsed == uptime + 1 - dhcp.start

Ends == Renewing(dhcp) /\ Elapsed >= dhcp.expiry

dhcp_tick ==
    IF dhcp.state = "BOUND" /\ Elapsed >= dhcp.t1 THEN Ask(dhcp, dhcp.address, "RENEWING")
    ELSE IF dhcp.state = "RENEWING" /\ Elapsed >= dhcp.t2
         THEN Ask(dhcp, dhcp.offer, "REBINDING")
    ELSE IF Ends
         THEN /\ dhcp' = [dhcp EXCEPT !.address = NoAddress, !.state = "EXPIRED", !.expiry = 0]
              /\ UNCHANGED replies
    ELSE UNCHANGED <<dhcp, replies>>

\* A process whose wait has ended runs before the next tick: leases are much
\* longer than the time it may have to wait for the processor.
DhcpTick ==
    /\ uptime < MaxUptime /\ ~WaitEnded
    /\ uptime' = uptime + 1
    /\ IF dhcp.ticking /\ dhcp.expiry # 0 THEN dhcp_tick ELSE UNCHANGED <<dhcp, replies>>
    /\ UNCHANGED <<starting, since, kept>>

DhcpNext ==
    \/ BeginStart \/ EndDiscover \/ EndRequest
    \/ \E m \in replies : dhcp_receive(m)
    \/ dhcp_renew \/ dhcp_release
    \/ DhcpTick

----------------------------------------------------------------------------
DhcpStates == {"INIT", "SELECTING", "BOUND", "RENEWING", "REBINDING", "EXPIRED", "ERROR"}

\* The client's variables are of their types (dhcp.c:28-33).
DhcpTypeOK ==
    /\ dhcp.state \in DhcpStates /\ dhcp.message_type \in {0, 2, 5}
    /\ starting \in {"idle", "discover", "request"}
    /\ dhcp.address \in Addresses \union {NoAddress}

\* A bound device has an address and a lease whose times follow one another,
\* an expired or released one has no address, whatever acknowledgements were
\* refused or came late (dhcp.c:94-116, 168-173, 198-204).
LeaseMatchesState ==
    /\ dhcp.state = "BOUND" =>
         dhcp.address # NoAddress /\ dhcp.t1 < dhcp.t2 /\ dhcp.t2 < dhcp.expiry
    /\ dhcp.state \in {"INIT", "EXPIRED"} => dhcp.address = NoAddress

\* No address is used past the end of its lease (dhcp.c:190-205).  Claimed of
\* leases left to the tick: dhcp_start moves the device to states the tick does
\* not look at, and dhcp_renew after t2 moves it back to one that ends later.
LeaseHonoured ==
    /\ kept /\ dhcp.ticking /\ (dhcp.state = "BOUND" \/ Renewing(dhcp))
    => uptime - dhcp.start < dhcp.expiry

\* A device's address and its lease agree, and it is not used past the lease's end
\* (dhcp.c:94-116, 168-205).
LeaseSound == DhcpTypeOK /\ LeaseMatchesState /\ LeaseHonoured
=============================================================================
